-------------------------------- MODULE Store --------------------------------
(***************************************************************************)
(* How ctrlz comes into a database and out of it: `init`, which creates and  *)
(* upgrades its tables, `track`, `untrack` and `uninstall`, on SQLite and      *)
(* MySQL, where each statement of them commits by itself.  (On PostgreSQL a   *)
(* trigger is one statement, and its body is a function replaced at the end.) *)
(* Several processes may be at it, and each may die between two statements,    *)
(* while users write to their tables through whatever triggers there are.      *)
(***************************************************************************)
EXTENDS Integers, Sequences

CONSTANTS
  Tables, NoTable,  \* the users' tables, no table
  Procs,            \* ctrlz processes
  Engines,          \* "sqlite", "mysql"
  Undisturbed,      \* uninstall runs alone and to its end
  MaxDeaths         \* bound: processes that die at work

ASSUME ConstantsOK ==
  /\ NoTable \notin Tables
  /\ Engines \subseteq {"sqlite", "mysql"}
  /\ Undisturbed \in BOOLEAN
  /\ MaxDeaths \in Nat

VARIABLES
  engine,    \* the database, which does not change
  store,     \* ctrlz's own tables
  tables,    \* the users' tables that exist
  triggers,  \* the capture triggers of each
  proc,      \* what each process is doing
  deaths     \* processes that died so far

vars == <<engine, store, tables, triggers, proc, deaths>>

-----------------------------------------------------------------------------
(* The store: tables, the columns migrations add to them, an index.  The      *)
(* attribution columns are alike; two stand for the seven.                    *)

Current == 3

InOperations == {"operations.actor", "operations.risk"}
InCurrent    == {"current.actor", "current.risk"}

\* The table that a column or the index belongs to.
Owner(x) == IF x \in InCurrent THEN "current" ELSE "operations"

\* SCHEMA_SQL, SCHEMA_STATEMENTS: "version" is the row that says version 1.
SqliteSchema == <<"settings", "version", "tracked", "operations", "log", "current">>
MySqlSchema  == <<"settings", "tracked", "operations", "log", "version">>
Schema == IF engine = "sqlite" THEN SqliteSchema ELSE MySqlSchema

\* What the migrations add, in their order: attribution, then the index.
MySqlAdditions  == <<"operations.actor", "operations.risk", "index">>
SqliteAdditions == <<"operations.actor", "operations.risk", "current.actor", "current.risk", "index">>

\* Mutant of Additions: the staging table is forgotten.
AdditionsToOperations == MySqlAdditions

Additions == IF engine = "sqlite" THEN SqliteAdditions ELSE MySqlAdditions

\* Where the migrations above a version begin.
FirstPending(version) ==
  IF version < 2 THEN 1 ELSE IF version < 3 THEN Len(Additions) ELSE Len(Additions) + 1

\* What a store of a version has.
Base == {"settings", "tracked", "operations", "log"}
          \cup (IF engine = "sqlite" THEN {"current"} ELSE {})
Attribution == InOperations \cup (IF engine = "sqlite" THEN InCurrent ELSE {})
Has(version) ==
  IF version = 0 THEN {}
  ELSE Base \cup (IF version >= 2 THEN Attribution ELSE {})
            \cup (IF version >= 3 THEN {"index"} ELSE {})

\* What has to exist for a trigger written by version 1, or by this one, to run.
Needs(form) ==
  CASE form = "none" -> {}
    [] form = "old"  -> Base \ {"tracked"}
    [] form = "new"  -> (Base \ {"tracked"}) \cup Attribution

Events == <<"insert", "update", "delete">>
Forms  == {"none", "old", "new"}
All(form) == [n \in 1 .. 3 |-> form]

Initialized == "log" \in store.has

\* Opening a SQLite store that is initialized writes to its staging row.
Opens == engine = "sqlite" /\ Initialized => "current" \in store.has

\* A write to t fails because of a trigger of t.
Broken(t) == t \in tables /\ \E n \in 1 .. 3 : ~(Needs(triggers[t][n]) \subseteq store.has)

-----------------------------------------------------------------------------

Idle == [task |-> "none", pc |-> "idle", at |-> 1, fresh |-> FALSE, rest |-> {},
         table |-> NoTable, remake |-> FALSE, alone |-> FALSE]

Busy == {p \in Procs : proc[p].task # "none"}

Goes(p, changes) == proc' = [proc EXCEPT ![p] = changes]

\* A command of p, from here on beside those of others.
Begins(p, work) ==
  proc' = [q \in Procs |->
             IF q = p THEN [work EXCEPT !.alone = Busy = {}]
             ELSE [proc[q] EXCEPT !.alone = FALSE]]

MayBegin(p, task) ==
  /\ proc[p] = Idle /\ Opens
  /\ Undisturbed => IF task = "uninstall" THEN Busy = {}
                    ELSE \A q \in Procs : proc[q].task # "uninstall"

-----------------------------------------------------------------------------
(* initialize.                                                               *)

InitBegin(p) ==
  /\ MayBegin(p, "init")
  /\ Begins(p, [Idle EXCEPT !.task = "init", !.pc = "schema", !.fresh = ~Initialized])
  /\ UNCHANGED <<engine, store, tables, triggers, deaths>>

\* A statement of the schema, each with IF NOT EXISTS.
Create(p) ==
  LET x == Schema[proc[p].at]
  IN  /\ proc[p].pc = "schema"
      /\ x = "version" => "settings" \in store.has
      /\ store' = IF x = "version" THEN [store EXCEPT !.version = IF @ = 0 THEN 1 ELSE @]
                  ELSE IF x \in store.has THEN store
                  ELSE [store EXCEPT !.has = @ \cup {x} \cup (IF x = "current" THEN InCurrent ELSE {})]
      /\ Goes(p, IF proc[p].at < Len(Schema) THEN [proc[p] EXCEPT !.at = @ + 1]
                 ELSE [proc[p] EXCEPT !.pc = "pending", !.at = 1])
      /\ UNCHANGED <<engine, tables, triggers, deaths>>

\* Mutant of ReadVersion: the new version is noted down at once.
ReadVersionStamping(p) ==
  /\ proc[p].pc = "pending" /\ "settings" \in store.has
  /\ store' = [store EXCEPT !.version = Current]
  /\ Goes(p, [proc[p] EXCEPT !.pc = "migrating", !.at = FirstPending(store.version)])
  /\ UNCHANGED <<engine, tables, triggers, deaths>>

ReadVersion(p) ==
  /\ proc[p].pc = "pending" /\ "settings" \in store.has
  /\ Goes(p, [proc[p] EXCEPT !.pc = "migrating", !.at = FirstPending(store.version)])
  /\ UNCHANGED <<engine, store, tables, triggers, deaths>>

\* What is there already is not added again; the catalogue is asked first.
Look(p) ==
  /\ proc[p].pc = "migrating" /\ proc[p].at <= Len(Additions)
  /\ Goes(p, IF Additions[proc[p].at] \in store.has
             THEN [proc[p] EXCEPT !.at = @ + 1] ELSE [proc[p] EXCEPT !.pc = "adding"])
  /\ UNCHANGED <<engine, store, tables, triggers, deaths>>

\* ADD COLUMN and MySQL's CREATE INDEX fail if somebody was faster.
CanAdd(x) ==
  /\ Owner(x) \in store.has
  /\ x \notin store.has \/ (x = "index" /\ engine = "sqlite")

Add(p) ==
  /\ proc[p].pc = "adding" /\ CanAdd(Additions[proc[p].at])
  /\ store' = [store EXCEPT !.has = @ \cup {Additions[proc[p].at]}]
  /\ Goes(p, [proc[p] EXCEPT !.pc = "migrating", !.at = @ + 1])
  /\ UNCHANGED <<engine, tables, triggers, deaths>>

Migrated(p) == proc[p].pc = "migrating" /\ proc[p].at > Len(Additions)

\* Mutant of Stamp: triggers are only rebuilt when there was something to add.
StampAndStop(p) ==
  /\ Migrated(p) /\ "settings" \in store.has
  /\ store' = [store EXCEPT !.version = Current]
  /\ Goes(p, [proc[p] EXCEPT !.at = 1, !.pc = IF proc[p].fresh \/ store.version = Current
                                              THEN "next" ELSE "listing"])
  /\ UNCHANGED <<engine, tables, triggers, deaths>>

\* Then the triggers are rebuilt, for they name the columns they write.
Stamp(p) ==
  /\ Migrated(p) /\ "settings" \in store.has
  /\ store' = [store EXCEPT !.version = Current]
  /\ Goes(p, [proc[p] EXCEPT !.at = 1, !.pc = IF proc[p].fresh THEN "next" ELSE "listing"])
  /\ UNCHANGED <<engine, tables, triggers, deaths>>

\* tracked(): for initialize and for uninstall.
ReadTracked(p) ==
  /\ proc[p].pc = "listing" /\ Initialized /\ "tracked" \in store.has
  /\ Goes(p, [proc[p] EXCEPT !.pc = "next", !.rest = store.tracked])
  /\ UNCHANGED <<engine, store, tables, triggers, deaths>>

\* track(), or untrack() if the table has been dropped since, or has lost the
\* columns it is known by.
NextTable(p) ==
  /\ proc[p].pc = "next" /\ Initialized
  /\ \E t \in proc[p].rest, known \in BOOLEAN :
       Goes(p, [proc[p] EXCEPT !.pc = "dropping", !.table = t, !.rest = @ \ {t},
                               !.remake = proc[p].task = "init" /\ t \in tables /\ known])
  /\ UNCHANGED <<engine, store, tables, triggers, deaths>>

-----------------------------------------------------------------------------
(* track and untrack, as commands and from within the others.                *)

TrackBegin(p) ==
  /\ MayBegin(p, "track") /\ Initialized
  /\ \E t \in tables :
       Begins(p, [Idle EXCEPT !.task = "track", !.pc = "dropping", !.table = t, !.remake = TRUE])
  /\ UNCHANGED <<engine, store, tables, triggers, deaths>>

UntrackBegin(p) ==
  /\ MayBegin(p, "untrack") /\ Initialized
  /\ \E t \in Tables :
       Begins(p, [Idle EXCEPT !.task = "untrack", !.pc = "dropping", !.table = t])
  /\ UNCHANGED <<engine, store, tables, triggers, deaths>>

\* Event by event, then on to the next step.
Stepped(p, pc) ==
  IF proc[p].at < Len(Events) THEN [proc[p] EXCEPT !.at = @ + 1]
  ELSE [proc[p] EXCEPT !.pc = pc, !.at = 1]

DropTrigger(p) ==
  /\ proc[p].pc = "dropping"
  /\ triggers' = [triggers EXCEPT ![proc[p].table][proc[p].at] = "none"]
  /\ Goes(p, Stepped(p, "unlisting"))
  /\ UNCHANGED <<engine, store, tables, deaths>>

Unlist(p) ==
  /\ proc[p].pc = "unlisting" /\ "tracked" \in store.has
  /\ store' = [store EXCEPT !.tracked = @ \ {proc[p].table}]
  /\ Goes(p, IF proc[p].remake THEN [proc[p] EXCEPT !.pc = "creating"]
             ELSE [proc[p] EXCEPT !.pc = "next", !.table = NoTable])
  /\ UNCHANGED <<engine, tables, triggers, deaths>>

CanCreate(t, n) == t \in tables /\ triggers[t][n] = "none"

CreateTrigger(p) ==
  /\ proc[p].pc = "creating" /\ CanCreate(proc[p].table, proc[p].at)
  /\ triggers' = [triggers EXCEPT ![proc[p].table][proc[p].at] = "new"]
  /\ Goes(p, Stepped(p, "enlisting"))
  /\ UNCHANGED <<engine, store, tables, deaths>>

Enlist(p) ==
  /\ proc[p].pc = "enlisting" /\ "tracked" \in store.has
  /\ store' = [store EXCEPT !.tracked = @ \cup {proc[p].table}]
  /\ Goes(p, [proc[p] EXCEPT !.pc = "next", !.table = NoTable, !.remake = FALSE])
  /\ UNCHANGED <<engine, tables, triggers, deaths>>

-----------------------------------------------------------------------------
(* uninstall.                                                                *)

UninstallBegin(p) ==
  /\ MayBegin(p, "uninstall") /\ Initialized
  /\ Begins(p, [Idle EXCEPT !.task = "uninstall", !.pc = "listing"])
  /\ UNCHANGED <<engine, store, tables, triggers, deaths>>

\* Nothing left to track or untrack: the command is over, or nearly so.
Finish(p) ==
  /\ proc[p].pc = "next" /\ proc[p].rest = {}
  /\ Goes(p, IF proc[p].task = "uninstall" THEN [proc[p] EXCEPT !.pc = "removing"] ELSE Idle)
  /\ UNCHANGED <<engine, store, tables, triggers, deaths>>

Removal == IF engine = "sqlite" THEN <<"log", "operations", "tracked", "current", "settings">>
                                ELSE <<"log", "operations", "tracked", "settings">>

\* DROP TABLE IF EXISTS takes along what belongs to the table.
Remove(p) ==
  LET x == Removal[proc[p].at]
  IN  /\ proc[p].pc = "removing"
      /\ store' = [has     |-> store.has \ ({x} \cup (IF x = "operations" THEN InOperations \cup {"index"}
                                                      ELSE IF x = "current" THEN InCurrent ELSE {})),
                   version |-> IF x = "settings" THEN 0 ELSE store.version,
                   tracked |-> IF x = "tracked" THEN {} ELSE store.tracked]
      /\ Goes(p, IF proc[p].at < Len(Removal) THEN [proc[p] EXCEPT !.at = @ + 1] ELSE Idle)
      /\ UNCHANGED <<engine, tables, triggers, deaths>>

-----------------------------------------------------------------------------
(* What goes wrong.                                                          *)

\* The next statement of p raises.
Raises(p) ==
  LET w == proc[p]
  IN  \/ w.pc = "schema" /\ Schema[w.at] = "version" /\ "settings" \notin store.has
      \/ w.pc = "pending" /\ "settings" \notin store.has
      \/ Migrated(p) /\ "settings" \notin store.has
      \/ w.pc = "adding" /\ ~CanAdd(Additions[w.at])
      \/ w.pc = "listing" /\ ~(Initialized /\ "tracked" \in store.has)
      \/ w.pc = "next" /\ w.rest # {} /\ ~Initialized
      \/ w.pc \in {"unlisting", "enlisting"} /\ "tracked" \notin store.has
      \/ w.pc = "creating" /\ ~CanCreate(w.table, w.at)

\* The command ends there, except that uninstall goes on with the next table.
Fail(p) ==
  /\ Raises(p)
  /\ Goes(p, IF proc[p].task = "uninstall" /\ proc[p].pc = "unlisting"
             THEN [proc[p] EXCEPT !.pc = "next", !.table = NoTable]
             ELSE IF proc[p].task = "uninstall" /\ proc[p].pc = "next"
             THEN [proc[p] EXCEPT !.rest = {}]
             ELSE Idle)
  /\ UNCHANGED <<engine, store, tables, triggers, deaths>>

Die(p) ==
  /\ proc[p].task # "none" /\ deaths < MaxDeaths
  /\ Undisturbed => proc[p].task # "uninstall"
  /\ Goes(p, Idle) /\ deaths' = deaths + 1
  /\ UNCHANGED <<engine, store, tables, triggers>>

\* A user drops a table, and with it its triggers.
DropTable ==
  /\ \E t \in tables : /\ tables' = tables \ {t}
                       /\ triggers' = [triggers EXCEPT ![t] = All("none")]
  /\ UNCHANGED <<engine, store, proc, deaths>>

-----------------------------------------------------------------------------

\* A database without ctrlz, or with the store of any version, in use.
Init ==
  /\ engine \in Engines
  /\ \E version \in 0 .. Current, tracked \in SUBSET Tables :
       /\ version = 0 => tracked = {}
       /\ store = [has |-> Has(version), version |-> version, tracked |-> tracked]
       /\ triggers = [t \in Tables |-> All(IF t \notin tracked THEN "none"
                                           ELSE IF version = 1 THEN "old" ELSE "new")]
  /\ tables = Tables
  /\ proc = [p \in Procs |-> Idle]
  /\ deaths = 0

Step(p) ==
  \/ InitBegin(p) \/ Create(p) \/ ReadVersion(p) \/ Look(p) \/ Add(p) \/ Stamp(p)
  \/ ReadTracked(p) \/ NextTable(p) \/ TrackBegin(p) \/ UntrackBegin(p) \/ DropTrigger(p)
  \/ Unlist(p) \/ CreateTrigger(p) \/ Enlist(p) \/ UninstallBegin(p) \/ Finish(p) \/ Remove(p)
  \/ Fail(p) \/ Die(p)

Next == DropTable \/ \E p \in Procs : Step(p)

Spec == Init /\ [][Next]_vars

-----------------------------------------------------------------------------
(* What the lifecycle promises.                                              *)

\* The shapes of the store, of the triggers and of what processes remember.
Objects == {"settings", "tracked", "operations", "log", "current", "index"}
             \cup InOperations \cup InCurrent
Work == [task : {"none", "init", "track", "untrack", "uninstall"},
         pc : {"idle", "schema", "pending", "migrating", "adding", "listing", "next", "dropping",
               "unlisting", "creating", "enlisting", "removing"},
         at : 1 .. 6, fresh : BOOLEAN, rest : SUBSET Tables,
         table : Tables \cup {NoTable}, remake : BOOLEAN, alone : BOOLEAN]
TypeOK ==
  /\ engine \in Engines
  /\ store \in [has : SUBSET Objects, version : 0 .. Current, tracked : SUBSET Tables]
  /\ tables \subseteq Tables
  /\ triggers \in [Tables -> [1 .. 3 -> Forms]]
  /\ proc \in [Procs -> Work]
  /\ deaths \in 0 .. MaxDeaths

Uninstalling == \E p \in Procs : proc[p].task = "uninstall"

\* A store that says it is of the current version has everything the migrations
\* add, whoever upgrades it at the same time and wherever they die
\* (sqlite.py:194-208): no later init would add what is missing.
VersionIsTrue ==
  Initialized /\ store.version = Current /\ ~Uninstalling => Has(Current) \subseteq store.has

\* When an init that nobody interfered with is through, the tables on the list
\* have all three triggers, of its own making, whatever earlier attempts left
\* behind (sqlite.py:216-221).
InitRebuilds ==
  \A p \in Procs :
     /\ proc[p].task = "init" /\ proc[p].alone
     /\ proc[p].pc = "next" /\ proc[p].rest = {}
     => \A t \in store.tracked \cap tables : triggers[t] = All("new")

\* "must never take your database offline while it happens": no step of an init
\* makes users' writes to a table fail that went through before.
InitBreaksNoWrites ==
  [][\A p \in Procs : proc[p].task = "init" /\ proc'[p] # proc[p] =>
       \A t \in Tables : Broken(t)' => Broken(t)]_vars

\* The same of every step.  It fails: track on a store that has not been
\* upgraded installs triggers that name columns it does not have.
WritesGoThrough == [][\A t \in Tables : Broken(t)' => Broken(t)]_vars

\* A store can be opened when nobody is at work on it.  It fails: an init of a
\* SQLite store that dies before its last table leaves one that cannot be.
AlwaysOpens == Busy = {} => Opens

\* What an init found on the list of tracked tables is on it when the init is
\* over, dropped tables aside.  It fails: one that dies while it rebuilds the
\* triggers of a table leaves it off the list, and no later init knows of it.
TablesStayTracked ==
  [][\A p \in Procs : /\ proc[p].task = "init" /\ proc[p].alone /\ proc'[p] = Idle
                       /\ proc[p].table \in tables
                       => proc[p].table \in store.tracked]_vars
=============================================================================
