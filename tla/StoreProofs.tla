----------------------------- MODULE StoreProofs -----------------------------
(***************************************************************************)
(* Proofs about Store, for any tables, processes and deaths, of either       *)
(* database; where an uninstall runs alone and to its end, as Undisturbed     *)
(* says, for all but the types.                                              *)
(*                                                                         *)
(* The store only grows then, except under an uninstall, beside which there  *)
(* is nothing to keep.  So what an init has seen or made stays, whoever else  *)
(* is at work.                                                               *)
(***************************************************************************)
EXTENDS Store, TLAPS

-----------------------------------------------------------------------------
(* The lists of the two databases.                                           *)

\* What the proofs use of the schema, the migrations and the removal.
Lists ==
  /\ Len(Schema) \in 1 .. 6
  /\ \A i \in 1 .. Len(Schema) : Schema[i] \in Objects \cup {"version"}
  /\ \A x \in Base : \E i \in 1 .. Len(Schema) : Schema[i] = x
  /\ Len(Additions) \in 1 .. 5
  /\ \A i \in 1 .. Len(Additions) : Additions[i] \in Objects
  /\ \A x \in Attribution : \E i \in 1 .. Len(Additions) : Additions[i] = x
  /\ Additions[Len(Additions)] = "index"
  /\ Len(Removal) \in 4 .. 5
  /\ Removal[1] = "log" /\ Removal[3] = "tracked" /\ Removal[Len(Removal)] = "settings"

LEMMA ListsHold ==
  ASSUME engine \in Engines
  PROVE  Lists
<1>1. CASE engine = "sqlite"
  <2>1. /\ Schema = SqliteSchema /\ Len(SqliteSchema) = 6
        /\ Base = {"settings", "tracked", "operations", "log", "current"}
    BY <1>1 DEF Schema, SqliteSchema, Base
  <2>2. /\ \A i \in 1 .. Len(Schema) : Schema[i] \in Objects \cup {"version"}
        /\ \A x \in Base : \E i \in 1 .. Len(Schema) : Schema[i] = x
    BY <2>1 DEF SqliteSchema, Objects
  <2>3. /\ Additions = SqliteAdditions /\ Len(SqliteAdditions) = 5
        /\ Attribution = {"operations.actor", "operations.risk", "current.actor", "current.risk"}
    BY <1>1 DEF Additions, SqliteAdditions, Attribution, InOperations, InCurrent
  <2>4. /\ \A i \in 1 .. Len(Additions) : Additions[i] \in Objects
        /\ \A x \in Attribution : \E i \in 1 .. Len(Additions) : Additions[i] = x
        /\ Additions[Len(Additions)] = "index"
    BY <2>3 DEF SqliteAdditions, Objects, InOperations, InCurrent
  <2>5. /\ Len(Removal) = 5
        /\ Removal[1] = "log" /\ Removal[3] = "tracked" /\ Removal[Len(Removal)] = "settings"
    BY <1>1 DEF Removal
  <2>6. QED
    BY <2>1, <2>2, <2>3, <2>4, <2>5 DEF Lists
<1>2. CASE engine = "mysql"
  <2>1. /\ Schema = MySqlSchema /\ Len(MySqlSchema) = 5
        /\ Base = {"settings", "tracked", "operations", "log"}
    BY <1>2 DEF Schema, MySqlSchema, Base
  <2>2. /\ \A i \in 1 .. Len(Schema) : Schema[i] \in Objects \cup {"version"}
        /\ \A x \in Base : \E i \in 1 .. Len(Schema) : Schema[i] = x
    BY <2>1 DEF MySqlSchema, Objects
  <2>3. /\ Additions = MySqlAdditions /\ Len(MySqlAdditions) = 3
        /\ Attribution = {"operations.actor", "operations.risk"}
    BY <1>2 DEF Additions, MySqlAdditions, Attribution, InOperations, InCurrent
  <2>4. /\ \A i \in 1 .. Len(Additions) : Additions[i] \in Objects
        /\ \A x \in Attribution : \E i \in 1 .. Len(Additions) : Additions[i] = x
        /\ Additions[Len(Additions)] = "index"
    BY <2>3 DEF MySqlAdditions, Objects, InOperations, InCurrent
  <2>5. /\ Len(Removal) = 4
        /\ Removal[1] = "log" /\ Removal[3] = "tracked" /\ Removal[Len(Removal)] = "settings"
    BY <1>2 DEF Removal
  <2>6. QED
    BY <2>1, <2>2, <2>3, <2>4, <2>5 DEF Lists
<1>3. QED
  BY <1>1, <1>2, ConstantsOK

-----------------------------------------------------------------------------
(* Types, and what a process at a step has in hand.                          *)

Upgrading == {"schema", "pending", "migrating", "adding"}
AtTable   == {"dropping", "unlisting", "creating", "enlisting"}

WorkOK(p) ==
  LET w == proc[p]
  IN  /\ w.task = "none" => w = Idle
      /\ w.pc = "idle" => w.task = "none"
      /\ w.pc \in Upgrading => w.task = "init"
      /\ w.pc = "listing" => w.task \in {"init", "uninstall"}
      /\ w.pc = "removing" => w.task = "uninstall"
      /\ w.remake => w.task \in {"init", "track"} /\ w.pc \in AtTable
      /\ w.pc \in {"creating", "enlisting"} => w.remake
      /\ w.pc \in AtTable => w.table \in Tables
      /\ w.pc = "schema" => w.at <= Len(Schema)
      /\ w.pc = "migrating" => w.at <= Len(Additions) + 1
      /\ w.pc = "adding" => w.at <= Len(Additions)
      /\ w.pc \in {"dropping", "creating"} => w.at <= 3
      /\ w.pc = "removing" => w.at <= Len(Removal)
      /\ w.pc \in {"idle", "pending", "listing", "next", "unlisting", "enlisting"} => w.at = 1

TypeInv == TypeOK /\ \A p \in Procs : WorkOK(p)

LEMMA IdleIsWork == Idle \in Work
BY DEF Idle, Work

\* A step of p alone, to work that is in order.
LEMMA GoesTyped ==
  ASSUME TypeInv, NEW p \in Procs, NEW w \in Work, Goes(p, w), engine' = engine, WorkOK(p)'
  PROVE  proc' \in [Procs -> Work] /\ \A q \in Procs : WorkOK(q)'
<1>1. proc' \in [Procs -> Work] /\ \A q \in Procs \ {p} : proc'[q] = proc[q]
  BY DEF TypeInv, TypeOK, Goes
<1>2. \A q \in Procs \ {p} : WorkOK(q)'
  BY <1>1 DEF TypeInv, WorkOK, Schema, Additions, Removal
<1>3. QED
  BY <1>1, <1>2

LEMMA LastIdle ==
  ASSUME TypeInv, NEW p \in Procs, Goes(p, Idle)
  PROVE  WorkOK(p)'
<1>1. proc'[p] = Idle
  BY DEF TypeInv, TypeOK, Goes
<1>2. QED
  BY <1>1 DEF WorkOK, Idle, Upgrading, AtTable

LEMMA BeginsTyped ==
  ASSUME TypeInv, NEW p \in Procs, NEW w \in Work, Begins(p, w), engine' = engine,
         proc'[p] = [w EXCEPT !.alone = Busy = {}] => WorkOK(p)'
  PROVE  proc' \in [Procs -> Work] /\ \A q \in Procs : WorkOK(q)'
<1>1. proc'[p] = [w EXCEPT !.alone = Busy = {}]
  BY DEF Begins
<1>2. \A q \in Procs \ {p} : proc'[q] = [proc[q] EXCEPT !.alone = FALSE]
  BY DEF Begins
<1>3. (Busy = {}) \in BOOLEAN
  OBVIOUS
<1>4. [w EXCEPT !.alone = Busy = {}] \in Work
  BY <1>3 DEF Work
<1>5. \A q \in Procs \ {p} : [proc[q] EXCEPT !.alone = FALSE] \in Work
  BY DEF TypeInv, TypeOK, Work
<1>6. proc' \in [Procs -> Work]
  BY <1>1, <1>2, <1>4, <1>5 DEF Begins
<1>7. \A q \in Procs \ {p} : WorkOK(q)'
  <2> SUFFICES ASSUME NEW q \in Procs \ {p}
               PROVE  WorkOK(q)'
    OBVIOUS
  <2>1. WorkOK(q) /\ proc[q] \in Work
    BY DEF TypeInv, TypeOK
  <2>2. proc[q].task = "none" => proc'[q] = Idle
    BY <1>2, <2>1 DEF WorkOK, Idle
  <2>3. QED
    BY <1>2, <2>1, <2>2 DEF WorkOK, Work, Schema, Additions, Removal
<1>8. QED
  BY <1>1, <1>6, <1>7

LEMMA Next6 ==
  ASSUME NEW at \in 1 .. 6, NEW n \in 1 .. 6, NEW m \in 1 .. 5,
         at < n \/ at \in 1 .. m
  PROVE  at + 1 \in 1 .. 6
OBVIOUS

\* Where the provers need help: several fields change, one of them to 1.
LEMMA FieldsChange ==
  ASSUME NEW w \in Work
  PROVE  /\ \A pc \in {"pending", "unlisting", "enlisting"} : [w EXCEPT !.pc = pc, !.at = 1] \in Work
         /\ w.at + 1 \in 1 .. 6 => [w EXCEPT !.at = @ + 1] \in Work
         /\ w.at + 1 \in 1 .. 6 => [w EXCEPT !.pc = "migrating", !.at = @ + 1] \in Work
         /\ \A at \in 1 .. 6 : [w EXCEPT !.pc = "migrating", !.at = at] \in Work
         /\ [w EXCEPT !.pc = "adding"] \in Work
         /\ [w EXCEPT !.at = 1, !.pc = IF w.fresh THEN "next" ELSE "listing"] \in Work
<1> DEFINE one == 1
           next == IF w.fresh THEN "next" ELSE "listing"
<1>1. one \in 1 .. 6 /\ next \in {"next", "listing"}
  OBVIOUS
<1> HIDE DEF one, next
<1>2. \A pc \in {"pending", "unlisting", "enlisting"} : [w EXCEPT !.pc = pc, !.at = one] \in Work
  BY <1>1 DEF Work
<1>3. [w EXCEPT !.at = one, !.pc = next] \in Work
  BY <1>1 DEF Work
<1>4. w.at + 1 \in 1 .. 6 => [w EXCEPT !.at = @ + 1] \in Work
  BY DEF Work
<1>5. \A at \in 1 .. 6 : [w EXCEPT !.pc = "migrating", !.at = at] \in Work
  BY DEF Work
<1>6. w.at + 1 \in 1 .. 6 => [w EXCEPT !.pc = "migrating", !.at = @ + 1] \in Work
  BY DEF Work
<1>7. [w EXCEPT !.pc = "adding"] \in Work
  BY DEF Work
<1>8. QED
  BY <1>2, <1>3, <1>4, <1>5, <1>6, <1>7 DEF one, next

LEMMA CommandsBegin ==
  ASSUME NEW t \in Tables \cup {NoTable}, NEW b \in BOOLEAN
  PROVE  /\ [Idle EXCEPT !.task = "init", !.pc = "schema", !.fresh = b] \in Work
         /\ [Idle EXCEPT !.task = "track", !.pc = "dropping", !.table = t, !.remake = TRUE] \in Work
         /\ [Idle EXCEPT !.task = "untrack", !.pc = "dropping", !.table = t] \in Work
BY IdleIsWork DEF Work

LEMMA UninstallBegins == [Idle EXCEPT !.task = "uninstall", !.pc = "listing"] \in Work
BY IdleIsWork DEF Work

\* What InitBegin to Stamp do.
LEMMA UpgradeTyped ==
  ASSUME TypeInv, NEW p \in Procs,
         InitBegin(p) \/ Create(p) \/ ReadVersion(p) \/ Look(p) \/ Add(p) \/ Stamp(p)
  PROVE  TypeInv'
<1> DEFINE w == proc[p]
<1>1. w \in Work /\ WorkOK(p) /\ Lists /\ engine' = engine
  BY ListsHold DEF TypeInv, TypeOK, InitBegin, Create, ReadVersion, Look, Add, Stamp
<1>2. /\ Len(Schema)' = Len(Schema) /\ Len(Additions)' = Len(Additions)
      /\ Len(Removal)' = Len(Removal)
  BY <1>1 DEF Schema, Additions, Removal
<1> SUFFICES /\ proc' \in [Procs -> Work] /\ \A q \in Procs : WorkOK(q)'
             /\ store' \in [has : SUBSET Objects, version : 0 .. Current, tracked : SUBSET Tables]
  BY DEF TypeInv, TypeOK, InitBegin, Create, ReadVersion, Look, Add, Stamp
<1>3. CASE InitBegin(p)
  <2> DEFINE v == [Idle EXCEPT !.task = "init", !.pc = "schema", !.fresh = ~Initialized]
  <2>1. Initialized \in BOOLEAN
    BY DEF Initialized
  <2>2. v \in Work /\ Begins(p, v)
    <3>1. Begins(p, v)
      BY <1>3 DEF InitBegin
    <3>2. v \in Work
      BY <2>1, CommandsBegin
    <3>3. QED
      BY <3>1, <3>2
  <2>3. proc'[p] = [v EXCEPT !.alone = Busy = {}] => WorkOK(p)'
    BY <1>1, <1>2 DEF WorkOK, Idle, Lists, Upgrading, AtTable
  <2>4. QED
    BY <1>1, <1>3, <2>2, <2>3, BeginsTyped DEF InitBegin, TypeInv, TypeOK
<1>4. CASE Create(p)
  <2> DEFINE v == IF w.at < Len(Schema) THEN [w EXCEPT !.at = @ + 1]
                  ELSE [w EXCEPT !.pc = "pending", !.at = 1]
  <2>1. Goes(p, v) /\ w.pc = "schema" /\ w.at \in 1 .. Len(Schema)
    BY <1>1, <1>4 DEF Create, WorkOK, Work
  <2>2. v \in Work /\ proc'[p] = v
    <3>1. v \in Work
      <4>1. w.at \in 1 .. 6 /\ Len(Schema) \in 1 .. 6 /\ Len(Additions) \in 1 .. 5
        BY <1>1 DEF Work, Lists
      <4>2. w \in Work /\ (w.at + 1 \in 1 .. 6 => [w EXCEPT !.at = @ + 1] \in Work)
            /\ (w.at + 1 \in 1 .. 6 => [w EXCEPT !.pc = "migrating", !.at = @ + 1] \in Work)
            /\ [w EXCEPT !.pc = "adding"] \in Work /\ [w EXCEPT !.pc = "pending", !.at = 1] \in Work
        BY <1>1, FieldsChange, Zenon
      <4>3. w.at + 1 \in 1 .. 6 \/ ~(w.at < Len(Schema) \/ w.at \in 1 .. Len(Additions))
        BY <4>1, Next6
      <4>4. QED
        BY <2>1, <4>2, <4>3
    <3>2. proc'[p] = v
      BY <2>1 DEF Goes, TypeInv, TypeOK
    <3>3. QED
      BY <3>1, <3>2
  <2>3. WorkOK(p)'
    BY <1>1, <1>2, <2>1, <2>2 DEF WorkOK, Work, Lists, Upgrading, AtTable, Idle
  <2>4. Schema[w.at] \in Objects \cup {"version"} /\ InCurrent \subseteq Objects
    BY <1>1, <2>1 DEF Lists, Objects
  <2>5. store' \in [has : SUBSET Objects, version : 0 .. Current, tracked : SUBSET Tables]
    BY <1>4, <2>4 DEF Create, TypeInv, TypeOK, Current
  <2>6. QED
    BY <1>1, <2>1, <2>2, <2>3, <2>5, GoesTyped
<1>5. CASE ReadVersion(p)
  <2> DEFINE v == [w EXCEPT !.pc = "migrating", !.at = FirstPending(store.version)]
  <2>1. Goes(p, v) /\ w.pc = "pending" /\ UNCHANGED store
    BY <1>5 DEF ReadVersion
  <2>2. FirstPending(store.version) \in 1 .. Len(Additions) + 1
    BY <1>1 DEF FirstPending, Lists, TypeInv, TypeOK, Current
  <2>3. v \in Work /\ proc'[p] = v
    <3>1. v \in Work
      <4>1. FirstPending(store.version) \in 1 .. 6
        BY <1>1, <2>2 DEF Lists
      <4>2. QED
        BY <1>1, <4>1, FieldsChange
    <3>2. proc'[p] = v
      BY <2>1 DEF Goes, TypeInv, TypeOK
    <3>3. QED
      BY <3>1, <3>2
  <2>4. WorkOK(p)'
    BY <1>1, <1>2, <2>1, <2>2, <2>3 DEF WorkOK, Work, Lists, Upgrading, AtTable, Idle
  <2>5. QED
    BY <1>1, <2>1, <2>3, <2>4, GoesTyped DEF TypeInv, TypeOK
<1>6. CASE Look(p)
  <2> DEFINE v == IF Additions[w.at] \in store.has
                  THEN [w EXCEPT !.at = @ + 1] ELSE [w EXCEPT !.pc = "adding"]
  <2>1. Goes(p, v) /\ w.pc = "migrating" /\ w.at \in 1 .. Len(Additions) /\ UNCHANGED store
    BY <1>1, <1>6 DEF Look, Work
  <2>2. v \in Work /\ proc'[p] = v
    <3>1. v \in Work
      <4>1. w.at \in 1 .. 6 /\ Len(Schema) \in 1 .. 6 /\ Len(Additions) \in 1 .. 5
        BY <1>1 DEF Work, Lists
      <4>2. w \in Work /\ (w.at + 1 \in 1 .. 6 => [w EXCEPT !.at = @ + 1] \in Work)
            /\ (w.at + 1 \in 1 .. 6 => [w EXCEPT !.pc = "migrating", !.at = @ + 1] \in Work)
            /\ [w EXCEPT !.pc = "adding"] \in Work /\ [w EXCEPT !.pc = "pending", !.at = 1] \in Work
        BY <1>1, FieldsChange, Zenon
      <4>3. w.at + 1 \in 1 .. 6 \/ ~(w.at < Len(Schema) \/ w.at \in 1 .. Len(Additions))
        BY <4>1, Next6
      <4>4. QED
        BY <2>1, <4>2, <4>3
    <3>2. proc'[p] = v
      BY <2>1 DEF Goes, TypeInv, TypeOK
    <3>3. QED
      BY <3>1, <3>2
  <2>3. WorkOK(p)'
    BY <1>1, <1>2, <2>1, <2>2 DEF WorkOK, Work, Lists, Upgrading, AtTable, Idle
  <2>4. QED
    BY <1>1, <2>1, <2>2, <2>3, GoesTyped DEF TypeInv, TypeOK
<1>7. CASE Add(p)
  <2> DEFINE v == [w EXCEPT !.pc = "migrating", !.at = @ + 1]
  <2>1. Goes(p, v) /\ w.pc = "adding" /\ w.at \in 1 .. Len(Additions)
    BY <1>1, <1>7 DEF Add, Work, WorkOK
  <2>2. v \in Work /\ proc'[p] = v
    <3>1. v \in Work
      <4>1. w.at \in 1 .. 6 /\ Len(Schema) \in 1 .. 6 /\ Len(Additions) \in 1 .. 5
        BY <1>1 DEF Work, Lists
      <4>2. w \in Work /\ (w.at + 1 \in 1 .. 6 => [w EXCEPT !.at = @ + 1] \in Work)
            /\ (w.at + 1 \in 1 .. 6 => [w EXCEPT !.pc = "migrating", !.at = @ + 1] \in Work)
            /\ [w EXCEPT !.pc = "adding"] \in Work /\ [w EXCEPT !.pc = "pending", !.at = 1] \in Work
        BY <1>1, FieldsChange, Zenon
      <4>3. w.at + 1 \in 1 .. 6 \/ ~(w.at < Len(Schema) \/ w.at \in 1 .. Len(Additions))
        BY <4>1, Next6
      <4>4. QED
        BY <2>1, <4>2, <4>3
    <3>2. proc'[p] = v
      BY <2>1 DEF Goes, TypeInv, TypeOK
    <3>3. QED
      BY <3>1, <3>2
  <2>3. WorkOK(p)'
    BY <1>1, <1>2, <2>1, <2>2 DEF WorkOK, Work, Lists, Upgrading, AtTable, Idle
  <2>4. store' \in [has : SUBSET Objects, version : 0 .. Current, tracked : SUBSET Tables]
    BY <1>1, <1>7, <2>1 DEF Add, Lists, TypeInv, TypeOK
  <2>5. QED
    BY <1>1, <2>1, <2>2, <2>3, <2>4, GoesTyped
<1>8. CASE Stamp(p)
  <2> DEFINE v == [w EXCEPT !.at = 1, !.pc = IF w.fresh THEN "next" ELSE "listing"]
  <2>1. Goes(p, v) /\ w.pc = "migrating"
    BY <1>8 DEF Stamp, Migrated
  <2>2. v \in Work /\ proc'[p] = v
    BY <1>1, <2>1, FieldsChange DEF Goes, TypeInv, TypeOK
  <2>3. WorkOK(p)'
    BY <1>1, <2>1, <2>2 DEF WorkOK, Work, Upgrading, AtTable, Idle
  <2>4. store' \in [has : SUBSET Objects, version : 0 .. Current, tracked : SUBSET Tables]
    BY <1>8 DEF Stamp, TypeInv, TypeOK, Current
  <2>5. QED
    BY <1>1, <2>1, <2>2, <2>3, <2>4, GoesTyped
<1>9. QED
  BY <1>3, <1>4, <1>5, <1>6, <1>7, <1>8

\* What the trackings and untrackings do, in whatever command.
LEMMA TrackingChange ==
  ASSUME NEW w \in Work, NEW t \in Tables \cup {NoTable}, NEW b \in BOOLEAN
  PROVE  /\ \A rest \in SUBSET Tables : [w EXCEPT !.pc = "next", !.rest = rest] \in Work
         /\ [w EXCEPT !.pc = "dropping", !.table = t, !.rest = @ \ {t}, !.remake = b] \in Work
         /\ w.at < 5 => [w EXCEPT !.at = @ + 1] \in Work
         /\ [w EXCEPT !.pc = "creating"] \in Work
         /\ [w EXCEPT !.pc = "next", !.table = NoTable] \in Work
         /\ [w EXCEPT !.pc = "next", !.table = NoTable, !.remake = FALSE] \in Work
         /\ [w EXCEPT !.rest = {}] \in Work
         /\ [w EXCEPT !.pc = "removing"] \in Work
<1>1. \A rest \in SUBSET Tables : [w EXCEPT !.pc = "next", !.rest = rest] \in Work
  BY DEF Work
<1>2. [w EXCEPT !.pc = "dropping", !.table = t, !.rest = @ \ {t}, !.remake = b] \in Work
  BY DEF Work
<1>3. w.at < 5 => [w EXCEPT !.at = @ + 1] \in Work
  BY DEF Work
<1>4. [w EXCEPT !.pc = "creating"] \in Work
  BY DEF Work
<1>5. [w EXCEPT !.pc = "next", !.table = NoTable] \in Work
  BY DEF Work
<1>6. [w EXCEPT !.pc = "next", !.table = NoTable, !.remake = FALSE] \in Work
  BY DEF Work
<1>7. [w EXCEPT !.rest = {}] \in Work
  BY DEF Work
<1>8. [w EXCEPT !.pc = "removing"] \in Work
  BY DEF Work
<1>9. QED
  BY <1>1, <1>2, <1>3, <1>4, <1>5, <1>6, <1>7, <1>8

LEMMA EventStep ==
  ASSUME NEW w \in Work, NEW pc \in {"unlisting", "enlisting"}
  PROVE  (IF w.at < Len(Events) THEN [w EXCEPT !.at = @ + 1] ELSE [w EXCEPT !.pc = pc, !.at = 1]) \in Work
<1>1. w.at < Len(Events) => w.at < 5
  BY DEF Events, Work
<1>2. w.at < 5 => [w EXCEPT !.at = @ + 1] \in Work
  BY TrackingChange
<1>3. [w EXCEPT !.pc = pc, !.at = 1] \in Work
  BY FieldsChange
<1>4. QED
  BY <1>1, <1>2, <1>3

LEMMA TrackingTyped ==
  ASSUME TypeInv, NEW p \in Procs,
         \/ ReadTracked(p) \/ NextTable(p) \/ TrackBegin(p) \/ UntrackBegin(p) \/ DropTrigger(p)
         \/ Unlist(p) \/ CreateTrigger(p) \/ Enlist(p)
  PROVE  TypeInv'
<1> DEFINE w == proc[p]
<1>1. w \in Work /\ WorkOK(p) /\ engine' = engine
  BY DEF TypeInv, TypeOK, ReadTracked, NextTable, TrackBegin, UntrackBegin, DropTrigger,
         Unlist, CreateTrigger, Enlist
<1>2. /\ Len(Schema)' = Len(Schema) /\ Len(Additions)' = Len(Additions)
      /\ Len(Removal)' = Len(Removal)
  BY <1>1 DEF Schema, Additions, Removal
<1>3. /\ store.tracked \in SUBSET Tables /\ store.has \in SUBSET Objects
      /\ store.version \in 0 .. Current /\ tables \subseteq Tables
      /\ store = [has |-> store.has, version |-> store.version, tracked |-> store.tracked]
      /\ triggers \in [Tables -> [1 .. 3 -> Forms]]
  BY DEF TypeInv, TypeOK
<1> SUFFICES /\ proc' \in [Procs -> Work] /\ \A q \in Procs : WorkOK(q)'
             /\ store' \in [has : SUBSET Objects, version : 0 .. Current, tracked : SUBSET Tables]
             /\ triggers' \in [Tables -> [1 .. 3 -> Forms]]
  BY DEF TypeInv, TypeOK, ReadTracked, NextTable, TrackBegin, UntrackBegin, DropTrigger,
         Unlist, CreateTrigger, Enlist
<1> DEFINE Same == UNCHANGED <<store, triggers>>
<1>4. Same => /\ store' \in [has : SUBSET Objects, version : 0 .. Current, tracked : SUBSET Tables]
              /\ triggers' \in [Tables -> [1 .. 3 -> Forms]]
  BY DEF TypeInv, TypeOK
<1>5. \A v \in Work : Goes(p, v) => proc'[p] = v
  BY DEF Goes, TypeInv, TypeOK
<1>6. CASE ReadTracked(p)
  <2> DEFINE v == [w EXCEPT !.pc = "next", !.rest = store.tracked]
  <2>1. Goes(p, v) /\ w.pc = "listing" /\ Same
    BY <1>6 DEF ReadTracked
  <2>2. v \in Work
    BY <1>1, <1>3, TrackingChange
  <2>3. proc'[p] = v
    BY <1>5, <2>1, <2>2
  <2>4. WorkOK(p)'
    BY <1>1, <2>1, <2>3 DEF WorkOK, Work, Upgrading, AtTable, Idle
  <2>5. QED
    BY <1>1, <1>4, <2>1, <2>2, <2>4, GoesTyped
<1>7. CASE NextTable(p)
  <2>1. PICK t \in w.rest, known \in BOOLEAN :
          Goes(p, [w EXCEPT !.pc = "dropping", !.table = t, !.rest = @ \ {t},
                            !.remake = w.task = "init" /\ t \in tables /\ known])
    BY <1>7 DEF NextTable
  <2> DEFINE b == w.task = "init" /\ t \in tables /\ known
             v == [w EXCEPT !.pc = "dropping", !.table = t, !.rest = @ \ {t}, !.remake = b]
  <2>2. w.pc = "next" /\ Same /\ t \in Tables
    BY <1>1, <1>7 DEF NextTable, Work
  <2>3. v \in Work
    <3>1. b \in BOOLEAN
      OBVIOUS
    <3> HIDE DEF b
    <3>2. QED
      BY <1>1, <2>2, <3>1, TrackingChange
  <2>4. proc'[p] = v
    BY <1>5, <2>1, <2>3
  <2>5. WorkOK(p)'
    <3>1. /\ proc'[p].task = w.task /\ proc'[p].pc = "dropping" /\ proc'[p].table = t
          /\ proc'[p].at = w.at /\ proc'[p].remake = b
      BY <1>1, <2>4 DEF Work
    <3>2. QED
      BY <1>1, <2>2, <3>1 DEF WorkOK, Work, Upgrading, AtTable, Idle
  <2>6. QED
    BY <1>1, <1>4, <2>1, <2>2, <2>3, <2>5, GoesTyped
<1>8. CASE TrackBegin(p)
  <2>1. PICK t \in tables :
          Begins(p, [Idle EXCEPT !.task = "track", !.pc = "dropping", !.table = t, !.remake = TRUE])
    BY <1>8 DEF TrackBegin
  <2> DEFINE v == [Idle EXCEPT !.task = "track", !.pc = "dropping", !.table = t, !.remake = TRUE]
  <2>2. v \in Work /\ t \in Tables /\ Same
    BY <1>3, <1>8, CommandsBegin DEF TrackBegin
  <2>3. proc'[p] = [v EXCEPT !.alone = Busy = {}] => WorkOK(p)'
    BY <2>2 DEF WorkOK, Idle, Upgrading, AtTable
  <2>4. QED
    BY <1>1, <1>4, <2>1, <2>2, <2>3, BeginsTyped
<1>9. CASE UntrackBegin(p)
  <2>1. PICK t \in Tables : Begins(p, [Idle EXCEPT !.task = "untrack", !.pc = "dropping", !.table = t])
    BY <1>9 DEF UntrackBegin
  <2> DEFINE v == [Idle EXCEPT !.task = "untrack", !.pc = "dropping", !.table = t]
  <2>2. v \in Work /\ Same
    BY <1>9, CommandsBegin DEF UntrackBegin
  <2>3. proc'[p] = [v EXCEPT !.alone = Busy = {}] => WorkOK(p)'
    BY <2>2 DEF WorkOK, Idle, Upgrading, AtTable
  <2>4. QED
    BY <1>1, <1>4, <2>1, <2>2, <2>3, BeginsTyped
<1>10. CASE DropTrigger(p)
  <2>1. Goes(p, Stepped(p, "unlisting")) /\ w.pc = "dropping" /\ UNCHANGED store
    BY <1>10 DEF DropTrigger
  <2>2. Stepped(p, "unlisting") \in Work
    BY <1>1, EventStep DEF Stepped
  <2>3. proc'[p] = Stepped(p, "unlisting")
    BY <1>5, <2>1, <2>2
  <2>4. WorkOK(p)'
    BY <1>1, <2>1, <2>3 DEF WorkOK, Work, Upgrading, AtTable, Idle, Stepped, Events
  <2>5. triggers' \in [Tables -> [1 .. 3 -> Forms]]
    BY <1>3, <1>10 DEF DropTrigger, Forms
  <2>6. QED
    BY <1>1, <1>3, <2>1, <2>2, <2>4, <2>5, GoesTyped
<1>11. CASE Unlist(p)
  <2> DEFINE v == IF w.remake THEN [w EXCEPT !.pc = "creating"]
                  ELSE [w EXCEPT !.pc = "next", !.table = NoTable]
  <2>1. Goes(p, v) /\ w.pc = "unlisting" /\ UNCHANGED triggers
    BY <1>11 DEF Unlist
  <2>2. v \in Work
    BY <1>1, TrackingChange
  <2>3. proc'[p] = v
    BY <1>5, <2>1, <2>2
  <2>4. WorkOK(p)'
    BY <1>1, <2>1, <2>3 DEF WorkOK, Work, Upgrading, AtTable, Idle
  <2>5. store' \in [has : SUBSET Objects, version : 0 .. Current, tracked : SUBSET Tables]
    BY <1>11 DEF Unlist, TypeInv, TypeOK
  <2>6. QED
    BY <1>1, <1>3, <2>1, <2>2, <2>4, <2>5, GoesTyped
<1>12. CASE CreateTrigger(p)
  <2>1. Goes(p, Stepped(p, "enlisting")) /\ w.pc = "creating" /\ UNCHANGED store
    BY <1>12 DEF CreateTrigger
  <2>2. Stepped(p, "enlisting") \in Work
    BY <1>1, EventStep DEF Stepped
  <2>3. proc'[p] = Stepped(p, "enlisting")
    BY <1>5, <2>1, <2>2
  <2>4. WorkOK(p)'
    BY <1>1, <2>1, <2>3 DEF WorkOK, Work, Upgrading, AtTable, Idle, Stepped, Events
  <2>5. triggers' \in [Tables -> [1 .. 3 -> Forms]]
    BY <1>3, <1>12 DEF CreateTrigger, Forms
  <2>6. QED
    BY <1>1, <1>3, <2>1, <2>2, <2>4, <2>5, GoesTyped
<1>13. CASE Enlist(p)
  <2> DEFINE v == [w EXCEPT !.pc = "next", !.table = NoTable, !.remake = FALSE]
  <2>1. Goes(p, v) /\ w.pc = "enlisting" /\ UNCHANGED triggers
    BY <1>13 DEF Enlist
  <2>2. v \in Work
    BY <1>1, TrackingChange
  <2>3. proc'[p] = v
    BY <1>5, <2>1, <2>2
  <2>4. WorkOK(p)'
    BY <1>1, <2>1, <2>3 DEF WorkOK, Work, Upgrading, AtTable, Idle
  <2>5. store' \in [has : SUBSET Objects, version : 0 .. Current, tracked : SUBSET Tables]
    BY <1>1, <2>1, <1>13 DEF Enlist, TypeInv, TypeOK, WorkOK, AtTable
  <2>6. QED
    BY <1>1, <1>3, <2>1, <2>2, <2>4, <2>5, GoesTyped
<1>14. QED
  BY <1>6, <1>7, <1>8, <1>9, <1>10, <1>11, <1>12, <1>13

LEMMA ChangesTyped ==
  ASSUME TypeInv, NEW p \in Procs,
         UninstallBegin(p) \/ Finish(p) \/ Remove(p) \/ Fail(p) \/ Die(p)
  PROVE  TypeInv'
<1> DEFINE w == proc[p]
<1>1. w \in Work /\ WorkOK(p) /\ Lists /\ engine' = engine
  BY ListsHold DEF TypeInv, TypeOK, UninstallBegin, Finish, Remove, Fail, Die
<1>2. /\ Len(Schema)' = Len(Schema) /\ Len(Additions)' = Len(Additions)
      /\ Len(Removal)' = Len(Removal)
  BY <1>1 DEF Schema, Additions, Removal
<1>3. deaths' \in 0 .. MaxDeaths
  BY ConstantsOK DEF TypeInv, TypeOK, UninstallBegin, Finish, Remove, Fail, Die
<1> SUFFICES /\ proc' \in [Procs -> Work] /\ \A q \in Procs : WorkOK(q)'
             /\ store' \in [has : SUBSET Objects, version : 0 .. Current, tracked : SUBSET Tables]
  BY <1>3 DEF TypeInv, TypeOK, UninstallBegin, Finish, Remove, Fail, Die
<1>4. UNCHANGED store =>
        store' \in [has : SUBSET Objects, version : 0 .. Current, tracked : SUBSET Tables]
  BY DEF TypeInv, TypeOK
<1>5. \A v \in Work : Goes(p, v) => proc'[p] = v
  BY DEF Goes, TypeInv, TypeOK
<1>6. CASE UninstallBegin(p)
  <2> DEFINE v == [Idle EXCEPT !.task = "uninstall", !.pc = "listing"]
  <2>1. v \in Work /\ Begins(p, v) /\ UNCHANGED store
    BY <1>6, UninstallBegins DEF UninstallBegin
  <2>2. proc'[p] = [v EXCEPT !.alone = Busy = {}] => WorkOK(p)'
    BY DEF WorkOK, Idle, Upgrading, AtTable
  <2>3. QED
    BY <1>1, <1>4, <2>1, <2>2, BeginsTyped
<1>7. CASE Finish(p)
  <2> DEFINE v == IF w.task = "uninstall" THEN [w EXCEPT !.pc = "removing"] ELSE Idle
  <2>1. Goes(p, v) /\ w.pc = "next" /\ UNCHANGED store
    BY <1>7 DEF Finish
  <2>2. v \in Work
    BY <1>1, TrackingChange, IdleIsWork
  <2>3. proc'[p] = v
    BY <1>5, <2>1, <2>2
  <2>4. WorkOK(p)'
    BY <1>1, <1>2, <2>1, <2>3 DEF WorkOK, Work, Lists, Upgrading, AtTable, Idle
  <2>5. QED
    BY <1>1, <1>4, <2>1, <2>2, <2>4, GoesTyped
<1>8. CASE Remove(p)
  <2> DEFINE v == IF w.at < Len(Removal) THEN [w EXCEPT !.at = @ + 1] ELSE Idle
  <2>1. Goes(p, v) /\ w.pc = "removing"
    BY <1>8 DEF Remove
  <2>2. v \in Work
    <3>1. w.at < Len(Removal) => w.at < 5
      <4>1. w.at \in 1 .. 6 /\ Len(Removal) \in 4 .. 5
        BY <1>1 DEF Work, Lists
      <4>2. \A at \in 1 .. 6, n \in 4 .. 5 : at < n => at < 5
        OBVIOUS
      <4>3. QED
        BY <4>1, <4>2
    <3>2. QED
      BY <1>1, <3>1, TrackingChange, IdleIsWork
  <2>3. proc'[p] = v
    BY <1>5, <2>1, <2>2
  <2>4. WorkOK(p)'
    BY <1>1, <1>2, <2>1, <2>3 DEF WorkOK, Work, Lists, Upgrading, AtTable, Idle
  <2>5. store' \in [has : SUBSET Objects, version : 0 .. Current, tracked : SUBSET Tables]
    BY <1>8 DEF Remove, TypeInv, TypeOK, Current
  <2>6. QED
    BY <1>1, <2>1, <2>2, <2>4, <2>5, GoesTyped
<1>9. CASE Fail(p)
  <2> DEFINE v == IF w.task = "uninstall" /\ w.pc = "unlisting"
                  THEN [w EXCEPT !.pc = "next", !.table = NoTable]
                  ELSE IF w.task = "uninstall" /\ w.pc = "next" THEN [w EXCEPT !.rest = {}]
                  ELSE Idle
  <2>1. Goes(p, v) /\ UNCHANGED store
    BY <1>9 DEF Fail
  <2>2. v \in Work
    BY <1>1, TrackingChange, IdleIsWork
  <2>3. proc'[p] = v
    BY <1>5, <2>1, <2>2
  <2>4. WorkOK(p)'
    BY <1>1, <1>2, <2>1, <2>3 DEF WorkOK, Work, Lists, Upgrading, AtTable, Idle
  <2>5. QED
    BY <1>1, <1>4, <2>1, <2>2, <2>4, GoesTyped
<1>10. CASE Die(p)
  BY <1>1, <1>4, <1>10, LastIdle, IdleIsWork, GoesTyped DEF Die
<1>11. QED
  BY <1>6, <1>7, <1>8, <1>9, <1>10

LEMMA TypesHold == Spec => []TypeInv
<1>1. Init => TypeInv
  <2> SUFFICES ASSUME Init
               PROVE  TypeInv
    OBVIOUS
  <2>1. \A v \in 0 .. Current : Has(v) \subseteq Objects
    BY DEF Has, Base, Attribution, Objects, InOperations, InCurrent, Current
  <2>2. store \in [has : SUBSET Objects, version : 0 .. Current, tracked : SUBSET Tables]
    BY <2>1 DEF Init
  <2>3. triggers \in [Tables -> [1 .. 3 -> Forms]]
    BY DEF Init, All, Forms
  <2>4. proc \in [Procs -> Work] /\ \A p \in Procs : proc[p] = Idle
    BY IdleIsWork DEF Init
  <2>5. \A p \in Procs : WorkOK(p)
    BY <2>4 DEF WorkOK, Idle, Upgrading, AtTable
  <2>6. QED
    BY <2>2, <2>3, <2>4, <2>5, ConstantsOK DEF Init, TypeInv, TypeOK
<1>2. TypeInv /\ [Next]_vars => TypeInv'
  <2> SUFFICES ASSUME TypeInv, [Next]_vars
               PROVE  TypeInv'
    OBVIOUS
  <2>1. CASE UNCHANGED vars
    BY <2>1 DEF vars, TypeInv, TypeOK, WorkOK, Schema, Additions, Removal
  <2>2. CASE DropTable
    <3>1. triggers' \in [Tables -> [1 .. 3 -> Forms]]
      BY <2>2 DEF DropTable, All, Forms, TypeInv, TypeOK
    <3>2. QED
      BY <2>2, <3>1 DEF DropTable, TypeInv, TypeOK, WorkOK, Schema, Additions, Removal
  <2>3. ASSUME NEW p \in Procs, Step(p)
        PROVE  TypeInv'
    BY <2>3, UpgradeTyped, TrackingTyped, ChangesTyped DEF Step
  <2>4. QED
    BY <2>1, <2>2, <2>3 DEF Next
<1>3. QED
  BY <1>1, <1>2, PTL DEF Spec

\* The store, the triggers and what processes remember keep their shapes,
\* whatever runs beside whatever, fails and dies (sqlite.py:183-249, 322-396,
\* mysql.py:263-339, 436-523).
THEOREM TypeCorrect == Spec => []TypeOK
<1>1. TypeInv => TypeOK
  BY DEF TypeInv
<1>2. QED
  BY <1>1, TypesHold, PTL

-----------------------------------------------------------------------------
(* The inductive invariant, where uninstall is undisturbed.                  *)

Alone(p) == \A q \in Procs \ {p} : proc[q].task = "none"

\* How far an init has brought the store.
InitOK(p) ==
  LET w == proc[p]
  IN  w.task = "init" =>
        /\ w.pc = "schema" =>
             \A i \in 1 .. 6 : i < w.at => Schema[i] \in store.has \cup {"version"}
        /\ w.pc \in {"pending", "migrating", "adding"} => Base \subseteq store.has
        /\ w.pc \in {"migrating", "adding"} =>
             \A x \in Has(Current) : x \in store.has
                                     \/ \E i \in 1 .. Len(Additions) : i >= w.at /\ Additions[i] = x
        /\ w.pc \notin Upgrading => Has(Current) \subseteq store.has

\* How far an uninstall has taken it apart.
RemovalOK(p) ==
  proc[p].pc = "removing" => /\ proc[p].at > 1 => ~Initialized
                             /\ proc[p].at > 3 => store.tracked = {}

\* How far an init without company has remade the triggers.
Remade(t) == triggers[t] = All("new")
RebuildOK(p) ==
  LET w == proc[p]
  IN  w.task = "init" /\ w.alone =>
        /\ w.fresh /\ w.pc \in Upgrading => store.tracked = {}
        /\ w.pc = "next" => \A t \in store.tracked \cap tables : t \in w.rest \/ Remade(t)
        /\ w.pc \in AtTable =>
             \A t \in store.tracked \cap tables : t \in w.rest \/ t = w.table \/ Remade(t)
        /\ w.pc = "creating" /\ w.table \in tables =>
             \A n \in 1 .. 3 : n < w.at => triggers[w.table][n] = "new"
        /\ w.pc = "enlisting" /\ w.table \in tables => Remade(w.table)

\* Only an initialized store has tables tracked.
ListOK(p) == proc[p].pc \in AtTable /\ proc[p].task # "uninstall" => Initialized

CompanyOK(p) == proc[p].alone \/ proc[p].task = "uninstall" => Alone(p)

ProcOK(p) == InitOK(p) /\ RemovalOK(p) /\ RebuildOK(p) /\ ListOK(p) /\ CompanyOK(p)

\* The store while it is not being removed.
Sound ==
  (\A p \in Procs : proc[p].pc # "removing") =>
     /\ store.version >= 2 => Has(store.version) \subseteq store.has
     /\ ~Initialized => store.tracked = {}

IInv == TypeInv /\ (\A p \in Procs : ProcOK(p)) /\ Sound

-----------------------------------------------------------------------------
(* A step leaves the others as they are.                                     *)

\* Of a process that goes on with its command, or ends it.
LEMMA OthersStay ==
  ASSUME IInv, TypeInv', NEW p \in Procs, proc[p].task # "none", engine' = engine,
         \A q \in Procs \ {p} : proc'[q] = proc[q],
         \/ proc'[p] = Idle
         \/ proc'[p].task = proc[p].task /\ proc'[p].alone = proc[p].alone,
         proc[p].task = "uninstall" \/ store.has \subseteq store'.has
  PROVE  CompanyOK(p)' /\ \A q \in Procs \ {p} : ProcOK(q)'
<1>1. CompanyOK(p)'
  BY DEF IInv, ProcOK, CompanyOK, Alone, Idle
<1>2. ASSUME NEW q \in Procs \ {p}
      PROVE  ProcOK(q)'
  <2>1. proc'[q] = proc[q] /\ q \in Procs /\ ProcOK(q) /\ WorkOK(q)
    BY DEF IInv, TypeInv
  <2>2. ~proc[q].alone /\ proc[q].task # "uninstall"
    BY <2>1 DEF ProcOK, CompanyOK, Alone
  <2>3. proc[q].pc # "removing"
    BY <2>1, <2>2 DEF WorkOK
  <2>4. CASE proc[q].task = "none"
    BY <2>1, <2>2, <2>4 DEF ProcOK, InitOK, RemovalOK, RebuildOK, ListOK, CompanyOK, WorkOK, Idle, AtTable
  <2>5. CASE proc[q].task # "none"
    <3>1. store.has \subseteq store'.has
      BY <2>1, <2>5 DEF IInv, ProcOK, CompanyOK, Alone
    <3>2. /\ Schema' = Schema /\ Base' = Base /\ Has(Current)' = Has(Current)
          /\ Additions' = Additions
      BY DEF Schema, Base, Has, Current, Attribution, Additions
    <3>3. InitOK(q)'
      BY <2>1, <3>1, <3>2 DEF ProcOK, InitOK, Current
    <3>4. ListOK(q)'
      BY <2>1, <3>1 DEF ProcOK, ListOK, Initialized
    <3>5. QED
      BY <2>1, <2>2, <2>3, <3>3, <3>4 DEF ProcOK, RemovalOK, RebuildOK, CompanyOK
  <2>6. QED
    BY <2>4, <2>5
<1>3. QED
  BY <1>1, <1>2

\* Of one that begins a command.
LEMMA OthersMeet ==
  ASSUME IInv, TypeInv', NEW p \in Procs, NEW w \in Work, Begins(p, w), Undisturbed, MayBegin(p, w.task),
         w.task # "none", UNCHANGED <<engine, store, tables, triggers, deaths>>
  PROVE  CompanyOK(p)' /\ \A q \in Procs \ {p} : ProcOK(q)'
<1>1. /\ proc'[p].alone = (Busy = {}) /\ proc'[p].task = w.task
      /\ \A q \in Procs \ {p} : proc'[q] = [proc[q] EXCEPT !.alone = FALSE]
  BY DEF Begins, Work
<1>2. Busy = {} => Alone(p)'
  BY <1>1 DEF Busy, Alone, IInv, TypeInv, TypeOK, Work
<1>3. CompanyOK(p)'
  BY <1>1, <1>2 DEF CompanyOK, MayBegin
<1>4. ASSUME NEW q \in Procs \ {p}
      PROVE  ProcOK(q)'
  <2>1. /\ proc'[q] = [proc[q] EXCEPT !.alone = FALSE] /\ q \in Procs /\ proc[q] \in Work
        /\ ProcOK(q) /\ WorkOK(q)
    BY <1>1 DEF IInv, TypeInv, TypeOK
  <2>2. /\ proc'[q].task = proc[q].task /\ proc'[q].pc = proc[q].pc /\ proc'[q].at = proc[q].at
        /\ ~proc'[q].alone
    BY <2>1 DEF Work
  <2>3. proc[q].task # "uninstall"
    BY DEF MayBegin, Busy
  <2>4. InitOK(q)' /\ RemovalOK(q)' /\ ListOK(q)'
    BY <2>1, <2>2 DEF ProcOK, InitOK, RemovalOK, ListOK, Initialized, Has, Base, Attribution,
       Schema, Additions, Upgrading, AtTable, Current
  <2>5. QED
    BY <2>2, <2>3, <2>4 DEF ProcOK, RebuildOK, CompanyOK
<1>5. QED
  BY <1>3, <1>4

\* So a step of p need only keep what is said of p and of the store.
LEMMA StepKeeps ==
  ASSUME IInv, TypeInv', NEW p \in Procs, proc[p].task # "none",
         \A q \in Procs \ {p} : proc'[q] = proc[q],
         \/ proc'[p] = Idle
         \/ proc'[p].task = proc[p].task /\ proc'[p].alone = proc[p].alone,
         engine' = engine, proc[p].task = "uninstall" \/ store.has \subseteq store'.has,
         InitOK(p)', RemovalOK(p)', RebuildOK(p)', ListOK(p)', Sound'
  PROVE  IInv'
<1>1. CompanyOK(p)' /\ \A q \in Procs \ {p} : ProcOK(q)'
  BY OthersStay
<1>2. QED
  BY <1>1 DEF IInv, ProcOK

LEMMA Went ==
  ASSUME IInv, NEW p \in Procs, NEW w, Goes(p, w)
  PROVE  proc'[p] = w /\ \A q \in Procs \ {p} : proc'[q] = proc[q]
BY DEF Goes, IInv, TypeInv, TypeOK

\* A process that ends has nothing left to keep.
LEMMA EndKeeps ==
  ASSUME IInv, TypeInv', NEW p \in Procs, proc[p].task # "none", Goes(p, Idle),
         proc[p].pc # "removing", UNCHANGED <<engine, store, tables, triggers>>
  PROVE  IInv'
<1>1. proc'[p] = Idle /\ \A q \in Procs \ {p} : proc'[q] = proc[q]
  BY Went
<1>2. InitOK(p)' /\ RemovalOK(p)' /\ RebuildOK(p)' /\ ListOK(p)'
  BY <1>1 DEF InitOK, RemovalOK, RebuildOK, ListOK, Idle, AtTable
<1>3. Sound'
  BY <1>1 DEF IInv, Sound, Initialized, Has, Base, Attribution
<1>4. engine' = engine /\ store.has \subseteq store'.has
  OBVIOUS
<1>5. QED
  BY <1>1, <1>2, <1>3, <1>4, StepKeeps

\* The steps of a process while its store is not being removed keep Sound if
\* they keep what it says.
LEMMA SoundStays ==
  ASSUME IInv, NEW p \in Procs, proc[p].pc # "removing",
         \A q \in Procs \ {p} : proc'[q].pc = proc[q].pc,
         engine' = engine, store.has \subseteq store'.has,
         store'.version = store.version, Initialized' = Initialized, ~Initialized => store'.tracked = {}
  PROVE  Sound'
<1>1. Has(store.version)' = Has(store.version)
  BY DEF Has, Base, Attribution
<1>2. QED
  BY <1>1 DEF IInv, Sound

-----------------------------------------------------------------------------
(* The steps of init.                                                        *)

LEMMA Lengths ==
  ASSUME TypeInv
  PROVE  Lists /\ Has(Current) = Base \cup Attribution \cup {"index"}
BY ListsHold DEF TypeInv, TypeOK, Has, Current

LEMMA InitBeginInv ==
  ASSUME IInv, TypeInv', Undisturbed, NEW p \in Procs, InitBegin(p)
  PROVE  IInv'
<1> DEFINE v == [Idle EXCEPT !.task = "init", !.pc = "schema", !.fresh = ~Initialized]
<1>1. /\ Begins(p, v) /\ MayBegin(p, "init") /\ UNCHANGED <<engine, store, tables, triggers, deaths>>
      /\ v \in Work /\ v.task = "init"
  <2>1. Initialized \in BOOLEAN
    BY DEF Initialized
  <2>2. v \in Work
    BY <2>1, CommandsBegin
  <2>3. QED
    BY <2>2 DEF InitBegin, Idle
<1>2. CompanyOK(p)' /\ \A q \in Procs \ {p} : ProcOK(q)'
  <2> HIDE DEF v
  <2>1. QED
    BY <1>1, OthersMeet
<1>3. /\ proc'[p].task = "init" /\ proc'[p].pc = "schema" /\ proc'[p].at = 1
      /\ proc'[p].fresh = ~Initialized
  BY <1>1 DEF Begins, Idle
<1>4. \A q \in Procs : proc[q].pc # "removing"
  BY <1>1 DEF MayBegin, IInv, TypeInv, WorkOK
<1>5. ~Initialized => store.tracked = {}
  BY <1>4 DEF IInv, Sound
<1>6. InitOK(p)' /\ RemovalOK(p)' /\ RebuildOK(p)' /\ ListOK(p)'
  <2>1. InitOK(p)'
    BY <1>3 DEF InitOK, Upgrading
  <2>2. store'.tracked = store.tracked
    BY <1>1
  <2>3. proc'[p].fresh => store'.tracked = {}
    BY <1>3, <1>5, <2>2, Zenon
  <2>4. RebuildOK(p)'
    BY <1>3, <2>3 DEF RebuildOK, AtTable
  <2>5. QED
    BY <1>3, <2>1, <2>4 DEF RemovalOK, ListOK, AtTable
<1>7. Sound'
  BY <1>1, <1>4 DEF IInv, Sound, Initialized, Has, Base, Attribution
<1>8. QED
  BY <1>2, <1>6, <1>7 DEF IInv, ProcOK

LEMMA CreateInv ==
  ASSUME IInv, TypeInv', NEW p \in Procs, Create(p)
  PROVE  IInv'
<1> DEFINE w == proc[p]
           x == Schema[w.at]
<1>1. /\ w.task = "init" /\ w.pc = "schema" /\ w.at \in 1 .. Len(Schema) /\ w \in Work /\ WorkOK(p)
      /\ UNCHANGED <<engine, tables, triggers, deaths>>
  BY DEF Create, IInv, TypeInv, TypeOK, WorkOK, Work, Upgrading, Idle
<1>2. /\ Schema' = Schema /\ Base' = Base /\ Additions' = Additions
      /\ \A n \in 0 .. Current : Has(n)' = Has(n)
      /\ Lists /\ Len(Schema) \in 1 .. 6
  BY <1>1, Lengths DEF IInv, Schema, Base, Additions, Has, Attribution, Lists
<1>3. /\ proc'[p] = IF w.at < Len(Schema) THEN [w EXCEPT !.at = @ + 1]
                    ELSE [w EXCEPT !.pc = "pending", !.at = 1]
      /\ \A q \in Procs \ {p} : proc'[q] = proc[q]
  BY Went DEF Create
<1>4. /\ proc'[p].task = "init" /\ proc'[p].alone = w.alone /\ proc'[p].fresh = w.fresh
      /\ IF w.at < Len(Schema) THEN proc'[p].pc = "schema" /\ proc'[p].at = w.at + 1
                               ELSE proc'[p].pc = "pending"
  BY <1>1, <1>3 DEF Work
<1>5. /\ store.has \subseteq store'.has /\ store'.tracked = store.tracked
      /\ x = "version" \/ x \in store'.has
      /\ store'.version = store.version \/ (store.version = 0 /\ store'.version = 1)
      /\ Initialized => Initialized'
  <2>1. store = [has |-> store.has, version |-> store.version, tracked |-> store.tracked]
    BY DEF IInv, TypeInv, TypeOK
  <2>2. CASE x = "version"
    <3>1. store' = [store EXCEPT !.version = IF @ = 0 THEN 1 ELSE @]
      BY <2>2 DEF Create
    <3>2. /\ store'.has = store.has /\ store'.tracked = store.tracked
          /\ store'.version = IF store.version = 0 THEN 1 ELSE store.version
      BY <2>1, <3>1
    <3>3. Initialized => Initialized'
      BY <3>2 DEF Initialized
    <3>4. QED
      BY <2>2, <3>2, <3>3
  <2>3. CASE x # "version" /\ x \in store.has
    <3>1. store' = store
      BY <2>3 DEF Create
    <3>2. QED
      BY <2>3, <3>1 DEF Initialized
  <2>4. CASE x # "version" /\ x \notin store.has
    <3>1. store' = [store EXCEPT !.has = @ \cup {x} \cup (IF x = "current" THEN InCurrent ELSE {})]
      BY <2>4 DEF Create
    <3>2. /\ store'.has = store.has \cup {x} \cup (IF x = "current" THEN InCurrent ELSE {})
          /\ store'.version = store.version /\ store'.tracked = store.tracked
      BY <2>1, <3>1
    <3>3. Initialized => Initialized'
      BY <3>2 DEF Initialized
    <3>4. x \in store'.has /\ store.has \subseteq store'.has
      BY <3>2
    <3>5. QED
      BY <3>2, <3>3, <3>4
  <2>5. QED
    BY <2>2, <2>3, <2>4
<1>6. \A i \in 1 .. 6 : i < w.at + 1 => Schema[i] \in store'.has \cup {"version"}
  <2>1. \A i \in 1 .. 6 : i < w.at => Schema[i] \in store.has \cup {"version"}
    BY <1>1 DEF IInv, ProcOK, InitOK
  <2>2. \A i \in 1 .. 6 : i < w.at + 1 => i < w.at \/ i = w.at
    BY <1>1 DEF Work
  <2>3. QED
    BY <1>5, <2>1, <2>2
<1>7. InitOK(p)'
  <2>1. CASE w.at < Len(Schema)
    BY <1>2, <1>4, <1>6, <2>1 DEF InitOK, Upgrading
  <2>2. CASE ~(w.at < Len(Schema))
    <3>1. \A i \in 1 .. Len(Schema) : i \in 1 .. 6 /\ i < w.at + 1
      <4>1. \A n \in 1 .. 6 : \A at \in 1 .. n : ~(at < n) => \A i \in 1 .. n : i \in 1 .. 6 /\ i < at + 1
        OBVIOUS
      <4>2. QED
        BY <1>1, <1>2, <2>2, <4>1
    <3>2. Base \subseteq store'.has
      <4>1. "version" \notin Base
        BY DEF Base
      <4>2. \A y \in Base : \E i \in 1 .. Len(Schema) : Schema[i] = y
        BY <1>2 DEF Lists
      <4>3. QED
        BY <1>6, <3>1, <4>1, <4>2
    <3>3. QED
      BY <1>2, <1>4, <2>2, <3>2 DEF InitOK, Upgrading
  <2>3. QED
    BY <2>1, <2>2
<1>8. RemovalOK(p)' /\ ListOK(p)' /\ RebuildOK(p)'
  BY <1>1, <1>4, <1>5 DEF RemovalOK, ListOK, RebuildOK, IInv, ProcOK, Upgrading, AtTable
<1>9. Sound'
  <2> SUFFICES ASSUME \A q \in Procs : proc'[q].pc # "removing"
               PROVE  /\ store'.version >= 2 => Has(store.version)' \subseteq store'.has
                      /\ ~Initialized' => store'.tracked = {}
    BY DEF Sound
  <2>1. \A q \in Procs : proc[q].pc # "removing"
    BY <1>1, <1>3
  <2>2. /\ store.version >= 2 => Has(store.version) \subseteq store.has
        /\ ~Initialized => store.tracked = {}
    BY <2>1 DEF IInv, Sound
  <2>3. store'.version >= 2 => store'.version = store.version /\ store.version \in 0 .. Current
    BY <1>5 DEF IInv, TypeInv, TypeOK
  <2>4. QED
    BY <1>2, <1>5, <2>2, <2>3
<1>10. QED
  BY <1>1, <1>3, <1>4, <1>5, <1>7, <1>8, <1>9, StepKeeps

LEMMA ReadVersionInv ==
  ASSUME IInv, TypeInv', NEW p \in Procs, ReadVersion(p)
  PROVE  IInv'
<1> DEFINE w == proc[p]
           at == FirstPending(store.version)
<1>1. /\ w.task = "init" /\ w.pc = "pending" /\ w \in Work /\ WorkOK(p)
      /\ engine' = engine /\ store' = store /\ tables' = tables /\ triggers' = triggers
  BY DEF ReadVersion, IInv, TypeInv, TypeOK, WorkOK, Upgrading, Idle
<1>2. /\ proc'[p] = [w EXCEPT !.pc = "migrating", !.at = at]
      /\ \A q \in Procs \ {p} : proc'[q] = proc[q]
  BY Went DEF ReadVersion
<1>3. /\ proc'[p].task = "init" /\ proc'[p].alone = w.alone /\ proc'[p].fresh = w.fresh
      /\ proc'[p].pc = "migrating" /\ proc'[p].at = at
  BY <1>1, <1>2 DEF Work
<1>4. \A q \in Procs : proc[q].pc # "removing"
  BY <1>1 DEF IInv, ProcOK, CompanyOK, Alone, TypeInv, WorkOK
<1>5. \A x \in Has(Current) : x \in store.has
                              \/ \E i \in 1 .. Len(Additions) : i >= at /\ Additions[i] = x
  <2>1. Base \subseteq store.has
    BY <1>1 DEF IInv, ProcOK, InitOK
  <2>2. store.version >= 2 => Has(store.version) \subseteq store.has
    BY <1>4 DEF IInv, Sound
  <2>3. /\ Has(Current) = Base \cup Attribution \cup {"index"} /\ Len(Additions) \in 1 .. 5
        /\ \A x \in Attribution : \E i \in 1 .. Len(Additions) : Additions[i] = x
        /\ Additions[Len(Additions)] = "index"
    BY Lengths DEF IInv, Lists
  <2>4. CASE store.version \in {0, 1}
    BY <2>1, <2>3, <2>4 DEF FirstPending
  <2>5. CASE store.version = 2
    <3>1. Attribution \subseteq store.has /\ at = Len(Additions)
      BY <2>2, <2>5 DEF Has, FirstPending
    <3>2. QED
      BY <2>1, <2>3, <3>1
  <2>6. CASE store.version = 3
    BY <2>2, <2>6 DEF Current
  <2>7. QED
    BY <2>4, <2>5, <2>6 DEF IInv, TypeInv, TypeOK, Current
<1>6. InitOK(p)'
  <2>1. Base' = Base /\ Has(Current)' = Has(Current) /\ Additions' = Additions
    BY <1>1 DEF Base, Has, Current, Attribution, Additions
  <2>2. Base \subseteq store.has
    BY <1>1 DEF IInv, ProcOK, InitOK
  <2>3. QED
    BY <1>1, <1>3, <1>5, <2>1, <2>2 DEF InitOK, Upgrading, Current
<1>7. RemovalOK(p)' /\ ListOK(p)' /\ RebuildOK(p)'
  BY <1>1, <1>3 DEF RemovalOK, ListOK, RebuildOK, IInv, ProcOK, Upgrading, AtTable
<1>8. Sound'
  BY <1>1, <1>2, <1>4, SoundStays DEF Initialized, IInv, Sound
<1>9. QED
  BY <1>1, <1>2, <1>3, <1>6, <1>7, <1>8, StepKeeps

LEMMA LookInv ==
  ASSUME IInv, TypeInv', NEW p \in Procs, Look(p)
  PROVE  IInv'
<1> DEFINE w == proc[p]
           x == Additions[w.at]
<1>1. /\ w.task = "init" /\ w.pc = "migrating" /\ w.at \in 1 .. Len(Additions) /\ w \in Work
      /\ engine' = engine /\ store' = store /\ tables' = tables /\ triggers' = triggers
  BY DEF Look, IInv, TypeInv, TypeOK, WorkOK, Upgrading, Idle, Work
<1>2. /\ proc'[p] = IF x \in store.has THEN [w EXCEPT !.at = @ + 1] ELSE [w EXCEPT !.pc = "adding"]
      /\ \A q \in Procs \ {p} : proc'[q] = proc[q]
  BY Went DEF Look
<1>3. /\ proc'[p].task = "init" /\ proc'[p].alone = w.alone /\ proc'[p].fresh = w.fresh
      /\ proc'[p].pc \in {"migrating", "adding"}
      /\ proc'[p].at = IF x \in store.has THEN w.at + 1 ELSE w.at
  BY <1>1, <1>2 DEF Work
<1>4. \A q \in Procs : proc[q].pc # "removing"
  BY <1>1 DEF IInv, ProcOK, CompanyOK, Alone, TypeInv, WorkOK
<1>5. \A y \in Has(Current) : y \in store.has
                              \/ \E i \in 1 .. Len(Additions) : i >= proc'[p].at /\ Additions[i] = y
  <2>1. \A y \in Has(Current) : y \in store.has
                                \/ \E i \in 1 .. Len(Additions) : i >= w.at /\ Additions[i] = y
    BY <1>1 DEF IInv, ProcOK, InitOK
  <2>2. \A i \in 1 .. Len(Additions) : i >= w.at => i = w.at \/ i >= w.at + 1
    BY <1>1
  <2>3. QED
    BY <1>3, <2>1, <2>2
<1>6. InitOK(p)'
  <2>1. Base' = Base /\ Has(Current)' = Has(Current) /\ Additions' = Additions
    BY <1>1 DEF Base, Has, Current, Attribution, Additions
  <2>2. Base \subseteq store.has
    BY <1>1 DEF IInv, ProcOK, InitOK
  <2>3. QED
    BY <1>1, <1>3, <1>5, <2>1, <2>2 DEF InitOK, Upgrading, Current
<1>7. RemovalOK(p)' /\ ListOK(p)' /\ RebuildOK(p)'
  BY <1>1, <1>3 DEF RemovalOK, ListOK, RebuildOK, IInv, ProcOK, Upgrading, AtTable
<1>8. Sound'
  BY <1>1, <1>2, <1>4, SoundStays DEF Initialized, IInv, Sound
<1>9. QED
  BY <1>1, <1>2, <1>3, <1>6, <1>7, <1>8, StepKeeps

LEMMA AddInv ==
  ASSUME IInv, TypeInv', NEW p \in Procs, Add(p)
  PROVE  IInv'
<1> DEFINE w == proc[p]
           x == Additions[w.at]
<1>1. /\ w.task = "init" /\ w.pc = "adding" /\ w.at \in 1 .. Len(Additions) /\ w \in Work
      /\ engine' = engine /\ tables' = tables /\ triggers' = triggers
  BY DEF Add, IInv, TypeInv, TypeOK, WorkOK, Upgrading, Idle, Work
<1>2. /\ proc'[p] = [w EXCEPT !.pc = "migrating", !.at = @ + 1]
      /\ \A q \in Procs \ {p} : proc'[q] = proc[q]
  BY Went DEF Add
<1>3. /\ proc'[p].task = "init" /\ proc'[p].alone = w.alone /\ proc'[p].fresh = w.fresh
      /\ proc'[p].pc = "migrating" /\ proc'[p].at = w.at + 1
  BY <1>1, <1>2 DEF Work
<1>4. \A q \in Procs : proc[q].pc # "removing"
  BY <1>1 DEF IInv, ProcOK, CompanyOK, Alone, TypeInv, WorkOK
<1>5. /\ store'.has = store.has \cup {x} /\ store'.version = store.version
      /\ store'.tracked = store.tracked
  BY DEF Add, IInv, TypeInv, TypeOK
<1>6. x # "log"
  BY <1>1 DEF Additions, SqliteAdditions, MySqlAdditions
<1>7. \A y \in Has(Current) : y \in store'.has
                              \/ \E i \in 1 .. Len(Additions) : i >= w.at + 1 /\ Additions[i] = y
  <2>1. \A y \in Has(Current) : y \in store.has
                                \/ \E i \in 1 .. Len(Additions) : i >= w.at /\ Additions[i] = y
    BY <1>1 DEF IInv, ProcOK, InitOK
  <2>2. \A i \in 1 .. Len(Additions) : i >= w.at => i = w.at \/ i >= w.at + 1
    BY <1>1
  <2>3. QED
    BY <1>5, <2>1, <2>2
<1>8. InitOK(p)'
  <2>1. Base' = Base /\ Has(Current)' = Has(Current) /\ Additions' = Additions
    BY <1>1 DEF Base, Has, Current, Attribution, Additions
  <2>2. Base \subseteq store.has
    BY <1>1 DEF IInv, ProcOK, InitOK
  <2>3. QED
    BY <1>1, <1>3, <1>5, <1>7, <2>1, <2>2 DEF InitOK, Upgrading, Current
<1>9. RemovalOK(p)' /\ ListOK(p)' /\ RebuildOK(p)'
  BY <1>1, <1>3, <1>5 DEF RemovalOK, ListOK, RebuildOK, IInv, ProcOK, Upgrading, AtTable
<1>10. Sound'
  <2>1. Initialized' = Initialized
    BY <1>5, <1>6 DEF Initialized
  <2>2. QED
    BY <1>1, <1>2, <1>4, <1>5, <2>1, SoundStays DEF IInv, Sound
<1>11. QED
  BY <1>1, <1>2, <1>3, <1>5, <1>8, <1>9, <1>10, StepKeeps

LEMMA StampInv ==
  ASSUME IInv, TypeInv', NEW p \in Procs, Stamp(p)
  PROVE  IInv'
<1> DEFINE w == proc[p]
<1>1. /\ w.task = "init" /\ w.pc = "migrating" /\ w.at > Len(Additions) /\ w \in Work /\ WorkOK(p)
      /\ engine' = engine /\ tables' = tables /\ triggers' = triggers
  BY DEF Stamp, Migrated, IInv, TypeInv, TypeOK, WorkOK, Upgrading, Idle, Work
<1>2. /\ proc'[p] = [w EXCEPT !.at = 1, !.pc = IF w.fresh THEN "next" ELSE "listing"]
      /\ \A q \in Procs \ {p} : proc'[q] = proc[q]
  BY Went DEF Stamp
<1>3. /\ proc'[p].task = "init" /\ proc'[p].alone = w.alone
      /\ proc'[p].pc \in {"next", "listing"} /\ (proc'[p].pc = "next" => w.fresh)
  BY <1>1, <1>2 DEF Work
<1>4. /\ store'.has = store.has /\ store'.version = Current /\ store'.tracked = store.tracked
  BY DEF Stamp, IInv, TypeInv, TypeOK
<1>5. Has(Current) \subseteq store.has
  <2>1. \A y \in Has(Current) : y \in store.has
                                \/ \E i \in 1 .. Len(Additions) : i >= w.at /\ Additions[i] = y
    BY <1>1 DEF IInv, ProcOK, InitOK
  <2>2. Len(Additions) \in 1 .. 5 /\ w.at \in 1 .. 6
    BY <1>1, Lengths DEF IInv, Lists, Work
  <2>3. \A i \in 1 .. Len(Additions) : ~(i >= w.at)
    BY <1>1, <2>2
  <2>4. QED
    BY <2>1, <2>3
<1>6. Has(Current)' = Has(Current)
  BY <1>1 DEF Base, Has, Current, Attribution
<1>7. InitOK(p)'
  BY <1>3, <1>4, <1>5, <1>6 DEF InitOK, Upgrading
<1>8. RemovalOK(p)' /\ ListOK(p)' /\ RebuildOK(p)'
  BY <1>1, <1>3, <1>4 DEF RemovalOK, ListOK, RebuildOK, IInv, ProcOK, Upgrading, AtTable
<1>9. Sound'
  <2>1. ~Initialized' => store'.tracked = {}
    BY <1>4, <1>5 DEF Initialized, Has, Base, Current
  <2>2. Has(store.version)' \subseteq store'.has
    BY <1>4, <1>5, <1>6 DEF Has, Current
  <2>3. QED
    BY <2>1, <2>2 DEF Sound
<1>10. QED
  BY <1>1, <1>2, <1>3, <1>4, <1>7, <1>8, <1>9, StepKeeps

LEMMA ReadTrackedInv ==
  ASSUME IInv, TypeInv', NEW p \in Procs, ReadTracked(p)
  PROVE  IInv'
<1> DEFINE w == proc[p]
<1>1. /\ w.task # "none" /\ w.pc = "listing" /\ w \in Work
      /\ engine' = engine /\ store' = store /\ tables' = tables /\ triggers' = triggers
  BY DEF ReadTracked, IInv, TypeInv, TypeOK, WorkOK, Idle
<1>2. /\ proc'[p] = [w EXCEPT !.pc = "next", !.rest = store.tracked]
      /\ \A q \in Procs \ {p} : proc'[q] = proc[q]
  BY Went DEF ReadTracked
<1>3. /\ proc'[p].task = w.task /\ proc'[p].alone = w.alone
      /\ proc'[p].pc = "next" /\ proc'[p].rest = store.tracked
  BY <1>1, <1>2 DEF Work
<1>4. InitOK(p)' /\ RemovalOK(p)' /\ ListOK(p)' /\ RebuildOK(p)'
  BY <1>1, <1>3 DEF InitOK, RemovalOK, ListOK, RebuildOK, IInv, ProcOK, Upgrading, AtTable,
     Has, Base, Attribution, Current
<1>5. Sound'
  BY <1>1, <1>2, <1>3 DEF Initialized, IInv, Sound, Has, Base, Attribution
<1>6. QED
  BY <1>1, <1>2, <1>3, <1>4, <1>5, StepKeeps

LEMMA NextTableInv ==
  ASSUME IInv, TypeInv', NEW p \in Procs, NextTable(p)
  PROVE  IInv'
<1> DEFINE w == proc[p]
<1>1. /\ w.task # "none" /\ w.pc = "next" /\ w \in Work /\ WorkOK(p) /\ Initialized
      /\ engine' = engine /\ store' = store /\ tables' = tables /\ triggers' = triggers
  BY DEF NextTable, IInv, TypeInv, TypeOK, WorkOK, Idle
<1>2. PICK t \in w.rest, known \in BOOLEAN :
        Goes(p, [w EXCEPT !.pc = "dropping", !.table = t, !.rest = @ \ {t},
                          !.remake = w.task = "init" /\ t \in tables /\ known])
  BY DEF NextTable
<1>3. /\ proc'[p] = [w EXCEPT !.pc = "dropping", !.table = t, !.rest = @ \ {t},
                              !.remake = w.task = "init" /\ t \in tables /\ known]
      /\ \A q \in Procs \ {p} : proc'[q] = proc[q]
  BY <1>2, Went
<1>4. /\ proc'[p].task = w.task /\ proc'[p].alone = w.alone
      /\ proc'[p].pc = "dropping" /\ proc'[p].table = t /\ proc'[p].rest = w.rest \ {t}
  BY <1>1, <1>3 DEF Work
<1>5. InitOK(p)' /\ RemovalOK(p)' /\ ListOK(p)'
  BY <1>1, <1>4 DEF InitOK, RemovalOK, ListOK, IInv, ProcOK, Upgrading, AtTable,
     Has, Base, Attribution, Current, Initialized
<1>6. RebuildOK(p)'
  BY <1>1, <1>4 DEF RebuildOK, IInv, ProcOK, Upgrading, AtTable, Remade
<1>7. Sound'
  BY <1>1, <1>3, <1>4 DEF Initialized, IInv, Sound, Has, Base, Attribution
<1>8. QED
  BY <1>1, <1>3, <1>4, <1>5, <1>6, <1>7, StepKeeps

-----------------------------------------------------------------------------
(* Tracking.                                                                 *)

\* A command other than init begins at a table, or at the list.
LEMMA CommandInv ==
  ASSUME IInv, TypeInv', Undisturbed, NEW p \in Procs,
         TrackBegin(p) \/ UntrackBegin(p) \/ UninstallBegin(p)
  PROVE  IInv'
<1>1. PICK v \in Work :
        /\ Begins(p, v) /\ MayBegin(p, v.task) /\ v.task \in {"track", "untrack", "uninstall"}
        /\ v.pc \in {"dropping", "listing"}
  <2>1. CASE TrackBegin(p)
    <3>1. PICK t \in tables :
            Begins(p, [Idle EXCEPT !.task = "track", !.pc = "dropping", !.table = t, !.remake = TRUE])
      BY <2>1 DEF TrackBegin
    <3>2. [Idle EXCEPT !.task = "track", !.pc = "dropping", !.table = t, !.remake = TRUE] \in Work
      BY CommandsBegin DEF IInv, TypeInv, TypeOK
    <3>3. MayBegin(p, "track")
      BY <2>1 DEF TrackBegin
    <3>4. QED
      BY <3>1, <3>2, <3>3 DEF Idle
  <2>2. CASE UntrackBegin(p)
    <3>1. PICK t \in Tables :
            Begins(p, [Idle EXCEPT !.task = "untrack", !.pc = "dropping", !.table = t])
      BY <2>2 DEF UntrackBegin
    <3>2. [Idle EXCEPT !.task = "untrack", !.pc = "dropping", !.table = t] \in Work
      BY CommandsBegin
    <3>3. MayBegin(p, "untrack")
      BY <2>2 DEF UntrackBegin
    <3>4. QED
      BY <3>1, <3>2, <3>3 DEF Idle
  <2>3. CASE UninstallBegin(p)
    BY <2>3, UninstallBegins DEF UninstallBegin, Idle
  <2>4. QED
    BY <2>1, <2>2, <2>3
<1>2. UNCHANGED <<engine, store, tables, triggers, deaths>> /\ Initialized
  BY DEF TrackBegin, UntrackBegin, UninstallBegin
<1>3. CompanyOK(p)' /\ \A q \in Procs \ {p} : ProcOK(q)'
  BY <1>1, <1>2, OthersMeet
<1>4. /\ proc'[p].task = v.task /\ proc'[p].pc = v.pc
      /\ \A q \in Procs \ {p} : proc'[q].pc = proc[q].pc
  <2>1. /\ proc'[p] = [v EXCEPT !.alone = Busy = {}]
        /\ \A q \in Procs \ {p} : proc'[q] = [proc[q] EXCEPT !.alone = FALSE]
    BY <1>1 DEF Begins
  <2>2. \A q \in Procs : proc[q] \in Work
    BY DEF IInv, TypeInv, TypeOK
  <2>3. QED
    BY <2>1, <2>2 DEF Work
<1>5. InitOK(p)' /\ RemovalOK(p)' /\ RebuildOK(p)' /\ ListOK(p)'
  BY <1>1, <1>2, <1>4 DEF InitOK, RemovalOK, RebuildOK, ListOK, Initialized
<1>6. Sound'
  <2>1. proc[p].pc # "removing"
    BY <1>1 DEF MayBegin, Idle
  <2>2. QED
    BY <1>2, <1>4, <2>1 DEF IInv, Sound, Initialized, Has, Base, Attribution
<1>7. QED
  BY <1>3, <1>5, <1>6 DEF IInv, ProcOK

LEMMA DropTriggerInv ==
  ASSUME IInv, TypeInv', NEW p \in Procs, DropTrigger(p)
  PROVE  IInv'
<1> DEFINE w == proc[p]
<1>1. /\ w.task # "none" /\ w.pc = "dropping" /\ w \in Work /\ WorkOK(p)
      /\ engine' = engine /\ store' = store /\ tables' = tables
  BY DEF DropTrigger, IInv, TypeInv, TypeOK, WorkOK, Idle
<1>2. proc'[p] = Stepped(p, "unlisting") /\ \A q \in Procs \ {p} : proc'[q] = proc[q]
  BY Went DEF DropTrigger
<1>3. /\ proc'[p].task = w.task /\ proc'[p].alone = w.alone /\ proc'[p].rest = w.rest
      /\ proc'[p].pc \in {"dropping", "unlisting"} /\ proc'[p].table = w.table
  BY <1>1, <1>2 DEF Work, Stepped
<1>4. \A t \in Tables : t # w.table => triggers'[t] = triggers[t]
  BY DEF DropTrigger, IInv, TypeInv, TypeOK
<1>5. InitOK(p)' /\ RemovalOK(p)' /\ ListOK(p)'
  BY <1>1, <1>3 DEF InitOK, RemovalOK, ListOK, IInv, ProcOK, Upgrading, AtTable,
     Has, Base, Attribution, Current, Initialized
<1>6. RebuildOK(p)'
  BY <1>1, <1>3, <1>4 DEF RebuildOK, IInv, ProcOK, Upgrading, AtTable, Remade, TypeInv, TypeOK
<1>7. Sound'
  BY <1>1, <1>2, <1>3 DEF Initialized, IInv, Sound, Has, Base, Attribution
<1>8. QED
  BY <1>1, <1>2, <1>3, <1>5, <1>6, <1>7, StepKeeps

LEMMA UnlistInv ==
  ASSUME IInv, TypeInv', NEW p \in Procs, Unlist(p)
  PROVE  IInv'
<1> DEFINE w == proc[p]
<1>1. /\ w.task # "none" /\ w.pc = "unlisting" /\ w \in Work /\ WorkOK(p)
      /\ engine' = engine /\ triggers' = triggers /\ tables' = tables
  BY DEF Unlist, IInv, TypeInv, TypeOK, WorkOK, Idle
<1>2. /\ proc'[p] = IF w.remake THEN [w EXCEPT !.pc = "creating"]
                    ELSE [w EXCEPT !.pc = "next", !.table = NoTable]
      /\ \A q \in Procs \ {p} : proc'[q] = proc[q]
  BY Went DEF Unlist
<1>3. /\ proc'[p].task = w.task /\ proc'[p].alone = w.alone /\ proc'[p].rest = w.rest
      /\ \/ proc'[p].pc = "creating" /\ proc'[p].table = w.table /\ proc'[p].at = 1
         \/ proc'[p].pc = "next"
  BY <1>1, <1>2 DEF Work, WorkOK
<1>4. /\ store'.has = store.has /\ store'.version = store.version
      /\ store'.tracked = store.tracked \ {w.table}
  BY DEF Unlist, IInv, TypeInv, TypeOK
<1>5. InitOK(p)' /\ RemovalOK(p)' /\ ListOK(p)'
  BY <1>1, <1>3, <1>4 DEF InitOK, RemovalOK, ListOK, IInv, ProcOK, Upgrading, AtTable,
     Has, Base, Attribution, Current, Initialized
<1>6. RebuildOK(p)'
  <2> SUFFICES ASSUME w.task = "init", w.alone
               PROVE  RebuildOK(p)'
    BY <1>3 DEF RebuildOK
  <2>1. \A t \in store.tracked \cap tables : t \in w.rest \/ t = w.table \/ Remade(t)
    BY <1>1 DEF IInv, ProcOK, RebuildOK, AtTable
  <2>2. \A t \in store'.tracked \cap tables : t \in w.rest \/ triggers'[t] = All("new")
    BY <1>1, <1>4, <2>1 DEF Remade
  <2>3. \A n \in 1 .. 3 : ~(n < 1)
    OBVIOUS
  <2>4. QED
    BY <1>1, <1>3, <2>2, <2>3 DEF RebuildOK, Upgrading, AtTable, Remade
<1>7. Sound'
  BY <1>1, <1>2, <1>3, <1>4 DEF Initialized, IInv, Sound, Has, Base, Attribution
<1>8. QED
  BY <1>1, <1>2, <1>3, <1>4, <1>5, <1>6, <1>7, StepKeeps

LEMMA CreateTriggerInv ==
  ASSUME IInv, TypeInv', NEW p \in Procs, CreateTrigger(p)
  PROVE  IInv'
<1> DEFINE w == proc[p]
<1>1. /\ w.task # "none" /\ w.pc = "creating" /\ w \in Work /\ WorkOK(p) /\ w.at \in 1 .. 3
      /\ w.table \in tables
      /\ engine' = engine /\ store' = store /\ tables' = tables
  BY DEF CreateTrigger, CanCreate, IInv, TypeInv, TypeOK, WorkOK, Work, Idle
<1>2. proc'[p] = Stepped(p, "enlisting") /\ \A q \in Procs \ {p} : proc'[q] = proc[q]
  BY Went DEF CreateTrigger
<1>3. /\ proc'[p].task = w.task /\ proc'[p].alone = w.alone /\ proc'[p].rest = w.rest
      /\ proc'[p].table = w.table
      /\ \/ proc'[p].pc = "creating" /\ proc'[p].at = w.at + 1
         \/ proc'[p].pc = "enlisting" /\ w.at = 3
  BY <1>1, <1>2 DEF Work, Stepped, Events
<1>4. /\ \A t \in Tables : t # w.table => triggers'[t] = triggers[t]
      /\ triggers'[w.table] = [triggers[w.table] EXCEPT ![w.at] = "new"]
  BY <1>1 DEF CreateTrigger, IInv, TypeInv, TypeOK
<1>5. InitOK(p)' /\ RemovalOK(p)' /\ ListOK(p)'
  BY <1>1, <1>3 DEF InitOK, RemovalOK, ListOK, IInv, ProcOK, Upgrading, AtTable,
     Has, Base, Attribution, Current, Initialized
<1>6. RebuildOK(p)'
  <2> SUFFICES ASSUME w.task = "init", w.alone
               PROVE  RebuildOK(p)'
    BY <1>3 DEF RebuildOK
  <2>1. /\ \A t \in store.tracked \cap tables : t \in w.rest \/ t = w.table \/ Remade(t)
        /\ \A n \in 1 .. 3 : n < w.at => triggers[w.table][n] = "new"
    BY <1>1 DEF IInv, ProcOK, RebuildOK, AtTable
  <2>2. triggers[w.table] \in [1 .. 3 -> Forms] /\ w.table \in Tables
    BY <1>1 DEF IInv, TypeInv, TypeOK
  <2>3. \A n \in 1 .. 3 : n < w.at + 1 => triggers'[w.table][n] = "new"
    BY <1>1, <1>4, <2>1, <2>2
  <2>4. w.at = 3 => triggers'[w.table] = All("new")
    <3>1. triggers'[w.table] \in [1 .. 3 -> Forms]
      BY <2>2 DEF TypeInv, TypeOK
    <3>2. w.at = 3 => \A n \in 1 .. 3 : triggers'[w.table][n] = "new"
      BY <2>3
    <3>3. QED
      BY <3>1, <3>2 DEF All
  <2>5. \A t \in store.tracked \cap tables : t \in w.rest \/ t = w.table \/ Remade(t)'
    BY <1>4, <2>1 DEF Remade, IInv, TypeInv, TypeOK
  <2>6. QED
    BY <1>1, <1>3, <2>3, <2>4, <2>5 DEF RebuildOK, Upgrading, AtTable, Remade
<1>7. Sound'
  BY <1>1, <1>2, <1>3 DEF Initialized, IInv, Sound, Has, Base, Attribution
<1>8. QED
  BY <1>1, <1>2, <1>3, <1>5, <1>6, <1>7, StepKeeps

LEMMA EnlistInv ==
  ASSUME IInv, TypeInv', NEW p \in Procs, Enlist(p)
  PROVE  IInv'
<1> DEFINE w == proc[p]
<1>1. /\ w.task # "none" /\ w.pc = "enlisting" /\ w \in Work /\ WorkOK(p)
      /\ engine' = engine /\ triggers' = triggers /\ tables' = tables
  BY DEF Enlist, IInv, TypeInv, TypeOK, WorkOK, Idle
<1>2. /\ proc'[p] = [w EXCEPT !.pc = "next", !.table = NoTable, !.remake = FALSE]
      /\ \A q \in Procs \ {p} : proc'[q] = proc[q]
  BY Went DEF Enlist
<1>3. /\ proc'[p].task = w.task /\ proc'[p].alone = w.alone /\ proc'[p].rest = w.rest
      /\ proc'[p].pc = "next"
  BY <1>1, <1>2 DEF Work
<1>4. /\ store'.has = store.has /\ store'.version = store.version
      /\ store'.tracked = store.tracked \cup {w.table}
  BY DEF Enlist, IInv, TypeInv, TypeOK
<1>5. Initialized
  BY <1>1 DEF WorkOK, IInv, ProcOK, ListOK, AtTable
<1>6. InitOK(p)' /\ RemovalOK(p)' /\ ListOK(p)'
  BY <1>1, <1>3, <1>4 DEF InitOK, RemovalOK, ListOK, IInv, ProcOK, Upgrading, AtTable,
     Has, Base, Attribution, Current, Initialized
<1>7. RebuildOK(p)'
  BY <1>1, <1>3, <1>4 DEF RebuildOK, IInv, ProcOK, Upgrading, AtTable, Remade
<1>8. Sound'
  BY <1>1, <1>2, <1>3, <1>4, <1>5 DEF Initialized, IInv, Sound, Has, Base, Attribution
<1>9. QED
  BY <1>1, <1>2, <1>3, <1>4, <1>6, <1>7, <1>8, StepKeeps

-----------------------------------------------------------------------------
(* The ends of commands, orderly and not.                                    *)

LEMMA FinishInv ==
  ASSUME IInv, TypeInv', NEW p \in Procs, Finish(p)
  PROVE  IInv'
<1> DEFINE w == proc[p]
<1>1. /\ w.task # "none" /\ w.pc = "next" /\ w.at = 1 /\ w \in Work
      /\ UNCHANGED <<engine, store, tables, triggers>>
  BY DEF Finish, IInv, TypeInv, TypeOK, WorkOK, Idle
<1>2. CASE w.task # "uninstall"
  BY <1>1, <1>2, EndKeeps DEF Finish
<1>3. CASE w.task = "uninstall"
  <2>1. /\ proc'[p] = [w EXCEPT !.pc = "removing"]
        /\ \A q \in Procs \ {p} : proc'[q] = proc[q]
    BY <1>3, Went DEF Finish
  <2>2. /\ proc'[p].task = w.task /\ proc'[p].alone = w.alone
        /\ proc'[p].pc = "removing" /\ proc'[p].at = 1
    BY <1>1, <2>1 DEF Work
  <2>3. InitOK(p)' /\ RemovalOK(p)' /\ ListOK(p)' /\ RebuildOK(p)'
    BY <1>3, <2>2 DEF InitOK, RemovalOK, ListOK, RebuildOK, AtTable
  <2>4. Sound'
    BY <2>2 DEF Sound
  <2>5. QED
    BY <1>1, <1>3, <2>1, <2>2, <2>3, <2>4, StepKeeps
<1>4. QED
  BY <1>2, <1>3

LEMMA RemoveInv ==
  ASSUME IInv, TypeInv', NEW p \in Procs, Remove(p)
  PROVE  IInv'
<1> DEFINE w == proc[p]
           x == Removal[w.at]
<1>1. /\ w.task = "uninstall" /\ w.pc = "removing" /\ w \in Work
      /\ w.at \in 1 .. Len(Removal) /\ Lists
      /\ UNCHANGED <<engine, tables, triggers>>
  BY Lengths DEF Remove, IInv, TypeInv, TypeOK, WorkOK, Work, Idle
<1>2. /\ proc'[p] = IF w.at < Len(Removal) THEN [w EXCEPT !.at = @ + 1] ELSE Idle
      /\ \A q \in Procs \ {p} : proc'[q] = proc[q]
  BY Went DEF Remove
<1>3. /\ store'.has \subseteq store.has \ {x}
      /\ store'.version = IF x = "settings" THEN 0 ELSE store.version
      /\ store'.tracked = IF x = "tracked" THEN {} ELSE store.tracked
  BY DEF Remove
<1>4. (w.at > 1 => ~Initialized) /\ (w.at > 3 => store.tracked = {})
  BY <1>1 DEF IInv, ProcOK, RemovalOK
<1>5. ~Initialized' /\ (w.at >= 3 => store'.tracked = {})
  <2>1. x = "log" \/ w.at > 1
    BY <1>1 DEF Lists
  <2>2. ~Initialized'
    BY <1>3, <1>4, <2>1 DEF Initialized
  <2>3. w.at >= 3 => x = "tracked" \/ w.at > 3
    BY <1>1 DEF Lists
  <2>4. QED
    BY <1>3, <1>4, <2>2, <2>3
<1>6. CASE w.at < Len(Removal)
  <2>1. /\ proc'[p].task = w.task /\ proc'[p].alone = w.alone
        /\ proc'[p].pc = "removing" /\ proc'[p].at = w.at + 1
    BY <1>1, <1>2, <1>6 DEF Work
  <2>2. InitOK(p)' /\ ListOK(p)' /\ RebuildOK(p)'
    BY <1>1, <2>1 DEF InitOK, ListOK, RebuildOK, AtTable
  <2>3. RemovalOK(p)'
    <3>1. w.at + 1 > 3 => w.at >= 3
      BY <1>1 DEF Work
    <3>2. QED
      BY <1>5, <2>1, <3>1 DEF RemovalOK
  <2>4. Sound'
    BY <2>1 DEF Sound
  <2>5. QED
    BY <1>1, <1>2, <2>1, <2>2, <2>3, <2>4, StepKeeps
<1>7. CASE ~(w.at < Len(Removal))
  <2>1. proc'[p] = Idle
    BY <1>2, <1>7
  <2>2. InitOK(p)' /\ RemovalOK(p)' /\ RebuildOK(p)' /\ ListOK(p)'
    BY <2>1 DEF InitOK, RemovalOK, RebuildOK, ListOK, Idle, AtTable
  <2>3. w.at = Len(Removal) /\ w.at >= 3 /\ x = "settings"
    <3>1. Len(Removal) \in 4 .. 5 /\ Removal[Len(Removal)] = "settings"
      BY <1>1 DEF Lists
    <3>2. \A n \in 4 .. 5 : \A at \in 1 .. n : ~(at < n) => at = n /\ at >= 3
      OBVIOUS
    <3>3. QED
      BY <1>1, <1>7, <3>1, <3>2
  <2>4. Sound'
    BY <1>3, <1>5, <2>3 DEF Sound
  <2>5. QED
    BY <1>1, <1>2, <2>1, <2>2, <2>4, StepKeeps
<1>8. QED
  BY <1>6, <1>7

LEMMA FailInv ==
  ASSUME IInv, TypeInv', NEW p \in Procs, Fail(p)
  PROVE  IInv'
<1> DEFINE w == proc[p]
<1>1. /\ w.task # "none" /\ w.pc # "removing" /\ w \in Work
      /\ UNCHANGED <<engine, store, tables, triggers>>
  BY DEF Fail, Raises, Migrated, IInv, TypeInv, TypeOK, WorkOK, Idle
<1> DEFINE Skips == w.task = "uninstall" /\ w.pc \in {"unlisting", "next"}
<1>2. CASE ~Skips
  BY <1>1, <1>2, EndKeeps DEF Fail
<1>3. CASE Skips
  <2>1. /\ proc'[p] = IF w.pc = "unlisting" THEN [w EXCEPT !.pc = "next", !.table = NoTable]
                      ELSE [w EXCEPT !.rest = {}]
        /\ \A q \in Procs \ {p} : proc'[q] = proc[q]
    BY <1>3, Went DEF Fail
  <2>2. /\ proc'[p].task = w.task /\ proc'[p].alone = w.alone /\ proc'[p].pc = "next"
    BY <1>1, <1>3, <2>1 DEF Work
  <2>3. InitOK(p)' /\ RemovalOK(p)' /\ ListOK(p)' /\ RebuildOK(p)'
    BY <1>3, <2>2 DEF InitOK, RemovalOK, ListOK, RebuildOK, AtTable
  <2>4. Sound'
    BY <1>1, <2>1, <2>2 DEF IInv, Sound, Initialized, Has, Base, Attribution
  <2>5. QED
    BY <1>1, <1>3, <2>1, <2>2, <2>3, <2>4, StepKeeps
<1>4. QED
  BY <1>2, <1>3

LEMMA DieInv ==
  ASSUME IInv, TypeInv', Undisturbed, NEW p \in Procs, Die(p)
  PROVE  IInv'
<1>1. proc[p].task # "none" /\ proc[p].pc # "removing"
  BY DEF Die, IInv, TypeInv, WorkOK
<1>2. QED
  BY <1>1, EndKeeps DEF Die

LEMMA DropTableInv ==
  ASSUME IInv, TypeInv', DropTable
  PROVE  IInv'
<1>1. PICK t \in tables : /\ tables' = tables \ {t}
                          /\ triggers' = [triggers EXCEPT ![t] = All("none")]
  BY DEF DropTable
<1>2. engine' = engine /\ store' = store /\ proc' = proc
  BY DEF DropTable
<1>3. \A u \in tables' : u \in tables /\ u # t /\ triggers'[u] = triggers[u]
  BY <1>1 DEF IInv, TypeInv, TypeOK
<1>4. ASSUME NEW p \in Procs
      PROVE  ProcOK(p)'
  <2>1. ProcOK(p)
    BY DEF IInv
  <2>2. InitOK(p)' /\ RemovalOK(p)' /\ ListOK(p)' /\ CompanyOK(p)'
    BY <1>2, <2>1 DEF ProcOK, InitOK, RemovalOK, ListOK, CompanyOK, Alone, Initialized,
       Has, Base, Attribution, Schema, Additions, Current
  <2>3. RebuildOK(p)'
    BY <1>2, <1>3, <2>1 DEF ProcOK, RebuildOK, Remade
  <2>4. QED
    BY <2>2, <2>3 DEF ProcOK
<1>5. Sound'
  BY <1>2 DEF IInv, Sound, Initialized, Has, Base, Attribution
<1>6. QED
  BY <1>4, <1>5 DEF IInv

-----------------------------------------------------------------------------

LEMMA StepInv ==
  ASSUME IInv, TypeInv', Undisturbed, NEW p \in Procs, Step(p)
  PROVE  IInv'
BY InitBeginInv, CreateInv, ReadVersionInv, LookInv, AddInv, StampInv, ReadTrackedInv,
   NextTableInv, CommandInv, DropTriggerInv, UnlistInv, CreateTriggerInv, EnlistInv,
   FinishInv, RemoveInv, FailInv, DieInv DEF Step

LEMMA InvariantHolds == Undisturbed => (Spec => []IInv)
<1> SUFFICES ASSUME Undisturbed
             PROVE  Spec => []IInv
  OBVIOUS
<1>1. Init /\ TypeInv => IInv
  <2> SUFFICES ASSUME Init, TypeInv
               PROVE  IInv
    OBVIOUS
  <2>1. \A p \in Procs : proc[p] = Idle
    BY DEF Init
  <2>2. \A p \in Procs : ProcOK(p)
    BY <2>1 DEF ProcOK, InitOK, RemovalOK, RebuildOK, ListOK, CompanyOK, Alone, Idle, AtTable
  <2>3. PICK version \in 0 .. Current, tracked \in SUBSET Tables :
          /\ version = 0 => tracked = {}
          /\ store = [has |-> Has(version), version |-> version, tracked |-> tracked]
    BY DEF Init
  <2>4. version # 0 => "log" \in Has(version)
    BY DEF Has, Base
  <2>5. Sound
    BY <2>3, <2>4 DEF Sound, Initialized
  <2>6. QED
    BY <2>2, <2>5 DEF IInv
<1>2. IInv /\ TypeInv' /\ [Next]_vars => IInv'
  <2> SUFFICES ASSUME IInv, TypeInv', [Next]_vars
               PROVE  IInv'
    OBVIOUS
  <2>1. CASE UNCHANGED vars
    BY <2>1 DEF vars, IInv, ProcOK, InitOK, RemovalOK, RebuildOK, ListOK, CompanyOK, Alone,
       Sound, Initialized, Remade, Has, Base, Attribution, Schema, Additions, Current
  <2>2. QED
    BY <2>1, DropTableInv, StepInv DEF Next
<1>3. QED
  BY <1>1, <1>2, TypesHold, PTL DEF Spec

\* A store of the current version has all that the migrations add, for any
\* number of processes that upgrade it at once and die anywhere, on either
\* database (sqlite.py:194-208, mysql.py:268-290).
THEOREM VersionTrue == Undisturbed => (Spec => []VersionIsTrue)
<1>1. IInv => VersionIsTrue
  <2> SUFFICES ASSUME IInv, store.version = Current, ~Uninstalling
               PROVE  Has(Current) \subseteq store.has
    BY DEF VersionIsTrue
  <2>1. \A p \in Procs : proc[p].pc # "removing"
    BY DEF Uninstalling, IInv, TypeInv, WorkOK
  <2>2. QED
    BY <2>1 DEF IInv, Sound, Current
<1>2. QED
  BY <1>1, InvariantHolds, PTL

\* An init nobody interfered with ends with the triggers of every table on the
\* list made anew (sqlite.py:215-220, mysql.py:292-301).
THEOREM Rebuilds == Undisturbed => (Spec => []InitRebuilds)
<1>1. IInv => InitRebuilds
  BY DEF IInv, ProcOK, RebuildOK, InitRebuilds, Remade
<1>2. QED
  BY <1>1, InvariantHolds, PTL

\* No step of an init, whoever else is at work, makes users' writes fail that
\* went through before: columns first, triggers after (sqlite.py:194-220,
\* migrations.py:18-20).
THEOREM BreaksNothing == Undisturbed => (Spec => InitBreaksNoWrites)
<1> SUFFICES ASSUME Undisturbed
             PROVE  Spec => InitBreaksNoWrites
  OBVIOUS
<1> DEFINE Spared == \A p \in Procs : proc[p].task = "init" /\ proc'[p] # proc[p] =>
                        \A t \in Tables : Broken(t)' => Broken(t)
<1>1. IInv /\ TypeInv' /\ [Next]_vars => [Spared]_vars
  <2> SUFFICES ASSUME IInv, TypeInv', [Next]_vars, NEW p \in Procs, proc[p].task = "init",
                      proc'[p] # proc[p], NEW t \in Tables, Broken(t)'
               PROVE  Broken(t)
    BY DEF vars
  <2>1. PICK q \in Procs : Step(q)
    BY DEF Next, vars, DropTable
  <2>2. engine' = engine /\ tables' = tables
    BY <2>1 DEF Step, InitBegin, Create, ReadVersion, Look, Add, Stamp, ReadTracked, NextTable,
       TrackBegin, UntrackBegin, DropTrigger, Unlist, CreateTrigger, Enlist, UninstallBegin,
       Finish, Remove, Fail, Die
  <2>4. /\ store \in [has : SUBSET Objects, version : 0 .. Current, tracked : SUBSET Tables]
        /\ triggers \in [Tables -> [1 .. 3 -> Forms]]
    BY DEF IInv, TypeInv, TypeOK
  <2>5. store.has \subseteq store'.has
    <3>1. ~Remove(q)
      BY DEF Remove, IInv, ProcOK, CompanyOK, Alone, TypeInv, WorkOK
    <3>2. CASE Create(q)
      BY <2>4, <3>2 DEF Create
    <3>3. CASE Add(q)
      BY <2>4, <3>3 DEF Add
    <3>4. CASE Stamp(q) \/ Unlist(q) \/ Enlist(q)
      BY <2>4, <3>4 DEF Stamp, Unlist, Enlist
    <3>5. QED
      BY <2>1, <3>1, <3>2, <3>3, <3>4 DEF Step, InitBegin, ReadVersion, Look, ReadTracked,
         NextTable, TrackBegin, UntrackBegin, DropTrigger, CreateTrigger, UninstallBegin,
         Finish, Fail, Die
  <2>6. t \in tables
    BY <2>2 DEF Broken
  <2>7. /\ triggers' \in [Tables -> [1 .. 3 -> Forms]]
        /\ \E n \in 1 .. 3 : ~((Needs(triggers[t][n]))' \subseteq store'.has)
    BY DEF Broken, TypeInv, TypeOK
  <2>8. PICK n \in 1 .. 3, form \in Forms :
          triggers'[t][n] = form /\ ~(Needs(form) \subseteq store'.has)
    <3>1. PICK n \in 1 .. 3 : ~((Needs(triggers[t][n]))' \subseteq store'.has)
      BY <2>7
    <3>2. (Needs(triggers[t][n]))' = Needs(triggers'[t][n])
      BY <2>2 DEF Needs, Base, Attribution
    <3>3. triggers'[t][n] \in Forms
      BY <2>7
    <3>4. QED
      BY <3>1, <3>2, <3>3
  <2>9. CASE triggers'[t][n] = triggers[t][n]
    BY <2>5, <2>6, <2>8, <2>9 DEF Broken
  <2>10. CASE DropTrigger(q)
    <3>1. proc[q].table \in Tables /\ proc[q].at \in 1 .. 3
      <4>1. proc[q] \in Work /\ WorkOK(q)
        BY DEF IInv, TypeInv, TypeOK
      <4>2. proc[q].at \in 1 .. 6
        BY <4>1 DEF Work
      <4>3. QED
        BY <4>1, <4>2, <2>10 DEF DropTrigger, WorkOK, AtTable
    <3>2. triggers'[t][n] = triggers[t][n] \/ triggers'[t][n] = "none"
      BY <2>4, <2>10, <3>1 DEF DropTrigger
    <3>3. CASE triggers'[t][n] = "none"
      BY <2>8, <3>3 DEF Needs
    <3>4. QED
      BY <2>9, <3>2, <3>3
  <2>11. CASE CreateTrigger(q)
    <3>1. proc[q].table \in Tables /\ proc[q].at \in 1 .. 3
      <4>1. proc[q] \in Work /\ WorkOK(q)
        BY DEF IInv, TypeInv, TypeOK
      <4>2. proc[q].at \in 1 .. 6
        BY <4>1 DEF Work
      <4>3. QED
        BY <4>1, <4>2, <2>11 DEF CreateTrigger, WorkOK, AtTable
    <3>2. triggers'[t][n] = triggers[t][n] \/ triggers'[t][n] = "new"
      BY <2>4, <2>11, <3>1 DEF CreateTrigger
    <3>3. q = p
      BY <2>11, Went DEF CreateTrigger
    <3>4. Has(Current) \subseteq store.has
      BY <2>11, <3>3 DEF CreateTrigger, IInv, ProcOK, InitOK, Upgrading
    <3>5. Needs("new") \subseteq Has(Current)
      BY DEF Needs, Has, Current
    <3>6. CASE triggers'[t][n] = "new"
      BY <2>5, <2>8, <3>4, <3>5, <3>6
    <3>7. QED
      BY <2>9, <3>2, <3>6
  <2>12. CASE ~DropTrigger(q) /\ ~CreateTrigger(q)
    <3>1. triggers' = triggers
      BY <2>1, <2>12 DEF Step, InitBegin, Create, ReadVersion, Look, Add, Stamp, ReadTracked,
         NextTable, TrackBegin, UntrackBegin, Unlist, Enlist, UninstallBegin, Finish, Remove,
         Fail, Die
    <3>2. QED
      BY <2>9, <3>1
  <2>13. QED
    BY <2>10, <2>11, <2>12
<1>2. QED
  BY <1>1, InvariantHolds, TypesHold, PTL DEF Spec, InitBreaksNoWrites
=============================================================================
