--------------------------------- MODULE Hub ---------------------------------
(***************************************************************************)
(* The hub, its shippers and the database they follow.  A shipper reads    *)
(* the database and writes the hub, two stores with no transaction in      *)
(* common, while the database commits, undoes and purges, other shippers   *)
(* run, and the hub's own history is trimmed.                              *)
(*                                                                         *)
(* One database is followed.  It appears in the hub under the identity it  *)
(* minted, which is named after the shipper that minted it.                *)
(***************************************************************************)
EXTENDS Integers, FiniteSets

CONSTANTS
  Serial,    \* writers of the database commit one at a time (SQLite)
  Distinct,  \* no two undos bear the same time: the clock is fine enough
  Minted,    \* the database has its identity from the start
  Shippers,  \* processes that run `ship`
  NoId,
  Batch,     \* changes, and undone operations, pulled per round trip
  MaxOps,    \* bound: operations of the database
  MaxSeq,    \* bound: sequence numbers
  MaxClock,  \* bound: instants at which the database stamps an undo
  MaxFails,  \* bound: interrupted runs, and headers a failed query leaves out
  MaxTrims   \* bound: purges of the hub

Ops     == 1 .. MaxOps
Numbers == 1 .. MaxSeq
Instant == 1 .. MaxClock
Ids     == Shippers

ASSUME HubConstants ==
  /\ {Serial, Distinct, Minted} \subseteq BOOLEAN
  /\ NoId \notin Shippers
  /\ Batch \in Nat \ {0}
  /\ MaxOps \in Nat /\ MaxSeq \in Nat /\ MaxClock \in Nat \ {0}
  /\ MaxFails \in Nat /\ MaxTrims \in Nat

VARIABLES
  log, used,  \* the database: its change log, and the numbers assigned
  stamp,      \* when each operation was undone; 0 if it was not
  clock,
  identity,   \* the setting source_id
  hub,        \* what the hub holds under each identity
  trim,       \* a purge of the hub in progress
  cleared,    \* history: operations purges of the hub set out to delete
  missed,     \* history: operations whose header a failed query left out
  ship,       \* what each shipper is doing
  fails, trims

database == <<log, used, stamp, clock>>
record   == <<missed, fails, trims>>
vars     == <<database, identity, hub, trim, cleared, ship, record>>

Undone == {o \in Ops : stamp[o] # 0}

Feed == INSTANCE ChangeFeed WITH undone <- Undone

Change == [seq : Numbers, op : Ops]
Undo   == [op : Ops, at : Instant]

\* ctrlz_hub_sources, _changes, _operations and _operation_tables, one table's
\* changes standing for all.  0 is a NULL time or an operation without counts.
Held == [known : BOOLEAN, watermark : Nat, marker : 0 .. MaxClock,
         changes : SUBSET Change, ops : SUBSET Ops,
         undone : [Ops -> 0 .. MaxClock], count : [Ops -> Nat]]
Nothing == [known |-> FALSE, watermark |-> 0, marker |-> 0, changes |-> {}, ops |-> {},
            undone |-> [o \in Ops |-> 0], count |-> [o \in Ops |-> 0]]

Step   == {"start", "mint", "register", "changes", "headers", "store",
           "marker", "undone", "refresh"}
Header == [op : Ops, undone : 0 .. MaxClock]
Run    == [pc : Step, id : Ids \cup {NoId}, since : Nat, batch : SUBSET Change,
           unread : SUBSET Ops, headers : SUBSET Header,
           marker : 0 .. MaxClock, undos : SUBSET Undo]
Resting == [pc |-> "start", id |-> NoId, since |-> 0, batch |-> {}, unread |-> {},
            headers |-> {}, marker |-> 0, undos |-> {}]

Largest(S, least) == CHOOSE n \in S \cup {least} : \A m \in S \cup {least} : m <= n

-----------------------------------------------------------------------------
(* The database.                                                            *)

Known(o) == \E e \in log : e.op = o

\* An operation commits; it may be the undo of another.  Where writers commit
\* concurrently, numbers and times were taken before others' commits.
Commit ==
  \E o \in Ops, spent \in SUBSET Numbers, u \in Ops \cup {0} :
    /\ u # 0 => Known(u) /\ stamp[u] = 0
    /\ \/ u = 0 /\ UNCHANGED <<stamp, clock>>
       \/ u # 0 /\ clock \in Instant /\ \E t \in IF Serial THEN {clock} ELSE 1 .. clock :
            /\ stamp' = [stamp EXCEPT ![u] = t]
            /\ clock' = IF Distinct THEN clock + 1 ELSE clock
    /\ Feed!Publish(o, {[seq |-> n, op |-> o] : n \in spent}, {u} \ {0}, spent)
    /\ UNCHANGED <<identity, hub, trim, cleared, ship, record>>

Purge ==
  /\ \E k \in 2 .. MaxOps + 1 :
       /\ stamp' = [o \in Ops |-> IF o < k THEN 0 ELSE stamp[o]]
       /\ Feed!Forget(1 .. (k - 1))
  /\ UNCHANGED <<clock, identity, hub, trim, cleared, ship, record>>

Tick ==
  /\ clock < MaxClock
  /\ clock' = clock + 1
  /\ UNCHANGED <<log, used, stamp, identity, hub, trim, cleared, ship, record>>

-----------------------------------------------------------------------------
(* One batch of `ship`.  A run repeats it until nothing moves, and the next *)
(* run starts where the next batch would.                                   *)

Elsewhere == <<database, trim, cleared, record>>

\* source_id: read the setting, and mint an identity if there is none.
ReadIdentity(p) ==
  /\ ship[p].pc = "start"
  /\ ship' = [ship EXCEPT ![p].pc = IF identity = NoId THEN "mint" ELSE "register",
                          ![p].id = identity]
  /\ UNCHANGED <<Elsewhere, identity, hub>>

Mint(p) ==
  /\ ship[p].pc = "mint"
  /\ identity' = p
  /\ ship' = [ship EXCEPT ![p].pc = "register", ![p].id = p]
  /\ UNCHANGED <<Elsewhere, hub>>

Register(p) ==
  /\ ship[p].pc = "register"
  /\ hub' = [hub EXCEPT ![ship[p].id].known = TRUE]
  /\ ship' = [ship EXCEPT ![p].pc = "changes", ![p].since = hub[ship[p].id].watermark]
  /\ UNCHANGED <<Elsewhere, identity>>

\* changes_since: the first Batch changes above the watermark.  The mutants
\* leave out the one next to it, and take the last ones first.
AfterNext(n)  == {e \in log : e.seq > n + 1}
After(n)      == {e \in log : e.seq > n}
NewestOf(S)   == {e \in S : Cardinality({f \in S : f.seq > e.seq}) < Batch}
FirstOf(S)    == {e \in S : Cardinality({f \in S : f.seq < e.seq}) < Batch}

ReadChanges(p) ==
  /\ ship[p].pc = "changes"
  /\ LET new == FirstOf(After(ship[p].since))
     IN  ship' = [ship EXCEPT ![p].pc = IF new = {} THEN "marker" ELSE "headers",
                              ![p].batch = new, ![p].unread = {e.op : e \in new}]
  /\ UNCHANGED <<Elsewhere, identity, hub>>

\* operation(op_id), one query each; an operation purged meanwhile is passed over.
ReadHeader(p) ==
  /\ ship[p].pc = "headers"
  /\ \E o \in ship[p].unread :
       ship' = [ship EXCEPT
         ![p].pc = IF ship[p].unread = {o} THEN "store" ELSE @,
         ![p].unread = @ \ {o},
         ![p].headers = IF Known(o) THEN @ \cup {[op |-> o, undone |-> stamp[o]]} ELSE @]
  /\ UNCHANGED <<Elsewhere, identity, hub>>

\* The same query fails for some other reason.  Whatever it raises is taken for a
\* purge at the source: the run goes on, and stores the changes without the header.
MissHeader(p) ==
  /\ ship[p].pc = "headers" /\ fails < MaxFails
  /\ fails' = fails + 1
  /\ \E o \in ship[p].unread :
       /\ ship' = [ship EXCEPT ![p].pc = IF ship[p].unread = {o} THEN "store" ELSE @,
                               ![p].unread = @ \ {o}]
       /\ missed' = missed \cup {<<ship[p].id, o>>}
  /\ UNCHANGED <<database, identity, hub, trim, cleared, trims>>

\* Mutant of Stored: headers are updated, not inserted.
StoredUpdating(h, batch, headers) ==
  [h EXCEPT !.watermark = Largest({e.seq : e \in batch}, 0), !.changes = @ \cup batch]

\* The transaction that stores the batch: changes already there are kept,
\* headers and counts are replaced, and the watermark becomes the highest.
Stored(h, batch, headers) ==
  LET new     == {e \in batch : \A c \in h.changes : c.seq # e.seq}
      of(o)   == CHOOSE x \in headers : x.op = o
      read    == {x.op : x \in headers}
  IN  [known |-> h.known, marker |-> h.marker,
       watermark |-> Largest({e.seq : e \in batch}, 0),
       changes |-> h.changes \cup new,
       ops |-> h.ops \cup read,
       undone |-> [o \in Ops |-> IF o \in read THEN of(o).undone ELSE h.undone[o]],
       count |-> [o \in Ops |-> IF o \in read THEN Cardinality({e \in batch : e.op = o})
                                ELSE h.count[o]]]

Store(p) ==
  /\ ship[p].pc = "store"
  /\ hub' = [hub EXCEPT ![ship[p].id] = Stored(@, ship[p].batch, ship[p].headers)]
  /\ ship' = [ship EXCEPT ![p].pc = "marker", ![p].batch = {}, ![p].headers = {}]
  /\ UNCHANGED <<Elsewhere, identity>>

ReadMarker(p) ==
  /\ ship[p].pc = "marker"
  /\ ship' = [ship EXCEPT ![p].pc = "undone", ![p].marker = hub[ship[p].id].marker]
  /\ UNCHANGED <<Elsewhere, identity, hub>>

\* Mutant of OldestOf: the LIMIT without its ORDER BY.
SomeOf(S, U) ==
  U \subseteq S /\ Cardinality(U) = IF Cardinality(S) < Batch THEN Cardinality(S) ELSE Batch

\* operations_undone_since: strictly after the marker, oldest first, at most
\* Batch of them; the order among equal times is the database's choice.
OldestOf(S, U) ==
  /\ U \subseteq S
  /\ Cardinality(U) = IF Cardinality(S) < Batch THEN Cardinality(S) ELSE Batch
  /\ \A x \in U, y \in S \ U : x.at <= y.at

ReadUndone(p) ==
  /\ ship[p].pc = "undone"
  /\ LET late == {x \in Undo : x.op \in Undone /\ stamp[x.op] = x.at /\ x.at > ship[p].marker}
     IN  \E U \in SUBSET late :
           /\ OldestOf(late, U)
           /\ ship' = [ship EXCEPT ![p] = IF U = {} THEN Resting
                                          ELSE [@ EXCEPT !.pc = "refresh", !.undos = U]]
  /\ UNCHANGED <<Elsewhere, identity, hub>>

\* The second transaction: marks on the headers that are there, and the marker.
Refreshed(h, undos) ==
  [h EXCEPT !.marker = Largest({x.at : x \in undos}, 0),
            !.undone = [o \in Ops |->
               IF o \in h.ops /\ \E x \in undos : x.op = o
               THEN (CHOOSE x \in undos : x.op = o).at ELSE h.undone[o]]]

Refresh(p) ==
  /\ ship[p].pc = "refresh"
  /\ hub' = [hub EXCEPT ![ship[p].id] = Refreshed(@, ship[p].undos)]
  /\ ship' = [ship EXCEPT ![p] = Resting]
  /\ UNCHANGED <<Elsewhere, identity>>

\* The run is interrupted, or a query of it other than a header's fails; what it
\* had open in the hub is rolled back.
Fail(p) ==
  /\ ship[p].pc # "start" /\ fails < MaxFails
  /\ fails' = fails + 1
  /\ ship' = [ship EXCEPT ![p] = Resting]
  /\ UNCHANGED <<database, identity, hub, trim, cleared, missed, trims>>

-----------------------------------------------------------------------------
(* A purge of the hub: everything, table by table, or the operations older  *)
(* than a point in time, one after another.  Every DELETE is a commit.      *)

AtRest == [table |-> "changes", left |-> {}, now |-> {}]

OlderThan(k) == {x \in Ids \X Ops : x[2] \in hub[x[1]].ops /\ x[2] < k}

TrimBegin ==
  /\ trim = AtRest /\ trims < MaxTrims
  /\ \E left \in {{Ids \X Ops}} \cup {{{x} : x \in OlderThan(k)} : k \in 2 .. MaxOps} :
       /\ trim' = [trim EXCEPT !.left = left]
       /\ cleared' = cleared \cup UNION left
  /\ trims' = trims + 1
  /\ UNCHANGED <<database, identity, hub, ship, missed, fails>>

TrimChanges ==
  /\ trim.now = {}
  /\ \E t \in trim.left :
       /\ trim' = [table |-> "operation_tables", left |-> trim.left \ {t}, now |-> t]
       /\ hub' = [i \in Ids |->
            [hub[i] EXCEPT !.changes = {e \in @ : <<i, e.op>> \notin t}]]
  /\ UNCHANGED <<database, identity, cleared, ship, record>>

TrimTables ==
  /\ trim.table = "operation_tables"
  /\ trim' = [trim EXCEPT !.table = "operations"]
  /\ hub' = [i \in Ids |->
       [hub[i] EXCEPT !.count = [o \in Ops |-> IF <<i, o>> \in trim.now THEN 0 ELSE @[o]]]]
  /\ UNCHANGED <<database, identity, cleared, ship, record>>

TrimOperations ==
  /\ trim.table = "operations"
  /\ trim' = [table |-> "changes", left |-> trim.left, now |-> {}]
  /\ hub' = [i \in Ids |->
       [hub[i] EXCEPT !.ops = {o \in @ : <<i, o>> \notin trim.now},
                      !.undone = [o \in Ops |-> IF <<i, o>> \in trim.now THEN 0 ELSE @[o]]]]
  /\ UNCHANGED <<database, identity, cleared, ship, record>>

-----------------------------------------------------------------------------

Init ==
  /\ log = {} /\ used = {} /\ stamp = [o \in Ops |-> 0] /\ clock = 1
  /\ identity \in IF Minted THEN Ids ELSE {NoId}
  /\ hub = [i \in Ids |-> Nothing]
  /\ trim = AtRest /\ cleared = {} /\ missed = {}
  /\ ship = [p \in Shippers |-> Resting]
  /\ fails = 0 /\ trims = 0

Ship(p) ==
  \/ ReadIdentity(p) \/ Mint(p) \/ Register(p) \/ ReadChanges(p) \/ ReadHeader(p)
  \/ Store(p) \/ ReadMarker(p) \/ ReadUndone(p) \/ Refresh(p)

Trim == TrimBegin \/ TrimChanges \/ TrimTables \/ TrimOperations

Next ==
  \/ Commit \/ Purge \/ Tick \/ Trim
  \/ \E p \in Shippers : Ship(p) \/ MissHeader(p) \/ Fail(p)

Spec == Init /\ [][Next]_vars

\* A run that is not interrupted goes on until nothing moves, and runs are
\* scheduled again and again; nothing else has to happen.
FairSpec == Spec /\ \A p \in Shippers : WF_vars(Ship(p))

-----------------------------------------------------------------------------
(* What the hub promises.                                                   *)

\* The shapes of the two stores and of what the shippers carry between them.
TypeOK ==
  /\ log \subseteq Change /\ used \subseteq Numbers
  /\ stamp \in [Ops -> 0 .. MaxClock] /\ clock \in 1 .. MaxClock + 1
  /\ identity \in Ids \cup {NoId}
  /\ hub \in [Ids -> Held]
  /\ trim \in [table : {"changes", "operation_tables", "operations"},
               left : SUBSET SUBSET (Ids \X Ops), now : SUBSET (Ids \X Ops)]
  /\ cleared \subseteq Ids \X Ops /\ missed \subseteq Ids \X Ops
  /\ ship \in [Shippers -> Run]
  /\ \A p \in Shippers : ship[p].pc \notin {"start", "mint"} => ship[p].id # NoId

\* Every change the watermark has passed is in the hub, unless the hub's own
\* history was trimmed: whatever interruptions, overlapping shippers and
\* purges there were, none is skipped.
NothingSkipped ==
  \A i \in Ids, e \in log :
     e.seq <= hub[i].watermark => e \in hub[i].changes \/ <<i, e.op>> \in cleared

\* The hub never holds, under a sequence number, anything but the change the
\* database holds under it.
HubAgrees ==
  \A i \in Ids, e \in log : \A c \in hub[i].changes : c.seq = e.seq => c = e

\* A change in the hub belongs to an operation in the hub, unless that was
\* purged on either side or the query for its header failed.
ChangesHaveHeaders ==
  \A i \in Ids, c \in log :
     c \in hub[i].changes => c.op \in hub[i].ops \/ <<i, c.op>> \in cleared \cup missed

\* Once the refresh marker has passed the time of an undo, the hub shows the
\* operation as undone: it does not go on advertising what was reversed.
UndosAreSeen ==
  \A i \in Ids, o \in Ops :
     stamp[o] # 0 /\ stamp[o] <= hub[i].marker /\ o \in hub[i].ops =>
        hub[i].undone[o] = stamp[o]

\* An operation of which the hub holds every change is counted in full: the
\* hub knows by how much each table changed.
CountsAreWhole ==
  \A i \in Ids : \A o \in hub[i].ops :
     (\A e \in log : e.op = o => e \in hub[i].changes) /\ <<i, o>> \notin cleared =>
        hub[i].count[o] >= Cardinality({c \in log : c.op = o})

Arrived(e) == \E i \in Ids : e \in hub[i].changes \/ <<i, e.op>> \in cleared

\* Every change that stays in the database reaches the hub.
Drains == \A e \in Change : e \in log ~> e \notin log \/ Arrived(e)

\* Every undo of an operation the hub knows becomes visible in it.
UndosArrive ==
  \A i \in Ids, o \in Ops :
     (stamp[o] # 0 /\ o \in hub[i].ops) ~>
        (stamp[o] = 0 \/ o \notin hub[i].ops \/ hub[i].undone[o] # 0)
=============================================================================
