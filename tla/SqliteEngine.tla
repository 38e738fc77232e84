---------------------------- MODULE SqliteEngine ----------------------------
(***************************************************************************)
(* The SQLite engine of ctrlz: what the capture triggers record, what      *)
(* `execute` stages and commits, what `assess` reads and what `undo`       *)
(* writes back, with several ctrlz processes and with clients that write   *)
(* to the same file without going through ctrlz.                           *)
(*                                                                         *)
(* A row of a tracked table is a slot (a table and an identity); what it   *)
(* holds is one value, or Absent.  Slots with a Parent are the rows of a   *)
(* child table, each referencing one row of the parent table.  Statements  *)
(* are taken one row at a time, which is how row triggers see them.        *)
(***************************************************************************)
EXTENDS Ordering

CONSTANTS
  Slots,      \* identities of the rows of the tracked tables
  Vals,       \* what a row can hold
  Absent,     \* the slot has no row
  Parent,     \* Parent[s]: the row that row s references, or NoSlot
  NoSlot,
  OnDelete,   \* the foreign key's action: "cascade" or "refuse"
  Sessions,   \* processes that opened the database through ctrlz
  NoSession,
  External,   \* whether clients outside ctrlz write to the tables
  MaxRows,    \* the setting max_rows_per_operation
  MaxOps,     \* bound: operation ids minted
  MaxSeq      \* bound: change-log entries after which users stop writing

ASSUME ConstantsOK ==
  /\ IsFiniteSet(Slots)
  /\ Absent \notin Vals
  /\ NoSlot \notin Slots
  /\ NoSession \notin Sessions
  /\ Parent \in [Slots -> Slots \cup {NoSlot}]
  /\ \A s \in Slots : Parent[s] # NoSlot => Parent[Parent[s]] = NoSlot
  /\ OnDelete \in {"cascade", "refuse"}
  /\ External \in BOOLEAN
  /\ MaxRows \in Nat /\ MaxOps \in Nat /\ MaxSeq \in Nat

VARIABLES
  db,      \* the committed contents of the database file
  work,    \* the open transaction's view of it; equal to db when there is none
  writer,  \* the session that holds the write lock, or NoSession
  sess     \* what each session is doing

vars == <<db, work, writer, sess>>

-----------------------------------------------------------------------------
(* Rows of the metadata tables.  Operation ids are uuids: a counter stands  *)
(* for freshness, and 0 for NULL.                                           *)

OpIds   == 1 .. MaxOps
Source  == {"none", "external", "ctrlz"}
Content == Vals \cup {Absent}

\* ctrlz_operations; a row with source "none" is not there.
OpRow == [source : Source, count : Nat, capped : BOOLEAN,
          undoOf : 0 .. MaxOps, undone : BOOLEAN, undoneBy : 0 .. MaxOps]
NoOp  == [source |-> "none", count |-> 0, capped |-> FALSE,
          undoOf |-> 0, undone |-> FALSE, undoneBy |-> 0]

\* ctrlz_change_log; the action is the shape of the images.
Entry == [seq : Nat, op : OpIds, slot : Slots, before : Content, after : Content]
IsInsert(c) == c.before = Absent
IsDelete(c) == c.after = Absent

\* ctrlz_current_op, the single row through which writers name the operation.
CurrentOp == [op : 0 .. MaxOps, source : Source, undoOf : 0 .. MaxOps]
NoCurrent == [op |-> 0, source |-> "none", undoOf |-> 0]

Database == [rows : [Slots -> Content], ops : [OpIds -> OpRow], log : SUBSET Entry,
             cur : CurrentOp, seq : Nat, minted : 0 .. MaxOps]

Status  == {"clean", "drifted", "missing", "occupied"}
Verdict == [change : Entry, status : Status, current : Content]

Idle == [pc |-> "idle", op |-> 0, allow |-> FALSE, capped |-> FALSE,
         undone |-> FALSE, changes |-> {}, verdicts |-> {}]
Closed == [Idle EXCEPT !.pc = "closed"]
Doing == {"closed", "idle", "running", "reading", "inspecting", "applying"}
Session == [pc : Doing, op : 0 .. MaxOps,
            allow : BOOLEAN, capped : BOOLEAN, undone : BOOLEAN,
            changes : SUBSET Entry, verdicts : SUBSET Verdict]

-----------------------------------------------------------------------------
(* The capture triggers.                                                    *)

Exists(d, o) == d.ops[o].source # "none"

\* The first statement of the trigger: claim an id when nobody staged one.
Claimed(d) ==
  IF d.cur.op # 0 THEN d
  ELSE [d EXCEPT !.minted = @ + 1,
                 !.cur = [op |-> d.minted + 1, source |-> "external", undoOf |-> d.cur.undoOf]]

\* The operation's row, inserted from the staging row if it is not there yet.
Credited(d) ==
  IF Exists(d, d.cur.op) THEN d.ops[d.cur.op]
  ELSE [source |-> d.cur.source, count |-> 0, capped |-> FALSE,
        undoOf |-> d.cur.undoOf, undone |-> FALSE, undoneBy |-> 0]

\* Mutants of Counted and Stored: the cap set one row late, and the last row
\* under the limit not stored.
CountedLate(row, n) ==
  [row EXCEPT !.count = @ + n, !.capped = @ \/ row.count + n > MaxRows + 1]
StoredShort(row, n) ==
  IF row.capped THEN 0 ELSE IF row.count + n >= MaxRows THEN MaxRows - row.count - 1 ELSE n

\* n firings on that row: each is counted, the first beyond the limit caps the
\* operation, and images are stored until then.
Counted(row, n) ==
  [source |-> row.source, count |-> row.count + n,
   capped |-> row.capped \/ row.count + n > MaxRows,
   undoOf |-> row.undoOf, undone |-> row.undone, undoneBy |-> row.undoneBy]
Stored(row, n) ==
  IF row.capped THEN 0 ELSE IF row.count + n > MaxRows THEN MaxRows - row.count ELSE n

\* The images of the first k firings.
Images(d, num, rows, k) ==
  {[seq |-> d.seq + num[x], op |-> d.cur.op, slot |-> x,
    before |-> d.rows[x], after |-> rows[x]] : x \in {y \in DOMAIN num : num[y] <= k}}

\* A statement touches the slots in DOMAIN num, its triggers firing in the
\* order num, the last for slot s; rows is the outcome.
Recorded(d, s, num, rows) ==
  LET k == Stored(Credited(d), num[s])
  IN  [rows |-> rows,
       ops |-> [d.ops EXCEPT ![d.cur.op] = Counted(Credited(d), num[s])],
       log |-> d.log \cup Images(d, num, rows, k),
       cur |-> d.cur, seq |-> d.seq + k, minted |-> d.minted]

Captured(d, s, num, rows) == Recorded(Claimed(d), s, num, rows)

Children(d, s) == {k \in Slots : Parent[k] = s /\ d.rows[k] # Absent}

\* Foreign-key actions run before the AFTER trigger of the row they belong to.
FiringOrders(T, s) ==
  {num \in [T -> 1 .. Cardinality(T)] :
     /\ num[s] = Cardinality(T)
     /\ \A x, y \in T : num[x] = num[y] => x = y}

\* The row writes of SQLite: d2 is d after one of them.
Put(d, s, v, d2) ==
  d2 = Captured(d, s, [x \in {s} |-> 1], [d.rows EXCEPT ![s] = v])

Remove(d, s, d2) ==
  LET gone == {s} \cup (IF OnDelete = "cascade" THEN Children(d, s) ELSE {})
  IN  \E num \in FiringOrders(gone, s) :
        d2 = Captured(d, s, num, [x \in Slots |-> IF x \in gone THEN Absent ELSE d.rows[x]])

\* A foreign key that holds: no row without the row it references.
HasParent(d, s) == Parent[s] # NoSlot => d.rows[Parent[s]] # Absent
RefOK(d) == \A s \in Slots : d.rows[s] # Absent => HasParent(d, s)

\* One row written by a user's statement.  Foreign keys are enforced when the
\* statement ends, so a write that would break one fails and changes nothing.
UserWrite(d, d2) ==
  \E s \in Slots :
    \/ d.rows[s] = Absent /\ HasParent(d, s) /\ \E v \in Vals : Put(d, s, v, d2)
    \/ d.rows[s] # Absent /\ \E v \in Vals : Put(d, s, v, d2)
    \/ /\ d.rows[s] # Absent
       /\ OnDelete = "refuse" => Children(d, s) = {}
       /\ Remove(d, s, d2)

\* Bounds on what users do.  Past the limit an operation only counts, so one
\* write too many stands for any number.
UserMayWrite(d) ==
  /\ d.seq < MaxSeq
  /\ IF d.cur.op = 0 THEN d.minted < MaxOps ELSE d.ops[d.cur.op].count <= MaxRows

-----------------------------------------------------------------------------
(* Opening and closing; writes outside ctrlz.                               *)

Free == writer = NoSession

\* What happens to the file between transactions.
Autocommit(d) == db' = d /\ work' = d

\* Opening a session ends the operation outside writes were collected under.
Open(s) ==
  /\ Free /\ sess[s].pc = "closed"
  /\ Autocommit(IF db.cur.source = "ctrlz" THEN db ELSE [db EXCEPT !.cur = NoCurrent])
  /\ sess' = [sess EXCEPT ![s] = Idle]
  /\ UNCHANGED writer

\* The process exits or dies; an open transaction is rolled back.
Close(s) ==
  /\ sess[s].pc # "closed"
  /\ sess' = [sess EXCEPT ![s] = Closed]
  /\ IF writer = s THEN writer' = NoSession /\ work' = db ELSE UNCHANGED <<writer, work>>
  /\ UNCHANGED db

ExternalWrite ==
  /\ External /\ Free /\ UserMayWrite(db)
  /\ UserWrite(db, db') /\ work' = db'
  /\ UNCHANGED <<writer, sess>>

-----------------------------------------------------------------------------
(* execute: one staged operation around the user's statements.              *)

Goto(s, pc) == sess' = [sess EXCEPT ![s].pc = pc]

\* What a transaction stages before it writes: a fresh id, credited to ctrlz.
Staged(d, target) ==
  [d EXCEPT !.minted = @ + 1,
            !.cur = [op |-> d.minted + 1, source |-> "ctrlz", undoOf |-> target]]

ExecBegin(s) ==
  /\ sess[s].pc = "idle" /\ Free
  /\ UserMayWrite(db) /\ db.minted < MaxOps
  /\ writer' = s
  /\ work' = Staged(db, 0)
  /\ Goto(s, "running")
  /\ UNCHANGED db

ExecWrite(s) ==
  /\ sess[s].pc = "running" /\ UserMayWrite(work)
  /\ UserWrite(work, work')
  /\ UNCHANGED <<db, writer, sess>>

\* COMMIT, after the staging row has been cleared.
Publish(d) == Autocommit([d EXCEPT !.cur = NoCurrent]) /\ writer' = NoSession

Rollback == work' = db /\ writer' = NoSession /\ UNCHANGED db

ExecCommit(s) ==
  /\ sess[s].pc = "running"
  /\ Publish(work)
  /\ Goto(s, "idle")

\* A dry run, a refused confirmation or a failing statement.
ExecRollback(s) ==
  /\ sess[s].pc = "running"
  /\ Rollback
  /\ Goto(s, "idle")

-----------------------------------------------------------------------------
(* assess: three kinds of SELECT, each a snapshot of its own.               *)

\* operation(op_id): the header, or UnknownOperation, which changes nothing.
ReadOperation(s) ==
  /\ sess[s].pc = "idle"
  /\ \E o \in OpIds, allow \in BOOLEAN :
       /\ Exists(db, o)
       /\ sess' = [sess EXCEPT ![s] =
            [pc |-> "reading", op |-> o, allow |-> allow, capped |-> db.ops[o].capped,
             undone |-> db.ops[o].undone, changes |-> {}, verdicts |-> {}]]
  /\ UNCHANGED <<db, work, writer>>

ChangesOf(d, o) == {c \in d.log : c.op = o}

ReadChanges(s) ==
  /\ sess[s].pc = "reading"
  /\ sess' = [sess EXCEPT ![s].pc = "inspecting", ![s].changes = ChangesOf(db, sess[s].op)]
  /\ UNCHANGED <<db, work, writer>>

\* The image the operation's last INSERT left in the slot c deleted from:
\* undoing that INSERT will free the slot.
FreedBy(changes, c, image) ==
  \E i \in changes : /\ i.slot = c.slot /\ IsInsert(i) /\ i.after = image
                     /\ \A j \in changes : j.slot = c.slot /\ IsInsert(j) => j.seq <= i.seq

\* Mutant of StatusOf: rows the undo itself will free count as occupied.
StatusUnfreed(changes, c, current) ==
  IF IsDelete(c) THEN IF current = Absent THEN "clean" ELSE "occupied"
  ELSE IF current = Absent THEN "missing" ELSE IF current = c.after THEN "clean" ELSE "drifted"

StatusOf(changes, c, current) ==
  IF IsDelete(c)
  THEN IF current = Absent \/ FreedBy(changes, c, current) THEN "clean" ELSE "occupied"
  ELSE IF current = Absent THEN "missing" ELSE IF current = c.after THEN "clean" ELSE "drifted"

Inspected(s) == {v.change : v \in sess[s].verdicts}

\* One live row compared with its image, oldest change first.
Inspect(s) ==
  /\ sess[s].pc = "inspecting"
  /\ \E c \in sess[s].changes \ Inspected(s) :
       /\ \A e \in sess[s].changes \ Inspected(s) : c.seq <= e.seq
       /\ sess' = [sess EXCEPT ![s].verdicts = @ \cup
                     {[change |-> c, current |-> db.rows[c.slot],
                       status |-> StatusOf(sess[s].changes, c, db.rows[c.slot])]}]
  /\ UNCHANGED <<db, work, writer>>

Assessed(s) == sess[s].pc = "inspecting" /\ Inspected(s) = sess[s].changes

\* Mutant of Blocked: a partial capture does not block.
BlockedIfUndone(s) == sess[s].undone \/ sess[s].changes = {}

Blocked(s)    == sess[s].capped \/ sess[s].undone \/ sess[s].changes = {}
Conflicts(s)  == {v \in sess[s].verdicts : v.status \in {"drifted", "occupied"}}
Undoable(s)   == ~Blocked(s) /\ (sess[s].allow \/ Conflicts(s) = {})

\* The assessment is all the caller wanted (preview), undo refuses on it, or
\* the write lock did not come free before the busy timeout.
Report(s) ==
  /\ Assessed(s)
  /\ sess' = [sess EXCEPT ![s] = Idle]
  /\ UNCHANGED <<db, work, writer>>

-----------------------------------------------------------------------------
(* undo: the inverses, applied in one transaction with foreign keys deferred *)
(* to its COMMIT.                                                            *)

UndoBegin(s) ==
  /\ Assessed(s) /\ Undoable(s) /\ Free /\ db.minted < MaxOps
  /\ writer' = s
  /\ work' = Staged(db, sess[s].op)
  /\ sess' = [sess EXCEPT ![s].pc = "applying",
                          ![s].verdicts = {v \in @ : v.status \in {"clean", "drifted"}}]
  /\ UNCHANGED db

\* ordering.order_verdicts.
Phase(c) == IF IsInsert(c) THEN Inserts ELSE IF IsDelete(c) THEN Deletes ELSE Updates
Rank(c)  == IF Parent[c.slot] = NoSlot THEN 0 ELSE 1

Precedes(c, e) ==
  Sooner(SortKey(Phase(c), Rank(c), c.seq), SortKey(Phase(e), Rank(e), e.seq))

NextVerdict(s, v) ==
  /\ v \in sess[s].verdicts
  /\ \A u \in sess[s].verdicts \ {v} : Precedes(v.change, u.change)

\* Mutant of Matches: the inverse is addressed by identity alone.
MatchesAny(d, v) == d.rows[v.change.slot] # Absent

\* The WHERE clause of an inverse DELETE or UPDATE finds its row: the row is
\* there and, unless the verdict forces it, still holds what the change wrote.
Matches(d, v) ==
  /\ d.rows[v.change.slot] # Absent
  /\ v.status = "drifted" \/ d.rows[v.change.slot] = v.change.after

\* An inverse INSERT into a slot that is taken.
Collides(d, v) == IsDelete(v.change) /\ d.rows[v.change.slot] # Absent

ApplyInverse(d, v, d2) ==
  \/ /\ IsDelete(v.change) /\ ~Collides(d, v)
     /\ Put(d, v.change.slot, v.change.before, d2)
  \/ /\ IsInsert(v.change) /\ Matches(d, v)
     /\ Remove(d, v.change.slot, d2)
  \/ /\ ~IsInsert(v.change) /\ ~IsDelete(v.change) /\ Matches(d, v)
     /\ Put(d, v.change.slot, v.change.before, d2)
  \/ ~IsDelete(v.change) /\ ~Matches(d, v) /\ d2 = d

ApplyNext(s) ==
  /\ sess[s].pc = "applying"
  /\ \E v \in sess[s].verdicts :
       /\ NextVerdict(s, v)
       /\ ApplyInverse(work, v, work')
       /\ sess' = [sess EXCEPT ![s].verdicts = @ \ {v}]
  /\ UNCHANGED <<db, writer>>

MarkedUndone(d, o) ==
  IF Exists(d, o)
  THEN [d EXCEPT !.ops[o].undone = TRUE, !.ops[o].undoneBy = d.cur.op] ELSE d

UndoCommit(s) ==
  /\ sess[s].pc = "applying" /\ sess[s].verdicts = {}
  /\ RefOK(work)
  /\ Publish(MarkedUndone(work, sess[s].op))
  /\ sess' = [sess EXCEPT ![s] = Idle]

\* Mutant of UndoAbort: the error of a collision is swallowed.
UndoAbortAtCommit(s) ==
  /\ sess[s].pc = "applying" /\ sess[s].verdicts = {} /\ ~RefOK(work)
  /\ Rollback
  /\ sess' = [sess EXCEPT ![s] = Idle]

\* A unique constraint refuses an inverse, or a foreign key the COMMIT.
UndoAbort(s) ==
  /\ sess[s].pc = "applying"
  /\ \/ \E v \in sess[s].verdicts : NextVerdict(s, v) /\ Collides(work, v)
     \/ sess[s].verdicts = {} /\ ~RefOK(work)
  /\ Rollback
  /\ sess' = [sess EXCEPT ![s] = Idle]

-----------------------------------------------------------------------------
(* Retention: every operation, or those started before a point in time.      *)
(* Operations start in the order of their ids; the log follows by cascade.   *)

\* Mutants of Purged: the log does not follow its headers; numbers are taken
\* from what is left.
PurgedNumbers(d, k) ==
  [d EXCEPT !.ops = [o \in OpIds |-> IF o < k THEN NoOp ELSE d.ops[o]],
            !.log = {c \in d.log : c.op >= k},
            !.seq = Cardinality({n \in 1 .. d.seq : \E c \in d.log : c.op >= k /\ n <= c.seq})]
PurgedHeaders(d, k) == [d EXCEPT !.ops = [o \in OpIds |-> IF o < k THEN NoOp ELSE d.ops[o]]]

Purged(d, k) ==
  [d EXCEPT !.ops = [o \in OpIds |-> IF o < k THEN NoOp ELSE d.ops[o]],
            !.log = {c \in d.log : c.op >= k}]

Purge(s) ==
  /\ sess[s].pc = "idle" /\ Free
  /\ \E k \in 2 .. MaxOps + 1 : Autocommit(Purged(db, k))
  /\ UNCHANGED <<writer, sess>>

-----------------------------------------------------------------------------

Init ==
  /\ \E rows \in [Slots -> Content] :
       /\ db = [rows |-> rows, ops |-> [o \in OpIds |-> NoOp], log |-> {},
                cur |-> NoCurrent, seq |-> 0, minted |-> 0]
       /\ RefOK(db)
  /\ work = db
  /\ writer = NoSession
  /\ sess = [s \in Sessions |-> Closed]

Undoing(s) == ApplyNext(s) \/ UndoCommit(s) \/ UndoAbort(s)

SessionStep(s) ==
  \/ Open(s) \/ Close(s) \/ Purge(s)
  \/ ExecBegin(s) \/ ExecWrite(s) \/ ExecCommit(s) \/ ExecRollback(s)
  \/ ReadOperation(s) \/ ReadChanges(s) \/ Inspect(s) \/ Report(s)
  \/ UndoBegin(s) \/ Undoing(s)

Next == ExternalWrite \/ \E s \in Sessions : SessionStep(s)

Spec == Init /\ [][Next]_vars

\* An undo waits for nobody once it holds the lock, so a process that stays
\* alive takes its steps; users and their prompts owe nobody anything.
FairSpec == Spec /\ \A s \in Sessions : WF_vars(Undoing(s))

-----------------------------------------------------------------------------
(* What the engine promises.                                                *)

\* The shapes of the committed file, the transaction and the sessions.
TypeOK ==
  /\ db \in Database /\ work \in Database
  /\ writer \in Sessions \cup {NoSession}
  /\ sess \in [Sessions -> Session]

Newest(d, c) == \A e \in d.log : e.slot = c.slot => e.seq <= c.seq

\* Some operation from o on outgrew the limit, so rows may have moved unseen.
CappedSince(d, o) == \E p \in OpIds : p >= o /\ d.ops[p].capped

LogAgrees(d) ==
  \A c \in d.log : Newest(d, c) => d.rows[c.slot] = c.after \/ CappedSince(d, c.op)

\* The last image the triggers stored of a row is the row, in the file and in
\* the open transaction, whoever wrote it and whatever was undone or purged,
\* unless a capped operation has been at work since: what assess compares
\* against is the truth.
LogTruth == LogAgrees(db) /\ LogAgrees(work)

Consecutive(d, c, e) ==
  /\ c.slot = e.slot /\ c.seq < e.seq
  /\ \A f \in d.log : f.slot = c.slot => f.seq <= c.seq \/ e.seq <= f.seq

\* Each change of a row starts from the image the change before it left, or a
\* capped operation stands between them: the history has no silent gap.
HistoryChains ==
  \A c, e \in db.log : Consecutive(db, c, e) =>
     c.after = e.before \/ \E p \in c.op .. e.op : db.ops[p].capped

\* An operation that is not marked capped has an image of every row it
\* counted; a capped one has exactly as many as the limit allows.
CaptureIsAllOrCapped ==
  \A o \in OpIds : Exists(db, o) =>
     Cardinality(ChangesOf(db, o)) = IF db.ops[o].capped THEN MaxRows ELSE db.ops[o].count

\* What a session commits is one operation of its own that was not there
\* before; what anybody writes between transactions is never credited to ctrlz,
\* whichever transactions were rolled back or cut short before.
WritesAreAttributed ==
  [][\A c \in db'.log \ db.log :
       IF Free THEN db'.ops[c.op].source = "external"
       ELSE c.op = work.cur.op /\ ~Exists(db, c.op) /\ db'.ops[c.op].source = "ctrlz"]_vars

\* No change is ever added to an operation that has been undone.
UndoneOpsAreClosed ==
  [][\A c \in db'.log \ db.log : ~db.ops[c.op].undone]_vars

\* The record of an undone operation is final: it can only be purged.  In
\* particular no operation is undone twice.
UndoneIsFinal ==
  [][\A o \in OpIds : db.ops[o].undone => db'.ops[o] \in {db.ops[o], NoOp}]_vars

\* No operation run through ctrlz was undone although only part was captured.
CtrlzUndosAreWhole ==
  \A o \in OpIds : db.ops[o].undone /\ db.ops[o].source = "ctrlz" => ~db.ops[o].capped

\* The same of every operation.  An operation that goes on collecting outside
\* writes after its header was read makes it fail.
PartialIsNeverUndone == \A o \in OpIds : db.ops[o].undone => ~db.ops[o].capped

UndoCommitted(s) == sess[s].pc = "applying" /\ sess'[s].pc = "idle" /\ db' # db

\* When the undo of an operation run through ctrlz commits, it has read every
\* change the operation made, and none went unrecorded: although header, changes
\* and rows were read one after the other before the lock was taken, and outside
\* writes and a purge may have come between any two of them.
UndoKnowsItAll ==
  [][\A s \in Sessions : UndoCommitted(s) /\ db.ops[sess[s].op].source = "ctrlz" =>
       /\ ChangesOf(db, sess[s].op) \subseteq sess[s].changes
       /\ ~db.ops[sess[s].op].capped]_vars

TouchesOf(o, x) == {c \in ChangesOf(db, o) : c.slot = x}

\* Nothing was done to slot x after operation o.
LastWord(o, x) ==
  /\ \E c \in TouchesOf(o, x) : Newest(db, c)
  /\ \A p \in OpIds : p >= o => ~db.ops[p].capped

\* The operation wrote the slot once, or replaced its row.
TouchedSimply(o, x) ==
  \/ \E c \in TouchesOf(o, x) : TouchesOf(o, x) = {c}
  \/ \E c, e \in TouchesOf(o, x) :
        TouchesOf(o, x) = {c, e} /\ c.seq < e.seq /\ IsDelete(c) /\ IsInsert(e)

Restored(s, x) ==
  \E c \in TouchesOf(sess[s].op, x) :
     /\ \A e \in TouchesOf(sess[s].op, x) : c.seq <= e.seq
     /\ db'.rows[x] = c.before

\* An undo that commits has put back every row on which its operation had the
\* last word, through whatever cascades, order of inverses and guards it took,
\* if the operation wrote the row once or replaced it.
UndoRestores ==
  [][\A s \in Sessions : UndoCommitted(s) =>
       \A c \in sess[s].changes :
          /\ TouchesOf(sess[s].op, c.slot) \subseteq sess[s].changes
          /\ LastWord(sess[s].op, c.slot)
          /\ TouchedSimply(sess[s].op, c.slot)
          => Restored(s, c.slot)]_vars

\* The same however often the operation wrote the row: the contract as stated.
EveryUndoRestores ==
  [][\A s \in Sessions : UndoCommitted(s) =>
       \A c \in sess[s].changes :
          /\ TouchesOf(sess[s].op, c.slot) \subseteq sess[s].changes
          /\ LastWord(sess[s].op, c.slot)
          => Restored(s, c.slot)]_vars

\* An undo nobody forced changes a row only if the row holds, at that moment,
\* what the operation wrote there: others' edits survive it, including those
\* made after it was assessed.
UndoSparesOthers ==
  [][\A s \in Sessions : UndoCommitted(s) /\ ~sess[s].allow =>
       \A x \in Slots : db'.rows[x] # db.rows[x] =>
          \E c \in sess[s].changes : c.slot = x /\ c.after = db.rows[x]]_vars

\* What commits, as a follower of the log sees it: changes come in the order of
\* their numbers, whole operations at a time, an undone operation is closed and
\* stays undone, and nothing goes but by a purge.
Readable == {[seq |-> c.seq, op |-> c.op] : c \in db.log}
Undone   == {o \in OpIds : db.ops[o].undone}
Feed     == INSTANCE ChangeFeed WITH
              Ops <- OpIds, Serial <- TRUE, log <- Readable, undone <- Undone, used <- 1 .. db.seq

\* The engine keeps the contract of the log's followers.
ServesFeed == Feed!FeedSpec

\* An undo that has taken the write lock gives it back.
UndoEnds == \A s \in Sessions : sess[s].pc = "applying" ~> sess[s].pc # "applying"
=============================================================================
