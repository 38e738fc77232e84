--------------------------- MODULE PostgresEngine ---------------------------
(***************************************************************************)
(* The PostgreSQL engine of ctrlz.  Unlike a SQLite file the database has   *)
(* many transactions open at once, READ COMMITTED: each sees what has been  *)
(* committed and what it wrote itself, and row locks order the writers of a *)
(* row.  The capture function runs inside each of them; `assess` reads      *)
(* between transactions, `undo` writes in one of its own, row by row, each  *)
(* under a savepoint, and tries again those a foreign key refused.          *)
(*                                                                         *)
(* Rows are slots, as in SqliteEngine; foreign keys are not deferrable and  *)
(* have no action, the defaults.                                            *)
(***************************************************************************)
EXTENDS Ordering

CONSTANTS
  Slots, Vals, Absent,  \* identities of rows, what a row holds, no row
  Parent, NoSlot,       \* Parent[s]: the row that row s references, or NoSlot
  Table,                \* Table[s]: the table it is a row of
  Sessions,             \* connections of ctrlz
  Outsiders,            \* connections of everybody else
  Limits,               \* values of the setting max_rows_per_operation
  MaxOps,               \* bound: operations recorded
  MaxSeq                \* bound: change-log entries after which users stop writing

ASSUME ConstantsOK ==
  /\ IsFiniteSet(Slots)
  /\ Absent \notin Vals /\ NoSlot \notin Slots
  /\ Parent \in [Slots -> Slots \cup {NoSlot}]
  /\ DOMAIN Table = Slots
  /\ Sessions \cap Outsiders = {}
  /\ Limits \subseteq Nat /\ Limits # {}
  /\ MaxOps \in Nat /\ MaxSeq \in Nat

VARIABLES
  db,      \* what is committed: rows, operations, change log, the limit
  seq,     \* the sequence of change_log.seq, which no rollback turns back
  minted,  \* operations that got a row so far, committed or not
  tx,      \* the transaction of each connection
  sess,    \* what each session of ctrlz is doing
  unseen   \* slots whose last committed write has no image in the log, or not
           \* any more: a history variable, for the properties only

vars == <<db, seq, minted, tx, sess, unseen>>

Clients == Sessions \cup Outsiders

-----------------------------------------------------------------------------
(* Rows of ctrlz.operations and ctrlz.change_log.  Ids are uuids: a number   *)
(* in the order the operations started stands for one, and 0 for NULL.       *)

OpIds   == 1 .. MaxOps
Content == Vals \cup {Absent}

OpRow == [source : {"none", "external", "ctrlz"}, count : Nat, capped : BOOLEAN,
          undoOf : 0 .. MaxOps, undone : BOOLEAN, undoneBy : 0 .. MaxOps]
NoOp  == [source |-> "none", count |-> 0, capped |-> FALSE,
          undoOf |-> 0, undone |-> FALSE, undoneBy |-> 0]

Entry == [seq : Nat, op : OpIds, slot : Slots, before : Content, after : Content]
IsInsert(c) == c.before = Absent
IsDelete(c) == c.after = Absent
ChangesOf(d, o) == {c \in d.log : c.op = o}
Newest(c) == \A e \in db.log : e.slot = c.slot => e.seq <= c.seq
Exists(d, o) == d.ops[o].source # "none"

Database == [rows : [Slots -> Content], ops : [OpIds -> OpRow], log : SUBSET Entry,
             limit : Nat]

\* The strongest row lock held: none, FOR KEY SHARE, an UPDATE's, a DELETE's.
None  == 0
Share == 1
Row   == 2
Key   == 3

\* op, source and undo_of are the settings ctrlz.op_id, .source and .undo_of,
\* which end with the transaction; row and log what it has inserted.
Transaction == [held : [Slots -> None .. Key], rows : [Slots -> Content], op : 0 .. MaxOps,
                source : {"external", "ctrlz"}, undoOf : 0 .. MaxOps,
                row : OpRow, log : SUBSET Entry, blind : SUBSET Slots]
Begun(source, target) ==
  [held |-> [x \in Slots |-> None], rows |-> [x \in Slots |-> Absent], op |-> 0,
   source |-> source, undoOf |-> target, row |-> NoOp, log |-> {}, blind |-> {}]
NoTx == Begun("external", 0)

Tables  == {Table[x] : x \in Slots}
Verdict == [change : Entry, status : {"clean", "drifted", "missing", "occupied"}]

Idle == [pc |-> "idle", op |-> 0, forced |-> FALSE, capped |-> FALSE, undone |-> FALSE,
         changes |-> {}, verdicts |-> {}, tables |-> {}, deferred |-> {}, progress |-> FALSE]
Session == [pc : {"idle", "running", "reading", "inspecting", "applying"}, op : 0 .. MaxOps,
            forced : BOOLEAN, capped : BOOLEAN, undone : BOOLEAN, changes : SUBSET Entry,
            verdicts : SUBSET Verdict, tables : SUBSET Tables, deferred : SUBSET Verdict,
            progress : BOOLEAN]

-----------------------------------------------------------------------------
(* What a transaction sees, and when it has to wait for another.             *)

Wrote(t, s) == t.held[s] >= Row
Seen(c, s)  == IF Wrote(tx[c], s) THEN tx[c].rows[s] ELSE db.rows[s]

Waits(c, s, lock) == \E o \in Clients \ {c} : tx[o].held[s] + lock > Key

HasParent(c, s) == Parent[s] # NoSlot => Seen(c, Parent[s]) # Absent
Children(c, s)  == {k \in Slots : Parent[k] = s /\ Seen(c, k) # Absent}

\* The row can be inserted now, or deleted now, and the foreign keys agree.
CanInsert(c, s) ==
  /\ Seen(c, s) = Absent /\ ~Waits(c, s, Key) /\ HasParent(c, s)
  /\ Parent[s] # NoSlot => ~Waits(c, Parent[s], Share)
CanDelete(c, s) == Seen(c, s) # Absent /\ ~Waits(c, s, Key) /\ Children(c, s) = {}

\* They refuse: the parent is not there, or a child is and is there to stay.
FkRefusesInsert(c, s) == Seen(c, s) = Absent /\ ~Waits(c, s, Key) /\ ~HasParent(c, s)
FkRefusesDelete(c, s) ==
  /\ ~Waits(c, s, Key) /\ Children(c, s) # {}
  /\ \A k \in Children(c, s) : ~Waits(c, k, Share)

-----------------------------------------------------------------------------
(* ctrlz.capture(), the row trigger.                                         *)

\* The operation's row, inserted at the first firing in the transaction.
Credited(t) ==
  IF t.row # NoOp THEN t.row ELSE [NoOp EXCEPT !.source = t.source, !.undoOf = t.undoOf]

\* The limit in force is read at every firing.
Full(row) == row.count >= db.limit

\* Mutant of Counted: the flag follows the limit of the moment.
CountedAfresh(row) ==
  [row EXCEPT !.count = IF @ < db.limit THEN @ + 1 ELSE db.limit, !.capped = row.count >= db.limit]

Counted(row) ==
  IF Full(row) THEN [row EXCEPT !.count = db.limit, !.capped = TRUE]
  ELSE [row EXCEPT !.count = @ + 1]

\* Mutant of Image: OLD and NEW swapped.
ImageBackwards(op, s, before, after) ==
  [seq |-> seq + 1, op |-> op, slot |-> s, before |-> after, after |-> before]

Image(op, s, before, after) ==
  [seq |-> seq + 1, op |-> op, slot |-> s, before |-> before, after |-> after]

Stronger(lock, other) == IF lock > other THEN lock ELSE other

\* c writes v into slot s under that lock, and the trigger fires.
Write(c, s, v, lock) ==
  LET t      == tx[c]
      op     == IF t.op = 0 THEN minted + 1 ELSE t.op
      full   == Full(Credited(t))
  IN  /\ op \in OpIds
      /\ minted' = IF t.op = 0 THEN op ELSE minted
      /\ seq' = IF full THEN seq ELSE seq + 1
      /\ tx' = [tx EXCEPT ![c] = [t EXCEPT
                  !.held = [x \in Slots |->
                     IF x = s THEN Stronger(lock, t.held[s])
                     ELSE IF x = Parent[s] /\ Seen(c, s) = Absent THEN Stronger(Share, t.held[x])
                     ELSE t.held[x]],
                  !.rows[s] = v,
                  !.op = op,
                  !.row = Counted(Credited(t)),
                  !.log = IF full THEN t.log ELSE t.log \cup {Image(op, s, Seen(c, s), v)},
                  !.blind = IF full THEN t.blind \cup {s} ELSE t.blind \ {s}]]

-----------------------------------------------------------------------------
(* The transactions of users: `execute`, and clients outside ctrlz.          *)

Running(c) == c \in Sessions => sess[c].pc = "running"

UserWrite(c) ==
  /\ Running(c) /\ seq < MaxSeq
  /\ \E s \in Slots :
       \/ CanInsert(c, s) /\ \E v \in Vals : Write(c, s, v, Key)
       \/ Seen(c, s) # Absent /\ ~Waits(c, s, Row) /\ \E v \in Vals : Write(c, s, v, Row)
       \/ CanDelete(c, s) /\ Write(c, s, Absent, Key)
  /\ UNCHANGED <<db, sess, unseen>>

ExecBegin(s) ==
  /\ sess[s].pc = "idle" /\ seq < MaxSeq /\ minted < MaxOps
  /\ tx' = [tx EXCEPT ![s] = Begun("ctrlz", 0)]
  /\ sess' = [sess EXCEPT ![s].pc = "running"]
  /\ UNCHANGED <<db, seq, minted, unseen>>

\* Mutant of Ended: the settings are the session's, not the transaction's.
EndedKeeping(c) == tx' = [tx EXCEPT ![c] = [NoTx EXCEPT !.op = tx[c].op]]

\* A transaction ends, and the settings with it.
Ended(c) == tx' = [tx EXCEPT ![c] = NoTx]

\* COMMIT, over the operations as the transaction left them.
Commits(c, ops) ==
  /\ db' = [db EXCEPT
              !.rows = [x \in Slots |-> Seen(c, x)],
              !.ops = IF tx[c].row = NoOp THEN ops ELSE [ops EXCEPT ![tx[c].op] = tx[c].row],
              !.log = @ \cup tx[c].log]
  /\ unseen' = {x \in unseen : ~Wrote(tx[c], x)} \cup tx[c].blind
  /\ Ended(c)
  /\ UNCHANGED <<seq, minted>>

Returns(c) == sess' = IF c \in Sessions THEN [sess EXCEPT ![c] = Idle] ELSE sess

Commit(c) == Running(c) /\ Commits(c, db.ops) /\ Returns(c)

\* A rollback: a dry run, a refused confirmation, an error, a connection lost.
Abandon(c) ==
  /\ c \in Sessions => sess[c].pc # "idle"
  /\ Ended(c) /\ Returns(c)
  /\ UNCHANGED <<db, seq, minted, unseen>>

-----------------------------------------------------------------------------
(* assess, in autocommit: the header, the changes, and one query per table.  *)

ReadOperation(s) ==
  /\ sess[s].pc = "idle"
  /\ \E o \in OpIds :
       /\ Exists(db, o)
       /\ sess' = [sess EXCEPT ![s] = [Idle EXCEPT
             !.pc = "reading", !.op = o,
             !.capped = db.ops[o].capped, !.undone = db.ops[o].undone]]
  /\ UNCHANGED <<db, seq, minted, tx, unseen>>

ReadChanges(s) ==
  /\ sess[s].pc = "reading"
  /\ sess' = [sess EXCEPT ![s].pc = "inspecting", ![s].changes = ChangesOf(db, sess[s].op)]
  /\ UNCHANGED <<db, seq, minted, tx, unseen>>

\* The image the operation's last INSERT left in the slot c deleted from.
FreedBy(changes, c, image) ==
  \E i \in changes : /\ i.slot = c.slot /\ IsInsert(i) /\ i.after = image
                     /\ \A j \in changes : j.slot = c.slot /\ IsInsert(j) => j.seq <= i.seq

StatusOf(changes, c, current) ==
  IF IsDelete(c)
  THEN IF current = Absent \/ FreedBy(changes, c, current) THEN "clean" ELSE "occupied"
  ELSE IF current = Absent THEN "missing" ELSE IF current = c.after THEN "clean" ELSE "drifted"

Uninspected(s) == sess[s].changes \ {v.change : v \in sess[s].verdicts}

\* The live rows of the first table not looked at yet, all in one query.
LiveRows(s) ==
  /\ sess[s].pc = "inspecting"
  /\ \E c \in Uninspected(s) :
       /\ \A e \in Uninspected(s) : c.seq <= e.seq
       /\ sess' = [sess EXCEPT ![s].verdicts = @ \cup
             {[change |-> e, status |-> StatusOf(sess[s].changes, e, db.rows[e.slot])] :
                e \in {f \in sess[s].changes : Table[f.slot] = Table[c.slot]}}]
  /\ UNCHANGED <<db, seq, minted, tx, unseen>>

Assessed(s) == sess[s].pc = "inspecting" /\ Uninspected(s) = {}

\* Mutant of Blocked: a partial capture does not block.
BlockedIfUndone(s) == sess[s].undone \/ sess[s].changes = {}

Blocked(s)   == sess[s].capped \/ sess[s].undone \/ sess[s].changes = {}
Conflicts(s) == {v \in sess[s].verdicts : v.status \in {"drifted", "occupied"}}
ToInvert(s)  == {v \in sess[s].verdicts : v.status \in {"clean", "drifted"}}

\* A preview, NotUndoable or UndoConflict.
Report(s) ==
  /\ Assessed(s)
  /\ sess' = [sess EXCEPT ![s] = Idle]
  /\ UNCHANGED <<db, seq, minted, tx, unseen>>

-----------------------------------------------------------------------------
(* undo: the inverses in one transaction of their own.                       *)

\* With conflicts only if the user said --allow-conflicts, which else changes
\* nothing.
UndoBegin(s) ==
  /\ Assessed(s) /\ ~Blocked(s) /\ minted < MaxOps
  /\ tx' = [tx EXCEPT ![s] = Begun("ctrlz", sess[s].op)]
  /\ sess' = [sess EXCEPT ![s].pc = "applying",
                          ![s].forced = Conflicts(s) # {},
                          ![s].verdicts = ToInvert(s),
                          ![s].tables = {Table[v.change.slot] : v \in ToInvert(s)}]
  /\ UNCHANGED <<db, seq, minted, unseen>>

\* ordering.order_verdicts.
Phase(c) == IF IsInsert(c) THEN Inserts ELSE IF IsDelete(c) THEN Deletes ELSE Updates

\* _dependency_rank, of the tables there is an inverse for.
References == {<<Table[Parent[k]], Table[k]>> : k \in {x \in Slots : Parent[x] # NoSlot}}
Rank(s)    == TopologicalRank(sess[s].tables, References)

Precedes(s, c, e) ==
  LET key(d) == SortKey(Phase(d), Rank(s)[Table[d.slot]], d.seq)
  IN  Sooner(key(c), key(e))

NextVerdict(s, v) ==
  /\ sess[s].pc = "applying" /\ v \in sess[s].verdicts
  /\ \A u \in sess[s].verdicts \ {v} : Precedes(s, v.change, u.change)

\* Mutant of Matches: the inverse is addressed by identity alone.
MatchesAny(s, v) == Seen(s, v.change.slot) # Absent

\* The WHERE clause of an inverse DELETE or UPDATE finds its row.
Matches(s, v) ==
  /\ Seen(s, v.change.slot) # Absent
  /\ v.status = "drifted" \/ Seen(s, v.change.slot) = v.change.after

Collides(s, v) == IsDelete(v.change) /\ Seen(s, v.change.slot) # Absent

FkRefuses(s, v) ==
  \/ IsDelete(v.change) /\ FkRefusesInsert(s, v.change.slot)
  \/ IsInsert(v.change) /\ Matches(s, v) /\ FkRefusesDelete(s, v.change.slot)

\* The inverse wants a row that another transaction has locked.
Waiting(s, v) ==
  LET c == v.change
      x == v.change.slot
  IN  \/ /\ IsDelete(c) /\ Seen(s, x) = Absent
         /\ Waits(s, x, Key) \/ (HasParent(s, x) /\ Parent[x] # NoSlot /\ Waits(s, Parent[x], Share))
      \/ /\ IsInsert(c) /\ Matches(s, v)
         /\ Waits(s, x, Key) \/ \E k \in Children(s, x) : Waits(s, k, Share)
      \/ ~IsInsert(c) /\ ~IsDelete(c) /\ Matches(s, v) /\ Waits(s, x, Row)

ApplyInverse(s, v) ==
  LET c == v.change
  IN  \/ IsDelete(c) /\ CanInsert(s, c.slot) /\ Write(s, c.slot, c.before, Key)
      \/ IsInsert(c) /\ Matches(s, v) /\ CanDelete(s, c.slot) /\ Write(s, c.slot, Absent, Key)
      \/ /\ ~IsInsert(c) /\ ~IsDelete(c) /\ Matches(s, v) /\ ~Waits(s, c.slot, Row)
         /\ Write(s, c.slot, c.before, Row)
      \/ ~IsDelete(c) /\ ~Matches(s, v) /\ UNCHANGED <<seq, minted, tx>>

\* Mutant of ApplyNext: a round counts as progress only before a row is put off.
ApplyNextForgetful(s) ==
  /\ \E v \in sess[s].verdicts :
       /\ NextVerdict(s, v) /\ ApplyInverse(s, v)
       /\ sess' = [sess EXCEPT ![s].verdicts = @ \ {v}, ![s].progress = sess[s].deferred = {}]
  /\ UNCHANGED <<db, unseen>>

ApplyNext(s) ==
  /\ \E v \in sess[s].verdicts :
       /\ NextVerdict(s, v) /\ ApplyInverse(s, v)
       /\ sess' = [sess EXCEPT ![s].verdicts = @ \ {v}, ![s].progress = TRUE]
  /\ UNCHANGED <<db, unseen>>

\* ROLLBACK TO SAVEPOINT: the row goes to the next round.
PutOff(s) ==
  /\ \E v \in sess[s].verdicts :
       /\ NextVerdict(s, v) /\ FkRefuses(s, v)
       /\ sess' = [sess EXCEPT ![s].verdicts = @ \ {v}, ![s].deferred = @ \cup {v}]
  /\ UNCHANGED <<db, seq, minted, tx, unseen>>

RoundOver(s) == sess[s].pc = "applying" /\ sess[s].verdicts = {}

\* Mutant of NextRound: a row put off is not tried again.
NextRoundDropping(s) ==
  /\ RoundOver(s) /\ sess[s].deferred # {} /\ sess[s].progress
  /\ sess' = [sess EXCEPT ![s].deferred = {}, ![s].progress = FALSE]
  /\ UNCHANGED <<db, seq, minted, tx, unseen>>

NextRound(s) ==
  /\ RoundOver(s) /\ sess[s].deferred # {} /\ sess[s].progress
  /\ sess' = [sess EXCEPT ![s].verdicts = sess[s].deferred, ![s].deferred = {},
                          ![s].progress = FALSE]
  /\ UNCHANGED <<db, seq, minted, tx, unseen>>

GivesUp(s) == RoundOver(s) /\ sess[s].deferred # {} /\ ~sess[s].progress

\* No round helps, a unique constraint refuses, or the wait for a lock ends in
\* an error (a deadlock, a timeout).
UndoFail(s) ==
  /\ \/ GivesUp(s)
     \/ \E v \in sess[s].verdicts :
          /\ NextVerdict(s, v)
          /\ Collides(s, v) \/ Waiting(s, v)
  /\ Ended(s) /\ Returns(s)
  /\ UNCHANGED <<db, seq, minted, unseen>>

\* The UPDATE of the header: whatever it says by now.
MarkedUndone(o, by) ==
  IF Exists(db, o) THEN [db.ops EXCEPT ![o].undone = TRUE, ![o].undoneBy = by] ELSE db.ops

UndoCommit(s) ==
  /\ RoundOver(s) /\ sess[s].deferred = {}
  /\ Commits(s, MarkedUndone(sess[s].op, tx[s].op))
  /\ Returns(s)

-----------------------------------------------------------------------------
(* Retention and settings, each a statement that commits by itself, on a     *)
(* connection of its own.                                                    *)

\* Mutant of Purged: the log does not follow its headers.
PurgedHeaders(k) == [db EXCEPT !.ops = [o \in OpIds |-> IF o < k THEN NoOp ELSE db.ops[o]]]

Purged(k) ==
  [db EXCEPT !.ops = [o \in OpIds |-> IF o < k THEN NoOp ELSE db.ops[o]],
             !.log = {c \in db.log : c.op >= k}]

Purge ==
  /\ \E k \in 2 .. MaxOps + 1 : db' = Purged(k)
  /\ unseen' = unseen \cup {c.slot : c \in {e \in db.log \ db'.log :
                  \A f \in db'.log : f.slot = e.slot => f.seq < e.seq}}
  /\ UNCHANGED <<seq, minted, tx, sess>>

SetLimit ==
  /\ \E n \in Limits : db' = [db EXCEPT !.limit = n]
  /\ UNCHANGED <<seq, minted, tx, sess, unseen>>

-----------------------------------------------------------------------------

RefOK(rows) ==
  \A s \in Slots : rows[s] # Absent /\ Parent[s] # NoSlot => rows[Parent[s]] # Absent

Init ==
  /\ \E rows \in [Slots -> Content], limit \in Limits :
       /\ RefOK(rows)
       /\ db = [rows |-> rows, ops |-> [o \in OpIds |-> NoOp], log |-> {}, limit |-> limit]
  /\ seq = 0 /\ minted = 0
  /\ tx = [c \in Clients |-> NoTx]
  /\ sess = [s \in Sessions |-> Idle]
  /\ unseen = {}

SessionStep(s) ==
  \/ ExecBegin(s) \/ ReadOperation(s) \/ ReadChanges(s) \/ LiveRows(s) \/ Report(s)
  \/ UndoBegin(s) \/ ApplyNext(s) \/ PutOff(s) \/ NextRound(s) \/ UndoFail(s) \/ UndoCommit(s)

Next ==
  \/ \E c \in Clients : UserWrite(c) \/ Commit(c) \/ Abandon(c)
  \/ \E s \in Sessions : SessionStep(s)
  \/ Purge \/ SetLimit

Spec == Init /\ [][Next]_vars

-----------------------------------------------------------------------------
(* What the engine promises.                                                *)

\* The shapes of what is committed, of the transactions and of the sessions.
TypeOK ==
  /\ db \in Database /\ seq \in Nat /\ minted \in 0 .. MaxOps
  /\ tx \in [Clients -> Transaction]
  /\ sess \in [Sessions -> Session]
  /\ unseen \subseteq Slots

\* Transactions commit in another order than they number their changes; of one
\* row the last image is the row all the same, unless it was written uncounted.
LogTruth == \A c \in db.log : Newest(c) => db.rows[c.slot] = c.after \/ c.slot \in unseen

\* A transaction whose operation is not capped has an image of every row it
\* wrote, however the limit is changed meanwhile, and what was undone was whole.
UndoneWasWhole ==
  /\ \A c \in Clients : ~tx[c].row.capped =>
        tx[c].blind = {} /\ Cardinality(tx[c].log) = tx[c].row.count
  /\ \A o \in OpIds : db.ops[o].undone => ~db.ops[o].capped

\* What a COMMIT adds to the log is one operation that was not there before,
\* credited to ctrlz exactly if a session of ctrlz committed it: ids do not
\* outlive the transaction they were set in.
OperationsAreTransactions ==
  [][\A c \in db'.log \ db.log :
       /\ ~Exists(db, c.op)
       /\ \A e \in db'.log \ db.log : e.op = c.op
       /\ db'.ops[c.op].source = "ctrlz" <=> \E s \in Sessions : tx[s].op = c.op]_vars

UndoCommitted(s) == sess[s].pc = "applying" /\ sess'[s].pc = "idle" /\ db' # db

\* An undo nobody forced changes a row only if the row holds, when it commits,
\* what the operation wrote there: work committed since the assessment, or
\* under way beside the undo, survives it.
UndoSparesOthers ==
  [][\A s \in Sessions : UndoCommitted(s) /\ ~sess[s].forced =>
       \A x \in Slots : db'.rows[x] # db.rows[x] =>
          \E c \in sess[s].changes : c.slot = x /\ c.after = db.rows[x]]_vars

\* c is the first and e the last the operation did to their row: one change, or
\* a row replaced.
Simply(s, c, e) ==
  /\ {d \in sess[s].changes : d.slot = c.slot} = {c, e}
  /\ c = e \/ (IsDelete(c) /\ IsInsert(e) /\ c.seq < e.seq)

\* Nothing was done to the row since, as far as the log can tell, and it can.
LastWord(e) == e \in db.log /\ Newest(e) /\ e.slot \notin unseen

\* An undo that commits has put back every row on which its operation has the
\* last word, whatever others commit between its reads and beside it and however
\* often it puts a row off, if the operation wrote the row once or replaced it.
UndoRestores ==
  [][\A s \in Sessions : UndoCommitted(s) =>
       \A c, e \in sess[s].changes :
          Simply(s, c, e) /\ LastWord(e) => db'.rows[c.slot] = c.before]_vars

WrittenOnce(s) == \A c, e \in sess[s].changes : c.slot = e.slot => c = e

\* What stands in the way of a row was neither put right by this undo nor put
\* off with it.
Stuck(s, v) ==
  LET own(x) == Wrote(tx[s], x) \/ \E u \in sess[s].deferred : u.change.slot = x
  IN  IF IsDelete(v.change) THEN ~own(Parent[v.change.slot])
      ELSE \E k \in Slots : Parent[k] = v.change.slot /\ ~own(k)

\* Undo gives up on foreign keys only over rows that are not its operation's:
\* among its own it finds an order, whatever order they were written in, if the
\* operation wrote each of them once.
UndoFindsAnOrder ==
  \A s \in Sessions : GivesUp(s) /\ WrittenOnce(s) => \E v \in sess[s].deferred : Stuck(s, v)

\* The same however often the operation wrote a row: what assess finds no fault
\* with, the order of _apply_ordered and its rounds get through.
UndoAlwaysFindsAnOrder ==
  \A s \in Sessions : GivesUp(s) => \E v \in sess[s].deferred : Stuck(s, v)

\* What commits, as a follower of the log sees it: whole operations, numbers
\* used once though not in order, an undone operation closed and undone for
\* good, and nothing gone but by a purge.
Readable == {[seq |-> c.seq, op |-> c.op] : c \in db.log}
Undone   == {o \in OpIds : db.ops[o].undone}
Spent    == {n \in 1 .. seq : \A c \in Clients : \A e \in tx[c].log : e.seq # n}
Feed     == INSTANCE ChangeFeed WITH
              Ops <- 0 .. MaxOps, Serial <- FALSE, log <- Readable, undone <- Undone,
              used <- Spent
ServesFeed == Feed!FeedSpec
=============================================================================
