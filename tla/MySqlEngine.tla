----------------------------- MODULE MySqlEngine -----------------------------
(***************************************************************************)
(* The MySQL engine of ctrlz.  What sets it apart from the other two:       *)
(*                                                                         *)
(*  - the marker of an operation is a session variable, which no commit and *)
(*    no rollback clears: ctrlz sets and clears it around its transactions,  *)
(*    a client outside ctrlz goes on under the operation it once started;   *)
(*  - InnoDB carries out ON DELETE CASCADE below the triggers, so the rows   *)
(*    it removes are never captured;                                        *)
(*  - the guard of an inverse compares with an image read from the log,      *)
(*    in the snapshot of the undo's transaction;                            *)
(*  - the log is not tied to its headers, and a purge deletes from the two   *)
(*    in turn.                                                              *)
(*                                                                         *)
(* Rows are slots; row locks order the writers of a row, and a statement     *)
(* that writes sees what is committed and what its transaction wrote.        *)
(***************************************************************************)
EXTENDS Ordering

CONSTANTS
  Slots, Vals, Absent,  \* identities of rows, what a row holds, no row
  Parent, NoSlot,       \* Parent[s]: the row that row s references, or NoSlot
  Table,                \* Table[s]: the table it is a row of
  Actions,              \* what ON DELETE may be, in one schema or another
  Sessions,             \* connections of ctrlz
  Outsiders,            \* connections of everybody else
  Limits,               \* values of the setting max_rows_per_operation
  MaxOps,               \* bound: operations recorded
  MaxSeq                \* bound: change-log entries after which users stop writing

ASSUME ConstantsOK ==
  /\ IsFiniteSet(Slots)
  /\ Absent \notin Vals /\ NoSlot \notin Slots
  /\ Parent \in [Slots -> Slots \cup {NoSlot}]
  /\ \A s \in Slots : Parent[s] # NoSlot => Parent[Parent[s]] = NoSlot
  /\ DOMAIN Table = Slots
  /\ Actions \subseteq {"cascade", "refuse"}
  /\ Sessions \cap Outsiders = {}
  /\ Limits \subseteq Nat /\ Limits # {}
  /\ MaxOps \in Nat /\ MaxSeq \in Nat

VARIABLES
  onDelete, \* the action of the foreign key, which does not change
  db,       \* what is committed: rows, operations, change log, the limit
  seq,      \* AUTO_INCREMENT of ctrlz_change_log, which no rollback turns back
  minted,   \* operations that got a number so far
  mark,     \* the session variables of each connection
  tx,       \* the transaction of each connection
  sess,     \* what each session of ctrlz is doing
  purging,  \* a purge has deleted headers and not yet their changes
  lost      \* rows each operation removed by cascade: a history variable, for
            \* the properties only

vars == <<onDelete, db, seq, minted, mark, tx, sess, purging, lost>>

Clients == Sessions \cup Outsiders

-----------------------------------------------------------------------------
(* ctrlz_operations and ctrlz_change_log.                                    *)

OpIds   == 1 .. MaxOps
Content == Vals \cup {Absent}

OpRow == [source : {"none", "external", "ctrlz"}, count : Nat, capped : BOOLEAN,
          undoOf : 0 .. MaxOps, undone : BOOLEAN]
NoOp  == [source |-> "none", count |-> 0, capped |-> FALSE, undoOf |-> 0, undone |-> FALSE]

Entry == [seq : Nat, op : OpIds, slot : Slots, before : Content, after : Content]
IsInsert(c) == c.before = Absent
IsDelete(c) == c.after = Absent
ChangesOf(d, o) == {c \in d.log : c.op = o}
Exists(d, o) == d.ops[o].source # "none"

Database == [rows : [Slots -> Content], ops : [OpIds -> OpRow], log : SUBSET Entry, limit : Nat]

\* @ctrlz_op_id, @ctrlz_source and @ctrlz_undo_of.  Source "none" stands for a
\* NULL id; an id ctrlz made up has its number when a trigger first uses it.
Marker == [op : 0 .. MaxOps, source : {"none", "external", "ctrlz"}, undoOf : 0 .. MaxOps]
Unset  == [op |-> 0, source |-> "none", undoOf |-> 0]

\* The row lock held: none, shared, exclusive.
None == 0
S    == 1
X    == 2

Transaction == [held : [Slots -> None .. X], rows : [Slots -> Content], row : OpRow,
                log : SUBSET Entry, lost : SUBSET Slots]
NoTx == [held |-> [x \in Slots |-> None], rows |-> [x \in Slots |-> Absent], row |-> NoOp,
         log |-> {}, lost |-> {}]

Tables  == {Table[x] : x \in Slots}
Verdict == [change : Entry, status : {"clean", "drifted", "missing", "occupied"}]

Idle == [pc |-> "idle", op |-> 0, forced |-> FALSE, capped |-> FALSE, undone |-> FALSE,
         changes |-> {}, verdicts |-> {}, tables |-> {}, deferred |-> {}, progress |-> FALSE, images |-> {}]
Session == [pc : {"idle", "running", "reading", "inspecting", "applying", "viewed"},
            op : 0 .. MaxOps, forced : BOOLEAN, capped : BOOLEAN, undone : BOOLEAN,
            changes : SUBSET Entry, verdicts : SUBSET Verdict, tables : SUBSET Tables,
            deferred : SUBSET Verdict, progress : BOOLEAN, images : SUBSET Entry]

-----------------------------------------------------------------------------
(* InnoDB: what a statement sees, what it waits for, what foreign keys do.   *)

Wrote(t, s) == t.held[s] = X
Seen(c, s)  == IF Wrote(tx[c], s) THEN tx[c].rows[s] ELSE db.rows[s]

Waits(c, s, lock) == \E o \in Clients \ {c} : tx[o].held[s] + lock > X

HasParent(c, s) == Parent[s] # NoSlot => Seen(c, Parent[s]) # Absent
Children(c, s)  == {k \in Slots : Parent[k] = s /\ Seen(c, k) # Absent}

CanInsert(c, s) ==
  /\ Seen(c, s) = Absent /\ ~Waits(c, s, X) /\ HasParent(c, s)
  /\ Parent[s] # NoSlot => ~Waits(c, Parent[s], S)
CanUpdate(c, s) == Seen(c, s) # Absent /\ ~Waits(c, s, X)
CanDelete(c, s) ==
  /\ CanUpdate(c, s)
  /\ IF onDelete = "cascade" THEN \A k \in Children(c, s) : ~Waits(c, k, X)
                             ELSE Children(c, s) = {}

FkRefusesInsert(c, s) == Seen(c, s) = Absent /\ ~Waits(c, s, X) /\ ~HasParent(c, s)
FkRefusesDelete(c, s) ==
  /\ onDelete = "refuse" /\ ~Waits(c, s, X) /\ Children(c, s) # {}
  /\ \A k \in Children(c, s) : ~Waits(c, k, S)

-----------------------------------------------------------------------------
(* The capture trigger.                                                      *)

\* Mutant of Claimed: what ctrlz staged is not looked at.
ClaimedAnew(c) ==
  IF mark[c].op = 0 THEN [op |-> minted + 1, source |-> "external", undoOf |-> 0] ELSE mark[c]

\* A connection without an id is given one, and keeps it.
Claimed(c) ==
  IF mark[c].source = "none"
  THEN [op |-> minted + 1, source |-> "external", undoOf |-> 0]
  ELSE IF mark[c].op = 0 THEN [mark[c] EXCEPT !.op = minted + 1] ELSE mark[c]

\* INSERT IGNORE: the header of the operation, whoever wrote it last.
Credited(c) ==
  IF tx[c].row # NoOp THEN tx[c].row
  ELSE IF mark[c].op # 0 /\ Exists(db, mark[c].op) THEN db.ops[mark[c].op]
  ELSE [NoOp EXCEPT !.source = Claimed(c).source, !.undoOf = Claimed(c).undoOf]

\* Mutant of Counted: rows are counted down.
CountedDown(row) == [row EXCEPT !.count = @ - 1, !.capped = @ \/ row.count + 1 > db.limit]

\* Mutant of Counted: the flag follows the limit of the moment.
CountedAfresh(row) == [row EXCEPT !.count = @ + 1, !.capped = row.count + 1 > db.limit]

Counted(row) == [row EXCEPT !.count = @ + 1, !.capped = @ \/ row.count + 1 > db.limit]

\* c writes v into slot s; rows `below` follow it into the void, unseen.
Write(c, s, v, below) ==
  LET t     == tx[c]
      at    == Claimed(c)
      row   == Counted(Credited(c))
      image == [seq |-> seq + 1, op |-> at.op, slot |-> s, before |-> Seen(c, s), after |-> v]
  IN  /\ at.op \in OpIds
      /\ mark' = [mark EXCEPT ![c] = at]
      /\ minted' = IF at.op > minted THEN at.op ELSE minted
      /\ seq' = IF row.capped THEN seq ELSE seq + 1
      /\ tx' = [tx EXCEPT ![c] =
           [held |-> [x \in Slots |->
              IF x \in below \cup {s} THEN X
              ELSE IF x = Parent[s] /\ Seen(c, s) = Absent /\ t.held[x] = None THEN S
              ELSE t.held[x]],
            rows |-> [x \in Slots |-> IF x \in below THEN Absent ELSE IF x = s THEN v ELSE t.rows[x]],
            row  |-> row,
            log  |-> IF row.capped THEN t.log ELSE t.log \cup {image},
            lost |-> t.lost \cup below]]

Insert(c, s, v) == CanInsert(c, s) /\ Write(c, s, v, {})
Update(c, s, v) == CanUpdate(c, s) /\ Write(c, s, v, {})
Delete(c, s)    == CanDelete(c, s) /\ Write(c, s, Absent, Children(c, s))

-----------------------------------------------------------------------------
(* The transactions of users: `execute`, and clients outside ctrlz.          *)

Running(c) == c \in Sessions => sess[c].pc = "running"

UserWrite(c) ==
  /\ Running(c) /\ seq < MaxSeq /\ Credited(c).count <= MaxSeq
  /\ \E s \in Slots : Delete(c, s) \/ \E v \in Vals : Insert(c, s, v) \/ Update(c, s, v)
  /\ UNCHANGED <<onDelete, db, sess, purging, lost>>

ExecBegin(s) ==
  /\ sess[s].pc = "idle" /\ seq < MaxSeq /\ minted < MaxOps
  /\ mark' = [mark EXCEPT ![s] = [Unset EXCEPT !.source = "ctrlz"]]
  /\ sess' = [sess EXCEPT ![s].pc = "running"]
  /\ UNCHANGED <<onDelete, db, seq, minted, tx, purging, lost>>

\* COMMIT, over the operations as the transaction left them.
Commits(c, ops) ==
  LET o == mark[c].op
      t == tx[c]
  IN  /\ db' = [db EXCEPT
                  !.rows = [x \in Slots |-> Seen(c, x)],
                  !.ops = IF t.row = NoOp THEN ops ELSE [ops EXCEPT ![o] = t.row],
                  !.log = @ \cup t.log]
      /\ lost' = IF t.row = NoOp THEN lost ELSE [lost EXCEPT ![o] = @ \cup t.lost]
      /\ tx' = [tx EXCEPT ![c] = NoTx]
      /\ UNCHANGED <<onDelete, seq, minted, purging>>

\* ctrlz clears its variables when its transaction is over, whichever way.
Returns(c) ==
  IF c \in Sessions
  THEN sess' = [sess EXCEPT ![c] = Idle] /\ mark' = [mark EXCEPT ![c] = Unset]
  ELSE UNCHANGED <<sess, mark>>

Commit(c) == Running(c) /\ Commits(c, db.ops) /\ Returns(c)

\* A rollback: a dry run, a refused confirmation, an error.
Abandon(c) ==
  /\ c \in Sessions => sess[c].pc # "idle"
  /\ tx' = [tx EXCEPT ![c] = NoTx] /\ Returns(c)
  /\ UNCHANGED <<onDelete, db, seq, minted, purging, lost>>

\* The variables of an outside client end with its connection.
Disconnect(c) ==
  /\ tx' = [tx EXCEPT ![c] = NoTx]
  /\ mark' = [mark EXCEPT ![c] = Unset]
  /\ UNCHANGED <<onDelete, db, seq, minted, sess, purging, lost>>

-----------------------------------------------------------------------------
(* assess, in autocommit: the header, the changes, and one query per row.    *)

ReadOperation(s) ==
  /\ sess[s].pc = "idle"
  /\ \E o \in OpIds :
       /\ Exists(db, o)
       /\ sess' = [sess EXCEPT ![s] = [Idle EXCEPT
             !.pc = "reading", !.op = o,
             !.capped = db.ops[o].capped, !.undone = db.ops[o].undone]]
  /\ UNCHANGED <<onDelete, db, seq, minted, mark, tx, purging, lost>>

ReadChanges(s) ==
  /\ sess[s].pc = "reading"
  /\ sess' = [sess EXCEPT ![s].pc = "inspecting", ![s].changes = ChangesOf(db, sess[s].op)]
  /\ UNCHANGED <<onDelete, db, seq, minted, mark, tx, purging, lost>>

\* The image the operation's last INSERT left in the slot c deleted from.
FreedBy(changes, c, image) ==
  \E i \in changes : /\ i.slot = c.slot /\ IsInsert(i) /\ i.after = image
                     /\ \A j \in changes : j.slot = c.slot /\ IsInsert(j) => j.seq <= i.seq

StatusOf(changes, c, current) ==
  IF IsDelete(c)
  THEN IF current = Absent \/ FreedBy(changes, c, current) THEN "clean" ELSE "occupied"
  ELSE IF current = Absent THEN "missing" ELSE IF current = c.after THEN "clean" ELSE "drifted"

Uninspected(s) == sess[s].changes \ {v.change : v \in sess[s].verdicts}

LiveImage(s) ==
  /\ sess[s].pc = "inspecting"
  /\ \E c \in Uninspected(s) :
       /\ \A e \in Uninspected(s) : c.seq <= e.seq
       /\ sess' = [sess EXCEPT ![s].verdicts = @ \cup
             {[change |-> c, status |-> StatusOf(sess[s].changes, c, db.rows[c.slot])]}]
  /\ UNCHANGED <<onDelete, db, seq, minted, mark, tx, purging, lost>>

Assessed(s) == sess[s].pc = "inspecting" /\ Uninspected(s) = {}

\* The foreign keys, as <<parent, child>>.
References == {<<Table[Parent[k]], Table[k]>> : k \in {x \in Slots : Parent[x] # NoSlot}}

\* Deletes from a table InnoDB cascades from may have taken rows along unseen.
CascadeBlockers(s) ==
  {c \in sess[s].changes :
     IsDelete(c) /\ onDelete = "cascade" /\ \E ref \in References : ref[1] = Table[c.slot]}

\* Mutant of Blocked: cascades are left to the foreign keys, as elsewhere.
BlockedAsElsewhere(s) == sess[s].capped \/ sess[s].undone \/ sess[s].changes = {}

Blocked(s) ==
  sess[s].capped \/ sess[s].undone \/ sess[s].changes = {} \/ CascadeBlockers(s) # {}
Conflicts(s) == {v \in sess[s].verdicts : v.status \in {"drifted", "occupied"}}
ToInvert(s)  == {v \in sess[s].verdicts : v.status \in {"clean", "drifted"}}

\* A preview, NotUndoable or UndoConflict.
Report(s) ==
  /\ Assessed(s)
  /\ sess' = [sess EXCEPT ![s] = Idle]
  /\ UNCHANGED <<onDelete, db, seq, minted, mark, tx, purging, lost>>

-----------------------------------------------------------------------------
(* undo: the inverses in one transaction of their own.                       *)

\* With conflicts only if the user said --allow-conflicts, which else changes
\* nothing.
UndoBegin(s) ==
  /\ Assessed(s) /\ ~Blocked(s) /\ minted < MaxOps
  /\ mark' = [mark EXCEPT ![s] = [op |-> 0, source |-> "ctrlz", undoOf |-> sess[s].op]]
  /\ sess' = [sess EXCEPT ![s].pc = "applying",
                          ![s].forced = Conflicts(s) # {},
                          ![s].verdicts = ToInvert(s),
                          ![s].tables = {Table[v.change.slot] : v \in ToInvert(s)}]
  /\ UNCHANGED <<onDelete, db, seq, minted, tx, purging, lost>>

Applying(s) == sess[s].pc \in {"applying", "viewed"}

\* ordering.order_verdicts.
Phase(c) == IF IsInsert(c) THEN Inserts ELSE IF IsDelete(c) THEN Deletes ELSE Updates

\* _dependency_rank, of the tables there is an inverse for.
Rank(s) == TopologicalRank(sess[s].tables, References)

Precedes(s, c, e) ==
  LET key(d) == SortKey(Phase(d), Rank(s)[Table[d.slot]], d.seq)
  IN  Sooner(key(c), key(e))

NextVerdict(s, v) ==
  /\ Applying(s) /\ v \in sess[s].verdicts
  /\ \A u \in sess[s].verdicts \ {v} : Precedes(s, v.change, u.change)

NeedsImage(v) == v.status = "clean" /\ ~IsDelete(v.change)

\* _stored_image: the first read opens the transaction's snapshot of the log.
ReadImages(s) ==
  /\ sess[s].pc = "applying"
  /\ \E v \in sess[s].verdicts : NextVerdict(s, v) /\ NeedsImage(v)
  /\ sess' = [sess EXCEPT ![s].pc = "viewed", ![s].images = db.log \cap sess[s].changes]
  /\ UNCHANGED <<onDelete, db, seq, minted, mark, tx, purging, lost>>

\* Without an image, the log's or one to speak past, there is no guard.
Guarded(s, v) == NeedsImage(v) /\ v.change \in sess[s].images

\* Mutant of Matches: the inverse is addressed by identity alone.
MatchesAny(s, v) == Seen(s, v.change.slot) # Absent

Matches(s, v) ==
  /\ Seen(s, v.change.slot) # Absent
  /\ Guarded(s, v) => Seen(s, v.change.slot) = v.change.after

Ready(s, v) == NextVerdict(s, v) /\ (NeedsImage(v) => sess[s].pc = "viewed")

Collides(s, v) == IsDelete(v.change) /\ Seen(s, v.change.slot) # Absent

FkRefuses(s, v) ==
  \/ IsDelete(v.change) /\ FkRefusesInsert(s, v.change.slot)
  \/ IsInsert(v.change) /\ Matches(s, v) /\ FkRefusesDelete(s, v.change.slot)

\* The inverse wants a row that another transaction has locked.
Waiting(s, v) ==
  LET x == v.change.slot
  IN  \/ /\ IsDelete(v.change) /\ Seen(s, x) = Absent
         /\ Waits(s, x, X) \/ (HasParent(s, x) /\ Parent[x] # NoSlot /\ Waits(s, Parent[x], S))
      \/ ~IsDelete(v.change) /\ Matches(s, v) /\ Waits(s, x, X)
      \/ /\ IsInsert(v.change) /\ Matches(s, v)
         /\ \E k \in Children(s, x) : Waits(s, k, IF onDelete = "refuse" THEN S ELSE X)

ApplyInverse(s, v) ==
  LET c == v.change
  IN  \/ IsDelete(c) /\ Insert(s, c.slot, c.before)
      \/ IsInsert(c) /\ Matches(s, v) /\ Delete(s, c.slot)
      \/ ~IsInsert(c) /\ ~IsDelete(c) /\ Matches(s, v) /\ Update(s, c.slot, c.before)
      \/ ~IsDelete(c) /\ ~Matches(s, v) /\ UNCHANGED <<seq, minted, mark, tx>>

ApplyNext(s) ==
  /\ \E v \in sess[s].verdicts :
       /\ Ready(s, v) /\ ApplyInverse(s, v)
       /\ sess' = [sess EXCEPT ![s].verdicts = @ \ {v}, ![s].progress = TRUE]
  /\ UNCHANGED <<onDelete, db, purging, lost>>

\* ROLLBACK TO SAVEPOINT: the row goes to the next round.
PutOff(s) ==
  /\ \E v \in sess[s].verdicts :
       /\ Ready(s, v) /\ FkRefuses(s, v)
       /\ sess' = [sess EXCEPT ![s].verdicts = @ \ {v}, ![s].deferred = @ \cup {v}]
  /\ UNCHANGED <<onDelete, db, seq, minted, mark, tx, purging, lost>>

RoundOver(s) == Applying(s) /\ sess[s].verdicts = {}

NextRound(s) ==
  /\ RoundOver(s) /\ sess[s].deferred # {} /\ sess[s].progress
  /\ sess' = [sess EXCEPT ![s].verdicts = sess[s].deferred, ![s].deferred = {},
                          ![s].progress = FALSE]
  /\ UNCHANGED <<onDelete, db, seq, minted, mark, tx, purging, lost>>

\* The header of o is locked by the transaction of another connection.
HeaderTaken(c, o) == \E k \in Clients \ {c} : tx[k].row # NoOp /\ mark[k].op = o

\* No round helps, a unique constraint refuses, or a wait for a lock times out.
UndoFail(s) ==
  /\ \/ RoundOver(s) /\ sess[s].deferred # {} /\ ~sess[s].progress
     \/ RoundOver(s) /\ HeaderTaken(s, sess[s].op)
     \/ \E v \in sess[s].verdicts :
          /\ Ready(s, v)
          /\ Collides(s, v) \/ Waiting(s, v)
  /\ tx' = [tx EXCEPT ![s] = NoTx] /\ Returns(s)
  /\ UNCHANGED <<onDelete, db, seq, minted, purging, lost>>

MarkedUndone(o) == IF Exists(db, o) THEN [db.ops EXCEPT ![o].undone = TRUE] ELSE db.ops

UndoCommit(s) ==
  /\ RoundOver(s) /\ sess[s].deferred = {} /\ ~HeaderTaken(s, sess[s].op)
  /\ Commits(s, MarkedUndone(sess[s].op))
  /\ Returns(s)

-----------------------------------------------------------------------------
(* Retention and settings, each a statement that commits by itself, on a     *)
(* connection of its own.                                                    *)

\* The headers go first, by age.
PurgeHeaders ==
  /\ ~purging
  /\ \E k \in 2 .. MaxOps + 1 :
       /\ \A o \in 1 .. k - 1 : ~\E c \in Clients : tx[c].row # NoOp /\ mark[c].op = o
       /\ db' = [db EXCEPT !.ops = [o \in OpIds |-> IF o < k THEN NoOp ELSE db.ops[o]]]
  /\ purging' = TRUE
  /\ UNCHANGED <<onDelete, seq, minted, mark, tx, sess, lost>>

\* Changes without a header, of which none is locked.
Orphans == {c \in db.log : ~Exists(db, c.op)}

PurgeChanges ==
  /\ purging
  /\ \A c \in Clients : tx[c].row = NoOp
  /\ db' = [db EXCEPT !.log = @ \ Orphans]
  /\ purging' = FALSE
  /\ UNCHANGED <<onDelete, seq, minted, mark, tx, sess, lost>>

\* Triggers read the limit under a lock they keep.
SetLimit ==
  /\ \A c \in Clients : tx[c].row = NoOp
  /\ \E n \in Limits : db' = [db EXCEPT !.limit = n]
  /\ UNCHANGED <<onDelete, seq, minted, mark, tx, sess, purging, lost>>

-----------------------------------------------------------------------------

RefOK(rows) ==
  \A s \in Slots : rows[s] # Absent /\ Parent[s] # NoSlot => rows[Parent[s]] # Absent

Init ==
  /\ onDelete \in Actions
  /\ \E rows \in [Slots -> Content], limit \in Limits :
       /\ RefOK(rows)
       /\ db = [rows |-> rows, ops |-> [o \in OpIds |-> NoOp], log |-> {}, limit |-> limit]
  /\ seq = 0 /\ minted = 0
  /\ mark = [c \in Clients |-> Unset]
  /\ tx = [c \in Clients |-> NoTx]
  /\ sess = [s \in Sessions |-> Idle]
  /\ purging = FALSE
  /\ lost = [o \in OpIds |-> {}]

SessionStep(s) ==
  \/ ExecBegin(s) \/ ReadOperation(s) \/ ReadChanges(s) \/ LiveImage(s) \/ Report(s)
  \/ UndoBegin(s) \/ ReadImages(s) \/ ApplyNext(s) \/ PutOff(s) \/ NextRound(s)
  \/ UndoFail(s) \/ UndoCommit(s)

Next ==
  \/ \E c \in Clients : UserWrite(c) \/ Commit(c) \/ Abandon(c)
  \/ \E c \in Outsiders : Disconnect(c)
  \/ \E s \in Sessions : SessionStep(s)
  \/ PurgeHeaders \/ PurgeChanges \/ SetLimit

Spec == Init /\ [][Next]_vars

-----------------------------------------------------------------------------
(* What the engine promises.                                                *)

\* The shapes of what is committed, of the connections and of the sessions.
TypeOK ==
  /\ onDelete \in Actions
  /\ db \in Database /\ seq \in Nat /\ minted \in 0 .. MaxOps
  /\ mark \in [Clients -> Marker]
  /\ tx \in [Clients -> Transaction]
  /\ sess \in [Sessions -> Session]
  /\ purging \in BOOLEAN
  /\ lost \in [OpIds -> SUBSET Slots]

\* A header that says its operation is not capped counts no row of which the
\* log has no image, also when the connection behind it outlived the limit's
\* changes, rollbacks, an undo, or a purge that took the header and let the
\* trigger write it anew before the log was swept.
CountedIsStored ==
  \A o \in OpIds : Exists(db, o) /\ ~db.ops[o].capped =>
     db.ops[o].count <= Cardinality(ChangesOf(db, o))

\* What a COMMIT adds to the log is one operation, ctrlz's exactly if a session
\* of ctrlz committed it, and to ctrlz's operations nothing is added later:
\* session variables outlive transactions, but not ctrlz's.
CtrlzOperationsAreClosed ==
  [][\A c \in db'.log \ db.log :
       /\ \A e \in db'.log \ db.log : e.op = c.op
       /\ db'.ops[c.op].source = "ctrlz" <=> \E s \in Sessions : mark[s].op = c.op
       /\ db'.ops[c.op].source = "ctrlz" => ~Exists(db, c.op)]_vars

UndoCommitted(s) == Applying(s) /\ sess'[s].pc = "idle" /\ db' # db

\* No operation of ctrlz that took rows along by a cascade is ever undone, with
\* or without --allow-conflicts: those rows would stay gone behind a promise.
CascadesAreNeverUndone ==
  [][\A s \in Sessions :
       UndoCommitted(s) /\ db.ops[sess[s].op].source = "ctrlz" => lost[sess[s].op] = {}]_vars

\* An undo nobody forced changes a row of its operation only if the row holds,
\* when it commits, what the operation wrote there, as long as the log had the
\* image to compare with when the undo began to write.
UndoSparesOthers ==
  [][\A s \in Sessions : UndoCommitted(s) /\ ~sess[s].forced =>
       \A x \in Slots \ (tx[s].lost) : db'.rows[x] # db.rows[x] =>
          \E c \in sess[s].changes :
             c.slot = x /\ (c.after = db.rows[x] \/ c \notin sess[s].images)]_vars

\* The same without the exception.  It fails: a purge between the assessment and
\* the first write takes the image away, and an inverse without one has no guard.
GuardsOutlivePurges ==
  [][\A s \in Sessions : UndoCommitted(s) /\ ~sess[s].forced =>
       \A x \in Slots \ (tx[s].lost) : db'.rows[x] # db.rows[x] =>
          \E c \in sess[s].changes : c.slot = x /\ c.after = db.rows[x]]_vars

\* Nothing is added to an operation once it is undone.  It fails for outside
\* connections, which go on under the id they have.
UndoneOpsAreClosed == [][\A c \in db'.log \ db.log : ~db.ops[c.op].undone]_vars

\* "Quietly restoring the parent and losing the children would be worse than
\* having no undo at all": no undo removes a row that nothing records.
UndosLoseNothing ==
  [][\A s \in Sessions : UndoCommitted(s) => tx[s].lost = {}]_vars
=============================================================================
