------------------------- MODULE PostgresEngineProofs -------------------------
(***************************************************************************)
(* Proofs about PostgresEngine, for any rows, foreign keys, connections,    *)
(* limits and bounds.                                                       *)
(***************************************************************************)
EXTENDS PostgresEngine, FiniteSetTheorems, TLAPS

-----------------------------------------------------------------------------
(* The inductive invariant.                                                 *)

\* No two transactions hold locks on a row that exclude each other.
Locks == \A c, d \in Clients, x \in Slots : c # d => tx[c].held[x] + tx[d].held[x] <= Key

\* Transactions record under ids of their own, which nothing committed has.
OpsDistinct == \A c, d \in Clients : c # d /\ tx[c].op # 0 => tx[c].op # tx[d].op

\* A transaction t over a database d, when n numbers and m ids are given out.
Whole(t) ==
  /\ IsFiniteSet(t.log)
  /\ ~t.row.capped => t.blind = {} /\ Cardinality(t.log) = t.row.count

Imaged(t) ==
  /\ \A x \in Slots : Wrote(t, x) /\ x \notin t.blind => \E e \in t.log : e.slot = x
  /\ \A e \in t.log :
       e.slot \notin t.blind /\ (\A f \in t.log : f.slot = e.slot => f.seq <= e.seq) =>
         t.rows[e.slot] = e.after

Fresh(t, d, n, m) ==
  /\ t.op <= m
  /\ t.op # 0 => ~Exists(d, t.op) /\ t.row.source = t.source /\ ~t.row.undone
  /\ t.op = 0 => t.row = NoOp /\ t.log = {}
  /\ \A e \in t.log : /\ e.op = t.op /\ Wrote(t, e.slot) /\ e.seq <= n
                      /\ \A f \in d.log : f.slot = e.slot => f.seq < e.seq

TxOK(t, d, n, m) == Whole(t) /\ Imaged(t) /\ Fresh(t, d, n, m)

\* What a session remembers of the operation it undoes is still true of it.
Remembers(r, d, m, w) ==
  /\ r.op \in OpIds /\ r.op <= m
  /\ \A c \in Clients : w[c].op # r.op
  /\ Exists(d, r.op) => d.ops[r.op].capped = r.capped

SessOK(s) ==
  /\ sess[s].pc \in {"idle", "reading", "inspecting"} => tx[s] = NoTx
  /\ sess[s].pc \in {"running", "applying"} => tx[s].source = "ctrlz"
  /\ sess[s].pc \in {"reading", "inspecting", "applying"} => Remembers(sess[s], db, minted, tx)
  /\ sess[s].pc = "applying" => ~sess[s].capped

Committed ==
  /\ \A o \in OpIds : Exists(db, o) => o <= minted
  /\ \A o \in OpIds : db.ops[o].undone => ~db.ops[o].capped
  /\ \A c \in db.log : c.seq <= seq

IInv ==
  /\ TypeOK /\ Locks /\ OpsDistinct /\ Committed /\ LogTruth
  /\ \A c \in Clients : TxOK(tx[c], db, seq, minted)
  /\ \A c \in Outsiders : tx[c].source = "external"
  /\ \A s \in Sessions : SessOK(s)

-----------------------------------------------------------------------------
(* One firing of the capture function.                                      *)

LEMMA NullsTyped == NoOp \in OpRow /\ NoTx \in Transaction /\ Idle \in Session
<1>1. NoOp \in OpRow
  BY ConstantsOK DEF NoOp, OpRow
<1>2. NoTx \in Transaction
  BY <1>1, ConstantsOK DEF NoTx, Begun, Transaction, Content, None, Key
<1>3. Idle \in Session
  BY ConstantsOK DEF Idle, Session
<1>4. QED
  BY <1>1, <1>2, <1>3

LEMMA BegunTyped ==
  ASSUME NEW source \in {"external", "ctrlz"}, NEW o \in 0 .. MaxOps
  PROVE  /\ Begun(source, o) \in Transaction
         /\ Begun(source, o).op = 0 /\ Begun(source, o).row = NoOp /\ Begun(source, o).log = {}
         /\ Begun(source, o).blind = {} /\ Begun(source, o).source = source
         /\ \A x \in Slots : Begun(source, o).held[x] = 0
         /\ \A d, n, m : m \in Nat => TxOK(Begun(source, o), d, n, m)
<1>1. /\ Begun(source, o) \in Transaction
      /\ Begun(source, o).op = 0 /\ Begun(source, o).row = NoOp /\ Begun(source, o).log = {}
      /\ Begun(source, o).blind = {} /\ Begun(source, o).source = source
      /\ \A x \in Slots : Begun(source, o).held[x] = 0
  BY NullsTyped, ConstantsOK DEF Begun, Transaction, Content, None, Key
<1>2. NoOp.count = 0
  BY DEF NoOp
<1>3. Whole(Begun(source, o))
  BY <1>1, <1>2, FS_EmptySet DEF Whole
<1>4. Imaged(Begun(source, o))
  BY <1>1 DEF Imaged, Wrote, Row
<1>5. \A d, n, m : m \in Nat => Fresh(Begun(source, o), d, n, m)
  BY <1>1 DEF Fresh
<1>6. QED
  BY <1>1, <1>3, <1>4, <1>5 DEF TxOK

LEMMA CreditedSound ==
  ASSUME TypeOK, NEW t \in Transaction, Whole(t), Fresh(t, db, seq, minted)
  PROVE  /\ Credited(t) \in OpRow
         /\ Credited(t).source = t.source /\ ~Credited(t).undone
         /\ ~Credited(t).capped => t.blind = {} /\ Cardinality(t.log) = Credited(t).count
<1>1. t.row \in OpRow /\ t.source \in {"external", "ctrlz"} /\ t.undoOf \in 0 .. MaxOps
  BY DEF Transaction
<1>2. CASE t.row # NoOp
  <2>1. Credited(t) = t.row /\ t.op # 0
    BY <1>2 DEF Credited, Fresh
  <2>2. QED
    BY <1>1, <2>1 DEF Whole, Fresh
<1>3. CASE t.row = NoOp
  <2>1. Credited(t) = [source |-> t.source, count |-> 0, capped |-> FALSE,
                       undoOf |-> t.undoOf, undone |-> FALSE, undoneBy |-> 0]
    BY <1>3 DEF Credited, NoOp
  <2>2. ~t.row.capped /\ t.row.count = 0
    BY <1>3 DEF NoOp
  <2>3. QED
    BY <1>1, <2>1, <2>2, ConstantsOK DEF OpRow, Whole
<1>4. QED
  BY <1>2, <1>3

LEMMA CountedSound ==
  ASSUME TypeOK, NEW row \in OpRow
  PROVE  /\ Counted(row) \in OpRow
         /\ Counted(row).source = row.source /\ Counted(row).undone = row.undone
         /\ Full(row) => Counted(row).capped
         /\ ~Full(row) => Counted(row).capped = row.capped /\ Counted(row).count = row.count + 1
<1>1. db.limit \in Nat
  BY DEF TypeOK, Database
<1>2. CASE Full(row)
  <2>1. Counted(row) = [row EXCEPT !.count = db.limit, !.capped = TRUE]
    BY <1>2 DEF Counted
  <2>2. QED
    BY <1>1, <1>2, <2>1 DEF OpRow
<1>3. CASE ~Full(row)
  <2>1. Counted(row) = [row EXCEPT !.count = @ + 1]
    BY <1>3 DEF Counted
  <2>2. QED
    BY <1>3, <2>1 DEF OpRow
<1>4. QED
  BY <1>2, <1>3

\* What a write makes of its transaction, clause by clause.
Writes(c, s, v, lock, full) ==
  /\ tx' \in [Clients -> Transaction]
  /\ \A d \in Clients \ {c} : tx'[d] = tx[d]
  /\ tx'[c].op \in OpIds /\ tx'[c].op = (IF tx[c].op = 0 THEN minted + 1 ELSE tx[c].op)
  /\ minted' \in 0 .. MaxOps /\ minted' = (IF tx[c].op = 0 THEN minted + 1 ELSE minted)
  /\ seq' \in Nat /\ seq' = (IF full THEN seq ELSE seq + 1)
  /\ tx'[c].source = tx[c].source
  /\ tx'[c].row = Counted(Credited(tx[c]))
  /\ tx'[c].log = (IF full THEN tx[c].log ELSE tx[c].log \cup {Image(tx'[c].op, s, Seen(c, s), v)})
  /\ tx'[c].blind = (IF full THEN tx[c].blind \cup {s} ELSE tx[c].blind \ {s})
  /\ \A x \in Slots : tx'[c].rows[x] = IF x = s THEN v ELSE tx[c].rows[x]
  /\ \A x \in Slots : tx'[c].held[x] =
        IF x = s THEN Stronger(lock, tx[c].held[x])
        ELSE IF x = Parent[s] /\ Seen(c, s) = Absent THEN Stronger(Share, tx[c].held[x])
        ELSE tx[c].held[x]

LEMMA WriteWrites ==
  ASSUME IInv, NEW c \in Clients, NEW s \in Slots, NEW v \in Content, NEW lock \in {Row, Key},
         Write(c, s, v, lock)
  PROVE  Writes(c, s, v, lock, Full(Credited(tx[c])))
<1> DEFINE t    == tx[c]
           op   == IF t.op = 0 THEN minted + 1 ELSE t.op
           full == Full(Credited(t))
           held == [x \in Slots |->
                      IF x = s THEN Stronger(lock, t.held[s])
                      ELSE IF x = Parent[s] /\ Seen(c, s) = Absent THEN Stronger(Share, t.held[x])
                      ELSE t.held[x]]
           rows == [t.rows EXCEPT ![s] = v]
           row  == Counted(Credited(t))
           log  == IF full THEN t.log ELSE t.log \cup {Image(op, s, Seen(c, s), v)}
           blind == IF full THEN t.blind \cup {s} ELSE t.blind \ {s}
           new  == [t EXCEPT !.held = held, !.rows = rows, !.op = op, !.row = row,
                             !.log = log, !.blind = blind]
<1>1. /\ op \in OpIds
      /\ minted' = IF t.op = 0 THEN op ELSE minted
      /\ seq' = IF full THEN seq ELSE seq + 1
      /\ tx' = [tx EXCEPT ![c] = new]
  BY DEF Write
<1>2. tx \in [Clients -> Transaction] /\ t \in Transaction /\ seq \in Nat /\ minted \in 0 .. MaxOps
  BY DEF IInv, TypeOK
<1>3. t.held \in [Slots -> None .. Key] /\ t.rows \in [Slots -> Content] /\ t.log \in SUBSET Entry
      /\ t.blind \in SUBSET Slots
  BY <1>2 DEF Transaction
<1>4. held \in [Slots -> None .. Key]
  BY <1>3 DEF Stronger, None, Share, Row, Key
<1>5. rows \in [Slots -> Content] /\ \A x \in Slots : rows[x] = IF x = s THEN v ELSE t.rows[x]
  BY <1>3
<1>6. Credited(t) \in OpRow
  BY <1>2, CreditedSound DEF IInv, TxOK
<1>7. row \in OpRow
  BY <1>6, CountedSound DEF IInv
<1>8. Seen(c, s) \in Content
  BY <1>3 DEF Seen, IInv, TypeOK, Database
<1>9. Image(op, s, Seen(c, s), v) \in Entry
  BY <1>1, <1>2, <1>8 DEF Image, Entry
<1>10. log \in SUBSET Entry /\ blind \in SUBSET Slots
  BY <1>3, <1>9
<1>11. \A x \in Slots : held[x] =
        IF x = s THEN Stronger(lock, t.held[x])
        ELSE IF x = Parent[s] /\ Seen(c, s) = Absent THEN Stronger(Share, t.held[x])
        ELSE t.held[x]
  OBVIOUS
<1>12. minted' \in 0 .. MaxOps /\ minted' = (IF t.op = 0 THEN minted + 1 ELSE minted)
  BY <1>1, <1>2, ConstantsOK DEF OpIds
<1>13. op \in 0 .. MaxOps
  BY <1>1 DEF OpIds
<1>14. op = IF t.op = 0 THEN minted + 1 ELSE t.op
  OBVIOUS
<1>15. seq' \in Nat
  BY <1>1, <1>2
<1> HIDE DEF held, rows, row, log, blind, op, full
<1>16. /\ new \in Transaction /\ new.source = t.source
       /\ new.held = held /\ new.rows = rows /\ new.op = op /\ new.row = row
       /\ new.log = log /\ new.blind = blind
  BY <1>2, <1>4, <1>5, <1>7, <1>10, <1>13 DEF Transaction
<1>17. tx'[c] = new /\ \A d \in Clients \ {c} : tx'[d] = tx[d]
  BY <1>1, <1>2
<1>18. log = IF full THEN t.log ELSE t.log \cup {Image(tx'[c].op, s, Seen(c, s), v)}
  BY <1>16, <1>17 DEF log
<1>19. tx'[c].op \in OpIds /\ tx'[c].op = (IF tx[c].op = 0 THEN minted + 1 ELSE tx[c].op)
  BY <1>1, <1>14, <1>16, <1>17
<1>20. tx'[c].blind = IF full THEN t.blind \cup {s} ELSE t.blind \ {s}
  BY <1>16, <1>17 DEF blind
<1>21. tx'[c].row = Counted(Credited(t))
  BY <1>16, <1>17 DEF row
<1>22. /\ \A x \in Slots : tx'[c].rows[x] = IF x = s THEN v ELSE tx[c].rows[x]
       /\ \A x \in Slots : tx'[c].held[x] =
             IF x = s THEN Stronger(lock, tx[c].held[x])
             ELSE IF x = Parent[s] /\ Seen(c, s) = Absent THEN Stronger(Share, tx[c].held[x])
             ELSE tx[c].held[x]
  BY <1>5, <1>11, <1>16, <1>17
<1>23. tx' \in [Clients -> Transaction] /\ tx'[c].source = tx[c].source
       /\ \A d \in Clients \ {c} : tx'[d] = tx[d]
  BY <1>1, <1>2, <1>16, <1>17
<1>24. seq' = (IF full THEN seq ELSE seq + 1)
       /\ tx'[c].log = (IF full THEN tx[c].log ELSE tx[c].log \cup {Image(tx'[c].op, s, Seen(c, s), v)})
  BY <1>1, <1>16, <1>17, <1>18
<1>25. full = Full(Credited(tx[c]))
  BY DEF full
<1> HIDE DEF t, new
<1>26. QED
  BY <1>12, <1>15, <1>19, <1>20, <1>21, <1>22, <1>23, <1>24, <1>25 DEF Writes, t

LEMMA WriteWhole ==
  ASSUME IInv, NEW c \in Clients, NEW s \in Slots, NEW v \in Content, NEW lock \in {Row, Key},
         Writes(c, s, v, lock, Full(Credited(tx[c])))
  PROVE  Whole(tx'[c])
<1> DEFINE t == tx[c]
           full == Full(Credited(t))
           e == Image(tx'[c].op, s, Seen(c, s), v)
<1>1. t \in Transaction /\ TxOK(t, db, seq, minted) /\ seq \in Nat
  BY DEF IInv, TypeOK
<1>2. /\ Credited(t) \in OpRow
      /\ ~Credited(t).capped => t.blind = {} /\ Cardinality(t.log) = Credited(t).count
  BY <1>1, CreditedSound DEF IInv, TxOK
<1>3. /\ full => tx'[c].row.capped
      /\ ~full => tx'[c].row.capped = Credited(t).capped /\ tx'[c].row.count = Credited(t).count + 1
  BY <1>2, CountedSound DEF Writes, IInv
<1>4. IsFiniteSet(t.log)
  BY <1>1 DEF TxOK, Whole
<1>5. CASE full
  BY <1>3, <1>4, <1>5 DEF Whole, Writes
<1>6. CASE ~full
  <2>1. tx'[c].log = t.log \cup {e} /\ tx'[c].blind = t.blind \ {s}
    BY <1>6 DEF Writes
  <2>2. e \notin t.log
    <3>1. \A f \in t.log : f.seq <= seq
      BY <1>1 DEF TxOK, Fresh
    <3>2. e.seq = seq + 1
      BY DEF Image
    <3>3. QED
      BY <1>1, <3>1, <3>2
  <2>3. IsFiniteSet(tx'[c].log) /\ Cardinality(tx'[c].log) = Cardinality(t.log) + 1
    BY <1>4, <2>1, <2>2, FS_AddElement
  <2>4. QED
    BY <1>2, <1>3, <1>6, <2>1, <2>3 DEF Whole
<1>7. QED
  BY <1>5, <1>6

LEMMA WriteHolds ==
  ASSUME IInv, NEW c \in Clients, NEW s \in Slots, NEW v \in Content, NEW lock \in {Row, Key},
         Writes(c, s, v, lock, Full(Credited(tx[c])))
  PROVE  /\ Wrote(tx'[c], s)
         /\ \A x \in Slots \ {s} : Wrote(tx'[c], x) <=> Wrote(tx[c], x)
<1>1. tx[c].held \in [Slots -> None .. Key]
  BY DEF IInv, TypeOK, Transaction
<1>2. Wrote(tx'[c], s)
  BY <1>1 DEF Writes, Wrote, Stronger, None, Row, Key
<1>3. ASSUME NEW x \in Slots \ {s} PROVE Wrote(tx'[c], x) <=> Wrote(tx[c], x)
  BY <1>1 DEF Writes, Wrote, Stronger, None, Share, Row, Key
<1>4. QED
  BY <1>2, <1>3

LEMMA WriteImaged ==
  ASSUME IInv, NEW c \in Clients, NEW s \in Slots, NEW v \in Content, NEW lock \in {Row, Key},
         Writes(c, s, v, lock, Full(Credited(tx[c])))
  PROVE  Imaged(tx'[c])
<1> DEFINE t == tx[c]
           full == Full(Credited(t))
           e == Image(tx'[c].op, s, Seen(c, s), v)
<1>1. t \in Transaction /\ Imaged(t) /\ Fresh(t, db, seq, minted) /\ seq \in Nat
  BY DEF IInv, TypeOK, TxOK
<1>2. t.log \subseteq Entry /\ \A f \in t.log : f.seq \in Nat /\ f.seq <= seq /\ f.slot \in Slots
  BY <1>1 DEF Transaction, Entry, Fresh
<1>3. e.seq = seq + 1 /\ e.slot = s /\ e.after = v
  BY DEF Image
<1>4. ASSUME NEW x \in Slots, Wrote(tx'[c], x), x \notin tx'[c].blind
      PROVE  \E f \in tx'[c].log : f.slot = x
  <2>1. CASE x = s
    <3>1. ~full
      BY <1>4, <2>1 DEF Writes
    <3>2. e \in tx'[c].log
      BY <3>1 DEF Writes
    <3>3. QED
      BY <1>3, <2>1, <3>2
  <2>2. CASE x # s
    <3>1. Wrote(t, x)
      BY <1>4, <2>2, WriteHolds
    <3>2. x \notin t.blind
      BY <1>4, <2>2 DEF Writes
    <3>3. PICK f \in t.log : f.slot = x
      BY <1>1, <3>1, <3>2 DEF Imaged
    <3>4. f \in tx'[c].log
      BY DEF Writes
    <3>5. QED
      BY <3>3, <3>4
  <2>3. QED
    BY <2>1, <2>2
<1>5. ASSUME NEW f \in tx'[c].log, f.slot \notin tx'[c].blind,
             \A g \in tx'[c].log : g.slot = f.slot => g.seq <= f.seq
      PROVE  tx'[c].rows[f.slot] = f.after
  <2>1. CASE f.slot = s
    <3>1. ~full /\ e \in tx'[c].log
      BY <1>5, <2>1 DEF Writes
    <3>2. f = e
      <4>1. e.seq <= f.seq
        BY <1>3, <1>5, <2>1, <3>1
      <4>2. f \notin t.log
        BY <1>1, <1>2, <1>3, <4>1
      <4>3. QED
        BY <3>1, <4>2 DEF Writes
    <3>3. QED
      BY <1>3, <2>1, <3>2 DEF Writes
  <2>2. CASE f.slot # s
    <3>1. f \in t.log
      BY <1>3, <2>2 DEF Writes
    <3>2. f.slot \notin t.blind /\ \A g \in t.log : g.slot = f.slot => g.seq <= f.seq
      BY <1>5, <2>2 DEF Writes
    <3>3. QED
      BY <1>1, <1>2, <2>2, <3>1, <3>2 DEF Imaged, Writes
  <2>3. QED
    BY <2>1, <2>2
<1>6. QED
  BY <1>4, <1>5 DEF Imaged

LEMMA WriteFresh ==
  ASSUME IInv, NEW c \in Clients, NEW s \in Slots, NEW v \in Content, NEW lock \in {Row, Key},
         Writes(c, s, v, lock, Full(Credited(tx[c])))
  PROVE  Fresh(tx'[c], db, seq', minted')
<1> DEFINE t == tx[c]
           full == Full(Credited(t))
           e == Image(tx'[c].op, s, Seen(c, s), v)
<1>1. t \in Transaction /\ Fresh(t, db, seq, minted) /\ Whole(t) /\ seq \in Nat
      /\ minted \in 0 .. MaxOps
  BY DEF IInv, TypeOK, TxOK
<1>2. Credited(t) \in OpRow /\ Credited(t).source = t.source /\ ~Credited(t).undone
  BY <1>1, CreditedSound DEF IInv
<1>3. tx'[c].row.source = tx'[c].source /\ ~tx'[c].row.undone
  BY <1>2, CountedSound DEF Writes, IInv
<1>4. tx'[c].op # 0 /\ tx'[c].op <= minted' /\ tx'[c].op \in OpIds
  BY <1>1, ConstantsOK DEF Writes, Fresh, OpIds, Transaction
<1>5. ~Exists(db, tx'[c].op)
  <2>1. CASE t.op = 0
    <3>1. tx'[c].op = minted + 1
      BY <2>1 DEF Writes
    <3>2. \A o \in OpIds : Exists(db, o) => o <= minted
      BY DEF IInv, Committed
    <3>3. QED
      BY <1>1, <1>4, <3>1, <3>2, ConstantsOK
  <2>2. CASE t.op # 0
    BY <1>1, <2>2 DEF Writes, Fresh
  <2>3. QED
    BY <2>1, <2>2
<1>6. e.seq = seq + 1 /\ e.slot = s /\ e.op = tx'[c].op
  BY DEF Image
<1>7. \A f \in db.log : f.seq \in Nat /\ f.seq <= seq
  BY DEF IInv, TypeOK, Database, Entry, Committed
<1>8. \A f \in t.log : f.seq \in Nat /\ f.slot \in Slots
  BY <1>1 DEF Transaction, Entry
<1>9. ASSUME NEW f \in tx'[c].log
      PROVE  /\ f.op = tx'[c].op /\ Wrote(tx'[c], f.slot) /\ f.seq <= seq'
             /\ \A g \in db.log : g.slot = f.slot => g.seq < f.seq
  <2>1. CASE f \in t.log
    <3>1. f.op = t.op /\ Wrote(t, f.slot) /\ f.seq <= seq
          /\ \A g \in db.log : g.slot = f.slot => g.seq < f.seq
      BY <1>1, <2>1 DEF Fresh
    <3>2. t.op # 0
      BY <1>1, <2>1 DEF Fresh
    <3>3. tx'[c].op = t.op
      BY <3>2 DEF Writes
    <3>4. Wrote(tx'[c], f.slot)
      BY <1>8, <2>1, <3>1, WriteHolds
    <3>5. f.seq <= seq'
      BY <1>1, <1>8, <2>1, <3>1 DEF Writes
    <3>6. QED
      BY <3>1, <3>3, <3>4, <3>5
  <2>2. CASE f \notin t.log
    <3>1. f = e /\ seq' = seq + 1
      BY <2>2 DEF Writes
    <3>2. QED
      BY <1>1, <1>6, <1>7, <3>1, WriteHolds
  <2>3. QED
    BY <2>1, <2>2
<1>10. QED
  BY <1>3, <1>4, <1>5, <1>9 DEF Fresh

\* Locks exclude each other if the write had nothing to wait for.
LEMMA WriteLocks ==
  ASSUME IInv, NEW c \in Clients, NEW s \in Slots, NEW v \in Content, NEW lock \in {Row, Key},
         Writes(c, s, v, lock, Full(Credited(tx[c]))),
         ~Waits(c, s, lock),
         Seen(c, s) = Absent /\ Parent[s] # NoSlot => ~Waits(c, Parent[s], Share)
  PROVE  Locks'
<1>1. \A d \in Clients : tx[d].held \in [Slots -> None .. Key]
  BY DEF IInv, TypeOK, Transaction
<1>2. ASSUME NEW d \in Clients, d # c, NEW x \in Slots
      PROVE  tx'[c].held[x] + tx[d].held[x] <= Key
  <2>1. tx[c].held[x] + tx[d].held[x] <= Key
    BY <1>2 DEF IInv, Locks
  <2>2. /\ tx[c].held[x] \in 0 .. 3 /\ tx[d].held[x] \in 0 .. 3
    BY <1>1 DEF None, Key
  <2>3. CASE x = s
    <3>1. tx[d].held[x] + lock <= Key
      BY <1>2, <2>2, <2>3 DEF Waits, Row, Key
    <3>2. tx'[c].held[x] = Stronger(lock, tx[c].held[x])
      BY <2>3 DEF Writes
    <3>3. QED
      BY <2>1, <2>2, <3>1, <3>2 DEF Stronger, Row, Key
  <2>4. CASE x # s /\ x = Parent[s] /\ Seen(c, s) = Absent
    <3>1. tx[d].held[x] + Share <= Key
      BY <1>2, <2>2, <2>4, ConstantsOK DEF Waits, Share, Key
    <3>2. tx'[c].held[x] = Stronger(Share, tx[c].held[x])
      BY <2>4 DEF Writes
    <3>3. QED
      BY <2>1, <2>2, <3>1, <3>2 DEF Stronger, Share, Key
  <2>5. CASE x # s /\ ~(x = Parent[s] /\ Seen(c, s) = Absent)
    BY <2>1, <2>5 DEF Writes
  <2>6. QED
    BY <2>3, <2>4, <2>5
<1>3. ASSUME NEW a \in Clients, NEW b \in Clients, a # b, NEW x \in Slots
      PROVE  tx'[a].held[x] + tx'[b].held[x] <= Key
  <2>1. CASE a = c
    BY <1>2, <1>3, <2>1 DEF Writes
  <2>2. CASE b = c
    <3>1. tx'[a] = tx[a] /\ tx[a].held[x] \in 0 .. 3
      BY <1>1, <1>3, <2>2 DEF Writes, None, Key
    <3>2. tx'[b].held[x] \in 0 .. 3
      BY <2>2 DEF Writes, Transaction, None, Key
    <3>3. tx'[b].held[x] + tx[a].held[x] <= Key
      BY <1>2, <1>3, <2>2
    <3>4. QED
      BY <3>1, <3>2, <3>3
  <2>3. CASE a # c /\ b # c
    BY <1>3, <2>3 DEF Writes, IInv, Locks
  <2>4. QED
    BY <2>1, <2>2, <2>3
<1>4. QED
  BY <1>3 DEF Locks

\* A session goes on with what it remembers while others write and commit.
Goes(s) ==
  /\ sess'[s].pc = sess[s].pc /\ sess'[s].op = sess[s].op /\ sess'[s].capped = sess[s].capped

LEMMA WriteInv ==
  ASSUME IInv, NEW c \in Clients, NEW s \in Slots, NEW v \in Content, NEW lock \in {Row, Key},
         Write(c, s, v, lock), ~Waits(c, s, lock),
         Seen(c, s) = Absent /\ Parent[s] # NoSlot => ~Waits(c, Parent[s], Share),
         c \in Sessions => sess[c].pc \in {"running", "applying"},
         UNCHANGED <<db, unseen>>, sess' \in [Sessions -> Session],
         \A k \in Sessions : Goes(k)
  PROVE  IInv'
<1> USE DEF Clients
<1>1. Writes(c, s, v, lock, Full(Credited(tx[c])))
  BY WriteWrites
<1>2. /\ tx \in [Clients -> Transaction] /\ seq \in Nat /\ minted \in 0 .. MaxOps
      /\ db \in Database /\ unseen \subseteq Slots
  BY DEF IInv, TypeOK
<1>3. seq <= seq' /\ minted <= minted' /\ seq' \in Nat /\ minted' \in 0 .. MaxOps
  BY <1>1, <1>2, ConstantsOK DEF Writes
<1>4. TypeOK'
  BY <1>1, <1>2, <1>3 DEF TypeOK, Writes
<1>5. Locks'
  BY <1>1, WriteLocks
<1>6. \A d \in Clients : tx[d].op \in Nat /\ tx[d].op <= minted
  BY <1>2, ConstantsOK DEF IInv, TxOK, Fresh, Transaction
<1>7. OpsDistinct'
  <2> SUFFICES ASSUME NEW a \in Clients, NEW b \in Clients, a # b, tx'[a].op # 0
               PROVE  tx'[a].op # tx'[b].op
    BY DEF OpsDistinct
  <2>1. tx'[c].op = IF tx[c].op = 0 THEN minted + 1 ELSE tx[c].op
    BY <1>1 DEF Writes
  <2>2. \A d \in Clients \ {c} : tx'[d] = tx[d]
    BY <1>1 DEF Writes
  <2>3. tx[a].op # 0 => tx[a].op # tx[b].op
    BY DEF IInv, OpsDistinct
  <2>4. tx[b].op # 0 => tx[a].op # tx[b].op
    BY DEF IInv, OpsDistinct
  <2>5. QED
    BY <1>2, <1>6, <2>1, <2>2, <2>3, <2>4, ConstantsOK
<1>8. Committed'
  <2>1. \A f \in db.log : f.seq \in Nat /\ f.seq <= seq
    BY DEF IInv, TypeOK, Database, Entry, Committed
  <2>2. \A o \in OpIds : Exists(db, o) => o <= minted
    BY DEF IInv, Committed
  <2>3. QED
    BY <1>2, <1>3, <2>1, <2>2, ConstantsOK DEF IInv, Committed, Exists, OpIds
<1>9. LogTruth'
  BY DEF IInv, LogTruth, Newest
<1>10. \A d \in Clients : TxOK(tx'[d], db', seq', minted')
  <2> SUFFICES ASSUME NEW d \in Clients PROVE TxOK(tx'[d], db, seq', minted')
    OBVIOUS
  <2>1. CASE d = c
    BY <1>1, <2>1, WriteWhole, WriteImaged, WriteFresh DEF TxOK
  <2>2. CASE d # c
    <3>1. tx'[d] = tx[d] /\ TxOK(tx[d], db, seq, minted)
      BY <1>1, <2>2 DEF Writes, IInv
    <3>2. \A f \in tx[d].log : f.seq \in Nat
      BY <1>2 DEF Transaction, Entry
    <3>3. Fresh(tx[d], db, seq', minted')
      BY <1>2, <1>3, <1>6, <3>1, <3>2, ConstantsOK DEF TxOK, Fresh
    <3>4. QED
      BY <3>1, <3>3 DEF TxOK
  <2>3. QED
    BY <2>1, <2>2
<1>11. \A d \in Clients : tx'[d].source = tx[d].source
  BY <1>1 DEF Writes
<1>12. ASSUME NEW k \in Sessions PROVE SessOK(k)'
  <2>1. SessOK(k) /\ Goes(k)
    BY DEF IInv
  <2>2. sess[k].pc \in {"idle", "reading", "inspecting"} => tx'[k] = tx[k]
    BY <1>1 DEF Writes
  <2>3. Remembers(sess[k], db, minted, tx) => Remembers(sess'[k], db', minted', tx')
    <3> SUFFICES ASSUME Remembers(sess[k], db, minted, tx) PROVE Remembers(sess'[k], db, minted', tx')
      OBVIOUS
    <3>1. sess[k].op \in OpIds /\ sess[k].op <= minted
      BY DEF Remembers
    <3>2. \A d \in Clients : tx'[d].op # sess[k].op
      BY <1>1, <1>2, <3>1, ConstantsOK DEF Remembers, Writes, OpIds
    <3>3. QED
      BY <1>2, <1>3, <2>1, <3>1, <3>2, ConstantsOK DEF Remembers, Goes, OpIds
  <2>4. QED
    BY <1>11, <2>1, <2>2, <2>3 DEF SessOK, Goes
<1>13. QED
  BY <1>4, <1>5, <1>7, <1>8, <1>9, <1>10, <1>11, <1>12 DEF IInv

-----------------------------------------------------------------------------
(* Transactions begin and end.                                              *)

\* Session k keeps its promise if what it remembers, and all it is about, stays.
LEMMA GoesKeeps ==
  ASSUME IInv, NEW k \in Sessions, Goes(k), tx'[k] = tx[k], db' = db, minted' = minted,
         \A c \in Clients : tx'[c].op \in {tx[c].op, 0}
  PROVE  SessOK(k)'
<1>1. SessOK(k)
  BY DEF IInv
<1>2. Remembers(sess[k], db, minted, tx) => Remembers(sess'[k], db', minted', tx')
  BY ConstantsOK DEF Remembers, Goes, OpIds
<1>3. QED
  BY <1>1, <1>2 DEF SessOK, Goes

\* The transaction of c is as if it had just begun: it begins, or it is over
\* and left nothing behind.
LEMMA FreshStartInv ==
  ASSUME IInv, NEW c \in Clients, NEW source \in {"external", "ctrlz"}, NEW o \in 0 .. MaxOps,
         tx' = [tx EXCEPT ![c] = Begun(source, o)],
         UNCHANGED <<db, seq, minted, unseen>>, sess' \in [Sessions -> Session],
         c \in Outsiders => source = "external",
         \A k \in Sessions \ {c} : Goes(k),
         c \in Sessions => SessOK(c)'
  PROVE  IInv'
<1> USE DEF Clients
<1>1. /\ tx \in [Clients -> Transaction] /\ seq \in Nat /\ minted \in 0 .. MaxOps
      /\ db \in Database /\ unseen \subseteq Slots
  BY DEF IInv, TypeOK
<1>2. tx'[c] = Begun(source, o) /\ \A d \in Clients \ {c} : tx'[d] = tx[d]
  BY <1>1
<1>3. TypeOK'
  BY <1>1, BegunTyped DEF TypeOK
<1>4. Locks'
  <2> SUFFICES ASSUME NEW a \in Clients, NEW b \in Clients, NEW x \in Slots, a # b
               PROVE  tx'[a].held[x] + tx'[b].held[x] <= Key
    BY DEF Locks
  <2>1. tx[a].held[x] \in 0 .. 3 /\ tx[b].held[x] \in 0 .. 3 /\ tx[a].held[x] + tx[b].held[x] <= Key
    BY <1>1 DEF IInv, Locks, Transaction, None, Key
  <2>2. Begun(source, o).held[x] = 0
    BY BegunTyped
  <2>3. QED
    BY <1>2, <2>1, <2>2 DEF Key
<1>5. Begun(source, o).op = 0
  BY BegunTyped
<1>6. OpsDistinct'
  BY <1>2, <1>5 DEF IInv, OpsDistinct
<1>7. Committed' /\ LogTruth'
  BY DEF IInv, Committed, Exists, LogTruth, Newest
<1>8. ASSUME NEW d \in Clients PROVE TxOK(tx'[d], db', seq', minted')
  <2>1. CASE d = c
    BY <1>1, <1>2, <2>1, BegunTyped, ConstantsOK
  <2>2. CASE d # c
    BY <1>2, <2>2 DEF IInv
  <2>3. QED
    BY <2>1, <2>2
<1>9. ASSUME NEW d \in Outsiders PROVE tx'[d].source = "external"
  <2>1. tx[d].source = "external"
    BY DEF IInv
  <2>2. CASE d = c
    BY <1>2, <2>2, BegunTyped
  <2>3. QED
    BY <1>2, <2>1, <2>2
<1>10. ASSUME NEW k \in Sessions PROVE SessOK(k)'
  <2>1. CASE k # c
    <3>1. \A d \in Clients : tx'[d].op \in {tx[d].op, 0}
      BY <1>2, <1>5
    <3>2. QED
      BY <1>2, <2>1, <3>1, GoesKeeps
  <2>2. QED
    BY <2>1
<1>11. QED
  BY <1>3, <1>4, <1>6, <1>7, <1>8, <1>9, <1>10 DEF IInv

LEMMA SessionAt ==
  ASSUME IInv, NEW s \in Sessions
  PROVE  sess \in [Sessions -> Session] /\ sess[s] \in Session /\ SessOK(s)
         /\ tx[s] \in Transaction /\ s \in Clients
BY DEF IInv, TypeOK, Clients

LEMMA ExecBeginInv == ASSUME IInv, NEW s \in Sessions, ExecBegin(s) PROVE IInv'
<1>1. sess \in [Sessions -> Session] /\ sess[s] \in Session /\ s \in Clients
      /\ tx \in [Clients -> Transaction]
  BY SessionAt DEF IInv, TypeOK
<1>2. sess' \in [Sessions -> Session] /\ sess'[s].pc = "running"
      /\ \A k \in Sessions \ {s} : sess'[k] = sess[k]
  BY <1>1 DEF ExecBegin, Session
<1>3. tx'[s] = Begun("ctrlz", 0)
  BY <1>1 DEF ExecBegin
<1>4. SessOK(s)'
  BY <1>2, <1>3, BegunTyped, ConstantsOK DEF SessOK
<1>5. \A k \in Sessions \ {s} : Goes(k)
  BY <1>2 DEF Goes
<1>6. /\ tx' = [tx EXCEPT ![s] = Begun("ctrlz", 0)]
      /\ UNCHANGED <<db, seq, minted, unseen>>
  BY DEF ExecBegin
<1>7. 0 \in 0 .. MaxOps /\ "ctrlz" \in {"external", "ctrlz"} /\ s \notin Outsiders
  BY ConstantsOK
<1>8. QED
  BY <1>1, <1>2, <1>4, <1>5, <1>6, <1>7, FreshStartInv

LEMMA AbandonInv ==
  ASSUME IInv, NEW c \in Clients, Ended(c), Returns(c), UNCHANGED <<db, seq, minted, unseen>>
  PROVE  IInv'
<1>1. sess \in [Sessions -> Session] /\ tx \in [Clients -> Transaction]
  BY DEF IInv, TypeOK
<1>2. /\ sess' \in [Sessions -> Session]
      /\ \A k \in Sessions \ {c} : sess'[k] = sess[k]
      /\ c \in Sessions => sess'[c] = Idle
  BY <1>1, NullsTyped DEF Returns
<1>3. tx' = [tx EXCEPT ![c] = Begun("external", 0)] /\ tx'[c] = NoTx
  BY <1>1 DEF Ended, NoTx
<1>4. c \in Sessions => SessOK(c)'
  BY <1>2, <1>3 DEF SessOK, Idle
<1>5. \A k \in Sessions \ {c} : Goes(k)
  BY <1>2 DEF Goes
<1>6. 0 \in 0 .. MaxOps /\ "external" \in {"external", "ctrlz"}
  BY ConstantsOK
<1>7. QED
  BY <1>2, <1>3, <1>4, <1>5, <1>6, FreshStartInv

LEMMA UndoBeginInv == ASSUME IInv, NEW s \in Sessions, UndoBegin(s) PROVE IInv'
<1>1. sess \in [Sessions -> Session] /\ sess[s] \in Session /\ s \in Clients /\ SessOK(s)
      /\ tx \in [Clients -> Transaction]
  BY SessionAt DEF IInv, TypeOK
<1>2. sess[s].verdicts \in SUBSET Verdict /\ sess[s].op \in 0 .. MaxOps
  BY <1>1 DEF Session
<1>3. ToInvert(s) \in SUBSET Verdict /\ {Table[v.change.slot] : v \in ToInvert(s)} \in SUBSET Tables
  BY <1>2 DEF ToInvert, Tables, Verdict, Entry
<1>4. /\ sess' \in [Sessions -> Session]
      /\ sess'[s].pc = "applying" /\ sess'[s].op = sess[s].op /\ sess'[s].capped = sess[s].capped
      /\ \A k \in Sessions \ {s} : sess'[k] = sess[k]
  BY <1>1, <1>3 DEF UndoBegin, Session
<1>5. tx'[s] = Begun("ctrlz", sess[s].op) /\ \A k \in Clients \ {s} : tx'[k] = tx[k]
  BY <1>1 DEF UndoBegin
<1>6. Begun("ctrlz", sess[s].op).op = 0 /\ Begun("ctrlz", sess[s].op).source = "ctrlz"
  BY <1>2, BegunTyped
<1>7. Remembers(sess[s], db, minted, tx) /\ ~sess[s].capped
  BY <1>1 DEF SessOK, UndoBegin, Assessed, Blocked
<1>8. Remembers(sess'[s], db', minted', tx')
  <2>1. db' = db /\ minted' = minted
    BY DEF UndoBegin
  <2>2. sess[s].op # 0
    BY <1>7, ConstantsOK DEF Remembers, OpIds
  <2>3. \A c \in Clients : tx'[c].op # sess[s].op
    BY <1>5, <1>6, <1>7, <2>2 DEF Remembers
  <2>4. QED
    BY <1>4, <1>7, <2>1, <2>3 DEF Remembers
<1>9. SessOK(s)'
  BY <1>4, <1>5, <1>6, <1>7, <1>8 DEF SessOK
<1>10. \A k \in Sessions \ {s} : Goes(k)
  BY <1>4 DEF Goes
<1>11. /\ tx' = [tx EXCEPT ![s] = Begun("ctrlz", sess[s].op)]
       /\ UNCHANGED <<db, seq, minted, unseen>>
  BY DEF UndoBegin
<1>12. "ctrlz" \in {"external", "ctrlz"} /\ s \notin Outsiders
  BY ConstantsOK
<1>13. QED
  BY <1>1, <1>2, <1>4, <1>9, <1>10, <1>11, <1>12, FreshStartInv

-----------------------------------------------------------------------------
(* A session reads, and decides.                                            *)

LEMMA ReaderInv ==
  ASSUME IInv, NEW s \in Sessions, NEW r \in Session, sess' = [sess EXCEPT ![s] = r],
         UNCHANGED <<db, seq, minted, tx, unseen>>, SessOK(s)'
  PROVE  IInv'
<1>1. sess \in [Sessions -> Session]
  BY DEF IInv, TypeOK
<1>2. sess' \in [Sessions -> Session] /\ \A k \in Sessions \ {s} : Goes(k)
  BY <1>1 DEF Goes
<1>3. TypeOK'
  BY <1>2 DEF IInv, TypeOK
<1>4. Locks' /\ OpsDistinct' /\ Committed' /\ LogTruth'
  BY DEF IInv, Locks, OpsDistinct, Committed, Exists, LogTruth, Newest
<1>5. /\ \A c \in Clients : TxOK(tx'[c], db', seq', minted')
      /\ \A c \in Outsiders : tx'[c].source = "external"
  BY DEF IInv
<1>6. ASSUME NEW k \in Sessions PROVE SessOK(k)'
  <2>1. CASE k # s
    BY <1>2, <2>1, GoesKeeps
  <2>2. QED
    BY <2>1
<1>7. QED
  BY <1>3, <1>4, <1>5, <1>6 DEF IInv

LEMMA ReadOperationInv == ASSUME IInv, NEW s \in Sessions, ReadOperation(s) PROVE IInv'
<1>1. sess[s].pc = "idle" /\ UNCHANGED <<db, seq, minted, tx, unseen>>
  BY DEF ReadOperation
<1>2. PICK o \in OpIds :
        /\ Exists(db, o)
        /\ sess' = [sess EXCEPT ![s] = [Idle EXCEPT !.pc = "reading", !.op = o,
                       !.capped = db.ops[o].capped, !.undone = db.ops[o].undone]]
  BY DEF ReadOperation
<1> DEFINE r == [Idle EXCEPT !.pc = "reading", !.op = o,
                   !.capped = db.ops[o].capped, !.undone = db.ops[o].undone]
<1>3. db.ops[o].capped \in BOOLEAN /\ db.ops[o].undone \in BOOLEAN
  BY DEF IInv, TypeOK, Database, OpRow
<1>4. r \in Session /\ r.pc = "reading" /\ r.op = o /\ r.capped = db.ops[o].capped
  <2>1. o \in 0 .. MaxOps
    BY ConstantsOK DEF OpIds
  <2>2. QED
    BY <1>3, <2>1, NullsTyped DEF Session
<1>5. sess'[s] = r
  BY <1>2, SessionAt
<1>6. tx'[s] = NoTx
  BY <1>1, SessionAt DEF SessOK
<1>7. Remembers(r, db, minted, tx)
  <2>1. o <= minted
    BY <1>2 DEF IInv, Committed
  <2>2. \A c \in Clients : tx[c].op # o
    BY <1>2, ConstantsOK DEF IInv, TxOK, Fresh, OpIds
  <2>3. QED
    BY <1>4, <2>1, <2>2 DEF Remembers
<1>8. SessOK(s)'
  BY <1>1, <1>4, <1>5, <1>6, <1>7 DEF SessOK
<1>9. QED
  BY <1>1, <1>2, <1>4, <1>8, ReaderInv

\* The steps that leave the operation and its flag as they are.
LEMMA OnwardInv ==
  ASSUME IInv, NEW s \in Sessions, NEW r \in Session, sess' = [sess EXCEPT ![s] = r],
         UNCHANGED <<db, seq, minted, tx, unseen>>,
         r.op = sess[s].op, r.capped = sess[s].capped,
         \/ sess[s].pc \in {"reading", "inspecting"} /\ r.pc = "inspecting"
         \/ sess[s].pc = "applying" /\ r.pc = "applying"
  PROVE  IInv'
<1>1. sess'[s] = r
  BY SessionAt
<1>2. Remembers(sess[s], db, minted, tx)
  BY SessionAt DEF SessOK
<1>3. Remembers(r, db, minted, tx)
  BY <1>2 DEF Remembers
<1>4. SessOK(s)'
  BY <1>1, <1>3, SessionAt DEF SessOK
<1>5. QED
  BY <1>4, ReaderInv

LEMMA ReadChangesInv == ASSUME IInv, NEW s \in Sessions, ReadChanges(s) PROVE IInv'
<1> DEFINE r == [sess[s] EXCEPT !.pc = "inspecting", !.changes = ChangesOf(db, sess[s].op)]
<1>1. /\ sess[s].pc = "reading" /\ UNCHANGED <<db, seq, minted, tx, unseen>>
      /\ sess' = [sess EXCEPT ![s] = r]
  BY SessionAt DEF ReadChanges
<1>2. ChangesOf(db, sess[s].op) \in SUBSET Entry
  BY DEF ChangesOf, IInv, TypeOK, Database
<1>3. r \in Session /\ r.pc = "inspecting" /\ r.op = sess[s].op /\ r.capped = sess[s].capped
  BY <1>2, SessionAt DEF Session
<1>4. QED
  BY <1>1, <1>3, OnwardInv

LEMMA LiveRowsInv == ASSUME IInv, NEW s \in Sessions, LiveRows(s) PROVE IInv'
<1>1. sess[s].pc = "inspecting" /\ UNCHANGED <<db, seq, minted, tx, unseen>>
  BY DEF LiveRows
<1>2. PICK c \in Uninspected(s) :
        sess' = [sess EXCEPT ![s].verdicts = @ \cup
             {[change |-> e, status |-> StatusOf(sess[s].changes, e, db.rows[e.slot])] :
                e \in {f \in sess[s].changes : Table[f.slot] = Table[c.slot]}}]
  BY DEF LiveRows
<1> DEFINE new == {[change |-> e, status |-> StatusOf(sess[s].changes, e, db.rows[e.slot])] :
                     e \in {f \in sess[s].changes : Table[f.slot] = Table[c.slot]}}
           r == [sess[s] EXCEPT !.verdicts = @ \cup new]
<1>3. \A x, y, z : StatusOf(x, y, z) \in {"clean", "drifted", "missing", "occupied"}
  BY DEF StatusOf
<1>4. sess[s].changes \in SUBSET Entry /\ sess[s].verdicts \in SUBSET Verdict
  BY SessionAt DEF Session
<1>5. new \in SUBSET Verdict
  BY <1>3, <1>4 DEF Verdict
<1>6. sess' = [sess EXCEPT ![s] = r]
  BY <1>2, SessionAt
<1> HIDE DEF new
<1>7. r \in Session /\ r.pc = sess[s].pc /\ r.op = sess[s].op /\ r.capped = sess[s].capped
  BY <1>4, <1>5, SessionAt DEF Session
<1>8. QED
  BY <1>1, <1>6, <1>7, OnwardInv

LEMMA ReportInv == ASSUME IInv, NEW s \in Sessions, Report(s) PROVE IInv'
<1>1. sess[s].pc = "inspecting" /\ UNCHANGED <<db, seq, minted, tx, unseen>>
      /\ sess' = [sess EXCEPT ![s] = Idle]
  BY DEF Report, Assessed
<1>2. sess'[s] = Idle /\ tx'[s] = NoTx
  BY <1>1, SessionAt DEF SessOK
<1>3. SessOK(s)'
  BY <1>2 DEF SessOK, Idle
<1>4. QED
  BY <1>1, <1>3, NullsTyped, ReaderInv

LEMMA PutOffInv == ASSUME IInv, NEW s \in Sessions, PutOff(s) PROVE IInv'
<1>1. PICK v \in sess[s].verdicts :
        /\ NextVerdict(s, v)
        /\ sess' = [sess EXCEPT ![s].verdicts = @ \ {v}, ![s].deferred = @ \cup {v}]
  BY DEF PutOff
<1> DEFINE r == [sess[s] EXCEPT !.verdicts = @ \ {v}, !.deferred = @ \cup {v}]
<1>2. sess' = [sess EXCEPT ![s] = r]
  BY <1>1, SessionAt
<1>3. r \in Session /\ r.pc = sess[s].pc /\ r.op = sess[s].op /\ r.capped = sess[s].capped
  BY <1>1, SessionAt DEF Session
<1>4. sess[s].pc = "applying" /\ UNCHANGED <<db, seq, minted, tx, unseen>>
  BY <1>1 DEF NextVerdict, PutOff
<1>5. QED
  BY <1>2, <1>3, <1>4, OnwardInv

LEMMA NextRoundInv == ASSUME IInv, NEW s \in Sessions, NextRound(s) PROVE IInv'
<1> DEFINE r == [sess[s] EXCEPT !.verdicts = sess[s].deferred, !.deferred = {}, !.progress = FALSE]
<1>1. /\ sess[s].pc = "applying" /\ UNCHANGED <<db, seq, minted, tx, unseen>>
      /\ sess' = [sess EXCEPT ![s] = r]
  BY SessionAt DEF NextRound, RoundOver
<1>2. r \in Session /\ r.pc = sess[s].pc /\ r.op = sess[s].op /\ r.capped = sess[s].capped
  BY SessionAt DEF Session
<1>3. QED
  BY <1>1, <1>2, OnwardInv

-----------------------------------------------------------------------------
(* Rows are written.                                                        *)

LEMMA UserWriteInv == ASSUME IInv, NEW c \in Clients, UserWrite(c) PROVE IInv'
<1>1. PICK s \in Slots :
        \/ CanInsert(c, s) /\ \E v \in Vals : Write(c, s, v, Key)
        \/ Seen(c, s) # Absent /\ ~Waits(c, s, Row) /\ \E v \in Vals : Write(c, s, v, Row)
        \/ CanDelete(c, s) /\ Write(c, s, Absent, Key)
  BY DEF UserWrite
<1>2. /\ UNCHANGED <<db, unseen>> /\ sess' \in [Sessions -> Session]
      /\ \A k \in Sessions : Goes(k)
      /\ c \in Sessions => sess[c].pc \in {"running", "applying"}
  BY DEF UserWrite, Running, Goes, IInv, TypeOK
<1>3. CASE CanInsert(c, s) /\ \E v \in Vals : Write(c, s, v, Key)
  <2>1. PICK v \in Vals : Write(c, s, v, Key)
    BY <1>3
  <2>2. v \in Content /\ Key \in {Row, Key}
    BY DEF Content
  <2>3. ~Waits(c, s, Key) /\ (Parent[s] # NoSlot => ~Waits(c, Parent[s], Share))
    BY <1>3 DEF CanInsert
  <2>4. QED
    BY <1>2, <2>1, <2>2, <2>3, WriteInv
<1>4. CASE Seen(c, s) # Absent /\ ~Waits(c, s, Row) /\ \E v \in Vals : Write(c, s, v, Row)
  <2>1. PICK v \in Vals : Write(c, s, v, Row)
    BY <1>4
  <2>2. v \in Content /\ Row \in {Row, Key}
    BY DEF Content
  <2>3. QED
    BY <1>2, <1>4, <2>1, <2>2, WriteInv
<1>5. CASE CanDelete(c, s) /\ Write(c, s, Absent, Key)
  <2>1. Absent \in Content /\ Key \in {Row, Key}
    BY DEF Content
  <2>2. Seen(c, s) # Absent /\ ~Waits(c, s, Key)
    BY <1>5 DEF CanDelete
  <2>3. QED
    BY <1>2, <1>5, <2>1, <2>2, WriteInv
<1>6. QED
  BY <1>1, <1>3, <1>4, <1>5

LEMMA ApplyNextInv == ASSUME IInv, NEW s \in Sessions, ApplyNext(s) PROVE IInv'
<1>1. PICK v \in sess[s].verdicts :
        /\ NextVerdict(s, v) /\ ApplyInverse(s, v)
        /\ sess' = [sess EXCEPT ![s].verdicts = @ \ {v}, ![s].progress = TRUE]
  BY DEF ApplyNext
<1> DEFINE r == [sess[s] EXCEPT !.verdicts = @ \ {v}, !.progress = TRUE]
           c == v.change
<1>2. sess' = [sess EXCEPT ![s] = r]
  BY <1>1, SessionAt
<1>3. r \in Session /\ r.pc = sess[s].pc /\ r.op = sess[s].op /\ r.capped = sess[s].capped
  BY <1>1, SessionAt DEF Session
<1>4. sess[s].pc = "applying" /\ UNCHANGED <<db, unseen>> /\ s \in Clients
  BY <1>1, SessionAt DEF NextVerdict, ApplyNext
<1>5. sess' \in [Sessions -> Session] /\ \A k \in Sessions : Goes(k)
  BY <1>2, <1>3, SessionAt DEF Goes
<1>6. c.slot \in Slots /\ c.before \in Content /\ Absent \in Content
      /\ Key \in {Row, Key} /\ Row \in {Row, Key}
  BY <1>1, SessionAt DEF Session, Verdict, Entry, Content
<1>7. CASE IsDelete(c) /\ CanInsert(s, c.slot) /\ Write(s, c.slot, c.before, Key)
  <2>1. ~Waits(s, c.slot, Key) /\ (Parent[c.slot] # NoSlot => ~Waits(s, Parent[c.slot], Share))
    BY <1>7 DEF CanInsert
  <2>2. QED
    BY <1>4, <1>5, <1>6, <1>7, <2>1, WriteInv
<1>8. CASE IsInsert(c) /\ Matches(s, v) /\ CanDelete(s, c.slot) /\ Write(s, c.slot, Absent, Key)
  <2>1. Seen(s, c.slot) # Absent /\ ~Waits(s, c.slot, Key)
    BY <1>8 DEF CanDelete
  <2>2. QED
    BY <1>4, <1>5, <1>6, <1>8, <2>1, WriteInv
<1>9. CASE /\ ~IsInsert(c) /\ ~IsDelete(c) /\ Matches(s, v) /\ ~Waits(s, c.slot, Row)
           /\ Write(s, c.slot, c.before, Row)
  <2>1. Seen(s, c.slot) # Absent
    BY <1>9 DEF Matches
  <2>2. QED
    BY <1>4, <1>5, <1>6, <1>9, <2>1, WriteInv
<1>10. CASE ~IsDelete(c) /\ ~Matches(s, v) /\ UNCHANGED <<seq, minted, tx>>
  BY <1>2, <1>3, <1>4, <1>10, OnwardInv
<1>11. QED
  BY <1>1, <1>7, <1>8, <1>9, <1>10 DEF ApplyInverse

-----------------------------------------------------------------------------
(* A transaction commits.                                                   *)

\* What may happen to the headers besides: none appears, none is capped
\* otherwise, and what is marked undone was whole.
Marks(ops) ==
  /\ ops \in [OpIds -> OpRow]
  /\ \A o \in OpIds : /\ ops[o].source = db.ops[o].source /\ ops[o].capped = db.ops[o].capped
                      /\ ops[o].undone => ~ops[o].capped

LEMMA CommitsWhat ==
  ASSUME IInv, NEW c \in Clients, NEW ops, Marks(ops), Commits(c, ops)
  PROVE  /\ db' \in Database
         /\ db'.log = db.log \cup tx[c].log
         /\ \A x \in Slots : db'.rows[x] = Seen(c, x)
         /\ \A o \in OpIds : db'.ops[o] = IF o = tx[c].op THEN tx[c].row ELSE ops[o]
         /\ unseen' = {x \in unseen : ~Wrote(tx[c], x)} \cup tx[c].blind
         /\ tx' = [tx EXCEPT ![c] = NoTx] /\ UNCHANGED <<seq, minted>>
<1> DEFINE t == tx[c]
           new == IF t.row = NoOp THEN ops ELSE [ops EXCEPT ![t.op] = t.row]
           rows == [x \in Slots |-> Seen(c, x)]
<1>1. t \in Transaction /\ db \in Database /\ Fresh(t, db, seq, minted)
  BY DEF IInv, TypeOK, TxOK
<1>2. t.row \in OpRow /\ t.op \in 0 .. MaxOps /\ t.log \in SUBSET Entry
      /\ t.rows \in [Slots -> Content] /\ db.rows \in [Slots -> Content]
      /\ db.log \in SUBSET Entry
  BY <1>1 DEF Transaction, Database
<1>3. rows \in [Slots -> Content]
  BY <1>2 DEF Seen
<1>4. t.op = 0 <=> t.row = NoOp
  BY <1>1 DEF Fresh, NoOp, Transaction
<1>5. new \in [OpIds -> OpRow]
      /\ \A o \in OpIds : new[o] = IF o = t.op THEN t.row ELSE ops[o]
  BY <1>2, <1>4, ConstantsOK DEF Marks, OpIds
<1>6. db' = [db EXCEPT !.rows = rows, !.ops = new, !.log = @ \cup t.log]
  BY DEF Commits
<1> HIDE DEF new, rows
<1>7. db' \in Database /\ db'.log = db.log \cup t.log /\ db'.rows = rows /\ db'.ops = new
  BY <1>1, <1>2, <1>3, <1>5, <1>6 DEF Database
<1>8. QED
  BY <1>5, <1>7 DEF Commits, Ended, rows

\* The newest image of a row is the row, after the commit as before.
LEMMA CommitsTruth ==
  ASSUME IInv, NEW c \in Clients, NEW ops, Marks(ops), Commits(c, ops)
  PROVE  LogTruth'
<1> DEFINE t == tx[c]
<1>1. /\ db'.log = db.log \cup t.log
      /\ \A x \in Slots : db'.rows[x] = Seen(c, x)
      /\ unseen' = {x \in unseen : ~Wrote(t, x)} \cup t.blind
  BY CommitsWhat
<1>2. t \in Transaction /\ db \in Database /\ Fresh(t, db, seq, minted) /\ Imaged(t)
  BY DEF IInv, TypeOK, TxOK
<1>3. \A f \in db.log \cup t.log : f.slot \in Slots /\ f.seq \in Nat
  BY <1>2 DEF Transaction, Database, Entry
<1> SUFFICES ASSUME NEW e \in db'.log, \A f \in db'.log : f.slot = e.slot => f.seq <= e.seq,
                    e.slot \notin unseen'
             PROVE  db'.rows[e.slot] = e.after
  BY DEF LogTruth, Newest
<1>4. e.slot \in Slots /\ e \in db.log \cup t.log
  BY <1>1, <1>3
<1>5. CASE Wrote(t, e.slot)
  <2>1. e.slot \notin t.blind
    BY <1>1
  <2>2. PICK f \in t.log : f.slot = e.slot
    BY <1>2, <1>4, <1>5, <2>1 DEF Imaged
  <2>3. f.seq <= e.seq
    BY <1>1, <2>2
  <2>4. e \in t.log
    BY <1>2, <1>3, <1>4, <2>2, <2>3 DEF Fresh
  <2>5. t.rows[e.slot] = e.after
    BY <1>1, <1>2, <2>1, <2>4 DEF Imaged
  <2>6. QED
    BY <1>1, <1>4, <1>5, <2>5 DEF Seen
<1>6. CASE ~Wrote(t, e.slot)
  <2>1. e \in db.log
    BY <1>2, <1>4, <1>6 DEF Fresh
  <2>2. e.slot \notin unseen
    BY <1>1, <1>6
  <2>3. Newest(e)
    BY <1>1 DEF Newest
  <2>4. db.rows[e.slot] = e.after
    BY <2>1, <2>2, <2>3 DEF IInv, LogTruth
  <2>5. QED
    BY <1>1, <1>4, <1>6, <2>4 DEF Seen
<1>7. QED
  BY <1>5, <1>6

\* The transactions of others stay sound: rows they hold are not among those
\* that were committed.
LEMMA CommitsOthers ==
  ASSUME IInv, NEW c \in Clients, NEW ops, Marks(ops), Commits(c, ops),
         NEW d \in Clients, d # c
  PROVE  tx'[d] = tx[d] /\ TxOK(tx[d], db', seq, minted)
<1> DEFINE t == tx[c]
           u == tx[d]
<1>1. /\ db'.log = db.log \cup t.log /\ tx' = [tx EXCEPT ![c] = NoTx]
      /\ \A o \in OpIds : db'.ops[o] = IF o = t.op THEN t.row ELSE ops[o]
  BY CommitsWhat
<1>2. /\ tx \in [Clients -> Transaction] /\ t \in Transaction /\ u \in Transaction
      /\ TxOK(t, db, seq, minted) /\ TxOK(u, db, seq, minted)
  BY DEF IInv, TypeOK
<1>3. tx'[d] = tx[d]
  BY <1>1, <1>2
<1>4. ASSUME NEW x \in Slots, Wrote(t, x), Wrote(u, x) PROVE FALSE
  <2>1. t.held[x] + u.held[x] <= Key
    BY DEF IInv, Locks
  <2>2. t.held[x] \in 0 .. 3 /\ u.held[x] \in 0 .. 3
    BY <1>2 DEF Transaction, None, Key
  <2>3. QED
    BY <1>4, <2>1, <2>2 DEF Wrote, Row, Key
<1>5. \A e \in u.log : \A f \in db'.log : f.slot = e.slot => f.seq < e.seq
  <2> SUFFICES ASSUME NEW e \in u.log, NEW f \in db'.log, f.slot = e.slot PROVE f.seq < e.seq
    OBVIOUS
  <2>1. e.slot \in Slots /\ Wrote(u, e.slot)
    BY <1>2 DEF Transaction, Entry, TxOK, Fresh
  <2>2. f \notin t.log
    BY <1>2, <1>4, <2>1 DEF TxOK, Fresh
  <2>3. f \in db.log
    BY <1>1, <2>2
  <2>4. QED
    BY <1>2, <2>3 DEF TxOK, Fresh
<1>6. u.op # 0 => ~Exists(db', u.op)
  <2> SUFFICES ASSUME u.op # 0 PROVE ~Exists(db', u.op)
    OBVIOUS
  <2>1. u.op \in OpIds /\ ~Exists(db, u.op)
    BY <1>2, ConstantsOK DEF Transaction, OpIds, TxOK, Fresh
  <2>2. u.op # t.op
    BY DEF IInv, OpsDistinct
  <2>3. db'.ops[u.op] = ops[u.op]
    BY <1>1, <2>1, <2>2
  <2>4. QED
    BY <2>1, <2>3 DEF Exists, Marks
<1>7. Fresh(u, db', seq, minted)
  BY <1>2, <1>5, <1>6 DEF TxOK, Fresh
<1>8. QED
  BY <1>2, <1>3, <1>7 DEF TxOK

LEMMA CommitsInv ==
  ASSUME IInv, NEW c \in Clients, NEW ops, Marks(ops), Commits(c, ops), Returns(c)
  PROVE  IInv'
<1> USE DEF Clients
<1> DEFINE t == tx[c]
<1>1. /\ db' \in Database
      /\ db'.log = db.log \cup t.log
      /\ \A o \in OpIds : db'.ops[o] = IF o = t.op THEN t.row ELSE ops[o]
      /\ unseen' = {x \in unseen : ~Wrote(t, x)} \cup t.blind
      /\ tx' = [tx EXCEPT ![c] = NoTx] /\ UNCHANGED <<seq, minted>>
  BY CommitsWhat
<1>2. /\ tx \in [Clients -> Transaction] /\ seq \in Nat /\ minted \in 0 .. MaxOps
      /\ t \in Transaction /\ TxOK(t, db, seq, minted) /\ unseen \subseteq Slots
      /\ sess \in [Sessions -> Session]
  BY DEF IInv, TypeOK
<1>3. /\ sess' \in [Sessions -> Session]
      /\ \A k \in Sessions \ {c} : sess'[k] = sess[k]
      /\ c \in Sessions => sess'[c] = Idle
  BY <1>2, NullsTyped DEF Returns
<1>4. tx'[c] = NoTx /\ tx' \in [Clients -> Transaction] /\ \A d \in Clients \ {c} : tx'[d] = tx[d]
  BY <1>1, <1>2, NullsTyped
<1>5. unseen' \subseteq Slots
  BY <1>1, <1>2 DEF Transaction
<1>6. TypeOK'
  BY <1>1, <1>2, <1>3, <1>4, <1>5 DEF TypeOK
<1>7. NoTx = Begun("external", 0) /\ 0 \in 0 .. MaxOps
  BY ConstantsOK DEF NoTx
<1>8. NoTx.op = 0 /\ NoTx.source = "external" /\ \A x \in Slots : NoTx.held[x] = 0
  BY <1>7, BegunTyped
<1>9. Locks'
  <2> SUFFICES ASSUME NEW a \in Clients, NEW b \in Clients, NEW x \in Slots, a # b
               PROVE  tx'[a].held[x] + tx'[b].held[x] <= Key
    BY DEF Locks
  <2>1. tx[a].held[x] \in 0 .. 3 /\ tx[b].held[x] \in 0 .. 3 /\ tx[a].held[x] + tx[b].held[x] <= Key
    BY <1>2 DEF IInv, Locks, Transaction, None, Key
  <2>2. QED
    BY <1>4, <1>8, <2>1 DEF Key
<1>10. OpsDistinct'
  BY <1>4, <1>8 DEF IInv, OpsDistinct
<1>11. Committed'
  <2>1. ASSUME NEW o \in OpIds, Exists(db', o) PROVE o <= minted
    <3>1. CASE o = t.op
      BY <1>2, <3>1 DEF TxOK, Fresh
    <3>2. CASE o # t.op
      <4>1. Exists(db, o)
        BY <1>1, <2>1, <3>2 DEF Exists, Marks
      <4>2. QED
        BY <4>1 DEF IInv, Committed
    <3>3. QED
      BY <3>1, <3>2
  <2>2. ASSUME NEW o \in OpIds, db'.ops[o].undone PROVE ~db'.ops[o].capped
    <3>1. o # t.op
      BY <1>1, <1>2, <2>2, ConstantsOK DEF TxOK, Fresh, OpIds
    <3>2. QED
      BY <1>1, <2>2, <3>1 DEF Marks
  <2>3. \A f \in db'.log : f.seq <= seq
    BY <1>1, <1>2 DEF IInv, Committed, TxOK, Fresh
  <2>4. QED
    BY <1>1, <2>1, <2>2, <2>3 DEF Committed
<1>12. LogTruth'
  BY CommitsTruth
<1>13. ASSUME NEW d \in Clients PROVE TxOK(tx'[d], db', seq', minted')
  <2>1. CASE d = c
    BY <1>1, <1>2, <1>4, <1>7, <2>1, BegunTyped, ConstantsOK
  <2>2. CASE d # c
    BY <1>1, <2>2, CommitsOthers
  <2>3. QED
    BY <2>1, <2>2
<1>14. ASSUME NEW d \in Outsiders PROVE tx'[d].source = "external"
  BY <1>4, <1>8 DEF IInv
<1>15. ASSUME NEW k \in Sessions PROVE SessOK(k)'
  <2>1. CASE k = c
    BY <1>3, <1>4, <2>1 DEF SessOK, Idle
  <2>2. CASE k # c
    <3>1. sess'[k] = sess[k] /\ tx'[k] = tx[k] /\ SessOK(k)
      BY <1>3, <1>4, <2>2 DEF IInv
    <3>2. ASSUME Remembers(sess[k], db, minted, tx) PROVE Remembers(sess[k], db', minted, tx')
      <4>1. sess[k].op \in OpIds /\ sess[k].op # t.op /\ sess[k].op # 0
        BY <3>2, ConstantsOK DEF Remembers, OpIds
      <4>2. db'.ops[sess[k].op] = ops[sess[k].op]
        BY <1>1, <4>1
      <4>3. Exists(db', sess[k].op) => db'.ops[sess[k].op].capped = sess[k].capped
        BY <3>2, <4>1, <4>2 DEF Remembers, Exists, Marks
      <4>4. \A d \in Clients : tx'[d].op # sess[k].op
        BY <1>4, <1>8, <3>2, <4>1 DEF Remembers
      <4>5. QED
        BY <3>2, <4>3, <4>4 DEF Remembers
    <3>3. QED
      BY <1>1, <3>1, <3>2 DEF SessOK
  <2>3. QED
    BY <2>1, <2>2
<1>16. QED
  BY <1>6, <1>9, <1>10, <1>11, <1>12, <1>13, <1>14, <1>15 DEF IInv

LEMMA CommitInv == ASSUME IInv, NEW c \in Clients, Commit(c) PROVE IInv'
<1>1. Marks(db.ops)
  BY DEF Marks, IInv, TypeOK, Database, Committed
<1>2. QED
  BY <1>1, CommitsInv DEF Commit

LEMMA MarkedMarks ==
  ASSUME IInv, NEW s \in Sessions, sess[s].pc = "applying"
  PROVE  Marks(MarkedUndone(sess[s].op, tx[s].op))
<1> DEFINE o == sess[s].op
           by == tx[s].op
<1>1. db.ops \in [OpIds -> OpRow] /\ by \in 0 .. MaxOps
  BY SessionAt DEF IInv, TypeOK, Database, Transaction
<1>2. \A p \in OpIds : db.ops[p].undone => ~db.ops[p].capped
  BY DEF IInv, Committed
<1>3. CASE ~Exists(db, o)
  BY <1>1, <1>2, <1>3 DEF MarkedUndone, Marks
<1>4. CASE Exists(db, o)
  <2>1. o \in OpIds /\ ~db.ops[o].capped
    BY <1>4, SessionAt DEF SessOK, Remembers
  <2>2. MarkedUndone(o, by) = [db.ops EXCEPT ![o].undone = TRUE, ![o].undoneBy = by]
    BY <1>4 DEF MarkedUndone
  <2> DEFINE row == [db.ops[o] EXCEPT !.undone = TRUE, !.undoneBy = by]
  <2>3. row \in OpRow /\ row.source = db.ops[o].source /\ row.capped = db.ops[o].capped
    BY <1>1, <2>1 DEF OpRow
  <2>4. MarkedUndone(o, by) = [db.ops EXCEPT ![o] = row]
    BY <1>1, <2>1, <2>2
  <2> HIDE DEF row
  <2>5. QED
    BY <1>1, <1>2, <2>1, <2>3, <2>4 DEF Marks
<1>5. QED
  BY <1>3, <1>4

LEMMA UndoCommitInv == ASSUME IInv, NEW s \in Sessions, UndoCommit(s) PROVE IInv'
BY SessionAt, MarkedMarks, CommitsInv DEF UndoCommit, RoundOver

-----------------------------------------------------------------------------
(* Retention and settings.                                                  *)

LEMMA PurgeInv == ASSUME IInv, Purge PROVE IInv'
<1>1. PICK k \in 2 .. MaxOps + 1 : db' = Purged(k)
  BY DEF Purge
<1>2. /\ UNCHANGED <<seq, minted, tx, sess>>
      /\ unseen' = unseen \cup {c.slot : c \in {e \in db.log \ db'.log :
                       \A f \in db'.log : f.slot = e.slot => f.seq < e.seq}}
  BY DEF Purge
<1> DEFINE ops == [o \in OpIds |-> IF o < k THEN NoOp ELSE db.ops[o]]
           log == {c \in db.log : c.op >= k}
<1>3. db \in Database /\ db.ops \in [OpIds -> OpRow] /\ db.log \in SUBSET Entry
  BY DEF IInv, TypeOK, Database
<1>4. ops \in [OpIds -> OpRow] /\ log \in SUBSET db.log
      /\ \A o \in OpIds : ops[o] = NoOp \/ ops[o] = db.ops[o]
  BY <1>3, NullsTyped
<1>5. db' = [db EXCEPT !.ops = ops, !.log = log]
  BY <1>1 DEF Purged
<1> HIDE DEF ops, log
<1>6. db' \in Database /\ db'.rows = db.rows /\ db'.ops = ops /\ db'.log = log
  BY <1>3, <1>4, <1>5 DEF Database
<1>7. NoOp.source = "none" /\ ~NoOp.undone
  BY DEF NoOp
<1>8. \A o \in OpIds : Exists(db', o) => Exists(db, o) /\ db'.ops[o] = db.ops[o]
  BY <1>4, <1>6, <1>7 DEF Exists
<1>9. unseen' \subseteq Slots
  BY <1>2, <1>3 DEF Entry, IInv, TypeOK
<1>10. TypeOK'
  BY <1>2, <1>6, <1>9 DEF IInv, TypeOK
<1>11. Locks' /\ OpsDistinct'
  BY <1>2 DEF IInv, Locks, OpsDistinct
<1>12. Committed'
  BY <1>2, <1>4, <1>6, <1>7, <1>8 DEF IInv, Committed
<1>13. LogTruth'
  <2> SUFFICES ASSUME NEW c \in db'.log, \A f \in db'.log : f.slot = c.slot => f.seq <= c.seq,
                      c.slot \notin unseen'
               PROVE  db'.rows[c.slot] = c.after
    BY DEF LogTruth, Newest
  <2>1. c \in db.log /\ c.slot \notin unseen
    BY <1>2, <1>4, <1>6
  <2>2. Newest(c)
    <3> SUFFICES ASSUME NEW e \in db.log, e.slot = c.slot, ~(e.seq <= c.seq) PROVE FALSE
      BY DEF Newest
    <3>1. e \notin db'.log
      OBVIOUS
    <3>2. e.seq \in Nat /\ c.seq \in Nat /\ \A f \in db'.log : f.seq \in Nat
      BY <1>3, <1>4, <1>6, <2>1 DEF Entry
    <3>3. \A f \in db'.log : f.slot = e.slot => f.seq < e.seq
      BY <3>2
    <3>4. QED
      BY <1>2, <3>1, <3>3
  <2>3. QED
    BY <1>6, <2>1, <2>2 DEF IInv, LogTruth
<1>14. ASSUME NEW c \in Clients PROVE TxOK(tx'[c], db', seq', minted')
  <2>1. TxOK(tx[c], db, seq, minted) /\ tx[c] \in Transaction
    BY DEF IInv, TypeOK
  <2>2. tx[c].op # 0 => tx[c].op \in OpIds
    BY <2>1, ConstantsOK DEF Transaction, OpIds
  <2>3. QED
    BY <1>2, <1>4, <1>6, <1>8, <2>1, <2>2 DEF TxOK, Fresh
<1>15. \A c \in Outsiders : tx'[c].source = "external"
  BY <1>2 DEF IInv
<1>16. ASSUME NEW s \in Sessions PROVE SessOK(s)'
  <2>1. Remembers(sess[s], db, minted, tx) => Remembers(sess[s], db', minted, tx)
    BY <1>8 DEF Remembers
  <2>2. QED
    BY <1>2, <2>1 DEF IInv, SessOK
<1>17. QED
  BY <1>10, <1>11, <1>12, <1>13, <1>14, <1>15, <1>16 DEF IInv

LEMMA SetLimitInv == ASSUME IInv, SetLimit PROVE IInv'
<1>1. PICK n \in Limits : db' = [db EXCEPT !.limit = n]
  BY DEF SetLimit
<1>2. UNCHANGED <<seq, minted, tx, sess, unseen>>
  BY DEF SetLimit
<1>3. db' \in Database /\ db'.rows = db.rows /\ db'.ops = db.ops /\ db'.log = db.log
  BY <1>1, ConstantsOK DEF IInv, TypeOK, Database
<1>4. TypeOK' /\ Locks' /\ OpsDistinct' /\ Committed' /\ LogTruth'
  BY <1>2, <1>3 DEF IInv, TypeOK, Locks, OpsDistinct, Committed, Exists, LogTruth, Newest
<1>5. \A c \in Clients : TxOK(tx'[c], db', seq', minted')
  BY <1>2, <1>3 DEF IInv, TxOK, Fresh, Exists
<1>6. \A s \in Sessions : SessOK(s)'
  BY <1>2, <1>3 DEF IInv, SessOK, Remembers, Exists
<1>7. QED
  BY <1>2, <1>4, <1>5, <1>6 DEF IInv

-----------------------------------------------------------------------------
(* The invariant, and what follows from it.                                 *)

LEMMA InitInv == Init => IInv
<1> SUFFICES ASSUME Init PROVE IInv
  OBVIOUS
<1>1. PICK rows \in [Slots -> Content], limit \in Limits :
        db = [rows |-> rows, ops |-> [o \in OpIds |-> NoOp], log |-> {}, limit |-> limit]
  BY DEF Init
<1>2. /\ seq = 0 /\ minted = 0 /\ unseen = {} /\ tx = [c \in Clients |-> NoTx]
      /\ sess = [s \in Sessions |-> Idle]
  BY DEF Init
<1>3. db \in Database
  BY <1>1, NullsTyped, ConstantsOK DEF Database
<1>4. TypeOK
  BY <1>2, <1>3, NullsTyped, ConstantsOK DEF TypeOK
<1>5. NoTx = Begun("external", 0) /\ 0 \in 0 .. MaxOps
  BY ConstantsOK DEF NoTx
<1>6. /\ NoTx.op = 0 /\ NoTx.source = "external" /\ \A x \in Slots : NoTx.held[x] = 0
      /\ \A d, n, m : m \in Nat => TxOK(NoTx, d, n, m)
  BY <1>5, BegunTyped
<1>7. Locks /\ OpsDistinct
  BY <1>2, <1>6 DEF Locks, OpsDistinct, Key
<1>8. NoOp.source = "none" /\ ~NoOp.undone
  BY DEF NoOp
<1>9. Committed /\ LogTruth
  BY <1>1, <1>8 DEF Committed, Exists, LogTruth
<1>10. \A c \in Clients : TxOK(tx[c], db, seq, minted)
  BY <1>2, <1>6
<1>11. \A c \in Outsiders : tx[c].source = "external"
  BY <1>2, <1>6 DEF Clients
<1>12. \A s \in Sessions : SessOK(s)
  BY <1>2 DEF SessOK, Idle, Clients
<1>13. QED
  BY <1>4, <1>7, <1>9, <1>10, <1>11, <1>12 DEF IInv

LEMMA StutterInv == ASSUME IInv, UNCHANGED vars PROVE IInv'
<1> USE DEF vars
<1>1. TypeOK' /\ Locks' /\ OpsDistinct' /\ Committed' /\ LogTruth'
  BY DEF IInv, TypeOK, Locks, OpsDistinct, Committed, Exists, LogTruth, Newest
<1>2. \A s \in Sessions : SessOK(s)'
  BY DEF IInv, SessOK
<1>3. QED
  BY <1>1, <1>2 DEF IInv

LEMMA SessionStepInv == ASSUME IInv, NEW s \in Sessions, SessionStep(s) PROVE IInv'
<1>1. UndoFail(s) => IInv'
  BY SessionAt, AbandonInv DEF UndoFail
<1>2. QED
  BY <1>1, ExecBeginInv, ReadOperationInv, ReadChangesInv, LiveRowsInv, ReportInv, UndoBeginInv,
     ApplyNextInv, PutOffInv, NextRoundInv, UndoCommitInv DEF SessionStep

LEMMA NextInv == ASSUME IInv, [Next]_vars PROVE IInv'
<1>1. ASSUME NEW c \in Clients, UserWrite(c) \/ Commit(c) \/ Abandon(c) PROVE IInv'
  BY <1>1, UserWriteInv, CommitInv, AbandonInv DEF Abandon
<1>2. QED
  BY <1>1, SessionStepInv, PurgeInv, SetLimitInv, StutterInv DEF Next

THEOREM Inductive == Spec => []IInv
<1>1. IInv /\ [Next]_vars => IInv'
  BY NextInv
<1>2. QED
  BY <1>1, InitInv, PTL DEF Spec

\* What is committed, the transactions and the sessions keep their shapes.
THEOREM TypeCorrect == Spec => []TypeOK
<1>1. IInv => TypeOK
  BY DEF IInv
<1>2. QED
  BY <1>1, Inductive, PTL

\* LogTruth holds for any number of transactions in any order: the newest image
\* of a row is the row, unless it was last written uncounted.
THEOREM LogIsTrue == Spec => []LogTruth
<1>1. IInv => LogTruth
  BY DEF IInv
<1>2. QED
  BY <1>1, Inductive, PTL

\* UndoneWasWhole: an operation that is not capped has all its images, however
\* the limit is changed in its transaction, and no capped one is ever undone.
THEOREM WholeUndos == Spec => []UndoneWasWhole
<1>1. IInv => UndoneWasWhole
  BY DEF IInv, UndoneWasWhole, TxOK, Whole, Committed
<1>2. QED
  BY <1>1, Inductive, PTL

\* A commit adds one new operation to the log, credited to who committed it.
LEMMA CommitsAttribute ==
  ASSUME IInv, NEW c \in Clients, NEW ops, Marks(ops), Commits(c, ops), NEW e \in db'.log \ db.log
  PROVE  /\ ~Exists(db, e.op)
         /\ \A f \in db'.log \ db.log : f.op = e.op
         /\ db'.ops[e.op].source = "ctrlz" <=> \E s \in Sessions : tx[s].op = e.op
<1> USE DEF Clients
<1>1. /\ db'.log = db.log \cup tx[c].log
      /\ \A o \in OpIds : db'.ops[o] = IF o = tx[c].op THEN tx[c].row ELSE ops[o]
  BY CommitsWhat
<1>2. tx[c] \in Transaction /\ TxOK(tx[c], db, seq, minted)
  BY DEF IInv, TypeOK
<1>3. \A f \in db'.log \ db.log : f.op = tx[c].op
  BY <1>1, <1>2 DEF TxOK, Fresh
<1>4. e \in tx[c].log /\ e.op = tx[c].op
  BY <1>1, <1>3
<1>5. tx[c].op # 0 /\ tx[c].op \in OpIds
  BY <1>2, <1>4, ConstantsOK DEF TxOK, Fresh, Transaction, OpIds
<1>6. ~Exists(db, tx[c].op) /\ tx[c].row.source = tx[c].source
  BY <1>2, <1>5 DEF TxOK, Fresh
<1>7. db'.ops[e.op].source = tx[c].source
  BY <1>1, <1>4, <1>5, <1>6
<1>8. c \in Sessions => tx[c].source = "ctrlz"
  <2>1. ASSUME c \in Sessions PROVE tx[c].source = "ctrlz"
    <3>1. SessOK(c) /\ sess[c] \in Session
      BY <2>1 DEF IInv, TypeOK
    <3>2. NoTx.op = 0
      BY DEF NoTx, Begun
    <3>3. QED
      BY <1>5, <3>1, <3>2 DEF SessOK, Session
  <2>2. QED
    BY <2>1
<1>9. c \in Outsiders => tx[c].source = "external"
  BY DEF IInv
<1>10. \A s \in Sessions : tx[s].op = tx[c].op => s = c
  BY <1>5 DEF IInv, OpsDistinct
<1>11. QED
  BY <1>3, <1>4, <1>6, <1>7, <1>8, <1>9, <1>10

Attributed(e) ==
  /\ ~Exists(db, e.op)
  /\ \A f \in db'.log \ db.log : f.op = e.op
  /\ db'.ops[e.op].source = "ctrlz" <=> \E s \in Sessions : tx[s].op = e.op

\* Everything but a commit leaves the log alone, or takes from it.
LEMMA StepAttributes ==
  ASSUME IInv, [Next]_vars, NEW e \in db'.log \ db.log
  PROVE  Attributed(e)
<1>1. ASSUME NEW c \in Clients, Commit(c) PROVE Attributed(e)
  <2>1. Marks(db.ops)
    BY DEF Marks, IInv, TypeOK, Database, Committed
  <2>2. QED
    BY <1>1, <2>1, CommitsAttribute DEF Commit, Attributed
<1>2. ASSUME NEW s \in Sessions, UndoCommit(s) PROVE Attributed(e)
  BY <1>2, SessionAt, MarkedMarks, CommitsAttribute DEF UndoCommit, RoundOver, Attributed
<1>3. ASSUME Purge PROVE FALSE
  <2>1. PICK k \in 2 .. MaxOps + 1 : db' = Purged(k)
    BY <1>3 DEF Purge
  <2>2. db'.log = {c \in db.log : c.op >= k}
    BY <2>1 DEF Purged, IInv, TypeOK, Database
  <2>3. QED
    BY <2>2
<1>4. ASSUME SetLimit PROVE FALSE
  BY <1>4 DEF SetLimit, IInv, TypeOK, Database
<1>5. ASSUME NEW c \in Clients, UserWrite(c) \/ Abandon(c) PROVE FALSE
  BY <1>5 DEF UserWrite, Abandon
<1>6. ASSUME NEW s \in Sessions, SessionStep(s), ~UndoCommit(s) PROVE FALSE
  BY <1>6 DEF SessionStep, ExecBegin, ReadOperation, ReadChanges, LiveRows, Report, UndoBegin,
     ApplyNext, PutOff, NextRound, UndoFail
<1>7. CASE UNCHANGED vars
  BY <1>7 DEF vars
<1>8. QED
  BY <1>1, <1>2, <1>3, <1>4, <1>5, <1>6, <1>7 DEF Next

\* OperationsAreTransactions: what a commit adds is one operation, new, and
\* ctrlz's exactly if a session of ctrlz committed it.
THEOREM Attribution == Spec => OperationsAreTransactions
<1>1. IInv /\ [Next]_vars =>
        [\A c \in db'.log \ db.log :
           /\ ~Exists(db, c.op)
           /\ \A e \in db'.log \ db.log : e.op = c.op
           /\ db'.ops[c.op].source = "ctrlz" <=> \E s \in Sessions : tx[s].op = c.op]_vars
  BY StepAttributes DEF Attributed
<1>2. QED
  BY <1>1, Inductive, PTL DEF Spec, OperationsAreTransactions

-----------------------------------------------------------------------------
(* The contract of the change log's followers: what each step does to the   *)
(* log, to the headers and to the numbers that transactions still hold.     *)

\* A transaction holds numbers of its own, and only a row that is there is
\* marked undone.
Numbered ==
  /\ \A c \in Clients : \A e \in tx[c].log : e.seq \in 1 .. seq
  /\ \A c, d \in Clients : \A e \in tx[c].log, f \in tx[d].log : e.seq = f.seq => c = d
  /\ \A o \in OpIds : db.ops[o].undone => Exists(db, o)

\* Transactions begin, end without a trace, or go on reading.
Quiet ==
  /\ \A c \in Clients : tx'[c].log = tx[c].log \/ tx'[c].log = {}
  /\ seq' = seq /\ db'.log = db.log /\ db'.ops = db.ops

\* One transaction writes a row.
Writing ==
  /\ UNCHANGED db
  /\ \E c \in Clients, s \in Slots, v \in Content, lock \in {Row, Key} :
       Writes(c, s, v, lock, Full(Credited(tx[c])))

\* One commits, and marks at most.
Keeps(ops) ==
  \A o \in OpIds : /\ db.ops[o].undone => ops[o].undone
                   /\ ops[o].undone => db.ops[o].undone \/ Exists(db, o)
Committing == \E c \in Clients : \E ops \in [OpIds -> OpRow] :
                Marks(ops) /\ Keeps(ops) /\ Commits(c, ops)

LEMMA UserWriting == ASSUME IInv, NEW c \in Clients, UserWrite(c) PROVE Writing
<1>1. PICK s \in Slots :
        \/ CanInsert(c, s) /\ \E v \in Vals : Write(c, s, v, Key)
        \/ Seen(c, s) # Absent /\ ~Waits(c, s, Row) /\ \E v \in Vals : Write(c, s, v, Row)
        \/ CanDelete(c, s) /\ Write(c, s, Absent, Key)
  BY DEF UserWrite
<1>2. PICK v \in Content, lock \in {Row, Key} : Write(c, s, v, lock)
  BY <1>1 DEF Content
<1>3. Writes(c, s, v, lock, Full(Credited(tx[c])))
  BY <1>2, WriteWrites
<1>4. QED
  BY <1>3 DEF Writing, UserWrite

LEMMA InverseWriting == ASSUME IInv, NEW s \in Sessions, ApplyNext(s) PROVE Writing \/ Quiet
<1>1. PICK v \in sess[s].verdicts : ApplyInverse(s, v) /\ UNCHANGED db
  BY DEF ApplyNext
<1> DEFINE c == v.change
<1>2. c.slot \in Slots /\ c.before \in Content /\ Absent \in Content /\ s \in Clients
  BY <1>1, SessionAt DEF Session, Verdict, Entry, Content
<1>3. CASE ~IsDelete(c) /\ ~Matches(s, v) /\ UNCHANGED <<seq, minted, tx>>
  BY <1>1, <1>3 DEF Quiet
<1>4. CASE \E w \in Content, lock \in {Row, Key} : Write(s, c.slot, w, lock)
  BY <1>1, <1>2, <1>4, WriteWrites DEF Writing
<1>5. QED
  BY <1>1, <1>2, <1>3, <1>4 DEF ApplyInverse

LEMMA EndedQuiet ==
  ASSUME IInv, NEW c \in Clients, Ended(c), UNCHANGED <<db, seq>> PROVE Quiet
<1>1. NoTx.log = {}
  BY DEF NoTx, Begun
<1>2. tx \in [Clients -> Transaction]
  BY DEF IInv, TypeOK
<1>3. QED
  BY <1>1, <1>2 DEF Ended, Quiet

LEMMA BeginQuiet ==
  ASSUME IInv, NEW s \in Sessions, ExecBegin(s) \/ UndoBegin(s) PROVE Quiet
<1>1. PICK o : tx' = [tx EXCEPT ![s] = Begun("ctrlz", o)]
  BY DEF ExecBegin, UndoBegin
<1>2. Begun("ctrlz", o).log = {}
  BY DEF Begun
<1>3. tx \in [Clients -> Transaction] /\ UNCHANGED <<db, seq>>
  BY DEF IInv, TypeOK, ExecBegin, UndoBegin
<1>4. QED
  BY <1>1, <1>2, <1>3 DEF Quiet

LEMMA UserCommitting == ASSUME IInv, NEW c \in Clients, Commit(c) PROVE Committing
<1>1. Marks(db.ops) /\ db.ops \in [OpIds -> OpRow]
  BY DEF Marks, IInv, TypeOK, Database, Committed
<1>2. QED
  BY <1>1 DEF Commit, Committing, Keeps

LEMMA UndoCommitting == ASSUME IInv, NEW s \in Sessions, UndoCommit(s) PROVE Committing
<1> DEFINE o == sess[s].op
           ops == MarkedUndone(o, tx[s].op)
<1>1. sess[s].pc = "applying" /\ s \in Clients /\ Commits(s, ops)
  BY SessionAt DEF UndoCommit, RoundOver
<1>2. Marks(ops)
  BY <1>1, MarkedMarks
<1>3. db.ops \in [OpIds -> OpRow]
  BY DEF IInv, TypeOK, Database
<1>4. ops = db.ops \/ (Exists(db, o) /\ \A p \in OpIds \ {o} : ops[p] = db.ops[p])
  BY <1>3 DEF MarkedUndone
<1>5. db.ops[o].undone /\ o \in OpIds => ops[o].undone
  <2>1. CASE ~Exists(db, o)
    BY <2>1 DEF MarkedUndone
  <2>2. CASE Exists(db, o) /\ o \in OpIds
    <3>1. ops = [db.ops EXCEPT ![o].undone = TRUE, ![o].undoneBy = tx[s].op]
      BY <2>2 DEF MarkedUndone
    <3>2. db.ops[o] \in OpRow
      BY <1>3, <2>2
    <3>3. QED
      BY <1>3, <2>2, <3>1, <3>2 DEF OpRow
  <2>3. QED
    BY <2>1, <2>2
<1> HIDE DEF ops
<1>6. Keeps(ops)
  BY <1>4, <1>5 DEF Keeps
<1>7. QED
  BY <1>1, <1>2, <1>6 DEF Committing, Marks

\* Every step is one of these, or a purge.
LEMMA StepKinds ==
  ASSUME IInv, [Next]_vars PROVE Quiet \/ Writing \/ Committing \/ Purge
<1>1. ASSUME NEW c \in Clients, UserWrite(c) \/ Commit(c) \/ Abandon(c)
      PROVE  Quiet \/ Writing \/ Committing
  BY <1>1, UserWriting, UserCommitting, EndedQuiet DEF Abandon
<1>2. ASSUME NEW s \in Sessions, UNCHANGED <<db, seq, minted, tx, unseen>> PROVE Quiet
  BY <1>2 DEF Quiet
<1>3. ASSUME NEW s \in Sessions, SessionStep(s) PROVE Quiet \/ Writing \/ Committing
  <2>1. UndoFail(s) => Quiet
    BY SessionAt, EndedQuiet DEF UndoFail
  <2>2. ReadOperation(s) \/ ReadChanges(s) \/ LiveRows(s) \/ Report(s) \/ PutOff(s) \/ NextRound(s)
          => UNCHANGED <<db, seq, minted, tx, unseen>>
    BY DEF ReadOperation, ReadChanges, LiveRows, Report, PutOff, NextRound
  <2>3. QED
    BY <1>2, <1>3, <2>1, <2>2, BeginQuiet, InverseWriting, UndoCommitting DEF SessionStep
<1>4. SetLimit => Quiet
  BY DEF SetLimit, Quiet, IInv, TypeOK, Database
<1>5. UNCHANGED vars => Quiet
  BY DEF vars, Quiet
<1>6. QED
  BY <1>1, <1>3, <1>4, <1>5 DEF Next

LEMMA LogsTyped ==
  ASSUME IInv
  PROVE  /\ seq \in Nat /\ db \in Database /\ db.ops \in [OpIds -> OpRow] /\ db.log \in SUBSET Entry
         /\ tx \in [Clients -> Transaction]
         /\ \A c \in Clients : tx[c].log \in SUBSET Entry
BY DEF IInv, TypeOK, Database, Transaction

LEMMA QuietNumbers ==
  ASSUME IInv, Numbered, Quiet
  PROVE  Numbered' /\ Spent \subseteq Spent'
<1>1. \A c \in Clients : tx'[c].log \subseteq tx[c].log
  BY DEF Quiet
<1>2. Numbered'
  BY <1>1 DEF Numbered, Quiet, Exists
<1>3. QED
  BY <1>1, <1>2 DEF Spent, Quiet

\* The number of a new image is held by the transaction that drew it.
LEMMA WritingNumbers ==
  ASSUME IInv, Numbered, Writing
  PROVE  Numbered' /\ Spent' = Spent
<1>1. PICK c \in Clients, s \in Slots, v \in Content, lock \in {Row, Key} :
        Writes(c, s, v, lock, Full(Credited(tx[c])))
  BY DEF Writing
<1> DEFINE full == Full(Credited(tx[c]))
           e == Image(tx'[c].op, s, Seen(c, s), v)
<1>2. /\ \A d \in Clients \ {c} : tx'[d] = tx[d]
      /\ seq' = (IF full THEN seq ELSE seq + 1)
      /\ tx'[c].log = (IF full THEN tx[c].log ELSE tx[c].log \cup {e})
  BY <1>1 DEF Writes
<1>3. e.seq = seq + 1 /\ seq \in Nat /\ db' = db
  BY LogsTyped DEF Image, Writing
<1> HIDE DEF full, e
<1>4. CASE full
  <2>1. \A d \in Clients : tx'[d].log = tx[d].log
    BY <1>2, <1>4
  <2>2. seq' = seq
    BY <1>2, <1>4
  <2>3. QED
    BY <1>3, <2>1, <2>2 DEF Numbered, Spent, Exists
<1>5. CASE ~full
  <2>1. seq' = seq + 1 /\ tx'[c].log = tx[c].log \cup {e}
    BY <1>2, <1>5
  <2>2. \A d \in Clients : \A f \in tx'[d].log : f \in tx[d].log \/ (d = c /\ f = e)
    BY <1>2, <2>1
  <2>3. \A d \in Clients : \A f \in tx[d].log : f \in tx'[d].log /\ f.seq \in 1 .. seq
    BY <1>2, <2>1 DEF Numbered
  <2>4. \A d \in Clients : \A f \in tx'[d].log : f.seq \in 1 .. seq'
    BY <1>3, <2>1, <2>2, <2>3
  <2>5. ASSUME NEW a \in Clients, NEW b \in Clients, NEW f \in tx'[a].log, NEW g \in tx'[b].log,
               f.seq = g.seq
        PROVE  a = b
    <3>1. CASE f \in tx[a].log /\ g \in tx[b].log
      BY <2>5, <3>1 DEF Numbered
    <3>2. CASE f \in tx[a].log /\ b = c /\ g = e
      BY <1>3, <2>3, <2>5, <3>2
    <3>3. CASE g \in tx[b].log /\ a = c /\ f = e
      BY <1>3, <2>3, <2>5, <3>3
    <3>4. QED
      BY <2>2, <3>1, <3>2, <3>3
  <2>6. Numbered'
    BY <1>3, <2>4, <2>5 DEF Numbered, Exists
  <2>7. ASSUME NEW n \in Spent PROVE n \in Spent'
    <3>1. n \in 1 .. seq /\ n # seq + 1 /\ n \in 1 .. seq'
      BY <1>3, <2>1 DEF Spent
    <3>2. QED
      BY <1>3, <2>2, <3>1 DEF Spent
  <2>8. ASSUME NEW n \in Spent' PROVE n \in Spent
    <3>1. n \in 1 .. seq + 1 /\ n # seq + 1
      BY <1>3, <2>1 DEF Spent
    <3>2. n \in 1 .. seq
      BY <1>3, <3>1
    <3>3. QED
      BY <2>3, <3>2 DEF Spent
  <2>9. QED
    BY <2>6, <2>7, <2>8
<1>6. QED
  BY <1>4, <1>5

\* A commit gives up the numbers it publishes, and they were nobody else's.
LEMMA CommittingNumbers ==
  ASSUME IInv, Numbered, NEW c \in Clients, NEW ops \in [OpIds -> OpRow],
         Marks(ops), Keeps(ops), Commits(c, ops)
  PROVE  /\ Numbered' /\ Spent \subseteq Spent'
         /\ \A e \in tx[c].log : e.op = tx[c].op /\ e.seq \in Spent' \ Spent
<1>1. /\ db'.log = db.log \cup tx[c].log
      /\ \A o \in OpIds : db'.ops[o] = IF o = tx[c].op THEN tx[c].row ELSE ops[o]
      /\ tx' = [tx EXCEPT ![c] = NoTx] /\ seq' = seq
  BY CommitsWhat
<1>2. tx'[c].log = {} /\ \A d \in Clients \ {c} : tx'[d] = tx[d]
  <2>1. NoTx.log = {}
    BY DEF NoTx, Begun
  <2>2. QED
    BY <1>1, <2>1, LogsTyped
<1>3. Fresh(tx[c], db, seq, minted)
  BY DEF IInv, TxOK
<1>4. \A d \in Clients : \A f \in tx'[d].log : f \in tx[d].log /\ d # c
  BY <1>2
<1>5. ASSUME NEW o \in OpIds, db'.ops[o].undone PROVE Exists(db', o)
  <2>1. CASE o = tx[c].op
    BY <1>1, <1>3, <1>5, <2>1, ConstantsOK DEF Fresh, OpIds
  <2>2. CASE o # tx[c].op
    <3>1. db'.ops[o] = ops[o] /\ ops[o].source = db.ops[o].source
      BY <1>1, <2>2 DEF Marks
    <3>2. Exists(db, o)
      BY <1>5, <3>1 DEF Keeps, Numbered
    <3>3. QED
      BY <3>1, <3>2 DEF Exists
  <2>3. QED
    BY <2>1, <2>2
<1>6. Numbered'
  BY <1>1, <1>4, <1>5 DEF Numbered
<1>7. Spent \subseteq Spent'
  BY <1>1, <1>4 DEF Spent
<1>8. ASSUME NEW e \in tx[c].log PROVE e.op = tx[c].op /\ e.seq \in Spent' \ Spent
  <2>1. e.seq \in 1 .. seq /\ e.seq \notin Spent
    BY DEF Numbered, Spent
  <2>2. \A d \in Clients : \A f \in tx'[d].log : f.seq # e.seq
    BY <1>4 DEF Numbered
  <2>3. QED
    BY <1>1, <1>3, <2>1, <2>2 DEF Fresh, Spent
<1>9. QED
  BY <1>6, <1>7, <1>8

LEMMA PurgeWhat ==
  ASSUME IInv, NEW k \in 2 .. MaxOps + 1, db' = Purged(k)
  PROVE  /\ db'.log = {c \in db.log : c.op >= k}
         /\ \A o \in OpIds : db'.ops[o] = IF o < k THEN NoOp ELSE db.ops[o]
<1> DEFINE ops == [o \in OpIds |-> IF o < k THEN NoOp ELSE db.ops[o]]
           log == {c \in db.log : c.op >= k}
<1>1. db' = [db EXCEPT !.ops = ops, !.log = log]
  BY DEF Purged
<1>2. \A o \in OpIds : ops[o] = IF o < k THEN NoOp ELSE db.ops[o]
  OBVIOUS
<1> HIDE DEF ops, log
<1>3. db'.ops = ops /\ db'.log = log
  BY <1>1, LogsTyped DEF Database
<1>4. QED
  BY <1>2, <1>3 DEF log

LEMMA NumberedNext == ASSUME IInv, Numbered, [Next]_vars PROVE Numbered'
<1>1. CASE Committing
  BY <1>1, CommittingNumbers DEF Committing
<1>2. CASE Purge
  <2>1. PICK k \in 2 .. MaxOps + 1 : db' = Purged(k)
    BY <1>2 DEF Purge
  <2>2. \A o \in OpIds : db'.ops[o] = NoOp \/ db'.ops[o] = db.ops[o]
    BY <2>1, PurgeWhat
  <2>3. UNCHANGED <<seq, tx>> /\ ~NoOp.undone
    BY <1>2 DEF Purge, NoOp
  <2>4. QED
    BY <2>2, <2>3 DEF Numbered, Exists
<1>3. QED
  BY <1>1, <1>2, StepKinds, QuietNumbers, WritingNumbers

-----------------------------------------------------------------------------

\* Whatever is given up without a commit is spent, and shows nothing.
LEMMA QuietPublishes == ASSUME IInv, Numbered, Quiet PROVE Feed!FeedNext
<1>1. Readable' = Readable /\ Undone' = Undone
  BY DEF Quiet, Readable, Undone
<1>2. Spent \subseteq Spent'
  BY QuietNumbers
<1>3. 0 \in 0 .. MaxOps /\ 0 \notin Undone
  BY ConstantsOK DEF Undone, OpIds
<1>4. Feed!Publish(0, {}, {}, Spent' \ Spent)
  BY <1>1, <1>2, <1>3 DEF Feed!Publish
<1>5. Readable' \ Readable = {} /\ Undone' \ Undone = {}
  BY <1>1
<1>6. Feed!Publish(0, Readable' \ Readable, Undone' \ Undone, Spent' \ Spent)
  BY <1>4, <1>5
<1>7. QED
  BY <1>3, <1>6 DEF Feed!FeedNext

LEMMA WritingStutters == ASSUME IInv, Numbered, Writing PROVE UNCHANGED Feed!feed
<1>1. Readable' = Readable /\ Undone' = Undone
  BY DEF Writing, Readable, Undone
<1>2. QED
  BY <1>1, WritingNumbers DEF Feed!feed

LEMMA CommitPublishes ==
  ASSUME IInv, Numbered, NEW c \in Clients, NEW ops \in [OpIds -> OpRow],
         Marks(ops), Keeps(ops), Commits(c, ops)
  PROVE  Feed!FeedNext
<1> DEFINE o     == tx[c].op
           new   == Readable' \ Readable
           marks == Undone' \ Undone
           spent == Spent' \ Spent
<1>1. /\ db'.log = db.log \cup tx[c].log
      /\ \A p \in OpIds : db'.ops[p] = IF p = o THEN tx[c].row ELSE ops[p]
  BY CommitsWhat
<1>2. Fresh(tx[c], db, seq, minted) /\ o \in 0 .. MaxOps
  BY DEF IInv, TypeOK, TxOK, Transaction
<1>3. Spent \subseteq Spent' /\ \A e \in tx[c].log : e.op = o /\ e.seq \in spent
  BY CommittingNumbers
<1>4. Readable \subseteq Readable'
  BY <1>1 DEF Readable
<1>5. o \notin Undone /\ o \notin Undone'
  BY <1>1, <1>2, ConstantsOK DEF Undone, OpIds, Fresh, Numbered
<1>6. Undone \subseteq Undone'
  <2> SUFFICES ASSUME NEW p \in OpIds, db.ops[p].undone PROVE db'.ops[p].undone
    BY DEF Undone
  <2>1. p # o
    BY <1>5 DEF Undone
  <2>2. QED
    BY <1>1, <2>1 DEF Keeps
<1>7. \A e \in new : \E f \in tx[c].log : e = [seq |-> f.seq, op |-> f.op]
  BY <1>1 DEF Readable
<1>8. \A e \in new : e.op = o /\ e.seq \in spent
  BY <1>3, <1>7
<1>9. \A e, f \in new : e.seq = f.seq => e = f
  BY <1>3, <1>7
<1> HIDE DEF new, marks, spent
<1>10. /\ Readable' = Readable \cup new /\ Undone' = Undone \cup marks
       /\ Spent' = Spent \cup spent /\ spent \cap Spent = {} /\ marks \cap Undone = {}
       /\ o \notin Undone \cup marks
  BY <1>3, <1>4, <1>5, <1>6 DEF new, marks, spent
<1>11. Feed!Publish(o, new, marks, spent)
  BY <1>8, <1>9, <1>10 DEF Feed!Publish
<1>12. QED
  BY <1>2, <1>11 DEF Feed!FeedNext, new, marks, spent

LEMMA PurgeForgets == ASSUME IInv, Purge PROVE Feed!FeedNext
<1>1. PICK k \in 2 .. MaxOps + 1 : db' = Purged(k)
  BY DEF Purge
<1> DEFINE gone == 1 .. (k - 1)
<1>2. /\ db'.log = {c \in db.log : c.op >= k}
      /\ \A o \in OpIds : db'.ops[o] = IF o < k THEN NoOp ELSE db.ops[o]
  BY <1>1, PurgeWhat
<1>3. k \in Nat /\ MaxOps \in Nat /\ \A c \in db.log : c.op \in OpIds
  BY ConstantsOK, LogsTyped DEF Entry
<1>4. \A o \in OpIds : o < k <=> o \in gone
  BY <1>3 DEF OpIds
<1>5. gone \in SUBSET (0 .. MaxOps)
  BY <1>3
<1>6. \A c \in db.log : c \in db'.log <=> c.op \notin gone
  BY <1>2, <1>3, <1>4 DEF OpIds
<1>7. \A o \in OpIds : db'.ops[o].undone <=> db.ops[o].undone /\ o \notin gone
  BY <1>2, <1>4 DEF NoOp
<1>8. db'.log \subseteq db.log
  BY <1>2
<1> HIDE DEF gone
<1>9. Readable' = {e \in Readable : e.op \notin gone}
  BY <1>6, <1>8 DEF Readable
<1>10. Undone' = Undone \ gone
  BY <1>7 DEF Undone
<1>11. Spent' = Spent
  BY DEF Purge, Spent
<1>12. Feed!Forget(gone)
  BY <1>9, <1>10, <1>11 DEF Feed!Forget
<1>13. QED
  BY <1>5, <1>12 DEF Feed!FeedNext

LEMMA StepServes ==
  ASSUME IInv, Numbered, [Next]_vars PROVE [Feed!FeedNext]_(Feed!feed)
<1>1. CASE Committing
  BY <1>1, CommitPublishes DEF Committing
<1>2. QED
  BY <1>1, StepKinds, QuietPublishes, WritingStutters, PurgeForgets

\* PostgreSQL keeps the contract of the change log's followers too, only not in
\* order: numbers are used once, an undone operation is closed and stays undone,
\* changes go only with their whole operation, for any number of transactions
\* open at once, committed in any order or abandoned, and for purges in between.
THEOREM ImplementsFeed == Spec => ServesFeed
<1>1. Init => Numbered /\ Feed!FeedInit
  <2> SUFFICES ASSUME Init PROVE Numbered /\ Feed!FeedInit
    OBVIOUS
  <2>1. db.log = {} /\ db.ops = [o \in OpIds |-> NoOp] /\ seq = 0 /\ tx = [c \in Clients |-> NoTx]
    BY DEF Init
  <2>2. NoTx.log = {} /\ ~NoOp.undone
    BY DEF NoTx, Begun, NoOp
  <2>3. \A c \in Clients : tx[c].log = {}
    BY <2>1, <2>2
  <2>4. Readable = {} /\ Undone = {} /\ Spent = {}
    BY <2>1, <2>2 DEF Readable, Undone, Spent
  <2>5. QED
    BY <2>1, <2>2, <2>3, <2>4 DEF Numbered, Feed!FeedInit
<1>2. IInv /\ Numbered /\ [Next]_vars => Numbered'
  BY NumberedNext
<1>3. IInv /\ Numbered /\ [Next]_vars => [Feed!FeedNext]_(Feed!feed)
  BY StepServes
<1>4. QED
  BY <1>1, <1>2, <1>3, Inductive, PTL DEF Spec, ServesFeed, Feed!FeedSpec

-----------------------------------------------------------------------------
(* An undo that nobody forced moves its operation's rows only.              *)

\* A row it has written holds, in what is committed, what the operation left.
MovesOwnRows(s) ==
  \A x \in Slots : Wrote(tx[s], x) => \E c \in sess[s].changes : c.slot = x /\ c.after = db.rows[x]

CarefulAt(s) ==
  /\ \A v \in sess[s].verdicts \cup sess[s].deferred : v.change \in sess[s].changes
  /\ sess[s].pc # "applying" => sess[s].deferred = {}
  /\ sess[s].pc \in {"idle", "running", "reading"} => sess[s].verdicts = {}
  /\ sess[s].pc = "applying" /\ ~sess[s].forced =>
       /\ \A v \in sess[s].verdicts \cup sess[s].deferred : v.status = "clean"
       /\ MovesOwnRows(s)

Careful == \A s \in Sessions : CarefulAt(s)

\* Whoever else commits: not those rows, which the undo has locked.
LEMMA CommitsMissLocked ==
  ASSUME IInv, NEW c \in Clients, NEW ops, Marks(ops), Commits(c, ops),
         NEW d \in Clients, d # c, NEW x \in Slots, Wrote(tx[d], x)
  PROVE  db'.rows[x] = db.rows[x]
<1>1. tx[c].held[x] + tx[d].held[x] <= Key
  BY DEF IInv, Locks
<1>2. tx[c].held[x] \in 0 .. 3 /\ tx[d].held[x] \in 0 .. 3
  BY DEF IInv, TypeOK, Transaction, None, Key
<1>3. ~Wrote(tx[c], x)
  BY <1>1, <1>2 DEF Wrote, Row, Key
<1>4. db'.rows[x] = Seen(c, x)
  BY CommitsWhat
<1>5. QED
  BY <1>3, <1>4 DEF Seen

LEMMA OthersCareful ==
  ASSUME NEW s \in Sessions, CarefulAt(s), sess'[s] = sess[s], tx'[s] = tx[s],
         \A x \in Slots : Wrote(tx[s], x) => db'.rows[x] = db.rows[x]
  PROVE  CarefulAt(s)'
BY DEF CarefulAt, MovesOwnRows

LEMMA IdleCareful ==
  ASSUME NEW s \in Sessions, sess'[s] = Idle
  PROVE  CarefulAt(s)'
BY DEF CarefulAt, Idle

\* The steps in which a session reads and decides, or puts a row off.
LEMMA OnwardCareful ==
  ASSUME IInv, NEW s \in Sessions, CarefulAt(s), NEW r, sess' = [sess EXCEPT ![s] = r],
         UNCHANGED <<db, tx>>,
         \A v \in r.verdicts \cup r.deferred : v.change \in r.changes,
         r.pc # "applying" => r.deferred = {},
         r.pc \in {"idle", "running", "reading"} => r.verdicts = {},
         r.pc = "applying" => /\ sess[s].pc = "applying" /\ r.forced = sess[s].forced
                              /\ r.changes = sess[s].changes
                              /\ r.verdicts \cup r.deferred \subseteq sess[s].verdicts \cup sess[s].deferred
  PROVE  Careful => Careful'
<1>1. sess'[s] = r /\ \A k \in Sessions \ {s} : sess'[k] = sess[k]
  BY SessionAt
<1>2. r.pc = "applying" /\ ~r.forced =>
        /\ \A v \in r.verdicts \cup r.deferred : v.status = "clean"
        /\ \A x \in Slots : Wrote(tx[s], x) => \E c \in r.changes : c.slot = x /\ c.after = db.rows[x]
  BY DEF CarefulAt, MovesOwnRows
<1>3. CarefulAt(s)'
  BY <1>1, <1>2 DEF CarefulAt, MovesOwnRows
<1>4. ASSUME Careful, NEW k \in Sessions PROVE CarefulAt(k)'
  BY <1>1, <1>3, <1>4, OthersCareful DEF Careful
<1>5. QED
  BY <1>4 DEF Careful

LEMMA ReadingCareful ==
  ASSUME IInv, Careful, NEW s \in Sessions,
         ReadOperation(s) \/ ReadChanges(s) \/ LiveRows(s) \/ Report(s) \/ PutOff(s) \/ NextRound(s)
  PROVE  Careful'
<1>1. CarefulAt(s) /\ sess[s] \in Session
  BY SessionAt DEF Careful
<1>2. UNCHANGED <<db, tx>>
  BY DEF ReadOperation, ReadChanges, LiveRows, Report, PutOff, NextRound
<1>3. CASE ReadOperation(s)
  <2>1. PICK o \in OpIds :
          sess' = [sess EXCEPT ![s] = [Idle EXCEPT !.pc = "reading", !.op = o,
                      !.capped = db.ops[o].capped, !.undone = db.ops[o].undone]]
    BY <1>3 DEF ReadOperation
  <2> DEFINE r == [Idle EXCEPT !.pc = "reading", !.op = o,
                      !.capped = db.ops[o].capped, !.undone = db.ops[o].undone]
  <2>2. r.pc = "reading" /\ r.verdicts = {} /\ r.deferred = {}
    BY DEF Idle
  <2>3. sess' = [sess EXCEPT ![s] = r]
    BY <2>1
  <2> HIDE DEF r
  <2>4. QED
    BY <1>1, <1>2, <2>2, <2>3, OnwardCareful
<1>4. CASE ReadChanges(s)
  <2> DEFINE r == [sess[s] EXCEPT !.pc = "inspecting", !.changes = ChangesOf(db, sess[s].op)]
  <2>1. sess[s].pc = "reading" /\ sess' = [sess EXCEPT ![s] = r]
    BY <1>4, SessionAt DEF ReadChanges
  <2>2. r.pc = "inspecting" /\ r.verdicts = {} /\ r.deferred = {}
    BY <1>1, <2>1 DEF CarefulAt, Session
  <2> HIDE DEF r
  <2>3. QED
    BY <1>1, <1>2, <2>1, <2>2, OnwardCareful
<1>5. CASE LiveRows(s)
  <2>1. sess[s].pc = "inspecting"
    BY <1>5 DEF LiveRows
  <2>2. PICK c \in Uninspected(s) :
          sess' = [sess EXCEPT ![s].verdicts = @ \cup
               {[change |-> e, status |-> StatusOf(sess[s].changes, e, db.rows[e.slot])] :
                  e \in {f \in sess[s].changes : Table[f.slot] = Table[c.slot]}}]
    BY <1>5 DEF LiveRows
  <2> DEFINE new == {[change |-> e, status |-> StatusOf(sess[s].changes, e, db.rows[e.slot])] :
                       e \in {f \in sess[s].changes : Table[f.slot] = Table[c.slot]}}
             r == [sess[s] EXCEPT !.verdicts = @ \cup new]
  <2>3. \A v \in new : v.change \in sess[s].changes
    OBVIOUS
  <2>4. sess' = [sess EXCEPT ![s] = r]
    BY <2>2, SessionAt
  <2> HIDE DEF new
  <2>5. r.pc = "inspecting" /\ r.deferred = {} /\ r.verdicts = sess[s].verdicts \cup new
        /\ r.changes = sess[s].changes
    BY <1>1, <2>1 DEF CarefulAt, Session
  <2>6. \A v \in r.verdicts \cup r.deferred : v.change \in r.changes
    BY <1>1, <2>3, <2>5 DEF CarefulAt
  <2> HIDE DEF r
  <2>7. QED
    BY <1>1, <1>2, <2>4, <2>5, <2>6, OnwardCareful
<1>6. CASE Report(s)
  <2>1. sess' = [sess EXCEPT ![s] = Idle] /\ Idle.verdicts = {} /\ Idle.deferred = {} /\ Idle.pc = "idle"
    BY <1>6 DEF Report, Idle
  <2>2. QED
    BY <1>1, <1>2, <2>1, OnwardCareful
<1>7. CASE PutOff(s)
  <2>1. PICK v \in sess[s].verdicts :
          /\ NextVerdict(s, v)
          /\ sess' = [sess EXCEPT ![s].verdicts = @ \ {v}, ![s].deferred = @ \cup {v}]
    BY <1>7 DEF PutOff
  <2> DEFINE r == [sess[s] EXCEPT !.verdicts = @ \ {v}, !.deferred = @ \cup {v}]
  <2>2. sess' = [sess EXCEPT ![s] = r] /\ sess[s].pc = "applying"
    BY <2>1, SessionAt DEF NextVerdict
  <2>3. /\ r.pc = "applying" /\ r.forced = sess[s].forced /\ r.changes = sess[s].changes
        /\ r.verdicts \cup r.deferred \subseteq sess[s].verdicts \cup sess[s].deferred
    BY <1>1, <2>1, <2>2 DEF Session
  <2>4. \A u \in r.verdicts \cup r.deferred : u.change \in r.changes
    BY <1>1, <2>3 DEF CarefulAt
  <2> HIDE DEF r
  <2>5. QED
    BY <1>1, <1>2, <2>2, <2>3, <2>4, OnwardCareful
<1>8. CASE NextRound(s)
  <2> DEFINE r == [sess[s] EXCEPT !.verdicts = sess[s].deferred, !.deferred = {}, !.progress = FALSE]
  <2>1. sess' = [sess EXCEPT ![s] = r] /\ sess[s].pc = "applying"
    BY <1>8, SessionAt DEF NextRound, RoundOver
  <2>2. /\ r.pc = "applying" /\ r.forced = sess[s].forced /\ r.changes = sess[s].changes
        /\ r.verdicts \cup r.deferred \subseteq sess[s].verdicts \cup sess[s].deferred
    BY <1>1, <2>1 DEF Session
  <2>3. \A u \in r.verdicts \cup r.deferred : u.change \in r.changes
    BY <1>1, <2>2 DEF CarefulAt
  <2> HIDE DEF r
  <2>4. QED
    BY <1>1, <1>2, <2>1, <2>2, <2>3, OnwardCareful
<1>9. QED
  BY <1>3, <1>4, <1>5, <1>6, <1>7, <1>8

\* A session of its own, and nobody else's row, in the hands of one that begins,
\* writes for a user, ends or commits.
LEMMA AwayCareful ==
  ASSUME IInv, Careful, NEW c \in Clients,
         \A k \in Sessions \ {c} : sess'[k] = sess[k] /\ tx'[k] = tx[k],
         \A k \in Sessions \ {c} : \A x \in Slots : Wrote(tx[k], x) => db'.rows[x] = db.rows[x],
         c \in Sessions => CarefulAt(c)'
  PROVE  Careful'
<1>1. ASSUME NEW k \in Sessions \ {c} PROVE CarefulAt(k)'
  BY <1>1, OthersCareful DEF Careful
<1>2. QED
  BY <1>1 DEF Careful

LEMMA EndsCareful ==
  ASSUME IInv, Careful, NEW c \in Clients, Ended(c), Returns(c),
         \A k \in Sessions \ {c} : \A x \in Slots : Wrote(tx[k], x) => db'.rows[x] = db.rows[x]
  PROVE  Careful'
<1>1. sess \in [Sessions -> Session] /\ tx \in [Clients -> Transaction]
  BY DEF IInv, TypeOK
<1>2. /\ \A k \in Sessions \ {c} : sess'[k] = sess[k] /\ tx'[k] = tx[k]
      /\ c \in Sessions => sess'[c] = Idle
  BY <1>1 DEF Ended, Returns, Clients
<1>3. QED
  BY <1>2, AwayCareful, IdleCareful

LEMMA CommitsCareful ==
  ASSUME IInv, Careful, NEW c \in Clients, NEW ops, Marks(ops), Commits(c, ops), Returns(c)
  PROVE  Careful'
<1>1. Ended(c)
  BY DEF Commits
<1>2. \A k \in Sessions \ {c} : \A x \in Slots : Wrote(tx[k], x) => db'.rows[x] = db.rows[x]
  BY CommitsMissLocked DEF Clients
<1>3. QED
  BY <1>1, <1>2, EndsCareful

LEMMA BeginCareful ==
  ASSUME IInv, Careful, NEW s \in Sessions, ExecBegin(s) \/ UndoBegin(s)
  PROVE  Careful'
<1>1. /\ s \in Clients /\ sess \in [Sessions -> Session] /\ sess[s] \in Session /\ CarefulAt(s)
      /\ tx \in [Clients -> Transaction]
  BY SessionAt DEF IInv, TypeOK, Careful
<1>2. PICK o \in 0 .. MaxOps : tx' = [tx EXCEPT ![s] = Begun("ctrlz", o)]
  <2>1. 0 \in 0 .. MaxOps /\ sess[s].op \in 0 .. MaxOps
    BY <1>1, ConstantsOK DEF Session
  <2>2. CASE ExecBegin(s)
    BY <2>1, <2>2 DEF ExecBegin
  <2>3. CASE UndoBegin(s)
    BY <2>1, <2>3 DEF UndoBegin
  <2>4. QED
    BY <2>2, <2>3
<1>3. /\ \A k \in Sessions \ {s} : sess'[k] = sess[k] /\ tx'[k] = tx[k]
      /\ db' = db
  BY <1>1, <1>2 DEF ExecBegin, UndoBegin, Clients
<1>4. \A x \in Slots : ~Wrote(tx'[s], x)
  <2>1. tx'[s] = Begun("ctrlz", o)
    BY <1>1, <1>2
  <2>2. \A x \in Slots : Begun("ctrlz", o).held[x] = 0
    BY BegunTyped
  <2>3. QED
    BY <2>1, <2>2 DEF Wrote, Row
<1>5. CASE ExecBegin(s)
  <2>1. /\ sess[s].pc = "idle" /\ sess'[s].pc = "running" /\ sess'[s].verdicts = sess[s].verdicts
        /\ sess'[s].deferred = sess[s].deferred /\ sess'[s].changes = sess[s].changes
    BY <1>1, <1>5 DEF ExecBegin, Session
  <2>2. CarefulAt(s)'
    BY <1>1, <2>1 DEF CarefulAt
  <2>3. QED
    BY <1>1, <1>3, <2>2, AwayCareful
<1>6. CASE UndoBegin(s)
  <2> DEFINE forced == Conflicts(s) # {}
             todo == ToInvert(s)
             tables == {Table[v.change.slot] : v \in todo}
  <2>1. sess' = [sess EXCEPT ![s].pc = "applying", ![s].forced = forced, ![s].verdicts = todo,
                             ![s].tables = tables]
        /\ sess[s].pc = "inspecting"
    BY <1>6 DEF UndoBegin, Assessed
  <2>2. todo \subseteq sess[s].verdicts /\ (~forced => \A v \in todo : v.status = "clean")
    BY DEF ToInvert, Conflicts
  <2> HIDE DEF forced, todo, tables
  <2>3. /\ sess'[s].pc = "applying" /\ (sess'[s].forced <=> forced) /\ sess'[s].verdicts = todo
        /\ sess'[s].deferred = sess[s].deferred /\ sess'[s].changes = sess[s].changes
    BY <1>1, <2>1 DEF Session
  <2>4. sess'[s].deferred = {} /\ \A v \in todo : v.change \in sess[s].changes
    BY <1>1, <2>1, <2>2, <2>3 DEF CarefulAt
  <2>5. CarefulAt(s)'
    BY <1>4, <2>2, <2>3, <2>4 DEF CarefulAt, MovesOwnRows
  <2>6. QED
    BY <1>1, <1>3, <2>5, AwayCareful
<1>7. QED
  BY <1>5, <1>6

LEMMA UserWriteCareful ==
  ASSUME IInv, Careful, NEW c \in Clients, UserWrite(c)
  PROVE  Careful'
<1>1. PICK s \in Slots, v \in Content, lock \in {Row, Key} : Write(c, s, v, lock)
  BY DEF UserWrite, Content
<1>2. Writes(c, s, v, lock, Full(Credited(tx[c])))
  BY <1>1, WriteWrites
<1>3. sess' = sess /\ db' = db /\ \A d \in Clients \ {c} : tx'[d] = tx[d]
  BY <1>2 DEF UserWrite, Writes
<1>4. c \in Sessions => CarefulAt(c)'
  <2>1. ASSUME c \in Sessions PROVE CarefulAt(c)'
    <3>1. sess'[c].pc = "running" /\ CarefulAt(c)
      BY <1>3, <2>1 DEF UserWrite, Running, Careful
    <3>2. QED
      BY <1>3, <3>1 DEF CarefulAt
  <2>2. QED
    BY <2>1
<1>5. QED
  BY <1>3, <1>4, AwayCareful DEF Clients

LEMMA ApplyNextCareful ==
  ASSUME IInv, Careful, NEW s \in Sessions, ApplyNext(s)
  PROVE  Careful'
<1>1. PICK v \in sess[s].verdicts :
        /\ NextVerdict(s, v) /\ ApplyInverse(s, v)
        /\ sess' = [sess EXCEPT ![s].verdicts = @ \ {v}, ![s].progress = TRUE]
  BY DEF ApplyNext
<1> DEFINE r == [sess[s] EXCEPT !.verdicts = @ \ {v}, !.progress = TRUE]
           c == v.change
<1>2. /\ sess \in [Sessions -> Session] /\ sess[s] \in Session /\ s \in Clients /\ CarefulAt(s)
      /\ sess[s].pc = "applying" /\ db' = db /\ tx \in [Clients -> Transaction]
  BY <1>1, SessionAt DEF NextVerdict, ApplyNext, Careful, IInv, TypeOK
<1>3. sess' = [sess EXCEPT ![s] = r]
  BY <1>1, SessionAt
<1>4. /\ r.pc = "applying" /\ r.forced = sess[s].forced /\ r.changes = sess[s].changes
      /\ r.verdicts = sess[s].verdicts \ {v} /\ r.deferred = sess[s].deferred
  BY <1>2 DEF Session
<1>5. c \in sess[s].changes /\ c \in Entry
  BY <1>1, <1>2 DEF CarefulAt, Session, Verdict
<1>6. c.slot \in Slots /\ c.before \in Content /\ Absent \in Content
  BY <1>5 DEF Entry, Content
<1> HIDE DEF r
<1>7. CASE ~IsDelete(c) /\ ~Matches(s, v) /\ UNCHANGED <<seq, minted, tx>>
  <2>1. /\ \A u \in r.verdicts \cup r.deferred : u.change \in r.changes
        /\ r.verdicts \cup r.deferred \subseteq sess[s].verdicts \cup sess[s].deferred
    BY <1>2, <1>4 DEF CarefulAt
  <2>2. QED
    BY <1>2, <1>3, <1>4, <1>7, <2>1, OnwardCareful
<1>8. CASE /\ \E w \in Content, lock \in {Row, Key} : Write(s, c.slot, w, lock)
           /\ (IsDelete(c) /\ Seen(s, c.slot) = Absent) \/ Matches(s, v)
  <2>1. PICK w \in Content, lock \in {Row, Key} : Write(s, c.slot, w, lock)
    BY <1>8
  <2>2. Writes(s, c.slot, w, lock, Full(Credited(tx[s])))
    BY <1>6, <1>2, <2>1, WriteWrites
  <2>3. /\ \A d \in Clients \ {s} : tx'[d] = tx[d]
        /\ \A x \in Slots \ {c.slot} : Wrote(tx'[s], x) <=> Wrote(tx[s], x)
    <3>1. \A d \in Clients \ {s} : tx'[d] = tx[d]
      BY <1>2, <2>2 DEF Writes
    <3>2. \A x \in Slots \ {c.slot} : Wrote(tx'[s], x) <=> Wrote(tx[s], x)
      BY <1>2, <1>6, <2>1, <2>2, WriteHolds
    <3>3. QED
      BY <3>1, <3>2
  <2>4. ASSUME ~sess[s].forced
        PROVE  /\ \A u \in sess[s].verdicts \cup sess[s].deferred : u.status = "clean"
               /\ \A x \in Slots : Wrote(tx'[s], x) =>
                     \E e \in sess[s].changes : e.slot = x /\ e.after = db.rows[x]
    <3>1. /\ \A u \in sess[s].verdicts \cup sess[s].deferred : u.status = "clean"
          /\ MovesOwnRows(s)
      BY <1>2, <2>4 DEF CarefulAt
    <3>2. v.status = "clean"
      BY <1>1, <3>1
    <3>3. Seen(s, c.slot) = c.after
      BY <1>8, <3>2 DEF IsDelete, Matches
    <3>4. \E e \in sess[s].changes : e.slot = c.slot /\ e.after = db.rows[c.slot]
      <4>1. CASE Wrote(tx[s], c.slot)
        BY <1>6, <3>1, <4>1 DEF MovesOwnRows
      <4>2. CASE ~Wrote(tx[s], c.slot)
        BY <1>5, <3>3, <4>2 DEF Seen
      <4>3. QED
        BY <4>1, <4>2
    <3>5. QED
      BY <2>3, <3>1, <3>4 DEF MovesOwnRows
  <2>5. sess'[s] = r /\ \A k \in Sessions \ {s} : sess'[k] = sess[k]
    BY <1>2, <1>3
  <2>6. CarefulAt(s)'
    <3>1. \A u \in sess[s].verdicts \cup sess[s].deferred : u.change \in sess[s].changes
      BY <1>2 DEF CarefulAt
    <3>2. QED
      BY <1>2, <1>4, <2>4, <2>5, <3>1 DEF CarefulAt, MovesOwnRows
  <2>7. QED
    BY <1>2, <2>3, <2>5, <2>6, AwayCareful DEF Clients
<1>9. QED
  BY <1>1, <1>6, <1>7, <1>8 DEF ApplyInverse, CanInsert

LEMMA CarefulNext == ASSUME IInv, Careful, [Next]_vars PROVE Careful'
<1>1. ASSUME NEW c \in Clients, Commit(c) PROVE Careful'
  <2>1. Marks(db.ops)
    BY DEF Marks, IInv, TypeOK, Database, Committed
  <2>2. QED
    BY <1>1, <2>1, CommitsCareful DEF Commit
<1>2. ASSUME NEW c \in Clients, Ended(c), Returns(c), db' = db PROVE Careful'
  BY <1>2, EndsCareful
<1>3. ASSUME NEW s \in Sessions, UndoCommit(s) PROVE Careful'
  BY <1>3, SessionAt, MarkedMarks, CommitsCareful DEF UndoCommit, RoundOver
<1>4. ASSUME NEW s \in Sessions, SessionStep(s) PROVE Careful'
  BY <1>2, <1>3, <1>4, SessionAt, BeginCareful, ReadingCareful, ApplyNextCareful
  DEF SessionStep, UndoFail
<1>5. ASSUME Purge \/ SetLimit \/ UNCHANGED vars PROVE Careful'
  <2>1. db'.rows = db.rows /\ sess' = sess /\ tx' = tx
    BY <1>5 DEF Purge, Purged, SetLimit, vars, IInv, TypeOK, Database
  <2>2. QED
    BY <2>1, OthersCareful DEF Careful
<1>6. QED
  BY <1>1, <1>2, <1>4, <1>5, UserWriteCareful DEF Next, Abandon

LEMMA InitCareful == Init => Careful
BY DEF Init, Careful, CarefulAt, Idle

\* The step at which an undo is committed is its COMMIT.
LEMMA CommitOfUndo ==
  ASSUME IInv, [Next]_vars, NEW s \in Sessions, UndoCommitted(s)
  PROVE  UndoCommit(s)
<1>1. /\ sess[s].pc = "applying" /\ sess'[s].pc = "idle" /\ db' # db /\ sess'[s] # sess[s]
      /\ sess \in [Sessions -> Session]
  BY SessionAt DEF UndoCommitted
<1>2. ASSUME NEW c \in Clients PROVE ~UserWrite(c) /\ ~Abandon(c) /\ ~Commit(c)
  <2>1. ~UserWrite(c) /\ ~Abandon(c)
    BY <1>1 DEF UserWrite, Abandon
  <2>2. Commit(c) => c = s
    BY <1>1 DEF Commit, Returns
  <2>3. QED
    BY <1>1, <2>1, <2>2 DEF Commit, Running
<1>3. ASSUME NEW k \in Sessions, SessionStep(k) PROVE UndoCommit(s)
  <2>1. UndoCommit(k)
    BY <1>1, <1>3 DEF SessionStep, ExecBegin, ReadOperation, ReadChanges, LiveRows, Report,
       UndoBegin, ApplyNext, PutOff, NextRound, UndoFail
  <2>2. k = s
    BY <1>1, <2>1 DEF UndoCommit, Returns
  <2>3. QED
    BY <2>1, <2>2
<1>4. ~Purge /\ ~SetLimit /\ ~UNCHANGED vars
  BY <1>1 DEF Purge, SetLimit, vars
<1>5. QED
  BY <1>2, <1>3, <1>4 DEF Next

\* UndoSparesOthers: of every undo that nobody forced, whatever commits between
\* its reads, beside it and between its rounds, and whichever rows it puts off:
\* the guard in the WHERE clause and the row lock it is evaluated under are
\* enough, under READ COMMITTED (_apply_inverse, engines/postgres.py).
THEOREM OthersAreSpared == Spec => UndoSparesOthers
<1> DEFINE Spared(s) ==
      UndoCommitted(s) /\ ~sess[s].forced =>
         \A x \in Slots : db'.rows[x] # db.rows[x] =>
            \E c \in sess[s].changes : c.slot = x /\ c.after = db.rows[x]
<1>1. ASSUME IInv, Careful, [Next]_vars, NEW s \in Sessions, UndoCommitted(s), ~sess[s].forced
      PROVE  \A x \in Slots : db'.rows[x] # db.rows[x] =>
               \E c \in sess[s].changes : c.slot = x /\ c.after = db.rows[x]
  <2>1. sess[s].pc = "applying" /\ sess'[s].pc = "idle" /\ db' # db /\ s \in Clients
    BY <1>1, SessionAt DEF UndoCommitted
  <2>2. UndoCommit(s)
    BY <1>1, CommitOfUndo
  <2>3. Commits(s, MarkedUndone(sess[s].op, tx[s].op)) /\ Marks(MarkedUndone(sess[s].op, tx[s].op))
    BY <1>1, <2>1, <2>2, MarkedMarks DEF UndoCommit
  <2>4. \A x \in Slots : db'.rows[x] = Seen(s, x)
    BY <1>1, <2>1, <2>3, CommitsWhat
  <2>5. \A x \in Slots : db'.rows[x] # db.rows[x] => Wrote(tx[s], x)
    BY <2>4 DEF Seen
  <2>6. MovesOwnRows(s)
    BY <1>1, <2>1 DEF Careful, CarefulAt
  <2>7. QED
    BY <2>5, <2>6 DEF MovesOwnRows
<1>2. IInv /\ Careful /\ [Next]_vars => [\A s \in Sessions : Spared(s)]_vars
  BY <1>1
<1>3. IInv /\ Careful /\ [Next]_vars => Careful'
  BY CarefulNext
<1>4. Spec => []Careful
  BY <1>3, Inductive, InitCareful, PTL DEF Spec
<1>5. QED
  BY <1>2, <1>4, Inductive, PTL DEF Spec, UndoSparesOthers

-----------------------------------------------------------------------------
(* An undo finds an order.                                                  *)

\* What a transaction sees obeys the foreign keys.
Obeys(c) ==
  \A x \in Slots : Parent[x] # NoSlot /\ Seen(c, x) # Absent => Seen(c, Parent[x]) # Absent

\* It has the strongest lock on what it deleted, and one on the parent of what
\* it inserted.
Keyed(c) ==
  \A x \in Slots : Wrote(tx[c], x) =>
    /\ tx[c].rows[x] = Absent => tx[c].held[x] = Key
    /\ tx[c].rows[x] # Absent /\ db.rows[x] = Absent /\ Parent[x] # NoSlot =>
         tx[c].held[Parent[x]] >= Share

Lawful == RefOK(db.rows) /\ \A c \in Clients : Obeys(c) /\ Keyed(c)

\* The only change of its row in a log.
Once(log, e) == \A f \in log : f.slot = e.slot => f = e

\* Rows written once come after their parents and go before them.
Lineage(log) ==
  \A p, k \in log : Once(log, p) /\ Once(log, k) /\ Parent[k.slot] = p.slot =>
    /\ IsInsert(p) => IsInsert(k) /\ p.seq < k.seq
    /\ IsDelete(k) => ~IsInsert(p) /\ (IsDelete(p) => k.seq < p.seq)

Proper(e) == ~(IsInsert(e) /\ IsDelete(e))

TxLineage(t, d) ==
  /\ \A e \in t.log : Proper(e)
  /\ ~t.row.capped => /\ Lineage(t.log)
                      /\ \A e \in t.log : Once(t.log, e) => e.before = d.rows[e.slot]

LogLineage(d) ==
  /\ \A e \in d.log : Proper(e) /\ Exists(d, e.op)
  /\ \A o \in OpIds : ~d.ops[o].capped => Lineage(ChangesOf(d, o))

Traced == LogLineage(db) /\ \A c \in Clients : TxLineage(tx[c], db)

\* What kept an inverse from its turn, as far as this undo goes.
Hindered(t, c) ==
  IF IsDelete(c)
  THEN /\ Parent[c.slot] # NoSlot
       /\ Wrote(t, Parent[c.slot]) => t.rows[Parent[c.slot]] = Absent
  ELSE \E k \in Slots : Parent[k] = c.slot /\ (Wrote(t, k) => t.rows[k] # Absent)

UndoAt(r, t) ==
  /\ \A x \in Slots : Wrote(t, x) => \E c \in r.changes : c.slot = x /\ c.before = t.rows[x]
  /\ \A v \in r.deferred : IsInsert(v.change) \/ IsDelete(v.change)
  /\ ~r.progress => \A v \in r.deferred : Hindered(t, v.change)

Lined(s) ==
  /\ \A e \in sess[s].changes : Proper(e) /\ e.seq <= seq
  /\ sess[s].pc \in {"inspecting", "applying"} /\ ~sess[s].capped => Lineage(sess[s].changes)
  /\ sess[s].pc = "applying" => UndoAt(sess[s], tx[s])

Ordered ==
  /\ Lawful /\ Traced
  /\ \A s \in Sessions : Lined(s)

\* One write: an insert under its parent, an update, or a delete without children.
Moves(c, s, v, lock) ==
  \/ CanInsert(c, s) /\ v # Absent /\ lock = Key
  \/ Seen(c, s) # Absent /\ v # Absent /\ ~Waits(c, s, Row) /\ lock = Row
  \/ CanDelete(c, s) /\ v = Absent /\ lock = Key

LEMMA EntryParts ==
  ASSUME NEW e \in Entry
  PROVE  e.slot \in Slots /\ e.before \in Content /\ e.after \in Content /\ e.seq \in Nat
BY DEF Entry

LEMMA ViewsTyped ==
  ASSUME IInv, NEW c \in Clients
  PROVE  /\ tx[c] \in Transaction /\ db.rows \in [Slots -> Content]
         /\ tx[c].rows \in [Slots -> Content] /\ tx[c].held \in [Slots -> 0 .. 3]
         /\ Parent \in [Slots -> Slots \cup {NoSlot}] /\ NoSlot \notin Slots
         /\ \A x \in Slots : Seen(c, x) \in Content
BY ConstantsOK DEF IInv, TypeOK, Database, Transaction, None, Key, Seen

\* What the writer sees afterwards.
LEMMA WriteShows ==
  ASSUME IInv, NEW c \in Clients, NEW s \in Slots, NEW v \in Content, NEW lock \in {Row, Key},
         Writes(c, s, v, lock, Full(Credited(tx[c]))), db' = db
  PROVE  \A x \in Slots : Seen(c, x)' = IF x = s THEN v ELSE Seen(c, x)
<1>1. /\ Wrote(tx'[c], s)
      /\ \A x \in Slots \ {s} : Wrote(tx'[c], x) <=> Wrote(tx[c], x)
  BY WriteHolds
<1>2. \A x \in Slots : tx'[c].rows[x] = IF x = s THEN v ELSE tx[c].rows[x]
  BY DEF Writes
<1>3. QED
  BY <1>1, <1>2 DEF Seen

LEMMA OthersSee ==
  ASSUME NEW d \in Clients, tx'[d] = tx[d], db'.rows = db.rows, Obeys(d), Keyed(d)
  PROVE  Obeys(d)' /\ Keyed(d)'
BY DEF Obeys, Keyed, Seen

LEMMA MovesObey ==
  ASSUME IInv, NEW c \in Clients, NEW s \in Slots, NEW v \in Content, NEW lock \in {Row, Key},
         Writes(c, s, v, lock, Full(Credited(tx[c]))), db' = db, Moves(c, s, v, lock), Obeys(c)
  PROVE  Obeys(c)'
<1>1. \A x \in Slots : Seen(c, x)' = IF x = s THEN v ELSE Seen(c, x)
  BY WriteShows
<1>2. \A x \in Slots : Parent[x] # NoSlot => Parent[x] \in Slots
  BY ViewsTyped
<1>3. CASE CanInsert(c, s) /\ v # Absent
  BY <1>1, <1>2, <1>3 DEF Obeys, CanInsert, HasParent
<1>4. CASE Seen(c, s) # Absent /\ v # Absent
  BY <1>1, <1>2, <1>4 DEF Obeys
<1>5. CASE CanDelete(c, s) /\ v = Absent
  BY <1>1, <1>2, <1>5 DEF Obeys, CanDelete, Children
<1>6. QED
  BY <1>3, <1>4, <1>5 DEF Moves

LEMMA MovesKeyed ==
  ASSUME IInv, NEW c \in Clients, NEW s \in Slots, NEW v \in Content, NEW lock \in {Row, Key},
         Writes(c, s, v, lock, Full(Credited(tx[c]))), db' = db, Moves(c, s, v, lock), Keyed(c)
  PROVE  Keyed(c)'
<1>1. /\ Wrote(tx'[c], s)
      /\ \A x \in Slots \ {s} : Wrote(tx'[c], x) <=> Wrote(tx[c], x)
  BY WriteHolds
<1>2. /\ \A x \in Slots : tx'[c].rows[x] = IF x = s THEN v ELSE tx[c].rows[x]
      /\ \A x \in Slots : tx'[c].held[x] =
           IF x = s THEN Stronger(lock, tx[c].held[x])
           ELSE IF x = Parent[s] /\ Seen(c, s) = Absent THEN Stronger(Share, tx[c].held[x])
           ELSE tx[c].held[x]
  BY DEF Writes
<1>3. tx[c].held \in [Slots -> 0 .. 3] /\ \A x \in Slots : Parent[x] # NoSlot => Parent[x] \in Slots
  BY ViewsTyped
<1>4. \A x \in Slots : tx'[c].held[x] >= tx[c].held[x] /\ tx'[c].held[x] \in 0 .. 3
  BY <1>2, <1>3 DEF Stronger, Share, Row, Key
<1>5. \A x \in Slots \ {s} : Wrote(tx'[c], x) =>
        /\ tx'[c].rows[x] = Absent => tx'[c].held[x] = Key
        /\ tx'[c].rows[x] # Absent /\ db'.rows[x] = Absent /\ Parent[x] # NoSlot =>
             tx'[c].held[Parent[x]] >= Share
  <2> SUFFICES ASSUME NEW x \in Slots \ {s}, Wrote(tx'[c], x)
               PROVE  /\ tx'[c].rows[x] = Absent => tx'[c].held[x] = Key
                      /\ tx'[c].rows[x] # Absent /\ db'.rows[x] = Absent /\ Parent[x] # NoSlot =>
                           tx'[c].held[Parent[x]] >= Share
    OBVIOUS
  <2>1. /\ tx[c].rows[x] = Absent => tx[c].held[x] = Key
        /\ tx[c].rows[x] # Absent /\ db.rows[x] = Absent /\ Parent[x] # NoSlot =>
             tx[c].held[Parent[x]] >= Share
    BY <1>1 DEF Keyed
  <2>2. tx'[c].rows[x] = tx[c].rows[x]
    BY <1>2
  <2>3. QED
    BY <1>3, <1>4, <2>1, <2>2 DEF Key, Share
<1>6. v = Absent => tx'[c].held[s] = Key
  BY <1>2, <1>3 DEF Moves, Stronger, Key
<1>7. v # Absent /\ db'.rows[s] = Absent /\ Parent[s] # NoSlot => tx'[c].held[Parent[s]] >= Share
  <2> SUFFICES ASSUME v # Absent, db.rows[s] = Absent, Parent[s] # NoSlot
               PROVE  tx'[c].held[Parent[s]] >= Share
    OBVIOUS
  <2>1. CASE Seen(c, s) = Absent
    BY <1>2, <1>3, <2>1 DEF Stronger, Share, Row, Key
  <2>2. CASE Seen(c, s) # Absent
    <3>1. Wrote(tx[c], s) /\ tx[c].rows[s] # Absent
      BY <2>2 DEF Seen
    <3>2. QED
      BY <1>3, <1>4, <3>1 DEF Keyed, Share
  <2>3. QED
    BY <2>1, <2>2
<1>8. tx'[c].rows[s] = v
  BY <1>2
<1>9. QED
  BY <1>5, <1>6, <1>7, <1>8 DEF Keyed

LEMMA MovesLawful ==
  ASSUME IInv, Lawful, NEW c \in Clients, NEW s \in Slots, NEW v \in Content,
         NEW lock \in {Row, Key}, Writes(c, s, v, lock, Full(Credited(tx[c]))), db' = db,
         Moves(c, s, v, lock)
  PROVE  Lawful'
<1>1. \A d \in Clients \ {c} : tx'[d] = tx[d]
  BY DEF Writes
<1>2. \A d \in Clients \ {c} : Obeys(d)' /\ Keyed(d)'
  BY <1>1, OthersSee DEF Lawful
<1>3. Obeys(c)' /\ Keyed(c)'
  BY MovesObey, MovesKeyed DEF Lawful
<1>4. QED
  BY <1>2, <1>3 DEF Lawful

\* Rows stay as they are, committed or not, but for what is rolled back: a
\* transaction that has written nothing sees what is committed.
Rests(t) == t.log = {} /\ \A x \in Slots : ~Wrote(t, x)
Resting  == /\ db'.rows = db.rows
            /\ \A d \in Clients : tx'[d] = tx[d] \/ Rests(tx'[d])

LEMMA RestingLawful == ASSUME IInv, Lawful, Resting PROVE Lawful'
<1>1. ASSUME NEW d \in Clients, tx'[d] = tx[d] PROVE Obeys(d)' /\ Keyed(d)'
  BY <1>1, OthersSee DEF Lawful, Resting
<1>2. ASSUME NEW d \in Clients, Rests(tx'[d]) PROVE Obeys(d)' /\ Keyed(d)'
  <2>1. \A x \in Slots : Seen(d, x)' = db.rows[x]
    BY <1>2 DEF Rests, Seen, Resting
  <2>2. \A x \in Slots : Parent[x] # NoSlot => Parent[x] \in Slots
    BY <1>2, ViewsTyped
  <2>3. Obeys(d)'
    BY <2>1, <2>2 DEF Obeys, Lawful, RefOK
  <2>4. Keyed(d)'
    BY <1>2 DEF Keyed, Rests
  <2>5. QED
    BY <2>3, <2>4
<1>3. QED
  BY <1>1, <1>2 DEF Lawful, RefOK, Resting

\* Two transactions never hold locks that exclude each other.
LEMMA Excluded ==
  ASSUME IInv, NEW c \in Clients, NEW d \in Clients, c # d, NEW x \in Slots
  PROVE  /\ ~(Wrote(tx[c], x) /\ Wrote(tx[d], x))
         /\ tx[c].held[x] = Key => ~(tx[d].held[x] >= Share)
<1>1. tx[c].held[x] + tx[d].held[x] <= 3 /\ tx[c].held[x] \in 0 .. 3 /\ tx[d].held[x] \in 0 .. 3
  BY ViewsTyped DEF IInv, Locks, Key
<1>2. QED
  BY <1>1 DEF Wrote, Row, Key, Share

\* When another commits, what d sees still obeys the foreign keys: neither of
\* the two deleted under a row of the other's.
LEMMA CommitsObey ==
  ASSUME IInv, Lawful, NEW c \in Clients, NEW ops, Marks(ops), Commits(c, ops),
         NEW d \in Clients, d # c
  PROVE  Obeys(d)' /\ Keyed(d)'
<1>1. /\ tx'[d] = tx[d]
      /\ \A x \in Slots : db'.rows[x] = Seen(c, x)
  BY CommitsOthers, CommitsWhat
<1>2. \A x \in Slots : Wrote(tx[d], x) => db'.rows[x] = db.rows[x]
  BY CommitsMissLocked
<1>3. Keyed(d)'
  BY <1>1, <1>2 DEF Lawful, Keyed
<1>4. \A x \in Slots : Seen(d, x)' = IF Wrote(tx[d], x) THEN tx[d].rows[x] ELSE Seen(c, x)
  BY <1>1 DEF Seen
<1>5. \A x \in Slots : Parent[x] # NoSlot => Parent[x] \in Slots
  BY ViewsTyped
<1> SUFFICES ASSUME NEW x \in Slots, Parent[x] # NoSlot, Seen(d, x)' # Absent,
                    Seen(d, Parent[x])' = Absent
             PROVE  FALSE
  BY <1>3 DEF Obeys
<1> DEFINE p == Parent[x]
<1>6. p \in Slots
  BY <1>5
<1>7. /\ Seen(c, x) # Absent => Seen(c, p) # Absent
      /\ Seen(d, x) # Absent => Seen(d, p) # Absent
      /\ db.rows[x] # Absent => db.rows[p] # Absent
  BY DEF Lawful, Obeys, RefOK
<1>8. /\ ~(Wrote(tx[c], x) /\ Wrote(tx[d], x)) /\ ~(Wrote(tx[c], p) /\ Wrote(tx[d], p))
      /\ tx[c].held[p] = Key => ~(tx[d].held[p] >= Share)
      /\ tx[d].held[p] = Key => ~(tx[c].held[p] >= Share)
  BY <1>6, Excluded
<1>9. /\ Wrote(tx[c], p) /\ tx[c].rows[p] = Absent => tx[c].held[p] = Key
      /\ Wrote(tx[d], p) /\ tx[d].rows[p] = Absent => tx[d].held[p] = Key
      /\ Wrote(tx[c], x) /\ tx[c].rows[x] # Absent /\ db.rows[x] = Absent => tx[c].held[p] >= Share
      /\ Wrote(tx[d], x) /\ tx[d].rows[x] # Absent /\ db.rows[x] = Absent => tx[d].held[p] >= Share
  BY <1>6 DEF Lawful, Keyed
<1>10. CASE Wrote(tx[d], x) <=> Wrote(tx[d], p)
  BY <1>4, <1>6, <1>7, <1>10 DEF Seen
<1>11. CASE Wrote(tx[d], x) /\ ~Wrote(tx[d], p)
  BY <1>4, <1>6, <1>7, <1>8, <1>9, <1>11 DEF Seen
<1>12. CASE ~Wrote(tx[d], x) /\ Wrote(tx[d], p)
  BY <1>4, <1>6, <1>7, <1>8, <1>9, <1>12 DEF Seen
<1>13. QED
  BY <1>10, <1>11, <1>12

LEMMA CommitsLawful ==
  ASSUME IInv, Lawful, NEW c \in Clients, NEW ops, Marks(ops), Commits(c, ops)
  PROVE  Lawful'
<1>1. /\ tx' = [tx EXCEPT ![c] = NoTx] /\ tx \in [Clients -> Transaction]
      /\ \A x \in Slots : db'.rows[x] = Seen(c, x)
  BY CommitsWhat DEF IInv, TypeOK
<1>2. \A x \in Slots : Parent[x] # NoSlot => Parent[x] \in Slots
  BY ViewsTyped
<1>3. RefOK(db'.rows)
  BY <1>1, <1>2 DEF RefOK, Lawful, Obeys
<1>4. \A x \in Slots : ~Wrote(tx'[c], x)
  <2>1. tx'[c] = NoTx
    BY <1>1
  <2>2. \A x \in Slots : NoTx.held[x] = 0
    BY DEF NoTx, Begun, None
  <2>3. QED
    BY <2>1, <2>2 DEF Wrote, Row
<1>5. \A x \in Slots : Seen(c, x)' = db'.rows[x]
  BY <1>4 DEF Seen
<1>6. Obeys(c)'
  BY <1>2, <1>3, <1>5 DEF Obeys, RefOK
<1>7. Keyed(c)'
  BY <1>4 DEF Keyed
<1>8. QED
  BY <1>3, <1>6, <1>7, CommitsObey DEF Lawful

\* A change takes its place in the lineage of the rows its transaction wrote.
LEMMA MovesLineage ==
  ASSUME IInv, Lawful, NEW c \in Clients, NEW s \in Slots, NEW v \in Content,
         NEW lock \in {Row, Key}, Writes(c, s, v, lock, Full(Credited(tx[c]))), db' = db,
         Moves(c, s, v, lock), TxLineage(tx[c], db)
  PROVE  TxLineage(tx'[c], db')
<1> DEFINE t == tx[c]
           full == Full(Credited(t))
           n == Image(tx'[c].op, s, Seen(c, s), v)
<1>1. /\ t \in Transaction /\ TxOK(t, db, seq, minted) /\ seq \in Nat /\ t.log \subseteq Entry
      /\ t.blind \subseteq Slots
  BY ViewsTyped DEF IInv, TypeOK, Transaction
<1>2. /\ tx'[c].log = IF full THEN t.log ELSE t.log \cup {n}
      /\ tx'[c].row = Counted(Credited(t))
  BY DEF Writes
<1>3. n.seq = seq + 1 /\ n.slot = s /\ n.before = Seen(c, s) /\ n.after = v
  BY DEF Image
<1>4. Proper(n)
  BY <1>3 DEF Proper, IsInsert, IsDelete, Moves, CanInsert, CanDelete
<1> HIDE DEF n
<1>5. \A e \in tx'[c].log : Proper(e)
  BY <1>2, <1>4 DEF TxLineage
<1>6. ~tx'[c].row.capped => ~full /\ ~t.row.capped
  <2>1. Credited(t) \in OpRow
    BY <1>1, CreditedSound DEF TxOK, IInv
  <2>2. /\ full => tx'[c].row.capped
        /\ ~full => tx'[c].row.capped = Credited(t).capped
    BY <1>2, <2>1, CountedSound DEF IInv
  <2>3. t.row # NoOp => Credited(t) = t.row
    BY DEF Credited
  <2>4. t.row = NoOp => ~t.row.capped
    BY DEF NoOp
  <2>5. QED
    BY <2>2, <2>3, <2>4
<1> SUFFICES ASSUME ~tx'[c].row.capped
             PROVE  /\ Lineage(tx'[c].log)
                    /\ \A e \in tx'[c].log : Once(tx'[c].log, e) => e.before = db.rows[e.slot]
  BY <1>5 DEF TxLineage
<1>7. tx'[c].log = t.log \cup {n} /\ t.blind = {}
  BY <1>1, <1>2, <1>6 DEF TxOK, Whole
<1>8. \A e \in t.log : /\ e.slot \in Slots /\ e.seq \in Nat /\ e.seq <= seq /\ Wrote(t, e.slot)
                       /\ Proper(e)
  <2>1. \A e \in t.log : e.slot \in Slots /\ e.seq \in Nat
    BY <1>1, EntryParts
  <2>2. \A e \in t.log : e.seq <= seq /\ Wrote(t, e.slot) /\ Proper(e)
    BY <1>1 DEF TxOK, Fresh, TxLineage
  <2>3. QED
    BY <2>1, <2>2
<1>9. \A e \in t.log : Once(t.log, e) => e.before = db.rows[e.slot] /\ e.after = Seen(c, e.slot)
  <2> SUFFICES ASSUME NEW e \in t.log, Once(t.log, e)
               PROVE  e.before = db.rows[e.slot] /\ e.after = Seen(c, e.slot)
    OBVIOUS
  <2>1. \A f \in t.log : f.slot = e.slot => f.seq <= e.seq
    BY <1>8 DEF Once
  <2>2. t.rows[e.slot] = e.after
    BY <1>1, <1>7, <2>1 DEF TxOK, Imaged
  <2>3. QED
    BY <1>6, <1>8, <2>2 DEF TxLineage, Seen
<1>10. \A e \in t.log : Once(tx'[c].log, e) => Once(t.log, e) /\ e.slot # s
  <2>1. n \notin t.log
    BY <1>1, <1>3, <1>8
  <2>2. QED
    BY <1>3, <1>7, <2>1 DEF Once
<1>11. Once(tx'[c].log, n) => Seen(c, s) = db.rows[s]
  <2>1. Wrote(t, s) => \E e \in t.log : e.slot = s /\ e # n
    BY <1>1, <1>3, <1>7, <1>8 DEF TxOK, Imaged
  <2>2. QED
    BY <1>3, <1>7, <2>1 DEF Once, Seen
<1>12. \A x \in Slots : Parent[x] # NoSlot =>
          /\ Parent[x] \in Slots
          /\ Seen(c, x) # Absent => Seen(c, Parent[x]) # Absent
          /\ db.rows[x] # Absent => db.rows[Parent[x]] # Absent
  BY ViewsTyped DEF Lawful, Obeys, RefOK
<1>13. NoSlot \notin Slots
  BY ConstantsOK
<1>14. ASSUME NEW p \in tx'[c].log, NEW k \in tx'[c].log,
              Once(tx'[c].log, p), Once(tx'[c].log, k), Parent[k.slot] = p.slot
       PROVE  /\ IsInsert(p) => IsInsert(k) /\ p.seq < k.seq
              /\ IsDelete(k) => ~IsInsert(p) /\ (IsDelete(p) => k.seq < p.seq)
  <2>1. CASE p \in t.log /\ k \in t.log
    BY <1>6, <1>10, <1>14, <2>1 DEF TxLineage, Lineage
  <2>2. CASE p = n /\ k \in t.log
    <3>1. k.before = db.rows[k.slot] /\ k.after = Seen(c, k.slot) /\ Proper(k) /\ k.seq < n.seq
          /\ k.slot \in Slots
      BY <1>1, <1>3, <1>8, <1>9, <1>10, <1>14, <2>2
    <3>2. p.before = Seen(c, s) /\ Seen(c, s) = db.rows[s] /\ Parent[k.slot] = s
      BY <1>3, <1>11, <1>14, <2>2
    <3>3. k.after # Absent \/ k.before # Absent => p.before # Absent
      BY <1>12, <1>13, <3>1, <3>2
    <3>4. QED
      BY <2>2, <3>1, <3>3 DEF Proper, IsInsert, IsDelete
  <2>3. CASE p \in t.log /\ k = n
    <3>1. p.before = db.rows[p.slot] /\ p.after = Seen(c, p.slot) /\ p.seq < n.seq
      BY <1>1, <1>3, <1>8, <1>9, <1>10, <1>14, <2>3
    <3>2. k.before = Seen(c, s) /\ Seen(c, s) = db.rows[s] /\ Parent[s] = p.slot /\ p.slot \in Slots
      BY <1>3, <1>8, <1>11, <1>14, <2>3
    <3>3. k.before # Absent => p.before # Absent /\ p.after # Absent
      BY <1>12, <1>13, <3>1, <3>2
    <3>4. IsDelete(k) => k.before # Absent
      BY <1>4, <2>3 DEF Proper, IsInsert, IsDelete
    <3>5. QED
      BY <2>3, <3>1, <3>3, <3>4 DEF IsInsert, IsDelete
  <2>4. CASE p = n /\ k = n
    <3>1. Parent[s] = s
      BY <1>3, <1>14, <2>4
    <3>2. ~CanInsert(c, s) /\ ~CanDelete(c, s)
      BY <1>13, <3>1 DEF CanInsert, CanDelete, HasParent, Children
    <3>3. Seen(c, s) # Absent /\ v # Absent
      BY <3>2 DEF Moves
    <3>4. QED
      BY <1>3, <2>4, <3>3 DEF IsInsert, IsDelete
  <2>5. QED
    BY <1>7, <1>14, <2>1, <2>2, <2>3, <2>4
<1>15. ASSUME NEW e \in tx'[c].log, Once(tx'[c].log, e) PROVE e.before = db.rows[e.slot]
  BY <1>3, <1>7, <1>9, <1>10, <1>11, <1>15
<1>16. QED
  BY <1>14, <1>15 DEF Lineage

\* Whoever else commits leaves the rows that it found as they were.
LEMMA OthersLineage ==
  ASSUME IInv, NEW d \in Clients, TxLineage(tx[d], db), tx'[d] = tx[d],
         \A x \in Slots : Wrote(tx[d], x) => db'.rows[x] = db.rows[x]
  PROVE  TxLineage(tx'[d], db')
<1>1. \A e \in tx[d].log : e.slot \in Slots /\ Wrote(tx[d], e.slot)
  BY LogsTyped, EntryParts DEF IInv, TxOK, Fresh
<1>2. QED
  BY <1>1 DEF TxLineage

LEMMA EmptyLineage ==
  ASSUME NEW t, NEW d, t.log = {}
  PROVE  Lineage({}) /\ TxLineage(t, d)
BY DEF Lineage, TxLineage

\* What every step is, seen from the rows: one transaction writes, one commits,
\* or rows rest.
Moving(c) ==
  /\ db' = db
  /\ \E s \in Slots, v \in Content, lock \in {Row, Key} :
       Writes(c, s, v, lock, Full(Credited(tx[c]))) /\ Moves(c, s, v, lock)

LEMMA UserMoves == ASSUME IInv, NEW c \in Clients, UserWrite(c) PROVE Moving(c)
<1>1. PICK s \in Slots :
        \/ CanInsert(c, s) /\ \E v \in Vals : Write(c, s, v, Key)
        \/ Seen(c, s) # Absent /\ ~Waits(c, s, Row) /\ \E v \in Vals : Write(c, s, v, Row)
        \/ CanDelete(c, s) /\ Write(c, s, Absent, Key)
  BY DEF UserWrite
<1>2. PICK v \in Content, lock \in {Row, Key} : Write(c, s, v, lock) /\ Moves(c, s, v, lock)
  BY <1>1, ConstantsOK DEF Content, Moves
<1>3. Writes(c, s, v, lock, Full(Credited(tx[c])))
  BY <1>2, WriteWrites
<1>4. QED
  BY <1>2, <1>3 DEF Moving, UserWrite

\* An inverse writes what its row held before, if it writes at all: a row that is
\* deleted again it wants to find deleted.
InverseOf(s, v) ==
  /\ IsDelete(v.change) => Seen(s, v.change.slot) = Absent
  /\ \E lock \in {Row, Key} :
       /\ Writes(s, v.change.slot, v.change.before, lock, Full(Credited(tx[s])))
       /\ Moves(s, v.change.slot, v.change.before, lock)

Skipped(s, v) == UNCHANGED tx /\ ~IsDelete(v.change) /\ ~Matches(s, v)

LEMMA InverseMoves ==
  ASSUME IInv, Careful, Ordered, NEW s \in Sessions, NEW v \in sess[s].verdicts,
         ApplyInverse(s, v)
  PROVE  Skipped(s, v) \/ InverseOf(s, v)
<1> DEFINE c == v.change
<1>1. c \in Entry /\ Proper(c) /\ s \in Clients
  BY SessionAt DEF Session, Verdict, Careful, CarefulAt, Ordered, Lined
<1>2. c.slot \in Slots /\ c.before \in Content
  BY <1>1, EntryParts
<1>3. \/ Skipped(s, v)
      \/ /\ IsDelete(c) => Seen(s, c.slot) = Absent
         /\ \E lock \in {Row, Key} :
              Write(s, c.slot, c.before, lock) /\ Moves(s, c.slot, c.before, lock)
  <2>1. CASE IsDelete(c) /\ CanInsert(s, c.slot) /\ Write(s, c.slot, c.before, Key)
    BY <1>1, <2>1 DEF Moves, Proper, IsInsert, IsDelete, CanInsert
  <2>2. CASE IsInsert(c) /\ Matches(s, v) /\ CanDelete(s, c.slot) /\ Write(s, c.slot, Absent, Key)
    BY <1>1, <2>2 DEF Moves, Proper, IsInsert, IsDelete
  <2>3. CASE /\ ~IsInsert(c) /\ ~IsDelete(c) /\ Matches(s, v) /\ ~Waits(s, c.slot, Row)
             /\ Write(s, c.slot, c.before, Row)
    BY <2>3 DEF Moves, IsInsert, Matches
  <2>4. CASE ~IsDelete(c) /\ ~Matches(s, v) /\ UNCHANGED <<seq, minted, tx>>
    BY <2>4 DEF Skipped
  <2>5. QED
    BY <2>1, <2>2, <2>3, <2>4 DEF ApplyInverse
<1>4. QED
  BY <1>1, <1>2, <1>3, WriteWrites DEF InverseOf

LEMMA ApplyMoves ==
  ASSUME IInv, Careful, Ordered, NEW s \in Sessions, ApplyNext(s)
  PROVE  Moving(s) \/ (UNCHANGED <<tx, db>>)
<1>1. PICK v \in sess[s].verdicts : ApplyInverse(s, v) /\ UNCHANGED db
  BY DEF ApplyNext
<1>2. v.change.slot \in Slots /\ v.change.before \in Content
  BY SessionAt, EntryParts DEF Session, Verdict
<1>3. QED
  BY <1>1, <1>2, InverseMoves DEF Moving, InverseOf, Skipped

LEMMA FreshRests ==
  ASSUME IInv, NEW c \in Clients, NEW source \in {"external", "ctrlz"}, NEW o \in 0 .. MaxOps,
         tx' = [tx EXCEPT ![c] = Begun(source, o)], db'.rows = db.rows
  PROVE  Resting /\ Rests(tx'[c]) /\ \A d \in Clients \ {c} : tx'[d] = tx[d]
<1>1. tx \in [Clients -> Transaction]
  BY LogsTyped
<1>2. tx'[c] = Begun(source, o) /\ \A d \in Clients \ {c} : tx'[d] = tx[d]
  BY <1>1
<1>3. Begun(source, o).log = {} /\ \A x \in Slots : Begun(source, o).held[x] = 0
  BY BegunTyped
<1>4. Rests(tx'[c])
  BY <1>2, <1>3 DEF Rests, Wrote, Row
<1>5. QED
  BY <1>2, <1>4 DEF Resting

LEMMA EndedRests ==
  ASSUME IInv, NEW c \in Clients, Ended(c), db'.rows = db.rows
  PROVE  Resting /\ Rests(tx'[c]) /\ \A d \in Clients \ {c} : tx'[d] = tx[d]
<1>1. tx' = [tx EXCEPT ![c] = Begun("external", 0)] /\ 0 \in 0 .. MaxOps
  BY ConstantsOK DEF Ended, NoTx
<1>2. "external" \in {"external", "ctrlz"}
  OBVIOUS
<1>3. QED
  BY <1>1, <1>2, FreshRests

LEMMA BeginRests ==
  ASSUME IInv, NEW s \in Sessions, ExecBegin(s) \/ UndoBegin(s)
  PROVE  Resting /\ Rests(tx'[s]) /\ \A d \in Clients \ {s} : tx'[d] = tx[d]
<1>1. s \in Clients /\ sess[s].op \in 0 .. MaxOps /\ 0 \in 0 .. MaxOps /\ "ctrlz" \in {"external", "ctrlz"}
  BY SessionAt, ConstantsOK DEF Session
<1>2. CASE ExecBegin(s)
  BY <1>1, <1>2, FreshRests DEF ExecBegin
<1>3. CASE UndoBegin(s)
  BY <1>1, <1>3, FreshRests DEF UndoBegin
<1>4. QED
  BY <1>2, <1>3

LEMMA StepMoves ==
  ASSUME IInv, Careful, Ordered, [Next]_vars
  PROVE  \/ (\E c \in Clients : Moving(c)) \/ Committing \/ Purge
         \/ Resting /\ db'.log = db.log /\ db'.ops = db.ops
<1> DEFINE Still == Resting /\ db'.log = db.log /\ db'.ops = db.ops
<1>1. UNCHANGED <<db, tx>> => Still
  BY DEF Resting
<1>2. ASSUME NEW c \in Clients, UserWrite(c) \/ Commit(c) \/ Abandon(c)
      PROVE  Moving(c) \/ Committing \/ Still
  BY <1>2, UserMoves, UserCommitting, EndedRests DEF Abandon
<1>3. ASSUME NEW s \in Sessions, SessionStep(s)
      PROVE  Moving(s) \/ Committing \/ Still
  <2>1. s \in Clients
    BY SessionAt
  <2>2. ReadOperation(s) \/ ReadChanges(s) \/ LiveRows(s) \/ Report(s) \/ PutOff(s) \/ NextRound(s)
          => UNCHANGED <<db, tx>>
    BY DEF ReadOperation, ReadChanges, LiveRows, Report, PutOff, NextRound
  <2>3. UndoFail(s) => Still
    BY <2>1, EndedRests DEF UndoFail
  <2>4. ExecBegin(s) \/ UndoBegin(s) => Still
    BY BeginRests DEF ExecBegin, UndoBegin
  <2>5. ApplyNext(s) => Moving(s) \/ Still
    BY <1>1, ApplyMoves
  <2> HIDE DEF Still
  <2>6. QED
    BY <1>1, <1>3, <2>2, <2>3, <2>4, <2>5, UndoCommitting DEF SessionStep
<1>4. SetLimit => Still
  BY DEF SetLimit, Resting, IInv, TypeOK, Database
<1>5. UNCHANGED vars => Still
  BY <1>1 DEF vars
<1>6. Sessions \subseteq Clients
  BY DEF Clients
<1> HIDE DEF Still
<1>7. QED
  <2>1. (\E c \in Clients : Moving(c)) \/ Committing \/ Purge \/ Still
    BY <1>2, <1>3, <1>4, <1>5, <1>6 DEF Next
  <2>2. QED
    BY <2>1 DEF Still

LEMMA MovingTraces ==
  ASSUME IInv, Lawful, Traced, NEW c \in Clients, Moving(c)
  PROVE  Lawful' /\ Traced'
<1>1. PICK s \in Slots, v \in Content, lock \in {Row, Key} :
        Writes(c, s, v, lock, Full(Credited(tx[c]))) /\ Moves(c, s, v, lock)
  BY DEF Moving
<1>2. db' = db /\ \A d \in Clients \ {c} : tx'[d] = tx[d]
  BY <1>1 DEF Moving, Writes
<1>3. Lawful'
  BY <1>1, <1>2, MovesLawful
<1>4. TxLineage(tx'[c], db')
  BY <1>1, <1>2, MovesLineage DEF Traced
<1>5. \A d \in Clients \ {c} : TxLineage(tx'[d], db')
  BY <1>2, OthersLineage DEF Traced
<1>6. QED
  BY <1>2, <1>3, <1>4, <1>5 DEF Traced

LEMMA RestingTraces ==
  ASSUME IInv, Traced, Resting
  PROVE  \A d \in Clients : TxLineage(tx'[d], db')
<1>1. ASSUME NEW d \in Clients PROVE TxLineage(tx'[d], db')
  <2>1. CASE tx'[d] = tx[d]
    BY <2>1, OthersLineage DEF Resting, Traced
  <2>2. CASE Rests(tx'[d])
    BY <2>2, EmptyLineage DEF Rests
  <2>3. QED
    BY <2>1, <2>2 DEF Resting
<1>2. QED
  BY <1>1

\* An operation's part of the log is the log of the one transaction it was.
LEMMA CommitsLog ==
  ASSUME IInv, Traced, NEW c \in Clients, NEW ops, Marks(ops), Commits(c, ops)
  PROVE  LogLineage(db')
<1> DEFINE t == tx[c]
<1>1. /\ db'.log = db.log \cup t.log
      /\ \A o \in OpIds : db'.ops[o] = IF o = t.op THEN t.row ELSE ops[o]
  BY CommitsWhat
<1>2. /\ t \in Transaction /\ Fresh(t, db, seq, minted) /\ TxLineage(t, db) /\ LogLineage(db)
      /\ \A e \in db.log \cup t.log : e.op \in OpIds
  BY LogsTyped DEF IInv, TxOK, Traced, Entry
<1>3. \A e \in db.log : Exists(db, e.op) /\ e.op # t.op
  <2>1. t.op = 0 => t.op \notin OpIds
    BY DEF OpIds
  <2>2. QED
    BY <1>2, <2>1 DEF Fresh, LogLineage
<1>4. ASSUME NEW e \in db'.log PROVE Proper(e) /\ Exists(db', e.op)
  <2>1. CASE e \in db.log
    BY <1>1, <1>2, <1>3, <2>1 DEF Marks, Exists, LogLineage
  <2>2. CASE e \in t.log
    <3>1. e.op = t.op /\ t.op # 0 /\ Proper(e)
      BY <1>2, <2>2 DEF Fresh, TxLineage
    <3>2. t.row.source = t.source /\ t.source \in {"external", "ctrlz"}
      BY <1>2, <3>1 DEF Fresh, Transaction
    <3>3. QED
      BY <1>1, <1>2, <2>2, <3>1, <3>2 DEF Exists
  <2>3. QED
    BY <1>1, <2>1, <2>2
<1>5. ASSUME NEW o \in OpIds, ~db'.ops[o].capped PROVE Lineage(ChangesOf(db', o))
  <2>1. CASE o = t.op
    <3>1. ChangesOf(db', o) = t.log
      BY <1>1, <1>2, <1>3, <2>1 DEF ChangesOf, Fresh
    <3>2. QED
      BY <1>1, <1>2, <1>5, <2>1, <3>1 DEF TxLineage
  <2>2. CASE o # t.op
    <3>1. ChangesOf(db', o) = ChangesOf(db, o)
      BY <1>1, <1>2, <2>2 DEF ChangesOf, Fresh
    <3>2. QED
      BY <1>1, <1>2, <1>5, <2>2, <3>1 DEF LogLineage, Marks
  <2>3. QED
    BY <2>1, <2>2
<1>6. QED
  BY <1>4, <1>5 DEF LogLineage

LEMMA CommittingTraces ==
  ASSUME IInv, Lawful, Traced, Committing
  PROVE  Lawful' /\ Traced'
<1>1. PICK c \in Clients, ops \in [OpIds -> OpRow] : Marks(ops) /\ Commits(c, ops)
  BY DEF Committing
<1>2. Lawful' /\ LogLineage(db')
  BY <1>1, CommitsLawful, CommitsLog
<1>3. ASSUME NEW d \in Clients \ {c} PROVE TxLineage(tx'[d], db')
  <2>1. tx'[d] = tx[d]
    BY <1>1, CommitsOthers
  <2>2. \A x \in Slots : Wrote(tx[d], x) => db'.rows[x] = db.rows[x]
    BY <1>1, CommitsMissLocked
  <2>3. QED
    BY <2>1, <2>2, OthersLineage DEF Traced
<1>4. TxLineage(tx'[c], db')
  <2>1. tx'[c] = NoTx /\ NoTx.log = {}
    BY <1>1, CommitsWhat, LogsTyped DEF NoTx, Begun
  <2>2. QED
    BY <2>1, EmptyLineage
<1>5. QED
  BY <1>2, <1>3, <1>4 DEF Traced

LEMMA PurgeTraces ==
  ASSUME IInv, Lawful, Traced, Purge
  PROVE  Lawful' /\ Traced'
<1>1. PICK k \in 2 .. MaxOps + 1 : db' = Purged(k)
  BY DEF Purge
<1>2. /\ db'.log = {c \in db.log : c.op >= k}
      /\ \A o \in OpIds : db'.ops[o] = IF o < k THEN NoOp ELSE db.ops[o]
  BY <1>1, PurgeWhat
<1>3. Resting
  BY <1>1, LogsTyped DEF Purge, Purged, Resting, Database
<1>4. \A e \in db.log : e.op \in OpIds
  BY LogsTyped DEF Entry
<1>5. ASSUME NEW e \in db'.log PROVE Proper(e) /\ Exists(db', e.op)
  <2>1. e \in db.log /\ e.op >= k /\ e.op \in 1 .. MaxOps
    BY <1>2, <1>4 DEF OpIds
  <2>2. ~(e.op < k)
    BY <2>1
  <2>3. QED
    BY <1>2, <2>1, <2>2 DEF Traced, LogLineage, Exists, OpIds
<1>6. ASSUME NEW o \in OpIds, ~db'.ops[o].capped PROVE Lineage(ChangesOf(db', o))
  <2>1. CASE o < k
    <3>1. ChangesOf(db', o) = {}
      BY <1>2, <2>1 DEF ChangesOf, OpIds
    <3>2. QED
      BY <3>1 DEF Lineage
  <2>2. CASE ~(o < k)
    <3>1. ChangesOf(db', o) = ChangesOf(db, o)
      BY <1>2, <2>2 DEF ChangesOf, OpIds
    <3>2. QED
      BY <1>2, <1>6, <2>2, <3>1 DEF Traced, LogLineage
  <2>3. QED
    BY <2>1, <2>2
<1>7. LogLineage(db')
  BY <1>5, <1>6 DEF LogLineage
<1>8. QED
  BY <1>3, <1>7, RestingLawful, RestingTraces DEF Traced

LEMMA TracedNext ==
  ASSUME IInv, Careful, Ordered, [Next]_vars
  PROVE  Lawful' /\ Traced'
<1>1. Lawful /\ Traced
  BY DEF Ordered
<1>2. ASSUME Resting, db'.log = db.log, db'.ops = db.ops PROVE Lawful' /\ Traced'
  <2>1. LogLineage(db')
    BY <1>1, <1>2 DEF Traced, LogLineage, Exists, ChangesOf
  <2>2. QED
    BY <1>1, <1>2, <2>1, RestingLawful, RestingTraces DEF Traced
<1>3. QED
  BY <1>1, <1>2, StepMoves, MovingTraces, CommittingTraces, PurgeTraces

\* What a session remembers of its operation, and has done of its undo.
LEMMA StaysLined ==
  ASSUME IInv, NEW s \in Sessions, Lined(s), sess'[s] = sess[s], tx'[s] = tx[s],
         seq \in Nat, seq' \in Nat, seq <= seq'
  PROVE  Lined(s)'
<1>1. \A e \in sess[s].changes : e.seq \in Nat
  BY SessionAt DEF Session, Entry
<1>2. \A e \in sess[s].changes : e.seq <= seq'
  BY <1>1 DEF Lined
<1>3. QED
  BY <1>2 DEF Lined

LEMMA IdleLined ==
  ASSUME NEW s \in Sessions, sess'[s] = Idle
  PROVE  Lined(s)'
BY DEF Lined, Idle

LEMMA StepNumbers ==
  ASSUME IInv, [Next]_vars
  PROVE  seq \in Nat /\ seq' \in Nat /\ seq <= seq'
<1>1. seq \in Nat
  BY LogsTyped
<1>2. seq' = seq \/ seq' = seq + 1
  BY StepKinds DEF Quiet, Writing, Writes, Committing, Commits, Purge
<1>3. QED
  BY <1>1, <1>2

\* The steps that keep what the session has read.
LEMMA OnwardLined ==
  ASSUME IInv, NEW s \in Sessions, Lined(s), [Next]_vars,
         sess'[s].changes = sess[s].changes,
         sess'[s].pc \in {"inspecting", "applying"} =>
            sess[s].pc \in {"inspecting", "applying"} /\ sess'[s].capped = sess[s].capped,
         sess'[s].pc = "applying" => UndoAt(sess'[s], tx'[s])
  PROVE  Lined(s)'
<1>1. \A e \in sess[s].changes : e.seq \in Nat
  BY SessionAt DEF Session, Entry
<1>2. seq \in Nat /\ seq' \in Nat /\ seq <= seq'
  BY StepNumbers
<1>3. \A e \in sess[s].changes : Proper(e) /\ e.seq <= seq'
  BY <1>1, <1>2 DEF Lined
<1>4. QED
  BY <1>3 DEF Lined

\* The whole of an operation that is not capped, or nothing if it was purged.
LEMMA ReadChangesLined ==
  ASSUME IInv, Traced, NEW s \in Sessions, ReadChanges(s)
  PROVE  Lined(s)'
<1> DEFINE o == sess[s].op
           L == ChangesOf(db, o)
<1>1. /\ sess[s].pc = "reading" /\ seq' = seq
      /\ sess' = [sess EXCEPT ![s].pc = "inspecting", ![s].changes = L]
  BY DEF ReadChanges
<1>2. sess'[s].pc = "inspecting" /\ sess'[s].changes = L /\ sess'[s].capped = sess[s].capped
  BY <1>1, SessionAt DEF Session
<1>3. Remembers(sess[s], db, minted, tx)
  BY <1>1, SessionAt DEF SessOK
<1>4. \A e \in L : Proper(e) /\ e.seq <= seq /\ Exists(db, o)
  BY DEF ChangesOf, Traced, LogLineage, IInv, Committed
<1>5. ~sess[s].capped => Lineage(L)
  <2>1. CASE Exists(db, o)
    BY <1>3, <2>1 DEF Remembers, Traced, LogLineage
  <2>2. CASE ~Exists(db, o)
    BY <1>4, <2>2 DEF Lineage
  <2>3. QED
    BY <2>1, <2>2
<1>6. QED
  BY <1>1, <1>2, <1>4, <1>5 DEF Lined

LEMMA BeginLined ==
  ASSUME IInv, Careful, NEW s \in Sessions, Lined(s), [Next]_vars, ExecBegin(s) \/ UndoBegin(s)
  PROVE  Lined(s)'
<1>1. /\ sess \in [Sessions -> Session] /\ sess[s] \in Session /\ CarefulAt(s)
  BY SessionAt DEF Careful
<1>2. CASE ExecBegin(s)
  <2>1. sess'[s].pc = "running" /\ sess'[s].changes = sess[s].changes
    BY <1>1, <1>2 DEF ExecBegin, Session
  <2>2. QED
    BY <2>1, OnwardLined
<1>3. CASE UndoBegin(s)
  <2> DEFINE forced == Conflicts(s) # {}
             todo == ToInvert(s)
             tables == {Table[v.change.slot] : v \in todo}
  <2>1. sess' = [sess EXCEPT ![s].pc = "applying", ![s].forced = forced, ![s].verdicts = todo,
                             ![s].tables = tables]
        /\ sess[s].pc = "inspecting"
    BY <1>3 DEF UndoBegin, Assessed
  <2> HIDE DEF forced, todo, tables
  <2>2. /\ sess'[s].changes = sess[s].changes /\ sess'[s].capped = sess[s].capped
        /\ sess'[s].deferred = sess[s].deferred
    BY <1>1, <2>1 DEF Session
  <2>3. sess'[s].deferred = {} /\ \A x \in Slots : ~Wrote(tx'[s], x)
    BY <1>1, <1>3, <2>1, <2>2, BeginRests DEF CarefulAt, Rests
  <2>4. UndoAt(sess'[s], tx'[s])
    BY <2>3 DEF UndoAt
  <2>5. QED
    BY <2>1, <2>2, <2>4, OnwardLined
<1>4. QED
  BY <1>2, <1>3

\* A row put off is one that the keys will not let in, or not let go, yet.
LEMMA PutOffLined ==
  ASSUME IInv, Careful, NEW s \in Sessions, Lined(s), [Next]_vars, PutOff(s)
  PROVE  Lined(s)'
<1>1. PICK v \in sess[s].verdicts :
        /\ NextVerdict(s, v) /\ FkRefuses(s, v)
        /\ sess' = [sess EXCEPT ![s].verdicts = @ \ {v}, ![s].deferred = @ \cup {v}]
  BY DEF PutOff
<1>2. sess[s] \in Session /\ sess[s].pc = "applying" /\ tx' = tx
  BY <1>1, SessionAt DEF NextVerdict, PutOff
<1>3. /\ sess'[s].pc = "applying" /\ sess'[s].changes = sess[s].changes
      /\ sess'[s].capped = sess[s].capped /\ sess'[s].progress = sess[s].progress
      /\ sess'[s].deferred = sess[s].deferred \cup {v}
  BY <1>1, <1>2, SessionAt DEF Session
<1>4. v.change.slot \in Slots
  BY <1>2, EntryParts DEF Session, Verdict
<1>5. IsInsert(v.change) \/ IsDelete(v.change)
  BY <1>1 DEF FkRefuses
<1>6. Hindered(tx[s], v.change)
  <2>1. CASE IsDelete(v.change) /\ FkRefusesInsert(s, v.change.slot)
    BY <2>1 DEF FkRefusesInsert, HasParent, Hindered, Seen
  <2>2. CASE IsInsert(v.change) /\ Matches(s, v) /\ FkRefusesDelete(s, v.change.slot) /\ ~IsDelete(v.change)
    BY <2>2 DEF FkRefusesDelete, Children, Hindered, Seen
  <2>3. ~(IsInsert(v.change) /\ IsDelete(v.change))
    BY <1>1 DEF Careful, CarefulAt, Lined, Proper
  <2>4. QED
    BY <1>1, <2>1, <2>2, <2>3 DEF FkRefuses
<1>7. UndoAt(sess'[s], tx'[s])
  BY <1>2, <1>3, <1>5, <1>6 DEF Lined, UndoAt
<1>8. QED
  BY <1>2, <1>3, <1>7, OnwardLined

LEMMA ApplyNextLined ==
  ASSUME IInv, Careful, Ordered, NEW s \in Sessions, [Next]_vars, ApplyNext(s)
  PROVE  Lined(s)'
<1>1. PICK v \in sess[s].verdicts :
        /\ NextVerdict(s, v) /\ ApplyInverse(s, v)
        /\ sess' = [sess EXCEPT ![s].verdicts = @ \ {v}, ![s].progress = TRUE]
  BY DEF ApplyNext
<1>2. sess[s] \in Session /\ sess[s].pc = "applying" /\ s \in Clients /\ Lined(s)
      /\ v.change \in sess[s].changes
  BY <1>1, SessionAt DEF NextVerdict, Ordered, Careful, CarefulAt
<1>3. /\ sess'[s].pc = "applying" /\ sess'[s].changes = sess[s].changes
      /\ sess'[s].capped = sess[s].capped /\ sess'[s].progress
      /\ sess'[s].deferred = sess[s].deferred
  BY <1>1, <1>2, SessionAt DEF Session
<1>4. v.change.slot \in Slots /\ v.change.before \in Content
  BY <1>2, EntryParts DEF Session
<1>5. \A x \in Slots : Wrote(tx'[s], x) =>
        \E c \in sess[s].changes : c.slot = x /\ c.before = tx'[s].rows[x]
  <2>1. \A x \in Slots : Wrote(tx[s], x) =>
          \E c \in sess[s].changes : c.slot = x /\ c.before = tx[s].rows[x]
    BY <1>2 DEF Lined, UndoAt
  <2>2. CASE UNCHANGED tx
    BY <2>1, <2>2
  <2>3. CASE InverseOf(s, v)
    <3>1. PICK lock \in {Row, Key} :
            Writes(s, v.change.slot, v.change.before, lock, Full(Credited(tx[s])))
      BY <2>3 DEF InverseOf
    <3>2. \A x \in Slots : tx'[s].rows[x] = IF x = v.change.slot THEN v.change.before ELSE tx[s].rows[x]
      BY <3>1 DEF Writes
    <3>3. \A x \in Slots \ {v.change.slot} : Wrote(tx'[s], x) <=> Wrote(tx[s], x)
      BY <1>2, <1>4, <3>1, WriteHolds
    <3>4. QED
      BY <1>2, <2>1, <3>2, <3>3
  <2>4. QED
    BY <1>1, <2>2, <2>3, InverseMoves DEF Skipped
<1>6. UndoAt(sess'[s], tx'[s])
  BY <1>2, <1>3, <1>5 DEF Lined, UndoAt
<1>7. QED
  BY <1>2, <1>3, <1>6, OnwardLined

LEMMA NextRoundLined ==
  ASSUME IInv, NEW s \in Sessions, Lined(s), [Next]_vars, NextRound(s)
  PROVE  Lined(s)'
<1>1. sess[s] \in Session /\ sess[s].pc = "applying" /\ tx' = tx
  BY SessionAt DEF NextRound, RoundOver
<1>2. /\ sess'[s].pc = "applying" /\ sess'[s].changes = sess[s].changes
      /\ sess'[s].capped = sess[s].capped /\ sess'[s].deferred = {}
  BY <1>1, SessionAt DEF NextRound, Session
<1>3. UndoAt(sess'[s], tx'[s])
  BY <1>1, <1>2 DEF Lined, UndoAt
<1>4. QED
  BY <1>1, <1>2, <1>3, OnwardLined

LEMMA LiveRowsLined ==
  ASSUME IInv, NEW s \in Sessions, Lined(s), [Next]_vars, LiveRows(s)
  PROVE  Lined(s)'
<1>1. sess[s].pc = "inspecting" /\ sess[s] \in Session
  BY SessionAt DEF LiveRows
<1>2. PICK new : sess' = [sess EXCEPT ![s].verdicts = @ \cup new]
  BY DEF LiveRows
<1>3. /\ sess'[s].pc = "inspecting" /\ sess'[s].changes = sess[s].changes
      /\ sess'[s].capped = sess[s].capped
  BY <1>1, <1>2, SessionAt DEF Session
<1>4. QED
  BY <1>1, <1>3, OnwardLined

LEMMA ReadOperationLined ==
  ASSUME IInv, NEW s \in Sessions, ReadOperation(s)
  PROVE  Lined(s)'
<1>1. PICK o \in OpIds :
        sess' = [sess EXCEPT ![s] = [Idle EXCEPT !.pc = "reading", !.op = o,
                    !.capped = db.ops[o].capped, !.undone = db.ops[o].undone]]
  BY DEF ReadOperation
<1>2. sess'[s].pc = "reading" /\ sess'[s].changes = {}
  BY <1>1, SessionAt DEF Idle
<1>3. QED
  BY <1>2 DEF Lined

LEMMA LinedNext ==
  ASSUME IInv, Careful, Ordered, [Next]_vars, NEW s \in Sessions
  PROVE  Lined(s)'
<1>1. /\ Lined(s) /\ Traced /\ s \in Clients
      /\ sess \in [Sessions -> Session] /\ tx \in [Clients -> Transaction]
      /\ seq \in Nat /\ seq' \in Nat /\ seq <= seq'
  BY StepNumbers, SessionAt DEF Ordered, IInv, TypeOK
<1>2. ASSUME sess'[s] = sess[s], tx'[s] = tx[s] PROVE Lined(s)'
  BY <1>1, <1>2, StaysLined
<1>3. ASSUME NEW c \in Clients, Ended(c), Returns(c) PROVE Lined(s)'
  <2>1. CASE c = s
    BY <1>1, <1>3, <2>1, IdleLined DEF Returns
  <2>2. CASE c # s
    <3>1. sess'[s] = sess[s] /\ tx'[s] = tx[s]
      BY <1>1, <1>3, <2>2 DEF Ended, Returns
    <3>2. QED
      BY <3>1, <1>2
  <2>3. QED
    BY <2>1, <2>2
<1>4. ASSUME NEW c \in Clients, UserWrite(c) PROVE Lined(s)'
  <2>1. PICK x \in Slots, v \in Content, lock \in {Row, Key} :
          Writes(c, x, v, lock, Full(Credited(tx[c])))
    BY <1>4, UserMoves DEF Moving
  <2>2. sess' = sess /\ (c # s => tx'[s] = tx[s])
    BY <1>1, <1>4, <2>1 DEF UserWrite, Writes
  <2>3. CASE c = s
    <3>1. sess[s].pc = "running"
      BY <1>4, <2>3 DEF UserWrite, Running
    <3>2. QED
      BY <1>1, <2>2, <3>1, OnwardLined
  <2>4. CASE c # s
    BY <1>2, <2>2, <2>4
  <2>5. QED
    BY <2>3, <2>4
<1>5. ASSUME NEW k \in Sessions, SessionStep(k), k # s PROVE Lined(s)'
  <2>1. CASE UndoFail(k)
    BY <1>3, <2>1, SessionAt DEF UndoFail
  <2>2. CASE UndoCommit(k)
    BY <1>3, <2>2, SessionAt DEF UndoCommit, Commits
  <2>3. CASE ExecBegin(k) \/ UndoBegin(k)
    <3>1. tx'[s] = tx[s]
      BY <1>1, <1>5, <2>3, BeginRests
    <3>2. sess'[s] = sess[s]
      BY <1>1, <1>5, <2>3 DEF ExecBegin, UndoBegin
    <3>3. QED
      BY <1>2, <3>1, <3>2
  <2>4. CASE ApplyNext(k)
    <3>1. tx'[s] = tx[s]
      BY <1>1, <1>5, <2>4, ApplyMoves DEF Moving, Writes
    <3>2. sess'[s] = sess[s]
      BY <1>1, <1>5, <2>4 DEF ApplyNext
    <3>3. QED
      BY <1>2, <3>1, <3>2
  <2>5. CASE ReadOperation(k) \/ ReadChanges(k) \/ LiveRows(k) \/ Report(k) \/ PutOff(k) \/ NextRound(k)
    <3>1. sess'[s] = sess[s] /\ tx'[s] = tx[s]
      BY <1>1, <1>5, <2>5 DEF ReadOperation, ReadChanges, LiveRows, Report, PutOff, NextRound
    <3>2. QED
      BY <1>2, <3>1
  <2>6. QED
    BY <1>5, <2>1, <2>2, <2>3, <2>4, <2>5 DEF SessionStep
<1>6. ASSUME SessionStep(s) PROVE Lined(s)'
  <2>1. CASE UndoFail(s)
    BY <1>1, <1>3, <2>1 DEF UndoFail
  <2>2. CASE UndoCommit(s)
    BY <1>1, <1>3, <2>2 DEF UndoCommit, Commits
  <2>3. CASE Report(s)
    BY <1>1, <2>3, IdleLined DEF Report
  <2>4. QED
    BY <1>1, <1>6, <2>1, <2>2, <2>3, BeginLined, ReadOperationLined, ReadChangesLined,
       LiveRowsLined, ApplyNextLined, PutOffLined, NextRoundLined DEF SessionStep
<1>7. ASSUME Purge \/ SetLimit \/ UNCHANGED vars PROVE Lined(s)'
  <2>1. sess' = sess /\ tx' = tx
    BY <1>7 DEF Purge, SetLimit, vars
  <2>2. QED
    BY <1>2, <2>1
<1>8. ASSUME NEW c \in Clients, Commit(c) \/ Abandon(c) PROVE Lined(s)'
  BY <1>3, <1>8 DEF Commit, Abandon, Commits
<1>9. QED
  BY <1>4, <1>5, <1>6, <1>7, <1>8 DEF Next

LEMMA OrderedNext == ASSUME IInv, Careful, Ordered, [Next]_vars PROVE Ordered'
BY TracedNext, LinedNext DEF Ordered

LEMMA InitOrdered == Init => Ordered
<1> SUFFICES ASSUME Init PROVE Ordered
  OBVIOUS
<1>1. PICK rows \in [Slots -> Content], limit \in Limits :
        /\ RefOK(rows)
        /\ db = [rows |-> rows, ops |-> [o \in OpIds |-> NoOp], log |-> {}, limit |-> limit]
  BY DEF Init
<1>2. RefOK(db.rows) /\ db.log = {}
  BY <1>1
<1>3. ASSUME NEW c \in Clients PROVE Obeys(c) /\ Keyed(c) /\ TxLineage(tx[c], db)
  <2>1. tx[c] = NoTx /\ NoTx.log = {} /\ \A x \in Slots : NoTx.held[x] = 0
    BY DEF Init, NoTx, Begun, None
  <2>2. \A x \in Slots : ~Wrote(tx[c], x)
    BY <2>1 DEF Wrote, Row
  <2>3. \A x \in Slots : Parent[x] # NoSlot => Parent[x] \in Slots
    BY ConstantsOK
  <2>4. Obeys(c)
    BY <1>2, <2>2, <2>3 DEF Obeys, RefOK, Seen
  <2>5. QED
    BY <2>1, <2>2, <2>4, EmptyLineage DEF Keyed
<1>4. LogLineage(db)
  <2>1. \A o : ChangesOf(db, o) = {}
    BY <1>2 DEF ChangesOf
  <2>2. QED
    BY <1>2, <2>1 DEF LogLineage, Lineage
<1>5. \A s \in Sessions : Lined(s)
  BY DEF Init, Lined, Idle
<1>6. QED
  BY <1>2, <1>3, <1>4, <1>5 DEF Ordered, Lawful, Traced

\* The inductive invariant of the undo's order, on every behaviour.
LEMMA AlwaysOrdered == Spec => [](IInv /\ Careful /\ Ordered)
<1>1. Init => Careful /\ Ordered
  BY InitCareful, InitOrdered
<1>2. IInv /\ Careful /\ Ordered /\ [Next]_vars => Careful' /\ Ordered'
  BY CarefulNext, OrderedNext
<1>3. QED
  BY <1>1, <1>2, Inductive, PTL DEF Spec

\* Of some verdicts, the one on the last change.
LEMMA Latest ==
  ASSUME NEW vs, vs # {}, NEW n \in Nat, \A v \in vs : v.change.seq \in Nat /\ v.change.seq <= n
  PROVE  \E v \in vs : \A u \in vs : u.change.seq <= v.change.seq
<1> DEFINE D == {n - v.change.seq : v \in vs}
<1>1. D \subseteq Nat /\ D # {}
  OBVIOUS
<1>2. PICK m \in D : \A d \in D : ~(<<d, m>> \in OpToRel(<, Nat))
  BY <1>1, WFMin, NatLessThanWellFounded, Zenon
<1>3. \A d \in D : ~(d < m)
  BY <1>1, <1>2 DEF OpToRel
<1>4. PICK v \in vs : m = n - v.change.seq
  OBVIOUS
<1>5. ASSUME NEW u \in vs PROVE u.change.seq <= v.change.seq
  <2>1. n - u.change.seq \in D
    BY <1>5
  <2>2. ~(n - u.change.seq < n - v.change.seq)
    BY <1>3, <1>4, <2>1
  <2>3. QED
    BY <1>5, <2>2
<1>6. QED
  BY <1>5

\* UndoFindsAnOrder at one moment: the last of the deletions that were put off
\* waits for a parent that this undo neither restores nor has put off, and if
\* only inserts were, the last of them for such a child.
LEMMA AnOrder ==
  ASSUME IInv, Careful, Ordered, NEW s \in Sessions, GivesUp(s), WrittenOnce(s)
  PROVE  \E v \in sess[s].deferred : Stuck(s, v)
<1> DEFINE t == tx[s]
           L == sess[s].changes
           Put == sess[s].deferred
<1>1. /\ sess[s].pc = "applying" /\ Put # {} /\ ~sess[s].progress
      /\ ~sess[s].capped /\ L \subseteq Entry /\ seq \in Nat
  BY SessionAt, LogsTyped DEF GivesUp, RoundOver, SessOK, Session
<1>2. /\ Lineage(L)
      /\ \A e \in L : Once(L, e) /\ e.seq <= seq /\ e.seq \in Nat /\ e.slot \in Slots
      /\ \A x \in Slots : Wrote(t, x) => \E c \in L : c.slot = x /\ c.before = t.rows[x]
  BY <1>1, EntryParts DEF Ordered, Lined, UndoAt, WrittenOnce, Once
<1>3. \A v \in Put : /\ v.change \in L
                     /\ IsInsert(v.change) \/ IsDelete(v.change)
                     /\ Hindered(t, v.change)
  BY <1>1 DEF Ordered, Lined, UndoAt, Careful, CarefulAt
<1> DEFINE own(x) == Wrote(t, x) \/ \E u \in Put : u.change.slot = x
<1>4. ASSUME NEW p \in L, NEW k \in L, Parent[k.slot] = p.slot
      PROVE  /\ IsInsert(p) => IsInsert(k) /\ p.seq < k.seq
             /\ IsDelete(k) => ~IsInsert(p) /\ (IsDelete(p) => k.seq < p.seq)
  BY <1>2, <1>4 DEF Lineage
<1>5. \A x \in Slots : Parent[x] # NoSlot => Parent[x] \in Slots
  BY ConstantsOK
<1>6. CASE \E v \in Put : IsDelete(v.change)
  <2> DEFINE gone == {v \in Put : IsDelete(v.change)}
  <2>1. PICK v \in gone : \A u \in gone : u.change.seq <= v.change.seq
    <3>1. gone # {} /\ \A u \in gone : u.change.seq \in Nat /\ u.change.seq <= seq
      BY <1>2, <1>3, <1>6
    <3> HIDE DEF gone
    <3>2. QED
      BY <1>1, <3>1, Latest
  <2> DEFINE c == v.change
             x == Parent[c.slot]
  <2>2. v \in Put /\ c \in L /\ IsDelete(c) /\ x \in Slots
        /\ (Wrote(t, x) => t.rows[x] = Absent)
    BY <1>2, <1>3, <1>5 DEF Hindered
  <2>3. ~Wrote(t, x)
    <3> SUFFICES ASSUME Wrote(t, x) PROVE FALSE
      OBVIOUS
    <3>1. PICK p \in L : p.slot = x /\ p.before = Absent
      BY <1>2, <2>2
    <3>2. QED
      BY <1>4, <2>2, <3>1 DEF IsInsert
  <2>4. ASSUME NEW u \in Put, u.change.slot = x PROVE FALSE
    <3>1. u.change \in L /\ ~IsInsert(u.change) /\ IsDelete(u.change) /\ c.seq < u.change.seq
      BY <1>3, <1>4, <2>2, <2>4
    <3>2. QED
      BY <1>2, <2>1, <2>2, <3>1
  <2>5. Stuck(s, v)
    BY <2>2, <2>3, <2>4 DEF Stuck
  <2>6. QED
    BY <2>2, <2>5
<1>7. CASE \A v \in Put : ~IsDelete(v.change)
  <2>1. PICK v \in Put : \A u \in Put : u.change.seq <= v.change.seq
    <3>1. \A u \in Put : u.change.seq \in Nat /\ u.change.seq <= seq
      BY <1>2, <1>3
    <3>2. QED
      BY <1>1, <3>1, Latest
  <2> DEFINE c == v.change
  <2>2. c \in L /\ IsInsert(c) /\ ~IsDelete(c)
    BY <1>3, <1>7
  <2>3. PICK k \in Slots : Parent[k] = c.slot /\ (Wrote(t, k) => t.rows[k] # Absent)
    BY <1>3, <2>2 DEF Hindered
  <2>4. ~Wrote(t, k)
    <3> SUFFICES ASSUME Wrote(t, k) PROVE FALSE
      OBVIOUS
    <3>1. PICK e \in L : e.slot = k /\ e.before # Absent
      BY <1>2, <2>3
    <3>2. QED
      BY <1>4, <2>2, <2>3, <3>1 DEF IsInsert
  <2>5. ASSUME NEW u \in Put, u.change.slot = k PROVE FALSE
    <3>1. u.change \in L /\ c.seq < u.change.seq
      BY <1>3, <1>4, <2>2, <2>3, <2>5
    <3>2. QED
      BY <1>2, <2>1, <2>2, <3>1
  <2>6. Stuck(s, v)
    BY <2>2, <2>3, <2>4, <2>5 DEF Stuck
  <2>7. QED
    BY <2>6
<1>8. QED
  BY <1>6, <1>7

\* UndoFindsAnOrder, for any schema: whatever chains of foreign keys the rows
\* hang on, in whatever order and beside whatever transactions the operation
\* wrote them, if it wrote each once the rounds of _apply_ordered
\* (engines/postgres.py) stop only at rows that are not its own.
THEOREM AnOrderIsFound == Spec => []UndoFindsAnOrder
<1>1. IInv /\ Careful /\ Ordered => UndoFindsAnOrder
  BY AnOrder DEF UndoFindsAnOrder
<1>2. QED
  BY <1>1, AlwaysOrdered, PTL

-----------------------------------------------------------------------------
(* An undo puts back what its operation wrote.                              *)

Clean(c) == [change |-> c, status |-> "clean"]

\* What a session still has to invert.
Pending(s) == sess[s].verdicts \cup sess[s].deferred

\* A row, of which c is the operation's first change and e the last: as it was
\* found, between the two inverses, or put back.
Stages(s, c, e) ==
  \/ /\ ~Wrote(tx[s], c.slot) /\ Clean(c) \in Pending(s) /\ Clean(e) \in Pending(s)
  \/ /\ Wrote(tx[s], c.slot) /\ tx[s].rows[c.slot] = Absent /\ c # e
     /\ Clean(c) \in Pending(s) /\ \A v \in Pending(s) : v.change # e
  \/ /\ Wrote(tx[s], c.slot) /\ tx[s].rows[c.slot] = c.before
     /\ \A v \in Pending(s) : v.change.slot # c.slot

Restoring(s, c, e) ==
  /\ \A v \in Pending(s) : v.change.slot = c.slot => v.status = "clean"
  /\ sess[s].pc = "applying" => Stages(s, c, e)

RestoresAt(s) ==
  /\ \A c \in sess[s].changes : c.op = sess[s].op
  /\ sess[s].verdicts \cap sess[s].deferred = {}
  /\ sess[s].pc \in {"inspecting", "applying"} =>
       \A c, e \in sess[s].changes : Simply(s, c, e) /\ LastWord(e) => Restoring(s, c, e)

Restores == \A s \in Sessions : RestoresAt(s)

\* A last word is not taken twice: what is written later is in the log with a
\* higher number, and if that goes by a purge, the row is out of sight.
LEMMA CommitsTakeWord ==
  ASSUME IInv, NEW c \in Clients, NEW ops, Marks(ops), Commits(c, ops),
         NEW e \in Entry, e.op # tx[c].op, LastWord(e)'
  PROVE  LastWord(e)
<1> DEFINE t == tx[c]
<1>1. /\ db'.log = db.log \cup t.log
      /\ unseen' = {x \in unseen : ~Wrote(t, x)} \cup t.blind
  BY CommitsWhat
<1>2. Fresh(t, db, seq, minted) /\ Imaged(t) /\ t.log \subseteq Entry /\ e.slot \in Slots /\ e.seq \in Nat
  BY LogsTyped, EntryParts DEF IInv, TxOK
<1>3. e \in db.log /\ Newest(e)
  BY <1>1, <1>2 DEF LastWord, Newest, Fresh
<1>4. e.slot \notin unseen
  <2> SUFFICES ASSUME e.slot \in unseen PROVE FALSE
    OBVIOUS
  <2>1. Wrote(t, e.slot) /\ e.slot \notin t.blind
    BY <1>1 DEF LastWord
  <2>2. PICK f \in t.log : f.slot = e.slot
    BY <1>2, <2>1 DEF Imaged
  <2>3. e.seq < f.seq /\ f.seq \in Nat
    BY <1>2, <1>3, <2>2, EntryParts DEF Fresh
  <2>4. f.seq <= e.seq
    BY <1>1, <2>2 DEF LastWord, Newest
  <2>5. QED
    BY <1>2, <2>3, <2>4
<1>5. QED
  BY <1>3, <1>4 DEF LastWord

LEMMA PurgeTakesWord ==
  ASSUME IInv, Purge, NEW e \in Entry, LastWord(e)'
  PROVE  LastWord(e)
<1>1. PICK k \in 2 .. MaxOps + 1 : db' = Purged(k)
  BY DEF Purge
<1>2. /\ db'.log = {c \in db.log : c.op >= k}
      /\ unseen' = unseen \cup {c.slot : c \in {f \in db.log \ db'.log :
                      \A g \in db'.log : g.slot = f.slot => g.seq < f.seq}}
  BY <1>1, PurgeWhat DEF Purge
<1>3. \A f \in db.log : f.seq \in Nat
  BY LogsTyped, EntryParts
<1>4. e \in db.log /\ e.slot \notin unseen /\ e.seq \in Nat
  BY <1>2, EntryParts DEF LastWord
<1>5. Newest(e)
  <2> SUFFICES ASSUME NEW f \in db.log, f.slot = e.slot, ~(f.seq <= e.seq) PROVE FALSE
    BY DEF Newest
  <2>1. \A g \in db'.log : g.slot = f.slot => g.seq <= e.seq
    BY DEF LastWord, Newest
  <2>2. f \notin db'.log
    BY <2>1
  <2>3. \A g \in db'.log : g.slot = f.slot => g.seq < f.seq
    BY <1>2, <1>3, <1>4, <2>1
  <2>4. f.slot \in unseen'
    BY <1>2, <2>2, <2>3
  <2>5. QED
    BY <2>4 DEF LastWord
<1>6. QED
  BY <1>4, <1>5 DEF LastWord

LEMMA StepKeepsWord ==
  ASSUME IInv, [Next]_vars, NEW e \in Entry, LastWord(e)', \A c \in Clients : tx[c].op # e.op
  PROVE  LastWord(e)
<1>1. UNCHANGED <<db, unseen>> => LastWord(e)
  BY DEF LastWord, Newest
<1>2. ASSUME NEW c \in Clients, UserWrite(c) \/ Commit(c) \/ Abandon(c) PROVE LastWord(e)
  <2>1. Marks(db.ops)
    BY DEF Marks, IInv, TypeOK, Database, Committed
  <2>2. Commit(c) => LastWord(e)
    BY <2>1, CommitsTakeWord DEF Commit
  <2>3. QED
    BY <1>1, <1>2, <2>2 DEF UserWrite, Abandon
<1>3. ASSUME NEW s \in Sessions, SessionStep(s) PROVE LastWord(e)
  <2>1. UndoCommit(s) => LastWord(e)
    BY SessionAt, MarkedMarks, CommitsTakeWord DEF UndoCommit, RoundOver
  <2>2. QED
    BY <1>1, <1>3, <2>1 DEF SessionStep, ExecBegin, ReadOperation, ReadChanges, LiveRows, Report,
       UndoBegin, ApplyNext, PutOff, NextRound, UndoFail
<1>4. SetLimit => LastWord(e)
  BY DEF SetLimit, LastWord, Newest, IInv, TypeOK, Database
<1>5. UNCHANGED vars => LastWord(e)
  BY <1>1 DEF vars
<1>6. QED
  BY <1>2, <1>3, <1>4, <1>5, PurgeTakesWord DEF Next

\* A row on which the operation has the last word holds what it left there.
LEMMA WordHolds ==
  ASSUME IInv, NEW e, LastWord(e)
  PROVE  db.rows[e.slot] = e.after
BY DEF LastWord, IInv, LogTruth

LEMMA SimplyTwo ==
  ASSUME NEW s \in Sessions, NEW c \in sess[s].changes, NEW e \in sess[s].changes, Simply(s, c, e)
  PROVE  /\ c.slot = e.slot
         /\ \A d \in sess[s].changes : d.slot = c.slot => d = c \/ d = e
         /\ c # e => IsDelete(c) /\ IsInsert(e) /\ c.seq < e.seq
<1>1. e \in {d \in sess[s].changes : d.slot = c.slot}
  BY DEF Simply
<1>2. QED
  BY <1>1 DEF Simply

\* One inverse takes its row on, or is none of its row's business.
LEMMA ApplyStages ==
  ASSUME IInv, Careful, Ordered, NEW s \in Sessions, RestoresAt(s),
         NEW v \in sess[s].verdicts, NextVerdict(s, v), ApplyInverse(s, v),
         sess' = [sess EXCEPT ![s].verdicts = @ \ {v}, ![s].progress = TRUE],
         NEW c \in sess[s].changes, NEW e \in sess[s].changes, Simply(s, c, e), LastWord(e)
  PROVE  Restoring(s, c, e)'
<1> DEFINE x == c.slot
           d == v.change
<1>1. /\ sess[s] \in Session /\ sess[s].pc = "applying" /\ s \in Clients
      /\ d \in sess[s].changes /\ CarefulAt(s) /\ sess[s].changes \subseteq Entry
  BY SessionAt DEF NextVerdict, Careful, CarefulAt, Session
<1>2. Pending(s)' = Pending(s) \ {v} /\ sess'[s].pc = "applying" /\ sess'[s].changes = sess[s].changes
  <2>1. sess'[s].verdicts = sess[s].verdicts \ {v} /\ sess'[s].deferred = sess[s].deferred
        /\ sess'[s].pc = "applying" /\ sess'[s].changes = sess[s].changes
    BY <1>1, SessionAt DEF Session
  <2>2. v \notin sess[s].deferred
    BY DEF RestoresAt
  <2>3. QED
    BY <2>1, <2>2 DEF Pending
<1>3. /\ Restoring(s, c, e) /\ Stages(s, c, e)
      /\ v \in Pending(s) /\ \A u \in Pending(s) : u.change \in sess[s].changes /\ u \in Verdict
  BY <1>1 DEF RestoresAt, Restoring, Pending, CarefulAt, Session
<1>4. /\ x \in Slots /\ c.slot = e.slot /\ db.rows[x] = e.after
      /\ \A g \in sess[s].changes : g.slot = x => g = c \/ g = e
      /\ c # e => IsDelete(c) /\ IsInsert(e)
      /\ Proper(c) /\ Proper(e) /\ d.slot \in Slots /\ d.before \in Content
  BY <1>1, SimplyTwo, WordHolds, EntryParts DEF Ordered, Lined
<1>5. \A u \in Pending(s) : u.change.slot = x => u = Clean(u.change)
  BY <1>3 DEF Restoring, Verdict, Clean
<1>6. \A u \in Pending(s)' : u.change.slot = x => u.status = "clean"
  BY <1>2, <1>3 DEF Restoring
<1>7. CASE d.slot # x
  <2>1. /\ Wrote(tx'[s], x) <=> Wrote(tx[s], x)
        /\ tx'[s].rows[x] = tx[s].rows[x]
    <3>1. CASE Skipped(s, v)
      BY <3>1 DEF Skipped
    <3>2. CASE InverseOf(s, v)
      <4>1. PICK lock \in {Row, Key} : Writes(s, d.slot, d.before, lock, Full(Credited(tx[s])))
        BY <3>2 DEF InverseOf
      <4>2. \A y \in Slots \ {d.slot} : Wrote(tx'[s], y) <=> Wrote(tx[s], y)
        BY <1>1, <1>4, <4>1, WriteHolds
      <4>3. \A y \in Slots : tx'[s].rows[y] = IF y = d.slot THEN d.before ELSE tx[s].rows[y]
        BY <4>1 DEF Writes
      <4>4. QED
        BY <1>4, <1>7, <4>2, <4>3
    <3>3. QED
      BY <3>1, <3>2, InverseMoves
  <2>2. Clean(c) # v /\ Clean(e) # v
    BY <1>4, <1>7 DEF Clean
  <2>3. Stages(s, c, e)'
    BY <1>2, <1>3, <2>1, <2>2 DEF Stages
  <2>4. QED
    BY <1>6, <2>3 DEF Restoring
<1>8. CASE d.slot = x
  <2>1. v = Clean(d) /\ (d = c \/ d = e)
    BY <1>1, <1>3, <1>4, <1>5, <1>8
  <2>2. ASSUME InverseOf(s, v)
        PROVE  Wrote(tx'[s], x) /\ tx'[s].rows[x] = d.before
    <3>1. PICK lock \in {Row, Key} : Writes(s, d.slot, d.before, lock, Full(Credited(tx[s])))
      BY <2>2 DEF InverseOf
    <3>2. Wrote(tx'[s], d.slot)
      BY <1>1, <1>4, <3>1, WriteHolds
    <3>3. QED
      BY <1>4, <1>8, <3>1, <3>2 DEF Writes
  <2>3. CASE ~Wrote(tx[s], x) /\ Clean(c) \in Pending(s) /\ Clean(e) \in Pending(s)
    <3>1. Seen(s, x) = e.after
      BY <1>4, <2>3 DEF Seen
    <3>2. d = e
      <4> SUFFICES ASSUME d = c, c # e PROVE FALSE
        BY <2>1
      <4>1. Seen(s, x) # Absent /\ IsDelete(d)
        BY <1>4, <3>1 DEF Proper, IsInsert, IsDelete
      <4>2. QED
        BY <1>8, <4>1, InverseMoves DEF InverseOf, Skipped
    <3>3. ~Skipped(s, v)
      BY <1>8, <3>1, <3>2 DEF Skipped, Matches, IsDelete
    <3>4. Wrote(tx'[s], x) /\ tx'[s].rows[x] = e.before
      BY <2>2, <3>2, <3>3, InverseMoves
    <3>5. CASE c = e
      <4>1. \A u \in Pending(s)' : u.change.slot # x
        BY <1>2, <1>3, <1>4, <1>5, <2>1, <3>2, <3>5
      <4>2. QED
        BY <1>6, <3>4, <3>5, <4>1 DEF Restoring, Stages
    <3>6. CASE c # e
      <4>1. tx'[s].rows[x] = Absent
        BY <1>4, <3>4, <3>6 DEF IsInsert
      <4>2. Clean(c) \in Pending(s)'
        BY <1>2, <2>1, <2>3, <3>2, <3>6 DEF Clean
      <4>3. \A u \in Pending(s)' : u.change # e
        BY <1>2, <1>3, <1>4, <1>5, <2>1, <3>2
      <4>4. QED
        BY <1>6, <3>4, <3>6, <4>1, <4>2, <4>3 DEF Restoring, Stages
    <3>7. QED
      BY <3>5, <3>6
  <2>4. CASE /\ Wrote(tx[s], x) /\ tx[s].rows[x] = Absent /\ c # e
             /\ Clean(c) \in Pending(s) /\ \A u \in Pending(s) : u.change # e
    <3>1. d = c /\ IsDelete(d)
      BY <1>3, <1>4, <2>1, <2>4
    <3>2. Wrote(tx'[s], x) /\ tx'[s].rows[x] = c.before
      BY <2>2, <3>1, InverseMoves DEF Skipped
    <3>3. \A u \in Pending(s)' : u.change.slot # x
      BY <1>2, <1>3, <1>4, <1>5, <2>1, <2>4, <3>1
    <3>4. QED
      BY <1>6, <3>2, <3>3 DEF Restoring, Stages
  <2>5. CASE \A u \in Pending(s) : u.change.slot # x
    BY <1>3, <1>8, <2>5
  <2>6. QED
    BY <1>3, <2>3, <2>4, <2>5 DEF Stages
<1>9. QED
  BY <1>7, <1>8

\* What an assessment finds of such a row is clean.
LEMMA FoundClean ==
  ASSUME IInv, Ordered, NEW s \in Sessions, sess[s].pc = "inspecting",
         NEW c \in sess[s].changes, NEW e \in sess[s].changes, Simply(s, c, e), LastWord(e),
         NEW d \in sess[s].changes, d.slot = c.slot
  PROVE  StatusOf(sess[s].changes, d, db.rows[d.slot]) = "clean"
<1>1. /\ c.slot = e.slot /\ db.rows[d.slot] = e.after /\ (d = c \/ d = e)
      /\ \A g \in sess[s].changes : g.slot = c.slot => g = c \/ g = e
      /\ c # e => IsDelete(c) /\ IsInsert(e) /\ c.seq < e.seq
  BY SimplyTwo, WordHolds
<1>2. Proper(c) /\ Proper(e) /\ e.seq \in Nat
  BY SessionAt, EntryParts DEF Ordered, Lined, Session
<1>3. CASE d = e
  BY <1>1, <1>3 DEF StatusOf, IsDelete
<1>4. CASE d = c /\ c # e
  <2>1. IsDelete(c) /\ ~IsInsert(c)
    BY <1>1, <1>2, <1>4 DEF Proper
  <2>2. \A j \in sess[s].changes : j.slot = d.slot /\ IsInsert(j) => j.seq <= e.seq
    BY <1>1, <1>2, <1>4, <2>1
  <2>3. FreedBy(sess[s].changes, d, e.after)
    BY <1>1, <1>4, <2>2 DEF FreedBy
  <2>4. QED
    BY <1>1, <1>4, <2>1, <2>3 DEF StatusOf
<1>5. QED
  BY <1>1, <1>3, <1>4

\* The steps that keep what the session has read: nobody takes a last word back.
LEMMA OnwardRestores ==
  ASSUME IInv, NEW s \in Sessions, RestoresAt(s), [Next]_vars,
         sess'[s].changes = sess[s].changes, sess'[s].op = sess[s].op,
         sess'[s].verdicts \cap sess'[s].deferred = {},
         sess'[s].pc \in {"inspecting", "applying"} => sess[s].pc \in {"inspecting", "applying"},
         sess'[s].pc \in {"inspecting", "applying"} =>
            \A c, e \in sess[s].changes :
              Simply(s, c, e) /\ LastWord(e) /\ Restoring(s, c, e) => Restoring(s, c, e)'
  PROVE  RestoresAt(s)'
<1>1. \A c \in sess'[s].changes : c.op = sess'[s].op
  BY DEF RestoresAt
<1>2. ASSUME sess'[s].pc \in {"inspecting", "applying"},
             NEW c \in sess[s].changes, NEW e \in sess[s].changes, Simply(s, c, e)', LastWord(e)'
      PROVE  Restoring(s, c, e)'
  <2>1. Simply(s, c, e)
    BY <1>2 DEF Simply
  <2>2. Remembers(sess[s], db, minted, tx) /\ e \in Entry
    BY <1>2, SessionAt DEF SessOK, Session
  <2>3. \A k \in Clients : tx[k].op # e.op
    BY <2>2 DEF Remembers, RestoresAt
  <2>4. LastWord(e)
    BY <1>2, <2>2, <2>3, StepKeepsWord
  <2>5. Restoring(s, c, e)
    BY <1>2, <2>1, <2>4 DEF RestoresAt
  <2>6. QED
    BY <1>2, <2>1, <2>4, <2>5
<1>3. QED
  BY <1>1, <1>2 DEF RestoresAt

LEMMA StaysRestoring ==
  ASSUME IInv, NEW s \in Sessions, RestoresAt(s), [Next]_vars,
         sess'[s] = sess[s], tx'[s] = tx[s]
  PROVE  RestoresAt(s)'
<1>1. \A c, e \in sess[s].changes : Restoring(s, c, e) => Restoring(s, c, e)'
  BY DEF Restoring, Stages, Pending
<1>2. QED
  BY <1>1, OnwardRestores DEF RestoresAt

\* A session that has read no changes has nothing to restore.
LEMMA NothingRead ==
  ASSUME NEW s \in Sessions, sess'[s].changes = {}, sess'[s].verdicts = {}
  PROVE  RestoresAt(s)'
BY DEF RestoresAt

LEMMA IdleRestores ==
  ASSUME NEW s \in Sessions, sess'[s] = Idle
  PROVE  RestoresAt(s)'
BY NothingRead DEF Idle

LEMMA ReadOperationRestores ==
  ASSUME IInv, NEW s \in Sessions, ReadOperation(s)
  PROVE  RestoresAt(s)'
<1>1. PICK o \in OpIds :
        sess' = [sess EXCEPT ![s] = [Idle EXCEPT !.pc = "reading", !.op = o,
                    !.capped = db.ops[o].capped, !.undone = db.ops[o].undone]]
  BY DEF ReadOperation
<1>2. sess'[s].changes = {} /\ sess'[s].verdicts = {}
  BY <1>1, SessionAt DEF Idle
<1>3. QED
  BY <1>2, NothingRead

LEMMA ReadChangesRestores ==
  ASSUME IInv, Careful, NEW s \in Sessions, ReadChanges(s)
  PROVE  RestoresAt(s)'
<1>1. /\ sess[s].pc = "reading"
      /\ sess' = [sess EXCEPT ![s].pc = "inspecting", ![s].changes = ChangesOf(db, sess[s].op)]
  BY DEF ReadChanges
<1>2. sess[s].verdicts = {} /\ sess[s].deferred = {}
  BY <1>1 DEF Careful, CarefulAt
<1>3. /\ sess'[s].pc = "inspecting" /\ sess'[s].changes = ChangesOf(db, sess[s].op)
      /\ sess'[s].op = sess[s].op /\ sess'[s].verdicts = {} /\ sess'[s].deferred = {}
  BY <1>1, <1>2, SessionAt DEF Session
<1>4. \A c \in sess'[s].changes : c.op = sess'[s].op
  BY <1>3 DEF ChangesOf
<1>5. \A c, e : Restoring(s, c, e)'
  BY <1>3 DEF Restoring, Pending
<1>6. QED
  BY <1>3, <1>4, <1>5 DEF RestoresAt

LEMMA LiveRowsRestores ==
  ASSUME IInv, Careful, Ordered, NEW s \in Sessions, RestoresAt(s), [Next]_vars, LiveRows(s)
  PROVE  RestoresAt(s)'
<1> DEFINE found(e) == [change |-> e, status |-> StatusOf(sess[s].changes, e, db.rows[e.slot])]
<1>1. PICK es \in SUBSET sess[s].changes :
        sess' = [sess EXCEPT ![s].verdicts = @ \cup {found(e) : e \in es}]
  <2>1. PICK c : sess' = [sess EXCEPT ![s].verdicts = @ \cup
                   {found(e) : e \in {f \in sess[s].changes : Table[f.slot] = Table[c.slot]}}]
    BY DEF LiveRows
  <2>2. {f \in sess[s].changes : Table[f.slot] = Table[c.slot]} \in SUBSET sess[s].changes
    OBVIOUS
  <2>3. QED
    BY <2>1, <2>2
<1>2. sess[s].pc = "inspecting" /\ sess[s] \in Session /\ sess[s].deferred = {}
  BY SessionAt DEF LiveRows, Careful, CarefulAt
<1>3. /\ sess'[s].pc = "inspecting" /\ sess'[s].changes = sess[s].changes
      /\ sess'[s].op = sess[s].op /\ sess'[s].deferred = {}
      /\ sess'[s].verdicts = sess[s].verdicts \cup {found(e) : e \in es}
  BY <1>1, <1>2, SessionAt DEF Session
<1>4. ASSUME NEW c \in sess[s].changes, NEW e \in sess[s].changes,
             Simply(s, c, e), LastWord(e), Restoring(s, c, e)
      PROVE  Restoring(s, c, e)'
  <2>1. ASSUME NEW v \in sess'[s].verdicts, v.change.slot = c.slot
        PROVE  v.status = "clean"
    <3>1. CASE v \in sess[s].verdicts
      BY <1>4, <2>1, <3>1 DEF Restoring, Pending
    <3>2. CASE v \notin sess[s].verdicts
      <4>1. PICK d \in es : v = found(d)
        BY <1>3, <2>1, <3>2
      <4>2. d \in sess[s].changes /\ d.slot = c.slot
            /\ v.status = StatusOf(sess[s].changes, d, db.rows[d.slot])
        BY <2>1, <4>1
      <4>3. QED
        BY <1>2, <1>4, <4>2, FoundClean
    <3>3. QED
      BY <3>1, <3>2
  <2>2. QED
    BY <1>3, <2>1 DEF Restoring, Pending
<1>5. QED
  BY <1>2, <1>3, <1>4, OnwardRestores

\* Every change of such a row was found clean, so it is one to invert; nothing
\* is written yet.
LEMMA BeginRestores ==
  ASSUME IInv, Careful, NEW s \in Sessions, RestoresAt(s), [Next]_vars, UndoBegin(s)
  PROVE  RestoresAt(s)'
<1> DEFINE forced == Conflicts(s) # {}
           todo == ToInvert(s)
           tables == {Table[v.change.slot] : v \in todo}
<1>1. /\ sess[s] \in Session /\ sess[s].pc = "inspecting" /\ sess[s].deferred = {}
      /\ Uninspected(s) = {} /\ sess[s].changes \subseteq Entry
      /\ sess' = [sess EXCEPT ![s].pc = "applying", ![s].forced = forced, ![s].verdicts = todo,
                              ![s].tables = tables]
  BY SessionAt DEF UndoBegin, Assessed, Careful, CarefulAt, Session
<1> HIDE DEF forced, tables
<1>2. /\ sess'[s].pc = "applying" /\ sess'[s].changes = sess[s].changes
      /\ sess'[s].op = sess[s].op /\ sess'[s].deferred = {} /\ sess'[s].verdicts = todo
  BY <1>1, SessionAt DEF Session
<1>3. \A x \in Slots : ~Wrote(tx'[s], x)
  BY BeginRests DEF Rests
<1>4. ASSUME NEW c \in sess[s].changes, NEW e \in sess[s].changes,
             Simply(s, c, e), LastWord(e), Restoring(s, c, e)
      PROVE  Restoring(s, c, e)'
  <2>1. ASSUME NEW d \in sess[s].changes, d.slot = c.slot PROVE Clean(d) \in todo
    <3>1. PICK v \in sess[s].verdicts : v.change = d
      BY <1>1, <2>1 DEF Uninspected
    <3>2. v \in Verdict /\ v.status = "clean"
      BY <1>1, <1>4, <2>1, <3>1 DEF Restoring, Pending, Session
    <3>3. v = Clean(d)
      BY <3>1, <3>2 DEF Verdict, Clean
    <3>4. QED
      BY <3>1, <3>2, <3>3 DEF ToInvert
  <2>2. Clean(c) \in todo /\ Clean(e) \in todo /\ c.slot \in Slots
    BY <1>1, <1>4, <2>1, SimplyTwo, EntryParts
  <2>3. Pending(s)' = todo /\ todo \subseteq Pending(s)
    BY <1>2 DEF Pending, ToInvert
  <2>4. Stages(s, c, e)'
    BY <1>3, <2>2, <2>3 DEF Stages
  <2>5. QED
    BY <1>4, <2>3, <2>4 DEF Restoring
<1>5. QED
  BY <1>1, <1>2, <1>4, OnwardRestores

LEMMA ApplyNextRestores ==
  ASSUME IInv, Careful, Ordered, NEW s \in Sessions, RestoresAt(s), [Next]_vars, ApplyNext(s)
  PROVE  RestoresAt(s)'
<1>1. PICK v \in sess[s].verdicts :
        /\ NextVerdict(s, v) /\ ApplyInverse(s, v)
        /\ sess' = [sess EXCEPT ![s].verdicts = @ \ {v}, ![s].progress = TRUE]
  BY DEF ApplyNext
<1>2. sess[s].pc = "applying" /\ sess[s] \in Session
  BY <1>1, SessionAt DEF NextVerdict
<1>3. /\ sess'[s].changes = sess[s].changes /\ sess'[s].op = sess[s].op
      /\ sess'[s].verdicts = sess[s].verdicts \ {v} /\ sess'[s].deferred = sess[s].deferred
  BY <1>1, <1>2, SessionAt DEF Session
<1>4. sess'[s].verdicts \cap sess'[s].deferred = {}
  BY <1>3 DEF RestoresAt
<1>5. \A c, e \in sess[s].changes : Simply(s, c, e) /\ LastWord(e) => Restoring(s, c, e)'
  BY <1>1, ApplyStages
<1>6. QED
  BY <1>2, <1>3, <1>4, <1>5, OnwardRestores

\* A row put off stays to be inverted.
LEMMA RoundRestores ==
  ASSUME IInv, NEW s \in Sessions, RestoresAt(s), [Next]_vars, PutOff(s) \/ NextRound(s)
  PROVE  RestoresAt(s)'
<1>1. sess[s] \in Session /\ sess[s].pc = "applying" /\ tx' = tx
  BY SessionAt DEF PutOff, NextRound, NextVerdict, RoundOver
<1>2. /\ sess'[s].pc = "applying" /\ sess'[s].changes = sess[s].changes /\ sess'[s].op = sess[s].op
      /\ sess'[s].verdicts \cap sess'[s].deferred = {}
      /\ Pending(s)' = Pending(s)
  <2>1. CASE PutOff(s)
    <3>1. PICK v \in sess[s].verdicts :
            sess' = [sess EXCEPT ![s].verdicts = @ \ {v}, ![s].deferred = @ \cup {v}]
      BY <2>1 DEF PutOff
    <3>2. /\ sess'[s].pc = "applying" /\ sess'[s].changes = sess[s].changes
          /\ sess'[s].op = sess[s].op
          /\ sess'[s].verdicts = sess[s].verdicts \ {v}
          /\ sess'[s].deferred = sess[s].deferred \cup {v}
      BY <1>1, <3>1, SessionAt DEF Session
    <3>3. QED
      BY <3>2 DEF RestoresAt, Pending
  <2>2. CASE NextRound(s)
    <3>1. /\ sess'[s].pc = "applying" /\ sess'[s].changes = sess[s].changes
          /\ sess'[s].op = sess[s].op
          /\ sess[s].verdicts = {} /\ sess'[s].verdicts = sess[s].deferred
          /\ sess'[s].deferred = {}
      BY <1>1, <2>2, SessionAt DEF NextRound, RoundOver, Session
    <3>2. QED
      BY <3>1 DEF Pending
  <2>3. QED
    BY <2>1, <2>2
<1>3. \A c, e \in sess[s].changes : Restoring(s, c, e) => Restoring(s, c, e)'
  BY <1>1, <1>2 DEF Restoring, Stages
<1>4. QED
  BY <1>1, <1>2, <1>3, OnwardRestores

LEMMA RestoresNext ==
  ASSUME IInv, Careful, Ordered, Restores, [Next]_vars
  PROVE  Restores'
<1> SUFFICES ASSUME NEW s \in Sessions PROVE RestoresAt(s)'
  BY DEF Restores
<1>1. /\ RestoresAt(s) /\ s \in Clients
      /\ sess \in [Sessions -> Session] /\ sess[s] \in Session /\ tx \in [Clients -> Transaction]
  BY SessionAt DEF Restores, IInv, TypeOK
<1>2. ASSUME sess'[s] = sess[s], tx'[s] = tx[s] PROVE RestoresAt(s)'
  BY <1>1, <1>2, StaysRestoring
<1>3. ASSUME NEW c \in Clients, Ended(c), Returns(c) PROVE RestoresAt(s)'
  <2>1. CASE c = s
    BY <1>1, <1>3, <2>1, IdleRestores DEF Returns
  <2>2. CASE c # s
    <3>1. sess'[s] = sess[s] /\ tx'[s] = tx[s]
      BY <1>1, <1>3, <2>2 DEF Ended, Returns
    <3>2. QED
      BY <3>1, <1>2
  <2>3. QED
    BY <2>1, <2>2
<1>4. ASSUME sess'[s].pc = "running", sess'[s].changes = sess[s].changes, sess'[s].op = sess[s].op,
             sess'[s].verdicts = sess[s].verdicts, sess'[s].deferred = sess[s].deferred
      PROVE  RestoresAt(s)'
  BY <1>1, <1>4 DEF RestoresAt
<1>5. ASSUME NEW c \in Clients, UserWrite(c) PROVE RestoresAt(s)'
  <2>1. PICK x \in Slots, v \in Content, lock \in {Row, Key} :
          Writes(c, x, v, lock, Full(Credited(tx[c])))
    BY <1>5, UserMoves DEF Moving
  <2>2. sess' = sess /\ (c # s => tx'[s] = tx[s])
    BY <1>1, <1>5, <2>1 DEF UserWrite, Writes
  <2>3. c = s => sess[s].pc = "running"
    BY <1>5 DEF UserWrite, Running
  <2>4. QED
    BY <1>2, <1>4, <2>2, <2>3
<1>6. ASSUME NEW k \in Sessions, SessionStep(k), k # s PROVE RestoresAt(s)'
  <2>1. CASE UndoFail(k)
    BY <1>3, <2>1, SessionAt DEF UndoFail
  <2>2. CASE UndoCommit(k)
    BY <1>3, <2>2, SessionAt DEF UndoCommit, Commits
  <2>3. CASE ExecBegin(k) \/ UndoBegin(k)
    <3>1. tx'[s] = tx[s]
      BY <1>1, <1>6, <2>3, BeginRests
    <3>2. sess'[s] = sess[s]
      BY <1>1, <1>6, <2>3 DEF ExecBegin, UndoBegin
    <3>3. QED
      BY <1>2, <3>1, <3>2
  <2>4. CASE ApplyNext(k)
    <3>1. tx'[s] = tx[s]
      BY <1>1, <1>6, <2>4, ApplyMoves DEF Moving, Writes
    <3>2. sess'[s] = sess[s]
      BY <1>1, <1>6, <2>4 DEF ApplyNext
    <3>3. QED
      BY <1>2, <3>1, <3>2
  <2>5. CASE ReadOperation(k) \/ ReadChanges(k) \/ LiveRows(k) \/ Report(k) \/ PutOff(k) \/ NextRound(k)
    <3>1. sess'[s] = sess[s] /\ tx'[s] = tx[s]
      BY <1>1, <1>6, <2>5 DEF ReadOperation, ReadChanges, LiveRows, Report, PutOff, NextRound
    <3>2. QED
      BY <1>2, <3>1
  <2>6. QED
    BY <1>6, <2>1, <2>2, <2>3, <2>4, <2>5 DEF SessionStep
<1>7. ASSUME SessionStep(s) PROVE RestoresAt(s)'
  <2>1. CASE UndoFail(s) \/ UndoCommit(s)
    BY <1>1, <1>3, <2>1 DEF UndoFail, UndoCommit, Commits
  <2>2. CASE Report(s)
    BY <1>1, <2>2, IdleRestores DEF Report
  <2>3. CASE ExecBegin(s)
    <3>1. /\ sess'[s].pc = "running" /\ sess'[s].changes = sess[s].changes /\ sess'[s].op = sess[s].op
          /\ sess'[s].verdicts = sess[s].verdicts /\ sess'[s].deferred = sess[s].deferred
      BY <1>1, <2>3 DEF ExecBegin, Session
    <3>2. QED
      BY <3>1, <1>4
  <2>4. QED
    BY <1>1, <1>7, <2>1, <2>2, <2>3, BeginRestores, ReadOperationRestores, ReadChangesRestores,
       LiveRowsRestores, ApplyNextRestores, RoundRestores DEF SessionStep
<1>8. ASSUME Purge \/ SetLimit \/ UNCHANGED vars PROVE RestoresAt(s)'
  <2>1. sess' = sess /\ tx' = tx
    BY <1>8 DEF Purge, SetLimit, vars
  <2>2. QED
    BY <1>2, <2>1
<1>9. ASSUME NEW c \in Clients, Commit(c) \/ Abandon(c) PROVE RestoresAt(s)'
  BY <1>3, <1>9 DEF Commit, Abandon, Commits
<1>10. QED
  BY <1>5, <1>6, <1>7, <1>8, <1>9 DEF Next

LEMMA InitRestores == Init => Restores
BY DEF Init, Restores, RestoresAt, Idle

\* UndoRestores: an undo that commits puts every row on which its operation has
\* the last word back to what it was, whatever is committed between the reads of
\* assess and the inverses and however often the foreign keys put a row off
\* (assess, _apply_all and _apply_inverse, engines/postgres.py). The last word of
\* the log is what the row holds (LogTruth); a last word is not taken twice, so
\* what has it at the COMMIT had it at every read; its changes are therefore
\* found clean, and each inverse finds its row as the one before left it.
THEOREM PutsBack == Spec => UndoRestores
<1> DEFINE Restored(s) ==
      UndoCommitted(s) =>
        \A c, e \in sess[s].changes :
          Simply(s, c, e) /\ LastWord(e) => db'.rows[c.slot] = c.before
<1>1. ASSUME IInv, Restores, [Next]_vars, NEW s \in Sessions, UndoCommitted(s),
             NEW c \in sess[s].changes, NEW e \in sess[s].changes, Simply(s, c, e), LastWord(e)
      PROVE  db'.rows[c.slot] = c.before
  <2>1. UndoCommit(s) /\ s \in Clients /\ c.slot \in Slots
    BY <1>1, SessionAt, CommitOfUndo, EntryParts DEF Session
  <2>2. sess[s].pc = "applying" /\ Pending(s) = {}
    BY <2>1 DEF UndoCommit, RoundOver, Pending
  <2>3. Stages(s, c, e)
    BY <1>1, <2>2 DEF Restores, RestoresAt, Restoring
  <2>4. Wrote(tx[s], c.slot) /\ tx[s].rows[c.slot] = c.before
    BY <2>2, <2>3 DEF Stages
  <2>5. db'.rows[c.slot] = Seen(s, c.slot)
    <3>1. Commits(s, MarkedUndone(sess[s].op, tx[s].op)) /\ Marks(MarkedUndone(sess[s].op, tx[s].op))
      BY <1>1, <2>1, <2>2, MarkedMarks DEF UndoCommit
    <3>2. QED
      BY <1>1, <2>1, <3>1, CommitsWhat
  <2>6. QED
    BY <2>4, <2>5 DEF Seen
<1>2. IInv /\ Restores /\ [Next]_vars => [\A s \in Sessions : Restored(s)]_vars
  BY <1>1
<1>3. IInv /\ Careful /\ Ordered /\ Restores /\ [Next]_vars => Restores'
  BY RestoresNext
<1>4. Spec => []Restores
  BY <1>3, AlwaysOrdered, InitRestores, PTL DEF Spec
<1>5. QED
  BY <1>2, <1>4, Inductive, PTL DEF Spec, UndoRestores
=============================================================================
