-------------------------- MODULE MySqlEngineProofs --------------------------
(***************************************************************************)
(* Proofs about MySqlEngine, for any rows, foreign keys, tables, client      *)
(* connections, limits and bounds.                                          *)
(***************************************************************************)
EXTENDS MySqlEngine, FiniteSetTheorems, TLAPS

-----------------------------------------------------------------------------
(* The inductive invariant.                                                 *)

\* No two transactions hold locks on a row that exclude each other.
Locks == \A c, d \in Clients, x \in Slots : c # d => tx[c].held[x] + tx[d].held[x] <= X

\* A delete that InnoDB may have followed into another table.
Cascading(e) == IsDelete(e) /\ onDelete = "cascade" /\ \E ref \in References : ref[1] = Table[e.slot]

\* Rows lost under a header that is not capped show in the log.
Told(row, log, gone) == gone # {} => row.capped \/ \E e \in log : Cascading(e)

\* The ids of operations: each connection has its own, and one of ctrlz's is of
\* an operation that has not been there yet.
Marks ==
  /\ \A c, d \in Clients : c # d /\ mark[c].op # 0 => mark[c].op # mark[d].op
  /\ \A c \in Clients : mark[c].op <= minted /\ (mark[c].source = "none" => mark[c].op = 0)
  /\ \A o \in OpIds : Exists(db, o) \/ lost[o] # {} => o <= minted
  /\ \A s \in Sessions : mark[s].op # 0 => ~Exists(db, mark[s].op) /\ lost[mark[s].op] = {}
  /\ \A c \in Outsiders :
       /\ mark[c].source # "ctrlz"
       /\ mark[c].op # 0 /\ Exists(db, mark[c].op) => db.ops[mark[c].op].source = "external"

\* Transaction t of a connection that writes under the marker m.
Recording(t, m) ==
  /\ t.row = NoOp => t.log = {} /\ t.lost = {}
  /\ t.row # NoOp => m.op # 0 /\ t.row.source = m.source
  /\ IsFiniteSet(t.log)
  /\ \A e \in t.log : e.op = m.op /\ e.seq <= seq /\ e \notin db.log
  /\ t.row # NoOp /\ ~t.row.capped =>
       t.row.count <= Cardinality(ChangesOf(db, m.op)) + Cardinality(t.log)
  /\ Told(t.row, t.log, t.lost)

Committed ==
  /\ IsFiniteSet(db.log) /\ \A c \in db.log : c.seq <= seq
  /\ CountedIsStored
  /\ \A o \in OpIds : db.ops[o].source = "ctrlz" => Told(db.ops[o], ChangesOf(db, o), lost[o])

\* What a session knows of an operation of ctrlz's is true as long as it is there.
Remembers(r) ==
  /\ r.op \in OpIds /\ r.op <= minted /\ \A s \in Sessions : mark[s].op # r.op
  /\ db.ops[r.op].source = "ctrlz" =>
       /\ r.capped = db.ops[r.op].capped
       /\ r.pc # "reading" => r.changes = ChangesOf(db, r.op)

\* The rows an undo nobody forced has written held what the operation left in
\* them, or it had no image to compare with.
MovesOwnRows(s) ==
  \A x \in Slots : Wrote(tx[s], x) /\ x \notin tx[s].lost =>
    \E c \in sess[s].changes :
      c.slot = x /\ (c.after = db.rows[x] \/ (sess[s].pc = "viewed" /\ c \notin sess[s].images))

Careful(s) ==
  /\ \A v \in sess[s].verdicts \cup sess[s].deferred :
       v.change \in sess[s].changes /\ (~sess[s].forced => v.status = "clean")
  /\ ~sess[s].forced => MovesOwnRows(s)

SessOK(s) ==
  /\ IF sess[s].pc \in {"running", "applying", "viewed"}
     THEN mark[s].source = "ctrlz" ELSE tx[s] = NoTx /\ mark[s] = Unset
  /\ sess[s].pc \in {"reading", "inspecting", "applying", "viewed"} => Remembers(sess[s])
  /\ sess[s].pc \in {"idle", "running"} => sess[s] = [Idle EXCEPT !.pc = sess[s].pc]
  /\ sess[s].pc = "reading" => sess[s].verdicts = {} /\ sess[s].deferred = {}
  /\ sess[s].pc = "inspecting" =>
       /\ sess[s].deferred = {}
       /\ \A v \in sess[s].verdicts : v.change \in sess[s].changes
  /\ Applying(s) => ~sess[s].capped /\ CascadeBlockers(s) = {} /\ Careful(s)

\* Everything but the sessions of ctrlz.
DataInv == TypeOK /\ Locks /\ Marks /\ Committed /\ \A c \in Clients : Recording(tx[c], mark[c])

\* An entry is not of a row that neither was there before nor is afterwards.
Real(e) == ~(IsInsert(e) /\ IsDelete(e))
Imaged ==
  /\ \A e \in db.log : Real(e)
  /\ \A c \in Clients : \A e \in tx[c].log : Real(e)
  /\ \A s \in Sessions : \A e \in sess[s].changes : Real(e)

IInv == DataInv /\ Imaged /\ \A s \in Sessions : SessOK(s)

LEMMA NullsTyped ==
  /\ NoOp \in OpRow /\ NoTx \in Transaction /\ Unset \in Marker /\ Idle \in Session
  /\ NoTx.row = NoOp /\ NoTx.log = {} /\ NoTx.lost = {} /\ NoTx.held = [x \in Slots |-> None]
  /\ Unset.op = 0 /\ Unset.source = "none" /\ NoOp.source = "none" /\ ~NoOp.capped /\ NoOp.count = 0
  /\ Idle.pc = "idle" /\ Idle.verdicts = {} /\ Idle.deferred = {}
<1>1. NoOp \in OpRow /\ Unset \in Marker
  BY ConstantsOK DEF NoOp, OpRow, Unset, Marker
<1>2. NoTx \in Transaction
  BY <1>1 DEF NoTx, Transaction, Content, None, X
<1>3. Idle \in Session
  BY ConstantsOK DEF Idle, Session
<1>4. QED
  BY <1>1, <1>2, <1>3 DEF NoOp, NoTx, Unset, Idle

-----------------------------------------------------------------------------
(* Row writes, whoever makes them.                                          *)

LEMMA ChangesFinite ==
  ASSUME Committed, NEW o
  PROVE  IsFiniteSet(ChangesOf(db, o)) /\ Cardinality(ChangesOf(db, o)) \in Nat
<1>1. ChangesOf(db, o) \in SUBSET db.log
  BY DEF ChangesOf
<1>2. QED
  BY <1>1, FS_Subset, FS_CardinalityType DEF Committed

LEMMA ClaimedSound ==
  ASSUME TypeOK, Marks, NEW c \in Clients, Claimed(c).op \in OpIds
  PROVE  /\ Claimed(c) \in Marker /\ Claimed(c).op # 0 /\ Claimed(c).source # "none"
         /\ mark[c].op # 0 => Claimed(c) = mark[c]
         /\ mark[c].op = 0 => Claimed(c).op = minted + 1
         /\ mark[c].source # "none" => Claimed(c).source = mark[c].source
         /\ mark[c].source = "none" => Claimed(c).source = "external"
<1>1. mark[c] \in Marker /\ minted \in 0 .. MaxOps
  BY DEF TypeOK
<1>2. mark[c].source = "none" => mark[c].op = 0
  BY DEF Marks
<1>3. QED
  BY <1>1, <1>2, ConstantsOK DEF Claimed, Marker, OpIds

LEMMA CountedRow ==
  ASSUME NEW row \in OpRow, db.limit \in Nat
  PROVE  /\ Counted(row) \in OpRow /\ Counted(row).count = row.count + 1
         /\ Counted(row).source = row.source /\ (row.capped => Counted(row).capped)
<1> DEFINE n == row.count + 1
           b == row.capped \/ n > db.limit
<1>1. n \in Nat /\ b \in BOOLEAN /\ (row.capped => b)
  BY DEF OpRow
<1>2. Counted(row) = [row EXCEPT !.count = n, !.capped = b]
  BY DEF Counted
<1> HIDE DEF n, b
<1>3. CASE b
  <2>1. Counted(row) = [row EXCEPT !.count = n, !.capped = TRUE]
    BY <1>1, <1>2, <1>3
  <2>2. QED
    <3>1. /\ Counted(row) \in OpRow /\ Counted(row).count = n /\ Counted(row).source = row.source
          /\ Counted(row).capped
      BY <1>1, <2>1 DEF OpRow
    <3>2. QED
      BY <3>1 DEF n
<1>4. CASE ~b
  <2>1. Counted(row) = [row EXCEPT !.count = n, !.capped = FALSE]
    BY <1>1, <1>2, <1>4
  <2>2. Counted(row) \in OpRow /\ Counted(row).count = n /\ Counted(row).source = row.source
    BY <1>1, <2>1 DEF OpRow
  <2>3. QED
    BY <1>1, <1>4, <2>2 DEF n
<1>5. QED
  BY <1>3, <1>4

LEMMA CreditedSound ==
  ASSUME DataInv, NEW c \in Clients, Claimed(c).op \in OpIds
  PROVE  /\ Credited(c) \in OpRow /\ Credited(c).source = Claimed(c).source
         /\ ~Credited(c).capped =>
              Credited(c).count <= Cardinality(ChangesOf(db, Claimed(c).op)) + Cardinality(tx[c].log)
         /\ tx[c].row # NoOp => Credited(c) = tx[c].row
         /\ mark[c].op = 0 => tx[c].log = {} /\ tx[c].lost = {}
<1>1. TypeOK /\ Marks /\ Committed /\ Recording(tx[c], mark[c])
  BY DEF DataInv
<1>2. /\ tx[c] \in Transaction /\ mark[c] \in Marker /\ db \in Database
      /\ Claimed(c) \in Marker /\ Claimed(c).source # "none"
      /\ mark[c].op # 0 => Claimed(c) = mark[c]
  BY <1>1, ClaimedSound DEF TypeOK
<1>3. CASE tx[c].row # NoOp
  <2>1. mark[c].op # 0 /\ tx[c].row.source = mark[c].source
    BY <1>1, <1>3 DEF Recording
  <2>2. Credited(c) = tx[c].row
    BY <1>3 DEF Credited
  <2>3. QED
    BY <1>1, <1>2, <1>3, <2>1, <2>2 DEF Recording, Transaction
<1>4. CASE tx[c].row = NoOp
  <2>1. tx[c].log = {} /\ tx[c].lost = {} /\ Cardinality(tx[c].log) = 0
    BY <1>1, <1>4, FS_EmptySet DEF Recording
  <2>2. Cardinality(ChangesOf(db, Claimed(c).op)) \in Nat
    BY <1>1, ChangesFinite
  <2>3. CASE mark[c].op # 0 /\ Exists(db, mark[c].op)
    <3>1. Credited(c) = db.ops[mark[c].op] /\ mark[c].op \in OpIds
      BY <1>2, <1>4, <2>3, ConstantsOK DEF Credited, Marker, OpIds
    <3>2. c \in Outsiders
      BY <1>1, <2>3 DEF Marks, Clients
    <3>3. mark[c].source = "external" /\ db.ops[mark[c].op].source = "external"
      BY <1>1, <1>2, <2>3, <3>2 DEF Marks, Marker
    <3>4. ~Credited(c).capped => Credited(c).count <= Cardinality(ChangesOf(db, mark[c].op))
      BY <1>1, <2>3, <3>1 DEF Committed, CountedIsStored
    <3>5. Credited(c) \in OpRow
      BY <1>2, <3>1 DEF Database
    <3>6. QED
      BY <1>2, <1>4, <2>1, <2>2, <2>3, <3>1, <3>3, <3>4, <3>5 DEF OpRow
  <2>4. CASE ~(mark[c].op # 0 /\ Exists(db, mark[c].op))
    <3>1. Credited(c) = [NoOp EXCEPT !.source = Claimed(c).source, !.undoOf = Claimed(c).undoOf]
      BY <1>4, <2>4 DEF Credited
    <3>2. /\ Credited(c).source = Claimed(c).source /\ Credited(c).count = 0
          /\ Credited(c) \in OpRow
      <4>1. Claimed(c).source \in {"none", "external", "ctrlz"} /\ Claimed(c).undoOf \in 0 .. MaxOps
        BY <1>2 DEF Marker
      <4> DEFINE src == Claimed(c).source
                 u   == Claimed(c).undoOf
      <4> HIDE DEF src, u
      <4>2. /\ [NoOp EXCEPT !.source = src, !.undoOf = u] \in OpRow
            /\ [NoOp EXCEPT !.source = src, !.undoOf = u].source = src
            /\ [NoOp EXCEPT !.source = src, !.undoOf = u].count = 0
        <5>1. NoOp \in OpRow /\ NoOp.count = 0
          BY NullsTyped
        <5>2. src \in {"none", "external", "ctrlz"} /\ u \in 0 .. MaxOps
          BY <4>1 DEF src, u
        <5>3. QED
          BY <5>1, <5>2 DEF OpRow
      <4>3. QED
        BY <3>1, <4>2 DEF src, u
    <3>3. QED
      BY <1>4, <2>1, <2>2, <3>2
  <2>5. QED
    BY <2>3, <2>4
<1>5. QED
  BY <1>3, <1>4

\* A write of connection c into slot s may go on: nobody is in the way, and rows
\* follow it only where InnoDB deletes them.
Unhindered(c, s, v, below) ==
  /\ s \in Slots /\ v \in Content /\ below \in SUBSET Slots
  /\ \A x \in below \cup {s} : ~Waits(c, x, X)
  /\ Seen(c, s) = Absent /\ Parent[s] # NoSlot => ~Waits(c, Parent[s], S)
  /\ below # {} => v = Absent /\ onDelete = "cascade" /\ \E k \in Slots : Parent[k] = s

\* What a write of connection c does to what it holds.
Grows(c, s, v, below) ==
  LET t == tx[c]
      u == tx'[c]
  IN  /\ \A d \in Clients \ {c} : tx'[d] = tx[d] /\ mark'[d] = mark[d]
      /\ u \in Transaction /\ mark'[c] \in Marker
      /\ mark'[c] = Claimed(c)
      /\ \A x \in Slots : u.held[x] = IF x \in below \cup {s} THEN X
                                      ELSE IF x = Parent[s] /\ Seen(c, s) = Absent /\ t.held[x] = None
                                           THEN S ELSE t.held[x]
      /\ u.row = Counted(Credited(c)) /\ u.row # NoOp /\ u.lost = t.lost \cup below
      /\ IF u.row.capped THEN u.log = t.log /\ seq' = seq
         ELSE /\ seq' = seq + 1
              /\ u.log = t.log \cup {[seq |-> seq + 1, op |-> Claimed(c).op, slot |-> s,
                                      before |-> Seen(c, s), after |-> v]}
      /\ minted <= minted' /\ minted' \in 0 .. MaxOps /\ Claimed(c).op <= minted'

LEMMA WriteGrows ==
  ASSUME DataInv, NEW c \in Clients, NEW s, NEW v, NEW below, Unhindered(c, s, v, below),
         Write(c, s, v, below)
  PROVE  Grows(c, s, v, below) /\ Claimed(c).op \in OpIds
<1> DEFINE t     == tx[c]
           at    == Claimed(c)
           row   == Counted(Credited(c))
           image == [seq |-> seq + 1, op |-> at.op, slot |-> s, before |-> Seen(c, s), after |-> v]
           held  == [x \in Slots |->
                       IF x \in below \cup {s} THEN X
                       ELSE IF x = Parent[s] /\ Seen(c, s) = Absent /\ t.held[x] = None THEN S
                       ELSE t.held[x]]
           rows  == [x \in Slots |-> IF x \in below THEN Absent ELSE IF x = s THEN v ELSE t.rows[x]]
           log   == IF row.capped THEN t.log ELSE t.log \cup {image}
           u     == [held |-> held, rows |-> rows, row |-> row, log |-> log, lost |-> t.lost \cup below]
<1>1. /\ at.op \in OpIds
      /\ mark' = [mark EXCEPT ![c] = at]
      /\ minted' = IF at.op > minted THEN at.op ELSE minted
      /\ seq' = IF row.capped THEN seq ELSE seq + 1
      /\ tx' = [tx EXCEPT ![c] = u]
  BY DEF Write
<1>2. TypeOK /\ Marks
  BY DEF DataInv
<1>3. /\ tx \in [Clients -> Transaction] /\ mark \in [Clients -> Marker] /\ t \in Transaction
      /\ seq \in Nat /\ minted \in 0 .. MaxOps /\ db \in Database
  BY <1>2 DEF TypeOK
<1>4. /\ s \in Slots /\ v \in Content /\ below \in SUBSET Slots /\ Absent \in Content
  BY DEF Unhindered, Content
<1>5. at \in Marker /\ Credited(c) \in OpRow
  BY <1>1, <1>2, ClaimedSound, CreditedSound
<1>6. row \in OpRow /\ row # NoOp
  <2>1. row.count = Credited(c).count + 1 /\ row \in OpRow
    BY <1>3, <1>5, CountedRow DEF Database
  <2>2. row.count # 0
    BY <1>5, <2>1 DEF OpRow
  <2>3. QED
    BY <2>1, <2>2 DEF NoOp
<1>7. Seen(c, s) \in Content
  BY <1>3, <1>4 DEF Seen, Transaction, Database
<1>8. image \in Entry
  BY <1>1, <1>3, <1>4, <1>7 DEF Entry
<1>9. held \in [Slots -> None .. X]
  BY <1>3 DEF Transaction, None, S, X
<1>10. rows \in [Slots -> Content]
  BY <1>3, <1>4 DEF Transaction
<1>11. \A x \in Slots : held[x] = IF x \in below \cup {s} THEN X
                                  ELSE IF x = Parent[s] /\ Seen(c, s) = Absent /\ t.held[x] = None
                                       THEN S ELSE t.held[x]
  OBVIOUS
<1>12. log \in SUBSET Entry
  BY <1>3, <1>8 DEF Transaction
<1> HIDE DEF held, rows
<1>13. u \in Transaction
  BY <1>3, <1>4, <1>6, <1>9, <1>10, <1>12 DEF Transaction
<1>14. tx'[c] = u /\ mark'[c] = at /\ \A d \in Clients \ {c} : tx'[d] = tx[d] /\ mark'[d] = mark[d]
  BY <1>1, <1>3
<1>15. u.held = held /\ u.row = row /\ u.log = log /\ u.lost = t.lost \cup below
  OBVIOUS
<1> HIDE DEF row, log, image, u
<1>16. minted <= minted' /\ minted' \in 0 .. MaxOps /\ at.op <= minted'
  BY <1>1, <1>3, ConstantsOK DEF OpIds
<1>17. IF u.row.capped THEN u.log = t.log /\ seq' = seq
       ELSE seq' = seq + 1 /\ u.log = t.log \cup {image}
  BY <1>1, <1>15 DEF log
<1> HIDE DEF t, at
<1>18. Grows(c, s, v, below)
  BY <1>5, <1>6, <1>11, <1>13, <1>14, <1>15, <1>16, <1>17 DEF Grows, t, at, row, image
<1>19. QED
  BY <1>1, <1>18 DEF at

LEMMA GrowsLocks ==
  ASSUME DataInv, NEW c \in Clients, NEW s, NEW v, NEW below, Unhindered(c, s, v, below),
         Grows(c, s, v, below)
  PROVE  Locks'
<1>1. /\ TypeOK /\ Locks /\ \A d \in Clients : tx[d] \in Transaction
      /\ \A d \in Clients, x \in Slots : tx[d].held[x] \in 0 .. 2
  BY DEF DataInv, TypeOK, Transaction, None, X
<1>2. /\ tx'[c] \in Transaction /\ \A d \in Clients \ {c} : tx'[d] = tx[d]
      /\ \A x \in Slots : tx'[c].held[x] = IF x \in below \cup {s} THEN X
                                         ELSE IF x = Parent[s] /\ Seen(c, s) = Absent /\ tx[c].held[x] = None
                                              THEN S ELSE tx[c].held[x]
  BY DEF Grows
<1>3. /\ \A x \in below \cup {s}, d \in Clients \ {c} : ~(tx[d].held[x] + X > X)
      /\ Seen(c, s) = Absent /\ Parent[s] # NoSlot =>
           \A d \in Clients \ {c} : ~(tx[d].held[Parent[s]] + S > X)
  BY DEF Unhindered, Waits
<1>4. ASSUME NEW d \in Clients \ {c}, NEW x \in Slots PROVE tx'[c].held[x] + tx[d].held[x] <= X
  <2>1. CASE x \in below \cup {s}
    <3>1. tx'[c].held[x] = X
      BY <1>2, <2>1
    <3>2. ~(tx[d].held[x] + X > X)
      BY <1>3, <2>1
    <3>3. QED
      BY <1>1, <1>4, <3>1, <3>2 DEF X
  <2>2. CASE x \notin below \cup {s} /\ x = Parent[s] /\ Seen(c, s) = Absent /\ tx[c].held[x] = None
    <3>1. tx'[c].held[x] = S /\ Parent[s] # NoSlot
      BY <1>2, <2>2, ConstantsOK
    <3>2. QED
      BY <1>1, <1>3, <1>4, <2>2, <3>1 DEF X, S
  <2>3. CASE x \notin below \cup {s} /\ ~(x = Parent[s] /\ Seen(c, s) = Absent /\ tx[c].held[x] = None)
    <3>1. tx'[c].held[x] = tx[c].held[x]
      BY <1>2, <2>3
    <3>2. QED
      BY <1>1, <1>4, <3>1 DEF Locks
  <2>4. QED
    BY <2>1, <2>2, <2>3
<1>5. ASSUME NEW d \in Clients, NEW e \in Clients, d # e, NEW x \in Slots
      PROVE  tx'[d].held[x] + tx'[e].held[x] <= X
  <2>1. CASE d # c /\ e # c
    BY <1>1, <1>2, <1>5, <2>1 DEF Locks
  <2>2. CASE d = c
    <3>1. tx'[e] = tx[e] /\ tx'[c].held[x] + tx[e].held[x] <= X
      BY <1>2, <1>4, <1>5, <2>2
    <3>2. QED
      BY <2>2, <3>1
  <2>3. CASE e = c
    <3>1. tx'[d] = tx[d] /\ tx'[c].held[x] + tx[d].held[x] <= X
      BY <1>2, <1>4, <1>5, <2>3
    <3>2. tx[d].held[x] \in Nat /\ tx'[c].held[x] \in Nat
      BY <1>1, <1>2 DEF Transaction, None, X
    <3>3. QED
      BY <2>3, <3>1, <3>2
  <2>4. QED
    BY <2>1, <2>2, <2>3
<1>6. QED
  BY <1>5 DEF Locks

LEMMA GrowsMarks ==
  ASSUME DataInv, NEW c \in Clients, NEW s, NEW v, NEW below, Grows(c, s, v, below),
         Claimed(c).op \in OpIds, db' = db, lost' = lost
  PROVE  Marks'
<1>1. /\ TypeOK /\ Marks /\ minted \in Nat /\ \A d \in Clients : mark[d].op \in Nat
      /\ \A o \in OpIds : o \in Nat
  BY ConstantsOK DEF DataInv, TypeOK, Marker, OpIds
<1>2. /\ mark'[c] = Claimed(c) /\ \A d \in Clients \ {c} : mark'[d] = mark[d]
      /\ minted <= minted' /\ minted' \in Nat /\ Claimed(c).op <= minted' /\ mark'[c].op \in OpIds
  BY DEF Grows
<1>3. /\ Claimed(c).op # 0 /\ Claimed(c).source # "none"
      /\ mark[c].op # 0 => Claimed(c) = mark[c]
      /\ mark[c].op = 0 => Claimed(c).op = minted + 1
      /\ mark[c].source # "none" => Claimed(c).source = mark[c].source
      /\ mark[c].source = "none" => Claimed(c).source = "external"
  BY <1>1, ClaimedSound
<1>4. ASSUME mark[c].op = 0
      PROVE  /\ ~Exists(db, mark'[c].op) /\ lost[mark'[c].op] = {}
             /\ \A d \in Clients : mark[d].op # mark'[c].op
  <2>1. mark'[c].op = minted + 1
    BY <1>2, <1>3, <1>4
  <2>2. ~(mark'[c].op <= minted)
    BY <1>1, <2>1
  <2>3. QED
    BY <1>1, <1>2, <2>2 DEF Marks
<1>5. \A d, e \in Clients : d # e /\ mark'[d].op # 0 => mark'[d].op # mark'[e].op
  BY <1>1, <1>2, <1>3, <1>4 DEF Marks
<1>6. \A d \in Clients : mark'[d].op <= minted' /\ (mark'[d].source = "none" => mark'[d].op = 0)
  BY <1>1, <1>2, <1>3 DEF Marks
<1>7. \A o \in OpIds : Exists(db, o) \/ lost[o] # {} => o <= minted'
  BY <1>1, <1>2 DEF Marks
<1>8. \A t \in Sessions : mark'[t].op # 0 => ~Exists(db, mark'[t].op) /\ lost[mark'[t].op] = {}
  BY <1>1, <1>2, <1>3, <1>4 DEF Marks, Clients
<1>9. \A d \in Outsiders :
        /\ mark'[d].source # "ctrlz"
        /\ mark'[d].op # 0 /\ Exists(db, mark'[d].op) => db.ops[mark'[d].op].source = "external"
  BY <1>1, <1>2, <1>3, <1>4 DEF Marks, Clients
<1>10. QED
  BY <1>5, <1>6, <1>7, <1>8, <1>9 DEF Marks, Exists

LEMMA GrowsRecording ==
  ASSUME DataInv, NEW c \in Clients, NEW s, NEW v, NEW below, Unhindered(c, s, v, below),
         Grows(c, s, v, below), Claimed(c).op \in OpIds, db' = db, onDelete' = onDelete
  PROVE  \A d \in Clients : Recording(tx[d], mark[d])'
<1> DEFINE t   == tx[c]
           u   == tx'[c]
           at  == Claimed(c)
           old == Credited(c)
           new == [seq |-> seq + 1, op |-> at.op, slot |-> s, before |-> Seen(c, s), after |-> v]
<1>1. /\ TypeOK /\ Marks /\ Committed /\ \A d \in Clients : Recording(tx[d], mark[d])
      /\ seq \in Nat /\ db.limit \in Nat
  BY DEF DataInv, TypeOK, Database
<1>2. /\ \A d \in Clients \ {c} : tx'[d] = tx[d] /\ mark'[d] = mark[d]
      /\ mark'[c] = at /\ u.row = Counted(old) /\ u.row # NoOp /\ u.lost = t.lost \cup below
      /\ IF u.row.capped THEN u.log = t.log /\ seq' = seq
         ELSE seq' = seq + 1 /\ u.log = t.log \cup {new}
  BY DEF Grows
<1>3. /\ old \in OpRow /\ old.source = at.source /\ at.op # 0
      /\ ~old.capped => old.count <= Cardinality(ChangesOf(db, at.op)) + Cardinality(t.log)
      /\ t.row # NoOp => old = t.row
      /\ mark[c].op # 0 => at = mark[c]
      /\ mark[c].op = 0 => t.log = {} /\ t.lost = {}
  BY <1>1, CreditedSound, ClaimedSound
<1>4. /\ u.row.source = at.source /\ u.row.count = old.count + 1
      /\ old.capped => u.row.capped
  BY <1>1, <1>2, <1>3, CountedRow
<1>5. seq' \in Nat /\ seq <= seq'
  BY <1>1, <1>2
<1>6. \A e \in t.log : e.op = at.op /\ e.seq <= seq /\ e.seq \in Nat /\ e \notin db.log
  BY <1>1, <1>3 DEF Recording, TypeOK, Transaction, Entry
<1>7. /\ new.seq = seq + 1 /\ new.op = at.op /\ new.slot = s /\ new.after = v
  OBVIOUS
<1> HIDE DEF new
<1>8. new \notin t.log /\ new \notin db.log
  BY <1>1, <1>6, <1>7 DEF Committed
<1>9. IsFiniteSet(t.log) /\ Cardinality(t.log) \in Nat
  BY <1>1, FS_CardinalityType DEF Recording
<1>10. /\ IsFiniteSet(u.log)
       /\ Cardinality(u.log) = Cardinality(t.log) + (IF u.row.capped THEN 0 ELSE 1)
  <2>1. IsFiniteSet(t.log \cup {new}) /\ Cardinality(t.log \cup {new}) = Cardinality(t.log) + 1
    BY <1>8, <1>9, FS_AddElement
  <2>2. CASE u.row.capped
    <3>1. u.log = t.log
      BY <1>2, <2>2
    <3>2. QED
      BY <1>9, <2>2, <3>1
  <2>3. CASE ~u.row.capped
    <3>1. u.log = t.log \cup {new}
      BY <1>2, <2>3
    <3>2. QED
      BY <2>1, <2>3, <3>1
  <2>4. QED
    BY <2>2, <2>3
<1>11. \A e \in u.log : e.op = at.op /\ e.seq <= seq' /\ e \notin db.log
  BY <1>1, <1>2, <1>6, <1>7, <1>8
<1>12. ASSUME ~u.row.capped
       PROVE  u.row.count <= Cardinality(ChangesOf(db, at.op)) + Cardinality(u.log)
  <2>1. old.count <= Cardinality(ChangesOf(db, at.op)) + Cardinality(t.log)
    BY <1>3, <1>4, <1>12
  <2>2. Cardinality(ChangesOf(db, at.op)) \in Nat /\ old.count \in Nat
    BY <1>1, <1>3, ChangesFinite DEF OpRow
  <2>3. QED
    BY <1>4, <1>9, <1>10, <1>12, <2>1, <2>2
<1>13. Told(u.row, u.log, u.lost)
  <2> SUFFICES ASSUME u.lost # {}, ~u.row.capped PROVE \E e \in u.log : Cascading(e)
    BY DEF Told
  <2>1. u.log = t.log \cup {new} /\ ~old.capped
    BY <1>2, <1>4
  <2>2. CASE below # {}
    <3>1. v = Absent /\ onDelete = "cascade" /\ \E k \in Slots : Parent[k] = s
      BY <2>2 DEF Unhindered
    <3>2. PICK k \in Slots : Parent[k] = s /\ Parent[k] # NoSlot
      BY <3>1, ConstantsOK DEF Unhindered
    <3>3. <<Table[Parent[k]], Table[k]>> \in References
      BY <3>2 DEF References
    <3>4. Cascading(new)
      BY <1>7, <3>1, <3>2, <3>3 DEF Cascading, IsDelete
    <3>5. QED
      BY <2>1, <3>4
  <2>3. CASE below = {}
    <3>1. t.lost # {}
      BY <1>2, <2>3
    <3>2. t.row # NoOp /\ old = t.row
      BY <1>1, <1>3, <3>1 DEF Recording
    <3>3. \E e \in t.log : Cascading(e)
      BY <1>1, <2>1, <3>1, <3>2 DEF Recording, Told
    <3>4. QED
      BY <2>1, <3>3
  <2>4. QED
    BY <2>2, <2>3
<1> HIDE DEF old
<1>14. Recording(tx[c], mark[c])'
  <2>1. \A e : Cascading(e)' <=> Cascading(e)
    BY DEF Cascading
  <2>2. Told(tx[c].row, tx[c].log, tx[c].lost)'
    BY <1>13, <2>1 DEF Told
  <2>3. /\ mark'[c].op # 0 /\ u.row.source = mark'[c].source /\ u.row # NoOp
        /\ IsFiniteSet(u.log)
        /\ \A e \in u.log : e.op = mark'[c].op /\ e.seq <= seq' /\ e \notin db'.log
        /\ ~u.row.capped =>
             u.row.count <= Cardinality(ChangesOf(db', mark'[c].op)) + Cardinality(u.log)
    BY <1>2, <1>3, <1>4, <1>10, <1>11, <1>12
  <2>4. QED
    BY <2>2, <2>3 DEF Recording
<1>15. ASSUME NEW d \in Clients \ {c} PROVE Recording(tx[d], mark[d])'
  <2>1. \A e \in tx[d].log : e.seq <= seq'
    BY <1>1, <1>5 DEF Recording, TypeOK, Transaction, Entry
  <2>2. /\ tx'[d] = tx[d] /\ mark'[d] = mark[d] /\ Recording(tx[d], mark[d])
        /\ ChangesOf(db, mark[d].op)' = ChangesOf(db, mark[d].op)
    BY <1>1, <1>2 DEF ChangesOf
  <2>3. Told(tx[d].row, tx[d].log, tx[d].lost)' <=> Told(tx[d].row, tx[d].log, tx[d].lost)
    BY <2>2 DEF Told, Cascading
  <2>4. QED
    BY <2>1, <2>2, <2>3 DEF Recording
<1>16. QED
  BY <1>14, <1>15

LEMMA WriteData ==
  ASSUME DataInv, NEW c \in Clients, NEW s, NEW v, NEW below, Unhindered(c, s, v, below),
         Write(c, s, v, below), sess' \in [Sessions -> Session],
         UNCHANGED <<onDelete, db, purging, lost>>
  PROVE  DataInv' /\ Grows(c, s, v, below)
<1>1. Grows(c, s, v, below) /\ Claimed(c).op \in OpIds
  BY WriteGrows
<1>2. TypeOK'
  <2>1. \A d \in Clients : tx'[d] \in Transaction /\ mark'[d] \in Marker
    BY <1>1 DEF Grows, DataInv, TypeOK
  <2>2. tx' \in [Clients -> Transaction] /\ mark' \in [Clients -> Marker]
    BY <2>1 DEF Write, DataInv, TypeOK
  <2>3. seq' \in Nat /\ minted' \in 0 .. MaxOps
    BY <1>1 DEF Grows, DataInv, TypeOK
  <2>4. QED
    BY <2>2, <2>3 DEF DataInv, TypeOK
<1>3. Committed'
  <2>1. seq \in Nat /\ seq' \in Nat /\ seq <= seq' /\ \A e \in db.log : e.seq \in Nat
    BY <1>1 DEF Grows, DataInv, TypeOK, Database, Entry
  <2>2. \A e \in db.log : e.seq <= seq'
    BY <2>1 DEF DataInv, Committed
  <2>3. QED
    BY <2>2 DEF DataInv, Committed, CountedIsStored, ChangesOf, Exists, Told, Cascading
<1>4. QED
  BY <1>1, <1>2, <1>3, GrowsLocks, GrowsMarks, GrowsRecording DEF DataInv

-----------------------------------------------------------------------------
(* What the other steps do to everything but the sessions.                  *)

LEMMA ReaderData ==
  ASSUME DataInv, sess' \in [Sessions -> Session],
         UNCHANGED <<onDelete, db, seq, minted, mark, tx, purging, lost>>
  PROVE  DataInv'
<1>1. /\ TypeOK /\ Locks /\ Marks /\ Committed
      /\ \A d \in Clients : Recording(tx[d], mark[d])
  BY DEF DataInv
<1>2. TypeOK' /\ Locks' /\ Marks'
  BY <1>1 DEF TypeOK, Locks, Marks, Exists
<1>3. Committed'
  BY <1>1 DEF Committed, CountedIsStored, Exists, ChangesOf, Told, Cascading
<1>4. \A d \in Clients : Recording(tx[d], mark[d])'
  BY <1>1 DEF Recording, ChangesOf, Told, Cascading
<1>5. QED
  BY <1>2, <1>3, <1>4 DEF DataInv

\* A connection drops its transaction and keeps its marker or clears it.
LEMMA EndData ==
  ASSUME DataInv, NEW c \in Clients, tx' = [tx EXCEPT ![c] = NoTx],
         \/ mark' = [mark EXCEPT ![c] = Unset]
         \/ mark' = mark,
         sess' \in [Sessions -> Session],
         UNCHANGED <<onDelete, db, seq, minted, purging, lost>>
  PROVE  DataInv'
<1>1. /\ TypeOK /\ Locks /\ Marks /\ Committed
      /\ \A d \in Clients : Recording(tx[d], mark[d])
      /\ tx \in [Clients -> Transaction] /\ mark \in [Clients -> Marker] /\ minted \in Nat
  BY ConstantsOK DEF DataInv, TypeOK
<1>2. /\ tx'[c] = NoTx /\ \A d \in Clients \ {c} : tx'[d] = tx[d] /\ mark'[d] = mark[d]
      /\ mark'[c] \in {mark[c], Unset}
  BY <1>1
<1>3. TypeOK'
  BY <1>1, NullsTyped DEF TypeOK
<1>4. Locks'
  <2>1. \A x \in Slots : NoTx.held[x] = 0
    BY NullsTyped DEF None
  <2>2. \A d \in Clients, x \in Slots : tx[d].held[x] \in 0 .. 2
    BY <1>1 DEF Transaction, None, X
  <2>3. QED
    BY <1>1, <1>2, <2>1, <2>2 DEF Locks, X
<1>5. Marks'
  <2>1. \A d \in Clients : mark'[d] \in {mark[d], Unset}
    BY <1>2
  <2>2. Unset.op = 0 /\ Unset.source = "none"
    BY NullsTyped
  <2>3. \A d, e \in Clients : d # e /\ mark'[d].op # 0 => mark'[d].op # mark'[e].op
    BY <1>1, <2>1, <2>2 DEF Marks
  <2>4. \A d \in Clients : mark'[d].op <= minted /\ (mark'[d].source = "none" => mark'[d].op = 0)
    BY <1>1, <2>1, <2>2 DEF Marks
  <2>5. \A t \in Sessions : mark'[t].op # 0 => ~Exists(db, mark'[t].op) /\ lost[mark'[t].op] = {}
    BY <1>1, <2>1, <2>2 DEF Marks, Clients
  <2>6. \A d \in Outsiders :
          /\ mark'[d].source # "ctrlz"
          /\ mark'[d].op # 0 /\ Exists(db, mark'[d].op) => db.ops[mark'[d].op].source = "external"
    BY <1>1, <2>1, <2>2 DEF Marks, Clients
  <2>7. QED
    BY <1>1, <2>3, <2>4, <2>5, <2>6 DEF Marks, Exists
<1>6. Committed'
  BY <1>1 DEF Committed, CountedIsStored, Exists, ChangesOf, Told, Cascading
<1>7. ASSUME NEW d \in Clients PROVE Recording(tx[d], mark[d])'
  <2>1. CASE d = c
    <3>1. IsFiniteSet(NoTx.log)
      BY NullsTyped, FS_EmptySet
    <3>2. QED
      BY <1>2, <2>1, <3>1, NullsTyped DEF Recording, Told
  <2>2. CASE d # c
    <3>1. Recording(tx[d], mark[d]) /\ tx'[d] = tx[d] /\ mark'[d] = mark[d]
      BY <1>1, <1>2, <2>2
    <3>2. QED
      BY <3>1 DEF Recording, ChangesOf, Told, Cascading
  <2>3. QED
    BY <2>1, <2>2
<1>8. QED
  BY <1>3, <1>4, <1>5, <1>6, <1>7 DEF DataInv

\* A session of ctrlz that holds nothing sets its marker, without an id.
LEMMA BeginData ==
  ASSUME DataInv, NEW s \in Sessions, tx[s] = NoTx, NEW m \in Marker, m.op = 0,
         m.source # "none", mark' = [mark EXCEPT ![s] = m],
         sess' \in [Sessions -> Session],
         UNCHANGED <<onDelete, db, seq, minted, tx, purging, lost>>
  PROVE  DataInv'
<1>1. /\ TypeOK /\ Locks /\ Marks /\ Committed
      /\ \A d \in Clients : Recording(tx[d], mark[d])
      /\ mark \in [Clients -> Marker] /\ s \in Clients /\ s \notin Outsiders
      /\ minted \in Nat
  BY ConstantsOK DEF DataInv, TypeOK, Clients
<1>2. mark'[s] = m /\ \A d \in Clients \ {s} : mark'[d] = mark[d]
  BY <1>1
<1>3. TypeOK'
  BY <1>1 DEF TypeOK
<1>4. Locks'
  BY <1>1 DEF Locks
<1>5. Marks'
  <2>1. \A d, e \in Clients : d # e /\ mark'[d].op # 0 => mark'[d].op # mark'[e].op
    BY <1>1, <1>2 DEF Marks
  <2>2. \A d \in Clients : mark'[d].op <= minted /\ (mark'[d].source = "none" => mark'[d].op = 0)
    BY <1>1, <1>2 DEF Marks
  <2>3. \A t \in Sessions : mark'[t].op # 0 => ~Exists(db, mark'[t].op) /\ lost[mark'[t].op] = {}
    BY <1>1, <1>2 DEF Marks, Clients
  <2>4. \A d \in Outsiders : mark'[d] = mark[d]
    BY <1>1, <1>2 DEF Clients
  <2>5. QED
    BY <1>1, <2>1, <2>2, <2>3, <2>4 DEF Marks, Exists
<1>6. Committed'
  BY <1>1 DEF Committed, CountedIsStored, Exists, ChangesOf, Told, Cascading
<1>7. ASSUME NEW d \in Clients PROVE Recording(tx[d], mark[d])'
  <2>1. CASE d = s
    <3>1. NoTx.row = NoOp /\ NoTx.log = {} /\ NoTx.lost = {} /\ IsFiniteSet(NoTx.log) /\ tx'[d] = NoTx
      BY <2>1, NullsTyped, FS_EmptySet
    <3>2. QED
      BY <3>1 DEF Recording, Told
  <2>2. CASE d # s
    <3>1. Recording(tx[d], mark[d]) /\ tx' = tx /\ mark'[d] = mark[d]
      BY <1>1, <1>2, <2>2
    <3>2. QED
      BY <3>1 DEF Recording, ChangesOf, Told, Cascading
  <2>3. QED
    BY <2>1, <2>2
<1>8. QED
  BY <1>3, <1>4, <1>5, <1>6, <1>7 DEF DataInv

\* Headers o < k go, whatever there is in the log.
LEMMA PurgeHeadersData ==
  ASSUME DataInv, PurgeHeaders
  PROVE  DataInv' /\ \A o \in OpIds : db'.ops[o] \in {db.ops[o], NoOp}
<1>1. /\ TypeOK /\ Locks /\ Marks /\ Committed
      /\ db \in Database /\ \A d \in Clients : Recording(tx[d], mark[d])
  BY DEF DataInv, TypeOK
<1>2. PICK k \in 2 .. MaxOps + 1 :
        db' = [db EXCEPT !.ops = [o \in OpIds |-> IF o < k THEN NoOp ELSE db.ops[o]]]
  BY DEF PurgeHeaders
<1> DEFINE ops == [o \in OpIds |-> IF o < k THEN NoOp ELSE db.ops[o]]
<1>3. ops \in [OpIds -> OpRow] /\ \A o \in OpIds : ops[o] \in {db.ops[o], NoOp}
  <2>1. NoOp \in OpRow /\ db.ops \in [OpIds -> OpRow]
    BY <1>1, NullsTyped DEF Database
  <2>2. \A o \in OpIds : ops[o] = IF o < k THEN NoOp ELSE db.ops[o]
    OBVIOUS
  <2>3. QED
    BY <2>1, <2>2
<1>4. db' = [db EXCEPT !.ops = ops]
  BY <1>2
<1> HIDE DEF ops
<1>5. /\ db'.rows = db.rows /\ db'.ops = ops /\ db'.log = db.log /\ db'.limit = db.limit
      /\ db' \in Database
  <2>1. db \in [rows : [Slots -> Content], ops : [OpIds -> OpRow], log : SUBSET Entry, limit : Nat]
    BY <1>1 DEF Database
  <2>2. QED
    BY <1>3, <1>4, <2>1 DEF Database
<1>6. /\ \A o \in OpIds : Exists(db', o) => db'.ops[o] = db.ops[o] /\ Exists(db, o)
      /\ NoOp.source = "none"
  BY <1>3, <1>5, NullsTyped DEF Exists
<1>7. UNCHANGED <<onDelete, seq, minted, mark, tx, sess, lost>> /\ purging' = TRUE
  BY DEF PurgeHeaders
<1>8. TypeOK' /\ Locks'
  BY <1>1, <1>5, <1>7 DEF TypeOK, Locks
<1>9. Marks'
  <2>1. \A d \in Clients : mark[d].op \in 0 .. MaxOps
    BY <1>1 DEF TypeOK, Marker
  <2>2. \A d \in Clients : mark[d].op # 0 => mark[d].op \in OpIds
    BY <2>1, ConstantsOK DEF OpIds
  <2>3. QED
    BY <1>1, <1>6, <1>7, <2>2 DEF Marks, Clients
<1>10. Committed'
  <2>1. \A o \in OpIds : Exists(db', o) /\ ~db'.ops[o].capped =>
          db'.ops[o].count <= Cardinality(ChangesOf(db, o))
    BY <1>1, <1>6 DEF Committed, CountedIsStored
  <2>2. \A o \in OpIds : db'.ops[o].source = "ctrlz" =>
          Told(db'.ops[o], ChangesOf(db, o), lost[o])
    BY <1>1, <1>6 DEF Committed, Exists
  <2>3. \A o : ChangesOf(db', o) = ChangesOf(db, o)
    BY <1>5 DEF ChangesOf
  <2>4. IsFiniteSet(db'.log) /\ \A c \in db'.log : c.seq <= seq'
    BY <1>1, <1>5, <1>7 DEF Committed
  <2>5. CountedIsStored'
    BY <2>1, <2>3 DEF CountedIsStored
  <2>6. \A o \in OpIds : db'.ops[o].source = "ctrlz" => Told(db.ops[o], ChangesOf(db, o), lost[o])'
    BY <1>7, <2>2, <2>3 DEF Told, Cascading
  <2>7. QED
    BY <2>4, <2>5, <2>6 DEF Committed
<1>11. \A d \in Clients : Recording(tx[d], mark[d])'
  BY <1>1, <1>5, <1>7 DEF Recording, ChangesOf, Told, Cascading
<1>12. QED
  BY <1>3, <1>5, <1>8, <1>9, <1>10, <1>11 DEF DataInv

\* Changes without a header go, when no transaction holds one.
LEMMA PurgeChangesData ==
  ASSUME DataInv, PurgeChanges
  PROVE  /\ DataInv' /\ db'.ops = db.ops
         /\ \A o \in OpIds : Exists(db, o) => ChangesOf(db', o) = ChangesOf(db, o)
<1>1. /\ TypeOK /\ Locks /\ Marks /\ Committed
      /\ \A d \in Clients : Recording(tx[d], mark[d]) /\ tx[d].row = NoOp
      /\ db \in Database /\ db' = [db EXCEPT !.log = db.log \ Orphans]
      /\ UNCHANGED <<onDelete, seq, minted, mark, tx, sess, lost>> /\ purging' = FALSE
  BY DEF DataInv, TypeOK, PurgeChanges
<1>2. /\ db'.rows = db.rows /\ db'.ops = db.ops /\ db'.log = db.log \ Orphans /\ db'.limit = db.limit
      /\ db' \in Database
  BY <1>1 DEF Database
<1>3. \A o \in OpIds : Exists(db, o) => ChangesOf(db', o) = ChangesOf(db, o)
  BY <1>2 DEF ChangesOf, Orphans
<1>4. TypeOK' /\ Locks'
  BY <1>1, <1>2 DEF TypeOK, Locks
<1>5. Marks'
  BY <1>1, <1>2 DEF Marks, Exists
<1>6. Committed'
  <2>1. IsFiniteSet(db'.log)
    BY <1>1, <1>2, FS_Difference DEF Committed
  <2>2. CountedIsStored'
    BY <1>1, <1>2, <1>3 DEF Committed, CountedIsStored, Exists
  <2>3. ASSUME NEW o \in OpIds, db'.ops[o].source = "ctrlz"
        PROVE  Told(db.ops[o], ChangesOf(db, o), lost[o])'
    <3>1. Exists(db, o) /\ Told(db.ops[o], ChangesOf(db, o), lost[o])
      BY <1>1, <1>2, <2>3 DEF Committed, Exists
    <3>2. QED
      BY <1>1, <1>2, <1>3, <3>1 DEF Told, Cascading
  <2>4. \A c \in db'.log : c.seq <= seq'
    BY <1>1, <1>2 DEF Committed
  <2>5. QED
    BY <2>1, <2>2, <2>3, <2>4 DEF Committed
<1>7. \A d \in Clients : Recording(tx[d], mark[d])'
  BY <1>1, FS_EmptySet DEF Recording, Told
<1>8. QED
  BY <1>2, <1>3, <1>4, <1>5, <1>6, <1>7 DEF DataInv

LEMMA SetLimitData ==
  ASSUME DataInv, SetLimit
  PROVE  DataInv' /\ db'.rows = db.rows /\ db'.ops = db.ops /\ db'.log = db.log
<1>1. TypeOK /\ db \in Database /\ UNCHANGED <<onDelete, seq, minted, mark, tx, sess, purging, lost>>
  BY DEF DataInv, TypeOK, SetLimit
<1>2. PICK n \in Limits : db' = [db EXCEPT !.limit = n]
  BY DEF SetLimit
<1>3. /\ db'.rows = db.rows /\ db'.ops = db.ops /\ db'.log = db.log
      /\ db' \in Database
  BY <1>1, <1>2, ConstantsOK DEF Database
<1>4. TypeOK'
  BY <1>1, <1>3 DEF TypeOK
<1>5. /\ Locks /\ Marks /\ Committed /\ \A d \in Clients : Recording(tx[d], mark[d])
  BY DEF DataInv
<1>6. Locks' /\ Marks'
  BY <1>1, <1>3, <1>5 DEF Locks, Marks, Exists
<1>7. Committed'
  BY <1>1, <1>3, <1>5 DEF Committed, CountedIsStored, Exists, ChangesOf, Told, Cascading
<1>8. \A d \in Clients : Recording(tx[d], mark[d])'
  BY <1>1, <1>3, <1>5 DEF Recording, ChangesOf, Told, Cascading
<1>9. QED
  BY <1>3, <1>4, <1>6, <1>7, <1>8 DEF DataInv


-----------------------------------------------------------------------------
(* What a COMMIT does.                                                      *)

\* Headers that differ in the flags `undone` only.
SameHeaders(ops) ==
  /\ ops \in [OpIds -> OpRow]
  /\ \A o \in OpIds : /\ ops[o].source = db.ops[o].source /\ ops[o].count = db.ops[o].count
                      /\ ops[o].capped = db.ops[o].capped

\* The transaction of c writes the header of o.
Heads(c, o) == tx[c].row # NoOp /\ o = mark[c].op

\* What c committed, over the headers ops, is there.
Landed(c, ops) ==
  /\ db' \in Database /\ db'.rows = [x \in Slots |-> Seen(c, x)] /\ db'.log = db.log \cup tx[c].log
  /\ \A o \in OpIds : /\ Heads(c, o) => db'.ops[o] = tx[c].row /\ lost'[o] = lost[o] \cup tx[c].lost
                      /\ ~Heads(c, o) => db'.ops[o] = ops[o] /\ lost'[o] = lost[o]
  /\ tx'[c] = NoTx /\ \A d \in Clients \ {c} : tx'[d] = tx[d]
  /\ tx' \in [Clients -> Transaction] /\ lost' \in [OpIds -> SUBSET Slots]

LEMMA SameHeadersThere == ASSUME DataInv PROVE SameHeaders(db.ops)
BY DEF DataInv, TypeOK, Database, SameHeaders

LEMMA SameHeadersUndone == ASSUME DataInv, NEW k \in OpIds PROVE SameHeaders(MarkedUndone(k))
<1>1. db.ops \in [OpIds -> OpRow]
  BY DEF DataInv, TypeOK, Database
<1>2. db.ops[k] \in OpRow
  BY <1>1
<1> DEFINE r == [db.ops[k] EXCEPT !.undone = TRUE]
<1>3. /\ r \in OpRow /\ r.source = db.ops[k].source /\ r.count = db.ops[k].count
      /\ r.capped = db.ops[k].capped
  BY <1>2 DEF OpRow
<1>4. MarkedUndone(k) = IF Exists(db, k) THEN [db.ops EXCEPT ![k] = r] ELSE db.ops
  BY DEF MarkedUndone
<1> HIDE DEF r
<1>5. QED
  BY <1>1, <1>3, <1>4 DEF SameHeaders

LEMMA Lands ==
  ASSUME DataInv, NEW c \in Clients, NEW ops, SameHeaders(ops), Commits(c, ops)
  PROVE  Landed(c, ops) /\ UNCHANGED <<onDelete, seq, minted, purging>>
<1> DEFINE t == tx[c]
           o == mark[c].op
           h == IF t.row = NoOp THEN ops ELSE [ops EXCEPT ![o] = t.row]
           rows == [x \in Slots |-> Seen(c, x)]
           log == db.log \cup t.log
<1>1. /\ TypeOK /\ db \in Database /\ t \in Transaction /\ tx \in [Clients -> Transaction]
      /\ lost \in [OpIds -> SUBSET Slots] /\ mark[c] \in Marker /\ Recording(t, mark[c])
  BY DEF DataInv, TypeOK
<1>2. t.row # NoOp => o \in OpIds
  BY <1>1, ConstantsOK DEF Marker, OpIds, Recording
<1>3. rows \in [Slots -> Content] /\ log \in SUBSET Entry
  BY <1>1 DEF Transaction, Database, Seen
<1>4. h \in [OpIds -> OpRow] /\ \A k \in OpIds : h[k] = IF Heads(c, k) THEN t.row ELSE ops[k]
  BY <1>1, <1>2 DEF SameHeaders, Heads, Transaction
<1>5. db' = [db EXCEPT !.rows = rows, !.ops = h, !.log = log]
  BY DEF Commits
<1>6. lost' = (IF t.row = NoOp THEN lost ELSE [lost EXCEPT ![o] = @ \cup t.lost])
      /\ tx' = [tx EXCEPT ![c] = NoTx] /\ UNCHANGED <<onDelete, seq, minted, purging>>
  BY DEF Commits
<1> HIDE DEF rows, log, h
<1>7. db' \in Database /\ db'.rows = rows /\ db'.ops = h /\ db'.log = log
  BY <1>1, <1>3, <1>4, <1>5 DEF Database
<1>8. /\ tx'[c] = NoTx /\ \A d \in Clients \ {c} : tx'[d] = tx[d]
      /\ tx' \in [Clients -> Transaction]
  BY <1>1, <1>6, NullsTyped
<1>9. t.lost \in SUBSET Slots
  BY <1>1 DEF Transaction
<1>10. /\ lost' \in [OpIds -> SUBSET Slots]
       /\ \A k \in OpIds : lost'[k] = IF Heads(c, k) THEN lost[k] \cup t.lost ELSE lost[k]
  BY <1>1, <1>2, <1>6, <1>9 DEF Heads
<1>11. QED
  BY <1>4, <1>6, <1>7, <1>8, <1>10 DEF Landed, rows, log

\* The log after a commit, operation by operation.
LEMMA LandedChanges ==
  ASSUME DataInv, NEW c \in Clients, NEW ops, Landed(c, ops)
  PROVE  /\ \A o : o # mark[c].op => ChangesOf(db', o) = ChangesOf(db, o)
         /\ tx[c].row = NoOp => db'.log = db.log
         /\ IsFiniteSet(db'.log) /\ tx[c].log \subseteq ChangesOf(db', mark[c].op)
         /\ ChangesOf(db', mark[c].op) = ChangesOf(db, mark[c].op) \cup tx[c].log
         /\ Cardinality(ChangesOf(db', mark[c].op)) =
              Cardinality(ChangesOf(db, mark[c].op)) + Cardinality(tx[c].log)
<1> DEFINE o == mark[c].op
<1>1. Committed /\ Recording(tx[c], mark[c]) /\ IsFiniteSet(db.log) /\ IsFiniteSet(tx[c].log)
  BY DEF DataInv, Committed, Recording
<1>2. \A e \in tx[c].log : e.op = o /\ e \notin db.log
  BY <1>1 DEF Recording
<1>3. db'.log = db.log \cup tx[c].log
  BY DEF Landed
<1>4. ChangesOf(db', o) = ChangesOf(db, o) \cup tx[c].log
  BY <1>2, <1>3 DEF ChangesOf
<1>5. ChangesOf(db, o) \cap tx[c].log = {}
  BY <1>2 DEF ChangesOf
<1>6. IsFiniteSet(ChangesOf(db, o))
  BY <1>1, ChangesFinite
<1>7. Cardinality(ChangesOf(db', o)) = Cardinality(ChangesOf(db, o)) + Cardinality(tx[c].log)
  <2>1. /\ Cardinality(ChangesOf(db, o)) \in Nat /\ Cardinality(tx[c].log) \in Nat
        /\ Cardinality({}) = 0
    BY <1>1, <1>6, FS_CardinalityType, FS_EmptySet
  <2>2. Cardinality(ChangesOf(db, o) \cup tx[c].log) =
          Cardinality(ChangesOf(db, o)) + Cardinality(tx[c].log)
            - Cardinality(ChangesOf(db, o) \cap tx[c].log)
    BY <1>1, <1>6, FS_Union
  <2>3. Cardinality(ChangesOf(db, o) \cap tx[c].log) = 0
    BY <1>5, <2>1
  <2>4. Cardinality(ChangesOf(db, o) \cup tx[c].log) =
          Cardinality(ChangesOf(db, o)) + Cardinality(tx[c].log)
    BY <2>1, <2>2, <2>3
  <2>5. QED
    BY <1>4, <2>4
<1>8. tx[c].row = NoOp => tx[c].log = {}
  BY <1>1 DEF Recording
<1>9. IsFiniteSet(db'.log)
  BY <1>1, <1>3, FS_Union
<1>10. \A k : k # o => ChangesOf(db', k) = ChangesOf(db, k)
  BY <1>2, <1>3 DEF ChangesOf
<1>11. QED
  BY <1>3, <1>4, <1>7, <1>8, <1>9, <1>10

\* How the markers are after a commit: ctrlz's are cleared, others stay.
LandedMark(c) ==
  mark' = IF c \in Sessions THEN [mark EXCEPT ![c] = Unset] ELSE mark

LEMMA LandedMarks ==
  ASSUME DataInv, NEW c \in Clients, NEW ops, SameHeaders(ops), Landed(c, ops), LandedMark(c),
         minted' = minted
  PROVE  /\ Marks' /\ mark' \in [Clients -> Marker]
         /\ \A d \in Clients \ {c} : mark'[d] = mark[d]
<1> DEFINE o == mark[c].op
<1>1. /\ Marks /\ mark \in [Clients -> Marker] /\ minted \in Nat /\ db \in Database
      /\ Recording(tx[c], mark[c])
  BY ConstantsOK DEF DataInv, TypeOK
<1>2. /\ mark' \in [Clients -> Marker]
      /\ \A d \in Clients \ {c} : mark'[d] = mark[d]
      /\ mark'[c] = IF c \in Sessions THEN Unset ELSE mark[c]
  BY <1>1, NullsTyped DEF LandedMark
<1>3. Unset.op = 0 /\ Unset.source = "none" /\ NoOp.source = "none"
  BY NullsTyped
<1>4. \A k \in OpIds : /\ Heads(c, k) => db'.ops[k] = tx[c].row /\ k = o
                       /\ ~Heads(c, k) => (Exists(db', k) <=> Exists(db, k)) /\ lost'[k] = lost[k]
                                          /\ db'.ops[k].source = db.ops[k].source
  BY DEF Landed, SameHeaders, Exists, Heads
<1>5. \A d \in Clients \ {c} : mark[d].op # 0 => mark[d].op \in OpIds /\ ~Heads(c, mark[d].op)
  BY <1>1, ConstantsOK DEF Marks, Heads, Marker, OpIds
<1>6. \A d, e \in Clients : d # e /\ mark'[d].op # 0 => mark'[d].op # mark'[e].op
  BY <1>1, <1>2, <1>3 DEF Marks
<1>7. \A d \in Clients : mark'[d].op <= minted /\ (mark'[d].source = "none" => mark'[d].op = 0)
  BY <1>1, <1>2, <1>3 DEF Marks
<1>8. \A k \in OpIds : Exists(db', k) \/ lost'[k] # {} => k <= minted
  BY <1>1, <1>4 DEF Marks
<1>9. ASSUME NEW s \in Sessions, mark'[s].op # 0
      PROVE  ~Exists(db', mark'[s].op) /\ lost'[mark'[s].op] = {}
  <2>1. s # c /\ s \in Clients
    BY <1>2, <1>3, <1>9 DEF Clients
  <2>2. mark'[s] = mark[s] /\ mark[s].op # 0
    BY <1>2, <1>9, <2>1
  <2>3. ~Exists(db, mark[s].op) /\ lost[mark[s].op] = {}
    BY <1>1, <2>2 DEF Marks
  <2>4. mark[s].op \in OpIds /\ ~Heads(c, mark[s].op)
    BY <1>5, <2>1, <2>2
  <2>5. QED
    BY <1>4, <2>2, <2>3, <2>4
<1>10. ASSUME NEW d \in Outsiders
       PROVE  /\ mark'[d].source # "ctrlz"
              /\ mark'[d].op # 0 /\ Exists(db', mark'[d].op) => db'.ops[mark'[d].op].source = "external"
  <2>1. d \in Clients /\ d \notin Sessions /\ mark'[d] = mark[d] /\ mark[d].source # "ctrlz"
    BY <1>1, <1>2, ConstantsOK DEF Clients, Marks
  <2>2. mark[d].op # 0 => mark[d].op \in OpIds
    BY <1>1, <2>1, ConstantsOK DEF Marker, OpIds
  <2>3. CASE mark[d].op # 0 /\ ~Heads(c, mark[d].op)
    BY <1>1, <1>4, <2>1, <2>2, <2>3 DEF Marks
  <2>4. CASE mark[d].op # 0 /\ Heads(c, mark[d].op)
    <3>1. d = c
      BY <1>5, <2>1, <2>4
    <3>2. db'.ops[o].source = mark[c].source /\ db'.ops[o] = tx[c].row
      BY <1>1, <1>4, <2>2, <2>4, <3>1 DEF Heads, Recording
    <3>3. db'.ops[o].source \in {"none", "external", "ctrlz"}
      BY <1>1, <2>1, <3>1, <3>2 DEF Marker
    <3>4. QED
      BY <2>1, <3>1, <3>2, <3>3 DEF Exists
  <2>5. QED
    BY <2>1, <2>3, <2>4
<1>11. QED
  BY <1>2, <1>6, <1>7, <1>8, <1>9, <1>10 DEF Marks

LEMMA LandedCommitted ==
  ASSUME DataInv, NEW c \in Clients, NEW ops, SameHeaders(ops), Landed(c, ops),
         UNCHANGED <<onDelete, seq, minted>>
  PROVE  Committed'
<1> DEFINE o == mark[c].op
           t == tx[c]
<1>1. /\ Marks /\ Committed /\ Recording(t, mark[c]) /\ mark[c] \in Marker
      /\ IsFiniteSet(db.log) /\ \A k : Cardinality(ChangesOf(db, k)) \in Nat
  BY ChangesFinite DEF DataInv, TypeOK, Committed
<1>2. /\ \A k : k # o => ChangesOf(db', k) = ChangesOf(db, k)
      /\ t.row = NoOp => db'.log = db.log
      /\ IsFiniteSet(db'.log) /\ t.log \subseteq ChangesOf(db', o)
      /\ Cardinality(ChangesOf(db', o)) = Cardinality(ChangesOf(db, o)) + Cardinality(t.log)
  BY LandedChanges
<1>3. \A k : ~Heads(c, k) => ChangesOf(db', k) = ChangesOf(db, k)
  BY <1>2 DEF Heads, ChangesOf
<1>4. \A k \in OpIds : /\ Heads(c, k) => db'.ops[k] = t.row /\ k = o /\ lost'[k] = lost[k] \cup t.lost
                       /\ ~Heads(c, k) => db'.ops[k] = ops[k] /\ lost'[k] = lost[k]
  BY DEF Landed, Heads
<1>5. \A e \in db'.log : e.seq <= seq
  BY <1>1 DEF Landed, Committed, Recording
<1>6. ASSUME NEW k \in OpIds, Exists(db', k), ~db'.ops[k].capped
      PROVE  db'.ops[k].count <= Cardinality(ChangesOf(db', k))
  <2>1. CASE Heads(c, k)
    BY <1>1, <1>2, <1>4, <1>6, <2>1 DEF Heads, Recording
  <2>2. CASE ~Heads(c, k)
    BY <1>1, <1>3, <1>4, <1>6, <2>2 DEF Committed, CountedIsStored, SameHeaders, Exists
  <2>3. QED
    BY <2>1, <2>2
<1>7. ASSUME NEW k \in OpIds, db'.ops[k].source = "ctrlz"
      PROVE  Told(db.ops[k], ChangesOf(db, k), lost[k])'
  <2>1. CASE Heads(c, k)
    <3>1. t.row.source = "ctrlz" /\ mark[c].source = "ctrlz" /\ mark[c].op # 0 /\ k = o
      BY <1>1, <1>4, <1>7, <2>1 DEF Heads, Recording
    <3>2. lost[o] = {}
      BY <1>1, <3>1 DEF Marks, Clients
    <3>3. Told(t.row, t.log, t.lost) /\ lost'[k] = t.lost /\ db'.ops[k] = t.row
      BY <1>1, <1>4, <2>1, <3>1, <3>2 DEF Recording
    <3>4. QED
      BY <1>2, <3>1, <3>3 DEF Told, Cascading
  <2>2. CASE ~Heads(c, k)
    BY <1>1, <1>3, <1>4, <1>7, <2>2 DEF Committed, Told, Cascading, SameHeaders
  <2>3. QED
    BY <2>1, <2>2
<1>8. QED
  BY <1>2, <1>5, <1>6, <1>7 DEF Committed, CountedIsStored

LEMMA LandedRecording ==
  ASSUME DataInv, NEW c \in Clients, NEW ops, SameHeaders(ops), Landed(c, ops),
         \A d \in Clients \ {c} : mark'[d] = mark[d], UNCHANGED <<onDelete, seq>>
  PROVE  \A d \in Clients : Recording(tx[d], mark[d])'
<1>1. TAKE d \in Clients
<1>2. CASE d = c
  <2>1. NoTx.row = NoOp /\ NoTx.log = {} /\ NoTx.lost = {} /\ IsFiniteSet(NoTx.log) /\ tx'[d] = NoTx
    BY <1>2, NullsTyped, FS_EmptySet DEF Landed
  <2>2. QED
    BY <2>1 DEF Recording, Told
<1>3. CASE d # c
  <2>1. Recording(tx[d], mark[d]) /\ Recording(tx[c], mark[c]) /\ Marks
    BY DEF DataInv
  <2>2. tx'[d] = tx[d] /\ mark'[d] = mark[d]
    BY <1>3 DEF Landed
  <2>3. tx[d].row # NoOp => mark[d].op # mark[c].op
    BY <1>3, <2>1 DEF Marks, Recording
  <2>4. tx[d].row # NoOp => ChangesOf(db', mark[d].op) = ChangesOf(db, mark[d].op)
    BY <2>3, LandedChanges
  <2>5. ASSUME NEW e \in tx[d].log PROVE e \notin db'.log
    <3>1. e.op = mark[d].op /\ e \notin db.log /\ tx[d].row # NoOp
      BY <2>1 DEF Recording
    <3>2. \A f \in tx[c].log : f.op = mark[c].op
      BY <2>1 DEF Recording
    <3>3. QED
      BY <2>3, <3>1, <3>2 DEF Landed
  <2>6. QED
    BY <2>1, <2>2, <2>4, <2>5 DEF Recording, Told, Cascading
<1>4. QED
  BY <1>2, <1>3

LEMMA CommitData ==
  ASSUME DataInv, NEW c \in Clients, NEW ops, SameHeaders(ops), Commits(c, ops), LandedMark(c),
         sess' \in [Sessions -> Session]
  PROVE  DataInv' /\ Landed(c, ops)
<1>1. Landed(c, ops) /\ UNCHANGED <<onDelete, seq, minted, purging>>
  BY Lands
<1>2. Marks' /\ mark' \in [Clients -> Marker] /\ \A d \in Clients \ {c} : mark'[d] = mark[d]
  BY <1>1, LandedMarks
<1>3. Committed'
  BY <1>1, LandedCommitted
<1>4. \A d \in Clients : Recording(tx[d], mark[d])'
  BY <1>1, <1>2, LandedRecording
<1>5. TypeOK'
  BY <1>1, <1>2 DEF DataInv, TypeOK, Landed
<1>6. Locks'
  <2>1. \A x \in Slots : NoTx.held[x] = 0
    BY NullsTyped DEF None
  <2>2. \A d \in Clients, x \in Slots : tx[d].held[x] \in 0 .. 2
    BY DEF DataInv, TypeOK, Transaction, None, X
  <2>3. tx'[c] = NoTx /\ (\A d \in Clients \ {c} : tx'[d] = tx[d]) /\ Locks
    BY <1>1 DEF Landed, DataInv
  <2>4. QED
    BY <2>1, <2>2, <2>3 DEF Locks, X
<1>7. QED
  BY <1>1, <1>2, <1>3, <1>4, <1>5, <1>6 DEF DataInv

-----------------------------------------------------------------------------
(* What the sessions know, while others go on.                              *)

\* Nothing that a session may know of an operation of ctrlz's changes, except
\* that it goes away.
Known(o) == o <= minted /\ \A s \in Sessions : mark[s].op # o
MemoryKept ==
  /\ minted' \in Nat /\ minted <= minted'
  /\ \A o \in OpIds : Known(o) =>
       /\ \A s \in Sessions : mark'[s].op # o
       /\ db'.ops[o].source = "ctrlz" =>
            /\ db.ops[o].source = "ctrlz" /\ db'.ops[o].capped = db.ops[o].capped
            /\ ChangesOf(db', o) = ChangesOf(db, o)

\* Nobody else commits a row that s has written.
RowsKept(s) == \A x \in Slots : Wrote(tx[s], x) => db'.rows[x] = db.rows[x]

LEMMA RemembersKept ==
  ASSUME DataInv, MemoryKept, NEW s \in Sessions, Remembers(sess[s]),
         sess'[s].op = sess[s].op, sess'[s].capped = sess[s].capped,
         sess'[s].pc = "reading" \/ (sess[s].pc # "reading" /\ sess'[s].changes = sess[s].changes)
  PROVE  Remembers(sess[s])'
<1> DEFINE o == sess[s].op
<1>1. o \in OpIds /\ o \in Nat /\ o <= minted /\ Known(o) /\ minted \in Nat
  BY ConstantsOK DEF Remembers, DataInv, TypeOK, OpIds, Known
<1> HIDE DEF o
<1>2. /\ \A t \in Sessions : mark'[t].op # o
      /\ db'.ops[o].source = "ctrlz" =>
           /\ db.ops[o].source = "ctrlz" /\ db'.ops[o].capped = db.ops[o].capped
           /\ ChangesOf(db', o) = ChangesOf(db, o)
  BY <1>1 DEF MemoryKept
<1>3. o <= minted'
  BY <1>1 DEF MemoryKept
<1>4. db.ops[o].source = "ctrlz" =>
        /\ sess[s].capped = db.ops[o].capped
        /\ sess[s].pc # "reading" => sess[s].changes = ChangesOf(db, o)
  BY DEF Remembers, o
<1>5. sess'[s].op = o
  BY DEF o
<1>6. db'.ops[o].source = "ctrlz" =>
        /\ sess'[s].capped = db'.ops[o].capped
        /\ sess'[s].pc # "reading" => sess'[s].changes = ChangesOf(db', o)
  BY <1>2, <1>4
<1>7. QED
  BY <1>1, <1>2, <1>3, <1>5, <1>6 DEF Remembers

LEMMA SessKept ==
  ASSUME DataInv, NEW s \in Sessions, SessOK(s), MemoryKept, RowsKept(s),
         sess'[s] = sess[s], tx'[s] = tx[s], mark'[s] = mark[s], onDelete' = onDelete
  PROVE  SessOK(s)'
<1>1. sess[s].pc \in {"reading", "inspecting", "applying", "viewed"} => Remembers(sess[s])'
  BY RemembersKept DEF SessOK
<1>2. CascadeBlockers(s)' = CascadeBlockers(s)
  BY DEF CascadeBlockers
<1>3. MovesOwnRows(s) => MovesOwnRows(s)'
  BY DEF MovesOwnRows, Wrote, RowsKept
<1>4. Careful(s) => Careful(s)'
  BY <1>3 DEF Careful
<1>5. QED
  BY <1>1, <1>2, <1>4 DEF SessOK, Applying

\* A session whose transaction is over.
LEMMA IdleOK ==
  ASSUME NEW s \in Sessions, sess'[s] = Idle, tx'[s] = NoTx, mark'[s] = Unset
  PROVE  SessOK(s)'
<1>1. Idle.pc = "idle" /\ Idle = [Idle EXCEPT !.pc = "idle"]
  BY DEF Idle
<1>2. QED
  BY <1>1 DEF SessOK, Applying

LEMMA QuietMemory ==
  ASSUME DataInv, db' = db, minted' = minted,
         \A s \in Sessions : mark'[s].op \in {mark[s].op, 0}
  PROVE  MemoryKept /\ \A s \in Sessions : RowsKept(s)
<1>1. minted \in Nat /\ \A o \in OpIds : o # 0
  BY ConstantsOK DEF DataInv, TypeOK, OpIds
<1>2. QED
  BY <1>1 DEF MemoryKept, RowsKept, Known

LEMMA WriteMemory ==
  ASSUME DataInv, NEW c \in Clients, NEW x, NEW v, NEW below, Grows(c, x, v, below), db' = db,
         Claimed(c).op \in OpIds
  PROVE  MemoryKept /\ \A s \in Sessions : RowsKept(s)
<1>1. minted \in Nat /\ (\A o \in OpIds : o # 0 /\ o \in Nat) /\ Sessions \subseteq Clients
  BY ConstantsOK DEF DataInv, TypeOK, OpIds, Clients
<1>2. /\ \A d \in Clients \ {c} : mark'[d] = mark[d]
      /\ mark'[c] = Claimed(c) /\ minted' \in Nat /\ minted <= minted'
  BY ConstantsOK DEF Grows
<1>3. Claimed(c).op = mark[c].op \/ Claimed(c).op = minted + 1
  BY ClaimedSound DEF DataInv
<1>4. \A o \in OpIds : Known(o) => \A s \in Sessions : mark'[s].op # o
  BY <1>1, <1>2, <1>3 DEF Known
<1>5. QED
  BY <1>2, <1>4 DEF MemoryKept, RowsKept

LEMMA CommitMemory ==
  ASSUME DataInv, NEW c \in Clients, NEW ops, SameHeaders(ops), Landed(c, ops), LandedMark(c),
         minted' = minted
  PROVE  MemoryKept /\ \A s \in Sessions \ {c} : RowsKept(s)
<1>1. /\ minted \in Nat /\ (\A o \in OpIds : o # 0) /\ Sessions \subseteq Clients
      /\ Recording(tx[c], mark[c]) /\ Marks /\ Locks /\ mark \in [Clients -> Marker]
      /\ tx \in [Clients -> Transaction]
  BY ConstantsOK DEF DataInv, TypeOK, OpIds, Clients
<1>2. \A o : o # mark[c].op => ChangesOf(db', o) = ChangesOf(db, o)
  BY LandedChanges
<1>3. tx[c].row = NoOp => db'.log = db.log
  BY LandedChanges
<1>4. \A s \in Sessions : mark'[s].op \in {mark[s].op, 0}
  BY <1>1, NullsTyped DEF LandedMark
<1>5. ASSUME NEW o \in OpIds, Known(o), db'.ops[o].source = "ctrlz"
      PROVE  /\ db.ops[o].source = "ctrlz" /\ db'.ops[o].capped = db.ops[o].capped
             /\ ChangesOf(db', o) = ChangesOf(db, o)
  <2>1. CASE Heads(c, o)
    <3>1. c \in Outsiders
      BY <1>5, <2>1 DEF Known, Heads, Clients
    <3>2. db'.ops[o].source = mark[c].source
      BY <1>1, <2>1 DEF Landed, Recording, Heads
    <3>3. QED
      BY <1>1, <1>5, <3>1, <3>2 DEF Marks
  <2>2. CASE ~Heads(c, o)
    <3>1. db'.ops[o] = ops[o]
      BY <2>2 DEF Landed
    <3>2. ChangesOf(db', o) = ChangesOf(db, o)
      BY <1>2, <1>3, <2>2 DEF Heads, ChangesOf
    <3>3. QED
      BY <1>5, <3>1, <3>2 DEF SameHeaders
  <2>3. QED
    BY <2>1, <2>2
<1>6. MemoryKept
  BY <1>1, <1>4, <1>5 DEF MemoryKept, Known
<1>7. ASSUME NEW s \in Sessions \ {c}, NEW x \in Slots, Wrote(tx[s], x)
      PROVE  db'.rows[x] = db.rows[x]
  <2>1. ~Wrote(tx[c], x)
    BY <1>1, <1>7 DEF Locks, Wrote, X
  <2>2. QED
    BY <2>1 DEF Landed, Seen
<1>8. QED
  BY <1>6, <1>7 DEF RowsKept

LEMMA PurgeHeadersMemory ==
  ASSUME DataInv, PurgeHeaders
  PROVE  MemoryKept /\ \A s \in Sessions : RowsKept(s)
<1>1. /\ UNCHANGED <<minted, mark>> /\ minted \in Nat /\ db \in Database
  BY ConstantsOK DEF DataInv, TypeOK, PurgeHeaders
<1>2. db'.rows = db.rows /\ db'.log = db.log
  BY <1>1 DEF PurgeHeaders, Database
<1>3. \A o \in OpIds : db'.ops[o] \in {db.ops[o], NoOp}
  BY PurgeHeadersData
<1>4. NoOp.source = "none"
  BY NullsTyped
<1>5. QED
  BY <1>1, <1>2, <1>3, <1>4 DEF MemoryKept, RowsKept, ChangesOf, Known

LEMMA PurgeChangesMemory ==
  ASSUME DataInv, PurgeChanges
  PROVE  MemoryKept /\ \A s \in Sessions : RowsKept(s)
<1>1. /\ UNCHANGED <<minted, mark>> /\ minted \in Nat /\ db \in Database
  BY ConstantsOK DEF DataInv, TypeOK, PurgeChanges
<1>2. db'.rows = db.rows
  BY <1>1 DEF PurgeChanges, Database
<1>3. /\ db'.ops = db.ops
      /\ \A o \in OpIds : Exists(db, o) => ChangesOf(db', o) = ChangesOf(db, o)
  BY PurgeChangesData
<1>4. QED
  BY <1>1, <1>2, <1>3 DEF MemoryKept, RowsKept, Known, Exists

LEMMA SetLimitMemory ==
  ASSUME DataInv, SetLimit
  PROVE  MemoryKept /\ \A s \in Sessions : RowsKept(s)
<1>1. UNCHANGED <<minted, mark>> /\ minted \in Nat
  BY ConstantsOK DEF DataInv, TypeOK, SetLimit
<1>2. db'.rows = db.rows /\ db'.ops = db.ops /\ db'.log = db.log
  BY SetLimitData
<1>3. QED
  BY <1>1, <1>2 DEF MemoryKept, RowsKept, ChangesOf, Known

-----------------------------------------------------------------------------
(* The steps.                                                               *)

LEMMA OthersKept ==
  ASSUME IInv, NEW c, MemoryKept, onDelete' = onDelete,
         \A t \in Sessions \ {c} :
           RowsKept(t) /\ sess'[t] = sess[t] /\ tx'[t] = tx[t] /\ mark'[t] = mark[t]
  PROVE  \A t \in Sessions \ {c} : SessOK(t)'
BY SessKept DEF IInv

\* A step of session s that only s notices.
Notices(s) ==
  /\ sess' \in [Sessions -> Session] /\ \A t \in Sessions \ {s} : sess'[t] = sess[t]
  /\ sess'[s].changes \subseteq sess[s].changes \cup db.log
  /\ UNCHANGED <<onDelete, db, seq, minted, mark, tx, purging, lost>>

LEMMA NoticesMemory == ASSUME IInv, NEW s \in Sessions, Notices(s) PROVE MemoryKept
BY QuietMemory DEF Notices, IInv

LEMMA NoticesStep ==
  ASSUME IInv, NEW s \in Sessions, Notices(s), SessOK(s)' PROVE IInv'
<1>1. DataInv'
  BY ReaderData DEF Notices, IInv
<1>2. MemoryKept /\ \A t \in Sessions : RowsKept(t)
  BY QuietMemory DEF Notices, IInv
<1>3. \A t \in Sessions \ {s} : SessOK(t)'
  BY <1>2, OthersKept DEF Notices
<1>4. Imaged'
  <2>1. /\ Imaged /\ db' = db /\ tx' = tx
        /\ \A t \in Sessions : \A e \in sess'[t].changes : e \in sess[t].changes \/ e \in db.log
    BY DEF IInv, Notices
  <2>2. QED
    BY <2>1 DEF Imaged
<1>5. QED
  BY <1>1, <1>3, <1>4 DEF IInv

\* Remembering goes on through the steps that leave op, capped and changes alone.
LEMMA ReadOperationStep ==
  ASSUME IInv, NEW s \in Sessions, ReadOperation(s) PROVE IInv'
<1>1. /\ TypeOK /\ Marks /\ SessOK(s) /\ sess \in [Sessions -> Session] /\ db \in Database
      /\ sess[s].pc = "idle" /\ UNCHANGED <<onDelete, db, seq, minted, mark, tx, purging, lost>>
  BY DEF IInv, DataInv, TypeOK, ReadOperation
<1>2. PICK o \in OpIds :
        /\ Exists(db, o)
        /\ sess' = [sess EXCEPT ![s] = [Idle EXCEPT
             !.pc = "reading", !.op = o,
             !.capped = db.ops[o].capped, !.undone = db.ops[o].undone]]
  BY DEF ReadOperation
<1> DEFINE r == [Idle EXCEPT !.pc = "reading", !.op = o,
             !.capped = db.ops[o].capped, !.undone = db.ops[o].undone]
<1>3. db.ops[o] \in OpRow /\ db.ops[o].capped \in BOOLEAN /\ db.ops[o].undone \in BOOLEAN /\ o \in 0 .. MaxOps
  BY <1>1, ConstantsOK DEF Database, OpRow, OpIds
<1>4. /\ r \in Session /\ r.pc = "reading" /\ r.op = o /\ r.capped = db.ops[o].capped
      /\ r.changes = {} /\ r.verdicts = {} /\ r.deferred = {}
  BY <1>3 DEF Idle, Session
<1> HIDE DEF r
<1>5. sess' = [sess EXCEPT ![s] = r]
  BY <1>2 DEF r
<1>6. sess'[s] = r /\ Notices(s)
  BY <1>1, <1>4, <1>5 DEF Notices
<1>7. Remembers(sess[s])'
  <2>1. o <= minted /\ \A t \in Sessions : mark[t].op # o
    BY <1>1, <1>2, <1>3, ConstantsOK DEF Marks, OpIds
  <2>2. QED
    BY <1>1, <1>4, <1>6, <2>1 DEF Remembers
<1>8. SessOK(s)'
  <2>1. tx'[s] = NoTx /\ mark'[s] = Unset
    BY <1>1 DEF SessOK
  <2>2. QED
    BY <1>4, <1>6, <1>7, <2>1 DEF SessOK, Applying
<1>9. QED
  BY <1>6, <1>8, NoticesStep

LEMMA ReadChangesStep ==
  ASSUME IInv, NEW s \in Sessions, ReadChanges(s) PROVE IInv'
<1>1. /\ TypeOK /\ SessOK(s) /\ sess \in [Sessions -> Session] /\ db \in Database /\ DataInv
      /\ sess[s].pc = "reading" /\ UNCHANGED <<onDelete, db, seq, minted, mark, tx, purging, lost>>
  BY DEF IInv, DataInv, TypeOK, ReadChanges
<1> DEFINE ch == ChangesOf(db, sess[s].op)
           r  == [sess[s] EXCEPT !.pc = "inspecting", !.changes = ch]
<1>2. ch \in SUBSET Entry /\ ch \subseteq db.log
  BY <1>1 DEF ChangesOf, Database
<1>3. /\ r \in Session /\ r.pc = "inspecting" /\ r.op = sess[s].op /\ r.capped = sess[s].capped
      /\ r.changes = ch /\ r.verdicts = sess[s].verdicts /\ r.deferred = sess[s].deferred
  BY <1>1, <1>2 DEF Session
<1>4. sess' = [sess EXCEPT ![s] = r]
  BY DEF ReadChanges
<1> HIDE DEF r
<1>5. sess'[s] = r /\ Notices(s)
  BY <1>1, <1>2, <1>3, <1>4 DEF Notices
<1>6. r.verdicts = {} /\ r.deferred = {} /\ tx[s] = NoTx /\ mark[s] = Unset /\ Remembers(sess[s])
  BY <1>1, <1>3 DEF SessOK
<1>7. Remembers(sess[s])'
  BY <1>1, <1>3, <1>5, <1>6 DEF Remembers, ChangesOf
<1>8. SessOK(s)'
  BY <1>1, <1>3, <1>5, <1>6, <1>7 DEF SessOK, Applying
<1>9. QED
  BY <1>5, <1>8, NoticesStep

LEMMA LiveImageStep ==
  ASSUME IInv, NEW s \in Sessions, LiveImage(s) PROVE IInv'
<1>1. /\ TypeOK /\ SessOK(s) /\ sess \in [Sessions -> Session] /\ DataInv
      /\ sess[s].pc = "inspecting" /\ UNCHANGED <<onDelete, db, seq, minted, mark, tx, purging, lost>>
  BY DEF IInv, DataInv, TypeOK, LiveImage
<1>2. PICK c \in Uninspected(s) :
        sess' = [sess EXCEPT ![s].verdicts = @ \cup
             {[change |-> c, status |-> StatusOf(sess[s].changes, c, db.rows[c.slot])]}]
  BY DEF LiveImage
<1> DEFINE st == StatusOf(sess[s].changes, c, db.rows[c.slot])
           v  == [change |-> c, status |-> st]
           vs == sess[s].verdicts \cup {v}
           r  == [sess[s] EXCEPT !.verdicts = vs]
<1>3. c \in sess[s].changes /\ sess[s].changes \subseteq Entry
  BY <1>1 DEF Uninspected, Session
<1>4. st \in {"clean", "drifted", "missing", "occupied"}
  BY DEF StatusOf
<1> HIDE DEF st
<1>5. v \in Verdict /\ v.change = c
  BY <1>3, <1>4 DEF Verdict
<1> HIDE DEF v
<1>6. vs \in SUBSET Verdict
  BY <1>1, <1>5 DEF Session
<1> HIDE DEF vs
<1>7. /\ r \in Session /\ r.pc = "inspecting" /\ r.op = sess[s].op /\ r.capped = sess[s].capped
      /\ r.changes = sess[s].changes /\ r.verdicts = vs /\ r.deferred = sess[s].deferred
  BY <1>1, <1>6 DEF Session
<1>8. sess' = [sess EXCEPT ![s] = r]
  BY <1>2 DEF vs, v, st
<1> HIDE DEF r
<1>9. sess'[s] = r /\ Notices(s)
  BY <1>1, <1>7, <1>8 DEF Notices
<1>10. /\ r.deferred = {} /\ tx[s] = NoTx /\ mark[s] = Unset /\ Remembers(sess[s])
       /\ \A u \in vs : u.change \in r.changes
  BY <1>1, <1>3, <1>5, <1>7 DEF SessOK, vs
<1>11. MemoryKept
  BY <1>9, NoticesMemory
<1>12. Remembers(sess[s])'
  BY <1>1, <1>7, <1>9, <1>10, <1>11, RemembersKept
<1>13. SessOK(s)'
  BY <1>1, <1>7, <1>9, <1>10, <1>12 DEF SessOK, Applying
<1>14. QED
  BY <1>9, <1>13, NoticesStep

LEMMA ReportStep ==
  ASSUME IInv, NEW s \in Sessions, Report(s) PROVE IInv'
<1>1. /\ SessOK(s) /\ sess \in [Sessions -> Session]
      /\ sess[s].pc = "inspecting" /\ UNCHANGED <<onDelete, db, seq, minted, mark, tx, purging, lost>>
      /\ sess' = [sess EXCEPT ![s] = Idle]
  BY DEF IInv, DataInv, TypeOK, Report, Assessed
<1>2. Idle \in Session /\ Idle.changes = {}
  BY NullsTyped DEF Idle
<1>3. Notices(s) /\ sess'[s] = Idle
  BY <1>1, <1>2 DEF Notices
<1>4. tx'[s] = NoTx /\ mark'[s] = Unset
  BY <1>1 DEF SessOK
<1>5. QED
  BY <1>3, <1>4, IdleOK, NoticesStep

LEMMA ReadImagesStep ==
  ASSUME IInv, NEW s \in Sessions, ReadImages(s) PROVE IInv'
<1>1. /\ SessOK(s) /\ sess \in [Sessions -> Session] /\ DataInv /\ sess[s].pc = "applying"
      /\ sess' = [sess EXCEPT ![s].pc = "viewed", ![s].images = db.log \cap sess[s].changes]
      /\ UNCHANGED <<onDelete, db, seq, minted, mark, tx, purging, lost>>
  BY DEF IInv, DataInv, TypeOK, ReadImages
<1> DEFINE im == db.log \cap sess[s].changes
           r  == [sess[s] EXCEPT !.pc = "viewed", !.images = im]
<1>2. im \in SUBSET Entry
  BY <1>1 DEF Session
<1>3. /\ r \in Session /\ r.pc = "viewed" /\ r.op = sess[s].op /\ r.capped = sess[s].capped
      /\ r.changes = sess[s].changes /\ r.verdicts = sess[s].verdicts
      /\ r.deferred = sess[s].deferred /\ r.forced = sess[s].forced
  BY <1>1, <1>2 DEF Session
<1>4. sess' = [sess EXCEPT ![s] = r]
  BY <1>1
<1> HIDE DEF r
<1>5. sess'[s] = r /\ Notices(s)
  BY <1>1, <1>3, <1>4 DEF Notices
<1>6. /\ mark[s].source = "ctrlz" /\ Remembers(sess[s])
      /\ ~sess[s].capped /\ CascadeBlockers(s) = {} /\ Careful(s)
  BY <1>1 DEF SessOK, Applying
<1>7. Remembers(sess[s])'
  BY <1>1, <1>3, <1>5, <1>6, NoticesMemory, RemembersKept
<1>8. CascadeBlockers(s)' = {}
  BY <1>1, <1>3, <1>5, <1>6 DEF CascadeBlockers
<1>9. Careful(s)'
  BY <1>1, <1>3, <1>5, <1>6 DEF Careful, MovesOwnRows, Wrote
<1>10. SessOK(s)'
  BY <1>1, <1>3, <1>5, <1>6, <1>7, <1>8, <1>9 DEF SessOK, Applying
<1>11. QED
  BY <1>5, <1>10, NoticesStep

\* The rows that are left, and those put off, change places only.
Shuffled(s, vs, df, b) == [sess[s] EXCEPT !.verdicts = vs, !.deferred = df, !.progress = b]

LEMMA ShuffleStep ==
  ASSUME IInv, NEW s \in Sessions, Applying(s),
         NEW vs \in SUBSET (sess[s].verdicts \cup sess[s].deferred),
         NEW df \in SUBSET (sess[s].verdicts \cup sess[s].deferred),
         NEW b \in BOOLEAN,
         sess' = [sess EXCEPT ![s] = Shuffled(s, vs, df, b)],
         UNCHANGED <<onDelete, db, seq, minted, mark, tx, purging, lost>>
  PROVE  IInv'
<1>1. SessOK(s) /\ sess \in [Sessions -> Session] /\ DataInv
  BY DEF IInv, DataInv, TypeOK
<1> DEFINE r == Shuffled(s, vs, df, b)
<1>2. vs \in SUBSET Verdict /\ df \in SUBSET Verdict
  BY <1>1 DEF Session
<1>3. /\ r \in Session /\ r.pc = sess[s].pc /\ r.op = sess[s].op /\ r.capped = sess[s].capped
      /\ r.changes = sess[s].changes /\ r.verdicts = vs /\ r.deferred = df
      /\ r.forced = sess[s].forced /\ r.images = sess[s].images
  BY <1>1, <1>2 DEF Session, Shuffled
<1>4. sess' = [sess EXCEPT ![s] = r]
  OBVIOUS
<1> HIDE DEF r
<1>5. sess'[s] = r /\ Notices(s)
  <2>1. sess'[s] = r /\ sess' \in [Sessions -> Session] /\ \A t \in Sessions \ {s} : sess'[t] = sess[t]
    BY <1>1, <1>3, <1>4
  <2>2. QED
    BY <1>3, <2>1 DEF Notices
<1>6. /\ mark[s].source = "ctrlz" /\ Remembers(sess[s]) /\ r.pc \in {"applying", "viewed"}
      /\ ~sess[s].capped /\ CascadeBlockers(s) = {} /\ Careful(s)
  BY <1>1, <1>3 DEF SessOK, Applying
<1>7. Remembers(sess[s])'
  BY <1>1, <1>3, <1>5, <1>6, NoticesMemory, RemembersKept
<1>8. CascadeBlockers(s)' = {}
  BY <1>3, <1>5, <1>6 DEF CascadeBlockers
<1>9. Careful(s)'
  BY <1>3, <1>5, <1>6 DEF Careful, MovesOwnRows, Wrote
<1>10. SessOK(s)'
  BY <1>1, <1>3, <1>5, <1>6, <1>7, <1>8, <1>9 DEF SessOK, Applying
<1>11. QED
  BY <1>5, <1>10, NoticesStep

LEMMA PutOffStep ==
  ASSUME IInv, NEW s \in Sessions, PutOff(s) PROVE IInv'
<1>1. PICK v \in sess[s].verdicts :
        /\ Ready(s, v)
        /\ sess' = [sess EXCEPT ![s].verdicts = @ \ {v}, ![s].deferred = @ \cup {v}]
  BY DEF PutOff
<1>2. /\ Applying(s) /\ UNCHANGED <<onDelete, db, seq, minted, mark, tx, purging, lost>>
      /\ sess \in [Sessions -> Session]
  BY <1>1 DEF Ready, NextVerdict, PutOff, IInv, DataInv, TypeOK
<1>3. sess[s].progress \in BOOLEAN
  BY <1>2 DEF Session
<1>4. sess' = [sess EXCEPT ![s] = Shuffled(s, sess[s].verdicts \ {v},
                                           sess[s].deferred \cup {v}, sess[s].progress)]
  BY <1>1, <1>2 DEF Session, Shuffled
<1> DEFINE vs == sess[s].verdicts \ {v}
           df == sess[s].deferred \cup {v}
           b  == sess[s].progress
<1>5. /\ vs \in SUBSET (sess[s].verdicts \cup sess[s].deferred)
      /\ df \in SUBSET (sess[s].verdicts \cup sess[s].deferred)
  OBVIOUS
<1>6. sess' = [sess EXCEPT ![s] = Shuffled(s, vs, df, b)] /\ b \in BOOLEAN
  BY <1>3, <1>4
<1> HIDE DEF vs, df, b
<1>7. QED
  BY <1>2, <1>5, <1>6, ShuffleStep

LEMMA NextRoundStep ==
  ASSUME IInv, NEW s \in Sessions, NextRound(s) PROVE IInv'
<1>1. /\ Applying(s)
      /\ sess' = [sess EXCEPT ![s].verdicts = sess[s].deferred, ![s].deferred = {},
                              ![s].progress = FALSE]
      /\ UNCHANGED <<onDelete, db, seq, minted, mark, tx, purging, lost>>
  BY DEF NextRound, RoundOver
<1>2. sess' = [sess EXCEPT ![s] = Shuffled(s, sess[s].deferred, {}, FALSE)]
  BY <1>1 DEF Shuffled
<1>3. QED
  BY <1>1, <1>2, ShuffleStep

LEMMA UndoBeginStep ==
  ASSUME IInv, NEW s \in Sessions, UndoBegin(s) PROVE IInv'
<1>0. sess \in [Sessions -> Session] /\ sess[s] \in Session
  BY DEF IInv, DataInv, TypeOK
<1>1. /\ TypeOK /\ SessOK(s) /\ sess \in [Sessions -> Session] /\ DataInv /\ sess[s].pc = "inspecting"
      /\ ~Blocked(s) /\ mark' = [mark EXCEPT ![s] = [op |-> 0, source |-> "ctrlz", undoOf |-> sess[s].op]]
      /\ sess' = [sess EXCEPT ![s].pc = "applying",
                          ![s].forced = Conflicts(s) # {},
                          ![s].verdicts = ToInvert(s),
                          ![s].tables = {Table[v.change.slot] : v \in ToInvert(s)}]
      /\ UNCHANGED <<onDelete, db, seq, minted, tx, purging, lost>>
      /\ mark \in [Clients -> Marker] /\ s \in Clients /\ Imaged
  BY DEF IInv, DataInv, TypeOK, UndoBegin, Assessed, Clients
<1> DEFINE m  == [op |-> 0, source |-> "ctrlz", undoOf |-> sess[s].op]
           f  == Conflicts(s) # {}
           vs == ToInvert(s)
           ts == {Table[v.change.slot] : v \in vs}
           r  == [sess[s] EXCEPT !.pc = "applying", !.forced = f, !.verdicts = vs, !.tables = ts]
<1>2. m \in Marker /\ m.op = 0 /\ m.source = "ctrlz"
  <2>1. sess[s] \in Session /\ 0 \in 0 .. MaxOps
    BY <1>0, ConstantsOK
  <2>2. sess[s].op \in 0 .. MaxOps
    BY <2>1 DEF Session
  <2>3. QED
    BY <2>1, <2>2 DEF Marker
<1>3. f \in BOOLEAN /\ vs \in SUBSET Verdict /\ vs \subseteq sess[s].verdicts
  BY <1>1 DEF ToInvert, Session
<1>4. ts \in SUBSET Tables
  BY <1>3 DEF Tables, Verdict, Entry
<1> HIDE DEF m, f, vs, ts
<1>5. /\ r \in Session /\ r.pc = "applying" /\ r.op = sess[s].op /\ r.capped = sess[s].capped
      /\ r.changes = sess[s].changes /\ r.verdicts = vs /\ r.deferred = sess[s].deferred
      /\ r.forced = f
  BY <1>1, <1>3, <1>4 DEF Session
<1>6. sess' = [sess EXCEPT ![s] = r] /\ mark' = [mark EXCEPT ![s] = m]
  BY <1>1 DEF m, f, vs, ts
<1> HIDE DEF r
<1>7. /\ sess'[s] = r /\ mark'[s] = m /\ sess' \in [Sessions -> Session]
      /\ \A t \in Sessions \ {s} : sess'[t] = sess[t] /\ mark'[t] = mark[t]
  <2>1. sess'[s] = r /\ sess' \in [Sessions -> Session] /\ \A t \in Sessions \ {s} : sess'[t] = sess[t]
    BY <1>0, <1>5, <1>6
  <2>2. mark'[s] = m /\ \A t \in Sessions \ {s} : mark'[t] = mark[t]
    BY <1>1, <1>6 DEF Clients
  <2>3. QED
    BY <2>1, <2>2
<1>8. /\ sess[s].deferred = {} /\ tx[s] = NoTx /\ mark[s] = Unset /\ Remembers(sess[s])
      /\ \A u \in sess[s].verdicts : u.change \in sess[s].changes
  BY <1>1 DEF SessOK
<1>9. DataInv'
  <2>1. DataInv /\ tx[s] = NoTx /\ UNCHANGED <<onDelete, db, seq, minted, tx, purging, lost>>
    BY <1>1, <1>8
  <2>2. /\ m \in Marker /\ m.op = 0 /\ m.source # "none" /\ mark' = [mark EXCEPT ![s] = m]
        /\ sess' \in [Sessions -> Session]
    BY <1>2, <1>6, <1>7
  <2>3. QED
    BY <2>1, <2>2, BeginData
<1>10. MemoryKept /\ \A t \in Sessions : RowsKept(t)
  <2>1. \A t \in Sessions : mark'[t].op \in {mark[t].op, 0}
    BY <1>2, <1>7
  <2>2. QED
    BY <1>1, <2>1, QuietMemory
<1>11. \A t \in Sessions \ {s} : SessOK(t)'
  BY <1>1, <1>7, <1>10, OthersKept
<1>12. Remembers(sess[s])'
  BY <1>1, <1>5, <1>7, <1>8, <1>10, RemembersKept
<1>13. ~r.capped /\ CascadeBlockers(s)' = {}
  BY <1>1, <1>5, <1>7 DEF Blocked, CascadeBlockers
<1>14. Careful(s)'
  <2>1. \A x \in Slots : ~Wrote(tx[s], x)'
    <3>1. (\A x \in Slots : NoTx.held[x] = 0) /\ tx'[s] = NoTx
      BY <1>1, <1>8, NullsTyped DEF None
    <3>2. QED
      BY <3>1 DEF Wrote, X
  <2>2. ~f => \A u \in vs : u.status = "clean"
    BY DEF f, vs, Conflicts, ToInvert
  <2>3. \A u \in vs : u.change \in r.changes
    BY <1>3, <1>5, <1>8
  <2>4. QED
    BY <1>5, <1>7, <1>8, <2>1, <2>2, <2>3 DEF Careful, MovesOwnRows
<1>15. SessOK(s)'
  BY <1>2, <1>5, <1>7, <1>12, <1>13, <1>14 DEF SessOK, Applying
<1>16. Imaged'
  BY <1>1, <1>5, <1>7 DEF Imaged
<1>17. QED
  BY <1>9, <1>11, <1>15, <1>16 DEF IInv

LEMMA InsertUnhindered ==
  ASSUME NEW c, NEW s \in Slots, NEW v \in Content, Insert(c, s, v)
  PROVE  Unhindered(c, s, v, {}) /\ Write(c, s, v, {}) /\ Seen(c, s) = Absent
BY DEF Insert, CanInsert, Unhindered

LEMMA UpdateUnhindered ==
  ASSUME NEW c, NEW s \in Slots, NEW v \in Content, Update(c, s, v)
  PROVE  Unhindered(c, s, v, {}) /\ Write(c, s, v, {}) /\ Seen(c, s) # Absent
BY DEF Update, CanUpdate, Unhindered

LEMMA DeleteUnhindered ==
  ASSUME DataInv, NEW c, NEW s \in Slots, Delete(c, s)
  PROVE  /\ Unhindered(c, s, Absent, Children(c, s)) /\ Write(c, s, Absent, Children(c, s))
         /\ Seen(c, s) # Absent
<1>1. onDelete \in {"cascade", "refuse"}
  BY ConstantsOK DEF DataInv, TypeOK
<1>2. /\ Seen(c, s) # Absent /\ ~Waits(c, s, X) /\ Children(c, s) \in SUBSET Slots
      /\ \A k \in Children(c, s) : Parent[k] = s
  BY DEF Delete, CanDelete, CanUpdate, Children
<1>3. \A k \in Children(c, s) : onDelete = "cascade" /\ ~Waits(c, k, X)
  BY <1>1 DEF Delete, CanDelete
<1>4. QED
  BY <1>2, <1>3 DEF Unhindered, Delete, Content

LEMMA WriteStep ==
  ASSUME IInv, NEW c \in Clients, NEW x, NEW v, NEW below, Unhindered(c, x, v, below),
         Write(c, x, v, below), Seen(c, x) # Absent \/ v # Absent, sess' \in [Sessions -> Session],
         UNCHANGED <<onDelete, db, purging, lost>>,
         \A t \in Sessions : t # c => sess'[t] = sess[t],
         \A t \in Sessions : sess'[t].changes = sess[t].changes
  PROVE  /\ DataInv' /\ Imaged' /\ MemoryKept /\ Grows(c, x, v, below) /\ Claimed(c).op \in OpIds
         /\ \A t \in Sessions \ {c} : SessOK(t)'
<1>1. DataInv' /\ DataInv /\ Grows(c, x, v, below) /\ Claimed(c).op \in OpIds
  BY WriteData, WriteGrows DEF IInv
<1>2. MemoryKept /\ \A t \in Sessions : RowsKept(t)
  BY <1>1, WriteMemory
<1>3. \A d \in Clients \ {c} : tx'[d] = tx[d] /\ mark'[d] = mark[d]
  BY <1>1 DEF Grows
<1>4. \A t \in Sessions \ {c} : SessOK(t)'
  BY <1>2, <1>3, OthersKept DEF Clients
<1> DEFINE e == [seq |-> seq + 1, op |-> Claimed(c).op, slot |-> x, before |-> Seen(c, x), after |-> v]
<1>5. Real(e)
  BY DEF Real, IsInsert, IsDelete
<1>6. tx'[c].log = tx[c].log \/ tx'[c].log = tx[c].log \cup {e}
  BY <1>1 DEF Grows
<1> HIDE DEF e
<1>7. Imaged'
  <2>1. \A d \in Clients : \A i \in tx'[d].log : i \in tx[d].log \/ Real(i)
    BY <1>3, <1>5, <1>6
  <2>2. QED
    BY <2>1 DEF IInv, Imaged
<1>8. QED
  BY <1>1, <1>2, <1>4, <1>7

LEMMA UserWriteStep ==
  ASSUME IInv, NEW c \in Clients, UserWrite(c) PROVE IInv'
<1>1. /\ DataInv /\ sess \in [Sessions -> Session] /\ sess' = sess /\ UNCHANGED <<onDelete, db, purging, lost>>
      /\ Running(c)
  BY DEF IInv, DataInv, TypeOK, UserWrite
<1>2. \E below : \E x \in Slots, v \in Content :
        /\ Unhindered(c, x, v, below) /\ Write(c, x, v, below)
        /\ Seen(c, x) # Absent \/ v # Absent
  <2>1. PICK s \in Slots : Delete(c, s) \/ \E v \in Vals : Insert(c, s, v) \/ Update(c, s, v)
    BY DEF UserWrite
  <2>2. CASE Delete(c, s)
    BY <1>1, <2>2, DeleteUnhindered DEF Content
  <2>3. ASSUME NEW v \in Vals, Insert(c, s, v) \/ Update(c, s, v)
        PROVE  Unhindered(c, s, v, {}) /\ Write(c, s, v, {}) /\ v # Absent /\ v \in Content
    BY <2>3, ConstantsOK, InsertUnhindered, UpdateUnhindered DEF Content
  <2>4. QED
    BY <2>1, <2>2, <2>3
<1>3. PICK below : \E x \in Slots, v \in Content :
        /\ Unhindered(c, x, v, below) /\ Write(c, x, v, below)
        /\ Seen(c, x) # Absent \/ v # Absent
  BY <1>2
<1>10. PICK x \in Slots, v \in Content :
        /\ Unhindered(c, x, v, below) /\ Write(c, x, v, below)
        /\ Seen(c, x) # Absent \/ v # Absent
  BY <1>3
<1>4. /\ DataInv' /\ Imaged' /\ \A t \in Sessions \ {c} : SessOK(t)'
      /\ Grows(c, x, v, below) /\ Claimed(c).op \in OpIds
  BY <1>1, <1>10, WriteStep
<1>5. ASSUME c \in Sessions PROVE SessOK(c)'
  <2>1. /\ sess[c].pc = "running" /\ mark[c].source = "ctrlz" /\ sess'[c] = sess[c]
        /\ sess[c] = [Idle EXCEPT !.pc = sess[c].pc]
    BY <1>1, <1>5 DEF Running, IInv, SessOK
  <2>2. mark'[c].source = "ctrlz"
    BY <1>1, <1>4, <2>1, ClaimedSound DEF Grows, DataInv
  <2>3. QED
    BY <2>1, <2>2 DEF SessOK, Applying
<1>6. QED
  BY <1>4, <1>5 DEF IInv

\* A transaction of s is over, and s with it.
LEMMA EndStep ==
  ASSUME IInv, NEW c \in Clients, tx' = [tx EXCEPT ![c] = NoTx], Returns(c),
         UNCHANGED <<onDelete, db, seq, minted, purging, lost>>
  PROVE  IInv'
<1>1. /\ DataInv /\ Imaged /\ sess \in [Sessions -> Session] /\ mark \in [Clients -> Marker]
      /\ tx \in [Clients -> Transaction]
  BY DEF IInv, DataInv, TypeOK
<1>2. NoTx.log = {} /\ Idle.changes = {} /\ Idle \in Session /\ Unset.op = 0 /\ Sessions \subseteq Clients
  BY NullsTyped DEF Idle, Clients
<1>3. /\ mark' = [mark EXCEPT ![c] = Unset] \/ mark' = mark
      /\ sess' \in [Sessions -> Session]
      /\ c \in Sessions => sess'[c] = Idle /\ mark'[c] = Unset
      /\ \A t \in Sessions \ {c} : sess'[t] = sess[t] /\ mark'[t] = mark[t] /\ tx'[t] = tx[t]
      /\ tx'[c] = NoTx /\ \A d \in Clients \ {c} : tx'[d] = tx[d]
  BY <1>1, <1>2 DEF Returns
<1>4. DataInv'
  BY <1>1, <1>3, EndData
<1>5. MemoryKept /\ \A t \in Sessions : RowsKept(t)
  <2>1. \A t \in Sessions : mark'[t].op \in {mark[t].op, 0}
    BY <1>2, <1>3
  <2>2. QED
    BY <1>1, <2>1, QuietMemory
<1>6. \A t \in Sessions \ {c} : SessOK(t)'
  BY <1>3, <1>5, OthersKept
<1>7. c \in Sessions => SessOK(c)'
  BY <1>3, IdleOK
<1>8. Imaged'
  <2>1. \A d \in Clients : tx'[d].log \subseteq tx[d].log
    BY <1>2, <1>3
  <2>2. \A t \in Sessions : sess'[t].changes \subseteq sess[t].changes
    BY <1>2, <1>3
  <2>3. QED
    BY <1>1, <2>1, <2>2 DEF Imaged
<1>9. QED
  BY <1>4, <1>6, <1>7, <1>8 DEF IInv

LEMMA DisconnectStep ==
  ASSUME IInv, NEW c \in Outsiders, Disconnect(c) PROVE IInv'
<1>1. /\ DataInv /\ Imaged /\ sess \in [Sessions -> Session] /\ mark \in [Clients -> Marker]
      /\ tx \in [Clients -> Transaction] /\ c \in Clients /\ c \notin Sessions
  BY ConstantsOK DEF IInv, DataInv, TypeOK, Clients
<1>2. NoTx.log = {} /\ Sessions \subseteq Clients
  BY NullsTyped DEF Clients
<1>3. /\ tx' = [tx EXCEPT ![c] = NoTx] /\ mark' = [mark EXCEPT ![c] = Unset]
      /\ UNCHANGED <<onDelete, db, seq, minted, sess, purging, lost>>
  BY DEF Disconnect
<1>4. /\ \A t \in Sessions : sess'[t] = sess[t] /\ mark'[t] = mark[t] /\ tx'[t] = tx[t] /\ t # c
      /\ tx'[c] = NoTx /\ \A d \in Clients \ {c} : tx'[d] = tx[d]
  BY <1>1, <1>2, <1>3
<1>5. DataInv'
  BY <1>1, <1>3, EndData
<1>6. MemoryKept /\ \A t \in Sessions : RowsKept(t)
  BY <1>1, <1>3, <1>4, QuietMemory
<1>7. \A t \in Sessions \ {c} : SessOK(t)'
  BY <1>3, <1>4, <1>6, OthersKept
<1>8. Imaged'
  BY <1>1, <1>2, <1>3, <1>4 DEF Imaged
<1>9. QED
  BY <1>4, <1>5, <1>7, <1>8 DEF IInv

LEMMA ExecBeginStep ==
  ASSUME IInv, NEW s \in Sessions, ExecBegin(s) PROVE IInv'
<1>1. /\ DataInv /\ Imaged /\ sess \in [Sessions -> Session] /\ mark \in [Clients -> Marker]
      /\ sess[s] \in Session /\ SessOK(s) /\ sess[s].pc = "idle" /\ s \in Clients
      /\ UNCHANGED <<onDelete, db, seq, minted, tx, purging, lost>>
  BY DEF IInv, DataInv, TypeOK, ExecBegin, Clients
<1> DEFINE m == [Unset EXCEPT !.source = "ctrlz"]
           r == [Idle EXCEPT !.pc = "running"]
<1>2. m \in Marker /\ m.op = 0 /\ m.source = "ctrlz"
  BY NullsTyped DEF Unset, Marker
<1>3. r \in Session /\ r.pc = "running" /\ r.changes = {} /\ r = [Idle EXCEPT !.pc = r.pc]
  BY NullsTyped DEF Idle, Session
<1>4. sess[s] = [Idle EXCEPT !.pc = "idle"] /\ tx[s] = NoTx /\ mark[s] = Unset
  BY <1>1 DEF SessOK
<1>5. [sess[s] EXCEPT !.pc = "running"] = r
  BY <1>4 DEF Idle
<1>6. mark' = [mark EXCEPT ![s] = m] /\ sess' = [sess EXCEPT ![s] = r]
  BY <1>5 DEF ExecBegin
<1> HIDE DEF m, r
<1>7. /\ sess'[s] = r /\ sess' \in [Sessions -> Session] /\ mark'[s] = m
      /\ \A t \in Sessions \ {s} : sess'[t] = sess[t] /\ mark'[t] = mark[t] /\ tx'[t] = tx[t]
  BY <1>1, <1>3, <1>6 DEF Clients
<1>8. DataInv'
  BY <1>1, <1>2, <1>4, <1>6, <1>7, BeginData
<1>9. MemoryKept /\ \A t \in Sessions : RowsKept(t)
  <2>1. \A t \in Sessions : mark'[t].op \in {mark[t].op, 0}
    BY <1>2, <1>7
  <2>2. QED
    BY <1>1, <2>1, QuietMemory
<1>10. \A t \in Sessions \ {s} : SessOK(t)'
  BY <1>1, <1>7, <1>9, OthersKept
<1>11. SessOK(s)'
  BY <1>2, <1>3, <1>7 DEF SessOK, Applying
<1>12. Imaged'
  BY <1>1, <1>3, <1>7 DEF Imaged
<1>13. QED
  BY <1>8, <1>10, <1>11, <1>12 DEF IInv

\* s is through with v.
Applied(s, v) ==
  sess' = [sess EXCEPT ![s] = Shuffled(s, sess[s].verdicts \ {v}, sess[s].deferred, TRUE)]

\* The inverse of v, unless somebody forced the undo, writes to a row that holds
\* what the operation left in it, or of which the image was gone.
LEMMA InverseStep ==
  ASSUME IInv, NEW s \in Sessions, NEW v \in sess[s].verdicts, Applying(s), NEW w, NEW below,
         Unhindered(s, v.change.slot, w, below), Write(s, v.change.slot, w, below),
         Seen(s, v.change.slot) # Absent \/ w # Absent,
         ~sess[s].forced => \/ Wrote(tx[s], v.change.slot)
                            \/ v.change.after = db.rows[v.change.slot]
                            \/ sess[s].pc = "viewed" /\ v.change \notin sess[s].images,
         Applied(s, v), UNCHANGED <<onDelete, db, purging, lost>>
  PROVE  IInv'
<1> DEFINE x == v.change.slot
           vs == sess[s].verdicts \ {v}
           r == Shuffled(s, vs, sess[s].deferred, TRUE)
<1>1. /\ DataInv /\ sess \in [Sessions -> Session] /\ sess[s] \in Session /\ SessOK(s) /\ s \in Clients
  BY DEF IInv, DataInv, TypeOK, Clients
<1>2. vs \in SUBSET Verdict
  BY <1>1 DEF Session
<1>3. /\ r \in Session /\ r.pc = sess[s].pc /\ r.op = sess[s].op /\ r.capped = sess[s].capped
      /\ r.changes = sess[s].changes /\ r.verdicts = vs /\ r.deferred = sess[s].deferred
      /\ r.forced = sess[s].forced /\ r.images = sess[s].images
  BY <1>1, <1>2 DEF Session, Shuffled
<1>4. sess' = [sess EXCEPT ![s] = r]
  BY DEF Applied
<1> HIDE DEF r
<1>5. /\ sess'[s] = r /\ sess' \in [Sessions -> Session]
      /\ \A t \in Sessions : t # s => sess'[t] = sess[t]
      /\ \A t \in Sessions : sess'[t].changes = sess[t].changes
  BY <1>1, <1>3, <1>4
<1>6. /\ DataInv' /\ Imaged' /\ MemoryKept /\ Grows(s, x, w, below) /\ Claimed(s).op \in OpIds
      /\ \A t \in Sessions \ {s} : SessOK(t)'
  BY <1>1, <1>5, WriteStep
<1>7. /\ mark[s].source = "ctrlz" /\ Remembers(sess[s]) /\ r.pc \in {"applying", "viewed"}
      /\ ~sess[s].capped /\ CascadeBlockers(s) = {} /\ Careful(s)
  BY <1>1, <1>3 DEF SessOK, Applying
<1>8. mark'[s].source = "ctrlz"
  BY <1>1, <1>6, <1>7, ClaimedSound DEF Grows, DataInv
<1>9. Remembers(sess[s])'
  BY <1>1, <1>3, <1>5, <1>6, <1>7, RemembersKept
<1>10. CascadeBlockers(s)' = {}
  BY <1>3, <1>5, <1>7 DEF CascadeBlockers
<1>11. ASSUME ~r.forced PROVE MovesOwnRows(s)'
  <2>1. /\ MovesOwnRows(s) /\ v.change \in sess[s].changes
        /\ \/ Wrote(tx[s], x)
           \/ v.change.after = db.rows[x]
           \/ sess[s].pc = "viewed" /\ v.change \notin sess[s].images
    BY <1>3, <1>7, <1>11 DEF Careful
  <2>2. ASSUME NEW y \in Slots, Wrote(tx'[s], y), y \notin tx'[s].lost
        PROVE  \E c \in sess[s].changes :
                 c.slot = y /\ (c.after = db.rows[y] \/ (sess[s].pc = "viewed" /\ c \notin sess[s].images))
    <3>1. y \notin tx[s].lost /\ y \notin below
      BY <1>6, <2>2 DEF Grows
    <3>2. y = x \/ Wrote(tx[s], y)
      BY <1>6, <2>2, <3>1 DEF Grows, Wrote, S, X
    <3>3. CASE Wrote(tx[s], y)
      BY <2>1, <3>1, <3>3 DEF MovesOwnRows
    <3>4. CASE y = x /\ ~Wrote(tx[s], y)
      BY <2>1, <3>4
    <3>5. QED
      BY <3>2, <3>3, <3>4
  <2>3. /\ sess'[s].changes = sess[s].changes /\ sess'[s].pc = sess[s].pc
        /\ sess'[s].images = sess[s].images /\ db' = db
    BY <1>3, <1>5
  <2>4. \A y \in Slots : tx'[s].held[y] = X /\ y \notin tx'[s].lost =>
          \E c \in sess'[s].changes :
            c.slot = y /\ (c.after = db'.rows[y] \/ (sess'[s].pc = "viewed" /\ c \notin sess'[s].images))
    BY <2>2, <2>3 DEF Wrote
  <2>5. QED
    BY <2>4 DEF MovesOwnRows, Wrote
<1>12. Careful(s)'
  BY <1>3, <1>5, <1>7, <1>11 DEF Careful
<1>13. SessOK(s)'
  BY <1>3, <1>5, <1>7, <1>8, <1>9, <1>10, <1>12 DEF SessOK, Applying
<1>14. QED
  BY <1>6, <1>13 DEF IInv

LEMMA ApplyNextStep ==
  ASSUME IInv, NEW s \in Sessions, ApplyNext(s) PROVE IInv'
<1>1. /\ DataInv /\ Imaged /\ SessOK(s) /\ sess[s] \in Session
      /\ UNCHANGED <<onDelete, db, purging, lost>>
  BY DEF IInv, DataInv, TypeOK, ApplyNext
<1>2. PICK v \in sess[s].verdicts :
        /\ Ready(s, v) /\ ApplyInverse(s, v)
        /\ sess' = [sess EXCEPT ![s].verdicts = @ \ {v}, ![s].progress = TRUE]
  BY DEF ApplyNext
<1> DEFINE c == v.change
           x == v.change.slot
<1>3. v \in Verdict /\ c \in Entry /\ x \in Slots /\ c.before \in Content /\ c.after \in Content
  BY <1>1 DEF Session, Verdict, Entry
<1>4. Applied(s, v)
  BY <1>1, <1>2 DEF Session, Shuffled, Applied
<1>5. Applying(s) /\ (NeedsImage(v) => sess[s].pc = "viewed")
  BY <1>2 DEF Ready, NextVerdict
<1>6. c \in sess[s].changes /\ (~sess[s].forced => v.status = "clean") /\ Real(c)
  BY <1>1, <1>5 DEF SessOK, Careful, Imaged
<1>7. ~Wrote(tx[s], x) => Seen(s, x) = db.rows[x]
  BY DEF Seen
<1>8. CASE IsDelete(c) /\ Insert(s, x, c.before)
  <2>1. /\ Unhindered(s, x, c.before, {}) /\ Write(s, x, c.before, {}) /\ Seen(s, x) = Absent
    BY <1>3, <1>8, InsertUnhindered
  <2>2. c.before # Absent /\ c.after = Absent
    BY <1>6, <1>8 DEF Real, IsInsert, IsDelete
  <2>3. \/ Wrote(tx[s], x)
        \/ c.after = db.rows[x]
    BY <1>7, <2>1, <2>2
  <2>4. QED
    BY <1>1, <1>4, <1>5, <2>1, <2>2, <2>3, InverseStep
<1>9. CASE ~IsDelete(c) /\ Matches(s, v)
  <2>1. ~sess[s].forced => \/ Wrote(tx[s], x)
                           \/ c.after = db.rows[x]
                           \/ sess[s].pc = "viewed" /\ c \notin sess[s].images
    BY <1>5, <1>6, <1>7, <1>9 DEF Matches, Guarded, NeedsImage
  <2>2. CASE Delete(s, x)
    <3>1. /\ Unhindered(s, x, Absent, Children(s, x)) /\ Write(s, x, Absent, Children(s, x))
          /\ Seen(s, x) # Absent
      BY <1>1, <1>3, <2>2, DeleteUnhindered
    <3>2. QED
      BY <1>1, <1>4, <1>5, <2>1, <3>1, InverseStep
  <2>3. CASE Update(s, x, c.before)
    <3>1. /\ Unhindered(s, x, c.before, {}) /\ Write(s, x, c.before, {}) /\ Seen(s, x) # Absent
      BY <1>3, <2>3, UpdateUnhindered
    <3>2. QED
      BY <1>1, <1>4, <1>5, <2>1, <3>1, InverseStep
  <2>4. CASE ~Delete(s, x) /\ ~Update(s, x, c.before)
    BY <1>2, <1>9, <2>4 DEF ApplyInverse
  <2>5. QED
    BY <2>2, <2>3, <2>4
<1>10. CASE UNCHANGED <<seq, minted, mark, tx>>
  <2> DEFINE vs == sess[s].verdicts \ {v}
             df == sess[s].deferred
  <2>1. /\ vs \in SUBSET (sess[s].verdicts \cup sess[s].deferred)
        /\ df \in SUBSET (sess[s].verdicts \cup sess[s].deferred)
    OBVIOUS
  <2>2. sess' = [sess EXCEPT ![s] = Shuffled(s, vs, df, TRUE)]
    BY <1>4 DEF Applied
  <2> HIDE DEF vs, df
  <2>3. QED
    BY <1>1, <1>5, <1>10, <2>1, <2>2, ShuffleStep
<1>11. QED
  BY <1>2, <1>6, <1>8, <1>9, <1>10 DEF ApplyInverse, Real

LEMMA CommitStep ==
  ASSUME IInv, NEW c \in Clients, NEW ops, SameHeaders(ops), Commits(c, ops), Returns(c)
  PROVE  IInv'
<1>1. /\ DataInv /\ Imaged /\ sess \in [Sessions -> Session] /\ mark \in [Clients -> Marker]
  BY DEF IInv, DataInv, TypeOK
<1>2. NoTx.log = {} /\ Idle.changes = {} /\ Idle \in Session /\ Sessions \subseteq Clients
  BY NullsTyped DEF Idle, Clients
<1>3. /\ LandedMark(c) /\ sess' \in [Sessions -> Session]
      /\ c \in Sessions => sess'[c] = Idle /\ mark'[c] = Unset
      /\ \A t \in Sessions \ {c} : sess'[t] = sess[t] /\ mark'[t] = mark[t]
  BY <1>1, <1>2 DEF Returns, LandedMark
<1>4. DataInv' /\ Landed(c, ops) /\ UNCHANGED <<onDelete, minted>>
  BY <1>1, <1>3, CommitData, Lands
<1>5. MemoryKept /\ \A t \in Sessions \ {c} : RowsKept(t)
  BY <1>1, <1>3, <1>4, CommitMemory
<1>6. tx'[c] = NoTx /\ (\A d \in Clients \ {c} : tx'[d] = tx[d]) /\ db'.log = db.log \cup tx[c].log
  BY <1>4 DEF Landed
<1>7. \A t \in Sessions \ {c} : SessOK(t)'
  BY <1>2, <1>3, <1>4, <1>5, <1>6, OthersKept
<1>8. c \in Sessions => SessOK(c)'
  BY <1>3, <1>6, IdleOK
<1>9. Imaged'
  <2>1. \A d \in Clients : tx'[d].log \subseteq tx[d].log
    BY <1>2, <1>6
  <2>2. \A t \in Sessions : sess'[t].changes \subseteq sess[t].changes
    BY <1>2, <1>3
  <2>3. QED
    BY <1>1, <1>6, <2>1, <2>2 DEF Imaged
<1>10. QED
  BY <1>4, <1>7, <1>8, <1>9 DEF IInv

\* Retention and settings: the connections go on as they were.
LEMMA HousekeepingStep ==
  ASSUME IInv, PurgeHeaders \/ PurgeChanges \/ SetLimit PROVE IInv'
<1>1. DataInv /\ Imaged /\ db \in Database /\ Sessions \subseteq Clients
  BY DEF IInv, DataInv, TypeOK, Clients
<1>2. UNCHANGED <<onDelete, mark, tx, sess>> /\ db'.log \subseteq db.log
  BY <1>1 DEF PurgeHeaders, PurgeChanges, SetLimit, Database
<1>3. DataInv'
  BY <1>1, PurgeHeadersData, PurgeChangesData, SetLimitData
<1>4. MemoryKept /\ \A t \in Sessions : RowsKept(t)
  BY <1>1, PurgeHeadersMemory, PurgeChangesMemory, SetLimitMemory
<1>5. \A t \in Sessions : SessOK(t)'
  BY <1>1, <1>2, <1>4, SessKept DEF IInv
<1>6. Imaged'
  BY <1>1, <1>2 DEF Imaged
<1>7. QED
  BY <1>3, <1>5, <1>6 DEF IInv

LEMMA InitInv == ASSUME Init PROVE IInv
<1>1. /\ mark = [c \in Clients |-> Unset] /\ tx = [c \in Clients |-> NoTx]
      /\ sess = [s \in Sessions |-> Idle] /\ lost = [o \in OpIds |-> {}] /\ seq = 0 /\ minted = 0
      /\ onDelete \in Actions /\ purging = FALSE
  BY DEF Init
<1>2. PICK rows \in [Slots -> Content], limit \in Limits :
        db = [rows |-> rows, ops |-> [o \in OpIds |-> NoOp], log |-> {}, limit |-> limit]
  BY DEF Init
<1>3. /\ db \in Database /\ db.log = {} /\ \A o \in OpIds : db.ops[o] = NoOp
  BY <1>2, NullsTyped, ConstantsOK DEF Database
<1>4. /\ TypeOK /\ \A o \in OpIds : ~Exists(db, o) /\ db.ops[o].source = "none"
  <2>1. /\ mark \in [Clients -> Marker] /\ tx \in [Clients -> Transaction]
        /\ sess \in [Sessions -> Session] /\ lost \in [OpIds -> SUBSET Slots]
    BY <1>1, NullsTyped
  <2>2. seq \in Nat /\ minted \in 0 .. MaxOps /\ onDelete \in Actions /\ purging \in BOOLEAN
    <3>1. seq = 0 /\ minted = 0 /\ onDelete \in Actions /\ purging = FALSE
      BY <1>1
    <3>2. seq \in Nat /\ minted \in 0 .. MaxOps
      BY <3>1, ConstantsOK
    <3>3. purging \in BOOLEAN
      BY <3>1, Zenon
    <3>4. QED
      BY <3>1, <3>2, <3>3
  <2>3. NoOp.source = "none"
    BY NullsTyped
  <2>4. QED
    BY <1>3, <2>1, <2>2, <2>3 DEF TypeOK, Exists
<1>5. /\ \A c \in Clients : tx[c] = NoTx /\ mark[c] = Unset
      /\ \A s \in Sessions : sess[s] = Idle /\ tx[s] = NoTx /\ mark[s] = Unset
  BY <1>1 DEF Clients
<1>6. /\ Unset.op = 0 /\ Unset.source = "none" /\ \A x \in Slots : NoTx.held[x] = 0
      /\ NoTx.row = NoOp /\ NoTx.log = {} /\ NoTx.lost = {} /\ IsFiniteSet({})
  BY NullsTyped, FS_EmptySet DEF None
<1>7. Locks
  BY <1>5, <1>6 DEF Locks, X
<1>8. Marks
  BY <1>1, <1>4, <1>5, <1>6 DEF Marks, Clients
<1>9. Committed
  BY <1>3, <1>4, <1>6 DEF Committed, CountedIsStored
<1>10. \A c \in Clients : Recording(tx[c], mark[c])
  BY <1>5, <1>6 DEF Recording, Told
<1>11. Imaged
  <2>1. Idle.changes = {}
    BY DEF Idle
  <2>2. QED
    BY <1>3, <1>5, <1>6, <2>1 DEF Imaged
<1>12. \A s \in Sessions : SessOK(s)
  <2>1. Idle.pc = "idle" /\ Idle = [Idle EXCEPT !.pc = "idle"]
    BY DEF Idle
  <2>2. QED
    BY <1>5, <2>1 DEF SessOK, Applying
<1>13. QED
  BY <1>4, <1>7, <1>8, <1>9, <1>10, <1>11, <1>12 DEF IInv, DataInv

LEMMA NextInv == ASSUME IInv, Next PROVE IInv'
<1>1. ASSUME NEW c \in Clients, UserWrite(c) PROVE IInv'
  BY <1>1, UserWriteStep
<1>2. ASSUME NEW c \in Clients, Commit(c) PROVE IInv'
  BY <1>2, CommitStep, SameHeadersThere DEF Commit, IInv
<1>3. ASSUME NEW c \in Clients, Abandon(c) PROVE IInv'
  BY <1>3, EndStep DEF Abandon
<1>4. ASSUME NEW c \in Outsiders, Disconnect(c) PROVE IInv'
  BY <1>4, DisconnectStep
<1>5. ASSUME NEW s \in Sessions, SessionStep(s) PROVE IInv'
  <2>1. CASE ExecBegin(s)
    BY <2>1, ExecBeginStep
  <2>2. CASE ReadOperation(s)
    BY <2>2, ReadOperationStep
  <2>3. CASE ReadChanges(s)
    BY <2>3, ReadChangesStep
  <2>4. CASE LiveImage(s)
    BY <2>4, LiveImageStep
  <2>5. CASE Report(s)
    BY <2>5, ReportStep
  <2>6. CASE UndoBegin(s)
    BY <2>6, UndoBeginStep
  <2>7. CASE ReadImages(s)
    BY <2>7, ReadImagesStep
  <2>8. CASE ApplyNext(s)
    BY <2>8, ApplyNextStep
  <2>9. CASE PutOff(s)
    BY <2>9, PutOffStep
  <2>10. CASE NextRound(s)
    BY <2>10, NextRoundStep
  <2>11. CASE UndoFail(s)
    BY <2>11, EndStep DEF UndoFail, Clients
  <2>12. CASE UndoCommit(s)
    <3>1. sess[s].op \in OpIds /\ s \in Clients
      <4>1. SessOK(s) /\ Applying(s)
        BY <2>12 DEF IInv, UndoCommit, RoundOver
      <4>2. QED
        BY <4>1 DEF SessOK, Remembers, Applying, Clients
    <3>2. SameHeaders(MarkedUndone(sess[s].op))
      BY <3>1, SameHeadersUndone DEF IInv
    <3>3. QED
      BY <2>12, <3>1, <3>2, CommitStep DEF UndoCommit
  <2>13. QED
    BY <1>5, <2>1, <2>2, <2>3, <2>4, <2>5, <2>6, <2>7, <2>8, <2>9, <2>10, <2>11, <2>12
    DEF SessionStep
<1>6. CASE PurgeHeaders \/ PurgeChanges \/ SetLimit
  BY <1>6, HousekeepingStep
<1>7. QED
  BY <1>1, <1>2, <1>3, <1>4, <1>5, <1>6 DEF Next

LEMMA StutterInv == ASSUME IInv, UNCHANGED vars PROVE IInv'
<1>1. UNCHANGED <<onDelete, db, seq, minted, mark, tx, sess, purging, lost>>
  BY DEF vars
<1>2. DataInv' /\ Imaged'
  <2>1. sess' \in [Sessions -> Session]
    BY <1>1 DEF IInv, DataInv, TypeOK
  <2>2. QED
    BY <1>1, <2>1, ReaderData DEF IInv, Imaged
<1>3. MemoryKept /\ \A t \in Sessions : RowsKept(t)
  BY <1>1, QuietMemory DEF IInv
<1>4. \A t \in Sessions : SessOK(t)'
  BY <1>1, <1>3, SessKept DEF IInv
<1>5. QED
  BY <1>2, <1>4 DEF IInv

LEMMA Invariant == Spec => []IInv
<1>1. IInv /\ [Next]_vars => IInv'
  BY NextInv, StutterInv
<1>2. QED
  BY <1>1, InitInv, PTL DEF Spec

-----------------------------------------------------------------------------
(* What follows.                                                            *)

\* Only a commit adds to the log.
LEMMA LogGrows ==
  ASSUME IInv, [Next]_vars, NEW e \in db'.log, e \notin db.log
  PROVE  \E k \in Clients : /\ e \in tx[k].log /\ db'.log \ db.log \subseteq tx[k].log
                            /\ db'.ops[mark[k].op] = tx[k].row
<1>1. DataInv /\ db \in Database /\ Sessions \subseteq Clients
  BY DEF IInv, DataInv, TypeOK, Clients
<1>2. ASSUME NEW k \in Clients, NEW ops, SameHeaders(ops), Commits(k, ops)
      PROVE  \E d \in Clients : /\ e \in tx[d].log /\ db'.log \ db.log \subseteq tx[d].log
                                /\ db'.ops[mark[d].op] = tx[d].row
  <2>1. Landed(k, ops)
    BY <1>1, <1>2, Lands
  <2>2. Recording(tx[k], mark[k]) /\ mark[k] \in Marker /\ e \in tx[k].log
    BY <1>1, <2>1 DEF DataInv, TypeOK, Landed
  <2>3. tx[k].row # NoOp /\ mark[k].op \in OpIds
    BY <2>2, ConstantsOK DEF Recording, Marker, OpIds
  <2>4. QED
    BY <2>1, <2>2, <2>3 DEF Landed, Heads
<1>3. CASE \E k \in Clients : Commit(k)
  BY <1>1, <1>2, <1>3, SameHeadersThere DEF Commit
<1>4. CASE \E s \in Sessions : UndoCommit(s)
  <2>1. PICK s \in Sessions : UndoCommit(s)
    BY <1>4
  <2>2. SessOK(s) /\ Applying(s)
    BY <2>1 DEF IInv, UndoCommit, RoundOver
  <2>3. sess[s].op \in OpIds
    BY <2>2 DEF SessOK, Remembers, Applying
  <2>4. QED
    BY <1>1, <1>2, <2>1, <2>3, SameHeadersUndone DEF UndoCommit
<1>5. CASE PurgeHeaders \/ PurgeChanges \/ SetLimit \/ UNCHANGED vars
  BY <1>1, <1>5 DEF PurgeHeaders, PurgeChanges, SetLimit, Database, vars
<1>6. CASE \E c \in Clients : UserWrite(c) \/ Abandon(c)
  BY <1>6 DEF UserWrite, Abandon
<1>7. CASE \E c \in Outsiders : Disconnect(c)
  BY <1>7 DEF Disconnect
<1>8. CASE \E s \in Sessions : SessionStep(s) /\ ~UndoCommit(s)
  BY <1>8 DEF SessionStep, ExecBegin, ReadOperation, ReadChanges, LiveImage, Report, UndoBegin,
     ReadImages, ApplyNext, PutOff, NextRound, UndoFail
<1>9. QED
  BY <1>3, <1>4, <1>5, <1>6, <1>7, <1>8 DEF Next

\* Only UndoCommit of s ends an undo of s with a change to the database.
LEMMA UndoCommits ==
  ASSUME IInv, [Next]_vars, NEW s \in Sessions, UndoCommitted(s)
  PROVE  \E ops : SameHeaders(ops) /\ Landed(s, ops)
<1>1. Applying(s) /\ sess'[s].pc = "idle" /\ db' # db /\ s \in Clients /\ sess'[s] # sess[s]
  BY DEF UndoCommitted, Applying, Clients
<1>2. /\ DataInv /\ SessOK(s) /\ sess \in [Sessions -> Session]
  BY DEF IInv, DataInv, TypeOK
<1>3. ASSUME NEW c \in Clients, Commit(c) PROVE FALSE
  <2>1. CASE c = s
    BY <1>1, <1>3, <2>1 DEF Commit, Running, Applying
  <2>2. CASE c # s
    BY <1>1, <1>2, <1>3, <2>2 DEF Commit, Returns
  <2>3. QED
    BY <2>1, <2>2
<1>4. ~(PurgeHeaders \/ PurgeChanges \/ SetLimit \/ UNCHANGED vars)
  BY <1>1 DEF PurgeHeaders, PurgeChanges, SetLimit, vars
<1>5. \A c \in Clients : ~UserWrite(c) /\ ~Abandon(c)
  BY <1>1 DEF UserWrite, Abandon
<1>6. \A c \in Outsiders : ~Disconnect(c)
  BY <1>1 DEF Disconnect
<1>7. \A t \in Sessions : SessionStep(t) => UndoCommit(t)
  BY <1>1 DEF SessionStep, ExecBegin, ReadOperation, ReadChanges, LiveImage, Report, UndoBegin,
     ReadImages, ApplyNext, PutOff, NextRound, UndoFail
<1>8. PICK t \in Sessions : UndoCommit(t)
  BY <1>3, <1>4, <1>5, <1>6, <1>7 DEF Next
<1>9. t = s
  <2>1. sess' = [sess EXCEPT ![t] = Idle]
    BY <1>8 DEF UndoCommit, Returns
  <2>2. QED
    BY <1>1, <1>2, <2>1
<1>10. sess[s].op \in OpIds
  BY <1>1, <1>2 DEF SessOK, Remembers, Applying
<1>11. QED
  BY <1>1, <1>2, <1>8, <1>9, <1>10, SameHeadersUndone, Lands DEF UndoCommit

\* The shapes of what is committed, of the connections and of the sessions.
THEOREM TypeCorrect == Spec => []TypeOK
<1>1. IInv => TypeOK
  BY DEF IInv, DataInv
<1>2. QED
  BY <1>1, Invariant, PTL

\* A header that is not capped counts no row of which the log has no image: a
\* transaction counts what it stored, under an id that is its connection's own.
THEOREM CountsAreHonest == Spec => []CountedIsStored
<1>1. IInv => CountedIsStored
  BY DEF IInv, DataInv, Committed
<1>2. QED
  BY <1>1, Invariant, PTL

\* A commit adds to one operation, and to one of ctrlz's only once.
THEOREM ClosedOperations == Spec => CtrlzOperationsAreClosed
<1>1. ASSUME IInv, [Next]_vars, NEW c \in db'.log \ db.log
      PROVE  /\ \A e \in db'.log \ db.log : e.op = c.op
             /\ db'.ops[c.op].source = "ctrlz" <=> \E s \in Sessions : mark[s].op = c.op
             /\ db'.ops[c.op].source = "ctrlz" => ~Exists(db, c.op)
  <2>1. PICK k \in Clients : /\ c \in tx[k].log /\ db'.log \ db.log \subseteq tx[k].log
                             /\ db'.ops[mark[k].op] = tx[k].row
    BY <1>1, LogGrows
  <2>2. Recording(tx[k], mark[k]) /\ Marks /\ Sessions \subseteq Clients
    BY <1>1 DEF IInv, DataInv, Clients
  <2>3. /\ \A e \in db'.log \ db.log : e.op = mark[k].op
        /\ c.op = mark[k].op /\ mark[k].op # 0 /\ db'.ops[c.op].source = mark[k].source
    BY <2>1, <2>2 DEF Recording
  <2>4. mark[k].source = "ctrlz" => k \in Sessions
    BY <2>2 DEF Marks, Clients
  <2>5. k \in Sessions => mark[k].source = "ctrlz"
    <3>1. k \in Sessions => SessOK(k)
      BY <1>1 DEF IInv
    <3>2. Unset.op = 0
      BY NullsTyped
    <3>3. QED
      BY <2>3, <3>1, <3>2 DEF SessOK
  <2>6. \A s \in Sessions : mark[s].op = c.op => s = k
    BY <2>2, <2>3 DEF Marks
  <2>7. k \in Sessions => ~Exists(db, c.op)
    BY <2>2, <2>3 DEF Marks
  <2>8. QED
    BY <2>3, <2>4, <2>5, <2>6, <2>7
<1>2. IInv /\ [Next]_vars =>
        [\A c \in db'.log \ db.log :
           /\ \A e \in db'.log \ db.log : e.op = c.op
           /\ db'.ops[c.op].source = "ctrlz" <=> \E s \in Sessions : mark[s].op = c.op
           /\ db'.ops[c.op].source = "ctrlz" => ~Exists(db, c.op)]_vars
  BY <1>1
<1>3. QED
  BY <1>2, Invariant, PTL DEF Spec, CtrlzOperationsAreClosed

\* ctrlz undoes no operation of its own that took rows along by a cascade.
THEOREM CascadesStay == Spec => CascadesAreNeverUndone
<1>1. ASSUME IInv, [Next]_vars, NEW s \in Sessions, UndoCommitted(s),
             db.ops[sess[s].op].source = "ctrlz"
      PROVE  lost[sess[s].op] = {}
  <2>1. /\ Applying(s) /\ SessOK(s) /\ Committed
    BY <1>1 DEF UndoCommitted, IInv, DataInv
  <2>2. /\ sess[s].op \in OpIds /\ sess[s].capped = db.ops[sess[s].op].capped
        /\ sess[s].changes = ChangesOf(db, sess[s].op)
        /\ ~sess[s].capped /\ CascadeBlockers(s) = {}
    BY <1>1, <2>1 DEF SessOK, Remembers, Applying
  <2>3. Told(db.ops[sess[s].op], ChangesOf(db, sess[s].op), lost[sess[s].op])
    BY <1>1, <2>1, <2>2 DEF Committed
  <2>4. \A e \in sess[s].changes : ~Cascading(e)
    BY <2>2 DEF CascadeBlockers, Cascading
  <2>5. QED
    BY <2>2, <2>3, <2>4 DEF Told
<1>2. IInv /\ [Next]_vars =>
        [\A s \in Sessions :
           UndoCommitted(s) /\ db.ops[sess[s].op].source = "ctrlz" => lost[sess[s].op] = {}]_vars
  BY <1>1
<1>3. QED
  BY <1>2, Invariant, PTL DEF Spec, CascadesAreNeverUndone

\* An undo nobody forced writes to rows that hold what its operation left there,
\* or whose images a purge took from the log before the undo read them.
THEOREM OthersAreSpared == Spec => UndoSparesOthers
<1>1. ASSUME IInv, [Next]_vars, NEW s \in Sessions, UndoCommitted(s), ~sess[s].forced,
             NEW x \in Slots \ (tx[s].lost), db'.rows[x] # db.rows[x]
      PROVE  \E c \in sess[s].changes :
               c.slot = x /\ (c.after = db.rows[x] \/ c \notin sess[s].images)
  <2>1. PICK ops : Landed(s, ops)
    BY <1>1, UndoCommits
  <2>2. Wrote(tx[s], x)
    BY <1>1, <2>1 DEF Landed, Seen
  <2>3. MovesOwnRows(s)
    BY <1>1 DEF UndoCommitted, IInv, SessOK, Careful
  <2>4. QED
    BY <2>2, <2>3 DEF MovesOwnRows
<1>2. IInv /\ [Next]_vars =>
        [\A s \in Sessions : UndoCommitted(s) /\ ~sess[s].forced =>
           \A x \in Slots \ (tx[s].lost) : db'.rows[x] # db.rows[x] =>
              \E c \in sess[s].changes :
                 c.slot = x /\ (c.after = db.rows[x] \/ c \notin sess[s].images)]_vars
  BY <1>1
<1>3. QED
  BY <1>2, Invariant, PTL DEF Spec, UndoSparesOthers
=============================================================================
