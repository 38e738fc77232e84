-------------------------- MODULE SqliteEngineProofs --------------------------
(***************************************************************************)
(* Proofs about SqliteEngine, for any tables, sessions, limit and bounds.  *)
(***************************************************************************)
EXTENDS SqliteEngine, FiniteSetTheorems, TLAPS

-----------------------------------------------------------------------------
(* What the triggers do to a database.                                      *)

LEMMA NullsTyped == NoOp \in OpRow /\ NoCurrent \in CurrentOp
BY ConstantsOK DEF NoOp, OpRow, NoCurrent, CurrentOp, Source

\* The order in which a statement's triggers fire, as the proofs use it.
Numbering(num, T, s) ==
  /\ num \in [T -> Nat \ {0}]
  /\ s \in T /\ T \subseteq Slots
  /\ \A x \in T : num[x] <= num[s]
  /\ \A x, y \in T : num[x] = num[y] => x = y

LEMMA FiringOrdersNumber ==
  ASSUME NEW T \in SUBSET Slots, NEW s \in T, NEW num \in FiringOrders(T, s)
  PROVE  Numbering(num, T, s)
<1>1. IsFiniteSet(T)
  BY ConstantsOK, FS_Subset
<1>2. Cardinality(T) \in Nat
  BY <1>1, FS_CardinalityType
<1>3. QED
  BY <1>2 DEF FiringOrders, Numbering

LEMMA CountedType ==
  ASSUME NEW row \in OpRow, NEW n \in Nat \ {0}, ~row.capped => row.count <= MaxRows
  PROVE  /\ Counted(row, n) \in OpRow
         /\ Stored(row, n) \in 0 .. n
         /\ ~Counted(row, n).capped => Counted(row, n).count <= MaxRows /\ Stored(row, n) = n
<1>1. Counted(row, n) \in OpRow
  BY ConstantsOK DEF OpRow, Counted
<1>2. Stored(row, n) \in 0 .. n
  BY ConstantsOK DEF OpRow, Stored
<1>3. ASSUME ~Counted(row, n).capped
      PROVE  Counted(row, n).count <= MaxRows /\ Stored(row, n) = n
  <2>1. ~(row.capped \/ row.count + n > MaxRows) /\ Counted(row, n).count = row.count + n
    BY <1>3 DEF OpRow, Counted
  <2>2. QED
    BY <2>1, ConstantsOK DEF OpRow, Stored
<1>4. QED
  BY <1>1, <1>2, <1>3

LEMMA CreditedType ==
  ASSUME NEW d \in Database, d.cur.op # 0, d.cur.source # "none"
  PROVE  d.cur.op \in OpIds /\ Credited(d) \in OpRow
<1>1. d.cur.op \in OpIds /\ d.ops[d.cur.op] \in OpRow
      /\ d.cur.source \in Source /\ d.cur.undoOf \in 0 .. MaxOps
  BY ConstantsOK DEF Database, CurrentOp, OpIds
<1>2. QED
  BY <1>1, ConstantsOK DEF Credited, OpRow

LEMMA RecordedType ==
  ASSUME NEW d \in Database, d.cur.op # 0, d.cur.source # "none",
         \A o \in OpIds : ~d.ops[o].capped => d.ops[o].count <= MaxRows,
         NEW T, NEW s, NEW num, Numbering(num, T, s), NEW rows \in [Slots -> Content]
  PROVE  Recorded(d, s, num, rows) \in Database
<1>1. /\ d.rows \in [Slots -> Content] /\ d.ops \in [OpIds -> OpRow] /\ d.log \in SUBSET Entry
      /\ d.cur \in CurrentOp /\ d.seq \in Nat /\ d.minted \in 0 .. MaxOps
  BY DEF Database
<1>2. d.cur.op \in OpIds /\ Credited(d) \in OpRow
  BY CreditedType
<1>3. num[s] \in Nat \ {0}
  BY DEF Numbering
<1>4. ~Credited(d).capped => Credited(d).count <= MaxRows
  BY <1>2, ConstantsOK DEF Credited
<1>5. /\ Counted(Credited(d), num[s]) \in OpRow
      /\ Stored(Credited(d), num[s]) \in 0 .. num[s]
  BY <1>2, <1>3, <1>4, CountedType
<1>6. Images(d, num, rows, Stored(Credited(d), num[s])) \in SUBSET Entry
  BY <1>1, <1>2 DEF Images, Entry, Numbering
<1>7. [d.ops EXCEPT ![d.cur.op] = Counted(Credited(d), num[s])] \in [OpIds -> OpRow]
  BY <1>1, <1>5
<1>8. d.seq + Stored(Credited(d), num[s]) \in Nat
  BY <1>1, <1>3, <1>5
<1>9. QED
  BY <1>1, <1>6, <1>7, <1>8 DEF Recorded, Database

-----------------------------------------------------------------------------
(* The invariant of a database, committed or inside a transaction.          *)

\* Sequence numbers are assigned once, in the order of the operations.
LogOrdered(d) ==
  /\ \A c \in d.log : c.seq <= d.seq /\ Exists(d, c.op)
  /\ \A c, e \in d.log : c.seq = e.seq => c = e
  /\ \A c, e \in d.log : c.seq < e.seq => c.op <= e.op

\* The operation being written is the newest.
OpsOrdered(d) ==
  /\ \A o \in OpIds : Exists(d, o) => o <= d.minted
  /\ d.cur.op <= d.minted
  /\ d.cur.op # 0 => \A o \in OpIds : Exists(d, o) => o <= d.cur.op

OpRowsSound(d) ==
  \A o \in OpIds : /\ ~Exists(d, o) => d.ops[o] = NoOp
                   /\ ~d.ops[o].capped => d.ops[o].count <= MaxRows

\* The operation being written is open, and credited as staged.
CurrentOpen(d) ==
  d.cur.op # 0 =>
    /\ d.cur.source # "none"
    /\ ~d.ops[d.cur.op].undone
    /\ Exists(d, d.cur.op) => d.ops[d.cur.op].source = d.cur.source

DBInv(d) ==
  LogOrdered(d) /\ OpsOrdered(d) /\ OpRowsSound(d) /\ CurrentOpen(d) /\ LogAgrees(d)

LEMMA ClaimedInv ==
  ASSUME NEW d \in Database, DBInv(d), d.cur.op # 0 \/ d.minted < MaxOps
  PROVE  /\ Claimed(d) \in Database /\ DBInv(Claimed(d))
         /\ Claimed(d).cur.op # 0
         /\ Claimed(d).rows = d.rows /\ Claimed(d).ops = d.ops
         /\ Claimed(d).log = d.log /\ Claimed(d).seq = d.seq
         /\ d.minted <= Claimed(d).minted
         /\ d.cur.op = 0 => Claimed(d).cur.source = "external" /\ ~Exists(d, Claimed(d).cur.op)
         /\ d.cur.op # 0 => Claimed(d) = d
<1>1. CASE d.cur.op # 0
  BY <1>1 DEF Claimed, Database
<1>2. CASE d.cur.op = 0
  <2> DEFINE e == Claimed(d)
             c == [op |-> d.minted + 1, source |-> "external", undoOf |-> d.cur.undoOf]
  <2>1. d.minted \in 0 .. MaxOps /\ d.minted < MaxOps /\ d.cur \in CurrentOp
    BY <1>2 DEF Database
  <2>2. c \in CurrentOp /\ d.minted + 1 \in OpIds
    BY <2>1, ConstantsOK DEF CurrentOp, OpIds, Source
  <2>3. /\ e.rows = d.rows /\ e.ops = d.ops /\ e.log = d.log /\ e.seq = d.seq
        /\ e.cur = c /\ e.minted = d.minted + 1 /\ e \in Database
    <3>1. e = [d EXCEPT !.minted = d.minted + 1, !.cur = c]
      BY <1>2 DEF Claimed
    <3>2. /\ e.rows = d.rows /\ e.ops = d.ops /\ e.log = d.log /\ e.seq = d.seq
          /\ e.cur = c /\ e.minted = d.minted + 1
      BY <3>1 DEF Database
    <3>3. d.minted + 1 \in 0 .. MaxOps
      BY <2>1, ConstantsOK
    <3>4. e \in Database
      BY <2>2, <3>1, <3>3 DEF Database
    <3>5. QED
      BY <3>2, <3>4
  <2>4. ~Exists(d, d.minted + 1) /\ d.ops[d.minted + 1] = NoOp
    BY <2>1, <2>2 DEF DBInv, OpsOrdered, OpRowsSound
  <2>5. DBInv(e)
    <3>1. LogOrdered(e) /\ OpRowsSound(e) /\ LogAgrees(e)
      BY <2>3 DEF DBInv, LogOrdered, OpRowsSound, LogAgrees, Exists, Newest, CappedSince
    <3>2. OpsOrdered(e)
      BY <2>1, <2>3 DEF DBInv, OpsOrdered, Exists, OpIds
    <3>3. CurrentOpen(e)
      BY <2>3, <2>4 DEF CurrentOpen, NoOp, Exists
    <3>4. QED
      BY <3>1, <3>2, <3>3 DEF DBInv
  <2>6. QED
    BY <1>2, <2>1, <2>3, <2>4, <2>5
<1>3. QED
  BY <1>1, <1>2

LEMMA RecordedInv ==
  ASSUME NEW d \in Database, DBInv(d), d.cur.op # 0,
         NEW T, NEW s, NEW num, Numbering(num, T, s),
         NEW rows \in [Slots -> Content], \A x \in Slots \ T : rows[x] = d.rows[x],
         NEW r, r = Recorded(d, s, num, rows)
  PROVE  /\ r \in Database /\ DBInv(r)
         /\ r.cur = d.cur /\ r.minted = d.minted /\ r.rows = rows
         /\ d.log \subseteq r.log /\ \A c \in r.log \ d.log : c.op = d.cur.op
         /\ \A o \in OpIds \ {d.cur.op} : r.ops[o] = d.ops[o]
         /\ r.ops[d.cur.op].source = d.cur.source
<1> DEFINE o   == d.cur.op
           n   == num[s]
           k   == Stored(Credited(d), n)
           new == Images(d, num, rows, k)
<1>1. /\ d.ops \in [OpIds -> OpRow] /\ d.log \in SUBSET Entry /\ d.rows \in [Slots -> Content]
      /\ d.cur \in CurrentOp /\ d.seq \in Nat /\ d.minted \in 0 .. MaxOps
  BY DEF Database
<1>2. o \in OpIds /\ Credited(d) \in OpRow /\ d.cur.source # "none" /\ ~d.ops[o].undone
  BY CreditedType DEF DBInv, CurrentOpen
<1>3. n \in Nat \ {0} /\ s \in T /\ T \subseteq Slots /\ num \in [T -> Nat \ {0}]
  BY DEF Numbering
<1>4. /\ Credited(d).source = d.cur.source /\ ~Credited(d).undone
      /\ ~Credited(d).capped => Credited(d).count <= MaxRows
      /\ d.ops[o].capped => Credited(d).capped
  <2>1. CASE Exists(d, o)
    BY <1>2, <2>1 DEF DBInv, CurrentOpen, OpRowsSound, Credited
  <2>2. CASE ~Exists(d, o)
    BY <1>2, <2>2, ConstantsOK DEF DBInv, OpRowsSound, Credited, NoOp
  <2>3. QED
    BY <2>1, <2>2
<1>5. /\ Counted(Credited(d), n) \in OpRow /\ k \in 0 .. n
      /\ ~Counted(Credited(d), n).capped => Counted(Credited(d), n).count <= MaxRows /\ k = n
  BY <1>2, <1>3, <1>4, CountedType
<1>6. /\ Counted(Credited(d), n).source = d.cur.source
      /\ ~Counted(Credited(d), n).undone
      /\ d.ops[o].capped => Counted(Credited(d), n).capped
  BY <1>4 DEF Counted
<1>7. r = [rows |-> rows, ops |-> [d.ops EXCEPT ![o] = Counted(Credited(d), n)],
           log |-> d.log \cup new, cur |-> d.cur, seq |-> d.seq + k, minted |-> d.minted]
  BY DEF Recorded
<1>8. r \in Database
  BY <1>2, RecordedType DEF DBInv, OpRowsSound
<1>9. /\ r.rows = rows /\ r.log = d.log \cup new /\ r.cur = d.cur
      /\ r.seq = d.seq + k /\ r.minted = d.minted
      /\ r.ops[o] = Counted(Credited(d), n)
      /\ \A p \in OpIds \ {o} : r.ops[p] = d.ops[p]
  BY <1>1, <1>2, <1>7
<1> HIDE DEF k, n
<1>10. \A c \in new : /\ c.slot \in T /\ num[c.slot] \in 1 .. k
                      /\ c.seq = d.seq + num[c.slot] /\ c.op = o
                      /\ c.after = rows[c.slot] /\ c.before = d.rows[c.slot]
  BY <1>3, <1>5 DEF Images
<1>11. \A x \in T : num[x] <= k => \E c \in new : c.slot = x /\ c.seq = d.seq + num[x]
  <2> SUFFICES ASSUME NEW x \in T, num[x] <= k
               PROVE  \E c \in new : c.slot = x /\ c.seq = d.seq + num[x]
    OBVIOUS
  <2> DEFINE e == [seq |-> d.seq + num[x], op |-> o, slot |-> x,
                   before |-> d.rows[x], after |-> rows[x]]
  <2>1. x \in {y \in DOMAIN num : num[y] <= k}
    BY <1>3
  <2>2. e \in new
    BY <2>1 DEF Images
  <2>3. QED
    BY <2>2
<1>12. Exists(r, o) /\ \A p \in OpIds \ {o} : Exists(r, p) <=> Exists(d, p)
  BY <1>2, <1>6, <1>9 DEF Exists
<1>13. \A c \in d.log : c.op \in OpIds /\ c.op <= o /\ c.seq \in Nat /\ c.seq <= d.seq /\ c.slot \in Slots
  BY <1>1 DEF DBInv, LogOrdered, OpsOrdered, Entry
<1>14. LogOrdered(r)
  <2>1. \A c \in r.log : c.seq <= r.seq /\ Exists(r, c.op)
    BY <1>1, <1>3, <1>5, <1>9, <1>10, <1>12, <1>13 DEF DBInv, LogOrdered
  <2>2. ASSUME NEW c \in r.log, NEW e \in r.log, c.seq = e.seq PROVE c = e
    <3>1. CASE c \in d.log /\ e \in d.log
      BY <2>2, <3>1 DEF DBInv, LogOrdered
    <3>2. CASE c \in new /\ e \in new
      <4>1. num[c.slot] = num[e.slot]
        BY <1>1, <1>3, <1>10, <2>2, <3>2
      <4>2. c.slot = e.slot
        BY <1>10, <3>2, <4>1 DEF Numbering
      <4>3. QED
        BY <3>2, <4>2 DEF Images
    <3>3. ASSUME NEW a \in d.log, NEW b \in new PROVE a.seq # b.seq
      BY <1>1, <1>5, <1>10, <1>13, <3>3
    <3>4. QED
      BY <1>9, <2>2, <3>1, <3>2, <3>3
  <2>3. ASSUME NEW c \in r.log, NEW e \in r.log, c.seq < e.seq PROVE c.op <= e.op
    <3>1. CASE c \in d.log /\ e \in d.log
      BY <2>3, <3>1 DEF DBInv, LogOrdered
    <3>2. CASE e \in new
      BY <1>2, <1>9, <1>10, <1>13, <3>2 DEF OpIds
    <3>3. CASE c \in new /\ e \in d.log
      BY <1>1, <1>5, <1>10, <1>13, <2>3, <3>3
    <3>4. QED
      BY <1>9, <3>1, <3>2, <3>3
  <2>4. QED
    BY <2>1, <2>2, <2>3 DEF LogOrdered
<1>15. OpsOrdered(r) /\ OpRowsSound(r) /\ CurrentOpen(r)
  BY <1>1, <1>2, <1>5, <1>6, <1>9, <1>12 DEF DBInv, OpsOrdered, OpRowsSound, CurrentOpen, OpIds
<1>16. LogAgrees(r)
  <2> SUFFICES ASSUME NEW c \in r.log, Newest(r, c), ~CappedSince(r, c.op)
               PROVE  r.rows[c.slot] = c.after
    BY DEF LogAgrees
  <2>1. CASE c \in new
    BY <1>9, <1>10, <2>1
  <2>2. CASE c \in d.log
    <3>1. ~r.ops[o].capped
      BY <1>2, <1>13, <2>2 DEF CappedSince
    <3>2. k = n
      BY <1>5, <1>9, <3>1
    <3>3. c.slot \notin T
      <4>1. SUFFICES ASSUME c.slot \in T PROVE FALSE
        OBVIOUS
      <4>2. num[c.slot] <= k
        BY <3>2, <4>1 DEF Numbering, n
      <4>3. PICK e \in new : e.slot = c.slot /\ e.seq = d.seq + num[c.slot]
        BY <1>11, <4>1, <4>2
      <4>4. QED
        BY <1>1, <1>3, <1>9, <1>13, <2>2, <4>1, <4>3 DEF Newest
    <3>4. Newest(d, c)
      BY <1>9 DEF Newest
    <3>5. ~CappedSince(d, c.op)
      BY <1>6, <1>9 DEF CappedSince
    <3>6. d.rows[c.slot] = c.after
      BY <2>2, <3>4, <3>5 DEF DBInv, LogAgrees
    <3>7. QED
      BY <1>9, <1>13, <2>2, <3>3, <3>6
  <2>3. QED
    BY <1>9, <2>1, <2>2
<1>17. QED
  BY <1>6, <1>8, <1>9, <1>10, <1>14, <1>15, <1>16 DEF DBInv

-----------------------------------------------------------------------------
(* Row writes, whoever makes them.                                          *)

\* d2 has all that d had, and new changes come after every number d assigned.
Appends(d, d2) ==
  /\ d.log \subseteq d2.log /\ d.seq <= d2.seq
  /\ \A c \in d2.log \ d.log : d.seq < c.seq
  /\ \A o \in OpIds : d2.ops[o].undone = d.ops[o].undone

LEMMA AppendsTransitive ==
  ASSUME NEW d \in Database, NEW e \in Database, NEW f \in Database,
         Appends(d, e), Appends(e, f)
  PROVE  Appends(d, f)
BY DEF Appends, Database, Entry

LEMMA RecordedAppends ==
  ASSUME NEW d \in Database, DBInv(d), d.cur.op # 0,
         NEW T, NEW s, NEW num, Numbering(num, T, s), NEW rows
  PROVE  Appends(d, Recorded(d, s, num, rows))
<1> DEFINE r   == Recorded(d, s, num, rows)
           row == Counted(Credited(d), num[s])
           k   == Stored(Credited(d), num[s])
           new == Images(d, num, rows, k)
<1>1. d.seq \in Nat /\ d.ops \in [OpIds -> OpRow] /\ d.cur.op \in OpIds /\ num[s] \in Nat \ {0}
  BY CreditedType DEF Database, DBInv, CurrentOpen, Numbering
<1>2. Credited(d) \in OpRow /\ ~Credited(d).capped => Credited(d).count <= MaxRows
  BY <1>1, CreditedType, ConstantsOK DEF DBInv, CurrentOpen, OpRowsSound, Credited
<1>3. k \in Nat
  BY <1>1, <1>2, CountedType, CreditedType DEF DBInv, CurrentOpen
<1>4. \A c \in new : d.seq < c.seq
  BY <1>1 DEF Images, Numbering
<1>5. row.undone = d.ops[d.cur.op].undone
  <2>1. ~Exists(d, d.cur.op) => d.ops[d.cur.op] = NoOp
    BY <1>1 DEF DBInv, OpRowsSound
  <2>2. Credited(d).undone = d.ops[d.cur.op].undone
    <3>1. CASE Exists(d, d.cur.op)
      BY <3>1 DEF Credited
    <3>2. CASE ~Exists(d, d.cur.op)
      <4>1. ~Credited(d).undone /\ ~NoOp.undone
        BY <3>2 DEF Credited, NoOp
      <4>2. Credited(d).undone \in BOOLEAN /\ NoOp.undone \in BOOLEAN
        BY <3>2 DEF Credited, NoOp
      <4>3. QED
        BY <2>1, <3>2, <4>1, <4>2
    <3>3. QED
      BY <3>1, <3>2
  <2>3. QED
    BY <2>2 DEF Counted
<1> HIDE DEF k, new, row
<1>6. r.log = d.log \cup new /\ r.seq = d.seq + k /\ r.ops = [d.ops EXCEPT ![d.cur.op] = row]
  BY DEF Recorded, k, new, row
<1> HIDE DEF r
<1>7. QED
  BY <1>1, <1>3, <1>4, <1>5, <1>6 DEF Appends, r

\* d2 is d after rows were written and captured under one operation.
Writes(d, d2) ==
  /\ d2 \in Database /\ DBInv(d2) /\ Appends(d, d2)
  /\ d2.cur.op # 0
  /\ \A c \in d2.log \ d.log : c.op = d2.cur.op
  /\ \A o \in OpIds \ {d2.cur.op} : d2.ops[o] = d.ops[o]
  /\ d2.ops[d2.cur.op].source = d2.cur.source
  /\ ~d.ops[d2.cur.op].undone
  /\ d.minted <= d2.minted
  /\ IF d.cur.op = 0 THEN d2.cur.source = "external"
     ELSE d2.cur = d.cur /\ d2.minted = d.minted

LEMMA CapturedWrites ==
  ASSUME NEW d \in Database, DBInv(d), d.cur.op # 0 \/ d.minted < MaxOps,
         NEW T, NEW s, NEW num, Numbering(num, T, s),
         NEW rows \in [Slots -> Content], \A x \in Slots \ T : rows[x] = d.rows[x]
  PROVE  Writes(d, Captured(d, s, num, rows))
<1> DEFINE e == Claimed(d)
           r == Captured(d, s, num, rows)
<1>1. /\ e \in Database /\ DBInv(e) /\ e.cur.op # 0
      /\ e.rows = d.rows /\ e.ops = d.ops /\ e.log = d.log /\ e.seq = d.seq
      /\ d.minted <= e.minted
      /\ d.cur.op = 0 => e.cur.source = "external" /\ ~Exists(d, e.cur.op)
      /\ d.cur.op # 0 => e = d
  BY ClaimedInv
<1>2. r = Recorded(e, s, num, rows)
  BY DEF Captured
<1> HIDE DEF e, r
<1>3. /\ r \in Database /\ DBInv(r) /\ r.cur = e.cur /\ r.minted = e.minted
      /\ \A c \in r.log \ e.log : c.op = e.cur.op
      /\ \A o \in OpIds \ {e.cur.op} : r.ops[o] = e.ops[o]
      /\ r.ops[e.cur.op].source = e.cur.source
  BY <1>1, <1>2, RecordedInv
<1>4. ~e.ops[e.cur.op].undone
  BY <1>1 DEF DBInv, CurrentOpen
<1>5. Appends(e, r)
  BY <1>1, <1>2, RecordedAppends
<1>6. Appends(d, r)
  BY <1>1, <1>5 DEF Appends
<1>7. QED
  BY <1>1, <1>3, <1>4, <1>6 DEF Writes, r

LEMMA PutWrites ==
  ASSUME NEW d \in Database, DBInv(d), d.cur.op # 0 \/ d.minted < MaxOps,
         NEW s \in Slots, NEW v \in Content, NEW d2, Put(d, s, v, d2)
  PROVE  Writes(d, d2)
<1>1. Numbering([x \in {s} |-> 1], {s}, s)
  BY DEF Numbering
<1>2. /\ [d.rows EXCEPT ![s] = v] \in [Slots -> Content]
      /\ \A x \in Slots \ {s} : [d.rows EXCEPT ![s] = v][x] = d.rows[x]
  BY DEF Database
<1>3. QED
  BY <1>1, <1>2, CapturedWrites DEF Put

LEMMA RemoveWrites ==
  ASSUME NEW d \in Database, DBInv(d), d.cur.op # 0 \/ d.minted < MaxOps,
         NEW s \in Slots, NEW d2, Remove(d, s, d2)
  PROVE  Writes(d, d2)
<1> DEFINE gone == {s} \cup (IF OnDelete = "cascade" THEN Children(d, s) ELSE {})
           rows == [x \in Slots |-> IF x \in gone THEN Absent ELSE d.rows[x]]
<1>1. gone \in SUBSET Slots /\ s \in gone
  BY DEF Children
<1>2. rows \in [Slots -> Content] /\ \A x \in Slots \ gone : rows[x] = d.rows[x]
  BY DEF Database, Content
<1> HIDE DEF gone
<1>3. PICK num \in FiringOrders(gone, s) : d2 = Captured(d, s, num, rows)
  BY DEF Remove, gone
<1>4. Numbering(num, gone, s)
  BY <1>1, FiringOrdersNumber
<1>5. QED
  BY <1>2, <1>3, <1>4, CapturedWrites

LEMMA UserWriteWrites ==
  ASSUME NEW d \in Database, DBInv(d), UserMayWrite(d), NEW d2, UserWrite(d, d2)
  PROVE  Writes(d, d2)
<1>1. d.cur.op # 0 \/ d.minted < MaxOps
  BY DEF UserMayWrite
<1>2. Vals \subseteq Content
  BY DEF Content
<1>3. QED
  BY <1>1, <1>2, PutWrites, RemoveWrites DEF UserWrite

LEMMA InverseWrites ==
  ASSUME NEW d \in Database, DBInv(d), d.cur.op # 0,
         NEW v \in Verdict, NEW d2, ApplyInverse(d, v, d2)
  PROVE  d2 = d \/ Writes(d, d2)
<1>1. v.change.slot \in Slots /\ v.change.before \in Content
  BY DEF Verdict, Entry
<1>2. ASSUME Put(d, v.change.slot, v.change.before, d2) PROVE Writes(d, d2)
  BY <1>1, <1>2, PutWrites
<1>3. ASSUME Remove(d, v.change.slot, d2) PROVE Writes(d, d2)
  BY <1>1, <1>3, RemoveWrites
<1>4. QED
  BY <1>2, <1>3 DEF ApplyInverse

-----------------------------------------------------------------------------
(* What transactions stage, clear and mark, and what a purge leaves.        *)

LEMMA ClearedInv ==
  ASSUME NEW d \in Database, DBInv(d),
         NEW r, r = [d EXCEPT !.cur = NoCurrent]
  PROVE  /\ r \in Database /\ DBInv(r)
         /\ r.cur = NoCurrent /\ r.ops = d.ops /\ r.log = d.log
         /\ r.rows = d.rows /\ r.minted = d.minted /\ r.seq = d.seq
<1>1. /\ r.cur = NoCurrent /\ r.ops = d.ops /\ r.log = d.log
      /\ r.rows = d.rows /\ r.minted = d.minted /\ r.seq = d.seq
  BY DEF Database
<1>2. r \in Database
  BY NullsTyped DEF Database
<1>3. LogOrdered(r) /\ OpRowsSound(r) /\ LogAgrees(r)
  BY <1>1 DEF DBInv, LogOrdered, OpRowsSound, LogAgrees, Exists, Newest, CappedSince
<1>4. OpsOrdered(r) /\ CurrentOpen(r)
  <2>1. NoCurrent.op = 0 /\ r.cur.op <= r.minted
    BY <1>1 DEF NoCurrent, Database
  <2>2. QED
    BY <1>1, <2>1 DEF DBInv, OpsOrdered, CurrentOpen, Exists
<1>5. QED
  BY <1>1, <1>2, <1>3, <1>4 DEF DBInv

LEMMA StagedInv ==
  ASSUME NEW d \in Database, DBInv(d), d.minted < MaxOps, NEW o \in 0 .. MaxOps,
         NEW r, r = Staged(d, o)
  PROVE  /\ r \in Database /\ DBInv(r)
         /\ r.cur.op = d.minted + 1 /\ r.minted = d.minted + 1
         /\ r.cur.source = "ctrlz" /\ ~Exists(r, r.cur.op)
         /\ r.ops = d.ops /\ r.log = d.log /\ r.rows = d.rows /\ r.seq = d.seq
<1> DEFINE c == [op |-> d.minted + 1, source |-> "ctrlz", undoOf |-> o]
<1>1. d.minted \in 0 .. MaxOps
  BY DEF Database
<1>2. c \in CurrentOp /\ d.minted + 1 \in OpIds /\ d.minted + 1 \in 0 .. MaxOps
  BY <1>1, ConstantsOK DEF CurrentOp, OpIds, Source
<1>3. r = [d EXCEPT !.minted = d.minted + 1, !.cur = c]
  BY DEF Staged
<1> HIDE DEF c
<1>4. /\ r.rows = d.rows /\ r.ops = d.ops /\ r.log = d.log /\ r.seq = d.seq
      /\ r.cur = c /\ r.minted = d.minted + 1
  BY <1>3 DEF Database
<1>5. r \in Database
  BY <1>2, <1>3 DEF Database
<1>6. c.op = d.minted + 1 /\ c.source = "ctrlz"
  BY DEF c
<1>7. ~Exists(d, d.minted + 1) /\ d.ops[d.minted + 1] = NoOp
  BY <1>1, <1>2 DEF DBInv, OpsOrdered, OpRowsSound
<1>8. LogOrdered(r) /\ OpRowsSound(r) /\ LogAgrees(r)
  BY <1>4 DEF DBInv, LogOrdered, OpRowsSound, LogAgrees, Exists, Newest, CappedSince
<1>9. OpsOrdered(r)
  BY <1>1, <1>4, <1>6 DEF DBInv, OpsOrdered, Exists, OpIds
<1>10. CurrentOpen(r) /\ ~Exists(r, r.cur.op)
  BY <1>4, <1>6, <1>7 DEF CurrentOpen, NoOp, Exists
<1>11. QED
  BY <1>4, <1>5, <1>6, <1>8, <1>9, <1>10 DEF DBInv

LEMMA MarkedInv ==
  ASSUME NEW d \in Database, DBInv(d), NEW o \in OpIds, d.cur.op # o,
         NEW r, r = MarkedUndone(d, o)
  PROVE  /\ r \in Database /\ DBInv(r)
         /\ r.cur = d.cur /\ r.log = d.log /\ r.rows = d.rows /\ r.minted = d.minted
         /\ r.seq = d.seq
         /\ \A p \in OpIds : r.ops[p].source = d.ops[p].source /\ r.ops[p].capped = d.ops[p].capped
         /\ \A p \in OpIds \ {o} : r.ops[p] = d.ops[p]
<1>1. CASE ~Exists(d, o)
  BY <1>1 DEF MarkedUndone
<1>2. CASE Exists(d, o)
  <2> DEFINE row == [d.ops[o] EXCEPT !.undone = TRUE, !.undoneBy = d.cur.op]
  <2>1. d.ops \in [OpIds -> OpRow] /\ d.ops[o] \in OpRow /\ d.cur.op \in 0 .. MaxOps
    BY DEF Database, CurrentOp
  <2>2. /\ row.source = d.ops[o].source /\ row.capped = d.ops[o].capped
        /\ row.count = d.ops[o].count
    BY <2>1 DEF OpRow
  <2>3. row \in OpRow
    <3>1. \A q \in OpRow, n \in 0 .. MaxOps : [q EXCEPT !.undone = TRUE, !.undoneBy = n] \in OpRow
      BY DEF OpRow
    <3>2. QED
      BY <2>1, <3>1
  <2> HIDE DEF row
  <2>4. r = [d EXCEPT !.ops = [d.ops EXCEPT ![o] = row]]
    BY <1>2 DEF MarkedUndone, row
  <2>5. /\ r.cur = d.cur /\ r.log = d.log /\ r.rows = d.rows /\ r.minted = d.minted
        /\ r.seq = d.seq /\ r.ops = [d.ops EXCEPT ![o] = row]
    BY <2>4 DEF Database
  <2>6. r.ops \in [OpIds -> OpRow] /\ r.ops[o] = row /\ \A p \in OpIds \ {o} : r.ops[p] = d.ops[p]
    BY <2>1, <2>3, <2>5
  <2>7. r \in Database
    BY <2>4, <2>5, <2>6 DEF Database
  <2>8. \A p \in OpIds : /\ r.ops[p].source = d.ops[p].source
                         /\ r.ops[p].capped = d.ops[p].capped
                         /\ r.ops[p].count = d.ops[p].count
    BY <2>2, <2>6
  <2>9. \A c \in d.log : c.op \in OpIds
    BY DEF Database, Entry
  <2>10. LogOrdered(r) /\ OpsOrdered(r) /\ LogAgrees(r)
    BY <2>5, <2>8, <2>9
    DEF DBInv, LogOrdered, OpsOrdered, LogAgrees, Exists, Newest, CappedSince
  <2>11. OpRowsSound(r)
    BY <1>2, <2>6, <2>8 DEF DBInv, OpRowsSound, Exists
  <2>12. CurrentOpen(r)
    BY <2>1, <2>5, <2>6, <2>8, ConstantsOK DEF DBInv, CurrentOpen, Exists, OpIds
  <2>13. QED
    BY <2>5, <2>6, <2>7, <2>8, <2>10, <2>11, <2>12 DEF DBInv
<1>3. QED
  BY <1>1, <1>2

LEMMA PurgedInv ==
  ASSUME NEW d \in Database, DBInv(d), NEW k \in 2 .. MaxOps + 1, NEW r, r = Purged(d, k)
  PROVE  /\ r \in Database /\ DBInv(r)
         /\ r.cur = d.cur /\ r.rows = d.rows /\ r.minted = d.minted /\ r.log \subseteq d.log
         /\ \A p \in OpIds : r.ops[p] \in {d.ops[p], NoOp}
<1> DEFINE ops == [o \in OpIds |-> IF o < k THEN NoOp ELSE d.ops[o]]
           log == {c \in d.log : c.op >= k}
<1>1. d.ops \in [OpIds -> OpRow] /\ d.log \in SUBSET Entry
  BY DEF Database
<1>2. ops \in [OpIds -> OpRow] /\ log \in SUBSET Entry
  BY <1>1, NullsTyped
<1>3. \A p \in OpIds : ops[p] = IF p < k THEN NoOp ELSE d.ops[p]
  OBVIOUS
<1>4. \A c : c \in log <=> c \in d.log /\ c.op >= k
  OBVIOUS
<1>5. r = [d EXCEPT !.ops = ops, !.log = log]
  BY DEF Purged
<1> HIDE DEF ops, log
<1>6. /\ r.cur = d.cur /\ r.rows = d.rows /\ r.minted = d.minted
      /\ r.seq = d.seq /\ r.ops = ops /\ r.log = log
  BY <1>5 DEF Database
<1>7. r \in Database
  BY <1>2, <1>5 DEF Database
<1>8. \A c \in d.log : c.op \in OpIds
  BY <1>1 DEF Entry
<1>9. NoOp.source = "none" /\ ~NoOp.capped /\ NoOp.count = 0 /\ ~NoOp.undone
  BY DEF NoOp
<1>10. \A p \in OpIds : Exists(r, p) <=> ~(p < k) /\ Exists(d, p)
  BY <1>3, <1>6, <1>9 DEF Exists
<1>11. k \in Nat /\ d.cur.op \in 0 .. MaxOps
  BY ConstantsOK DEF Database, CurrentOp
<1>12. LogOrdered(r)
  BY <1>4, <1>6, <1>8, <1>10, <1>11 DEF DBInv, LogOrdered, OpIds
<1>13. OpsOrdered(r)
  BY <1>6, <1>10 DEF DBInv, OpsOrdered
<1>14. OpRowsSound(r)
  BY <1>3, <1>6, <1>9, <1>10, ConstantsOK DEF DBInv, OpRowsSound
<1>15. CurrentOpen(r)
  BY <1>3, <1>6, <1>9, <1>10, <1>11, ConstantsOK DEF DBInv, CurrentOpen, OpIds
<1>16. LogAgrees(r)
  <2> SUFFICES ASSUME NEW c \in r.log, Newest(r, c), ~CappedSince(r, c.op)
               PROVE  r.rows[c.slot] = c.after
    BY DEF LogAgrees
  <2>1. c \in d.log /\ c.op >= k /\ c.op \in OpIds /\ c.seq \in Nat
    BY <1>1, <1>4, <1>6, <1>8 DEF Entry
  <2>2. Newest(d, c)
    <3> SUFFICES ASSUME NEW e \in d.log, e.slot = c.slot, ~(e.seq <= c.seq) PROVE FALSE
      BY DEF Newest
    <3>1. e.seq \in Nat /\ e.op \in OpIds /\ c.op <= e.op
      BY <1>1, <2>1 DEF Entry, DBInv, LogOrdered
    <3>2. e \in r.log
      BY <1>4, <1>6, <1>11, <2>1, <3>1 DEF OpIds
    <3>3. QED
      BY <3>2 DEF Newest
  <2>3. ~CappedSince(d, c.op)
    <3>1. \A p \in OpIds : p >= c.op => r.ops[p] = d.ops[p]
      BY <1>3, <1>6, <1>11, <2>1 DEF OpIds
    <3>2. QED
      BY <3>1 DEF CappedSince
  <2>4. QED
    BY <1>6, <2>1, <2>2, <2>3 DEF DBInv, LogAgrees
<1>17. QED
  BY <1>3, <1>4, <1>6, <1>7, <1>12, <1>13, <1>14, <1>15, <1>16 DEF DBInv

-----------------------------------------------------------------------------
(* Sessions.                                                                *)

LEMMA SessionAt ==
  ASSUME NEW r \in Session, NEW pc \in Doing
  PROVE  /\ [r EXCEPT !.pc = pc] \in Session /\ [r EXCEPT !.pc = pc].pc = pc
         /\ [r EXCEPT !.pc = pc].op = r.op /\ [r EXCEPT !.pc = pc].capped = r.capped
         /\ [r EXCEPT !.pc = pc].changes = r.changes
         /\ [r EXCEPT !.pc = pc].verdicts = r.verdicts
BY DEF Session

LEMMA RestingTyped ==
  Idle \in Session /\ Idle.pc = "idle" /\ Closed \in Session /\ Closed.pc = "closed"
<1>1. Idle \in Session /\ Idle.pc = "idle"
  BY ConstantsOK DEF Idle, Session, Doing
<1>2. "closed" \in Doing
  BY DEF Doing
<1>3. QED
  BY <1>1, <1>2, SessionAt DEF Closed

LEMMA SessionSees ==
  ASSUME NEW r \in Session, NEW C \in SUBSET Entry
  PROVE  /\ [r EXCEPT !.changes = C] \in Session /\ [r EXCEPT !.changes = C].pc = r.pc
         /\ [r EXCEPT !.changes = C].op = r.op /\ [r EXCEPT !.changes = C].capped = r.capped
BY DEF Session

LEMMA SessionJudges ==
  ASSUME NEW r \in Session, NEW V \in SUBSET Verdict
  PROVE  /\ [r EXCEPT !.verdicts = V] \in Session /\ [r EXCEPT !.verdicts = V].pc = r.pc
         /\ [r EXCEPT !.verdicts = V].op = r.op /\ [r EXCEPT !.verdicts = V].capped = r.capped
BY DEF Session

\* Session s takes a step and keeps its assessment, the others stand still.
Steps(s, pc) ==
  /\ sess' \in [Sessions -> Session]
  /\ sess'[s].pc = pc
  /\ \A t \in Sessions \ {s} : sess'[t] = sess[t]

LEMMA GotoSteps ==
  ASSUME sess \in [Sessions -> Session], NEW s \in Sessions, NEW pc \in Doing,
         sess' = [sess EXCEPT ![s].pc = pc]
  PROVE  /\ Steps(s, pc)
         /\ sess'[s].op = sess[s].op /\ sess'[s].capped = sess[s].capped
<1>1. sess' = [sess EXCEPT ![s] = [sess[s] EXCEPT !.pc = pc]]
  OBVIOUS
<1>2. QED
  BY <1>1, SessionAt DEF Steps

LEMMA ReadOperationSteps ==
  ASSUME TypeOK, NEW s \in Sessions, ReadOperation(s)
  PROVE  /\ Steps(s, "reading")
         /\ Exists(db, sess'[s].op) /\ sess'[s].op \in OpIds
         /\ sess'[s].capped = db.ops[sess'[s].op].capped
<1>1. PICK o \in OpIds, allow \in BOOLEAN :
        /\ Exists(db, o)
        /\ sess' = [sess EXCEPT ![s] =
             [pc |-> "reading", op |-> o, allow |-> allow, capped |-> db.ops[o].capped,
              undone |-> db.ops[o].undone, changes |-> {}, verdicts |-> {}]]
  BY DEF ReadOperation
<1> DEFINE r == [pc |-> "reading", op |-> o, allow |-> allow, capped |-> db.ops[o].capped,
                 undone |-> db.ops[o].undone, changes |-> {}, verdicts |-> {}]
<1>2. r \in Session
  BY ConstantsOK DEF TypeOK, Database, OpRow, OpIds, Session, Doing
<1>3. QED
  BY <1>1, <1>2 DEF Steps, TypeOK

LEMMA ReadChangesSteps ==
  ASSUME TypeOK, NEW s \in Sessions, ReadChanges(s)
  PROVE  /\ Steps(s, "inspecting")
         /\ sess'[s].op = sess[s].op /\ sess'[s].capped = sess[s].capped
<1> DEFINE C == ChangesOf(db, sess[s].op)
           r == [sess[s] EXCEPT !.pc = "inspecting"]
<1>1. C \in SUBSET Entry
  BY DEF TypeOK, Database, ChangesOf
<1>2. sess[s] \in Session /\ "inspecting" \in Doing
  BY DEF TypeOK, Doing
<1>3. r \in Session /\ r.pc = "inspecting" /\ r.op = sess[s].op /\ r.capped = sess[s].capped
  BY <1>2, SessionAt
<1>4. sess' = [sess EXCEPT ![s] = [r EXCEPT !.changes = C]]
  BY DEF ReadChanges, TypeOK
<1> HIDE DEF C, r
<1>5. QED
  BY <1>1, <1>3, <1>4, SessionSees DEF Steps, TypeOK

LEMMA InspectSteps ==
  ASSUME TypeOK, NEW s \in Sessions, Inspect(s)
  PROVE  /\ Steps(s, "inspecting")
         /\ sess'[s].op = sess[s].op /\ sess'[s].capped = sess[s].capped
<1>1. PICK c \in sess[s].changes :
        sess' = [sess EXCEPT ![s].verdicts = @ \cup
                  {[change |-> c, current |-> db.rows[c.slot],
                    status |-> StatusOf(sess[s].changes, c, db.rows[c.slot])]}]
  BY DEF Inspect
<1> DEFINE v == [change |-> c, current |-> db.rows[c.slot],
                 status |-> StatusOf(sess[s].changes, c, db.rows[c.slot])]
           V == sess[s].verdicts \cup {v}
<1>2. sess[s] \in Session /\ sess[s].pc = "inspecting"
  BY DEF TypeOK, Inspect
<1>3. c \in Entry /\ sess[s].verdicts \in SUBSET Verdict
  BY <1>2 DEF Session
<1>4. StatusOf(sess[s].changes, c, db.rows[c.slot]) \in Status
  BY DEF StatusOf, Status
<1>5. db.rows[c.slot] \in Content
  BY <1>3 DEF TypeOK, Database, Entry
<1>6. V \in SUBSET Verdict
  BY <1>3, <1>4, <1>5 DEF Verdict
<1>7. sess' = [sess EXCEPT ![s] = [sess[s] EXCEPT !.verdicts = V]]
  BY <1>1
<1> HIDE DEF V
<1>8. QED
  BY <1>2, <1>6, <1>7, SessionJudges DEF Steps, TypeOK

LEMMA UndoBeginSteps ==
  ASSUME TypeOK, NEW s \in Sessions, UndoBegin(s)
  PROVE  /\ Steps(s, "applying")
         /\ sess'[s].op = sess[s].op /\ sess'[s].capped = sess[s].capped
<1> DEFINE V == {v \in sess[s].verdicts : v.status \in {"clean", "drifted"}}
           r == [sess[s] EXCEPT !.pc = "applying"]
<1>1. sess[s] \in Session /\ "applying" \in Doing
  BY DEF TypeOK, Doing
<1>2. V \in SUBSET Verdict
  BY <1>1 DEF Session
<1>3. r \in Session /\ r.pc = "applying" /\ r.op = sess[s].op /\ r.capped = sess[s].capped
      /\ r.verdicts = sess[s].verdicts
  BY <1>1, SessionAt
<1>4. sess' = [sess EXCEPT ![s] = [r EXCEPT !.verdicts = V]]
  BY <1>3 DEF UndoBegin, TypeOK
<1> HIDE DEF V, r
<1>5. QED
  BY <1>2, <1>3, <1>4, SessionJudges DEF Steps, TypeOK

LEMMA ApplyNextSteps ==
  ASSUME TypeOK, NEW s \in Sessions, NEW v,
         sess[s].pc = "applying", sess' = [sess EXCEPT ![s].verdicts = @ \ {v}]
  PROVE  /\ Steps(s, "applying")
         /\ sess'[s].op = sess[s].op /\ sess'[s].capped = sess[s].capped
<1> DEFINE V == sess[s].verdicts \ {v}
<1>1. sess[s] \in Session
  BY DEF TypeOK
<1>2. V \in SUBSET Verdict
  BY <1>1 DEF Session
<1>3. sess' = [sess EXCEPT ![s] = [sess[s] EXCEPT !.verdicts = V]]
  OBVIOUS
<1> HIDE DEF V
<1>4. QED
  BY <1>1, <1>2, <1>3, SessionJudges DEF Steps, TypeOK

LEMMA RestSteps ==
  ASSUME TypeOK, NEW s \in Sessions, NEW r \in {Idle, Closed}, sess' = [sess EXCEPT ![s] = r]
  PROVE  Steps(s, r.pc) /\ r.pc \in {"idle", "closed"}
BY RestingTyped DEF Steps, TypeOK

-----------------------------------------------------------------------------
(* The inductive invariant.                                                 *)

\* A transaction writes under the fresh operation it staged and no other.
InTransaction ==
  /\ work.cur.source = "ctrlz" /\ work.cur.op > db.minted /\ work.cur.op <= work.minted
  /\ \A c \in work.log \ db.log : c.op = work.cur.op
  /\ \A o \in OpIds \ {work.cur.op} : work.ops[o] = db.ops[o]
  /\ Appends(db, work)

\* What a session remembers of the header it read is still true if the
\* operation was run through ctrlz.
HeaderOK(r, d) ==
  /\ r.pc \in {"reading", "inspecting", "applying"} =>
       /\ r.op \in OpIds /\ r.op <= d.minted
       /\ d.ops[r.op].source = "ctrlz" => r.capped = d.ops[r.op].capped
  /\ r.pc = "applying" => ~r.capped

Locking == \A s \in Sessions : sess[s].pc \in {"running", "applying"} <=> writer = s

IInv ==
  /\ TypeOK
  /\ Locking
  /\ DBInv(db) /\ db.cur.source # "ctrlz"
  /\ DBInv(work) /\ IF Free THEN work = db ELSE InTransaction
  /\ \A s \in Sessions : HeaderOK(sess[s], db)

\* A step of the file that no remembered header can tell.
Keeps(d, d2) ==
  /\ d.minted <= d2.minted
  /\ \A o \in OpIds : o <= d.minted /\ d2.ops[o].source = "ctrlz" =>
        d.ops[o].source = "ctrlz" /\ d2.ops[o].capped = d.ops[o].capped

LEMMA HeaderKept ==
  ASSUME NEW r \in Session, NEW d \in Database, NEW d2 \in Database, HeaderOK(r, d), Keeps(d, d2)
  PROVE  HeaderOK(r, d2)
BY DEF HeaderOK, Keeps, Session, Database, OpIds

\* The sessions' part of the invariant after a step of session s.
LEMMA SessionsKept ==
  ASSUME IInv, db' \in Database, Keeps(db, db'), NEW s \in Sessions, NEW pc, Steps(s, pc),
         HeaderOK(sess'[s], db')
  PROVE  \A t \in Sessions : HeaderOK(sess'[t], db')
<1>1. \A t \in Sessions : sess[t] \in Session /\ HeaderOK(sess[t], db)
  BY DEF IInv, TypeOK
<1>2. db \in Database
  BY DEF IInv, TypeOK
<1>3. QED
  BY <1>1, <1>2, HeaderKept DEF Steps

LEMMA SameFileKeeps == ASSUME NEW d \in Database PROVE Keeps(d, d)
BY DEF Keeps, Database

LEMMA SourceNull == NoCurrent.source # "ctrlz" /\ NoCurrent.op = 0
BY DEF NoCurrent

LEMMA InitInv == Init => IInv
<1> SUFFICES ASSUME Init PROVE IInv
  OBVIOUS
<1>1. PICK rows \in [Slots -> Content] :
        db = [rows |-> rows, ops |-> [o \in OpIds |-> NoOp], log |-> {},
              cur |-> NoCurrent, seq |-> 0, minted |-> 0]
  BY DEF Init
<1>2. /\ db.rows = rows /\ db.ops = [o \in OpIds |-> NoOp] /\ db.log = {}
      /\ db.cur = NoCurrent /\ db.seq = 0 /\ db.minted = 0
  BY <1>1
<1>3. db \in Database
  BY <1>1, NullsTyped, ConstantsOK DEF Database
<1>4. TypeOK
  BY <1>3, RestingTyped DEF Init, TypeOK
<1>5. DBInv(db)
  <2>1. \A o \in OpIds : db.ops[o] = NoOp /\ ~Exists(db, o)
    BY <1>2 DEF Exists, NoOp
  <2>2. QED
    BY <1>2, <2>1, SourceNull, ConstantsOK
    DEF DBInv, LogOrdered, OpsOrdered, OpRowsSound, CurrentOpen, LogAgrees, NoOp
<1>6. Locking /\ \A s \in Sessions : HeaderOK(sess[s], db)
  BY RestingTyped, ConstantsOK DEF Init, Locking, HeaderOK
<1>7. QED
  BY <1>2, <1>4, <1>5, <1>6, SourceNull DEF Init, IInv, Free

-----------------------------------------------------------------------------
(* Each action preserves the invariant.                                     *)

\* Outside a transaction the operation being written is not a ctrlz one, so
\* what is written moves no header of one.
LEMMA OutsideWriteKeeps ==
  ASSUME NEW d \in Database, DBInv(d), d.cur.source # "ctrlz", NEW d2, Writes(d, d2)
  PROVE  d2.cur.source # "ctrlz" /\ Keeps(d, d2)
<1>1. d2.cur.source # "ctrlz"
  BY DEF Writes
<1>2. d2.cur.op \in OpIds
  BY ConstantsOK DEF Writes, Database, CurrentOp, OpIds
<1>3. QED
  BY <1>1, <1>2 DEF Writes, Keeps

LEMMA ExternalWriteInv == ASSUME IInv, ExternalWrite PROVE IInv'
<1>1. /\ db \in Database /\ DBInv(db) /\ Free /\ UserMayWrite(db) /\ UserWrite(db, db')
      /\ db.cur.source # "ctrlz"
  BY DEF IInv, TypeOK, ExternalWrite
<1>2. Writes(db, db')
  BY <1>1, UserWriteWrites
<1>3. db'.cur.source # "ctrlz" /\ Keeps(db, db')
  BY <1>1, <1>2, OutsideWriteKeeps
<1>4. db' \in Database /\ DBInv(db') /\ work' = db' /\ writer' = writer /\ sess' = sess
  BY <1>2 DEF Writes, ExternalWrite
<1>5. TypeOK' /\ Locking' /\ Free'
  BY <1>1, <1>4 DEF IInv, TypeOK, Locking, Free
<1>6. \A s \in Sessions : HeaderOK(sess[s], db')
  BY <1>1, <1>3, <1>4, HeaderKept DEF IInv, TypeOK
<1>7. QED
  BY <1>3, <1>4, <1>5, <1>6 DEF IInv

LEMMA OpenInv == ASSUME IInv, NEW s \in Sessions, Open(s) PROVE IInv'
<1>1. db \in Database /\ DBInv(db) /\ Free /\ db.cur.source # "ctrlz"
  BY DEF IInv, TypeOK, Open
<1>2. db' = [db EXCEPT !.cur = NoCurrent] /\ work' = db' /\ writer' = writer
  BY <1>1 DEF Open, Autocommit
<1>3. db' \in Database /\ DBInv(db') /\ db'.cur = NoCurrent /\ db'.ops = db.ops /\ db'.minted = db.minted
  BY <1>1, <1>2, ClearedInv
<1>4. Steps(s, "idle")
  BY RestSteps, RestingTyped DEF IInv, Open
<1>5. TypeOK' /\ Locking' /\ Free'
  BY <1>1, <1>2, <1>3, <1>4 DEF IInv, TypeOK, Locking, Free, Steps, Open
<1>6. Keeps(db, db') /\ HeaderOK(sess'[s], db')
  BY <1>1, <1>3, <1>4 DEF Keeps, HeaderOK, Steps, Database
<1>7. \A t \in Sessions : HeaderOK(sess'[t], db')
  BY <1>3, <1>4, <1>6, SessionsKept
<1>8. QED
  BY <1>2, <1>3, <1>5, <1>7, SourceNull DEF IInv

\* The transaction of session s ends without a trace.
LEMMA RollbackInv ==
  ASSUME IInv, NEW s \in Sessions, NEW pc \in {"idle", "closed"}, Steps(s, pc),
         db' = db, work' = db, writer = s, writer' = NoSession
  PROVE  IInv'
<1>1. db \in Database /\ DBInv(db)
  BY DEF IInv, TypeOK
<1>2. TypeOK' /\ Locking' /\ Free'
  BY ConstantsOK DEF IInv, TypeOK, Locking, Free, Steps
<1>3. Keeps(db, db') /\ HeaderOK(sess'[s], db')
  BY <1>1, SameFileKeeps DEF HeaderOK, Steps
<1>4. \A t \in Sessions : HeaderOK(sess'[t], db')
  BY <1>1, <1>3, SessionsKept
<1>5. QED
  BY <1>2, <1>4 DEF IInv

\* A session steps between transactions, or reads, and no data moves.
LEMMA ReaderInv ==
  ASSUME IInv, NEW s \in Sessions, NEW pc \in {"idle", "closed", "reading", "inspecting"},
         Steps(s, pc), writer # s, HeaderOK(sess'[s], db),
         db' = db, work' = work, writer' = writer
  PROVE  IInv'
<1>1. db \in Database
  BY DEF IInv, TypeOK
<1>2. TypeOK' /\ Locking' /\ (Free' <=> Free) /\ (InTransaction' <=> InTransaction)
  BY DEF IInv, TypeOK, Locking, Free, Steps, InTransaction
<1>3. \A t \in Sessions : HeaderOK(sess'[t], db')
  BY <1>1, SameFileKeeps, SessionsKept
<1>4. QED
  BY <1>2, <1>3 DEF IInv

LEMMA CloseInv == ASSUME IInv, NEW s \in Sessions, Close(s) PROVE IInv'
<1>1. TypeOK /\ sess' = [sess EXCEPT ![s] = Closed] /\ db' = db
  BY DEF IInv, Close
<1>2. Steps(s, "closed")
  BY <1>1, RestSteps, RestingTyped
<1>3. CASE writer = s
  BY <1>1, <1>2, <1>3, RollbackInv DEF Close
<1>4. CASE writer # s
  <2>1. HeaderOK(sess'[s], db)
    BY <1>2 DEF HeaderOK, Steps
  <2>2. QED
    BY <1>1, <1>2, <1>4, <2>1, ReaderInv DEF Close
<1>5. QED
  BY <1>3, <1>4

LEMMA ExecRollbackInv == ASSUME IInv, NEW s \in Sessions, ExecRollback(s) PROVE IInv'
<1>1. writer = s /\ TypeOK /\ "idle" \in Doing
  BY DEF IInv, Locking, ExecRollback, Doing
<1>2. Steps(s, "idle")
  BY <1>1, GotoSteps DEF ExecRollback, Goto, TypeOK
<1>3. QED
  BY <1>1, <1>2, RollbackInv DEF ExecRollback, Rollback

LEMMA UndoAbortInv == ASSUME IInv, NEW s \in Sessions, UndoAbort(s) PROVE IInv'
<1>1. writer = s /\ TypeOK
  BY DEF IInv, Locking, UndoAbort
<1>2. Steps(s, "idle")
  BY <1>1, RestSteps, RestingTyped DEF UndoAbort
<1>3. QED
  BY <1>1, <1>2, RollbackInv DEF UndoAbort, Rollback

LEMMA ReadOperationInv == ASSUME IInv, NEW s \in Sessions, ReadOperation(s) PROVE IInv'
<1>1. TypeOK /\ writer # s /\ db' = db /\ work' = work /\ writer' = writer
  BY DEF IInv, Locking, ReadOperation
<1>2. /\ Steps(s, "reading") /\ sess'[s].op \in OpIds /\ Exists(db, sess'[s].op)
      /\ sess'[s].capped = db.ops[sess'[s].op].capped
  BY <1>1, ReadOperationSteps
<1>3. HeaderOK(sess'[s], db)
  BY <1>2 DEF HeaderOK, Steps, IInv, DBInv, OpsOrdered
<1>4. QED
  BY <1>1, <1>2, <1>3, ReaderInv

LEMMA ReadChangesInv == ASSUME IInv, NEW s \in Sessions, ReadChanges(s) PROVE IInv'
<1>1. /\ TypeOK /\ writer # s /\ db' = db /\ work' = work /\ writer' = writer
      /\ sess[s].pc = "reading" /\ HeaderOK(sess[s], db)
  BY DEF IInv, Locking, ReadChanges
<1>2. /\ Steps(s, "inspecting")
      /\ sess'[s].op = sess[s].op /\ sess'[s].capped = sess[s].capped
  BY <1>1, ReadChangesSteps
<1>3. HeaderOK(sess'[s], db)
  BY <1>1, <1>2 DEF HeaderOK, Steps
<1>4. QED
  BY <1>1, <1>2, <1>3, ReaderInv

LEMMA InspectInv == ASSUME IInv, NEW s \in Sessions, Inspect(s) PROVE IInv'
<1>1. /\ TypeOK /\ writer # s /\ db' = db /\ work' = work /\ writer' = writer
      /\ sess[s].pc = "inspecting" /\ HeaderOK(sess[s], db)
  BY DEF IInv, Locking, Inspect
<1>2. /\ Steps(s, "inspecting")
      /\ sess'[s].op = sess[s].op /\ sess'[s].capped = sess[s].capped
  BY <1>1, InspectSteps
<1>3. HeaderOK(sess'[s], db)
  BY <1>1, <1>2 DEF HeaderOK, Steps
<1>4. QED
  BY <1>1, <1>2, <1>3, ReaderInv

LEMMA ReportInv == ASSUME IInv, NEW s \in Sessions, Report(s) PROVE IInv'
<1>1. TypeOK /\ writer # s /\ db' = db /\ work' = work /\ writer' = writer
  BY DEF IInv, Locking, Report, Assessed
<1>2. Steps(s, "idle")
  BY <1>1, RestSteps, RestingTyped DEF Report
<1>3. HeaderOK(sess'[s], db)
  BY <1>2 DEF HeaderOK, Steps
<1>4. QED
  BY <1>1, <1>2, <1>3, ReaderInv

LEMMA PurgeInv == ASSUME IInv, NEW s \in Sessions, Purge(s) PROVE IInv'
<1>1. db \in Database /\ DBInv(db) /\ db.cur.source # "ctrlz" /\ Free /\ Free'
  BY DEF IInv, TypeOK, Purge, Free
<1>2. PICK k \in 2 .. MaxOps + 1 : db' = Purged(db, k) /\ work' = db'
  BY DEF Purge, Autocommit
<1>3. /\ db' \in Database /\ DBInv(db')
      /\ db'.cur = db.cur /\ db'.minted = db.minted
      /\ \A p \in OpIds : db'.ops[p] \in {db.ops[p], NoOp}
  BY <1>1, <1>2, PurgedInv
<1>4. NoOp.source # "ctrlz"
  BY DEF NoOp
<1>5. Keeps(db, db')
  BY <1>1, <1>3, <1>4 DEF Keeps, Database
<1>6. TypeOK' /\ Locking'
  BY <1>2, <1>3 DEF IInv, TypeOK, Locking, Purge
<1>7. \A t \in Sessions : HeaderOK(sess'[t], db')
  BY <1>1, <1>3, <1>5, HeaderKept DEF IInv, TypeOK, Purge
<1>8. QED
  BY <1>1, <1>2, <1>3, <1>6, <1>7 DEF IInv

\* A transaction opens: it owns the lock and stages an id nobody has seen.
LEMMA BeginInv ==
  ASSUME IInv, NEW s \in Sessions, NEW pc \in {"running", "applying"}, Steps(s, pc),
         NEW o \in 0 .. MaxOps, Free, db.minted < MaxOps,
         db' = db, work' = Staged(db, o), writer' = s, HeaderOK(sess'[s], db)
  PROVE  IInv'
<1>1. db \in Database /\ DBInv(db)
  BY DEF IInv, TypeOK
<1>2. /\ work' \in Database /\ DBInv(work')
      /\ work'.cur.op = db.minted + 1 /\ work'.minted = db.minted + 1
      /\ work'.cur.source = "ctrlz" /\ work'.ops = db.ops /\ work'.log = db.log
      /\ work'.seq = db.seq
  BY <1>1, StagedInv
<1>3. db.minted \in Nat /\ db.seq \in Nat
  BY <1>1, ConstantsOK DEF Database
<1>4. InTransaction' /\ ~Free'
  BY <1>2, <1>3, ConstantsOK DEF InTransaction, Appends, Free
<1>5. TypeOK' /\ Locking'
  BY <1>2, ConstantsOK DEF IInv, TypeOK, Locking, Free, Steps
<1>6. \A t \in Sessions : HeaderOK(sess'[t], db')
  BY <1>1, SameFileKeeps, SessionsKept
<1>7. QED
  BY <1>2, <1>4, <1>5, <1>6 DEF IInv

\* The open transaction writes rows, or does not.
LEMMA TransactionInv ==
  ASSUME IInv, NEW s \in Sessions, NEW pc \in {"running", "applying"}, Steps(s, pc),
         writer = s, work' = work \/ Writes(work, work'),
         db' = db, writer' = writer, HeaderOK(sess'[s], db)
  PROVE  IInv'
<1>1. /\ db \in Database /\ work \in Database /\ DBInv(work) /\ InTransaction /\ ~Free
      /\ db.minted \in Nat
  BY ConstantsOK DEF IInv, TypeOK, Free, Database
<1>2. work' \in Database /\ DBInv(work')
  BY <1>1 DEF Writes
<1>3. InTransaction' /\ ~Free'
  <2>1. CASE work' = work
    BY <1>1, <2>1 DEF InTransaction, Free
  <2>2. CASE Writes(work, work')
    <3>1. work.cur.op # 0
      BY <1>1 DEF InTransaction
    <3>2. work'.cur = work.cur /\ work'.minted = work.minted
      BY <2>2, <3>1 DEF Writes
    <3>3. Appends(db, work)'
      BY <1>1, <1>2, <2>2, AppendsTransitive DEF InTransaction, Writes
    <3>4. QED
      BY <1>1, <2>2, <3>2, <3>3 DEF InTransaction, Writes, Free
  <2>3. QED
    BY <2>1, <2>2
<1>4. TypeOK' /\ Locking'
  BY <1>2, ConstantsOK DEF IInv, TypeOK, Locking, Steps
<1>5. \A t \in Sessions : HeaderOK(sess'[t], db')
  BY <1>1, SameFileKeeps, SessionsKept
<1>6. QED
  BY <1>2, <1>3, <1>4, <1>5 DEF IInv

\* What a transaction did moves no header read before it.
LEMMA TransactionKeeps ==
  ASSUME IInv, ~Free
  PROVE  Keeps(db, work)
<1>1. db \in Database /\ work \in Database /\ InTransaction
  BY DEF IInv, TypeOK
<1>2. QED
  BY <1>1, ConstantsOK DEF InTransaction, Keeps, Database, CurrentOp, OpIds

\* The transaction of session s is committed as d.
LEMMA PublishInv ==
  ASSUME IInv, NEW s \in Sessions, Steps(s, "idle"),
         NEW d \in Database, DBInv(d), Keeps(db, d), writer = s, Publish(d)
  PROVE  IInv'
<1>1. db' = [d EXCEPT !.cur = NoCurrent] /\ work' = db' /\ writer' = NoSession
  BY DEF Publish, Autocommit
<1>2. /\ db' \in Database /\ DBInv(db') /\ db'.cur = NoCurrent
      /\ db'.ops = d.ops /\ db'.minted = d.minted
  BY <1>1, ClearedInv
<1>3. Keeps(db, db') /\ HeaderOK(sess'[s], db')
  BY <1>2 DEF Keeps, HeaderOK, Steps
<1>4. \A t \in Sessions : HeaderOK(sess'[t], db')
  BY <1>2, <1>3, SessionsKept
<1>5. TypeOK' /\ Locking' /\ Free'
  BY <1>1, <1>2, ConstantsOK DEF IInv, TypeOK, Locking, Free, Steps
<1>6. QED
  BY <1>1, <1>2, <1>4, <1>5, SourceNull DEF IInv

LEMMA ExecBeginInv == ASSUME IInv, NEW s \in Sessions, ExecBegin(s) PROVE IInv'
<1>1. TypeOK /\ "running" \in Doing /\ 0 \in 0 .. MaxOps
  BY ConstantsOK DEF IInv, Doing
<1>2. Steps(s, "running")
  BY <1>1, GotoSteps DEF ExecBegin, Goto, TypeOK
<1>3. HeaderOK(sess'[s], db)
  BY <1>2 DEF HeaderOK, Steps
<1>4. QED
  BY <1>1, <1>2, <1>3, BeginInv DEF ExecBegin

LEMMA UndoBeginInv == ASSUME IInv, NEW s \in Sessions, UndoBegin(s) PROVE IInv'
<1>1. TypeOK /\ sess[s] \in Session /\ sess[s].op \in 0 .. MaxOps
  BY DEF IInv, TypeOK, Session
<1>2. /\ Steps(s, "applying")
      /\ sess'[s].op = sess[s].op /\ sess'[s].capped = sess[s].capped
  BY <1>1, UndoBeginSteps
<1>3. ~sess[s].capped /\ sess[s].pc = "inspecting"
  BY DEF UndoBegin, Undoable, Blocked, Assessed
<1>4. HeaderOK(sess'[s], db)
  BY <1>2, <1>3 DEF HeaderOK, Steps, IInv
<1>5. QED
  BY <1>1, <1>2, <1>4, BeginInv DEF UndoBegin

LEMMA ExecWriteInv == ASSUME IInv, NEW s \in Sessions, ExecWrite(s) PROVE IInv'
<1>1. writer = s /\ work \in Database /\ DBInv(work) /\ sess' = sess /\ db' = db /\ writer' = writer
  BY DEF IInv, TypeOK, Locking, ExecWrite
<1>2. Writes(work, work')
  BY <1>1, UserWriteWrites DEF ExecWrite
<1>3. Steps(s, "running") /\ HeaderOK(sess'[s], db)
  BY <1>1 DEF Steps, IInv, TypeOK, ExecWrite
<1>4. QED
  BY <1>1, <1>2, <1>3, TransactionInv

LEMMA ApplyNextInv == ASSUME IInv, NEW s \in Sessions, ApplyNext(s) PROVE IInv'
<1>1. /\ writer = s /\ TypeOK /\ work \in Database /\ DBInv(work) /\ sess[s] \in Session
      /\ sess[s].pc = "applying" /\ HeaderOK(sess[s], db) /\ db' = db /\ writer' = writer
  BY DEF IInv, TypeOK, Locking, ApplyNext
<1>2. PICK v \in sess[s].verdicts :
        ApplyInverse(work, v, work') /\ sess' = [sess EXCEPT ![s].verdicts = @ \ {v}]
  BY DEF ApplyNext
<1>3. v \in Verdict
  BY <1>1 DEF Session
<1>4. work.cur.op # 0
  BY <1>1, ConstantsOK DEF IInv, InTransaction, Free, Database, TypeOK
<1>5. work' = work \/ Writes(work, work')
  BY <1>1, <1>2, <1>3, <1>4, InverseWrites
<1>6. /\ Steps(s, "applying")
      /\ sess'[s].op = sess[s].op /\ sess'[s].capped = sess[s].capped
  BY <1>1, <1>2, ApplyNextSteps
<1>7. HeaderOK(sess'[s], db)
  BY <1>1, <1>6 DEF HeaderOK, Steps
<1>8. QED
  BY <1>1, <1>5, <1>6, <1>7, TransactionInv

LEMMA ExecCommitInv == ASSUME IInv, NEW s \in Sessions, ExecCommit(s) PROVE IInv'
<1>1. writer = s /\ TypeOK /\ work \in Database /\ DBInv(work) /\ "idle" \in Doing
  BY DEF IInv, TypeOK, Locking, ExecCommit, Doing
<1>2. Steps(s, "idle")
  BY <1>1, GotoSteps DEF ExecCommit, Goto, TypeOK
<1>3. Keeps(db, work)
  BY <1>1, ConstantsOK, TransactionKeeps DEF Free
<1>4. QED
  BY <1>1, <1>2, <1>3, PublishInv DEF ExecCommit

\* The operation an undo marks is not the one it writes under.
LEMMA UndoCommitMarks ==
  ASSUME IInv, NEW s \in Sessions, sess[s].pc = "applying"
  PROVE  /\ writer = s /\ sess[s].op \in OpIds /\ work.cur.op # sess[s].op
         /\ work.ops[sess[s].op] = db.ops[sess[s].op]
<1>1. writer = s /\ ~Free /\ InTransaction
  BY ConstantsOK DEF IInv, Locking, Free
<1>2. sess[s].op \in OpIds /\ sess[s].op <= db.minted
  BY DEF IInv, HeaderOK
<1>3. db.minted \in Int /\ work.cur.op \in Int
  BY ConstantsOK DEF IInv, TypeOK, Database, CurrentOp
<1>4. work.cur.op # sess[s].op
  BY <1>1, <1>2, <1>3, ConstantsOK DEF InTransaction, OpIds
<1>5. QED
  BY <1>1, <1>2, <1>4 DEF InTransaction

LEMMA UndoCommitInv == ASSUME IInv, NEW s \in Sessions, UndoCommit(s) PROVE IInv'
<1> DEFINE d == MarkedUndone(work, sess[s].op)
<1>1. TypeOK /\ work \in Database /\ DBInv(work) /\ db \in Database
  BY DEF IInv, TypeOK
<1>2. writer = s /\ sess[s].op \in OpIds /\ work.cur.op # sess[s].op
  BY UndoCommitMarks DEF UndoCommit
<1>3. /\ d \in Database /\ DBInv(d) /\ d.minted = work.minted
      /\ \A p \in OpIds : /\ d.ops[p].source = work.ops[p].source
                          /\ d.ops[p].capped = work.ops[p].capped
  BY <1>1, <1>2, MarkedInv
<1>4. Steps(s, "idle")
  BY <1>1, RestSteps, RestingTyped DEF UndoCommit
<1>5. Keeps(db, work)
  BY <1>2, ConstantsOK, TransactionKeeps DEF Free
<1>6. Publish(d)
  BY DEF UndoCommit
<1> HIDE DEF d
<1>7. Keeps(db, d)
  BY <1>3, <1>5 DEF Keeps
<1>8. QED
  BY <1>2, <1>3, <1>4, <1>6, <1>7, PublishInv

LEMMA StutterInv == ASSUME IInv, UNCHANGED vars PROVE IInv'
BY DEF vars, IInv, TypeOK, Locking, Free, InTransaction

LEMMA NextInv == ASSUME IInv, [Next]_vars PROVE IInv'
<1>1. CASE ExternalWrite
  BY <1>1, ExternalWriteInv
<1>2. ASSUME NEW s \in Sessions, SessionStep(s) PROVE IInv'
  BY <1>2, OpenInv, CloseInv, PurgeInv, ExecBeginInv, ExecWriteInv, ExecCommitInv, ExecRollbackInv,
     ReadOperationInv, ReadChangesInv, InspectInv, ReportInv,
     UndoBeginInv, ApplyNextInv, UndoCommitInv, UndoAbortInv DEF SessionStep, Undoing
<1>3. CASE UNCHANGED vars
  BY <1>3, StutterInv
<1>4. QED
  BY <1>1, <1>2, <1>3 DEF Next

THEOREM Inductive == Spec => []IInv
BY InitInv, NextInv, PTL DEF Spec

-----------------------------------------------------------------------------
(* The theorems.                                                            *)

\* The file, the transaction and the sessions keep their shapes.
THEOREM TypeCorrect == Spec => []TypeOK
<1>1. IInv => TypeOK
  BY DEF IInv
<1>2. QED
  BY <1>1, Inductive, PTL

\* The newest image of a row is the row, unless a capped operation has been at
\* work since: assess never compares against a stale image.
THEOREM LogIsTrue == Spec => []LogTruth
<1>1. IInv => LogTruth
  BY DEF IInv, DBInv, LogTruth
<1>2. QED
  BY <1>1, Inductive, PTL

\* What an undo of session s publishes.
LEMMA UndoCommitWrites ==
  ASSUME IInv, NEW s \in Sessions, UndoCommit(s)
  PROVE  /\ db'.log = work.log
         /\ \A p \in OpIds : /\ db'.ops[p].source = work.ops[p].source
                             /\ db'.ops[p].capped = work.ops[p].capped
         /\ \A p \in OpIds \ {sess[s].op} : db'.ops[p] = work.ops[p]
<1> DEFINE d == MarkedUndone(work, sess[s].op)
<1>1. work \in Database /\ DBInv(work) /\ sess[s].op \in OpIds /\ work.cur.op # sess[s].op
  BY UndoCommitMarks DEF IInv, TypeOK, UndoCommit
<1>2. /\ d \in Database /\ DBInv(d) /\ d.log = work.log
      /\ \A p \in OpIds : d.ops[p].source = work.ops[p].source /\ d.ops[p].capped = work.ops[p].capped
      /\ \A p \in OpIds \ {sess[s].op} : d.ops[p] = work.ops[p]
  BY <1>1, MarkedInv
<1>3. db' = [d EXCEPT !.cur = NoCurrent]
  BY DEF UndoCommit, Publish, Autocommit
<1> HIDE DEF d
<1>4. db'.log = d.log /\ db'.ops = d.ops
  BY <1>2, <1>3, ClearedInv
<1>5. QED
  BY <1>2, <1>4

LEMMA ExecCommitWrites ==
  ASSUME IInv, NEW s \in Sessions, ExecCommit(s)
  PROVE  db'.log = work.log /\ db'.ops = work.ops
<1>1. work \in Database /\ DBInv(work) /\ db' = [work EXCEPT !.cur = NoCurrent]
  BY DEF IInv, TypeOK, ExecCommit, Publish, Autocommit
<1>2. QED
  BY <1>1, ClearedInv

\* Whatever a step does to the file, it is one of these.
LEMMA FileSteps ==
  ASSUME IInv, [Next]_vars
  PROVE  \/ db'.log \subseteq db.log /\ \A p \in OpIds : db'.ops[p] \in {db.ops[p], NoOp}
         \/ ExternalWrite /\ Free /\ Writes(db, db')
         \/ \E s \in Sessions : (ExecCommit(s) \/ UndoCommit(s)) /\ writer = s
<1>1. db \in Database /\ DBInv(db)
  BY DEF IInv, TypeOK
<1>2. CASE db' = db
  BY <1>2
<1>3. CASE ExternalWrite
  BY <1>1, <1>3, UserWriteWrites DEF ExternalWrite
<1>4. ASSUME NEW s \in Sessions, Open(s), db' # db
      PROVE  db'.log = db.log /\ db'.ops = db.ops
  BY <1>1, <1>4, ClearedInv DEF Open, Autocommit
<1>5. ASSUME NEW s \in Sessions, Purge(s)
      PROVE  db'.log \subseteq db.log /\ \A p \in OpIds : db'.ops[p] \in {db.ops[p], NoOp}
  BY <1>1, <1>5, PurgedInv DEF Purge, Autocommit
<1>6. ASSUME NEW s \in Sessions, SessionStep(s), db' # db
      PROVE  Open(s) \/ Purge(s) \/ ExecCommit(s) \/ UndoCommit(s)
  BY <1>6 DEF SessionStep, Close, ExecBegin, ExecWrite, ExecRollback, ReadOperation, ReadChanges,
     Inspect, Report, UndoBegin, Undoing, ApplyNext, UndoAbort, Rollback
<1>7. ASSUME NEW s \in Sessions, ExecCommit(s) \/ UndoCommit(s) PROVE writer = s
  BY <1>7 DEF IInv, Locking, ExecCommit, UndoCommit
<1>8. QED
  BY <1>2, <1>3, <1>4, <1>5, <1>6, <1>7 DEF Next, vars

\* The changes a transaction publishes are its own operation's.
LEMMA CommitAttributes ==
  ASSUME IInv, NEW s \in Sessions, ExecCommit(s) \/ UndoCommit(s), writer = s,
         NEW c \in db'.log \ db.log
  PROVE  /\ ~Free /\ c.op \in OpIds /\ c.op = work.cur.op
         /\ ~Exists(db, c.op) /\ db'.ops[c.op].source = "ctrlz"
<1>1. ~Free /\ db \in Database /\ work \in Database /\ InTransaction /\ DBInv(db) /\ DBInv(work)
  BY ConstantsOK DEF IInv, TypeOK, Free
<1>2. db'.log = work.log /\ \A p \in OpIds : db'.ops[p].source = work.ops[p].source
  BY ExecCommitWrites, UndoCommitWrites
<1>3. c.op \in OpIds /\ c.op = work.cur.op
  BY <1>1, <1>2 DEF InTransaction, Database, Entry
<1>4. ~Exists(db, c.op)
  BY <1>1, <1>3, ConstantsOK DEF InTransaction, DBInv, OpsOrdered, Database, OpIds
<1>5. work.ops[c.op].source = "ctrlz"
  BY <1>1, <1>2, <1>3, ConstantsOK DEF InTransaction, DBInv, LogOrdered, CurrentOpen, OpIds
<1>6. QED
  BY <1>1, <1>2, <1>3, <1>4, <1>5

\* The changes written outside a transaction are an outside operation's, open.
LEMMA OutsideAttributes ==
  ASSUME IInv, Writes(db, db'), NEW c \in db'.log \ db.log
  PROVE  c.op \in OpIds /\ db'.ops[c.op].source = "external" /\ ~db.ops[c.op].undone
<1>1. db \in Database /\ DBInv(db) /\ db.cur.source # "ctrlz" /\ db.cur.source \in Source
  BY DEF IInv, TypeOK, Database, CurrentOp
<1>2. c.op = db'.cur.op /\ c.op \in OpIds
  BY DEF Writes, Database, Entry
<1>3. db'.cur.source = "external"
  BY <1>1 DEF Writes, DBInv, CurrentOpen, Source
<1>4. QED
  BY <1>2, <1>3 DEF Writes

\* Changes are credited to whoever made them: a transaction's to its own new
\* operation, the rest to an outside one.
THEOREM Attribution == Spec => WritesAreAttributed
<1>1. ASSUME IInv, [Next]_vars, NEW c \in db'.log \ db.log
      PROVE  IF Free THEN db'.ops[c.op].source = "external"
             ELSE c.op = work.cur.op /\ ~Exists(db, c.op) /\ db'.ops[c.op].source = "ctrlz"
  BY <1>1, FileSteps, CommitAttributes, OutsideAttributes
<1>2. IInv /\ [Next]_vars =>
        [\A c \in db'.log \ db.log :
           IF Free THEN db'.ops[c.op].source = "external"
           ELSE c.op = work.cur.op /\ ~Exists(db, c.op) /\ db'.ops[c.op].source = "ctrlz"]_vars
  BY <1>1
<1>3. QED
  BY <1>2, Inductive, PTL DEF Spec, WritesAreAttributed

\* An operation that was undone never receives another change.
THEOREM UndoneClosed == Spec => UndoneOpsAreClosed
<1>1. ASSUME IInv, [Next]_vars, NEW c \in db'.log \ db.log
      PROVE  ~db.ops[c.op].undone
  <2>1. CASE Writes(db, db')
    BY <1>1, <2>1, OutsideAttributes
  <2>2. ASSUME NEW s \in Sessions, ExecCommit(s) \/ UndoCommit(s), writer = s
        PROVE  ~db.ops[c.op].undone
    BY <1>1, <2>2, CommitAttributes DEF IInv, DBInv, OpRowsSound, NoOp
  <2>3. QED
    BY <1>1, <2>1, <2>2, FileSteps
<1>2. IInv /\ [Next]_vars => [\A c \in db'.log \ db.log : ~db.ops[c.op].undone]_vars
  BY <1>1
<1>3. QED
  BY <1>2, Inductive, PTL DEF Spec, UndoneOpsAreClosed

\* No capped operation of ctrlz's own is ever undone: what undo remembers of the
\* header stays true until it commits, whatever happens between.
THEOREM WholeUndos == Spec => []CtrlzUndosAreWhole
<1>1. Init => CtrlzUndosAreWhole
  BY DEF Init, CtrlzUndosAreWhole, NoOp
<1>2. ASSUME IInv, CtrlzUndosAreWhole, [Next]_vars PROVE CtrlzUndosAreWhole'
  <2>1. CASE \A p \in OpIds : db'.ops[p] \in {db.ops[p], NoOp}
    BY <1>2, <2>1 DEF CtrlzUndosAreWhole, NoOp
  <2>2. CASE Free /\ Writes(db, db')
    <3>1. db \in Database /\ DBInv(db) /\ db.cur.source # "ctrlz"
      BY <1>2 DEF IInv, TypeOK
    <3>2. db'.cur.source # "ctrlz"
      BY <2>2, <3>1, OutsideWriteKeeps
    <3>3. QED
      BY <1>2, <2>2, <3>2 DEF CtrlzUndosAreWhole, Writes
  <2>3. ASSUME NEW s \in Sessions, ExecCommit(s) \/ UndoCommit(s), writer = s
        PROVE  CtrlzUndosAreWhole'
    <3>1. ~Free /\ InTransaction /\ DBInv(work)
      BY <1>2, <2>3, ConstantsOK DEF IInv, Free
    <3>2. work.cur.op # 0 /\ ~work.ops[work.cur.op].undone
      BY <1>2, <3>1, ConstantsOK DEF InTransaction, DBInv, CurrentOpen, IInv, TypeOK, Database
    <3>3. \A p \in OpIds : /\ work.ops[p].undone /\ work.ops[p].source = "ctrlz"
                           => ~work.ops[p].capped
      BY <1>2, <3>1, <3>2 DEF InTransaction, CtrlzUndosAreWhole
    <3>4. CASE ExecCommit(s)
      BY <1>2, <3>3, <3>4, ExecCommitWrites DEF CtrlzUndosAreWhole
    <3>5. CASE UndoCommit(s)
      <4>1. work.ops[sess[s].op] = db.ops[sess[s].op]
        BY <1>2, <3>5, UndoCommitMarks DEF UndoCommit
      <4>2. db.ops[sess[s].op].source = "ctrlz" => ~db.ops[sess[s].op].capped
        BY <1>2, <3>5 DEF IInv, HeaderOK, UndoCommit
      <4>3. QED
        BY <1>2, <3>3, <3>5, <4>1, <4>2, UndoCommitWrites DEF CtrlzUndosAreWhole
    <3>6. QED
      BY <2>3, <3>4, <3>5
  <2>4. QED
    BY <1>2, <2>1, <2>2, <2>3, FileSteps
<1>3. QED
  BY <1>1, <1>2, Inductive, PTL DEF Spec

-----------------------------------------------------------------------------
(* The refinement: what commits to the file is what the followers of its    *)
(* change log were promised.                                                *)

\* The file after a commit under operation o, as its followers can tell.
Commits(o) ==
  /\ db.log \subseteq db'.log /\ db.seq <= db'.seq
  /\ \A c \in db'.log \ db.log : c.op = o /\ db.seq < c.seq
  /\ \A p \in OpIds : db.ops[p].undone => db'.ops[p].undone
  /\ ~db'.ops[o].undone

LEMMA ReadableDiffers ==
  ASSUME NEW e \in Readable' \ Readable
  PROVE  \E c \in db'.log \ db.log : e = [seq |-> c.seq, op |-> c.op]
BY DEF Readable

LEMMA CommitsPublish ==
  ASSUME IInv, IInv', NEW o \in OpIds, Commits(o)
  PROVE  Feed!FeedNext
<1> DEFINE new   == Readable' \ Readable
           marks == Undone' \ Undone
           spent == (1 .. db'.seq) \ (1 .. db.seq)
<1>1. /\ db \in Database /\ db' \in Database /\ db.seq \in Nat /\ db'.seq \in Nat
      /\ \A c \in db.log : c.seq \in Nat
      /\ \A c \in db'.log : c.seq \in Nat /\ c.seq <= db'.seq
  BY DEF IInv, TypeOK, Database, Entry, DBInv, LogOrdered
<1>2. Readable \subseteq Readable' /\ Undone \subseteq Undone'
  BY DEF Commits, Readable, Undone
<1>3. o \notin Undone \cup marks
  BY <1>2 DEF Commits, Undone
<1>4. \A e \in new : e.op = o /\ e.seq \in spent
  BY <1>1, ReadableDiffers DEF Commits
<1>5. \A e, f \in new : e.seq = f.seq => e = f
  <2>1. \A c, e \in db'.log : c.seq = e.seq => c = e
    BY DEF IInv, DBInv, LogOrdered
  <2>2. QED
    BY <2>1, ReadableDiffers
<1>6. \A n \in spent, u \in 1 .. db.seq : u < n
  BY <1>1
<1>7. 1 .. db'.seq = (1 .. db.seq) \cup spent
  BY <1>1 DEF Commits
<1> HIDE DEF new, marks, spent
<1>8. Readable' = Readable \cup new /\ Undone' = Undone \cup marks /\ marks \cap Undone = {}
  BY <1>2 DEF new, marks
<1>9. spent \cap (1 .. db.seq) = {}
  BY DEF spent
<1>10. Feed!Publish(o, new, marks, spent)
  BY <1>3, <1>4, <1>5, <1>6, <1>7, <1>8, <1>9 DEF Feed!Publish
<1>11. QED
  BY <1>10 DEF Feed!FeedNext, new, marks, spent

\* Nothing a follower can see.
LEMMA SameFileStutters ==
  ASSUME db'.log = db.log, db'.ops = db.ops, db'.seq = db.seq
  PROVE  UNCHANGED Feed!feed
BY DEF Feed!feed, Readable, Undone

LEMMA PurgeForgets ==
  ASSUME IInv, NEW s \in Sessions, Purge(s)
  PROVE  Feed!FeedNext
<1>1. PICK k \in 2 .. MaxOps + 1 : db' = Purged(db, k)
  BY DEF Purge, Autocommit
<1>2. /\ db \in Database /\ db.ops \in [OpIds -> OpRow] /\ k \in Nat
      /\ \A c \in db.log : c.op \in OpIds
  BY ConstantsOK DEF IInv, TypeOK, Database, Entry
<1> DEFINE gone == 1 .. (k - 1)
           ops  == [o \in OpIds |-> IF o < k THEN NoOp ELSE db.ops[o]]
           log  == {c \in db.log : c.op >= k}
<1>3. db' = [db EXCEPT !.ops = ops, !.log = log]
  BY <1>1 DEF Purged
<1>4. \A o \in OpIds : o < k <=> o \in gone
  BY <1>2 DEF OpIds
<1>5. \A o \in OpIds : ops[o].undone <=> db.ops[o].undone /\ o \notin gone
  BY <1>2, <1>4 DEF NoOp
<1>6. \A c \in db.log : c \in log <=> c.op \notin gone
  BY <1>2, <1>4 DEF OpIds
<1>7. log \subseteq db.log /\ gone \in SUBSET OpIds
  BY <1>2, ConstantsOK DEF OpIds
<1> HIDE DEF ops, log, gone
<1>8. db'.ops = ops /\ db'.log = log /\ db'.seq = db.seq
  BY <1>2, <1>3 DEF Database
<1>9. Readable' = {e \in Readable : e.op \notin gone}
  BY <1>6, <1>7, <1>8 DEF Readable
<1>10. Undone' = Undone \ gone
  BY <1>5, <1>8 DEF Undone
<1>11. Feed!Forget(gone)
  BY <1>8, <1>9, <1>10 DEF Feed!Forget
<1>12. QED
  BY <1>7, <1>11 DEF Feed!FeedNext

LEMMA OutsideCommits ==
  ASSUME IInv, Writes(db, db')
  PROVE  db'.cur.op \in OpIds /\ Commits(db'.cur.op)
<1>1. db \in Database /\ db' \in Database /\ Appends(db, db') /\ db'.cur.op \in OpIds
  BY ConstantsOK DEF IInv, TypeOK, Writes, Database, CurrentOp, OpIds
<1>2. QED
  BY <1>1 DEF Writes, Appends, Commits

\* A transaction adds to the file as the one operation it staged.
LEMMA TransactionAppends ==
  ASSUME IInv, ~Free
  PROVE  /\ Appends(db, work) /\ work.cur.op \in OpIds /\ ~work.ops[work.cur.op].undone
         /\ \A c \in work.log \ db.log : c.op = work.cur.op
<1>1. /\ db \in Database /\ work \in Database /\ InTransaction /\ DBInv(work)
      /\ db.minted \in Nat /\ work.cur.op \in 0 .. MaxOps
  BY ConstantsOK DEF IInv, TypeOK, Database, CurrentOp
<1>2. work.cur.op # 0 /\ work.cur.op \in OpIds
  BY <1>1, ConstantsOK DEF InTransaction, OpIds
<1>3. QED
  BY <1>1, <1>2 DEF InTransaction, DBInv, CurrentOpen

LEMMA ExecCommits ==
  ASSUME IInv, NEW s \in Sessions, ExecCommit(s), writer = s
  PROVE  work.cur.op \in OpIds /\ Commits(work.cur.op)
<1>1. ~Free /\ work \in Database /\ DBInv(work)
  BY ConstantsOK DEF IInv, TypeOK, Free
<1>2. db' = [work EXCEPT !.cur = NoCurrent]
  BY DEF ExecCommit, Publish, Autocommit
<1>3. db'.log = work.log /\ db'.ops = work.ops /\ db'.seq = work.seq
  BY <1>1, <1>2, ClearedInv
<1>4. QED
  BY <1>1, <1>3, TransactionAppends DEF Appends, Commits

LEMMA UndoCommits ==
  ASSUME IInv, NEW s \in Sessions, UndoCommit(s), writer = s
  PROVE  work.cur.op \in OpIds /\ Commits(work.cur.op)
<1> DEFINE o == sess[s].op
           d == MarkedUndone(work, o)
<1>1. ~Free /\ work \in Database /\ DBInv(work) /\ o \in OpIds /\ work.cur.op # o
  BY UndoCommitMarks, ConstantsOK DEF IInv, TypeOK, Free, UndoCommit
<1>2. /\ d \in Database /\ DBInv(d) /\ d.log = work.log /\ d.seq = work.seq
      /\ \A p \in OpIds \ {o} : d.ops[p] = work.ops[p]
  BY <1>1, MarkedInv
<1>3. work.ops[o].undone => d.ops[o].undone
  BY <1>1 DEF MarkedUndone, Database, OpRow
<1>4. db' = [d EXCEPT !.cur = NoCurrent]
  BY DEF UndoCommit, Publish, Autocommit
<1> HIDE DEF d
<1>5. db'.log = work.log /\ db'.seq = work.seq /\ db'.ops = d.ops
  BY <1>2, <1>4, ClearedInv
<1>6. QED
  BY <1>1, <1>2, <1>3, <1>5, TransactionAppends DEF Appends, Commits

LEMMA StepServes ==
  ASSUME IInv, IInv', [Next]_vars
  PROVE  [Feed!FeedNext]_(Feed!feed)
<1>1. CASE db' = db
  BY <1>1, SameFileStutters
<1>2. CASE ExternalWrite
  <2>1. Writes(db, db')
    BY <1>2, UserWriteWrites DEF IInv, TypeOK, ExternalWrite
  <2>2. QED
    BY <2>1, OutsideCommits, CommitsPublish
<1>3. ASSUME NEW s \in Sessions, Open(s), db' # db PROVE UNCHANGED Feed!feed
  <2>1. db \in Database /\ DBInv(db) /\ db' = [db EXCEPT !.cur = NoCurrent]
    BY <1>3 DEF IInv, TypeOK, Open, Autocommit
  <2>2. QED
    BY <2>1, ClearedInv, SameFileStutters
<1>4. ASSUME NEW s \in Sessions, ExecCommit(s) \/ UndoCommit(s) PROVE Feed!FeedNext
  <2>1. writer = s
    BY <1>4 DEF IInv, Locking, ExecCommit, UndoCommit
  <2>2. QED
    BY <1>4, <2>1, ExecCommits, UndoCommits, CommitsPublish
<1>5. ASSUME NEW s \in Sessions, SessionStep(s), db' # db
      PROVE  Open(s) \/ Purge(s) \/ ExecCommit(s) \/ UndoCommit(s)
  BY <1>5 DEF SessionStep, Close, ExecBegin, ExecWrite, ExecRollback, ReadOperation, ReadChanges,
     Inspect, Report, UndoBegin, Undoing, ApplyNext, UndoAbort, Rollback
<1>6. QED
  BY <1>1, <1>2, <1>3, <1>4, <1>5, PurgeForgets DEF Next, vars

\* SQLite keeps the contract of the change log's followers: numbers are fresh
\* and rise, an undone operation is closed and stays undone, changes go only
\* with their whole operation, for any sessions, outside writers and purges.
THEOREM ImplementsFeed == Spec => ServesFeed
<1>1. Init => Feed!FeedInit
  BY DEF Init, Feed!FeedInit, Readable, Undone, NoOp
<1>2. IInv /\ IInv' /\ [Next]_vars => [Feed!FeedNext]_(Feed!feed)
  BY StepServes
<1>3. QED
  BY <1>1, <1>2, Inductive, PTL DEF Spec, ServesFeed, Feed!FeedSpec
-----------------------------------------------------------------------------
(* The history: how the changes of a row follow one another, and how many of *)
(* them an operation has.                                                    *)

\* HistoryChains and CaptureIsAllOrCapped, of the file or of a transaction.
Chained(d) ==
  \A c, e \in d.log : Consecutive(d, c, e) =>
     c.after = e.before \/ \E p \in c.op .. e.op : d.ops[p].capped

Imaged(d) ==
  \A o \in OpIds :
    /\ IsFiniteSet(ChangesOf(d, o))
    /\ Cardinality(ChangesOf(d, o)) = IF d.ops[o].capped THEN MaxRows ELSE d.ops[o].count

History(d) == Chained(d) /\ Imaged(d)

\* No firing of a statement is left without its place in the order.
Onto(num, T, s) == \A i \in 1 .. num[s] : \E x \in T : num[x] = i

LEMMA FiringOrdersFill ==
  ASSUME NEW T \in SUBSET Slots, NEW s \in T, NEW num \in FiringOrders(T, s)
  PROVE  Onto(num, T, s)
<1> DEFINE n == Cardinality(T)
<1>1. IsFiniteSet(T) /\ n \in Nat
  BY ConstantsOK, FS_Subset, FS_CardinalityType
<1>2. IsFiniteSet(1 .. n) /\ Cardinality(1 .. n) = n
  BY <1>1, FS_Interval
<1>3. num[s] = n /\ num \in [T -> 1 .. n] /\ \A x, y \in T : num[x] = num[y] => x = y
  BY DEF FiringOrders
<1> HIDE DEF n
<1>4. num \in Injection(T, 1 .. n)
  BY <1>3 DEF Injection, IsInjective
<1>5. num \in Surjection(T, 1 .. n)
  BY <1>2, <1>4, FS_Injection DEF n
<1>6. QED
  BY <1>3, <1>5 DEF Surjection, Onto

\* The first k firings leave k images.
LEMMA ImagesCount ==
  ASSUME NEW d \in Database, NEW T, NEW s, NEW num, Numbering(num, T, s), Onto(num, T, s),
         NEW rows, NEW k \in 0 .. num[s]
  PROVE  IsFiniteSet(Images(d, num, rows, k)) /\ Cardinality(Images(d, num, rows, k)) = k
<1> DEFINE new == Images(d, num, rows, k)
           image(x) == [seq |-> d.seq + num[x], op |-> d.cur.op, slot |-> x,
                        before |-> d.rows[x], after |-> rows[x]]
           place == [c \in new |-> num[c.slot]]
<1>1. num \in [T -> Nat \ {0}] /\ num[s] \in Nat /\ k \in Nat
  BY DEF Numbering
<1>2. \A c \in new : c.slot \in T /\ num[c.slot] \in 1 .. k /\ c = image(c.slot)
  BY <1>1 DEF Images
<1>3. \A x \in T : num[x] <= k => image(x) \in new /\ image(x).slot = x
  BY <1>1 DEF Images
<1> HIDE DEF new, image
<1>4. place \in Injection(new, 1 .. k)
  <2>1. place \in [new -> 1 .. k]
    BY <1>2
  <2>2. ASSUME NEW c \in new, NEW e \in new, place[c] = place[e] PROVE c = e
    <3>1. c.slot = e.slot
      BY <1>2, <2>2 DEF Numbering
    <3>2. QED
      BY <1>2, <3>1
  <2>3. QED
    BY <2>1, <2>2 DEF Injection, IsInjective
<1>5. place \in Surjection(new, 1 .. k)
  <2>1. ASSUME NEW i \in 1 .. k PROVE \E c \in new : place[c] = i
    <3>1. i \in 1 .. num[s]
      BY <1>1
    <3>2. PICK x \in T : num[x] = i
      BY <3>1 DEF Onto
    <3>3. image(x) \in new /\ image(x).slot = x
      BY <1>3, <3>2
    <3>4. QED
      BY <3>2, <3>3
  <2>2. QED
    BY <1>4, <2>1 DEF Injection, Surjection
<1>6. IsFiniteSet(1 .. k) /\ Cardinality(1 .. k) = k
  BY <1>1, FS_Interval
<1>7. QED
  BY <1>4, <1>5, <1>6, FS_Injection DEF new

LEMMA RecordedChains ==
  ASSUME NEW d \in Database, DBInv(d), Chained(d), d.cur.op # 0,
         NEW T, NEW s, NEW num, Numbering(num, T, s),
         NEW rows \in [Slots -> Content], \A x \in Slots \ T : rows[x] = d.rows[x]
  PROVE  Chained(Recorded(d, s, num, rows))
<1> DEFINE o   == d.cur.op
           row == Counted(Credited(d), num[s])
           k   == Stored(Credited(d), num[s])
           new == Images(d, num, rows, k)
           r   == Recorded(d, s, num, rows)
<1>1. /\ d.ops \in [OpIds -> OpRow] /\ d.log \in SUBSET Entry /\ d.seq \in Nat
      /\ o \in OpIds
  BY CreditedType DEF Database, DBInv, CurrentOpen
<1>2. num \in [T -> Nat \ {0}] /\ T \subseteq Slots
  BY DEF Numbering
<1>3. d.ops[o].capped => row.capped
  <2>1. ~Exists(d, o) => ~d.ops[o].capped
    BY <1>1 DEF DBInv, OpRowsSound, NoOp
  <2>2. QED
    BY <2>1 DEF Counted, Credited
<1>4. \A c \in new : /\ c.slot \in T /\ c.op = o /\ c.seq = d.seq + num[c.slot]
                     /\ c.before = d.rows[c.slot]
  BY <1>2 DEF Images
<1>5. \A c, e \in new : c.slot = e.slot => c = e
  BY DEF Images
<1> HIDE DEF row, k, new
<1>6. r.log = d.log \cup new /\ r.ops = [d.ops EXCEPT ![o] = row]
  BY DEF Recorded, row, k, new
<1>7. \A p \in OpIds : d.ops[p].capped => r.ops[p].capped
  BY <1>1, <1>3, <1>6
<1> HIDE DEF r
<1>8. \A c \in d.log : c.seq \in Nat /\ c.seq <= d.seq /\ c.op \in OpIds
  BY <1>1 DEF DBInv, LogOrdered, Entry
<1>9. \A c \in new : c.seq > d.seq /\ c.seq \in Nat
  BY <1>1, <1>2, <1>4
<1> SUFFICES ASSUME NEW c \in r.log, NEW e \in r.log, Consecutive(r, c, e)
             PROVE  c.after = e.before \/ \E p \in c.op .. e.op : r.ops[p].capped
  BY DEF Chained, r
<1>10. c \in d.log
  <2>1. CASE c \in new
    <3>1. e \in new
      BY <1>1, <1>6, <1>8, <1>9, <2>1 DEF Consecutive
    <3>2. c = e
      BY <1>5, <2>1, <3>1 DEF Consecutive
    <3>3. QED
      BY <1>9, <2>1, <3>2 DEF Consecutive
  <2>2. QED
    BY <1>6, <2>1
<1>11. CASE e \in d.log
  <2>1. Consecutive(d, c, e)
    BY <1>6, <1>10, <1>11 DEF Consecutive
  <2>2. c.after = e.before \/ \E p \in c.op .. e.op : d.ops[p].capped
    BY <1>10, <1>11, <2>1 DEF Chained
  <2>3. \A p \in c.op .. e.op : p \in OpIds
    BY <1>8, <1>10, <1>11, ConstantsOK DEF OpIds
  <2>4. QED
    BY <1>7, <2>2, <2>3
<1>12. CASE e \in new
  <2>1. c.slot = e.slot /\ e.op = o /\ e.before = d.rows[c.slot]
    BY <1>4, <1>12 DEF Consecutive
  <2>2. Newest(d, c)
    <3> SUFFICES ASSUME NEW f \in d.log, f.slot = c.slot PROVE f.seq <= c.seq
      BY DEF Newest
    <3>1. f.seq <= c.seq \/ e.seq <= f.seq
      BY <1>6 DEF Consecutive
    <3>2. QED
      BY <1>1, <1>8, <1>9, <1>12, <3>1
  <2>3. CASE d.rows[c.slot] = c.after
    BY <2>1, <2>3
  <2>4. CASE CappedSince(d, c.op)
    <3>1. PICK p \in OpIds : p >= c.op /\ d.ops[p].capped
      BY <2>4 DEF CappedSince
    <3>2. Exists(d, p)
      BY <3>1 DEF DBInv, OpRowsSound, NoOp
    <3>3. p <= o
      BY <3>2 DEF DBInv, OpsOrdered
    <3>4. p \in c.op .. e.op
      BY <1>1, <1>8, <1>10, <2>1, <3>1, <3>3 DEF OpIds
    <3>5. QED
      BY <1>7, <3>1, <3>4
  <2>5. QED
    BY <1>10, <2>2, <2>3, <2>4 DEF DBInv, LogAgrees
<1>13. QED
  BY <1>6, <1>11, <1>12

LEMMA RecordedImages ==
  ASSUME NEW d \in Database, DBInv(d), Imaged(d), d.cur.op # 0,
         NEW T, NEW s, NEW num, Numbering(num, T, s), Onto(num, T, s), NEW rows
  PROVE  Imaged(Recorded(d, s, num, rows))
<1> DEFINE o   == d.cur.op
           n   == num[s]
           row == Counted(Credited(d), n)
           k   == Stored(Credited(d), n)
           new == Images(d, num, rows, k)
           r   == Recorded(d, s, num, rows)
<1>1. /\ d.ops \in [OpIds -> OpRow] /\ d.log \in SUBSET Entry /\ d.seq \in Nat
      /\ o \in OpIds /\ n \in Nat \ {0} /\ Credited(d) \in OpRow
  BY CreditedType DEF Database, DBInv, CurrentOpen, Numbering
<1>2. /\ Credited(d).count = d.ops[o].count /\ (Credited(d).capped <=> d.ops[o].capped)
      /\ ~Credited(d).capped => Credited(d).count <= MaxRows
  BY <1>1 DEF DBInv, OpRowsSound, NoOp, Credited
<1>3. k \in 0 .. n
  BY <1>1, <1>2, CountedType
<1>4. IsFiniteSet(new) /\ Cardinality(new) = k
  BY <1>3, ImagesCount
<1>5. \A c \in new : c.op = o /\ c.seq > d.seq
  BY <1>1 DEF Images, Numbering
<1>6. /\ row.count = d.ops[o].count + n
      /\ row.capped <=> d.ops[o].capped \/ d.ops[o].count + n > MaxRows
  BY <1>2 DEF Counted
<1>7. k = IF d.ops[o].capped THEN 0
          ELSE IF d.ops[o].count + n > MaxRows THEN MaxRows - d.ops[o].count ELSE n
  BY <1>2 DEF Stored
<1> HIDE DEF row, k, new
<1>8. r.log = d.log \cup new /\ r.ops = [d.ops EXCEPT ![o] = row]
  BY DEF Recorded, row, k, new
<1> HIDE DEF r
<1>9. ASSUME NEW p \in OpIds, p # o
      PROVE  ChangesOf(r, p) = ChangesOf(d, p) /\ r.ops[p] = d.ops[p]
  BY <1>1, <1>5, <1>8, <1>9 DEF ChangesOf
<1>10. ChangesOf(r, o) = ChangesOf(d, o) \cup new /\ ChangesOf(d, o) \cap new = {}
  <2>1. \A c \in d.log : c.seq <= d.seq /\ c.seq \in Nat
    BY <1>1 DEF DBInv, LogOrdered, Entry
  <2>2. QED
    BY <1>1, <1>5, <1>8, <2>1 DEF ChangesOf
<1>11. /\ IsFiniteSet(ChangesOf(d, o))
       /\ Cardinality(ChangesOf(d, o)) = IF d.ops[o].capped THEN MaxRows ELSE d.ops[o].count
  BY <1>1 DEF Imaged
<1>12. /\ IsFiniteSet(ChangesOf(r, o))
       /\ Cardinality(ChangesOf(r, o)) = Cardinality(ChangesOf(d, o)) + k
  <2>1. Cardinality(ChangesOf(d, o)) \in Nat
    BY <1>11, FS_CardinalityType
  <2>2. Cardinality(ChangesOf(r, o)) = Cardinality(ChangesOf(d, o)) + Cardinality(new) - 0
        /\ IsFiniteSet(ChangesOf(r, o))
    BY <1>4, <1>10, <1>11, FS_Union, FS_EmptySet
  <2>3. QED
    BY <1>1, <1>3, <1>4, <2>1, <2>2
<1>13. d.ops[o].count \in Nat /\ MaxRows \in Nat /\ r.ops[o] = row
  BY <1>1, <1>8, ConstantsOK DEF OpRow
<1>14. Cardinality(ChangesOf(r, o)) = IF r.ops[o].capped THEN MaxRows ELSE r.ops[o].count
  <2>1. CASE d.ops[o].capped
    BY <1>6, <1>7, <1>11, <1>12, <1>13, <2>1
  <2>2. CASE ~d.ops[o].capped /\ d.ops[o].count + n > MaxRows
    BY <1>1, <1>6, <1>7, <1>11, <1>12, <1>13, <2>2
  <2>3. CASE ~d.ops[o].capped /\ ~(d.ops[o].count + n > MaxRows)
    BY <1>6, <1>7, <1>11, <1>12, <1>13, <2>3
  <2>4. QED
    BY <2>1, <2>2, <2>3
<1>15. QED
  BY <1>9, <1>12, <1>14 DEF Imaged, r

LEMMA CapturedHistory ==
  ASSUME NEW d \in Database, DBInv(d), History(d), d.cur.op # 0 \/ d.minted < MaxOps,
         NEW T, NEW s, NEW num, Numbering(num, T, s), Onto(num, T, s),
         NEW rows \in [Slots -> Content], \A x \in Slots \ T : rows[x] = d.rows[x]
  PROVE  History(Captured(d, s, num, rows))
<1> DEFINE e == Claimed(d)
<1>1. /\ e \in Database /\ DBInv(e) /\ e.cur.op # 0
      /\ e.rows = d.rows /\ e.ops = d.ops /\ e.log = d.log
  BY ClaimedInv
<1>2. Captured(d, s, num, rows) = Recorded(e, s, num, rows)
  BY DEF Captured
<1> HIDE DEF e
<1>3. Chained(e) /\ Imaged(e)
  BY <1>1 DEF History, Chained, Imaged, Consecutive, ChangesOf
<1>4. QED
  BY <1>1, <1>2, <1>3, RecordedChains, RecordedImages DEF History

LEMMA PutHistory ==
  ASSUME NEW d \in Database, DBInv(d), History(d), d.cur.op # 0 \/ d.minted < MaxOps,
         NEW s \in Slots, NEW v \in Content, NEW d2, Put(d, s, v, d2)
  PROVE  History(d2)
<1>1. Numbering([x \in {s} |-> 1], {s}, s) /\ Onto([x \in {s} |-> 1], {s}, s)
  BY DEF Numbering, Onto
<1>2. /\ [d.rows EXCEPT ![s] = v] \in [Slots -> Content]
      /\ \A x \in Slots \ {s} : [d.rows EXCEPT ![s] = v][x] = d.rows[x]
  BY DEF Database
<1>3. QED
  BY <1>1, <1>2, CapturedHistory DEF Put

LEMMA RemoveHistory ==
  ASSUME NEW d \in Database, DBInv(d), History(d), d.cur.op # 0 \/ d.minted < MaxOps,
         NEW s \in Slots, NEW d2, Remove(d, s, d2)
  PROVE  History(d2)
<1> DEFINE gone == {s} \cup (IF OnDelete = "cascade" THEN Children(d, s) ELSE {})
           rows == [x \in Slots |-> IF x \in gone THEN Absent ELSE d.rows[x]]
<1>1. gone \in SUBSET Slots /\ s \in gone
  BY DEF Children
<1>2. rows \in [Slots -> Content] /\ \A x \in Slots \ gone : rows[x] = d.rows[x]
  BY DEF Database, Content
<1> HIDE DEF gone
<1>3. PICK num \in FiringOrders(gone, s) : d2 = Captured(d, s, num, rows)
  BY DEF Remove, gone
<1>4. Numbering(num, gone, s) /\ Onto(num, gone, s)
  BY <1>1, FiringOrdersNumber, FiringOrdersFill
<1>5. QED
  BY <1>2, <1>3, <1>4, CapturedHistory

LEMMA UserWriteHistory ==
  ASSUME NEW d \in Database, DBInv(d), History(d), UserMayWrite(d), NEW d2, UserWrite(d, d2)
  PROVE  History(d2)
<1>1. d.cur.op # 0 \/ d.minted < MaxOps
  BY DEF UserMayWrite
<1>2. Vals \subseteq Content
  BY DEF Content
<1>3. QED
  BY <1>1, <1>2, PutHistory, RemoveHistory DEF UserWrite

LEMMA InverseHistory ==
  ASSUME NEW d \in Database, DBInv(d), History(d), d.cur.op # 0,
         NEW v \in Verdict, NEW d2, ApplyInverse(d, v, d2)
  PROVE  History(d2)
<1>1. v.change.slot \in Slots /\ v.change.before \in Content
  BY DEF Verdict, Entry
<1>2. ASSUME Put(d, v.change.slot, v.change.before, d2) PROVE History(d2)
  BY <1>1, <1>2, PutHistory
<1>3. ASSUME Remove(d, v.change.slot, d2) PROVE History(d2)
  BY <1>1, <1>3, RemoveHistory
<1>4. QED
  BY <1>2, <1>3 DEF ApplyInverse

\* Staging, clearing and marking write no change and count none.
LEMMA HistoryStays ==
  ASSUME NEW d, NEW d2, History(d), d2.log = d.log,
         \A p \in OpIds : d2.ops[p].capped = d.ops[p].capped /\ d2.ops[p].count = d.ops[p].count,
         \A c \in d.log : c.op \in OpIds
  PROVE  History(d2)
<1>1. Imaged(d2)
  BY DEF History, Imaged, ChangesOf
<1>2. Chained(d2)
  <2> SUFFICES ASSUME NEW c \in d.log, NEW e \in d.log, Consecutive(d, c, e)
               PROVE  c.after = e.before \/ \E p \in c.op .. e.op : d2.ops[p].capped
    BY DEF Chained, Consecutive
  <2>1. \A p \in c.op .. e.op : p \in OpIds
    BY ConstantsOK DEF OpIds
  <2>2. QED
    BY <2>1 DEF History, Chained
<1>3. QED
  BY <1>1, <1>2 DEF History

\* A purge takes whole operations, and with each all that came before it.
LEMMA PurgedHistory ==
  ASSUME NEW d \in Database, DBInv(d), History(d), NEW k \in 2 .. MaxOps + 1
  PROVE  History(Purged(d, k))
<1> DEFINE ops == [o \in OpIds |-> IF o < k THEN NoOp ELSE d.ops[o]]
           log == {c \in d.log : c.op >= k}
           r   == Purged(d, k)
<1>1. /\ d.log \in SUBSET Entry /\ k \in Nat
      /\ \A c \in d.log : c.op \in OpIds /\ c.op \in Nat /\ c.seq \in Nat
  BY ConstantsOK DEF Database, Entry, OpIds
<1>2. \A p \in OpIds : ops[p] = IF p < k THEN NoOp ELSE d.ops[p]
  OBVIOUS
<1>3. \A c : c \in log <=> c \in d.log /\ c.op >= k
  OBVIOUS
<1>4. r = [d EXCEPT !.ops = ops, !.log = log]
  BY DEF Purged
<1> HIDE DEF ops, log, r
<1>5. r.ops = ops /\ r.log = log
  BY <1>4 DEF Database
<1>6. Imaged(r)
  <2> SUFFICES ASSUME NEW o \in OpIds
               PROVE  /\ IsFiniteSet(ChangesOf(r, o))
                      /\ Cardinality(ChangesOf(r, o)) = IF r.ops[o].capped THEN MaxRows ELSE r.ops[o].count
    BY DEF Imaged
  <2>1. CASE o < k
    <3>1. ChangesOf(r, o) = {}
      BY <1>1, <1>3, <1>5, <2>1 DEF ChangesOf, OpIds
    <3>2. r.ops[o] = NoOp
      BY <1>2, <1>5, <2>1
    <3>3. QED
      BY <3>1, <3>2, FS_EmptySet DEF NoOp
  <2>2. CASE ~(o < k)
    <3>1. ChangesOf(r, o) = ChangesOf(d, o)
      BY <1>1, <1>3, <1>5, <2>2 DEF ChangesOf, OpIds
    <3>2. r.ops[o] = d.ops[o]
      BY <1>2, <1>5, <2>2
    <3>3. QED
      BY <3>1, <3>2 DEF History, Imaged
  <2>3. QED
    BY <2>1, <2>2
<1>7. Chained(r)
  <2> SUFFICES ASSUME NEW c \in r.log, NEW e \in r.log, Consecutive(r, c, e)
               PROVE  c.after = e.before \/ \E p \in c.op .. e.op : r.ops[p].capped
    BY DEF Chained
  <2>1. /\ c \in d.log /\ e \in d.log /\ c.op >= k /\ c.slot = e.slot /\ c.seq < e.seq
        /\ \A f \in r.log : f.slot = c.slot => f.seq <= c.seq \/ e.seq <= f.seq
    BY <1>3, <1>5 DEF Consecutive
  <2>2. Consecutive(d, c, e)
    <3> SUFFICES ASSUME NEW f \in d.log, f.slot = c.slot, ~(f.seq <= c.seq)
                 PROVE  e.seq <= f.seq
      BY <2>1 DEF Consecutive
    <3>1. c.op <= f.op
      BY <1>1, <2>1 DEF DBInv, LogOrdered
    <3>2. f \in r.log
      BY <1>1, <1>3, <1>5, <2>1, <3>1
    <3>3. QED
      BY <2>1, <3>2
  <2>3. \A p \in c.op .. e.op : p \in OpIds /\ r.ops[p] = d.ops[p]
    BY <1>1, <1>2, <1>5, <2>1, ConstantsOK DEF OpIds
  <2>4. QED
    BY <2>1, <2>2, <2>3 DEF History, Chained
<1>8. QED
  BY <1>6, <1>7 DEF History, r

HistoryInv == History(db) /\ History(work)

LEMMA InitHistory == Init => HistoryInv
<1> SUFFICES ASSUME Init PROVE HistoryInv
  OBVIOUS
<1>1. db.log = {} /\ db.ops = [o \in OpIds |-> NoOp] /\ work = db
  BY DEF Init
<1>2. \A o \in OpIds : ChangesOf(db, o) = {} /\ db.ops[o].count = 0 /\ ~db.ops[o].capped
  BY <1>1 DEF ChangesOf, NoOp
<1>3. QED
  BY <1>1, <1>2, FS_EmptySet DEF HistoryInv, History, Chained, Imaged

LEMMA ClearedHistory ==
  ASSUME NEW d \in Database, DBInv(d), History(d), NEW r, r = [d EXCEPT !.cur = NoCurrent]
  PROVE  History(r)
<1>1. r.ops = d.ops /\ r.log = d.log /\ \A c \in d.log : c.op \in OpIds
  BY ClearedInv DEF Database, Entry
<1>2. QED
  BY <1>1, HistoryStays

LEMMA StagedHistory ==
  ASSUME IInv, History(db), db.minted < MaxOps, NEW o \in 0 .. MaxOps
  PROVE  History(Staged(db, o))
<1>1. db \in Database /\ DBInv(db)
  BY DEF IInv, TypeOK
<1>2. Staged(db, o).ops = db.ops /\ Staged(db, o).log = db.log
  BY <1>1, StagedInv
<1>3. \A c \in db.log : c.op \in OpIds
  BY <1>1 DEF Database, Entry
<1>4. QED
  BY <1>2, <1>3, HistoryStays

LEMMA CommitHistory ==
  ASSUME IInv, HistoryInv, NEW s \in Sessions, ExecCommit(s) \/ UndoCommit(s)
  PROVE  HistoryInv'
<1>1. work \in Database /\ DBInv(work) /\ History(work) /\ \A c \in work.log : c.op \in OpIds
  BY DEF IInv, TypeOK, HistoryInv, Database, Entry
<1>2. CASE ExecCommit(s)
  BY <1>1, <1>2, ClearedHistory DEF ExecCommit, Publish, Autocommit, HistoryInv
<1>3. CASE UndoCommit(s)
  <2> DEFINE d == MarkedUndone(work, sess[s].op)
  <2>1. sess[s].op \in OpIds /\ work.cur.op # sess[s].op
    BY <1>3, UndoCommitMarks DEF UndoCommit
  <2>2. /\ d \in Database /\ DBInv(d) /\ d.log = work.log
        /\ \A p \in OpIds : d.ops[p].capped = work.ops[p].capped
        /\ \A p \in OpIds \ {sess[s].op} : d.ops[p] = work.ops[p]
    BY <1>1, <2>1, MarkedInv
  <2>3. d.ops[sess[s].op].count = work.ops[sess[s].op].count
    BY <1>1, <2>1 DEF MarkedUndone, Database, OpRow
  <2>4. Publish(d)
    BY <1>3 DEF UndoCommit
  <2> HIDE DEF d
  <2>5. History(d)
    BY <1>1, <2>1, <2>2, <2>3, HistoryStays
  <2>6. QED
    BY <2>2, <2>4, <2>5, ClearedHistory DEF Publish, Autocommit, HistoryInv
<1>4. QED
  BY <1>2, <1>3

LEMMA NextHistory == ASSUME IInv, HistoryInv, [Next]_vars PROVE HistoryInv'
<1>1. /\ db \in Database /\ DBInv(db) /\ History(db)
      /\ work \in Database /\ DBInv(work) /\ History(work) /\ sess \in [Sessions -> Session]
  BY DEF IInv, TypeOK, HistoryInv
<1>2. CASE UNCHANGED <<db, work>>
  BY <1>1, <1>2 DEF HistoryInv
<1>3. CASE ExternalWrite
  BY <1>1, <1>3, UserWriteHistory DEF ExternalWrite, HistoryInv
<1>4. ASSUME NEW s \in Sessions, Open(s) PROVE HistoryInv'
  BY <1>1, <1>4, ClearedHistory DEF Open, Autocommit, HistoryInv
<1>5. ASSUME NEW s \in Sessions, Purge(s) PROVE HistoryInv'
  BY <1>1, <1>5, PurgedHistory DEF Purge, Autocommit, HistoryInv
<1>6. ASSUME NEW s \in Sessions, ExecBegin(s) \/ UndoBegin(s) PROVE HistoryInv'
  <2>1. sess[s].op \in 0 .. MaxOps /\ 0 \in 0 .. MaxOps
    BY <1>1, ConstantsOK DEF Session
  <2>2. QED
    BY <1>1, <1>6, <2>1, StagedHistory DEF ExecBegin, UndoBegin, HistoryInv
<1>7. ASSUME NEW s \in Sessions, ExecWrite(s) PROVE HistoryInv'
  BY <1>1, <1>7, UserWriteHistory DEF ExecWrite, HistoryInv
<1>8. ASSUME NEW s \in Sessions, ApplyNext(s) PROVE HistoryInv'
  <2>1. PICK v \in sess[s].verdicts : ApplyInverse(work, v, work') /\ db' = db
    BY <1>8 DEF ApplyNext
  <2>2. v \in Verdict
    BY <1>1 DEF Session
  <2>3. work.cur.op # 0
    BY <1>1, <1>8, ConstantsOK DEF IInv, Locking, Free, InTransaction, Database, ApplyNext
  <2>4. QED
    BY <1>1, <2>1, <2>2, <2>3, InverseHistory DEF HistoryInv
<1>9. ASSUME NEW s \in Sessions, Close(s) \/ ExecRollback(s) \/ UndoAbort(s) PROVE HistoryInv'
  BY <1>1, <1>9 DEF Close, ExecRollback, UndoAbort, Rollback, HistoryInv
<1>10. ASSUME NEW s \in Sessions,
              ReadOperation(s) \/ ReadChanges(s) \/ Inspect(s) \/ Report(s)
       PROVE  UNCHANGED <<db, work>>
  BY <1>10 DEF ReadOperation, ReadChanges, Inspect, Report
<1>11. QED
  BY <1>2, <1>3, <1>4, <1>5, <1>6, <1>7, <1>8, <1>9, <1>10, CommitHistory
  DEF Next, SessionStep, Undoing, vars

THEOREM HistoryKept == Spec => []HistoryInv
BY InitHistory, NextHistory, Inductive, PTL DEF Spec

\* Each change of a row starts where the change before it stopped, unless a
\* capped operation stands between: for any statements, cascades, undos, outside
\* writers and purges, the history of a row has no silent gap.
THEOREM HistoryIsWhole == Spec => []HistoryChains
<1>1. HistoryInv => HistoryChains
  BY DEF HistoryInv, History, Chained, HistoryChains
<1>2. QED
  BY <1>1, HistoryKept, PTL

\* The counter in an operation's header is the number of images it has, up to
\* the limit and not beyond: what the header says of the log is exact.
THEOREM CountsAreExact == Spec => []CaptureIsAllOrCapped
<1>1. HistoryInv => CaptureIsAllOrCapped
  BY DEF HistoryInv, History, Imaged, CaptureIsAllOrCapped
<1>2. QED
  BY <1>1, HistoryKept, PTL

-----------------------------------------------------------------------------
(* What an undo nobody forced may touch.                                     *)

\* The rows the transaction has moved held what the operation left in them.
MovesOwnRows(s) ==
  \A x \in Slots : work.rows[x] # db.rows[x] =>
     \E c \in sess[s].changes : c.slot = x /\ c.after = db.rows[x]

\* A session judges the changes it read and, unless it was told to, applies
\* nothing to a row that had drifted.
Careful(s) ==
  /\ sess[s].pc = "reading" => sess[s].verdicts = {}
  /\ sess[s].pc \in {"inspecting", "applying"} =>
       \A v \in sess[s].verdicts : v.change \in sess[s].changes
  /\ sess[s].pc = "applying" /\ ~sess[s].allow =>
       /\ \A v \in sess[s].verdicts : v.status # "drifted"
       /\ MovesOwnRows(s)

LEMMA InverseTouches ==
  ASSUME OnDelete = "refuse", NEW d \in Database, NEW v \in Verdict, v.status # "drifted",
         NEW d2, ApplyInverse(d, v, d2)
  PROVE  \A x \in Slots : d2.rows[x] # d.rows[x] =>
           x = v.change.slot /\ d.rows[x] = v.change.after
<1> DEFINE s == v.change.slot
<1>1. d.rows \in [Slots -> Content] /\ s \in Slots
  BY DEF Database, Verdict, Entry
<1>2. \A T, num, rows : Captured(d, T, num, rows).rows = rows
  BY DEF Captured, Recorded
<1>3. ASSUME Put(d, s, v.change.before, d2) \/ Remove(d, s, d2)
      PROVE  \A x \in Slots \ {s} : d2.rows[x] = d.rows[x]
  <2>1. CASE Put(d, s, v.change.before, d2)
    BY <1>1, <1>2, <2>1 DEF Put
  <2>2. CASE Remove(d, s, d2)
    <3>1. d2.rows = [x \in Slots |-> IF x \in {s} THEN Absent ELSE d.rows[x]]
      BY <1>2, <2>2 DEF Remove
    <3>2. QED
      BY <3>1
  <2>3. QED
    BY <1>3, <2>1, <2>2
<1>4. d2 = d \/ d.rows[s] = v.change.after
  BY DEF ApplyInverse, Collides, Matches, IsDelete
<1>5. d2 = d \/ Put(d, s, v.change.before, d2) \/ Remove(d, s, d2)
  BY DEF ApplyInverse
<1>6. QED
  BY <1>3, <1>4, <1>5

\* Where a session judges or applies nothing there is nothing to be careful of.
LEMMA OthersCareful ==
  ASSUME NEW s \in Sessions, Careful(s), sess'[s] = sess[s],
         sess[s].pc = "applying" => db'.rows = db.rows /\ work'.rows = work.rows
  PROVE  Careful(s)'
BY DEF Careful, MovesOwnRows

\* A session's step leaves the others as they are, and what the holder of the
\* write lock sees.
LEMMA OthersWait ==
  ASSUME IInv, NEW t \in Sessions, SessionStep(t), NEW s \in Sessions, s # t
  PROVE  sess'[s] = sess[s] /\ (writer = s => db' = db /\ work' = work)
<1>1. /\ sess \in [Sessions -> Session]
      /\ \A r \in Sessions : sess[r].pc \in {"running", "applying"} <=> writer = r
  BY DEF IInv, TypeOK, Locking
<1>2. sess'[s] = sess[s]
  BY <1>1 DEF SessionStep, Undoing, Goto, Open, Close, Purge, ExecBegin, ExecWrite,
     ExecCommit, ExecRollback, ReadOperation, ReadChanges, Inspect, Report, UndoBegin,
     ApplyNext, UndoCommit, UndoAbort
<1>3. ASSUME writer = s PROVE db' = db /\ work' = work
  <2>1. ~Free /\ writer # t /\ sess[t].pc \notin {"running", "applying"}
    BY <1>1, <1>3, ConstantsOK DEF Free
  <2>2. QED
    BY <2>1 DEF SessionStep, Undoing, Open, Close, Purge, ExecBegin, ExecWrite,
       ExecCommit, ExecRollback, ReadOperation, ReadChanges, Inspect, Report, UndoBegin,
       ApplyNext, UndoCommit, UndoAbort
<1>4. QED
  BY <1>2, <1>3

LEMMA CarefulNext ==
  ASSUME OnDelete = "refuse", IInv, \A s \in Sessions : Careful(s), [Next]_vars
  PROVE  \A s \in Sessions : Careful(s)'
<1>1. /\ sess \in [Sessions -> Session] /\ db \in Database /\ work \in Database
      /\ \A s \in Sessions : sess[s].pc \in {"running", "applying"} <=> writer = s
  BY DEF IInv, TypeOK, Locking
<1>2. CASE ExternalWrite
  BY <1>1, <1>2, OthersCareful, ConstantsOK DEF ExternalWrite, Free
<1>3. CASE UNCHANGED vars
  BY <1>3, OthersCareful DEF vars
<1>4. ASSUME NEW t \in Sessions, SessionStep(t) PROVE \A s \in Sessions : Careful(s)'
  <2>1. ASSUME NEW s \in Sessions, s # t PROVE Careful(s)'
    BY <1>1, <1>4, <2>1, OthersWait, OthersCareful
  <2>2. ASSUME sess'[t].pc \in {"closed", "idle", "running"} PROVE Careful(t)'
    BY <2>2 DEF Careful
  <2>3. ASSUME ReadOperation(t) PROVE Careful(t)'
    BY <1>1, <2>3 DEF ReadOperation, Careful
  <2>4. ASSUME ReadChanges(t) PROVE Careful(t)'
    <3>1. sess'[t].pc = "inspecting" /\ sess'[t].verdicts = sess[t].verdicts
      BY <1>1, <2>4 DEF ReadChanges, Session
    <3>2. QED
      BY <1>4, <2>4, <3>1 DEF ReadChanges, Careful
  <2>5. ASSUME Inspect(t) PROVE Careful(t)'
    <3>1. PICK c \in sess[t].changes :
            sess' = [sess EXCEPT ![t].verdicts = @ \cup
                      {[change |-> c, current |-> db.rows[c.slot],
                        status |-> StatusOf(sess[t].changes, c, db.rows[c.slot])]}]
      BY <2>5 DEF Inspect
    <3> DEFINE v == [change |-> c, current |-> db.rows[c.slot],
                     status |-> StatusOf(sess[t].changes, c, db.rows[c.slot])]
    <3>2. v.change = c
      OBVIOUS
    <3> HIDE DEF v
    <3>3. sess' = [sess EXCEPT ![t] = [sess[t] EXCEPT !.verdicts = sess[t].verdicts \cup {v}]]
      BY <1>1, <3>1 DEF v
    <3>4. /\ sess'[t].pc = "inspecting" /\ sess'[t].changes = sess[t].changes
          /\ sess'[t].verdicts = sess[t].verdicts \cup {v}
      BY <1>1, <2>5, <3>3 DEF Inspect, Session
    <3>5. QED
      BY <2>5, <3>2, <3>4 DEF Inspect, Careful
  <2>6. ASSUME UndoBegin(t) PROVE Careful(t)'
    <3> DEFINE V == {v \in sess[t].verdicts : v.status \in {"clean", "drifted"}}
    <3>1. sess' = [sess EXCEPT ![t] = [[sess[t] EXCEPT !.pc = "applying"] EXCEPT !.verdicts = V]]
      BY <1>1, <2>6 DEF UndoBegin, Session
    <3>2. \A v \in V : v \in sess[t].verdicts
      OBVIOUS
    <3>3. sess[t].allow \/ \A v \in V : v.status # "drifted"
      BY <2>6 DEF UndoBegin, Undoable, Conflicts
    <3> HIDE DEF V
    <3>4. /\ sess'[t].changes = sess[t].changes /\ sess'[t].verdicts = V
          /\ sess'[t].allow = sess[t].allow
      BY <1>1, <3>1 DEF Session
    <3>5. db' = db /\ work'.rows = db.rows
      BY <1>1, <2>6, StagedInv DEF UndoBegin, IInv, Staged, Database
    <3>6. sess[t].pc = "inspecting" /\ sess'[t].pc = "applying"
      BY <1>1, <2>6, <3>1 DEF UndoBegin, Assessed, Session
    <3>7. QED
      BY <3>2, <3>3, <3>4, <3>5, <3>6 DEF Careful, MovesOwnRows
  <2>7. ASSUME ApplyNext(t) PROVE Careful(t)'
    <3>1. PICK v \in sess[t].verdicts :
            /\ ApplyInverse(work, v, work')
            /\ sess' = [sess EXCEPT ![t].verdicts = @ \ {v}]
            /\ db' = db /\ sess[t].pc = "applying"
      BY <2>7 DEF ApplyNext
    <3>2. v \in Verdict
      BY <1>1 DEF Session
    <3>3. sess' = [sess EXCEPT ![t] = [sess[t] EXCEPT !.verdicts = sess[t].verdicts \ {v}]]
      BY <3>1
    <3>4. /\ sess'[t].changes = sess[t].changes /\ sess'[t].verdicts = sess[t].verdicts \ {v}
          /\ sess'[t].allow = sess[t].allow /\ sess'[t].pc = "applying"
      BY <1>1, <3>1, <3>3 DEF Session
    <3>5. CASE ~sess[t].allow
      <4>1. v.status # "drifted" /\ MovesOwnRows(t) /\ v.change \in sess[t].changes
        BY <3>1, <3>5 DEF Careful
      <4>2. \A x \in Slots : work'.rows[x] # work.rows[x] =>
              x = v.change.slot /\ work.rows[x] = v.change.after
        BY <1>1, <3>1, <3>2, <4>1, InverseTouches
      <4>3. MovesOwnRows(t)'
        BY <3>1, <3>4, <4>1, <4>2 DEF MovesOwnRows
      <4>4. QED
        BY <3>1, <3>4, <4>3 DEF Careful
    <3>6. CASE sess[t].allow
      BY <3>1, <3>4, <3>6 DEF Careful
    <3>7. QED
      BY <3>5, <3>6
  <2>8. ASSUME sess' = sess /\ (Purge(t) \/ ExecWrite(t)) PROVE Careful(t)'
    BY <1>1, <2>8 DEF Purge, ExecWrite, Careful
  <2>9. Careful(t)'
    <3>1. ASSUME Open(t) \/ Close(t) \/ ExecBegin(t) \/ ExecCommit(t) \/ ExecRollback(t)
                 \/ Report(t) \/ UndoCommit(t) \/ UndoAbort(t)
          PROVE  sess'[t].pc \in {"closed", "idle", "running"}
      BY <1>1, <3>1, RestingTyped DEF Open, Close, ExecBegin, ExecCommit, ExecRollback, Report,
         UndoCommit, UndoAbort, Goto, Session
    <3>2. QED
      BY <1>4, <2>2, <2>3, <2>4, <2>5, <2>6, <2>7, <2>8, <3>1
      DEF SessionStep, Undoing, Purge, ExecWrite
  <2>10. QED
    BY <2>1, <2>9
<1>5. QED
  BY <1>2, <1>3, <1>4 DEF Next

LEMMA UndoCommitRows ==
  ASSUME IInv, NEW s \in Sessions, UndoCommit(s)
  PROVE  db'.rows = work.rows
<1> DEFINE d == MarkedUndone(work, sess[s].op)
<1>1. /\ d \in Database /\ DBInv(d) /\ d.rows = work.rows
  BY UndoCommitMarks, MarkedInv DEF IInv, TypeOK, UndoCommit
<1>2. db' = [d EXCEPT !.cur = NoCurrent]
  BY DEF UndoCommit, Publish, Autocommit
<1> HIDE DEF d
<1>3. QED
  BY <1>1, <1>2, ClearedInv

LEMMA UndoCommittedIsUndoCommit ==
  ASSUME IInv, [Next]_vars, NEW s \in Sessions, UndoCommitted(s)
  PROVE  UndoCommit(s)
<1>1. /\ sess \in [Sessions -> Session] /\ writer = s
      /\ sess[s].pc = "applying" /\ sess'[s].pc = "idle" /\ db' # db
  BY DEF UndoCommitted, IInv, TypeOK, Locking
<1>2. ~Free
  BY <1>1, ConstantsOK DEF Free
<1>3. PICK t \in Sessions : SessionStep(t)
  BY <1>1, <1>2 DEF Next, ExternalWrite, vars
<1>4. ExecCommit(t) \/ UndoCommit(t)
  BY <1>1, <1>2, <1>3 DEF SessionStep, Undoing, Open, Close, Purge, ExecBegin, ExecWrite,
     ExecRollback, ReadOperation, ReadChanges, Inspect, Report, UndoBegin, ApplyNext,
     UndoAbort, Rollback
<1>5. t = s
  BY <1>1, <1>4 DEF IInv, Locking, ExecCommit, UndoCommit
<1>6. QED
  BY <1>1, <1>4, <1>5 DEF ExecCommit

\* Where foreign keys do not cascade, an undo nobody forced changes a row only
\* if, at its commit, the row still holds what the operation wrote there: edits
\* made before or after it was assessed survive it.
THEOREM OthersAreSpared == OnDelete = "refuse" => (Spec => UndoSparesOthers)
<1> SUFFICES ASSUME OnDelete = "refuse" PROVE Spec => UndoSparesOthers
  OBVIOUS
<1> DEFINE AllCareful == \A s \in Sessions : Careful(s)
           Spares ==
             \A s \in Sessions : UndoCommitted(s) /\ ~sess[s].allow =>
               \A x \in Slots : db'.rows[x] # db.rows[x] =>
                 \E c \in sess[s].changes : c.slot = x /\ c.after = db.rows[x]
<1>1. Init => AllCareful
  BY RestingTyped DEF Init, Careful
<1>2. IInv /\ AllCareful /\ [Next]_vars => AllCareful'
  BY CarefulNext
<1>3. ASSUME IInv, AllCareful, [Next]_vars PROVE Spares
  <2> SUFFICES ASSUME NEW s \in Sessions, UndoCommitted(s), ~sess[s].allow
               PROVE  \A x \in Slots : db'.rows[x] # db.rows[x] =>
                        \E c \in sess[s].changes : c.slot = x /\ c.after = db.rows[x]
    OBVIOUS
  <2>1. sess \in [Sessions -> Session] /\ sess[s].pc = "applying" /\ sess'[s].pc = "idle" /\ db' # db
    BY <1>3 DEF UndoCommitted, IInv, TypeOK
  <2>2. UndoCommit(s)
    BY <1>3, UndoCommittedIsUndoCommit
  <2>3. MovesOwnRows(s)
    BY <1>3, <2>1 DEF Careful
  <2>4. QED
    BY <1>3, <2>2, <2>3, UndoCommitRows DEF MovesOwnRows
<1>4. IInv /\ AllCareful /\ [Next]_vars => [Spares]_vars
  BY <1>3
<1> HIDE DEF AllCareful
<1>5. QED
  BY <1>1, <1>2, <1>4, Inductive, PTL DEF Spec, UndoSparesOthers

-----------------------------------------------------------------------------
(* What a row write adds to the log.                                         *)

\* d2 is d after the rows in T were written: what was stored of them is what
\* they held and what they hold, and all of it was unless the limit was hit.
Stores(d, T, d2) ==
  /\ \A c \in d2.log \ d.log :
       /\ c.op = d2.cur.op /\ c.slot \in T /\ d.seq < c.seq
       /\ c.before = d.rows[c.slot] /\ c.after = d2.rows[c.slot]
  /\ ~d2.ops[d2.cur.op].capped => \A x \in T : \E c \in d2.log \ d.log : c.slot = x
  /\ \A o \in OpIds : d.ops[o].capped => d2.ops[o].capped
  /\ d.cur.op = 0 => \A c \in d.log : c.op # d2.cur.op
  /\ \A x \in Slots \ T : d2.rows[x] = d.rows[x]

LEMMA RecordedStores ==
  ASSUME NEW d \in Database, DBInv(d), d.cur.op # 0,
         NEW T, NEW s, NEW num, Numbering(num, T, s),
         NEW rows \in [Slots -> Content], \A x \in Slots \ T : rows[x] = d.rows[x]
  PROVE  Stores(d, T, Recorded(d, s, num, rows))
<1> DEFINE r   == Recorded(d, s, num, rows)
           k   == Stored(Credited(d), num[s])
           new == Images(d, num, rows, k)
<1>1. /\ d.seq \in Nat /\ d.ops \in [OpIds -> OpRow] /\ d.cur.op \in OpIds
      /\ num[s] \in Nat \ {0} /\ DOMAIN num = T
  BY CreditedType DEF Database, DBInv, CurrentOpen, Numbering
<1>2. Credited(d) \in OpRow /\ ~Credited(d).capped => Credited(d).count <= MaxRows
  BY <1>1, CreditedType, ConstantsOK DEF DBInv, CurrentOpen, OpRowsSound, Credited
<1>3. /\ k \in 0 .. num[s]
      /\ ~Counted(Credited(d), num[s]).capped => k = num[s]
  BY <1>1, <1>2, CountedType, CreditedType DEF DBInv, CurrentOpen
<1>4. /\ r.log = d.log \cup new /\ r.cur = d.cur /\ r.rows = rows
      /\ r.ops = [d.ops EXCEPT ![d.cur.op] = Counted(Credited(d), num[s])]
  BY DEF Recorded
<1>5. \A c \in new : /\ c.op = d.cur.op /\ c.slot \in T /\ d.seq < c.seq
                     /\ c.before = d.rows[c.slot] /\ c.after = rows[c.slot]
  BY <1>1 DEF Images, Numbering
<1>6. ASSUME k = num[s], NEW x \in T PROVE \E c \in new : c.slot = x
  <2> DEFINE c == [seq |-> d.seq + num[x], op |-> d.cur.op, slot |-> x,
                   before |-> d.rows[x], after |-> rows[x]]
  <2>1. x \in {y \in DOMAIN num : num[y] <= k}
    BY <1>1, <1>6 DEF Numbering
  <2>2. c \in new /\ c.slot = x
    BY <2>1 DEF Images
  <2>3. QED
    BY <2>2
<1>7. \A c \in d.log : c.seq \in Nat /\ c.seq <= d.seq
  BY DEF Database, Entry, DBInv, LogOrdered
<1>8. \A o \in OpIds : d.ops[o].capped => r.ops[o].capped
  <2>1. d.ops[d.cur.op].capped => Counted(Credited(d), num[s]).capped
    <3>1. CASE Exists(d, d.cur.op)
      BY <3>1 DEF Credited, Counted
    <3>2. CASE ~Exists(d, d.cur.op)
      BY <1>1, <3>2 DEF DBInv, OpRowsSound, NoOp
    <3>3. QED
      BY <3>1, <3>2
  <2>2. QED
    BY <1>1, <1>4, <2>1
<1> HIDE DEF k, new
<1>9. \A c \in new : c \in r.log \ d.log
  BY <1>1, <1>4, <1>5, <1>7
<1>10. r.ops[r.cur.op] = Counted(Credited(d), num[s])
  BY <1>1, <1>4
<1> HIDE DEF r
<1>11. QED
  BY <1>1, <1>3, <1>4, <1>5, <1>6, <1>8, <1>9, <1>10, ConstantsOK DEF Stores, r

LEMMA CapturedStores ==
  ASSUME NEW d \in Database, DBInv(d), d.cur.op # 0 \/ d.minted < MaxOps,
         NEW T, NEW s, NEW num, Numbering(num, T, s),
         NEW rows \in [Slots -> Content], \A x \in Slots \ T : rows[x] = d.rows[x]
  PROVE  Stores(d, T, Captured(d, s, num, rows)) /\ Captured(d, s, num, rows).rows = rows
<1> DEFINE e == Claimed(d)
           r == Captured(d, s, num, rows)
<1>1. /\ e \in Database /\ DBInv(e) /\ e.cur.op # 0
      /\ e.rows = d.rows /\ e.ops = d.ops /\ e.log = d.log /\ e.seq = d.seq
      /\ d.cur.op = 0 => ~Exists(d, e.cur.op)
  BY ClaimedInv
<1>2. r = Recorded(e, s, num, rows)
  BY DEF Captured
<1>3. r.rows = rows /\ r.cur = e.cur
  BY <1>2 DEF Recorded
<1>4. \A c \in d.log : Exists(d, c.op)
  BY DEF DBInv, LogOrdered
<1> HIDE DEF e, r
<1>5. Stores(e, T, r)
  BY <1>1, <1>2, RecordedStores
<1>6. QED
  BY <1>1, <1>3, <1>4, <1>5 DEF Stores, r

LEMMA PutStores ==
  ASSUME NEW d \in Database, DBInv(d), d.cur.op # 0 \/ d.minted < MaxOps,
         NEW s \in Slots, NEW v \in Content, NEW d2, Put(d, s, v, d2)
  PROVE  Stores(d, {s}, d2) /\ d2.rows[s] = v
<1>1. Numbering([x \in {s} |-> 1], {s}, s)
  BY DEF Numbering
<1>2. /\ [d.rows EXCEPT ![s] = v] \in [Slots -> Content]
      /\ \A x \in Slots \ {s} : [d.rows EXCEPT ![s] = v][x] = d.rows[x]
      /\ [d.rows EXCEPT ![s] = v][s] = v
  BY DEF Database
<1>3. QED
  BY <1>1, <1>2, CapturedStores DEF Put

\* The rows that go when s does.
Gone(d, s) == {s} \cup (IF OnDelete = "cascade" THEN Children(d, s) ELSE {})

LEMMA RemoveStores ==
  ASSUME NEW d \in Database, DBInv(d), d.cur.op # 0 \/ d.minted < MaxOps,
         NEW s \in Slots, NEW d2, Remove(d, s, d2)
  PROVE  Stores(d, Gone(d, s), d2) /\ \A x \in Gone(d, s) : d2.rows[x] = Absent
<1> DEFINE rows == [x \in Slots |-> IF x \in Gone(d, s) THEN Absent ELSE d.rows[x]]
<1>1. Gone(d, s) \in SUBSET Slots /\ s \in Gone(d, s)
  BY DEF Children, Gone
<1>2. rows \in [Slots -> Content] /\ \A x \in Slots \ Gone(d, s) : rows[x] = d.rows[x]
  BY DEF Database, Content
<1>3. PICK num \in FiringOrders(Gone(d, s), s) : d2 = Captured(d, s, num, rows)
  BY DEF Remove, Gone
<1>4. Numbering(num, Gone(d, s), s)
  BY <1>1, FiringOrdersNumber
<1>5. \A x \in Gone(d, s) : rows[x] = Absent
  BY <1>1
<1> HIDE DEF rows
<1>6. QED
  BY <1>2, <1>3, <1>4, <1>5, CapturedStores

-----------------------------------------------------------------------------
(* What an operation's changes say of each other.                            *)

IsUpdate(c) == ~IsInsert(c) /\ ~IsDelete(c)

\* An operation that inserted the row i is about found no child of it: a child
\* it updated it also wrote at another time, and one it did not write is absent
\* while it lasts.
Parented(d, i) ==
  /\ \A u \in d.log : u.op = i.op /\ Parent[u.slot] = i.slot /\ IsUpdate(u) =>
       \E w \in d.log : w.op = u.op /\ w.slot = u.slot /\ w # u
  /\ i.op = d.cur.op =>
       \A x \in Slots : Parent[x] = i.slot /\ (\A w \in d.log : w.op = i.op => w.slot # x)
          => d.rows[x] = Absent

\* No change has two empty images; where foreign keys cascade, inserted rows
\* came without children.
Lineage(d) ==
  /\ \A c \in d.log : ~(IsInsert(c) /\ IsDelete(c))
  /\ OnDelete = "cascade" =>
       \A i \in d.log : IsInsert(i) /\ ~d.ops[i.op].capped => Parented(d, i)

Childless(d, s) == \A x \in Slots : Parent[x] = s => d.rows[x] = Absent

\* While the operation at work is not capped, the last change of a row is what
\* the row holds.
LEMMA CurrentTold ==
  ASSUME NEW d \in Database, DBInv(d), NEW u \in d.log, u.op = d.cur.op,
         ~d.ops[u.op].capped, Newest(d, u)
  PROVE  d.rows[u.slot] = u.after
<1>1. u.op \in OpIds /\ d.cur.op # 0
  BY ConstantsOK DEF Database, Entry, OpIds
<1>2. ASSUME NEW p \in OpIds, p >= u.op, d.ops[p].capped PROVE FALSE
  <2>1. Exists(d, p)
    BY <1>2 DEF DBInv, OpRowsSound, NoOp
  <2>2. p <= u.op
    BY <1>1, <2>1 DEF DBInv, OpsOrdered
  <2>3. p = u.op
    BY <1>1, <1>2, <2>2 DEF OpIds
  <2>4. QED
    BY <1>2, <2>3
<1>3. QED
  BY <1>2 DEF DBInv, LogAgrees, CappedSince

LEMMA StoresLineage ==
  ASSUME NEW d \in Database, DBInv(d), Lineage(d), NEW T \in SUBSET Slots, NEW d2,
         Writes(d, d2), Stores(d, T, d2),
         \A x \in T : ~(d.rows[x] = Absent /\ d2.rows[x] = Absent),
         OnDelete = "cascade" =>
           \A s \in T : d.rows[s] = Absent =>
              Childless(d, s) /\ \A x \in T : Parent[x] # s
  PROVE  Lineage(d2)
<1>1. /\ d2 \in Database /\ DBInv(d2) /\ d.log \subseteq d2.log
      /\ d2.cur.op # 0
      /\ d.cur.op # 0 => d2.cur = d.cur
      /\ \A o \in OpIds \ {d2.cur.op} : d2.ops[o] = d.ops[o]
  BY DEF Writes, Appends
<1>2. /\ \A c \in d2.log \ d.log :
           /\ c.op = d2.cur.op /\ c.slot \in T /\ d.seq < c.seq
           /\ c.before = d.rows[c.slot] /\ c.after = d2.rows[c.slot]
      /\ ~d2.ops[d2.cur.op].capped => \A x \in T : \E c \in d2.log \ d.log : c.slot = x
      /\ \A o \in OpIds : d.ops[o].capped => d2.ops[o].capped
      /\ d.cur.op = 0 => \A c \in d.log : c.op # d2.cur.op
      /\ \A x \in Slots \ T : d2.rows[x] = d.rows[x]
  BY DEF Stores
<1>3. \A c \in d2.log : c.op \in OpIds /\ c.slot \in Slots /\ c.seq \in Nat
  BY <1>1 DEF Database, Entry
<1>4. \A c \in d2.log : ~(IsInsert(c) /\ IsDelete(c))
  BY <1>2, <1>3 DEF Lineage, IsInsert, IsDelete
<1>5. ASSUME OnDelete = "cascade", NEW i \in d2.log, IsInsert(i), ~d2.ops[i.op].capped
      PROVE  Parented(d2, i)
  <2>1. i \in d.log => Parented(d, i)
    BY <1>2, <1>3, <1>5 DEF Lineage
  <2>2. i \notin d.log => i.slot \in T /\ d.rows[i.slot] = Absent /\ i.op = d2.cur.op
    BY <1>2, <1>5 DEF IsInsert
  <2>3. i \notin d.log => Childless(d, i.slot) /\ \A x \in T : Parent[x] # i.slot
    BY <1>5, <2>2
  <2>4. ASSUME NEW u \in d2.log, u.op = i.op, Parent[u.slot] = i.slot, IsUpdate(u)
        PROVE  \E w \in d2.log : w.op = u.op /\ w.slot = u.slot /\ w # u
    <3>1. CASE i \in d.log /\ u \in d.log
      BY <1>1, <2>1, <2>4, <3>1 DEF Parented
    <3>2. CASE i \in d.log /\ u \notin d.log
      <4>1. i.op = d.cur.op /\ d.rows[u.slot] # Absent
        BY <1>1, <1>2, <2>4, <3>2 DEF IsUpdate, IsInsert
      <4>2. \E w \in d.log : w.op = i.op /\ w.slot = u.slot
        BY <1>3, <2>1, <2>4, <3>2, <4>1 DEF Parented
      <4>3. QED
        BY <1>1, <2>4, <3>2, <4>2
    <3>3. CASE i \notin d.log /\ u \notin d.log
      BY <1>2, <2>3, <2>4, <3>3
    <3>4. CASE i \notin d.log /\ u \in d.log
      <4>1. u.op = d.cur.op /\ d.cur.op # 0 /\ ~d.ops[u.op].capped
        <5>1. u.op = d2.cur.op /\ d.cur.op # 0
          BY <1>2, <2>2, <2>4, <3>4
        <5>2. QED
          BY <1>1, <1>2, <1>3, <1>5, <2>4, <5>1
      <4>2. d.rows[u.slot] # u.after
        BY <1>3, <2>3, <2>4, <3>4 DEF Childless, IsUpdate, IsDelete
      <4>3. ~Newest(d, u)
        BY <3>4, <4>1, <4>2, CurrentTold
      <4>4. PICK w \in d.log : w.slot = u.slot /\ ~(w.seq <= u.seq)
        BY <4>3 DEF Newest
      <4>5. w.op >= u.op /\ w.op <= d.cur.op /\ w.op \in OpIds
        <5>1. u.seq < w.seq /\ w.op \in OpIds /\ u.op \in OpIds
          BY <1>1, <1>3, <4>4
        <5>2. Exists(d, w.op) /\ u.op <= w.op
          BY <3>4, <4>4, <5>1 DEF DBInv, LogOrdered
        <5>3. w.op <= d.cur.op
          BY <4>1, <5>1, <5>2 DEF DBInv, OpsOrdered
        <5>4. QED
          BY <5>1, <5>2, <5>3 DEF OpIds
      <4>6. w.op = u.op
        BY <4>1, <4>5, <1>3, <3>4 DEF OpIds
      <4>7. w # u
        BY <1>3, <4>4
      <4>8. QED
        BY <1>1, <4>4, <4>6, <4>7
    <3>5. QED
      BY <3>1, <3>2, <3>3, <3>4
  <2>5. ASSUME i.op = d2.cur.op, NEW x \in Slots, Parent[x] = i.slot,
               \A w \in d2.log : w.op = i.op => w.slot # x
        PROVE  d2.rows[x] = Absent
    <3>1. x \notin T
      BY <1>2, <1>5, <2>5
    <3>2. d2.rows[x] = d.rows[x]
      BY <1>2, <3>1
    <3>3. CASE i \in d.log
      <4>1. i.op = d.cur.op
        BY <1>1, <1>2, <2>5, <3>3
      <4>2. QED
        BY <1>1, <2>1, <2>5, <3>2, <3>3, <4>1 DEF Parented
    <3>4. CASE i \notin d.log
      BY <2>3, <2>5, <3>2, <3>4 DEF Childless
    <3>5. QED
      BY <3>3, <3>4
  <2>6. QED
    BY <2>4, <2>5 DEF Parented
<1>6. QED
  BY <1>4, <1>5 DEF Lineage

LEMMA TwoLevels ==
  /\ \A s \in Slots : s # NoSlot /\ Parent[s] \in Slots \cup {NoSlot} /\ Parent[s] # s
  /\ \A s, x \in Slots : Parent[x] = s => Parent[s] = NoSlot
BY ConstantsOK

LEMMA PutLineage ==
  ASSUME NEW d \in Database, DBInv(d), Lineage(d), d.cur.op # 0 \/ d.minted < MaxOps,
         NEW s \in Slots, NEW v \in Content, NEW d2, Put(d, s, v, d2),
         ~(d.rows[s] = Absent /\ v = Absent),
         OnDelete = "cascade" /\ d.rows[s] = Absent => Childless(d, s)
  PROVE  Lineage(d2)
<1>1. Writes(d, d2)
  BY PutWrites
<1>2. Stores(d, {s}, d2) /\ d2.rows[s] = v
  BY PutStores
<1>3. \A x \in {s} : Parent[x] # s
  BY TwoLevels
<1>4. QED
  BY <1>1, <1>2, <1>3, StoresLineage

LEMMA RemoveLineage ==
  ASSUME NEW d \in Database, DBInv(d), Lineage(d), d.cur.op # 0 \/ d.minted < MaxOps,
         NEW s \in Slots, NEW d2, Remove(d, s, d2), d.rows[s] # Absent
  PROVE  Lineage(d2)
<1>1. Writes(d, d2) /\ Stores(d, Gone(d, s), d2)
  BY RemoveWrites, RemoveStores
<1>2. Gone(d, s) \in SUBSET Slots /\ \A x \in Gone(d, s) : d.rows[x] # Absent
  BY DEF Gone, Children
<1>3. QED
  BY <1>1, <1>2, StoresLineage

LEMMA PutRefers ==
  ASSUME NEW d \in Database, DBInv(d), RefOK(d), d.cur.op # 0 \/ d.minted < MaxOps,
         NEW s \in Slots, NEW v \in Content, v # Absent, NEW d2, Put(d, s, v, d2),
         d.rows[s] # Absent \/ HasParent(d, s)
  PROVE  RefOK(d2)
<1>1. d2.rows[s] = v /\ \A x \in Slots \ {s} : d2.rows[x] = d.rows[x]
  BY PutStores DEF Stores
<1>2. HasParent(d, s)
  BY DEF RefOK
<1>3. SUFFICES ASSUME NEW y \in Slots, d2.rows[y] # Absent, Parent[y] # NoSlot
               PROVE  d2.rows[Parent[y]] # Absent
  BY DEF RefOK, HasParent
<1>4. d.rows[Parent[y]] # Absent /\ Parent[y] \in Slots
  BY <1>1, <1>2, <1>3, TwoLevels DEF RefOK, HasParent
<1>5. QED
  BY <1>1, <1>4

LEMMA RemoveRefers ==
  ASSUME OnDelete = "cascade", NEW d \in Database, DBInv(d), RefOK(d),
         d.cur.op # 0 \/ d.minted < MaxOps, NEW s \in Slots, NEW d2, Remove(d, s, d2)
  PROVE  RefOK(d2)
<1>1. /\ \A x \in Gone(d, s) : d2.rows[x] = Absent
      /\ \A x \in Slots \ Gone(d, s) : d2.rows[x] = d.rows[x]
  BY RemoveStores DEF Stores
<1>2. SUFFICES ASSUME NEW y \in Slots, d2.rows[y] # Absent, Parent[y] # NoSlot
               PROVE  d2.rows[Parent[y]] # Absent
  BY DEF RefOK, HasParent
<1>3. y \notin Gone(d, s) /\ d.rows[y] # Absent
  BY <1>1, <1>2
<1>4. d.rows[Parent[y]] # Absent /\ Parent[y] \in Slots /\ Parent[Parent[y]] = NoSlot
  BY <1>2, <1>3, TwoLevels DEF RefOK, HasParent
<1>5. Parent[y] \notin Gone(d, s)
  BY <1>3, <1>4, TwoLevels DEF Gone, Children
<1>6. QED
  BY <1>1, <1>4, <1>5

LEMMA RefersChildless ==
  ASSUME NEW d, RefOK(d), NEW s \in Slots, d.rows[s] = Absent
  PROVE  Childless(d, s)
BY TwoLevels DEF RefOK, HasParent, Childless

\* A database whose foreign keys hold where they cascade.
Kin(d) == Lineage(d) /\ (OnDelete = "cascade" => RefOK(d))

LEMMA UserWriteKin ==
  ASSUME NEW d \in Database, DBInv(d), Kin(d), UserMayWrite(d), NEW d2, UserWrite(d, d2)
  PROVE  Kin(d2)
<1>1. d.cur.op # 0 \/ d.minted < MaxOps
  BY DEF UserMayWrite
<1>2. Vals \subseteq Content /\ Absent \notin Vals
  BY ConstantsOK DEF Content
<1>3. PICK s \in Slots :
        \/ d.rows[s] = Absent /\ HasParent(d, s) /\ \E v \in Vals : Put(d, s, v, d2)
        \/ d.rows[s] # Absent /\ \E v \in Vals : Put(d, s, v, d2)
        \/ d.rows[s] # Absent /\ Remove(d, s, d2)
  BY DEF UserWrite
<1>4. OnDelete = "cascade" /\ d.rows[s] = Absent => Childless(d, s)
  BY RefersChildless DEF Kin
<1>5. ASSUME NEW v \in Vals, Put(d, s, v, d2), d.rows[s] # Absent \/ HasParent(d, s)
      PROVE  Kin(d2)
  BY <1>1, <1>2, <1>4, <1>5, PutLineage, PutRefers DEF Kin
<1>6. ASSUME Remove(d, s, d2), d.rows[s] # Absent PROVE Kin(d2)
  BY <1>1, <1>6, RemoveLineage, RemoveRefers DEF Kin
<1>7. QED
  BY <1>3, <1>5, <1>6

LEMMA InverseLineage ==
  ASSUME NEW d \in Database, DBInv(d), Lineage(d), d.cur.op # 0,
         NEW v \in Verdict, ~(IsInsert(v.change) /\ IsDelete(v.change)),
         OnDelete = "cascade" =>
           RefOK(d) \/ (IsDelete(v.change) => Parent[v.change.slot] # NoSlot),
         NEW d2, ApplyInverse(d, v, d2)
  PROVE  Lineage(d2)
<1> DEFINE x == v.change.slot
<1>1. x \in Slots /\ v.change.before \in Content
  BY DEF Verdict, Entry
<1>2. ASSUME IsDelete(v.change), OnDelete = "cascade", d.rows[x] = Absent PROVE Childless(d, x)
  BY <1>1, <1>2, RefersChildless, TwoLevels DEF Childless
<1>3. ASSUME IsDelete(v.change), ~Collides(d, v), Put(d, x, v.change.before, d2) PROVE Lineage(d2)
  BY <1>1, <1>2, <1>3, PutLineage DEF IsInsert
<1>4. ASSUME Matches(d, v), Put(d, x, v.change.before, d2) PROVE Lineage(d2)
  BY <1>1, <1>4, PutLineage DEF Matches
<1>5. ASSUME Matches(d, v), Remove(d, x, d2) PROVE Lineage(d2)
  BY <1>1, <1>5, RemoveLineage DEF Matches
<1>6. QED
  BY <1>3, <1>4, <1>5 DEF ApplyInverse

\* Only a child put back can be without its parent.
LEMMA InverseRefers ==
  ASSUME OnDelete = "cascade", NEW d \in Database, DBInv(d), RefOK(d), d.cur.op # 0,
         NEW v \in Verdict, ~(IsInsert(v.change) /\ IsDelete(v.change)),
         NEW d2, ApplyInverse(d, v, d2)
  PROVE  RefOK(d2) \/ (IsDelete(v.change) /\ Parent[v.change.slot] # NoSlot)
<1> DEFINE x == v.change.slot
<1>1. x \in Slots /\ v.change.before \in Content
  BY DEF Verdict, Entry
<1>2. ASSUME IsDelete(v.change), Parent[x] = NoSlot, Put(d, x, v.change.before, d2) PROVE RefOK(d2)
  <2>1. HasParent(d, x)
    BY <1>2 DEF HasParent
  <2>2. QED
    BY <1>1, <1>2, <2>1, PutRefers DEF IsInsert
<1>3. ASSUME ~IsInsert(v.change), Matches(d, v), Put(d, x, v.change.before, d2) PROVE RefOK(d2)
  BY <1>1, <1>3, PutRefers DEF Matches, IsInsert
<1>4. ASSUME Remove(d, x, d2) PROVE RefOK(d2)
  BY <1>1, <1>4, RemoveRefers
<1>5. QED
  BY <1>2, <1>3, <1>4 DEF ApplyInverse

\* Clearing, staging and marking write no row.
LEMMA LineageStays ==
  ASSUME NEW d, NEW d2, Lineage(d), d2.log = d.log, d2.rows = d.rows,
         \A p \in OpIds : d2.ops[p].capped = d.ops[p].capped,
         \A c \in d.log : c.op \in OpIds,
         d2.cur = d.cur \/ \A c \in d.log : c.op # d2.cur.op
  PROVE  Lineage(d2)
<1>1. ASSUME NEW i \in d.log, Parented(d, i) PROVE Parented(d2, i)
  BY <1>1 DEF Parented
<1>2. QED
  BY <1>1 DEF Lineage

LEMMA PurgedLineage ==
  ASSUME NEW d \in Database, DBInv(d), Lineage(d), NEW k \in 2 .. MaxOps + 1
  PROVE  Lineage(Purged(d, k))
<1> DEFINE r == Purged(d, k)
<1>1. /\ r.log = {c \in d.log : c.op >= k} /\ r.rows = d.rows /\ r.cur = d.cur
      /\ r.ops = [o \in OpIds |-> IF o < k THEN NoOp ELSE d.ops[o]]
  BY DEF Purged, Database
<1>2. \A c \in d.log : c.op \in OpIds
  BY DEF Database, Entry
<1> HIDE DEF r
<1>3. ASSUME OnDelete = "cascade", NEW i \in r.log, IsInsert(i), ~r.ops[i.op].capped
      PROVE  Parented(r, i)
  <2>1. i \in d.log /\ i.op >= k /\ i.op \in OpIds
    BY <1>1, <1>2, <1>3
  <2>2. r.ops[i.op] = d.ops[i.op]
    BY <1>1, <2>1 DEF OpIds
  <2>3. Parented(d, i)
    BY <1>3, <2>1, <2>2 DEF Lineage
  <2>4. \A w \in d.log : w.op = i.op => w \in r.log
    BY <1>1, <2>1
  <2>5. r.log \subseteq d.log
    BY <1>1
  <2>6. QED
    BY <1>1, <2>3, <2>4, <2>5 DEF Parented
<1>4. QED
  BY <1>1, <1>3 DEF Lineage, r

-----------------------------------------------------------------------------
(* What a session recalls, and what its transaction has put back.            *)

\* Row x is one UndoRestores is about, for the operation of session s.
Fit(s, x) ==
  /\ TouchesOf(sess[s].op, x) \subseteq sess[s].changes
  /\ LastWord(sess[s].op, x)
  /\ TouchedSimply(sess[s].op, x)

\* Foreign keys that cascade hold in an undo's transaction, but for children
\* put back before their parents, once no parent is left to put back.
Families(s) ==
  sess[s].pc = "applying" =>
    \/ RefOK(work)
    \/ \A v \in sess[s].verdicts : IsDelete(v.change) => Parent[v.change.slot] # NoSlot

KinInv ==
  /\ Kin(db) /\ Lineage(work)
  /\ OnDelete = "cascade" =>
       /\ (\A s \in Sessions : sess[s].pc # "applying") => RefOK(work)
       /\ \A s \in Sessions : Families(s)

\* What a session read of an operation is one part of its log, all of it still
\* there or all of it purged, judged once; and as long as nobody else writes
\* the rows of interest they are found as the operation left them.
Recalls(s) ==
  /\ sess[s].pc = "reading" => sess[s].verdicts = {}
  /\ sess[s].pc \in {"inspecting", "applying"} =>
       /\ \A c \in sess[s].changes :
            c.op = sess[s].op /\ c.seq <= db.seq /\ ~(IsInsert(c) /\ IsDelete(c))
       /\ sess[s].changes \subseteq db.log \/ sess[s].changes \cap db.log = {}
       /\ \A v \in sess[s].verdicts : v.change \in sess[s].changes
       /\ \A u, v \in sess[s].verdicts : u.change = v.change => u = v
       /\ \A v \in sess[s].verdicts : Fit(s, v.change.slot) => v.status = "clean"

\* Inverses to come: of change c, and of any insert.
Left(s, c)     == \E v \in sess[s].verdicts : v.change = c
InsertsLeft(s) == \E v \in sess[s].verdicts : IsInsert(v.change)

\* What row x holds between the inverses: when change c is all the operation
\* did to it, and when the operation deleted it by c and inserted it by e.
Reverting(s, c, row) ==
  CASE IsInsert(c) -> IF Left(s, c) THEN row \in {c.after, Absent} ELSE row = Absent
    [] IsDelete(c) -> IF Left(s, c) THEN row = Absent ELSE row = c.before /\ ~InsertsLeft(s)
    [] OTHER       -> row = IF Left(s, c) THEN c.after ELSE c.before

Replacing(s, c, e, row) ==
  IF Left(s, e) THEN Left(s, c) /\ row \in {e.after, Absent}
  ELSE IF Left(s, c) THEN row = Absent
  ELSE row = c.before /\ ~InsertsLeft(s)

Reverts(s) ==
  sess[s].pc = "applying" =>
    \A x \in Slots : Fit(s, x) =>
      /\ \A c \in Entry : TouchesOf(sess[s].op, x) = {c} => Reverting(s, c, work.rows[x])
      /\ \A c, e \in Entry :
           TouchesOf(sess[s].op, x) = {c, e} /\ c.seq < e.seq /\ IsDelete(c) /\ IsInsert(e) =>
             Replacing(s, c, e, work.rows[x])

-----------------------------------------------------------------------------
(* The lineage of the log, step by step.                                     *)

LEMMA KinRests ==
  ASSUME Kin(db)', Kin(work)' PROVE KinInv'
BY DEF KinInv, Families, Kin

\* Steps that write nothing and start or end no undo.
LEMMA KinWatched ==
  ASSUME KinInv, UNCHANGED <<db, work>>,
         \A s \in Sessions :
           /\ sess'[s].pc = "applying" <=> sess[s].pc = "applying"
           /\ sess[s].pc = "applying" => sess'[s].verdicts = sess[s].verdicts
  PROVE  KinInv'
BY DEF KinInv, Families, Kin, Lineage, Parented, RefOK, HasParent

LEMMA StagedKin ==
  ASSUME NEW d \in Database, DBInv(d), Kin(d), d.minted < MaxOps, NEW o \in 0 .. MaxOps
  PROVE  Kin(Staged(d, o))
<1>1. /\ Staged(d, o).cur.op = d.minted + 1
      /\ Staged(d, o).ops = d.ops /\ Staged(d, o).log = d.log /\ Staged(d, o).rows = d.rows
  BY StagedInv
<1>2. \A c \in d.log : c.op \in OpIds /\ c.op <= d.minted
  BY DEF Database, Entry, DBInv, LogOrdered, OpsOrdered
<1>3. d.minted \in Nat /\ \A c \in d.log : c.op \in Nat
  BY <1>2, ConstantsOK DEF Database, OpIds
<1>4. \A c \in d.log : c.op # Staged(d, o).cur.op
  BY <1>1, <1>2, <1>3
<1>5. Lineage(Staged(d, o))
  BY <1>1, <1>2, <1>4, LineageStays DEF Kin
<1>6. QED
  BY <1>1, <1>5 DEF Kin, RefOK, HasParent

LEMMA ClearedKin ==
  ASSUME NEW d \in Database, DBInv(d), Kin(d), NEW r, r = [d EXCEPT !.cur = NoCurrent]
  PROVE  Kin(r)
<1>1. r.cur.op = 0 /\ r.ops = d.ops /\ r.log = d.log /\ r.rows = d.rows
  BY ClearedInv DEF NoCurrent
<1>2. \A c \in d.log : c.op \in OpIds /\ c.op # 0
  BY DEF Database, Entry, OpIds
<1>3. Lineage(r)
  BY <1>1, <1>2, LineageStays DEF Kin
<1>4. QED
  BY <1>1, <1>3 DEF Kin, RefOK, HasParent

LEMMA CommitKin ==
  ASSUME IInv, KinInv, NEW s \in Sessions, ExecCommit(s) \/ UndoCommit(s)
  PROVE  KinInv'
<1>1. work \in Database /\ DBInv(work) /\ Lineage(work)
  BY DEF IInv, TypeOK, KinInv
<1>2. CASE ExecCommit(s)
  <2>1. \A t \in Sessions : sess[t].pc # "applying"
    BY <1>2 DEF ExecCommit, IInv, Locking
  <2>2. Kin(work)
    BY <2>1 DEF KinInv, Kin
  <2>3. QED
    BY <1>1, <1>2, <2>2, ClearedKin, KinRests DEF ExecCommit, Publish, Autocommit
<1>3. CASE UndoCommit(s)
  <2> DEFINE d == MarkedUndone(work, sess[s].op)
  <2>1. sess[s].op \in OpIds /\ work.cur.op # sess[s].op
    BY <1>3, UndoCommitMarks DEF UndoCommit
  <2>2. /\ d \in Database /\ DBInv(d) /\ d.log = work.log /\ d.rows = work.rows /\ d.cur = work.cur
        /\ \A p \in OpIds : d.ops[p].capped = work.ops[p].capped
    BY <1>1, <2>1, MarkedInv
  <2>3. Publish(d) /\ RefOK(work)
    BY <1>3 DEF UndoCommit
  <2>4. \A c \in work.log : c.op \in OpIds
    BY <1>1 DEF Database, Entry
  <2> HIDE DEF d
  <2>5. Lineage(d)
    BY <1>1, <2>2, <2>4, LineageStays
  <2>6. Kin(d)
    BY <2>2, <2>3, <2>5 DEF Kin, RefOK, HasParent
  <2>7. QED
    BY <2>2, <2>3, <2>6, ClearedKin, KinRests DEF Publish, Autocommit
<1>4. QED
  BY <1>2, <1>3

\* Of the deletes an undo has still to invert the parents' come first.
LEMMA ParentsFirst ==
  ASSUME TypeOK, NEW s \in Sessions, NEW v, NextVerdict(s, v), IsDelete(v.change),
         Parent[v.change.slot] # NoSlot, ~IsInsert(v.change),
         NEW u \in sess[s].verdicts \ {v}, IsDelete(u.change), ~IsInsert(u.change)
  PROVE  Parent[u.change.slot] # NoSlot
<1>1. Precedes(v.change, u.change)
  BY DEF NextVerdict
<1>2. QED
  BY <1>1 DEF Precedes, Sooner, SortKey, Phase, Rank, Inserts, Deletes, Updates

LEMMA ApplyNextKin ==
  ASSUME IInv, KinInv, NEW s \in Sessions, Recalls(s), ApplyNext(s)
  PROVE  KinInv'
<1>1. /\ work \in Database /\ DBInv(work) /\ Lineage(work) /\ Kin(db)
      /\ db \in Database /\ sess \in [Sessions -> Session] /\ sess[s].pc = "applying"
  BY DEF IInv, TypeOK, KinInv, ApplyNext
<1>2. PICK v \in sess[s].verdicts :
        NextVerdict(s, v) /\ ApplyInverse(work, v, work') /\ db' = db
        /\ sess' = [sess EXCEPT ![s].verdicts = @ \ {v}]
  BY DEF ApplyNext
<1>3. v \in Verdict /\ \A u \in sess[s].verdicts : ~(IsInsert(u.change) /\ IsDelete(u.change))
  BY <1>1 DEF Session, Recalls
<1>4. work.cur.op # 0
  BY <1>1, ConstantsOK DEF IInv, Locking, Free, InTransaction, Database
<1>5. sess' = [sess EXCEPT ![s] = [sess[s] EXCEPT !.verdicts = sess[s].verdicts \ {v}]]
  BY <1>2
<1>6. /\ sess'[s].verdicts = sess[s].verdicts \ {v} /\ sess'[s].pc = "applying"
      /\ \A t \in Sessions \ {s} : sess'[t] = sess[t]
  BY <1>1, <1>5 DEF Session
<1>7. \A t \in Sessions \ {s} : sess'[t].pc # "applying"
  BY <1>1, <1>6 DEF IInv, Locking
<1>8. OnDelete = "cascade" =>
        RefOK(work) \/ \A u \in sess[s].verdicts : IsDelete(u.change) => Parent[u.change.slot] # NoSlot
  BY <1>1 DEF KinInv, Families
<1>9. Lineage(work')
  BY <1>1, <1>2, <1>3, <1>4, <1>8, InverseLineage
<1>10. ASSUME OnDelete = "cascade"
       PROVE  \/ RefOK(work')
              \/ \A u \in sess'[s].verdicts : IsDelete(u.change) => Parent[u.change.slot] # NoSlot
  <2>1. CASE RefOK(work)
    <3>1. RefOK(work') \/ (IsDelete(v.change) /\ Parent[v.change.slot] # NoSlot)
      BY <1>1, <1>2, <1>3, <1>4, <1>10, <2>1, InverseRefers
    <3>2. QED
      BY <1>2, <1>3, <1>6, <3>1, ParentsFirst DEF IInv
  <2>2. CASE ~RefOK(work)
    BY <1>6, <1>8, <1>10, <2>2
  <2>3. QED
    BY <2>1, <2>2
<1>11. Kin(db') /\ Lineage(work)' /\ (RefOK(work)' <=> RefOK(work'))
  BY <1>1, <1>2, <1>9 DEF Lineage, Parented, RefOK, HasParent
<1>12. QED
  BY <1>6, <1>7, <1>10, <1>11 DEF KinInv, Families

LEMMA NextKin ==
  ASSUME IInv, KinInv, \A s \in Sessions : Recalls(s), [Next]_vars
  PROVE  KinInv'
<1>1. /\ db \in Database /\ DBInv(db) /\ Kin(db)
      /\ work \in Database /\ DBInv(work) /\ Lineage(work) /\ sess \in [Sessions -> Session]
      /\ \A s \in Sessions : sess[s].pc \in {"running", "applying"} <=> writer = s
  BY DEF IInv, TypeOK, Locking, KinInv
<1>2. ASSUME NEW s \in Sessions, Close(s) \/ ExecRollback(s) \/ UndoAbort(s), writer = s PROVE KinInv'
  BY <1>1, <1>2, KinRests DEF Close, ExecRollback, UndoAbort, Rollback
<1>3. CASE UNCHANGED vars
  BY <1>3, KinWatched DEF vars
<1>4. CASE ExternalWrite
  BY <1>1, <1>4, UserWriteKin, KinRests DEF ExternalWrite
<1>5. ASSUME NEW s \in Sessions, Open(s) PROVE KinInv'
  <2>1. Kin([db EXCEPT !.cur = NoCurrent])
    BY <1>1, ClearedKin
  <2>2. QED
    BY <1>1, <1>5, <2>1, KinRests DEF Open, Autocommit
<1>6. ASSUME NEW s \in Sessions, Purge(s) PROVE KinInv'
  <2>1. PICK k \in 2 .. MaxOps + 1 : db' = Purged(db, k) /\ work' = Purged(db, k)
    BY <1>6 DEF Purge, Autocommit
  <2>2. Lineage(Purged(db, k)) /\ Purged(db, k).rows = db.rows
    BY <1>1, PurgedLineage, PurgedInv DEF Kin
  <2>3. Kin(Purged(db, k))
    BY <1>1, <2>2 DEF Kin, RefOK, HasParent
  <2>4. QED
    BY <2>1, <2>3, KinRests
<1>7. ASSUME NEW s \in Sessions, ExecBegin(s) \/ UndoBegin(s) PROVE KinInv'
  <2>1. sess[s].op \in 0 .. MaxOps /\ 0 \in 0 .. MaxOps
    BY <1>1, ConstantsOK DEF Session
  <2>2. QED
    BY <1>1, <1>7, <2>1, StagedKin, KinRests DEF ExecBegin, UndoBegin
<1>8. ASSUME NEW s \in Sessions, ExecWrite(s) PROVE KinInv'
  <2>1. \A t \in Sessions : sess[t].pc # "applying"
    BY <1>1, <1>8 DEF ExecWrite
  <2>2. Kin(work)
    BY <1>1, <2>1 DEF KinInv, Kin
  <2>3. QED
    BY <1>1, <1>8, <2>2, UserWriteKin, KinRests DEF ExecWrite
<1>9. ASSUME NEW s \in Sessions, Close(s), writer # s PROVE KinInv'
  <2>1. sess[s].pc # "applying"
    BY <1>1, <1>9
  <2>2. UNCHANGED <<db, work>> /\ sess' = [sess EXCEPT ![s] = Closed]
    BY <1>9 DEF Close
  <2>3. \A t \in Sessions :
          /\ sess'[t].pc = "applying" <=> sess[t].pc = "applying"
          /\ sess[t].pc = "applying" => sess'[t].verdicts = sess[t].verdicts
    BY <1>1, <2>1, <2>2, RestingTyped
  <2>4. QED
    BY <2>2, <2>3, KinWatched
<1>10. ASSUME NEW s \in Sessions,
              ReadOperation(s) \/ ReadChanges(s) \/ Inspect(s) \/ Report(s)
       PROVE  KinInv'
  <2>1. UNCHANGED <<db, work>> /\ sess[s].pc # "applying"
    BY <1>10 DEF ReadOperation, ReadChanges, Inspect, Report, Assessed
  <2>2. sess'[s].pc # "applying" /\ \A t \in Sessions \ {s} : sess'[t] = sess[t]
    <3>1. TypeOK
      BY DEF IInv
    <3>2. CASE ReadOperation(s)
      BY <3>1, <3>2, ReadOperationSteps DEF Steps
    <3>3. CASE ReadChanges(s)
      BY <3>1, <3>3, ReadChangesSteps DEF Steps
    <3>4. CASE Inspect(s)
      BY <3>1, <3>4, InspectSteps DEF Steps
    <3>5. CASE Report(s)
      BY <1>1, <3>5, RestingTyped DEF Report
    <3>6. QED
      BY <1>10, <3>2, <3>3, <3>4, <3>5
  <2>3. QED
    BY <2>1, <2>2, KinWatched
<1>11. \A s \in Sessions : ExecRollback(s) \/ UndoAbort(s) => writer = s
  BY <1>1 DEF ExecRollback, UndoAbort
<1>12. QED
  BY <1>2, <1>3, <1>4, <1>5, <1>6, <1>7, <1>8, <1>9, <1>10, <1>11, CommitKin, ApplyNextKin
  DEF Next, SessionStep, Undoing

-----------------------------------------------------------------------------
(* What was read, step by step.                                              *)

\* The file as sessions find it again: changes of higher numbers are added to
\* it, and no operation sheds its cap.
FileGrows ==
  /\ db.log \subseteq db'.log /\ db.seq <= db'.seq
  /\ \A c \in db'.log \ db.log : db.seq < c.seq
  /\ \A o \in OpIds : db.ops[o].capped => db'.ops[o].capped

LEMMA UserWriteStores ==
  ASSUME NEW d \in Database, DBInv(d), UserMayWrite(d), NEW d2, UserWrite(d, d2)
  PROVE  \E T \in SUBSET Slots : Stores(d, T, d2)
<1>1. d.cur.op # 0 \/ d.minted < MaxOps
  BY DEF UserMayWrite
<1>2. Vals \subseteq Content
  BY DEF Content
<1>3. ASSUME NEW s \in Slots, NEW v \in Vals, Put(d, s, v, d2) PROVE Stores(d, {s}, d2)
  BY <1>1, <1>2, <1>3, PutStores
<1>4. ASSUME NEW s \in Slots, Remove(d, s, d2) PROVE Stores(d, Gone(d, s), d2)
  BY <1>1, <1>4, RemoveStores
<1>5. \A s \in Slots : {s} \in SUBSET Slots /\ Gone(d, s) \in SUBSET Slots
  BY DEF Gone, Children
<1>6. QED
  BY <1>3, <1>4, <1>5 DEF UserWrite

LEMMA FileGrowsOrIsPurged ==
  ASSUME IInv, [Next]_vars
  PROVE  FileGrows \/ \E k \in 2 .. MaxOps + 1 : db' = Purged(db, k)
<1>1. /\ db \in Database /\ DBInv(db) /\ work \in Database /\ DBInv(work)
      /\ sess \in [Sessions -> Session] /\ db.seq \in Nat
      /\ \A s \in Sessions : sess[s].pc \in {"running", "applying"} <=> writer = s
  BY DEF IInv, TypeOK, Locking, Database
<1>2. CASE db'.log = db.log /\ db'.ops = db.ops /\ db'.seq = db.seq
  BY <1>1, <1>2 DEF FileGrows
<1>3. CASE ExternalWrite
  BY <1>1, <1>3, UserWriteWrites, UserWriteStores DEF ExternalWrite, Writes, Appends, Stores, FileGrows
<1>4. ASSUME NEW s \in Sessions, ExecCommit(s) \/ UndoCommit(s) PROVE FileGrows
  <2>1. ~Free
    BY <1>1, <1>4, ConstantsOK DEF ExecCommit, UndoCommit, Free
  <2>2. /\ Appends(db, work) /\ work.cur.op \in OpIds /\ work.cur.op > db.minted
        /\ \A o \in OpIds \ {work.cur.op} : work.ops[o] = db.ops[o]
    BY <2>1, TransactionAppends DEF IInv, InTransaction
  <2>3. ~db.ops[work.cur.op].capped
    <3>1. ~Exists(db, work.cur.op)
      BY <1>1, <2>2, ConstantsOK DEF DBInv, OpsOrdered, Database, OpIds
    <3>2. QED
      BY <1>1, <2>2, <3>1 DEF DBInv, OpRowsSound, NoOp
  <2>4. db'.log = work.log /\ \A o \in OpIds : db'.ops[o].capped = work.ops[o].capped
    BY <1>4, ExecCommitWrites, UndoCommitWrites
  <2>5. db'.seq = work.seq
    <3>1. CASE ExecCommit(s)
      BY <1>1, <3>1, ClearedInv DEF ExecCommit, Publish, Autocommit
    <3>2. CASE UndoCommit(s)
      <4> DEFINE d == MarkedUndone(work, sess[s].op)
      <4>1. /\ d \in Database /\ DBInv(d) /\ d.seq = work.seq
        BY <3>2, UndoCommitMarks, MarkedInv DEF IInv, TypeOK, UndoCommit
      <4>2. db' = [d EXCEPT !.cur = NoCurrent]
        BY <3>2 DEF UndoCommit, Publish, Autocommit
      <4> HIDE DEF d
      <4>3. QED
        BY <4>1, <4>2, ClearedInv
    <3>3. QED
      BY <1>4, <3>1, <3>2
  <2>6. QED
    BY <2>2, <2>3, <2>4, <2>5 DEF Appends, FileGrows
<1>5. ASSUME NEW s \in Sessions, Open(s) PROVE db'.log = db.log /\ db'.ops = db.ops /\ db'.seq = db.seq
  BY <1>1, <1>5, ClearedInv DEF Open, Autocommit
<1>6. ASSUME NEW s \in Sessions, Purge(s) PROVE \E k \in 2 .. MaxOps + 1 : db' = Purged(db, k)
  BY <1>6 DEF Purge, Autocommit
<1>7. CASE UNCHANGED vars
  BY <1>2, <1>7 DEF vars
<1>8. ASSUME NEW s \in Sessions,
             \/ Close(s) \/ ExecBegin(s) \/ ExecWrite(s) \/ ExecRollback(s) \/ ReadOperation(s)
             \/ ReadChanges(s) \/ Inspect(s) \/ Report(s) \/ UndoBegin(s) \/ ApplyNext(s) \/ UndoAbort(s)
      PROVE  db' = db
  BY <1>8 DEF Close, ExecBegin, ExecWrite, ExecRollback, ReadOperation, ReadChanges, Inspect, Report,
     UndoBegin, ApplyNext, UndoAbort, Rollback
<1>9. QED
  BY <1>2, <1>3, <1>4, <1>5, <1>6, <1>7, <1>8 DEF Next, SessionStep, Undoing

\* A row that will be of interest is of interest already.
LEMMA FitBefore ==
  ASSUME IInv, FileGrows \/ \E k \in 2 .. MaxOps + 1 : db' = Purged(db, k),
         NEW s \in Sessions, sess[s].pc \in {"inspecting", "applying"}, Recalls(s),
         sess'[s].op = sess[s].op, sess'[s].changes = sess[s].changes,
         NEW x \in Slots, Fit(s, x)'
  PROVE  Fit(s, x)
<1> DEFINE o  == sess[s].op
           T  == TouchesOf(o, x)
           T2 == {c \in db'.log : c.op = o /\ c.slot = x}
<1>1. /\ T = {c \in db.log : c.op = o /\ c.slot = x}
      /\ TouchesOf(sess[s].op, x)' = T2
  BY DEF TouchesOf, ChangesOf
<1>2. /\ db \in Database /\ DBInv(db) /\ sess \in [Sessions -> Session] /\ o \in OpIds
      /\ \A c \in sess[s].changes : c.seq <= db.seq
  BY DEF IInv, TypeOK, HeaderOK, Recalls
<1>3. T2 \subseteq sess[s].changes
  BY <1>1 DEF Fit
<1>4. PICK c \in T2 : \A e \in db'.log : e.slot = c.slot => e.seq <= c.seq
  BY <1>1 DEF Fit, LastWord, Newest
<1>5. \A p \in OpIds : p >= o => ~db'.ops[p].capped
  BY DEF Fit, LastWord
<1>6. db.seq \in Nat /\ \A e \in db.log : e \in Entry
  BY <1>2 DEF Database
<1>7. ASSUME FileGrows
      PROVE  /\ T2 = T
             /\ \A e \in db.log : e.slot = c.slot => e.seq <= c.seq
             /\ \A p \in OpIds : p >= o => ~db.ops[p].capped
  <2>1. \A e \in T2 : e.seq \in Nat /\ e.seq <= db.seq
    BY <1>2, <1>3 DEF Session, Entry
  <2>2. T2 \subseteq db.log
    BY <1>6, <1>7, <2>1 DEF FileGrows
  <2>3. QED
    BY <1>1, <1>4, <1>5, <1>7, <2>2 DEF FileGrows
<1>8. ASSUME NEW k \in 2 .. MaxOps + 1, db' = Purged(db, k)
      PROVE  /\ T2 = T
             /\ \A e \in db.log : e.slot = c.slot => e.seq <= c.seq
             /\ \A p \in OpIds : p >= o => ~db.ops[p].capped
  <2>1. /\ db'.log = {e \in db.log : e.op >= k}
        /\ db'.ops = [p \in OpIds |-> IF p < k THEN NoOp ELSE db.ops[p]]
    BY <1>2, <1>8 DEF Purged, Database
  <2>2. o >= k /\ c \in db.log
    BY <2>1
  <2>3. T2 = T
    BY <1>1, <2>1, <2>2
  <2>4. ASSUME NEW e \in db.log, e.slot = c.slot, ~(e.seq <= c.seq) PROVE FALSE
    <3>1. c.op <= e.op
      BY <1>2, <1>6, <2>2, <2>4 DEF DBInv, LogOrdered, Entry
    <3>2. e \in db'.log
      BY <1>2, <1>6, <2>1, <2>2, <3>1 DEF Entry, OpIds
    <3>3. QED
      BY <1>4, <2>4, <3>2
  <2>5. \A p \in OpIds : p >= o => db'.ops[p] = db.ops[p]
    BY <1>2, <2>1, <2>2 DEF OpIds
  <2>6. QED
    BY <1>5, <2>3, <2>4, <2>5
<1>9. /\ T2 = T
      /\ \A e \in db.log : e.slot = c.slot => e.seq <= c.seq
      /\ \A p \in OpIds : p >= o => ~db.ops[p].capped
  BY <1>7, <1>8
<1>10. LastWord(o, x)
  BY <1>4, <1>9 DEF LastWord, Newest
<1>11. TouchedSimply(sess[s].op, x)' => TouchedSimply(o, x)
  <2>1. TouchesOf(sess[s].op, x)' = TouchesOf(o, x)
    BY <1>1, <1>9
  <2>2. QED
    BY <2>1 DEF TouchedSimply
<1>12. QED
  BY <1>1, <1>3, <1>9, <1>10, <1>11 DEF Fit

\* What a session read stays as it was, or goes as a whole.
LEMMA RecallsOn ==
  ASSUME IInv, FileGrows \/ \E k \in 2 .. MaxOps + 1 : db' = Purged(db, k),
         db'.seq \in Nat, NEW s \in Sessions, Recalls(s), sess'[s] = sess[s]
  PROVE  Recalls(s)'
<1>1. CASE sess[s].pc \notin {"inspecting", "applying"}
  BY <1>1 DEF Recalls
<1>2. CASE sess[s].pc \in {"inspecting", "applying"}
  <2> DEFINE C == sess[s].changes
  <2>1. /\ db \in Database /\ C \subseteq Entry /\ db.seq \in Nat
        /\ \A v \in sess[s].verdicts : v.change.slot \in Slots
    BY DEF IInv, TypeOK, Session, Database, Verdict, Entry
  <2>2. \A v \in sess[s].verdicts : Fit(s, v.change.slot)' => v.status = "clean"
    BY <1>2, <2>1, FitBefore DEF Recalls
  <2>3. C \subseteq db.log \/ C \cap db.log = {}
    BY <1>2 DEF Recalls
  <2>4. \A c \in C : c.op = sess[s].op /\ c.seq <= db.seq /\ c.seq \in Nat
    BY <1>2, <2>1 DEF Recalls, Entry
  <2>5. CASE FileGrows
    <3>1. \A c \in C : c.seq <= db'.seq
      BY <2>1, <2>4, <2>5 DEF FileGrows
    <3>3. C \subseteq db'.log \/ C \cap db'.log = {}
      BY <2>1, <2>3, <2>4, <2>5 DEF FileGrows
    <3>4. QED
      BY <1>2, <2>2, <3>1, <3>3 DEF Recalls
  <2>6. ASSUME NEW k \in 2 .. MaxOps + 1, db' = Purged(db, k) PROVE Recalls(s)'
    <3>1. db'.log = {e \in db.log : e.op >= k} /\ db'.seq = db.seq
      BY <2>1, <2>6 DEF Purged, Database
    <3>2. C \subseteq db'.log \/ C \cap db'.log = {}
      BY <2>3, <2>4, <3>1
    <3>3. QED
      BY <1>2, <2>2, <2>4, <3>1, <3>2 DEF Recalls
  <2>7. QED
    BY <2>5, <2>6
<1>3. QED
  BY <1>1, <1>2

LEMMA FitKnows ==
  ASSUME NEW s \in Sessions, sess[s].pc \in {"inspecting", "applying"}, Recalls(s),
         NEW x \in Slots, Fit(s, x)
  PROVE  /\ TouchesOf(sess[s].op, x) \subseteq sess[s].changes
         /\ sess[s].changes \subseteq db.log
         /\ \A c \in sess[s].changes : c.slot = x => c \in TouchesOf(sess[s].op, x)
<1>1. \E c \in TouchesOf(sess[s].op, x) : c \in sess[s].changes \cap db.log
  BY DEF Fit, LastWord, TouchesOf, ChangesOf
<1>2. sess[s].changes \subseteq db.log
  BY <1>1 DEF Recalls
<1>3. QED
  BY <1>2 DEF Fit, Recalls, TouchesOf, ChangesOf

\* The row of interest is as the operation's last change left it.
LEMMA FitHolds ==
  ASSUME IInv, NEW s \in Sessions, NEW x \in Slots, Fit(s, x)
  PROVE  /\ \A c \in Entry : TouchesOf(sess[s].op, x) = {c} => db.rows[x] = c.after
         /\ \A c, e \in Entry :
              TouchesOf(sess[s].op, x) = {c, e} /\ c.seq < e.seq => db.rows[x] = e.after
<1> DEFINE T == TouchesOf(sess[s].op, x)
<1>1. PICK n \in T : Newest(db, n)
  BY DEF Fit, LastWord
<1>2. db \in Database /\ DBInv(db) /\ \A c \in T : c \in db.log /\ c.op = sess[s].op /\ c.slot = x
  BY DEF IInv, TypeOK, TouchesOf, ChangesOf
<1>3. ~CappedSince(db, n.op)
  BY <1>2 DEF Fit, LastWord, CappedSince
<1>4. db.rows[x] = n.after
  BY <1>1, <1>2, <1>3 DEF DBInv, LogAgrees
<1>5. \A e \in T : e.seq <= n.seq
  BY <1>1, <1>2 DEF Newest
<1>6. QED
  BY <1>1, <1>4, <1>5 DEF Entry

LEMMA FitClean ==
  ASSUME IInv, NEW s \in Sessions, sess[s].pc = "inspecting", Recalls(s),
         NEW c \in sess[s].changes, Fit(s, c.slot)
  PROVE  StatusOf(sess[s].changes, c, db.rows[c.slot]) = "clean"
<1> DEFINE x == c.slot
           T == TouchesOf(sess[s].op, x)
           C == sess[s].changes
<1>1. c \in Entry /\ x \in Slots /\ db \in Database
  BY DEF IInv, TypeOK, Session, Entry
<1>2. T \subseteq C /\ c \in T /\ \A e \in C : e.slot = x => e \in T
  BY <1>1, FitKnows
<1>3. /\ \A a \in Entry : T = {a} => db.rows[x] = a.after
      /\ \A a, e \in Entry : T = {a, e} /\ a.seq < e.seq => db.rows[x] = e.after
  BY <1>1, FitHolds
<1>4. T \subseteq Entry /\ \A a \in T : a.slot = x
  BY <1>1 DEF TouchesOf, ChangesOf, Database
<1>5. \A a \in C : ~(IsInsert(a) /\ IsDelete(a))
  BY DEF Recalls
<1>6. \/ \E a \in T : T = {a}
      \/ \E a, e \in T : T = {a, e} /\ a.seq < e.seq /\ IsDelete(a) /\ IsInsert(e)
  BY DEF Fit, TouchedSimply
<1> HIDE DEF T, C
<1>7. CASE \E a \in T : T = {a}
  <2>1. T = {c} /\ db.rows[x] = c.after
    BY <1>1, <1>2, <1>3, <1>7
  <2>2. QED
    BY <2>1 DEF StatusOf, IsDelete, C
<1>8. CASE \E a, e \in T : T = {a, e} /\ a.seq < e.seq /\ IsDelete(a) /\ IsInsert(e)
  <2>1. PICK a \in T, e \in T : T = {a, e} /\ a.seq < e.seq /\ IsDelete(a) /\ IsInsert(e)
    BY <1>8
  <2>2. db.rows[x] = e.after /\ ~IsDelete(e) /\ ~IsInsert(a)
    BY <1>2, <1>3, <1>4, <1>5, <2>1
  <2>3. FreedBy(C, a, db.rows[x])
    <3>1. \A j \in C : j.slot = x /\ IsInsert(j) => j.seq <= e.seq
      BY <1>2, <1>4, <2>1, <2>2 DEF Entry
    <3>2. QED
      BY <1>2, <1>4, <2>1, <2>2, <3>1 DEF FreedBy
  <2>4. QED
    BY <1>2, <2>1, <2>2, <2>3 DEF StatusOf, IsDelete, C
<1>9. QED
  BY <1>6, <1>7, <1>8

LEMMA FitElsewhere ==
  ASSUME NEW s \in Sessions, db' = db, sess'[s].op = sess[s].op,
         sess'[s].changes = sess[s].changes
  PROVE  \A x \in Slots : Fit(s, x)' <=> Fit(s, x)
BY DEF Fit, LastWord, TouchedSimply, TouchesOf, ChangesOf, Newest

\* A step that leaves the file alone and judges no more than was judged.
LEMMA RecallsLess ==
  ASSUME IInv, NEW s \in Sessions, Recalls(s), db' = db, sess'[s].op = sess[s].op,
         sess'[s].changes = sess[s].changes, sess'[s].verdicts \subseteq sess[s].verdicts,
         sess[s].pc \in {"inspecting", "applying"}, sess'[s].pc \in {"inspecting", "applying"}
  PROVE  Recalls(s)'
<1>1. \A v \in sess[s].verdicts : v.change.slot \in Slots
  BY DEF IInv, TypeOK, Session, Verdict, Entry
<1>2. \A v \in sess'[s].verdicts : Fit(s, v.change.slot)' => v.status = "clean"
  BY <1>1, FitElsewhere DEF Recalls
<1>3. QED
  BY <1>2 DEF Recalls

LEMMA ReadChangesRecalls ==
  ASSUME IInv, KinInv, NEW s \in Sessions, Recalls(s), ReadChanges(s)
  PROVE  Recalls(s)'
<1>1. sess \in [Sessions -> Session] /\ db \in Database /\ DBInv(db) /\ Lineage(db)
  BY DEF IInv, TypeOK, KinInv, Kin
<1>2. /\ sess'[s].pc = "inspecting" /\ sess'[s].verdicts = {} /\ sess'[s].op = sess[s].op
      /\ sess'[s].changes = ChangesOf(db, sess[s].op) /\ db' = db
  BY <1>1 DEF ReadChanges, Recalls, Session
<1>3. \A c \in ChangesOf(db, sess[s].op) :
        c \in db.log /\ c.op = sess[s].op /\ c.seq <= db.seq /\ ~(IsInsert(c) /\ IsDelete(c))
  BY <1>1 DEF ChangesOf, DBInv, LogOrdered, Lineage
<1>4. QED
  BY <1>2, <1>3 DEF Recalls

LEMMA InspectRecalls ==
  ASSUME IInv, NEW s \in Sessions, Recalls(s), Inspect(s)
  PROVE  Recalls(s)'
<1>1. PICK c \in sess[s].changes \ Inspected(s) :
        sess' = [sess EXCEPT ![s].verdicts = @ \cup
                  {[change |-> c, current |-> db.rows[c.slot],
                    status |-> StatusOf(sess[s].changes, c, db.rows[c.slot])]}]
  BY DEF Inspect
<1> DEFINE v == [change |-> c, current |-> db.rows[c.slot],
                 status |-> StatusOf(sess[s].changes, c, db.rows[c.slot])]
<1>2. v.change = c /\ v.status = StatusOf(sess[s].changes, c, db.rows[c.slot])
  OBVIOUS
<1> HIDE DEF v
<1>3. sess \in [Sessions -> Session] /\ sess[s].pc = "inspecting" /\ db' = db
  BY DEF IInv, TypeOK, Inspect
<1>4. sess' = [sess EXCEPT ![s] = [sess[s] EXCEPT !.verdicts = sess[s].verdicts \cup {v}]]
  BY <1>1, <1>3 DEF v
<1>5. /\ sess'[s].pc = "inspecting" /\ sess'[s].changes = sess[s].changes
      /\ sess'[s].op = sess[s].op /\ sess'[s].verdicts = sess[s].verdicts \cup {v}
  BY <1>3, <1>4 DEF Session
<1>6. \A u \in sess[s].verdicts : u.change # c
  BY <1>1 DEF Inspected
<1>7. c.slot \in Slots /\ \A u \in sess[s].verdicts : u.change.slot \in Slots
  BY <1>3 DEF Session, Verdict, Entry
<1>8. Fit(s, c.slot) => v.status = "clean"
  BY <1>1, <1>2, <1>3, FitClean
<1>9. \A u \in sess'[s].verdicts : Fit(s, u.change.slot)' => u.status = "clean"
  BY <1>2, <1>3, <1>5, <1>7, <1>8, FitElsewhere DEF Recalls
<1>10. \A u, w \in sess'[s].verdicts : u.change = w.change => u = w
  BY <1>2, <1>3, <1>5, <1>6 DEF Recalls
<1>11. QED
  BY <1>1, <1>2, <1>3, <1>5, <1>9, <1>10 DEF Recalls

LEMMA NextRecalls ==
  ASSUME IInv, IInv', KinInv, \A s \in Sessions : Recalls(s), [Next]_vars
  PROVE  \A s \in Sessions : Recalls(s)'
<1>1. /\ sess \in [Sessions -> Session] /\ db'.seq \in Nat
      /\ FileGrows \/ \E k \in 2 .. MaxOps + 1 : db' = Purged(db, k)
  BY FileGrowsOrIsPurged DEF IInv, TypeOK, Database
<1>2. ASSUME NEW s \in Sessions, sess'[s] = sess[s] PROVE Recalls(s)'
  BY <1>1, <1>2, RecallsOn
<1>3. ASSUME NEW t \in Sessions, SessionStep(t) PROVE \A s \in Sessions : Recalls(s)'
  <2>1. ASSUME NEW s \in Sessions, s # t PROVE Recalls(s)'
    BY <1>2, <1>3, <2>1, OthersWait
  <2>2. ASSUME sess'[t].pc \in {"closed", "idle", "running"} PROVE Recalls(t)'
    BY <2>2 DEF Recalls
  <2>3. ASSUME ReadOperation(t) PROVE Recalls(t)'
    BY <1>1, <2>3 DEF ReadOperation, Recalls
  <2>4. ASSUME UndoBegin(t) PROVE Recalls(t)'
    <3> DEFINE V == {v \in sess[t].verdicts : v.status \in {"clean", "drifted"}}
    <3>1. sess' = [sess EXCEPT ![t] = [[sess[t] EXCEPT !.pc = "applying"] EXCEPT !.verdicts = V]]
      BY <1>1, <2>4 DEF UndoBegin, Session
    <3>2. V \subseteq sess[t].verdicts
      OBVIOUS
    <3> HIDE DEF V
    <3>3. /\ sess'[t].changes = sess[t].changes /\ sess'[t].verdicts = V
          /\ sess'[t].op = sess[t].op /\ sess'[t].pc = "applying"
      BY <1>1, <3>1 DEF Session
    <3>4. db' = db /\ sess[t].pc = "inspecting"
      BY <2>4 DEF UndoBegin, Assessed
    <3>5. QED
      BY <3>2, <3>3, <3>4, RecallsLess
  <2>5. ASSUME ApplyNext(t) PROVE Recalls(t)'
    <3>1. PICK v \in sess[t].verdicts :
            sess' = [sess EXCEPT ![t].verdicts = @ \ {v}] /\ db' = db /\ sess[t].pc = "applying"
      BY <2>5 DEF ApplyNext
    <3>2. sess' = [sess EXCEPT ![t] = [sess[t] EXCEPT !.verdicts = sess[t].verdicts \ {v}]]
      BY <3>1
    <3>3. /\ sess'[t].changes = sess[t].changes /\ sess'[t].verdicts = sess[t].verdicts \ {v}
          /\ sess'[t].op = sess[t].op /\ sess'[t].pc = "applying"
      BY <1>1, <3>1, <3>2 DEF Session
    <3>4. QED
      BY <3>1, <3>3, RecallsLess
  <2>6. ASSUME sess' = sess /\ (Purge(t) \/ ExecWrite(t)) PROVE Recalls(t)'
    BY <1>2, <2>6
  <2>7. Recalls(t)'
    <3>1. ASSUME Open(t) \/ Close(t) \/ ExecBegin(t) \/ ExecCommit(t) \/ ExecRollback(t)
                 \/ Report(t) \/ UndoCommit(t) \/ UndoAbort(t)
          PROVE  sess'[t].pc \in {"closed", "idle", "running"}
      BY <1>1, <3>1, RestingTyped DEF Open, Close, ExecBegin, ExecCommit, ExecRollback, Report,
         UndoCommit, UndoAbort, Goto, Session
    <3>2. QED
      BY <1>3, <2>2, <2>3, <2>4, <2>5, <2>6, <3>1, ReadChangesRecalls, InspectRecalls
      DEF SessionStep, Undoing, Purge, ExecWrite
  <2>8. QED
    BY <2>1, <2>7
<1>4. CASE ExternalWrite \/ UNCHANGED vars
  BY <1>2, <1>4 DEF ExternalWrite, vars
<1>5. QED
  BY <1>3, <1>4 DEF Next

-----------------------------------------------------------------------------
(* The rows an undo puts back, step by step.                                 *)

\* What one inverse does to its row and to the others.
LEMMA InverseRows ==
  ASSUME NEW d \in Database, DBInv(d), d.cur.op # 0,
         NEW v \in Verdict, ~(IsInsert(v.change) /\ IsDelete(v.change)),
         NEW d2, ApplyInverse(d, v, d2)
  PROVE  /\ \A x \in Slots \ {v.change.slot} :
              \/ d2.rows[x] = d.rows[x]
              \/ /\ IsInsert(v.change) /\ OnDelete = "cascade"
                 /\ Parent[x] = v.change.slot /\ d2.rows[x] = Absent
         /\ IF IsDelete(v.change) \/ Matches(d, v)
            THEN d2.rows[v.change.slot] = v.change.before
            ELSE d2.rows[v.change.slot] = d.rows[v.change.slot]
<1> DEFINE s == v.change.slot
<1>1. s \in Slots /\ v.change.before \in Content
  BY DEF Verdict, Entry
<1>2. ASSUME Put(d, s, v.change.before, d2)
      PROVE  d2.rows[s] = v.change.before /\ \A x \in Slots \ {s} : d2.rows[x] = d.rows[x]
  BY <1>1, <1>2, PutStores DEF Stores
<1>3. ASSUME IsInsert(v.change), Remove(d, s, d2)
      PROVE  /\ d2.rows[s] = v.change.before
             /\ \A x \in Slots \ {s} :
                  \/ d2.rows[x] = d.rows[x]
                  \/ OnDelete = "cascade" /\ Parent[x] = s /\ d2.rows[x] = Absent
  <2>1. /\ \A x \in Gone(d, s) : d2.rows[x] = Absent
        /\ \A x \in Slots \ Gone(d, s) : d2.rows[x] = d.rows[x]
    BY <1>1, <1>3, RemoveStores DEF Stores
  <2>2. v.change.before = Absent
    BY <1>3 DEF IsInsert
  <2>3. QED
    BY <2>1, <2>2 DEF Gone, Children
<1>4. CASE IsDelete(v.change)
  <2>1. ~IsInsert(v.change) /\ Put(d, s, v.change.before, d2)
    BY <1>4 DEF ApplyInverse
  <2>2. QED
    BY <1>2, <1>4, <2>1
<1>5. CASE ~IsDelete(v.change) /\ Matches(d, v)
  <2>1. \/ IsInsert(v.change) /\ Remove(d, s, d2)
        \/ ~IsInsert(v.change) /\ Put(d, s, v.change.before, d2)
    BY <1>5 DEF ApplyInverse
  <2>2. QED
    BY <1>2, <1>3, <1>5, <2>1
<1>6. CASE ~IsDelete(v.change) /\ ~Matches(d, v)
  <2>1. d2 = d
    BY <1>6 DEF ApplyInverse
  <2>2. QED
    BY <1>6, <2>1
<1>7. QED
  BY <1>4, <1>5, <1>6

LEMMA UndoBeginReverts ==
  ASSUME IInv, NEW s \in Sessions, Recalls(s), UndoBegin(s)
  PROVE  Reverts(s)'
<1> DEFINE V == {v \in sess[s].verdicts : v.status \in {"clean", "drifted"}}
<1>1. sess \in [Sessions -> Session] /\ db \in Database /\ sess[s].pc = "inspecting" /\ db' = db
  BY DEF IInv, TypeOK, UndoBegin, Assessed
<1>2. sess' = [sess EXCEPT ![s] = [[sess[s] EXCEPT !.pc = "applying"] EXCEPT !.verdicts = V]]
  BY <1>1 DEF UndoBegin, Session
<1>3. sess'[s].changes = sess[s].changes /\ sess'[s].verdicts = V /\ sess'[s].op = sess[s].op
  BY <1>1, <1>2 DEF Session
<1>4. work'.rows = db.rows
  BY <1>1, StagedInv DEF UndoBegin, IInv, Staged, Database
<1>5. SUFFICES ASSUME NEW x \in Slots, Fit(s, x)
               PROVE  /\ \A c \in Entry : TouchesOf(sess[s].op, x)' = {c} => Reverting(s, c, work.rows[x])'
                      /\ \A c, e \in Entry :
                           /\ TouchesOf(sess[s].op, x)' = {c, e} /\ c.seq < e.seq
                           /\ IsDelete(c) /\ IsInsert(e)
                           => Replacing(s, c, e, work.rows[x])'
  BY <1>1, <1>3, FitElsewhere DEF Reverts
<1>6. TouchesOf(sess[s].op, x)' = TouchesOf(sess[s].op, x)
  BY <1>1, <1>3 DEF TouchesOf, ChangesOf
<1>7. ASSUME NEW c \in TouchesOf(sess[s].op, x) PROVE Left(s, c)'
  <2>1. c \in sess[s].changes /\ c.slot = x
    <3>1. TouchesOf(sess[s].op, x) \subseteq sess[s].changes
      BY <1>5 DEF Fit
    <3>2. c.slot = x
      BY <1>7 DEF TouchesOf
    <3>3. QED
      BY <1>7, <3>1, <3>2
  <2>2. PICK v \in sess[s].verdicts : v.change = c
    BY <2>1 DEF UndoBegin, Assessed, Inspected
  <2>3. v.status = "clean"
    BY <1>1, <1>5, <2>1, <2>2 DEF Recalls
  <2>4. v \in V
    BY <2>2, <2>3
  <2> HIDE DEF V
  <2>5. QED
    BY <1>3, <2>2, <2>4 DEF Left
<1>8. /\ \A c \in Entry : TouchesOf(sess[s].op, x) = {c} => db.rows[x] = c.after
      /\ \A c, e \in Entry :
           TouchesOf(sess[s].op, x) = {c, e} /\ c.seq < e.seq => db.rows[x] = e.after
  BY <1>5, FitHolds
<1>9. ASSUME NEW c \in Entry, TouchesOf(sess[s].op, x)' = {c} PROVE Reverting(s, c, work.rows[x])'
  <2>1. work'.rows[x] = c.after /\ Left(s, c)'
    BY <1>4, <1>6, <1>7, <1>8, <1>9
  <2>2. QED
    BY <2>1 DEF Reverting, IsDelete
<1>10. ASSUME NEW c \in Entry, NEW e \in Entry, TouchesOf(sess[s].op, x)' = {c, e}, c.seq < e.seq
       PROVE  Replacing(s, c, e, work.rows[x])'
  <2>1. work'.rows[x] = e.after /\ Left(s, c)' /\ Left(s, e)'
    BY <1>4, <1>6, <1>7, <1>8, <1>10
  <2>2. QED
    BY <2>1 DEF Replacing
<1>11. QED
  BY <1>9, <1>10

\* No inverse of an insert is left when the first delete is inverted.
LEMMA InsertsFirst ==
  ASSUME NEW s \in Sessions, NEW v, NextVerdict(s, v), ~IsInsert(v.change),
         NEW u \in sess[s].verdicts \ {v}
  PROVE  ~IsInsert(u.change)
<1>1. Precedes(v.change, u.change)
  BY DEF NextVerdict
<1>2. QED
  BY <1>1 DEF Precedes, Sooner, SortKey, Phase, Inserts, Deletes, Updates

\* A row the operation only updated is no child of one it inserted.
LEMMA UpdatesHaveParents ==
  ASSUME KinInv, OnDelete = "cascade", NEW s \in Sessions, NEW x \in Slots, Fit(s, x),
         sess[s].op \in OpIds, NEW c, TouchesOf(sess[s].op, x) = {c}, IsUpdate(c),
         NEW i \in db.log, i.op = sess[s].op, IsInsert(i)
  PROVE  Parent[x] # i.slot
<1>1. ~db.ops[i.op].capped
  BY DEF Fit, LastWord, OpIds
<1>2. Parented(db, i)
  BY <1>1 DEF KinInv, Kin, Lineage
<1>3. c \in db.log /\ c.op = i.op /\ c.slot = x
  BY DEF TouchesOf, ChangesOf
<1>4. \A w \in db.log : w.op = c.op /\ w.slot = c.slot => w = c
  BY <1>3 DEF TouchesOf, ChangesOf
<1>5. QED
  BY <1>2, <1>3, <1>4 DEF Parented

LEMMA ApplyNextReverts ==
  ASSUME IInv, KinInv, NEW s \in Sessions, Recalls(s), Reverts(s), ApplyNext(s)
  PROVE  Reverts(s)'
<1>1. /\ work \in Database /\ DBInv(work) /\ db \in Database /\ sess \in [Sessions -> Session]
      /\ sess[s].pc = "applying" /\ sess[s].op \in OpIds
  BY DEF IInv, TypeOK, HeaderOK, ApplyNext
<1>2. PICK v \in sess[s].verdicts :
        NextVerdict(s, v) /\ ApplyInverse(work, v, work') /\ db' = db
        /\ sess' = [sess EXCEPT ![s].verdicts = @ \ {v}]
  BY DEF ApplyNext
<1> DEFINE n == v.change
<1>3. /\ v \in Verdict /\ n \in sess[s].changes /\ ~(IsInsert(n) /\ IsDelete(n))
      /\ n.op = sess[s].op /\ n.slot \in Slots
      /\ \A u \in sess[s].verdicts : u.change = n => u = v
      /\ \A c \in sess[s].changes : ~(IsInsert(c) /\ IsDelete(c))
  BY <1>1, <1>2 DEF Session, Recalls, Verdict, Entry
<1>4. work.cur.op # 0
  BY <1>1, ConstantsOK DEF IInv, Locking, Free, InTransaction, Database
<1>5. sess' = [sess EXCEPT ![s] = [sess[s] EXCEPT !.verdicts = sess[s].verdicts \ {v}]]
  BY <1>2
<1>6. /\ sess'[s].changes = sess[s].changes /\ sess'[s].verdicts = sess[s].verdicts \ {v}
      /\ sess'[s].op = sess[s].op
  BY <1>1, <1>5 DEF Session
<1>7. /\ \A c : Left(s, c)' <=> Left(s, c) /\ c # n
      /\ Left(s, n)
      /\ InsertsLeft(s)' => InsertsLeft(s)
      /\ IsInsert(n) => InsertsLeft(s)
      /\ ~IsInsert(n) => ~InsertsLeft(s)
  <2>1. ~IsInsert(n) => \A u \in sess[s].verdicts : ~IsInsert(u.change)
    BY <1>2, InsertsFirst
  <2>2. QED
    BY <1>2, <1>3, <1>6, <2>1 DEF Left, InsertsLeft
<1>8. /\ \A x \in Slots \ {n.slot} :
           \/ work'.rows[x] = work.rows[x]
           \/ /\ IsInsert(n) /\ OnDelete = "cascade"
              /\ Parent[x] = n.slot /\ work'.rows[x] = Absent
      /\ IF IsDelete(n) \/ Matches(work, v) THEN work'.rows[n.slot] = n.before
         ELSE work'.rows[n.slot] = work.rows[n.slot]
  BY <1>1, <1>2, <1>3, <1>4, InverseRows
<1>9. SUFFICES ASSUME NEW x \in Slots, Fit(s, x)
               PROVE  /\ \A c \in Entry : TouchesOf(sess[s].op, x)' = {c} => Reverting(s, c, work.rows[x])'
                      /\ \A c, e \in Entry :
                           /\ TouchesOf(sess[s].op, x)' = {c, e} /\ c.seq < e.seq
                           /\ IsDelete(c) /\ IsInsert(e)
                           => Replacing(s, c, e, work.rows[x])'
  BY <1>2, <1>6, FitElsewhere DEF Reverts
<1> DEFINE T == TouchesOf(sess[s].op, x)
<1>10. TouchesOf(sess[s].op, x)' = T
  BY <1>2, <1>6 DEF TouchesOf, ChangesOf
<1>11. /\ T \subseteq sess[s].changes /\ n \in db.log
       /\ n.slot = x => n \in T
       /\ \A c \in T : c.slot = x
  BY <1>1, <1>3, <1>9, FitKnows DEF TouchesOf
<1>12. n.slot = x => v.status = "clean"
  BY <1>1, <1>2, <1>9 DEF Recalls
<1>13. n.slot = x => (Matches(work, v) <=> work.rows[x] # Absent /\ work.rows[x] = n.after)
  BY <1>12 DEF Matches
<1>14. ASSUME NEW c \in Entry, T = {c} PROVE Reverting(s, c, work.rows[x])'
  <2>1. Reverting(s, c, work.rows[x]) /\ ~(IsInsert(c) /\ IsDelete(c))
    BY <1>1, <1>3, <1>9, <1>11, <1>14 DEF Reverts
  <2>2. IsUpdate(c) /\ n.slot # x => work'.rows[x] = work.rows[x]
    BY <1>1, <1>3, <1>8, <1>9, <1>11, <1>14, UpdatesHaveParents
  <2>3. n.slot = x => n = c
    BY <1>11, <1>14
  <2>4. n = c => n.slot = x
    BY <1>11, <1>14
  <2> HIDE DEF n, T
  <2>5. CASE IsInsert(c)
    BY <1>7, <1>8, <1>13, <2>1, <2>3, <2>4, <2>5 DEF Reverting, IsInsert, IsDelete
  <2>6. CASE IsDelete(c)
    BY <1>7, <1>8, <1>13, <2>1, <2>3, <2>4, <2>6 DEF Reverting, IsInsert, IsDelete
  <2>7. CASE IsUpdate(c)
    BY <1>7, <1>8, <1>13, <2>1, <2>2, <2>3, <2>4, <2>7 DEF Reverting, IsUpdate, IsDelete
  <2>8. QED
    BY <2>5, <2>6, <2>7 DEF IsUpdate
<1>15. ASSUME NEW c \in Entry, NEW e \in Entry,
              T = {c, e}, c.seq < e.seq, IsDelete(c), IsInsert(e)
       PROVE  Replacing(s, c, e, work.rows[x])'
  <2>1. /\ Replacing(s, c, e, work.rows[x])
        /\ ~IsInsert(c) /\ ~IsDelete(e) /\ c # e
    BY <1>1, <1>3, <1>9, <1>11, <1>15 DEF Reverts
  <2>2. /\ n.slot = x => n \in {c, e}
        /\ n \in {c, e} => n.slot = x
    BY <1>11, <1>15
  <2> HIDE DEF n, T
  <2>3. Left(s, e) => InsertsLeft(s)
    BY <1>15 DEF Left, InsertsLeft
  <2>4. CASE n = e
    BY <1>7, <1>8, <1>13, <1>15, <2>1, <2>2, <2>4 DEF Replacing, IsInsert, IsDelete
  <2>5. CASE n = c
    BY <1>7, <1>8, <1>13, <1>15, <2>1, <2>2, <2>3, <2>5 DEF Replacing, IsInsert, IsDelete
  <2>6. CASE n \notin {c, e}
    BY <1>7, <1>8, <2>1, <2>2, <2>3, <2>6 DEF Replacing
  <2>7. QED
    BY <2>4, <2>5, <2>6
<1>16. QED
  BY <1>10, <1>14, <1>15

LEMMA RevertsOn ==
  ASSUME NEW s \in Sessions, Reverts(s), sess'[s] = sess[s],
         sess[s].pc = "applying" => db' = db /\ work' = work
  PROVE  Reverts(s)'
<1>1. CASE sess[s].pc = "applying"
  <2>1. \A x \in Slots : Fit(s, x)' <=> Fit(s, x)
    BY <1>1, FitElsewhere
  <2>2. /\ \A x : TouchesOf(sess[s].op, x)' = TouchesOf(sess[s].op, x)
        /\ \A c, row : Reverting(s, c, row)' <=> Reverting(s, c, row)
        /\ \A c, e, row : Replacing(s, c, e, row)' <=> Replacing(s, c, e, row)
    BY <1>1 DEF TouchesOf, ChangesOf, Reverting, Replacing, Left, InsertsLeft
  <2>3. QED
    BY <1>1, <2>1, <2>2 DEF Reverts
<1>2. CASE sess[s].pc # "applying"
  BY <1>2 DEF Reverts
<1>3. QED
  BY <1>1, <1>2

LEMMA NextReverts ==
  ASSUME IInv, KinInv, \A s \in Sessions : Recalls(s) /\ Reverts(s), [Next]_vars
  PROVE  \A s \in Sessions : Reverts(s)'
<1>1. /\ sess \in [Sessions -> Session]
      /\ \A s \in Sessions : sess[s].pc \in {"running", "applying"} <=> writer = s
  BY DEF IInv, TypeOK, Locking
<1>2. CASE ExternalWrite
  BY <1>1, <1>2, RevertsOn, ConstantsOK DEF ExternalWrite, Free
<1>3. CASE UNCHANGED vars
  BY <1>3, RevertsOn DEF vars
<1>4. ASSUME NEW t \in Sessions, SessionStep(t) PROVE \A s \in Sessions : Reverts(s)'
  <2>1. ASSUME NEW s \in Sessions, s # t PROVE Reverts(s)'
    BY <1>1, <1>4, <2>1, OthersWait, RevertsOn
  <2>2. ASSUME sess'[t].pc # "applying" PROVE Reverts(t)'
    BY <2>2 DEF Reverts
  <2>3. UndoBegin(t) \/ ApplyNext(t) => Reverts(t)'
    BY UndoBeginReverts, ApplyNextReverts
  <2>4. ASSUME Open(t) \/ Close(t) \/ ExecBegin(t) \/ ExecCommit(t) \/ ExecRollback(t)
               \/ Report(t) \/ UndoCommit(t) \/ UndoAbort(t)
        PROVE  sess'[t].pc # "applying"
    BY <1>1, <2>4, RestingTyped DEF Open, Close, ExecBegin, ExecCommit, ExecRollback, Report,
       UndoCommit, UndoAbort, Goto, Session
  <2>5. ASSUME ReadOperation(t) \/ ReadChanges(t) \/ Inspect(t) PROVE sess'[t].pc # "applying"
    BY <2>5, ReadOperationSteps, ReadChangesSteps, InspectSteps DEF IInv, Steps
  <2>6. ASSUME Purge(t) \/ ExecWrite(t) PROVE sess'[t].pc # "applying"
    BY <2>6 DEF Purge, ExecWrite
  <2>7. QED
    BY <1>4, <2>1, <2>2, <2>3, <2>4, <2>5, <2>6 DEF SessionStep, Undoing
<1>5. QED
  BY <1>2, <1>3, <1>4 DEF Next

\* When no inverse is left every row of interest is as it was.
LEMMA UndoCommitRestores ==
  ASSUME IInv, NEW s \in Sessions, Reverts(s), UndoCommit(s), NEW x \in Slots, Fit(s, x)
  PROVE  Restored(s, x)
<1> DEFINE T == TouchesOf(sess[s].op, x)
<1>1. /\ sess[s].pc = "applying" /\ ~InsertsLeft(s) /\ \A c : ~Left(s, c)
      /\ db'.rows = work.rows
  BY UndoCommitRows DEF UndoCommit, Left, InsertsLeft
<1>2. T \subseteq Entry
  BY DEF IInv, TypeOK, Database, TouchesOf, ChangesOf
<1>3. \/ \E c \in T : T = {c}
      \/ \E c, e \in T : T = {c, e} /\ c.seq < e.seq /\ IsDelete(c) /\ IsInsert(e)
  BY DEF Fit, TouchedSimply
<1>4. /\ \A c \in Entry : T = {c} => Reverting(s, c, work.rows[x])
      /\ \A c, e \in Entry :
           T = {c, e} /\ c.seq < e.seq /\ IsDelete(c) /\ IsInsert(e) =>
             Replacing(s, c, e, work.rows[x])
  BY <1>1 DEF Reverts
<1>5. (\E c \in T : (\A e \in T : c.seq <= e.seq) /\ db'.rows[x] = c.before) => Restored(s, x)
  BY DEF Restored
<1> HIDE DEF T
<1>6. ASSUME NEW c \in T, T = {c} PROVE Restored(s, x)
  <2>1. Reverting(s, c, work.rows[x]) /\ c.seq \in Nat
    BY <1>2, <1>4, <1>6 DEF Entry
  <2>2. work.rows[x] = c.before
    BY <1>1, <2>1 DEF Reverting, IsInsert
  <2>3. \A e \in T : c.seq <= e.seq
    BY <1>6, <2>1
  <2>4. QED
    BY <1>1, <1>5, <1>6, <2>2, <2>3
<1>7. ASSUME NEW c \in T, NEW e \in T, T = {c, e}, c.seq < e.seq, IsDelete(c), IsInsert(e)
      PROVE  Restored(s, x)
  <2>1. Replacing(s, c, e, work.rows[x]) /\ c.seq \in Nat /\ e.seq \in Nat
    BY <1>2, <1>4, <1>7 DEF Entry
  <2>2. work.rows[x] = c.before
    BY <1>1, <2>1 DEF Replacing
  <2>3. \A f \in T : c.seq <= f.seq
    BY <1>7, <2>1
  <2>4. QED
    BY <1>1, <1>5, <1>7, <2>2, <2>3
<1>8. QED
  BY <1>3, <1>6, <1>7

\* An undo that commits has put back every row on which its operation had the
\* last word and which it wrote once or replaced: under either action of the
\* foreign keys, with any number of sessions and whatever is written outside
\* ctrlz, through cascades, the order of the inverses and their guards.
THEOREM PutsBack == Spec => UndoRestores
<1> DEFINE Restoring == KinInv /\ \A s \in Sessions : Recalls(s) /\ Reverts(s)
           Restores ==
             \A s \in Sessions : UndoCommitted(s) =>
               \A c \in sess[s].changes :
                 /\ TouchesOf(sess[s].op, c.slot) \subseteq sess[s].changes
                 /\ LastWord(sess[s].op, c.slot)
                 /\ TouchedSimply(sess[s].op, c.slot)
                 => Restored(s, c.slot)
<1>1. Init => Restoring
  <2> SUFFICES ASSUME Init PROVE Restoring
    OBVIOUS
  <2>1. /\ work = db /\ db.log = {} /\ RefOK(db)
        /\ \A s \in Sessions : sess[s].pc = "closed"
    BY RestingTyped DEF Init
  <2>2. Kin(db)
    BY <2>1 DEF Kin, Lineage
  <2>3. QED
    BY <2>1, <2>2 DEF KinInv, Kin, Families, Recalls, Reverts
<1>2. IInv /\ Restoring /\ [Next]_vars => Restoring'
  <2> SUFFICES ASSUME IInv, Restoring, [Next]_vars PROVE Restoring'
    OBVIOUS
  <2>1. IInv'
    BY NextInv
  <2>2. QED
    BY <2>1, NextKin, NextRecalls, NextReverts
<1>3. ASSUME IInv, Restoring, [Next]_vars PROVE Restores
  <2> SUFFICES ASSUME NEW s \in Sessions, UndoCommitted(s), NEW c \in sess[s].changes,
                      TouchesOf(sess[s].op, c.slot) \subseteq sess[s].changes,
                      LastWord(sess[s].op, c.slot), TouchedSimply(sess[s].op, c.slot)
               PROVE  Restored(s, c.slot)
    OBVIOUS
  <2>1. c.slot \in Slots
    BY <1>3 DEF IInv, TypeOK, Session, Entry
  <2>2. Fit(s, c.slot)
    BY DEF Fit
  <2>3. UndoCommit(s)
    BY <1>3, UndoCommittedIsUndoCommit
  <2>4. QED
    BY <1>3, <2>1, <2>2, <2>3, UndoCommitRestores
<1>4. IInv /\ Restoring /\ [Next]_vars => [Restores]_vars
  BY <1>3
<1> HIDE DEF Restoring
<1>5. QED
  BY <1>1, <1>2, <1>4, Inductive, PTL DEF Spec, UndoRestores
-----------------------------------------------------------------------------
(* What an undo knows of the operation it reverses.                          *)

\* Of an operation run through ctrlz a session that read the changes read all.
Knows(s) ==
  /\ sess[s].pc \in {"inspecting", "applying"}
  /\ db.ops[sess[s].op].source = "ctrlz"
  => ChangesOf(db, sess[s].op) \subseteq sess[s].changes

\* Nobody adds to an operation of ctrlz's that is there, and none takes a used id.
LEMMA ClosedToAll ==
  ASSUME IInv, [Next]_vars, NEW o \in OpIds, o <= db.minted, db'.ops[o].source = "ctrlz"
  PROVE  db.ops[o].source = "ctrlz" /\ ChangesOf(db', o) \subseteq ChangesOf(db, o)
<1>1. db \in Database /\ db.minted \in Nat /\ NoOp.source = "none"
  BY ConstantsOK DEF IInv, TypeOK, Database, NoOp
<1>2. CASE db'.log \subseteq db.log /\ \A p \in OpIds : db'.ops[p] \in {db.ops[p], NoOp}
  BY <1>1, <1>2 DEF ChangesOf
<1>3. CASE ExternalWrite /\ Writes(db, db')
  <2>1. \A c \in db'.log \ db.log : c.op # o
    BY <1>3, OutsideAttributes
  <2>2. Keeps(db, db')
    BY <1>1, <1>3, OutsideWriteKeeps DEF IInv
  <2>3. QED
    BY <2>1, <2>2 DEF Keeps, ChangesOf
<1>4. ASSUME NEW s \in Sessions, ExecCommit(s) \/ UndoCommit(s), writer = s
      PROVE  db.ops[o].source = "ctrlz" /\ ChangesOf(db', o) \subseteq ChangesOf(db, o)
  <2>1. ~Free /\ InTransaction
    BY <1>4, ConstantsOK DEF IInv, Free
  <2>2. o # work.cur.op
    BY <1>1, <2>1 DEF InTransaction, OpIds
  <2>3. db'.ops[o].source = work.ops[o].source
    BY <1>4, ExecCommitWrites, UndoCommitWrites
  <2>4. \A c \in db'.log \ db.log : c.op # o
    BY <1>4, <2>2, CommitAttributes
  <2>5. QED
    BY <2>1, <2>2, <2>3, <2>4 DEF InTransaction, ChangesOf
<1>5. QED
  BY <1>2, <1>3, <1>4, FileSteps

LEMMA NextKnows ==
  ASSUME IInv, \A s \in Sessions : Knows(s), [Next]_vars, NEW s \in Sessions
  PROVE  Knows(s)'
<1>1. sess \in [Sessions -> Session] /\ HeaderOK(sess[s], db)
  BY DEF IInv, TypeOK
<1>2. ASSUME sess[s].pc \in {"inspecting", "applying"}, sess'[s].changes = sess[s].changes,
             sess'[s].op = sess[s].op
      PROVE  Knows(s)'
  BY <1>1, <1>2, ClosedToAll DEF Knows, HeaderOK
<1>3. ASSUME sess'[s].pc \notin {"inspecting", "applying"} PROVE Knows(s)'
  BY <1>3 DEF Knows
<1>4. CASE ReadChanges(s)
  BY <1>1, <1>4 DEF ReadChanges, Knows, Session
<1>5. CASE sess'[s] = sess[s]
  BY <1>2, <1>3, <1>5
<1>6. CASE SessionStep(s)
  <2>1. CASE Inspect(s)
    BY <1>1, <1>2, <2>1 DEF Inspect, Session
  <2>2. CASE UndoBegin(s)
    BY <1>1, <1>2, <2>2 DEF UndoBegin, Assessed, Session
  <2>3. CASE ApplyNext(s)
    BY <1>1, <1>2, <2>3 DEF ApplyNext, Session
  <2>4. CASE Purge(s) \/ ExecWrite(s)
    BY <1>5, <2>4 DEF Purge, ExecWrite
  <2>5. CASE ReadOperation(s)
    BY <1>1, <1>3, <2>5 DEF ReadOperation
  <2>6. CASE \/ Open(s) \/ Close(s) \/ ExecBegin(s) \/ ExecCommit(s) \/ ExecRollback(s)
             \/ Report(s) \/ UndoCommit(s) \/ UndoAbort(s)
    BY <1>1, <1>3, <2>6, RestingTyped DEF Open, Close, ExecBegin, ExecCommit, ExecRollback, Report,
       UndoCommit, UndoAbort, Goto, Session
  <2>7. QED
    BY <1>4, <1>6, <2>1, <2>2, <2>3, <2>4, <2>5, <2>6 DEF SessionStep, Undoing
<1>7. CASE ExternalWrite \/ UNCHANGED vars
  BY <1>5, <1>7 DEF ExternalWrite, vars
<1>8. ASSUME NEW t \in Sessions, t # s, SessionStep(t) PROVE sess'[s] = sess[s]
  BY <1>8, OthersWait
<1>9. QED
  BY <1>5, <1>6, <1>7, <1>8 DEF Next

\* An undo that commits knows all its operation did, if that was run through
\* ctrlz: although assess reads the header, the changes and the rows before the
\* lock is taken, and outside operations go on growing meanwhile.
THEOREM UndosKnow == Spec => UndoKnowsItAll
<1> DEFINE Knowing  == \A s \in Sessions : Knows(s)
           Complete ==
             \A s \in Sessions : UndoCommitted(s) /\ db.ops[sess[s].op].source = "ctrlz" =>
               /\ ChangesOf(db, sess[s].op) \subseteq sess[s].changes
               /\ ~db.ops[sess[s].op].capped
<1>1. Init => Knowing
  BY RestingTyped DEF Init, Knows
<1>2. IInv /\ Knowing /\ [Next]_vars => Knowing'
  BY NextKnows
<1>3. ASSUME IInv, Knowing, [Next]_vars PROVE Complete
  <2> SUFFICES ASSUME NEW s \in Sessions, UndoCommitted(s), db.ops[sess[s].op].source = "ctrlz"
               PROVE  /\ ChangesOf(db, sess[s].op) \subseteq sess[s].changes
                      /\ ~db.ops[sess[s].op].capped
    OBVIOUS
  <2>1. sess[s].pc = "applying"
    BY DEF UndoCommitted
  <2>2. QED
    BY <1>3, <2>1 DEF Knows, IInv, HeaderOK
<1>4. IInv /\ Knowing /\ [Next]_vars => [Complete]_vars
  BY <1>3
<1> HIDE DEF Knowing
<1>5. QED
  BY <1>1, <1>2, <1>4, Inductive, PTL DEF Spec, UndoKnowsItAll
=============================================================================
