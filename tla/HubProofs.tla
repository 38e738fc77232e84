------------------------------ MODULE HubProofs ------------------------------
(***************************************************************************)
(* Proofs about Hub, for any shippers, batch size and bounds.              *)
(***************************************************************************)
EXTENDS Hub, FiniteSetTheorems, WellFoundedInduction, TLAPS

-----------------------------------------------------------------------------
(* Watermarks and batches.                                                  *)

LEMMA SmallestOf ==
  ASSUME NEW S \in SUBSET Nat, S # {}
  PROVE  \E n \in S : \A m \in S : n <= m
<1>1. \E n \in S : \A m \in S : ~ (<<m, n>> \in OpToRel(<, Nat))
  BY WFMin, NatLessThanWellFounded, Zenon
<1>2. PICK n \in S : \A m \in S : ~ (<<m, n>> \in OpToRel(<, Nat))
  BY <1>1
<1>3. \A m \in S : ~ (m < n)
  BY <1>2 DEF OpToRel
<1>4. QED
  BY <1>3

LEMMA LargestIs ==
  ASSUME NEW bound \in Nat, NEW S \in SUBSET (1 .. bound)
  PROVE  /\ Largest(S, 0) \in S \cup {0}
         /\ \A n \in S : n <= Largest(S, 0)
<1> DEFINE T    == S \cup {0}
           gaps == {n \in Nat : bound - n \in T}
<1>1. \A n \in T : n \in Nat /\ n <= bound
  OBVIOUS
<1>2. gaps \in SUBSET Nat /\ bound \in gaps
  OBVIOUS
<1>3. PICK g \in gaps : \A m \in gaps : g <= m
  BY <1>2, SmallestOf
<1>4. bound - g \in T /\ \A n \in T : n <= bound - g
  <2>1. bound - g \in T /\ g \in Nat
    BY <1>2, <1>3
  <2>2. ASSUME NEW n \in T PROVE n <= bound - g
    <3>1. bound - n \in Nat /\ bound - (bound - n) = n
      BY <1>1, <2>2
    <3>2. bound - n \in gaps
      BY <3>1, <2>2
    <3>3. g <= bound - n
      BY <1>3, <3>2
    <3>4. n \in Nat
      BY <1>1, <2>2
    <3> HIDE DEF T, gaps
    <3>5. QED
      BY <2>1, <3>1, <3>3, <3>4
  <2>3. QED
    BY <2>1, <2>2
<1>5. Largest(S, 0) = CHOOSE n \in T : \A m \in T : m <= n
  BY DEF Largest
<1> HIDE DEF T
<1>6. Largest(S, 0) \in T /\ \A m \in T : m <= Largest(S, 0)
  BY <1>4, <1>5
<1>7. QED
  BY <1>6 DEF T

LEMMA ChangesFinite == IsFiniteSet(Change)
<1> DEFINE f == [x \in Numbers \X Ops |-> [seq |-> x[1], op |-> x[2]]]
<1>1. IsFiniteSet(Numbers) /\ IsFiniteSet(Ops)
  BY HubConstants, FS_Interval DEF Numbers, Ops
<1>2. IsFiniteSet(Numbers \X Ops)
  BY <1>1, FS_Product
<1>3. f \in Surjection(Numbers \X Ops, Change)
  <2>1. \A n \in Numbers, o \in Ops :
          <<n, o>> \in Numbers \X Ops /\ f[<<n, o>>] = [seq |-> n, op |-> o]
    OBVIOUS
  <2>2. \A c \in Change : \E x \in Numbers \X Ops : f[x] = c
    <3> SUFFICES ASSUME NEW c \in Change PROVE \E x \in Numbers \X Ops : f[x] = c
      OBVIOUS
    <3>1. c.seq \in Numbers /\ c.op \in Ops /\ c = [seq |-> c.seq, op |-> c.op]
      BY DEF Change
    <3>2. <<c.seq, c.op>> \in Numbers \X Ops /\ f[<<c.seq, c.op>>] = c
      BY <2>1, <3>1
    <3> HIDE DEF f
    <3>3. QED
      BY <3>2
  <2>3. f \in [Numbers \X Ops -> Change]
    BY DEF Change
  <2>4. QED
    BY <2>2, <2>3 DEF Surjection
<1>4. QED
  BY <1>2, <1>3, FS_Surjection

\* A batch takes every change between the watermark and its own last one.
LEMMA FirstIsPrefix ==
  ASSUME TypeOK, NEW n \in Nat, NEW e \in After(n), NEW b \in FirstOf(After(n)), e.seq <= b.seq
  PROVE  e \in FirstOf(After(n))
<1> DEFINE below == {f \in After(n) : f.seq < e.seq}
           Below == {f \in After(n) : f.seq < b.seq}
<1>1. After(n) \subseteq Change /\ b \in After(n) /\ Cardinality(Below) < Batch
  BY DEF TypeOK, After, FirstOf
<1>2. \A f \in After(n) : f.seq \in Int
  BY <1>1 DEF Change, Numbers
<1>3. below \subseteq Below
  BY <1>1, <1>2
<1>4. Below \subseteq Change
  BY <1>1
<1>5. IsFiniteSet(Below)
  BY <1>4, ChangesFinite, FS_Subset
<1>6. /\ Cardinality(below) <= Cardinality(Below)
      /\ Cardinality(below) \in Nat /\ Cardinality(Below) \in Nat
  BY <1>3, <1>5, FS_Subset, FS_CardinalityType
<1>7. Cardinality(below) < Batch
  BY <1>1, <1>6, HubConstants
<1>8. QED
  BY <1>7 DEF FirstOf

\* Of a batch taken from something, something is taken.
LEMMA FirstIsSome ==
  ASSUME TypeOK, NEW n \in Nat, After(n) # {}
  PROVE  FirstOf(After(n)) # {}
<1> DEFINE S == {e.seq : e \in After(n)}
<1>1. After(n) \subseteq Change
  BY DEF TypeOK, After
<1>2. S \in SUBSET Nat /\ S # {}
  BY <1>1 DEF Change, Numbers
<1>3. PICK least \in S : \A m \in S : least <= m
  BY <1>2, SmallestOf
<1>4. PICK e \in After(n) : e.seq = least
  OBVIOUS
<1>5. {f \in After(n) : f.seq < e.seq} = {}
  <2> SUFFICES ASSUME NEW f \in After(n), f.seq < e.seq PROVE FALSE
    OBVIOUS
  <2>1. f.seq \in S
    OBVIOUS
  <2>2. e.seq <= f.seq
    BY <1>3, <1>4, <2>1
  <2>3. e.seq \in Nat /\ f.seq \in Nat
    BY <1>2, <1>4, <2>1
  <2>4. QED
    BY <2>2, <2>3
<1>6. Cardinality({f \in After(n) : f.seq < e.seq}) < Batch
  BY <1>5, FS_EmptySet, HubConstants
<1>7. QED
  BY <1>6 DEF FirstOf

-----------------------------------------------------------------------------
(* The inductive invariant.                                                 *)

\* Every copy of a change, wherever it is on its way.
Copies == log \cup {e \in Change : \/ \E i \in Ids : e \in hub[i].changes
                                  \/ \E p \in Shippers : e \in ship[p].batch}

\* A number is assigned once and for all.
Numbered ==
  /\ \A e \in Copies : e.seq \in used
  /\ \A e, f \in Copies : e.seq = f.seq => e = f

\* A number that has been reached: no change to come will be numbered below.
Reached(n) == n = 0 \/ \E u \in used : n <= u

\* Identity i has received every change up to number n.
Received(i, n) ==
  \A e \in log : e.seq <= n => e \in hub[i].changes \/ <<i, e.op>> \in cleared

SourceOK(i) == Reached(hub[i].watermark) /\ Received(i, hub[i].watermark)

\* What a run carries has no gap behind it and none inside.
RunOK(r) ==
  /\ r.pc \in {"changes", "headers", "store"} => Reached(r.since) /\ Received(r.id, r.since)
  /\ r.pc \in {"headers", "store"} =>
       /\ r.batch # {}
       /\ \A e \in log : \A b \in r.batch : r.since < e.seq /\ e.seq <= b.seq => e \in r.batch

\* Whatever a purge of the hub is going to delete has been declared.
Declared ==
  /\ \A t \in trim.left : t \subseteq cleared
  /\ trim.now \subseteq cleared

Basis == TypeOK /\ Numbered /\ Declared

IInv ==
  /\ Basis
  /\ Serial => /\ \A i \in Ids : SourceOK(i)
               /\ \A p \in Shippers : RunOK(ship[p])

LEMMA NothingTyped == Nothing \in Held /\ Resting \in Run
BY HubConstants DEF Nothing, Resting, Held, Run, Step

LEMMA InitIInv == Init => IInv
<1> SUFFICES ASSUME Init PROVE IInv
  OBVIOUS
<1>1. TypeOK
  BY NothingTyped, HubConstants DEF Init, TypeOK, AtRest, Resting, Instant, Change, Ids
<1>2. Numbered /\ Declared
  BY DEF Init, Numbered, Declared, Copies, Nothing, Resting, AtRest
<1>3. QED
  BY <1>1, <1>2 DEF Init, IInv, Basis, SourceOK, Reached, Received, RunOK, Nothing, Resting

-----------------------------------------------------------------------------
(* What keeps the invariant.                                                *)

\* New changes are numbered above all numbers assigned; no copy leaves the hub
\* unless a purge of the hub declared it.
Later ==
  /\ used \subseteq used'
  /\ \A e \in log' \ log : e.seq > 0 /\ \A u \in used : u < e.seq
Keeps ==
  /\ cleared \subseteq cleared'
  /\ \A i \in Ids : \A c \in hub[i].changes : c \in hub'[i].changes \/ <<i, c.op>> \in cleared'

LEMMA ReachedStays ==
  ASSUME NEW n, Reached(n), Later
  PROVE  n = 0 \/ \E u \in used' : n <= u
BY DEF Reached, Later

LEMMA ReceivedStays ==
  ASSUME TypeOK, TypeOK', Later, Keeps, NEW i \in Ids, NEW n \in Nat, Reached(n), Received(i, n)
  PROVE  \A e \in log' : e.seq <= n => e \in hub'[i].changes \/ <<i, e.op>> \in cleared'
<1> SUFFICES ASSUME NEW e \in log', e.seq <= n
             PROVE  e \in hub'[i].changes \/ <<i, e.op>> \in cleared'
  OBVIOUS
<1>1. e.seq \in Nat /\ \A u \in used : u \in Nat
  BY DEF TypeOK, Change, Numbers
<1>2. e \in log
  BY <1>1 DEF Reached, Later
<1>3. QED
  BY <1>2 DEF Received, Keeps

LEMMA RunStays ==
  ASSUME Basis, TypeOK', Later, Keeps, NEW p \in Shippers, RunOK(ship[p]), ship'[p] = ship[p]
  PROVE  RunOK(ship[p])'
<1>1. /\ ship[p] \in Run
      /\ ship[p].pc \in {"changes", "headers", "store"} => ship[p].id \in Ids
  BY DEF Basis, TypeOK, Run
<1>2. ship[p].since \in Nat /\ ship[p].batch \subseteq Change
  BY <1>1 DEF Run
<1>3. ASSUME ship[p].pc \in {"changes", "headers", "store"}
      PROVE  /\ ship[p].since = 0 \/ \E u \in used' : ship[p].since <= u
             /\ \A e \in log' : e.seq <= ship[p].since =>
                   e \in hub'[ship[p].id].changes \/ <<ship[p].id, e.op>> \in cleared'
  <2>1. Reached(ship[p].since) /\ Received(ship[p].id, ship[p].since)
    BY <1>3 DEF RunOK
  <2>2. QED
    BY <1>1, <1>2, <1>3, <2>1, ReachedStays, ReceivedStays DEF Basis
<1>4. ASSUME ship[p].pc \in {"headers", "store"}, NEW e \in log', NEW b \in ship[p].batch,
             ship[p].since < e.seq, e.seq <= b.seq
      PROVE  e \in ship[p].batch
  <2>1. b \in Copies
    BY <1>2, <1>4 DEF Copies
  <2>2. b.seq \in used
    BY <2>1 DEF Basis, Numbered
  <2>3. e.seq \in Nat /\ b.seq \in Nat
    BY <1>2, <1>4 DEF TypeOK, Change, Numbers
  <2>4. e \in log
    BY <1>4, <2>2, <2>3 DEF Later
  <2>5. QED
    BY <1>4, <2>4 DEF RunOK
<1>5. ship[p].pc \in {"headers", "store"} => ship[p].batch # {}
  BY DEF RunOK
<1>6. QED
  BY <1>3, <1>4, <1>5 DEF RunOK, Reached, Received

\* Copies that only move or go keep their numbers.
LEMMA NumberedStays ==
  ASSUME Numbered, Copies' \subseteq Copies, used \subseteq used'
  PROVE  Numbered'
BY DEF Numbered

LEMMA SourceStays ==
  ASSUME Basis, TypeOK', Later, Keeps, NEW i \in Ids, SourceOK(i),
         hub'[i].watermark = hub[i].watermark
  PROVE  SourceOK(i)'
<1>1. hub[i].watermark \in Nat
  BY DEF Basis, TypeOK, Held
<1>2. /\ hub[i].watermark = 0 \/ \E u \in used' : hub[i].watermark <= u
      /\ \A e \in log' : e.seq <= hub[i].watermark =>
            e \in hub'[i].changes \/ <<i, e.op>> \in cleared'
  BY <1>1, ReachedStays, ReceivedStays DEF SourceOK, Basis
<1>3. QED
  BY <1>2 DEF SourceOK, Reached, Received

\* The database and the hub's purges rest, and shipper p moves on: its new run is
\* in order, and so is the source it may have written.
LEMMA ShipperStep ==
  ASSUME IInv, NEW p \in Shippers, TypeOK', Copies' \subseteq Copies,
         UNCHANGED <<log, used, cleared, trim>>,
         \A q \in Shippers \ {p} : ship'[q] = ship[q],
         \A i \in Ids : hub[i].changes \subseteq hub'[i].changes,
         Serial => \A i \in Ids : hub'[i].watermark = hub[i].watermark \/ SourceOK(i)',
         Serial => RunOK(ship[p])'
  PROVE  IInv'
<1>1. Basis'
  BY NumberedStays DEF IInv, Basis, Declared
<1>2. Later /\ Keeps
  BY DEF Later, Keeps
<1>3. Serial => \A i \in Ids : SourceOK(i)'
  BY <1>2, SourceStays DEF IInv
<1>4. Serial => \A q \in Shippers \ {p} : RunOK(ship[q])'
  BY <1>2, RunStays DEF IInv
<1>5. QED
  BY <1>1, <1>3, <1>4 DEF IInv

\* Shipper p reads: its run has shape r, and the hub's changes stay.
LEMMA ReadingStep ==
  ASSUME IInv, NEW p \in Shippers, NEW r \in Run, ship' = [ship EXCEPT ![p] = r],
         r.pc \notin {"start", "mint"} => r.id # NoId,
         r.batch \subseteq ship[p].batch \cup log,
         UNCHANGED <<database, cleared, trim>>, identity' \in Ids \cup {NoId},
         missed' \subseteq Ids \X Ops,
         hub' \in [Ids -> Held],
         \A i \in Ids : /\ hub'[i].changes = hub[i].changes
                         /\ hub'[i].watermark = hub[i].watermark,
         Serial => RunOK(r)
  PROVE  IInv'
<1>1. ship'[p] = r /\ \A q \in Shippers \ {p} : ship'[q] = ship[q]
  BY DEF IInv, Basis, TypeOK
<1>2. TypeOK'
  BY <1>1 DEF IInv, Basis, TypeOK, database
<1>3. Copies' \subseteq Copies
  <2> SUFFICES ASSUME NEW e \in Copies' PROVE e \in Copies
    OBVIOUS
  <2>1. log' = log
    BY DEF database
  <2>2. ASSUME NEW q \in Shippers, e \in ship'[q].batch, e \in Change PROVE e \in Copies
    BY <1>1, <2>2 DEF Copies
  <2>3. QED
    BY <2>1, <2>2 DEF Copies
<1>4. Serial => RunOK(ship[p])'
  <2>1. r.pc \in {"changes", "headers", "store"} => r.id \in Ids
    BY DEF Run
  <2>2. QED
    BY <1>1, <2>1 DEF RunOK, Reached, Received, database
<1>5. QED
  BY <1>1, <1>2, <1>3, <1>4, ShipperStep DEF database

LEMMA ReadIdentityInv == ASSUME IInv, NEW p \in Shippers, ReadIdentity(p) PROVE IInv'
<1> DEFINE r == [ship[p] EXCEPT !.pc = IF identity = NoId THEN "mint" ELSE "register", !.id = identity]
<1>1. ship \in [Shippers -> Run] /\ ship[p] \in Run /\ identity \in Ids \cup {NoId}
  BY DEF IInv, Basis, TypeOK
<1>2. ship' = [ship EXCEPT ![p] = r]
  BY <1>1 DEF ReadIdentity
<1>3. /\ r \in Run /\ r.pc \in {"mint", "register"} /\ r.batch = ship[p].batch
      /\ r.pc = "register" => r.id # NoId
  BY <1>1 DEF Run, Step
<1> HIDE DEF r
<1>4. RunOK(r)
  BY <1>3 DEF RunOK
<1>5. QED
  BY <1>2, <1>3, <1>4, ReadingStep DEF ReadIdentity, Elsewhere, record, IInv, Basis, TypeOK

LEMMA MintInv == ASSUME IInv, NEW p \in Shippers, Mint(p) PROVE IInv'
<1> DEFINE r == [ship[p] EXCEPT !.pc = "register", !.id = p]
<1>1. ship \in [Shippers -> Run] /\ ship[p] \in Run
  BY DEF IInv, Basis, TypeOK
<1>2. ship' = [ship EXCEPT ![p] = r]
  BY <1>1 DEF Mint
<1>3. r \in Run /\ r.pc = "register" /\ r.batch = ship[p].batch /\ r.id # NoId
  BY <1>1, HubConstants DEF Run, Step, Ids
<1> HIDE DEF r
<1>4. RunOK(r)
  BY <1>3 DEF RunOK
<1>5. QED
  BY <1>2, <1>3, <1>4, ReadingStep DEF Mint, Elsewhere, record, IInv, Basis, TypeOK, Ids

LEMMA RegisterInv == ASSUME IInv, NEW p \in Shippers, Register(p) PROVE IInv'
<1> DEFINE s == ship[p].id
           r == [ship[p] EXCEPT !.pc = "changes", !.since = hub[s].watermark]
<1>1. /\ ship \in [Shippers -> Run] /\ ship[p] \in Run
      /\ hub \in [Ids -> Held] /\ s \in Ids
  BY DEF IInv, Basis, TypeOK, Run, Register
<1>2. ship' = [ship EXCEPT ![p] = r]
  BY <1>1 DEF Register
<1>3. hub[s] \in Held
  BY <1>1
<1>4. hub[s].watermark \in Nat
  BY <1>3 DEF Held
<1>5. /\ r \in Run /\ r.pc = "changes" /\ r.id = s /\ r.since = hub[s].watermark
      /\ r.batch = ship[p].batch
  BY <1>1, <1>4 DEF Run, Step
<1>6. hub' = [hub EXCEPT ![s] = [@ EXCEPT !.known = TRUE]]
  BY <1>1, <1>3 DEF Register, Held
<1>7. /\ [hub[s] EXCEPT !.known = TRUE] \in Held
      /\ [hub[s] EXCEPT !.known = TRUE].changes = hub[s].changes
      /\ [hub[s] EXCEPT !.known = TRUE].watermark = hub[s].watermark
  BY <1>3 DEF Held
<1>8. /\ hub' \in [Ids -> Held]
      /\ \A i \in Ids : hub'[i].changes = hub[i].changes /\ hub'[i].watermark = hub[i].watermark
  BY <1>1, <1>6, <1>7
<1>9. s # NoId
  BY <1>1, HubConstants DEF Ids
<1> HIDE DEF r, s
<1>10. Serial => RunOK(r)
  <2>1. Serial => Reached(r.since) /\ Received(r.id, r.since)
    BY <1>1, <1>5 DEF IInv, SourceOK
  <2>2. QED
    BY <1>5, <2>1 DEF RunOK
<1>11. QED
  BY <1>2, <1>5, <1>8, <1>9, <1>10, ReadingStep DEF Register, Elsewhere, record, IInv, Basis, TypeOK

LEMMA ReadChangesInv == ASSUME IInv, NEW p \in Shippers, ReadChanges(p) PROVE IInv'
<1> DEFINE n   == ship[p].since
           new == FirstOf(After(n))
           r   == [ship[p] EXCEPT !.pc = IF new = {} THEN "marker" ELSE "headers",
                                  !.batch = new, !.unread = {e.op : e \in new}]
<1>1. /\ ship \in [Shippers -> Run] /\ ship[p] \in Run /\ TypeOK
      /\ ship[p].id # NoId /\ ship[p].pc = "changes"
  BY DEF IInv, Basis, TypeOK, ReadChanges
<1>2. ship' = [ship EXCEPT ![p] = r]
  BY <1>1 DEF ReadChanges
<1>3. n \in Nat /\ new \subseteq log /\ log \subseteq Change
  BY <1>1 DEF Run, FirstOf, After, TypeOK
<1>4. new \subseteq Change /\ {e.op : e \in new} \subseteq Ops
  BY <1>3 DEF Change
<1>5. \A e \in log : \A b \in new : n < e.seq /\ e.seq <= b.seq => e \in new
  BY <1>1, <1>3, FirstIsPrefix DEF After
<1> HIDE DEF new
<1>6. /\ r \in Run /\ r.id = ship[p].id /\ r.since = n /\ r.batch = new
      /\ r.pc \in {"marker", "headers"}
      /\ r.pc = "headers" => new # {}
  BY <1>1, <1>4 DEF Run, Step
<1>7. Serial => Reached(n) /\ Received(ship[p].id, n)
  BY <1>1 DEF IInv, RunOK
<1> HIDE DEF r
<1>8. Serial => RunOK(r)
  BY <1>5, <1>6, <1>7 DEF RunOK
<1>9. hub \in [Ids -> Held] /\ identity \in Ids \cup {NoId}
  BY <1>1 DEF TypeOK
<1> HIDE DEF n
<1>10. QED
  BY <1>1, <1>2, <1>3, <1>6, <1>8, <1>9, ReadingStep DEF ReadChanges, Elsewhere, record,
     IInv, Basis, TypeOK

LEMMA ReadHeaderInv == ASSUME IInv, NEW p \in Shippers, ReadHeader(p) PROVE IInv'
<1>1. /\ ship \in [Shippers -> Run] /\ ship[p] \in Run /\ TypeOK
      /\ ship[p].id # NoId /\ ship[p].pc = "headers"
  BY DEF IInv, Basis, TypeOK, ReadHeader
<1>2. PICK o \in ship[p].unread : ship' = [ship EXCEPT
         ![p].pc = IF ship[p].unread = {o} THEN "store" ELSE @,
         ![p].unread = @ \ {o},
         ![p].headers = IF Known(o) THEN @ \cup {[op |-> o, undone |-> stamp[o]]} ELSE @]
  BY DEF ReadHeader
<1> DEFINE now == IF ship[p].unread = {o} THEN "store" ELSE ship[p].pc
           hs  == IF Known(o) THEN ship[p].headers \cup {[op |-> o, undone |-> stamp[o]]}
                  ELSE ship[p].headers
           r   == [ship[p] EXCEPT !.pc = now, !.unread = @ \ {o}, !.headers = hs]
<1>3. ship' = [ship EXCEPT ![p] = r]
  BY <1>1, <1>2
<1>4. o \in Ops /\ stamp[o] \in 0 .. MaxClock
  BY <1>1 DEF Run, TypeOK
<1>5. hs \in SUBSET Header
  BY <1>1, <1>4 DEF Run, Header
<1>6. now \in {"headers", "store"}
  BY <1>1
<1> HIDE DEF hs, now
<1>7. /\ r \in Run /\ r.id = ship[p].id /\ r.since = ship[p].since /\ r.batch = ship[p].batch
      /\ r.pc = now
  BY <1>1, <1>5, <1>6 DEF Run, Step
<1> HIDE DEF r
<1>8. Serial => RunOK(r)
  BY <1>1, <1>6, <1>7 DEF RunOK, IInv
<1>9. hub \in [Ids -> Held] /\ identity \in Ids \cup {NoId}
  BY <1>1 DEF TypeOK
<1>10. QED
  BY <1>1, <1>3, <1>7, <1>8, <1>9, ReadingStep DEF ReadHeader, Elsewhere, record, TypeOK

LEMMA MissHeaderInv == ASSUME IInv, NEW p \in Shippers, MissHeader(p) PROVE IInv'
<1>1. /\ ship \in [Shippers -> Run] /\ ship[p] \in Run /\ TypeOK
      /\ ship[p].id # NoId /\ ship[p].pc = "headers"
  BY DEF IInv, Basis, TypeOK, MissHeader
<1>2. PICK o \in ship[p].unread :
        /\ ship' = [ship EXCEPT ![p].pc = IF ship[p].unread = {o} THEN "store" ELSE @,
                                ![p].unread = @ \ {o}]
        /\ missed' = missed \cup {<<ship[p].id, o>>}
  BY DEF MissHeader
<1> DEFINE now == IF ship[p].unread = {o} THEN "store" ELSE ship[p].pc
           r   == [ship[p] EXCEPT !.pc = now, !.unread = @ \ {o}]
<1>3. ship' = [ship EXCEPT ![p] = r]
  BY <1>1, <1>2
<1>4. missed' \subseteq Ids \X Ops
  BY <1>1, <1>2 DEF Run, TypeOK
<1>5. now \in {"headers", "store"}
  BY <1>1
<1> HIDE DEF now
<1>6. /\ r \in Run /\ r.id = ship[p].id /\ r.since = ship[p].since /\ r.batch = ship[p].batch
      /\ r.pc = now
  BY <1>1, <1>5 DEF Run, Step
<1> HIDE DEF r
<1>7. Serial => RunOK(r)
  BY <1>1, <1>5, <1>6 DEF RunOK, IInv
<1>8. hub \in [Ids -> Held] /\ identity \in Ids \cup {NoId}
  BY <1>1 DEF TypeOK
<1>9. QED
  BY <1>1, <1>3, <1>4, <1>6, <1>7, <1>8, ReadingStep DEF MissHeader

LEMMA ReadMarkerInv == ASSUME IInv, NEW p \in Shippers, ReadMarker(p) PROVE IInv'
<1> DEFINE r == [ship[p] EXCEPT !.pc = "undone", !.marker = hub[ship[p].id].marker]
<1>1. /\ ship \in [Shippers -> Run] /\ ship[p] \in Run /\ TypeOK /\ hub \in [Ids -> Held]
      /\ ship[p].id # NoId /\ ship[p].id \in Ids /\ identity \in Ids \cup {NoId}
  BY DEF IInv, Basis, TypeOK, ReadMarker, Run
<1>2. hub[ship[p].id].marker \in 0 .. MaxClock
  BY <1>1 DEF Held
<1>3. ship' = [ship EXCEPT ![p] = r]
  BY <1>1 DEF ReadMarker
<1>4. r \in Run /\ r.pc = "undone" /\ r.batch = ship[p].batch /\ r.id = ship[p].id
  BY <1>1, <1>2 DEF Run, Step
<1> HIDE DEF r
<1>5. RunOK(r)
  BY <1>4 DEF RunOK
<1>6. QED
  BY <1>1, <1>3, <1>4, <1>5, ReadingStep DEF ReadMarker, Elsewhere, record, TypeOK

LEMMA RestingOK == Resting \in Run /\ Resting.batch = {} /\ Resting.pc = "start" /\ RunOK(Resting)
BY NothingTyped DEF Resting, RunOK

LEMMA ReadUndoneInv == ASSUME IInv, NEW p \in Shippers, ReadUndone(p) PROVE IInv'
<1>1. /\ ship \in [Shippers -> Run] /\ ship[p] \in Run /\ TypeOK /\ hub \in [Ids -> Held]
      /\ ship[p].id # NoId /\ identity \in Ids \cup {NoId} /\ ship[p].pc = "undone"
  BY DEF IInv, Basis, TypeOK, ReadUndone
<1>2. PICK U \in SUBSET Undo :
        ship' = [ship EXCEPT ![p] = IF U = {} THEN Resting
                                    ELSE [@ EXCEPT !.pc = "refresh", !.undos = U]]
  BY DEF ReadUndone
<1> DEFINE r == IF U = {} THEN Resting ELSE [ship[p] EXCEPT !.pc = "refresh", !.undos = U]
<1>3. ship' = [ship EXCEPT ![p] = r]
  BY <1>1, <1>2
<1>4. /\ r \in Run /\ r.pc \in {"start", "refresh"}
      /\ r.pc = "refresh" => r.id = ship[p].id
      /\ r.batch \subseteq ship[p].batch
  BY <1>1, RestingOK DEF Run, Step
<1> HIDE DEF r
<1>5. RunOK(r)
  BY <1>4 DEF RunOK
<1>6. QED
  BY <1>1, <1>3, <1>4, <1>5, ReadingStep DEF ReadUndone, Elsewhere, record, TypeOK

LEMMA FailInv == ASSUME IInv, NEW p \in Shippers, Fail(p) PROVE IInv'
<1>1. ship' = [ship EXCEPT ![p] = Resting]
  BY DEF Fail
<1>2. QED
  BY <1>1, RestingOK, ReadingStep DEF Fail, IInv, Basis, TypeOK

LEMMA UndosTimed ==
  ASSUME NEW U \in SUBSET Undo
  PROVE  /\ Largest({x.at : x \in U}, 0) \in 0 .. MaxClock
         /\ \A o \in Ops : (\E x \in U : x.op = o) => (CHOOSE x \in U : x.op = o).at \in 0 .. MaxClock
<1>1. {x.at : x \in U} \in SUBSET (1 .. MaxClock) /\ MaxClock \in Nat
  BY HubConstants DEF Undo, Instant
<1>2. Largest({x.at : x \in U}, 0) \in {x.at : x \in U} \cup {0}
  BY <1>1, LargestIs
<1>3. Largest({x.at : x \in U}, 0) \in 0 .. MaxClock
  BY <1>1, <1>2
<1>4. ASSUME NEW o \in Ops, \E x \in U : x.op = o
      PROVE  (CHOOSE x \in U : x.op = o).at \in 0 .. MaxClock
  <2>1. (CHOOSE x \in U : x.op = o) \in U
    BY <1>4
  <2>2. QED
    BY <2>1, <1>1
<1>5. QED
  BY <1>3, <1>4

LEMMA RefreshInv == ASSUME IInv, NEW p \in Shippers, Refresh(p) PROVE IInv'
<1> DEFINE s == ship[p].id
           U == ship[p].undos
           h == Refreshed(hub[s], U)
<1>1. /\ ship \in [Shippers -> Run] /\ ship[p] \in Run /\ hub \in [Ids -> Held]
      /\ s \in Ids /\ identity \in Ids \cup {NoId} /\ U \in SUBSET Undo
  BY DEF IInv, Basis, TypeOK, Run, Refresh
<1>2. hub' = [hub EXCEPT ![s] = h] /\ hub[s] \in Held
  BY <1>1 DEF Refresh
<1> DEFINE m == Largest({x.at : x \in U}, 0)
           f == [o \in Ops |-> IF o \in hub[s].ops /\ \E x \in U : x.op = o
                               THEN (CHOOSE x \in U : x.op = o).at ELSE hub[s].undone[o]]
<1>3. h = [hub[s] EXCEPT !.marker = m, !.undone = f]
  BY DEF Refreshed
<1>4. m \in 0 .. MaxClock
  BY <1>1, UndosTimed
<1>5. f \in [Ops -> 0 .. MaxClock]
  BY <1>1, <1>2, UndosTimed DEF Held
<1> HIDE DEF m, f, h, U
<1>6. h \in Held /\ h.changes = hub[s].changes /\ h.watermark = hub[s].watermark
  BY <1>2, <1>3, <1>4, <1>5 DEF Held
<1> HIDE DEF s
<1>7. /\ hub' \in [Ids -> Held]
      /\ \A i \in Ids : hub'[i].changes = hub[i].changes /\ hub'[i].watermark = hub[i].watermark
  BY <1>1, <1>2, <1>6
<1>8. ship' = [ship EXCEPT ![p] = Resting]
  BY DEF Refresh
<1>9. QED
  BY <1>1, <1>7, <1>8, RestingOK, ReadingStep DEF Refresh, Elsewhere, record, IInv, Basis, TypeOK

LEMMA StoreInv == ASSUME IInv, NEW p \in Shippers, Store(p) PROVE IInv'
<1> DEFINE s == ship[p].id
           B == ship[p].batch
           H == ship[p].headers
           S == {e.seq : e \in B}
           h == Stored(hub[s], B, H)
           r == [ship[p] EXCEPT !.pc = "marker", !.batch = {}, !.headers = {}]
           new == {e \in B : \A c \in hub[s].changes : c.seq # e.seq}
           w == Largest(S, 0)
           read == {x.op : x \in H}
           undo == [o \in Ops |-> IF o \in read THEN (CHOOSE x \in H : x.op = o).undone
                                  ELSE hub[s].undone[o]]
           count == [o \in Ops |-> IF o \in read THEN Cardinality({e \in B : e.op = o})
                                   ELSE hub[s].count[o]]
<1>1. /\ ship \in [Shippers -> Run] /\ ship[p] \in Run /\ hub \in [Ids -> Held] /\ TypeOK
      /\ s \in Ids /\ s # NoId /\ B \in SUBSET Change /\ H \in SUBSET Header
      /\ ship[p].since \in Nat
  BY DEF IInv, Basis, TypeOK, Run, Store
<1>2. hub[s] \in Held
  BY <1>1
<1>3. h = [known |-> hub[s].known, watermark |-> w, marker |-> hub[s].marker,
           changes |-> hub[s].changes \cup new, ops |-> hub[s].ops \cup read,
           undone |-> undo, count |-> count]
  BY DEF Stored
<1>4. S \in SUBSET (1 .. MaxSeq) /\ MaxSeq \in Nat
  BY <1>1, HubConstants DEF Change, Numbers
<1>5. w \in S \cup {0} /\ \A n \in S : n <= w
  BY <1>4, LargestIs
<1>6. h \in Held /\ hub[s].changes \subseteq h.changes /\ new \subseteq h.changes
  <2>1. w \in Nat
    BY <1>4, <1>5
  <2>2. read \subseteq Ops
    BY <1>1 DEF Header
  <2>3. undo \in [Ops -> 0 .. MaxClock]
    <3>1. ASSUME NEW o \in read PROVE (CHOOSE x \in H : x.op = o).undone \in 0 .. MaxClock
      <4>1. (CHOOSE x \in H : x.op = o) \in H
        BY <3>1
      <4>2. QED
        BY <4>1, <1>1 DEF Header
    <3>2. hub[s].undone \in [Ops -> 0 .. MaxClock]
      BY <1>2 DEF Held
    <3> HIDE DEF read, H, s
    <3>3. QED
      BY <3>1, <3>2
  <2>4. count \in [Ops -> Nat]
    <3>1. ASSUME NEW o PROVE Cardinality({e \in B : e.op = o}) \in Nat
      <4>1. IsFiniteSet({e \in B : e.op = o})
        BY <1>1, ChangesFinite, FS_Subset
      <4>2. QED
        BY <4>1, FS_CardinalityType
    <3>2. hub[s].count \in [Ops -> Nat]
      BY <1>2 DEF Held
    <3> HIDE DEF read, B, s
    <3>3. QED
      BY <3>1, <3>2
  <2>5. new \subseteq Change
    BY <1>1
  <2> HIDE DEF w, read, undo, count, new, h, s
  <2>6. QED
    BY <1>2, <1>3, <2>1, <2>2, <2>3, <2>4, <2>5 DEF Held
<1>7. hub' = [hub EXCEPT ![s] = h]
  BY DEF Store
<1>8. ship' = [ship EXCEPT ![p] = r]
  BY <1>1 DEF Store
<1>9. r \in Run /\ r.pc = "marker" /\ r.batch = {} /\ r.id = s
  BY <1>1 DEF Run, Step
<1>10. \A e \in B : e \in Copies
  BY <1>1 DEF Copies
<1>11. \A c \in hub[s].changes : c \in Copies
  BY <1>1, <1>2 DEF Copies, Held
<1>12. h.watermark = w
  BY <1>3
<1>13. h.changes = hub[s].changes \cup new
  BY <1>3
<1> HIDE DEF h, r
<1>14. UNCHANGED <<log, used, cleared, missed, trim, stamp, clock, identity>>
  BY DEF Store, Elsewhere, database, record
<1>15. ship'[p] = r /\ \A q \in Shippers \ {p} : ship'[q] = ship[q]
  BY <1>1, <1>8
<1>16. hub'[s] = h /\ \A i \in Ids \ {s} : hub'[i] = hub[i]
  BY <1>1, <1>7
<1>17. TypeOK'
  <2>1. hub' \in [Ids -> Held]
    BY <1>1, <1>6, <1>7
  <2>2. ship' \in [Shippers -> Run]
    BY <1>1, <1>8, <1>9
  <2>3. \A q \in Shippers : ship'[q].pc \notin {"start", "mint"} => ship'[q].id # NoId
    BY <1>1, <1>9, <1>15 DEF TypeOK
  <2>4. QED
    BY <1>1, <1>14, <2>1, <2>2, <2>3 DEF TypeOK
<1>18. Copies' \subseteq Copies
  <2> SUFFICES ASSUME NEW e \in Copies' PROVE e \in Copies
    OBVIOUS
  <2>1. ASSUME NEW i \in Ids, e \in hub'[i].changes, e \in Change PROVE e \in Copies
    BY <1>10, <1>11, <1>13, <1>16, <2>1 DEF Copies
  <2>2. ASSUME NEW q \in Shippers, e \in ship'[q].batch, e \in Change PROVE e \in Copies
    BY <1>9, <1>15, <2>2 DEF Copies
  <2>3. QED
    BY <1>14, <2>1, <2>2 DEF Copies
<1>19. ASSUME Serial
       PROVE  /\ w = 0 \/ \E u \in used' : w <= u
              /\ \A e \in log' : e.seq <= w => e \in h.changes \/ <<s, e.op>> \in cleared'
  <2>1. w = 0 \/ \E u \in used' : w <= u
    <3>1. CASE w = 0
      BY <3>1
    <3>2. CASE w # 0
      <4>1. PICK b \in B : b.seq = w
        BY <1>5, <3>2
      <4>2. w \in used /\ w \in Nat
        BY <1>4, <1>5, <1>10, <4>1 DEF IInv, Basis, Numbered
      <4> HIDE DEF w
      <4>3. QED
        BY <4>2, <1>14
    <3>3. QED
      BY <3>1, <3>2
  <2>2. ASSUME NEW e \in log', e.seq <= w
        PROVE  e \in h.changes \/ <<s, e.op>> \in cleared'
    <3>1. e \in log /\ e \in Change /\ e \in Copies
      BY <1>1, <1>14, <2>2 DEF TypeOK, Copies
    <3>2. e.seq \in Nat \ {0} /\ w \in Nat
      BY <1>4, <1>5, <3>1 DEF Change, Numbers
    <3>3. /\ Received(s, ship[p].since)
          /\ \A b \in B : ship[p].since < e.seq /\ e.seq <= b.seq => e \in B
      BY <1>19, <3>1 DEF IInv, RunOK, Store
    <3>4. CASE e.seq <= ship[p].since
      BY <1>13, <1>14, <3>1, <3>3, <3>4 DEF Received
    <3>5. CASE ship[p].since < e.seq
      <4>1. w \in S
        <5> HIDE DEF w, S
        <5>1. QED
          BY <1>5, <2>2, <3>2
      <4>2. PICK b \in B : b.seq = w
        BY <4>1
      <4>3. e \in B
        BY <2>2, <3>3, <3>5, <4>2
      <4>4. CASE e \in new
        BY <1>6, <4>4
      <4>5. CASE e \notin new
        <5>1. PICK c \in hub[s].changes : c.seq = e.seq
          BY <4>3, <4>5
        <5>2. c = e
          BY <1>11, <3>1, <5>1 DEF IInv, Basis, Numbered
        <5>3. QED
          BY <1>13, <5>1, <5>2
      <4>6. QED
        BY <4>4, <4>5
    <3>6. QED
      BY <1>1, <3>2, <3>4, <3>5
  <2>3. QED
    BY <2>1, <2>2
<1> HIDE DEF s, B, w
<1>20. Serial => \A i \in Ids : hub'[i].watermark = hub[i].watermark \/ SourceOK(i)'
  BY <1>12, <1>16, <1>19 DEF SourceOK, Reached, Received
<1>21. Serial => RunOK(ship[p])'
  BY <1>9, <1>15 DEF RunOK
<1>22. \A i \in Ids : hub[i].changes \subseteq hub'[i].changes
  BY <1>6, <1>16
<1>23. QED
  BY <1>14, <1>15, <1>17, <1>18, <1>20, <1>21, <1>22, ShipperStep

-----------------------------------------------------------------------------
(* The database, and purges of the hub.                                     *)

\* The shippers rest, and what moves keeps numbers, copies and declarations.
LEMMA OtherStep ==
  ASSUME IInv, TypeOK', Numbered', Declared', Keeps, Serial => Later, ship' = ship,
         \A i \in Ids : hub'[i].watermark = hub[i].watermark
  PROVE  IInv'
<1>1. Serial => \A i \in Ids : SourceOK(i)'
  BY SourceStays DEF IInv
<1>2. Serial => \A q \in Shippers : RunOK(ship[q])'
  BY RunStays DEF IInv
<1>3. QED
  BY <1>1, <1>2 DEF IInv, Basis

LEMMA CommitInv == ASSUME IInv, Commit PROVE IInv'
<1>1. TypeOK /\ Numbered /\ Declared
  BY DEF IInv, Basis
<1>2. PICK o \in Ops, spent \in SUBSET Numbers, u \in Ops \cup {0} :
        /\ \/ u = 0 /\ UNCHANGED <<stamp, clock>>
           \/ u # 0 /\ clock \in Instant /\ \E t \in IF Serial THEN {clock} ELSE 1 .. clock :
                /\ stamp' = [stamp EXCEPT ![u] = t]
                /\ clock' = IF Distinct THEN clock + 1 ELSE clock
        /\ Feed!Publish(o, {[seq |-> n, op |-> o] : n \in spent}, {u} \ {0}, spent)
        /\ UNCHANGED <<identity, hub, trim, cleared, ship, record>>
  BY DEF Commit
<1> DEFINE new == {[seq |-> n, op |-> o] : n \in spent}
<1>3. Serial => \A n \in spent, v \in used : v < n
  BY <1>2 DEF Feed!Publish
<1>4. log' = log \cup new /\ used' = used \cup spent /\ spent \cap used = {}
  BY <1>2 DEF Feed!Publish
<1>5. new \subseteq Change /\ \A e \in new : e.seq \in spent
  BY DEF Change
<1>6. \A e, f \in new : e.seq = f.seq => e = f
  OBVIOUS
<1> HIDE DEF new
<1>7. stamp' \in [Ops -> 0 .. MaxClock] /\ clock' \in 1 .. MaxClock + 1
  <2>1. CASE u = 0
    BY <1>1, <1>2, <2>1 DEF TypeOK
  <2>2. CASE u # 0
    <3>1. PICK t \in IF Serial THEN {clock} ELSE 1 .. clock :
            /\ stamp' = [stamp EXCEPT ![u] = t]
            /\ clock' = IF Distinct THEN clock + 1 ELSE clock
      BY <1>2, <2>2
    <3>2. clock \in 1 .. MaxClock /\ MaxClock \in Nat
      BY <1>2, <2>2, HubConstants DEF Instant
    <3>3. t \in 0 .. MaxClock
      BY <3>2
    <3>4. stamp' \in [Ops -> 0 .. MaxClock]
      BY <1>1, <3>1, <3>3 DEF TypeOK
    <3>5. clock' \in 1 .. MaxClock + 1
      BY <3>1, <3>2
    <3>6. QED
      BY <3>4, <3>5
  <2>3. QED
    BY <2>1, <2>2
<1>8. UNCHANGED <<identity, hub, trim, cleared, missed, ship>>
  BY <1>2 DEF record
<1>9. TypeOK'
  BY <1>1, <1>4, <1>5, <1>7, <1>8 DEF TypeOK
<1>10. Numbered'
  <2>1. Copies' = Copies \cup new
    BY <1>4, <1>8 DEF Copies
  <2>2. \A e \in Copies : e.seq \in used
    BY <1>1 DEF Numbered
  <2>3. \A e, f \in Copies' : e.seq = f.seq => e = f
    BY <1>1, <1>4, <1>5, <1>6, <2>1, <2>2 DEF Numbered
  <2>4. QED
    BY <1>4, <1>5, <2>1, <2>2, <2>3 DEF Numbered
<1>11. Serial => Later
  <2>1. \A e \in log' \ log : e.seq \in spent /\ e.seq > 0
    BY <1>4, <1>5 DEF Change, Numbers
  <2>2. QED
    BY <1>3, <1>4, <2>1 DEF Later
<1>12. Keeps /\ Declared'
  BY <1>1, <1>8 DEF Keeps, Declared
<1>13. QED
  BY <1>8, <1>9, <1>10, <1>11, <1>12, OtherStep

LEMMA PurgeInv == ASSUME IInv, Purge PROVE IInv'
<1>1. TypeOK /\ Numbered /\ Declared
  BY DEF IInv, Basis
<1>2. PICK k : stamp' = [o \in Ops |-> IF o < k THEN 0 ELSE stamp[o]]
  BY DEF Purge
<1>3. log' \subseteq log /\ used' = used
  BY DEF Purge, Feed!Forget
<1>4. UNCHANGED <<clock, identity, hub, trim, cleared, missed, ship>>
  BY DEF Purge, record
<1>5. TypeOK'
  <2>1. stamp' \in [Ops -> 0 .. MaxClock]
    BY <1>1, <1>2, HubConstants DEF TypeOK
  <2>2. QED
    BY <1>1, <1>3, <1>4, <2>1 DEF TypeOK
<1>6. Copies' \subseteq Copies
  BY <1>3, <1>4 DEF Copies
<1>7. Numbered'
  BY <1>1, <1>3, <1>6, NumberedStays
<1>8. Later /\ Keeps /\ Declared'
  BY <1>1, <1>3, <1>4 DEF Later, Keeps, Declared
<1>9. QED
  BY <1>4, <1>5, <1>7, <1>8, OtherStep

LEMMA TickInv == ASSUME IInv, Tick PROVE IInv'
<1>1. TypeOK /\ Numbered /\ Declared
  BY DEF IInv, Basis
<1>2. UNCHANGED <<log, used, stamp, identity, hub, trim, cleared, missed, ship>>
  BY DEF Tick, record
<1>3. clock' \in 1 .. MaxClock + 1
  BY <1>1, HubConstants DEF Tick, TypeOK
<1>4. TypeOK'
  BY <1>1, <1>2, <1>3 DEF TypeOK
<1>5. Copies' \subseteq Copies
  BY <1>2 DEF Copies
<1>6. Numbered'
  BY <1>1, <1>2, <1>5, NumberedStays
<1>7. Later /\ Keeps /\ Declared'
  BY <1>1, <1>2 DEF Later, Keeps, Declared
<1>8. QED
  BY <1>2, <1>4, <1>6, <1>7, OtherStep

\* A purge of the hub moves on: changes leave it as declared, and no watermark.
LEMMA TrimStep ==
  ASSUME IInv, TypeOK', Declared', cleared \subseteq cleared',
         UNCHANGED <<log, used, ship>>,
         \A i \in Ids : /\ hub'[i].watermark = hub[i].watermark
                         /\ hub'[i].changes \subseteq hub[i].changes
                         /\ \A c \in hub[i].changes :
                               c \in hub'[i].changes \/ <<i, c.op>> \in cleared'
  PROVE  IInv'
<1>1. Copies' \subseteq Copies
  BY DEF Copies
<1>2. Numbered'
  BY <1>1, NumberedStays DEF IInv, Basis
<1>3. Later /\ Keeps
  BY DEF Later, Keeps
<1>4. QED
  BY <1>2, <1>3, OtherStep

LEMMA TrimBeginInv == ASSUME IInv, TrimBegin PROVE IInv'
<1>1. TypeOK /\ Declared
  BY DEF IInv, Basis
<1>2. PICK left \in {{Ids \X Ops}} \cup {{{x} : x \in OlderThan(k)} : k \in 2 .. MaxOps} :
        /\ trim' = [trim EXCEPT !.left = left]
        /\ cleared' = cleared \cup UNION left
  BY DEF TrimBegin
<1>3. left \in SUBSET SUBSET (Ids \X Ops)
  BY <1>2 DEF OlderThan
<1>4. UNCHANGED <<log, used, stamp, clock, identity, hub, missed, ship>>
  BY DEF TrimBegin, database, record
<1>5. /\ trim \in [table : {"changes", "operation_tables", "operations"},
                   left : SUBSET SUBSET (Ids \X Ops), now : SUBSET (Ids \X Ops)]
      /\ cleared \subseteq Ids \X Ops
  BY <1>1 DEF TypeOK
<1>6. trim'.left = left /\ trim'.now = trim.now /\ trim'.table = trim.table
      /\ trim' \in [table : {"changes", "operation_tables", "operations"},
                    left : SUBSET SUBSET (Ids \X Ops), now : SUBSET (Ids \X Ops)]
  BY <1>2, <1>3, <1>5
<1>7. cleared' \subseteq Ids \X Ops /\ cleared \subseteq cleared'
  BY <1>2, <1>3, <1>5
<1>8. TypeOK'
  BY <1>1, <1>4, <1>6, <1>7 DEF TypeOK
<1>9. Declared'
  BY <1>1, <1>2, <1>6 DEF Declared
<1>10. QED
  BY <1>4, <1>7, <1>8, <1>9, TrimStep

LEMMA TrimChangesInv == ASSUME IInv, TrimChanges PROVE IInv'
<1>1. TypeOK /\ Declared
  BY DEF IInv, Basis
<1>2. PICK t \in trim.left :
        /\ trim' = [table |-> "operation_tables", left |-> trim.left \ {t}, now |-> t]
        /\ hub' = [i \in Ids |->
             [hub[i] EXCEPT !.changes = {e \in @ : <<i, e.op>> \notin t}]]
  BY DEF TrimChanges
<1>3. UNCHANGED <<log, used, stamp, clock, identity, cleared, missed, ship>>
  BY DEF TrimChanges, database, record
<1>4. ASSUME NEW i \in Ids
      PROVE  /\ hub'[i] \in Held /\ hub'[i].watermark = hub[i].watermark
             /\ hub'[i].changes = {e \in hub[i].changes : <<i, e.op>> \notin t}
  <2>1. hub[i] \in Held
    BY <1>1 DEF TypeOK
  <2>2. hub'[i] = [hub[i] EXCEPT !.changes = {e \in @ : <<i, e.op>> \notin t}]
    BY <1>2
  <2>3. QED
    BY <2>1, <2>2 DEF Held
<1>5. hub' = [i \in Ids |-> hub'[i]]
  BY <1>2
<1>6. hub' \in [Ids -> Held]
  BY <1>4, <1>5
<1>7. /\ trim' \in [table : {"changes", "operation_tables", "operations"},
                    left : SUBSET SUBSET (Ids \X Ops), now : SUBSET (Ids \X Ops)]
      /\ trim'.left \subseteq trim.left /\ trim'.now = t
  BY <1>1, <1>2 DEF TypeOK
<1>8. TypeOK'
  BY <1>1, <1>3, <1>6, <1>7 DEF TypeOK
<1>9. Declared' /\ t \subseteq cleared
  BY <1>1, <1>3, <1>7 DEF Declared
<1>10. QED
  BY <1>3, <1>4, <1>8, <1>9, TrimStep

\* The later statements of a purge leave the changes alone.
LEMMA TrimRest ==
  ASSUME IInv, hub' = [i \in Ids |-> hub'[i]],
         \A i \in Ids : /\ hub'[i] \in Held /\ hub'[i].watermark = hub[i].watermark
                         /\ hub'[i].changes = hub[i].changes,
         trim' \in [table : {"changes", "operation_tables", "operations"},
                    left : SUBSET SUBSET (Ids \X Ops), now : SUBSET (Ids \X Ops)],
         trim'.left = trim.left, trim'.now \subseteq trim.now,
         UNCHANGED <<log, used, stamp, clock, identity, cleared, missed, ship>>
  PROVE  IInv'
<1>1. TypeOK /\ Declared
  BY DEF IInv, Basis
<1>2. hub' \in [Ids -> Held]
  OBVIOUS
<1>3. TypeOK'
  BY <1>1, <1>2 DEF TypeOK
<1>4. Declared'
  BY <1>1 DEF Declared
<1>5. QED
  BY <1>3, <1>4, TrimStep

LEMMA TrimTablesInv == ASSUME IInv, TrimTables PROVE IInv'
<1>1. TypeOK
  BY DEF IInv, Basis
<1>2. hub' = [i \in Ids |->
         [hub[i] EXCEPT !.count = [o \in Ops |-> IF <<i, o>> \in trim.now THEN 0 ELSE @[o]]]]
  BY DEF TrimTables
<1>3. ASSUME NEW i \in Ids
      PROVE  /\ hub'[i] \in Held /\ hub'[i].watermark = hub[i].watermark
             /\ hub'[i].changes = hub[i].changes
  <2>1. hub[i] \in Held
    BY <1>1 DEF TypeOK
  <2> DEFINE f == [o \in Ops |-> IF <<i, o>> \in trim.now THEN 0 ELSE hub[i].count[o]]
  <2>2. hub'[i] = [hub[i] EXCEPT !.count = f]
    BY <1>2
  <2>3. f \in [Ops -> Nat]
    BY <2>1 DEF Held
  <2> HIDE DEF f
  <2>4. QED
    BY <2>1, <2>2, <2>3 DEF Held
<1>4. hub' = [i \in Ids |-> hub'[i]]
  BY <1>2
<1>5. /\ trim' \in [table : {"changes", "operation_tables", "operations"},
                    left : SUBSET SUBSET (Ids \X Ops), now : SUBSET (Ids \X Ops)]
      /\ trim'.left = trim.left /\ trim'.now = trim.now
  BY <1>1 DEF TypeOK, TrimTables
<1>6. UNCHANGED <<log, used, stamp, clock, identity, cleared, missed, ship>>
  BY DEF TrimTables, database, record
<1>7. QED
  BY <1>3, <1>4, <1>5, <1>6, TrimRest

LEMMA TrimOperationsInv == ASSUME IInv, TrimOperations PROVE IInv'
<1>1. TypeOK
  BY DEF IInv, Basis
<1>2. hub' = [i \in Ids |->
         [hub[i] EXCEPT !.ops = {o \in @ : <<i, o>> \notin trim.now},
                        !.undone = [o \in Ops |-> IF <<i, o>> \in trim.now THEN 0 ELSE @[o]]]]
  BY DEF TrimOperations
<1>3. ASSUME NEW i \in Ids
      PROVE  /\ hub'[i] \in Held /\ hub'[i].watermark = hub[i].watermark
             /\ hub'[i].changes = hub[i].changes
  <2>1. hub[i] \in Held
    BY <1>1 DEF TypeOK
  <2> DEFINE f == [o \in Ops |-> IF <<i, o>> \in trim.now THEN 0 ELSE hub[i].undone[o]]
             g == {o \in hub[i].ops : <<i, o>> \notin trim.now}
  <2>2. hub'[i] = [hub[i] EXCEPT !.ops = g, !.undone = f]
    BY <1>2
  <2>3. f \in [Ops -> 0 .. MaxClock] /\ g \subseteq Ops
    BY <2>1, HubConstants DEF Held
  <2> HIDE DEF f, g
  <2>4. QED
    BY <2>1, <2>2, <2>3 DEF Held
<1>4. hub' = [i \in Ids |-> hub'[i]]
  BY <1>2
<1>5. /\ trim' \in [table : {"changes", "operation_tables", "operations"},
                    left : SUBSET SUBSET (Ids \X Ops), now : SUBSET (Ids \X Ops)]
      /\ trim'.left = trim.left /\ trim'.now \subseteq trim.now
  BY <1>1 DEF TypeOK, TrimOperations
<1>6. UNCHANGED <<log, used, stamp, clock, identity, cleared, missed, ship>>
  BY DEF TrimOperations, database, record
<1>7. QED
  BY <1>3, <1>4, <1>5, <1>6, TrimRest

-----------------------------------------------------------------------------
(* The theorems.                                                            *)

\* No step of any shipper, of the database or of a purge breaks the invariant.
LEMMA NextInv == ASSUME IInv, [Next]_vars PROVE IInv'
<1>1. CASE Commit
  BY <1>1, CommitInv
<1>2. CASE Purge
  BY <1>2, PurgeInv
<1>3. CASE Tick
  BY <1>3, TickInv
<1>4. CASE Trim
  BY <1>4, TrimBeginInv, TrimChangesInv, TrimTablesInv, TrimOperationsInv DEF Trim
<1>5. ASSUME NEW p \in Shippers, Ship(p) PROVE IInv'
  BY <1>5, ReadIdentityInv, MintInv, RegisterInv, ReadChangesInv, ReadHeaderInv, StoreInv,
     ReadMarkerInv, ReadUndoneInv, RefreshInv DEF Ship
<1>6. ASSUME NEW p \in Shippers, MissHeader(p) \/ Fail(p) PROVE IInv'
  BY <1>6, MissHeaderInv, FailInv
<1>7. CASE UNCHANGED vars
  <2>1. Numbered' /\ Declared' /\ TypeOK'
    BY <1>7 DEF IInv, Basis, Numbered, Copies, Declared, TypeOK, vars, database, record
  <2>2. Keeps /\ Later
    BY <1>7 DEF Keeps, Later, vars, database
  <2>3. QED
    BY <1>7, <2>1, <2>2, OtherStep DEF vars
<1>8. QED
  BY <1>1, <1>2, <1>3, <1>4, <1>5, <1>6, <1>7 DEF Next

LEMMA Inductive == Spec => []IInv
<1>1. IInv /\ [Next]_vars => IInv'
  BY NextInv
<1>2. QED
  BY InitIInv, <1>1, PTL DEF Spec

\* Both stores and all shippers keep their shapes.
THEOREM Typed == Spec => []TypeOK
<1>1. IInv => TypeOK
  BY DEF IInv, Basis
<1>2. QED
  BY <1>1, Inductive, PTL

\* Under a sequence number the hub holds what the database holds, for engines of
\* either kind and however many shippers overlap.
THEOREM Agrees == Spec => []HubAgrees
<1>1. IInv => HubAgrees
  <2> SUFFICES ASSUME IInv, NEW i \in Ids, NEW e \in log, NEW c \in hub[i].changes, c.seq = e.seq
               PROVE  c = e
    BY DEF HubAgrees
  <2>1. hub[i] \in Held
    BY DEF IInv, Basis, TypeOK
  <2>2. c \in Copies /\ e \in Copies
    BY <2>1 DEF Copies, Held
  <2>3. QED
    BY <2>2 DEF IInv, Basis, Numbered
<1>2. QED
  BY <1>1, Inductive, PTL

\* Where writers commit one at a time, no change the watermark has passed is missing
\* from the hub, whatever runs overlap, fail and start over and whatever is purged.
THEOREM Complete == ASSUME Serial PROVE Spec => []NothingSkipped
<1>1. IInv => NothingSkipped
  BY DEF IInv, SourceOK, Received, NothingSkipped
<1>2. QED
  BY <1>1, Inductive, PTL

-----------------------------------------------------------------------------
(* Changes and their headers.                                               *)

\* A run that carries a change still in the database carries its header too, or
\* has yet to ask for it, or asked in vain.
CarriesHeaders(r) ==
  /\ \A e \in r.batch : e \in log =>
        e.op \in r.unread \/ <<r.id, e.op>> \in missed \/ \E x \in r.headers : x.op = e.op
  /\ r.pc \in {"start", "mint"} => r.batch = {}
  /\ r.pc = "store" => r.unread = {}

Headed == ChangesHaveHeaders /\ \A p \in Shippers : CarriesHeaders(ship[p])

\* What comes to the log is new, and the hub knows nothing of it.
LEMMA NewToLog ==
  ASSUME IInv, [Next]_vars, NEW e \in log', e \in Copies
  PROVE  e \in log
<1>1. e.seq \in used
  BY DEF IInv, Basis, Numbered
<1>2. CASE Commit
  <2>1. PICK o \in Ops, spent \in SUBSET Numbers, u \in Ops \cup {0} :
          Feed!Publish(o, {[seq |-> n, op |-> o] : n \in spent}, {u} \ {0}, spent)
    BY <1>2 DEF Commit
  <2>2. QED
    BY <1>1, <2>1 DEF Feed!Publish
<1>3. CASE Purge
  BY <1>3 DEF Purge, Feed!Forget
<1>4. CASE Tick \/ Trim \/ UNCHANGED vars
  BY <1>4 DEF Tick, Trim, TrimBegin, TrimChanges, TrimTables, TrimOperations, vars, database
<1>5. ASSUME NEW p \in Shippers, Ship(p) \/ MissHeader(p) \/ Fail(p) PROVE log' = log
  BY <1>5 DEF Ship, Fail, MissHeader, ReadIdentity, Mint, Register, ReadChanges, ReadHeader, Store, ReadMarker,
     ReadUndone, Refresh, Elsewhere, database, record
<1>6. QED
  BY <1>2, <1>3, <1>4, <1>5 DEF Next

\* The hub's changes go or stay, headers go only if it was declared, and every run
\* goes on with what it has, or with nothing.
LEMMA HeadedStays ==
  ASSUME IInv, Headed, [Next]_vars, cleared \subseteq cleared' /\ missed \subseteq missed',
         \A i \in Ids : /\ hub'[i].changes \subseteq hub[i].changes
                         /\ \A o \in hub[i].ops : o \in hub'[i].ops \/ <<i, o>> \in cleared' \cup missed',
         \A p \in Shippers : ship'[p] = ship[p] \/ (ship'[p].batch = {} /\ ship'[p].pc # "store")
  PROVE  Headed'
<1>1. \A i \in Ids : hub[i].changes \subseteq Copies
  BY DEF IInv, Basis, TypeOK, Held, Copies
<1>2. \A p \in Shippers : ship[p].batch \subseteq Copies
  BY DEF IInv, Basis, TypeOK, Run, Copies
<1>3. ChangesHaveHeaders'
  <2> SUFFICES ASSUME NEW i \in Ids, NEW c \in log', c \in hub'[i].changes
               PROVE  c.op \in hub'[i].ops \/ <<i, c.op>> \in cleared' \cup missed'
    BY DEF ChangesHaveHeaders
  <2>1. c \in log /\ c \in hub[i].changes
    BY <1>1, NewToLog
  <2>2. QED
    BY <2>1 DEF Headed, ChangesHaveHeaders
<1>4. ASSUME NEW p \in Shippers PROVE CarriesHeaders(ship[p])'
  <2>1. \A e \in ship[p].batch : e \in log' => e \in log
    BY <1>2, NewToLog
  <2>2. QED
    BY <2>1 DEF Headed, CarriesHeaders
<1>5. QED
  BY <1>3, <1>4 DEF Headed

\* A step of a shipper that leaves the database and what the hub holds of it alone.
LEMMA HeadedRuns ==
  ASSUME IInv, Headed, NEW p \in Shippers, NEW r, ship' = [ship EXCEPT ![p] = r],
         CarriesHeaders(r), UNCHANGED <<log, cleared, missed>>,
         \A i \in Ids : hub'[i].changes = hub[i].changes /\ hub[i].ops \subseteq hub'[i].ops
  PROVE  Headed'
<1>1. ship \in [Shippers -> Run]
  BY DEF IInv, Basis, TypeOK
<1>2. ship'[p] = r /\ \A q \in Shippers \ {p} : ship'[q] = ship[q]
  BY <1>1
<1>3. \A q \in Shippers : CarriesHeaders(ship[q])'
  BY <1>2 DEF Headed, CarriesHeaders
<1>4. QED
  BY <1>3 DEF Headed, ChangesHaveHeaders

LEMMA ReadChangesHeaded == ASSUME IInv, Headed, NEW p \in Shippers, ReadChanges(p) PROVE Headed'
<1> DEFINE new == FirstOf(After(ship[p].since))
           r   == [ship[p] EXCEPT !.pc = IF new = {} THEN "marker" ELSE "headers",
                                  !.batch = new, !.unread = {e.op : e \in new}]
<1>1. ship \in [Shippers -> Run] /\ ship[p] \in Run /\ TypeOK
  BY DEF IInv, Basis, TypeOK
<1>2. new \subseteq Change
  BY <1>1 DEF FirstOf, After, TypeOK
<1>3. {e.op : e \in new} \subseteq Ops
  BY <1>2 DEF Change
<1>4. ship' = [ship EXCEPT ![p] = r]
  BY <1>1 DEF ReadChanges
<1> HIDE DEF new
<1>5. r \in Run /\ r.batch = new /\ r.unread = {e.op : e \in new}
      /\ r.pc \in {"marker", "headers"}
  BY <1>1, <1>2, <1>3 DEF Run, Step
<1> HIDE DEF r
<1>6. CarriesHeaders(r)
  BY <1>5 DEF CarriesHeaders
<1>7. QED
  BY <1>4, <1>5, <1>6, HeadedRuns DEF ReadChanges, Elsewhere, database, record

\* A header that is asked for is there as long as one of its changes is.
LEMMA ReadHeaderHeaded == ASSUME IInv, Headed, NEW p \in Shippers, ReadHeader(p) PROVE Headed'
<1>1. ship \in [Shippers -> Run] /\ ship[p] \in Run /\ TypeOK /\ ship[p].pc = "headers"
  BY DEF IInv, Basis, TypeOK, ReadHeader
<1>2. PICK o \in ship[p].unread : ship' = [ship EXCEPT
         ![p].pc = IF ship[p].unread = {o} THEN "store" ELSE @,
         ![p].unread = @ \ {o},
         ![p].headers = IF Known(o) THEN @ \cup {[op |-> o, undone |-> stamp[o]]} ELSE @]
  BY DEF ReadHeader
<1> DEFINE now == IF ship[p].unread = {o} THEN "store" ELSE ship[p].pc
           hs  == IF Known(o) THEN ship[p].headers \cup {[op |-> o, undone |-> stamp[o]]}
                  ELSE ship[p].headers
           r   == [ship[p] EXCEPT !.pc = now, !.unread = @ \ {o}, !.headers = hs]
<1>3. ship' = [ship EXCEPT ![p] = r]
  BY <1>1, <1>2
<1>4. o \in Ops /\ stamp[o] \in 0 .. MaxClock
  BY <1>1 DEF Run, TypeOK
<1>5. hs \in SUBSET Header /\ ship[p].headers \subseteq hs
  BY <1>1, <1>4 DEF Run, Header
<1>6. now \in {"headers", "store"} /\ (now = "store" => ship[p].unread \ {o} = {})
  BY <1>1
<1>7. ASSUME Known(o) PROVE \E x \in hs : x.op = o
  <2>1. hs = ship[p].headers \cup {[op |-> o, undone |-> stamp[o]]}
    BY <1>7
  <2>2. [op |-> o, undone |-> stamp[o]] \in hs
    BY <2>1
  <2> QED
    BY <2>2
<1> HIDE DEF hs, now
<1>8. /\ r \in Run /\ r.batch = ship[p].batch /\ r.pc = now /\ r.headers = hs
      /\ r.unread = ship[p].unread \ {o} /\ r.id = ship[p].id
  BY <1>1, <1>5, <1>6 DEF Run, Step
<1> HIDE DEF r
<1>9. ASSUME NEW e \in r.batch, e \in log
      PROVE  \/ e.op \in r.unread \/ <<r.id, e.op>> \in missed
             \/ \E x \in r.headers : x.op = e.op
  <2>1. \/ e.op \in ship[p].unread \/ <<r.id, e.op>> \in missed
        \/ \E x \in ship[p].headers : x.op = e.op
    BY <1>8, <1>9 DEF Headed, CarriesHeaders
  <2>2. e.op = o => Known(o)
    BY <1>9 DEF Known
  <2>3. QED
    BY <1>5, <1>7, <1>8, <2>1, <2>2
<1>10. CarriesHeaders(r)
  BY <1>6, <1>8, <1>9 DEF CarriesHeaders
<1>11. QED
  BY <1>3, <1>8, <1>10, HeadedRuns DEF ReadHeader, Elsewhere, database, record

LEMMA MissHeaderHeaded == ASSUME IInv, Headed, NEW p \in Shippers, MissHeader(p) PROVE Headed'
<1>1. ship \in [Shippers -> Run] /\ ship[p] \in Run /\ ship[p].pc = "headers"
  BY DEF IInv, Basis, TypeOK, MissHeader
<1>2. PICK o \in ship[p].unread :
        /\ ship' = [ship EXCEPT ![p].pc = IF ship[p].unread = {o} THEN "store" ELSE @,
                                ![p].unread = @ \ {o}]
        /\ missed' = missed \cup {<<ship[p].id, o>>}
  BY DEF MissHeader
<1>3. UNCHANGED <<log, cleared, hub>>
  BY DEF MissHeader, database
<1>4. /\ ship'[p].batch = ship[p].batch /\ ship'[p].headers = ship[p].headers
      /\ ship'[p].unread = ship[p].unread \ {o} /\ ship'[p].id = ship[p].id
      /\ ship'[p].pc = "headers" \/ (ship'[p].pc = "store" /\ ship[p].unread = {o})
  BY <1>1, <1>2 DEF Run
<1>5. \A q \in Shippers \ {p} : ship'[q] = ship[q]
  BY <1>1, <1>2
<1>6. CarriesHeaders(ship[p])'
  <2>1. ASSUME NEW e \in ship[p].batch, e \in log
        PROVE  \/ e.op \in ship[p].unread \ {o} \/ <<ship[p].id, e.op>> \in missed'
               \/ \E x \in ship[p].headers : x.op = e.op
    BY <1>2, <2>1 DEF Headed, CarriesHeaders
  <2>2. QED
    BY <1>3, <1>4, <2>1 DEF CarriesHeaders
<1>7. ASSUME NEW q \in Shippers \ {p} PROVE CarriesHeaders(ship[q])'
  <2>1. CarriesHeaders(ship[q]) /\ ship'[q] = ship[q]
    BY <1>5 DEF Headed
  <2>2. log' = log /\ missed \subseteq missed'
    BY <1>2, <1>3
  <2>3. QED
    BY <2>1, <2>2 DEF CarriesHeaders
<1>8. ChangesHaveHeaders'
  BY <1>2, <1>3 DEF Headed, ChangesHaveHeaders
<1>9. QED
  BY <1>6, <1>7, <1>8 DEF Headed

\* The batch is stored with its headers, in one transaction.
LEMMA StoreHeaded == ASSUME IInv, Headed, NEW p \in Shippers, Store(p) PROVE Headed'
<1> DEFINE s == ship[p].id
           B == ship[p].batch
           H == ship[p].headers
           h == Stored(hub[s], B, H)
           r == [ship[p] EXCEPT !.pc = "marker", !.batch = {}, !.headers = {}]
<1>1. /\ ship \in [Shippers -> Run] /\ ship[p] \in Run /\ hub \in [Ids -> Held] /\ s \in Ids
  BY DEF IInv, Basis, TypeOK, Run, Store
<1>2. /\ h.changes \subseteq hub[s].changes \cup B
      /\ h.ops = hub[s].ops \cup {x.op : x \in H}
  BY DEF Stored
<1>3. hub' = [hub EXCEPT ![s] = h] /\ ship' = [ship EXCEPT ![p] = r]
  BY <1>1 DEF Store
<1> HIDE DEF h
<1>4. hub'[s] = h /\ \A i \in Ids \ {s} : hub'[i] = hub[i]
  BY <1>1, <1>3
<1>5. r.batch = {} /\ r.pc = "marker"
  BY <1>1 DEF Run
<1> HIDE DEF r
<1>6. UNCHANGED <<log, cleared, missed>>
  BY DEF Store, Elsewhere, database, record
<1>7. \A e \in B : e \in log => <<s, e.op>> \in missed \/ \E x \in H : x.op = e.op
  BY DEF Headed, CarriesHeaders, Store
<1>8. ChangesHaveHeaders'
  <2> SUFFICES ASSUME NEW i \in Ids, NEW c \in log, c \in hub'[i].changes
               PROVE  c.op \in hub'[i].ops \/ <<i, c.op>> \in cleared \cup missed
    BY <1>6 DEF ChangesHaveHeaders
  <2>1. CASE i = s /\ c \in B
    BY <1>2, <1>4, <1>7, <2>1
  <2>2. CASE c \in hub[i].changes
    BY <1>2, <1>4, <2>2 DEF Headed, ChangesHaveHeaders
  <2>3. QED
    BY <1>2, <1>4, <2>1, <2>2
<1>9. \A q \in Shippers : CarriesHeaders(ship[q])'
  BY <1>1, <1>3, <1>5, <1>6 DEF Headed, CarriesHeaders
<1>10. QED
  BY <1>8, <1>9 DEF Headed

\* The other steps of a run take nothing out of the database, and store nothing.
LEMMA PassingHeaded ==
  ASSUME IInv, Headed, NEW p \in Shippers, NEW r, ship' = [ship EXCEPT ![p] = r],
         r.pc # "store", UNCHANGED <<log, cleared, missed>>,
         \/ r.batch = {}
         \/ /\ r.pc \notin {"start", "mint"} /\ r.id = ship[p].id /\ r.batch = ship[p].batch
            /\ r.unread = ship[p].unread /\ r.headers = ship[p].headers,
         \A i \in Ids : hub'[i].changes = hub[i].changes /\ hub[i].ops \subseteq hub'[i].ops
  PROVE  Headed'
<1>1. CarriesHeaders(r)
  BY DEF Headed, CarriesHeaders
<1>2. QED
  BY <1>1, HeadedRuns

LEMMA ReadingHeaded ==
  ASSUME IInv, Headed, NEW p \in Shippers,
         ReadIdentity(p) \/ Mint(p) \/ ReadMarker(p) \/ ReadUndone(p) \/ Fail(p)
  PROVE  Headed'
<1>1. ship \in [Shippers -> Run] /\ ship[p] \in Run
  BY DEF IInv, Basis, TypeOK
<1>2. UNCHANGED <<log, cleared, missed, hub>>
  BY DEF ReadIdentity, Mint, ReadMarker, ReadUndone, Fail, Elsewhere, database, record
<1>3. \A i \in Ids : hub'[i].changes = hub[i].changes /\ hub[i].ops \subseteq hub'[i].ops
  BY <1>2
<1>4. CASE ReadIdentity(p)
  <2> DEFINE r == [ship[p] EXCEPT !.pc = IF identity = NoId THEN "mint" ELSE "register",
                                  !.id = identity]
  <2>1. ship' = [ship EXCEPT ![p] = r]
    BY <1>1, <1>4 DEF ReadIdentity
  <2>2. r.pc # "store" /\ r.batch = {}
    BY <1>1, <1>4 DEF Run, Headed, CarriesHeaders, ReadIdentity
  <2> HIDE DEF r
  <2>3. QED
    BY <1>2, <1>3, <2>1, <2>2, PassingHeaded
<1>5. CASE Mint(p)
  <2> DEFINE r == [ship[p] EXCEPT !.pc = "register", !.id = p]
  <2>1. ship' = [ship EXCEPT ![p] = r]
    BY <1>1, <1>5 DEF Mint
  <2>2. r.pc # "store" /\ r.batch = {}
    BY <1>1, <1>5 DEF Run, Headed, CarriesHeaders, Mint
  <2> HIDE DEF r
  <2>3. QED
    BY <1>2, <1>3, <2>1, <2>2, PassingHeaded
<1>6. CASE ReadMarker(p)
  <2> DEFINE r == [ship[p] EXCEPT !.pc = "undone", !.marker = hub[ship[p].id].marker]
  <2>1. ship' = [ship EXCEPT ![p] = r]
    BY <1>1, <1>6 DEF ReadMarker
  <2>2. /\ r.pc = "undone" /\ r.id = ship[p].id /\ r.batch = ship[p].batch
        /\ r.unread = ship[p].unread /\ r.headers = ship[p].headers
    BY <1>1 DEF Run
  <2> HIDE DEF r
  <2>3. QED
    BY <1>2, <1>3, <2>1, <2>2, PassingHeaded
<1>7. CASE ReadUndone(p)
  <2>1. PICK U : ship' = [ship EXCEPT ![p] = IF U = {} THEN Resting
                                              ELSE [@ EXCEPT !.pc = "refresh", !.undos = U]]
    BY <1>7 DEF ReadUndone
  <2> DEFINE r == IF U = {} THEN Resting ELSE [ship[p] EXCEPT !.pc = "refresh", !.undos = U]
  <2>2. ship' = [ship EXCEPT ![p] = r]
    BY <1>1, <2>1
  <2>3. \/ r.pc = "start" /\ r.batch = {}
        \/ /\ r.pc = "refresh" /\ r.id = ship[p].id /\ r.batch = ship[p].batch
           /\ r.unread = ship[p].unread /\ r.headers = ship[p].headers
    BY <1>1, RestingOK DEF Run
  <2> HIDE DEF r
  <2>4. QED
    BY <1>2, <1>3, <2>2, <2>3, PassingHeaded
<1>8. CASE Fail(p)
  <2>1. ship' = [ship EXCEPT ![p] = Resting]
    BY <1>8 DEF Fail
  <2>2. Resting.pc # "store" /\ Resting.batch = {}
    BY RestingOK
  <2>3. QED
    BY <1>2, <1>3, <2>1, <2>2, PassingHeaded
<1>9. QED
  BY <1>4, <1>5, <1>6, <1>7, <1>8

LEMMA RegisterHeaded == ASSUME IInv, Headed, NEW p \in Shippers, Register(p) PROVE Headed'
<1> DEFINE s == ship[p].id
           r == [ship[p] EXCEPT !.pc = "changes", !.since = hub[s].watermark]
           h == [hub[s] EXCEPT !.known = TRUE]
<1>1. /\ ship \in [Shippers -> Run] /\ ship[p] \in Run /\ hub \in [Ids -> Held] /\ s \in Ids
  BY DEF IInv, Basis, TypeOK, Run, Register
<1>2. ship' = [ship EXCEPT ![p] = r] /\ hub' = [hub EXCEPT ![s] = h]
  BY <1>1 DEF Register
<1>3. /\ r.pc = "changes" /\ r.id = s /\ r.batch = ship[p].batch
      /\ r.unread = ship[p].unread /\ r.headers = ship[p].headers
  BY <1>1 DEF Run
<1>4. h.changes = hub[s].changes /\ h.ops = hub[s].ops
  BY <1>1 DEF Held
<1> HIDE DEF r, h
<1>5. \A i \in Ids : hub'[i].changes = hub[i].changes /\ hub[i].ops \subseteq hub'[i].ops
  BY <1>1, <1>2, <1>4
<1>6. UNCHANGED <<log, cleared, missed>>
  BY DEF Register, Elsewhere, database, record
<1>7. QED
  BY <1>2, <1>3, <1>5, <1>6, PassingHeaded

LEMMA RefreshHeaded == ASSUME IInv, Headed, NEW p \in Shippers, Refresh(p) PROVE Headed'
<1> DEFINE s == ship[p].id
           h == Refreshed(hub[s], ship[p].undos)
<1>1. /\ ship \in [Shippers -> Run] /\ ship[p] \in Run /\ hub \in [Ids -> Held] /\ s \in Ids
  BY DEF IInv, Basis, TypeOK, Run, Refresh
<1>2. ship' = [ship EXCEPT ![p] = Resting] /\ hub' = [hub EXCEPT ![s] = h]
  BY <1>1 DEF Refresh
<1>3. h.changes = hub[s].changes /\ h.ops = hub[s].ops
  BY <1>1 DEF Refreshed, Held
<1> HIDE DEF h
<1>4. \A i \in Ids : hub'[i].changes = hub[i].changes /\ hub[i].ops \subseteq hub'[i].ops
  BY <1>1, <1>2, <1>3
<1>5. UNCHANGED <<log, cleared, missed>> /\ Resting.pc # "store" /\ Resting.batch = {}
  BY RestingOK DEF Refresh, Elsewhere, database, record
<1>6. QED
  BY <1>2, <1>4, <1>5, PassingHeaded

\* A purge of the hub takes only headers it declared.
LEMMA TrimHeaded == ASSUME IInv, Headed, Trim PROVE Headed'
<1>1. ship' = ship /\ cleared \subseteq cleared' /\ missed \subseteq missed'
  BY DEF Trim, TrimBegin, TrimChanges, TrimTables, TrimOperations, record
<1>2. hub \in [Ids -> Held] /\ Declared
  BY DEF IInv, Basis, TypeOK
<1>3. ASSUME NEW i \in Ids
      PROVE  /\ hub'[i].changes \subseteq hub[i].changes
             /\ \A o \in hub[i].ops : o \in hub'[i].ops \/ <<i, o>> \in cleared' \cup missed'
  <2>1. CASE TrimBegin
    BY <2>1 DEF TrimBegin
  <2>2. CASE TrimChanges
    <3>1. PICK t \in trim.left : hub' = [j \in Ids |->
             [hub[j] EXCEPT !.changes = {e \in @ : <<j, e.op>> \notin t}]]
      BY <2>2 DEF TrimChanges
    <3>2. QED
      BY <1>2, <3>1 DEF Held
  <2>3. CASE TrimTables
    BY <1>2, <2>3 DEF TrimTables, Held
  <2>4. CASE TrimOperations
    <3> DEFINE g == {o \in hub[i].ops : <<i, o>> \notin trim.now}
               f == [o \in Ops |-> IF <<i, o>> \in trim.now THEN 0 ELSE hub[i].undone[o]]
    <3>1. hub'[i] = [hub[i] EXCEPT !.ops = g, !.undone = f]
      BY <2>4 DEF TrimOperations
    <3> HIDE DEF f
    <3>2. hub'[i].changes = hub[i].changes /\ hub'[i].ops = g
      BY <1>2, <3>1 DEF Held
    <3>3. trim.now \subseteq cleared'
      BY <1>1, <1>2 DEF Declared
    <3>4. QED
      BY <3>2, <3>3
  <2>5. QED
    BY <2>1, <2>2, <2>3, <2>4 DEF Trim
<1>4. [Next]_vars
  BY DEF Next
<1>5. QED
  BY <1>1, <1>3, <1>4, HeadedStays

LEMMA HeadedNext == ASSUME IInv, Headed, [Next]_vars PROVE Headed'
<1>1. CASE Commit \/ Purge \/ Tick \/ UNCHANGED vars
  <2>1. UNCHANGED <<hub, ship, cleared, missed>>
    BY <1>1 DEF Commit, Purge, Tick, vars, record
  <2>2. QED
    BY <2>1, HeadedStays
<1>2. ASSUME NEW p \in Shippers, Ship(p) PROVE Headed'
  BY <1>2, ReadingHeaded, RegisterHeaded, ReadChangesHeaded, ReadHeaderHeaded, StoreHeaded,
     RefreshHeaded DEF Ship
<1>3. QED
  BY <1>1, <1>2, TrimHeaded, ReadingHeaded, MissHeaderHeaded DEF Next

\* A change the hub holds is without the operation it belongs to only where the
\* query for that operation's header failed, although headers are read one by one
\* after the changes and may be purged meanwhile: for engines of either kind,
\* overlapping and failing shippers, and purges of the hub.
THEOREM Heads == Spec => []ChangesHaveHeaders
<1>1. Init => Headed
  BY DEF Init, Headed, ChangesHaveHeaders, CarriesHeaders, Resting
<1>2. IInv /\ Headed /\ [Next]_vars => Headed'
  BY HeadedNext
<1>3. Headed => ChangesHaveHeaders
  BY DEF Headed
<1>4. QED
  BY <1>1, <1>2, <1>3, Inductive, PTL DEF Spec
=============================================================================
