------------------------------- MODULE Ordering -------------------------------
(***************************************************************************)
(* The order in which undo applies inverses: by phase, by the rank of the    *)
(* table among the tables the operation touched, by sequence number.          *)
(***************************************************************************)
EXTENDS Integers, FiniteSets

\* Edges are <<parent, child>>; tables outside T and self references are ignored.
Parents(T, edges, t) == {p \in T \ {t} : <<p, t>> \in edges}

\* Ranked[n]: what has a rank below n, all its parents having one below n - 1.
\* The tables that depend on a cycle never get there, and share the rank after.
TopologicalRank(T, edges) ==
  LET Ranked[n \in 0 .. Cardinality(T)] ==
        IF n = 0 THEN {} ELSE {t \in T : Parents(T, edges, t) \subseteq Ranked[n - 1]}
      rank(t) == Cardinality({n \in 1 .. Cardinality(T) :
                                t \notin Ranked[n] /\ Ranked[n] # Ranked[n - 1]})
  IN  [t \in T |-> rank(t)]

\* The phases: inserts are undone first, then deletes, then updates.
Inserts == 0
Deletes == 1
Updates == 2

\* Inserted rows go children first and newest first, the others the other way.
SortKey(phase, rank, seq) ==
  IF phase = Inserts THEN <<phase, -rank, -seq>> ELSE <<phase, rank, seq>>

Sooner(k, l) ==
  \/ k[1] < l[1]
  \/ k[1] = l[1] /\ k[2] < l[2]
  \/ k[1] = l[1] /\ k[2] = l[2] /\ k[3] < l[3]
=============================================================================
