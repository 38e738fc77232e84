-------------------------- MODULE MCPostgresEngine --------------------------
(* Small instances of PostgresEngine for TLC. *)
EXTENDS PostgresEngine, TLC

CONSTANTS parent, child

\* Two rows of one table, of which one references the other.
Family   == [s \in Slots |-> IF s = child THEN parent ELSE NoSlot]
OneTable == [s \in Slots |-> "tree"]

\* The laws of the ranks, on all graphs of three tables.  A table never ranks
\* above one that references it, and below it unless that one depends on a cycle.
Nodes == {"a", "b", "c"}
Graphs == SUBSET (Nodes \X Nodes)

Reaches(edges, p, t) ==
  \/ <<p, t>> \in edges
  \/ \E q \in Nodes : <<p, q>> \in edges /\ (<<q, t>> \in edges
                       \/ \E r \in Nodes : <<q, r>> \in edges /\ <<r, t>> \in edges)

OnCycle(edges, t) == \E u \in Nodes \ {t} : Reaches(edges, t, u) /\ Reaches(edges, u, t)
Cyclic(edges, t)  == \E u \in Nodes : OnCycle(edges, u) /\ (u = t \/ Reaches(edges, u, t))

ASSUME
  \A edges \in Graphs :
     LET rank == TopologicalRank(Nodes, edges)
     IN  \A p, t \in Nodes : p # t /\ <<p, t>> \in edges =>
           /\ rank[p] <= rank[t]
           /\ rank[p] = rank[t] => Cyclic(edges, t)

\* Ranks leave no gap, so what depends on a cycle comes just after all others.
ASSUME
  \A edges \in Graphs, t \in Nodes :
     LET rank == TopologicalRank(Nodes, edges)
     IN  rank[t] > 0 => \E p \in Nodes : rank[p] = rank[t] - 1

\* What rows hold is only ever compared.
Interchangeable == Permutations(Vals)
=============================================================================
