--------------------------- MODULE MCMySqlEngine ---------------------------
(* Small instances of MySqlEngine for TLC. *)
EXTENDS MySqlEngine, TLC

CONSTANTS parent, child

\* Two rows of one table, of which one references the other.
Family   == [s \in Slots |-> IF s = child THEN parent ELSE NoSlot]
OneTable == [s \in Slots |-> "tree"]

\* What rows hold is only ever compared.
Interchangeable == Permutations(Vals)
=============================================================================
