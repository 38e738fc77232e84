--------------------------- MODULE MCSqliteEngine ---------------------------
(* Small instances of SqliteEngine for TLC. *)
EXTENDS SqliteEngine, TLC

CONSTANTS parent, child

\* A row of the parent table and the row that references it.
Family == [s \in Slots |-> IF s = child THEN parent ELSE NoSlot]

\* What rows hold is only ever compared.
Interchangeable == Permutations(Vals)
=============================================================================
