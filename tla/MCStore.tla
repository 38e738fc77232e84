------------------------------- MODULE MCStore -------------------------------
(* Small instances of Store for TLC. *)
EXTENDS Store, TLC

CONSTANTS p1, p2, t1, t2

\* Processes are alike, and so are tables.
Interchangeable == Permutations(Procs) \cup Permutations(Tables)
=============================================================================
