--------------------------------- MODULE MCHub ---------------------------------
(* Small instances of Hub for TLC. *)
EXTENDS Hub, TLC

\* Shippers run the same code; an identity carries the name of its shipper.
Interchangeable == Permutations(Shippers)
=============================================================================
