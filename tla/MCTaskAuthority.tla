------------------------- MODULE MCTaskAuthority -------------------------
(* Instances of TaskAuthority for TLC. *)
EXTENDS TaskAuthority, TLC

Terminals == Permutations(Procs)
=============================================================================
