------------------------- MODULE MCIdempotencyStore -------------------------
(***************************************************************************)
(* Instances of IdempotencyStore for TLC: every worker is a process of its  *)
(* own, with its own owner_id, so workers are interchangeable and so are    *)
(* keys.                                                                    *)
(***************************************************************************)
EXTENDS IdempotencyStore, TLC

OwnOwner == [w \in Workers |-> w]

Symmetry == Permutations(Workers) \cup Permutations(Keys)
=============================================================================
