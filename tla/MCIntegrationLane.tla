-------------------------- MODULE MCIntegrationLane --------------------------
(* Two tasks in one batch, three commits after the base, three versions of the manifest. *)
EXTENDS IntegrationLane, TLC

Symmetry == Permutations(Tasks)
=============================================================================
