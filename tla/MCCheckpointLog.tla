--------------------------- MODULE MCCheckpointLog ---------------------------
(***************************************************************************)
(* Instances of CheckpointLog for TLC.  The offered events are one or more  *)
(* of each class the state machine tells apart: start, request, response    *)
(* with and without tools, result, halt, failure, and a name that is not an *)
(* event type.                                                              *)
(***************************************************************************)
EXTENDS CheckpointLog, TLC

Event(t, flag) == [type |-> t, flag |-> flag]

SomeEvents ==
  {Event("RUN_STARTED", FALSE), Event("LLM_REQUESTED", FALSE), Event("LLM_RESPONDED", TRUE),
   Event("LLM_RESPONDED", FALSE), Event("RUN_HALTED", FALSE), Event("OTHER", FALSE)}

ForthAndBack == {1, -1}

Symmetry == Permutations(Workers) \cup Permutations(Runs)
=============================================================================
