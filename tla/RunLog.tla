------------------------------- MODULE RunLog -------------------------------
(***************************************************************************)
(* What CheckpointManager promises its callers: each run has one history,   *)
(* an event is added only when the run's state accepts it, and nothing is   *)
(* ever taken away or reordered.  The history is kept as its length and the *)
(* state it leads to.                                                       *)
(***************************************************************************)
EXTENDS RunContract

CONSTANT Runs    \* run_id values

VARIABLES
  state,   \* run -> RunState
  length   \* run -> number of events logged

Init ==
  /\ state = [r \in Runs |-> "PENDING"]
  /\ length = [r \in Runs |-> 0]

Log(r, e) ==
  /\ length' = [length EXCEPT ![r] = @ + 1]
  /\ Accepts(state[r], e)
  /\ state' = [state EXCEPT ![r] = Transition(@, e)]

Next == \E r \in Runs, e \in Events : Log(r, e)

Spec == Init /\ [][Next]_<<state, length>>
=============================================================================
