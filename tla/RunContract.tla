----------------------------- MODULE RunContract -----------------------------
(***************************************************************************)
(* The run state machine of src/core/checkpoint_contract.py, as operators:  *)
(* which checkpoint events a run accepts in which state and where they take *)
(* it (validate_state_transition), and which sequences of events a replay   *)
(* accepts (validate_event_sequence).                                       *)
(***************************************************************************)
EXTENDS Naturals, Sequences

TerminalStates == {"COMPLETED", "FAILED", "HALTED"}

RunStates == {"PENDING", "RUNNING", "LLM_WAITING", "TOOL_EXECUTING"} \cup TerminalStates

EventTypes ==
  {"TASK_START", "RUN_STARTED", "LLM_REQUESTED", "LLM_RESPONDED", "TOOL_CALL_CREATED",
   "TOOL_ATTEMPT_STARTED", "TOOL_ATTEMPT_ENDED", "RETRY_SCHEDULED", "TOOL_RESULT_RECEIVED",
   "TOOL_CALL_REJECTED", "LLM_FINAL_RESPONSE", "RUN_COMPLETED", "RUN_FAILED", "RUN_HALTED",
   "TASK_END"}

(***************************************************************************)
(* Of an event's payload the state machine reads one Boolean: the response  *)
(* has tool calls (LLM_RESPONDED), the result is the last of its iteration  *)
(* (TOOL_RESULT_RECEIVED), the task succeeded (TASK_END).                   *)
(***************************************************************************)
Events == [type : EventTypes, flag : BOOLEAN]

(***************************************************************************)
(* Events that a terminal state takes without changing.                     *)
(***************************************************************************)
Absorbs(st) ==
  CASE st = "COMPLETED" -> {"RUN_COMPLETED", "LLM_FINAL_RESPONSE", "TASK_END"}
    [] st = "FAILED"    -> {"RUN_FAILED", "TASK_END"}
    [] st = "HALTED"    -> {"RUN_HALTED"}

(***************************************************************************)
(* Where an event ends the run from any state that is not terminal.         *)
(***************************************************************************)
EndOf(e) ==
  CASE e.type \in {"RUN_COMPLETED", "LLM_FINAL_RESPONSE"} -> "COMPLETED"
    [] e.type = "RUN_FAILED" -> "FAILED"
    [] e.type = "RUN_HALTED" -> "HALTED"
    [] e.type = "TASK_END"   -> IF e.flag THEN "COMPLETED" ELSE "FAILED"
    [] OTHER -> "none"

Starts == {"TASK_START", "RUN_STARTED"}

ToolStarts == {"TOOL_CALL_CREATED", "TOOL_ATTEMPT_STARTED"}

ToolSteps == ToolStarts \cup {"TOOL_ATTEMPT_ENDED", "RETRY_SCHEDULED", "TOOL_CALL_REJECTED"}

(***************************************************************************)
(* The transitions between the other states; "illegal" is                   *)
(* CheckpointStateError.                                                    *)
(***************************************************************************)
MoveOf(st, e) ==
  CASE st = "PENDING" /\ e.type \in Starts -> "RUNNING"
    [] st = "RUNNING" /\ e.type \in Starts \cup {"RETRY_SCHEDULED"} -> "RUNNING"
    [] st \in {"RUNNING", "LLM_WAITING"} /\ e.type = "LLM_REQUESTED" -> "LLM_WAITING"
    [] st \in {"PENDING", "RUNNING", "LLM_WAITING"} /\ e.type \in ToolStarts -> "TOOL_EXECUTING"
    [] st = "LLM_WAITING" /\ e.type = "LLM_RESPONDED" ->
         IF e.flag THEN "TOOL_EXECUTING" ELSE "COMPLETED"
    [] st = "TOOL_EXECUTING" /\ e.type \in ToolSteps -> "TOOL_EXECUTING"
    [] st = "TOOL_EXECUTING" /\ e.type = "TOOL_RESULT_RECEIVED" ->
         IF e.flag THEN "LLM_WAITING" ELSE "TOOL_EXECUTING"
    [] OTHER -> "illegal"

(***************************************************************************)
(* validate_state_transition.                                               *)
(***************************************************************************)
Transition(st, e) ==
  IF st \in TerminalStates
  THEN IF e.type \in Absorbs(st) THEN st ELSE "illegal"
  ELSE IF EndOf(e) # "none" THEN EndOf(e) ELSE MoveOf(st, e)

Accepts(st, e) == Transition(st, e) # "illegal"

(***************************************************************************)
(* validate_event_sequence, for the events of one run: sequence_id counts   *)
(* from 1 without gaps and timestamps do not go back.                       *)
(***************************************************************************)
ValidSequence(events) ==
  \A i \in 1 .. Len(events) :
    /\ events[i].seq = i
    /\ i > 1 => events[i].ts >= events[i - 1].ts
=============================================================================
