------------------------------ MODULE AgentRun ------------------------------
(***************************************************************************)
(* One agent run, from log_task_start to its end: AgentLoop.run and resume  *)
(* (src/agent/loop.py), ToolExecutor and RetryManager (src/core), the run   *)
(* budget, cancellation, the hard timeout, and processes that crash and     *)
(* resume the run from the two durable files.                               *)
(*                                                                          *)
(* The files are modelled by what CheckpointLog and IdempotencyStore show   *)
(* of them: log_event, claim, complete and fail are atomic.  The checkpoint *)
(* file is kept as what ReplayEngine.reconstruct_session and                *)
(* RunBudgetEngine.reconstruct_usage compute from its events.  A process    *)
(* takes one step per durable operation or await, so the processes          *)
(* interleave wherever the code lets them.                                  *)
(*                                                                          *)
(* Environment: the LLM answers, fails or hangs; a tool acts and succeeds,  *)
(* acts and reports partial success, fails without having acted, or hangs;  *)
(* the wall clock may pass a claim's TTL at any moment.                     *)
(***************************************************************************)
EXTENDS RunContract, FiniteSets

CONSTANTS
  Procs,          \* processes, each with an AgentLoop and a ToolExecutor
  Calls,          \* provider_call_id values, each used once
  Ops,            \* idempotency keys: run_id plus hash of tool and arguments
  OpOf,           \* call -> its operation
  Invalid,        \* calls that do not validate or name no registered tool
  Gone,           \* the owner_id of a process that died
  MaxBatch,       \* bound: tool calls in one LLM response
  MaxIterations,  \* policy.max_iterations
  MaxToolCalls,   \* policy.max_tool_calls
  MaxAttempts,    \* retry policy max_attempts
  MaxCrashes,     \* bound: crashes
  MaxResumes,     \* bound: calls of resume()
  MaxCancels,     \* bound: processes that are asked to cancel
  MaxFaults,      \* bound: durable operations that fail with an OSError
  MaxLapses       \* bound: claims whose TTL passes

ASSUME CallsAssumption  == OpOf \in [Calls -> Ops] /\ Invalid \subseteq Calls /\ IsFiniteSet(Calls)
ASSUME GoneAssumption   == Gone \notin Procs
ASSUME BoundsAssumption ==
  {MaxBatch, MaxIterations, MaxToolCalls, MaxAttempts,
   MaxCrashes, MaxResumes, MaxCancels, MaxFaults, MaxLapses} \subseteq Nat

VARIABLES
  st,       \* run state the checkpoint file leads to
  pend,     \* pending_tool_calls of the file, in order
  iters,    \* iterations_used of the file
  logged,   \* seen_tool_call_ids of the file
  rec,      \* operation -> its idempotency record
  proc,     \* process -> program counter and locals of run() or resume()
  token,    \* process -> its CancellationToken is cancelled
  minted,   \* calls that the LLM has used
  tried,    \* history: calls of which an attempt was started
  effects,  \* history: operation -> times a tool acted for it
  redo,     \* history: operation -> times its record became claimable although
            \* a tool may have acted: TTL passed or partial success
  spent     \* how much of each bound is used

files == <<st, pend, iters, logged>>

history == <<minted, tried, effects, redo>>

vars == <<st, pend, iters, logged, rec, proc, token, minted, tried, effects, redo, spent>>

-----------------------------------------------------------------------------
Elements(s) == {s[i] : i \in 1 .. Len(s)}

\* pop(c, None): the calls that wait are keyed, so c is there once or not at all.
Without(s, c) ==
  IF c \notin Elements(s) THEN s
  ELSE LET n == CHOOSE i \in 1 .. Len(s) : s[i] = c
       IN  [i \in 1 .. Len(s) - 1 |-> IF i < n THEN s[i] ELSE s[i + 1]]

Idle == [pc |-> "idle", mode |-> "run", used |-> 0, seen |-> {}, batch |-> <<>>,
         attempt |-> 0, outcome |-> "none"]

Awaits == {"waiting", "tool", "acted", "sleep"}

InTry == {"batch", "created", "attempt", "tool", "acted", "failed", "sleep", "settle", "result"}

Over == {"idle", "returned", "yielded", "raised"}

Counters == {"launch", "crash", "resume", "cancel", "fault", "lapse"}

Limit(x) ==
  CASE x = "launch" -> 1
    [] x = "crash"  -> MaxCrashes
    [] x = "resume" -> MaxResumes
    [] x = "cancel" -> MaxCancels
    [] x = "fault"  -> MaxFaults
    [] x = "lapse"  -> MaxLapses

Spend(x) == spent[x] < Limit(x) /\ spent' = [spent EXCEPT ![x] = @ + 1]

\* AgentController.run has logged TASK_START.
Init ==
  /\ st = "RUNNING" /\ pend = <<>> /\ iters = 0 /\ logged = {}
  /\ rec = [o \in Ops |-> [status |-> "NONE", owner |-> Gone, expired |-> FALSE]]
  /\ proc = [p \in Procs |-> Idle]
  /\ token = [p \in Procs |-> FALSE]
  /\ minted = {} /\ tried = {}
  /\ effects = [o \in Ops |-> 0] /\ redo = [o \in Ops |-> 0]
  /\ spent = [x \in Counters |-> 0]

-----------------------------------------------------------------------------
(***************************************************************************)
(* log_event on this run: the new state, and what the replay and the budget *)
(* reconstruction will make of the event.                                   *)
(***************************************************************************)
Event(t, flag) == [type |-> t, flag |-> flag]

Write(t, flag, i, cs) ==
  /\ Accepts(st, Event(t, flag))
  /\ st' = Transition(st, Event(t, flag))
  /\ iters' = IF t \in {"LLM_REQUESTED", "LLM_RESPONDED"} /\ i > iters THEN i ELSE iters
  /\ logged' = IF t \in {"LLM_RESPONDED", "TOOL_ATTEMPT_STARTED", "TOOL_ATTEMPT_ENDED",
                         "TOOL_RESULT_RECEIVED"}
               THEN logged \cup Elements(cs) ELSE logged
  /\ pend' = CASE t = "LLM_RESPONDED" -> pend \o cs
               [] t = "TOOL_RESULT_RECEIVED" -> Without(pend, cs[1])
               [] OTHER -> pend

Goto(p, pc) == proc' = [proc EXCEPT ![p].pc = pc]

(***************************************************************************)
(* Where the two errors of log_event and the store surface.  The try around *)
(* the LLM call turns CheckpointStateError into RUN_FAILED and              *)
(* SystemStateError into RUN_HALTED and a re-raise; the try around a tool   *)
(* turns SystemStateError into RUN_HALTED and None, and lets                *)
(* CheckpointStateError out; the rest is outside any try.                   *)
(***************************************************************************)
RaiseStateError(p) ==
  /\ Goto(p, IF proc[p].pc = "waiting" THEN "failing" ELSE "raised")
  /\ UNCHANGED <<files, rec, token, history, spent>>

RaiseSystemError(p) ==
  /\ Spend("fault")
  /\ Goto(p, CASE proc[p].pc = "waiting" -> "halt_raise"
               [] proc[p].pc \in InTry -> "halt_return"
               [] OTHER -> "raised")
  /\ UNCHANGED <<files, rec, token, history>>

(***************************************************************************)
(* A step of p whose durable operation is one log_event: accepted, refused, *)
(* or failing on disk.                                                      *)
(***************************************************************************)
Logs(p, t, flag, i, cs, local) ==
  \/ /\ Write(t, flag, i, cs)
     /\ proc' = [proc EXCEPT ![p] = local]
     /\ UNCHANGED <<rec, token, effects, redo, spent>>
     /\ minted' = IF t = "LLM_RESPONDED" THEN minted \cup Elements(cs) ELSE minted
     /\ tried' = IF t = "TOOL_ATTEMPT_STARTED" THEN tried \cup Elements(cs) ELSE tried
  \/ ~Accepts(st, Event(t, flag)) /\ RaiseStateError(p)
  \/ RaiseSystemError(p)

Stop(p, pc) == Goto(p, pc) /\ UNCHANGED <<files, rec, token, history, spent>>

At(p, pc) == [proc[p] EXCEPT !.pc = pc]

Call(p) == Head(proc[p].batch)

Op(p) == OpOf[Call(p)]

-----------------------------------------------------------------------------
(***************************************************************************)
(* run(): RUN_STARTED, then the loop with a fresh budget.                   *)
(***************************************************************************)
Run(p) ==
  /\ proc[p].pc = "idle"
  /\ Spend("launch")
  /\ proc' = [proc EXCEPT ![p].pc = IF token[p] THEN "returned" ELSE "starting"]
  /\ UNCHANGED <<files, rec, token, history>>

LogRunStarted(p) ==
  /\ proc[p].pc = "starting"
  /\ Logs(p, "RUN_STARTED", FALSE, 0, <<>>, At(p, "iterate"))

(***************************************************************************)
(* resume(): RecoveryAnalyzer.analyze, reconstruct_session and              *)
(* reconstruct_usage each read the file anew.  A COMPLETED run returns its  *)
(* answer, a FAILED or HALTED one raises RecoveryStateError.                *)
(***************************************************************************)
Resume(p) ==
  /\ proc[p].pc \in Over
  /\ spent["launch"] = 1
  /\ Spend("resume")
  /\ proc' = [proc EXCEPT ![p] =
                [Idle EXCEPT !.mode = "resume",
                             !.pc = CASE st = "COMPLETED" -> "returned"
                                      [] st \in {"FAILED", "HALTED"} -> "raised"
                                      [] OTHER -> "session"]]
  /\ UNCHANGED <<files, rec, token, history>>

ReconstructSession(p) ==
  /\ proc[p].pc = "session"
  /\ proc' = [proc EXCEPT ![p].pc = "usage", ![p].batch = pend]
  /\ UNCHANGED <<files, rec, token, history, spent>>

(***************************************************************************)
(* RunBudgetEngine.decide for di more iterations and dt more tool calls.    *)
(* tool_calls_used is the number of call ids seen.                          *)
(***************************************************************************)
Within(used, seen, di, dt) ==
  used + di <= MaxIterations /\ Cardinality(seen) + dt <= MaxToolCalls

\* Faulty variant: the resumed loop starts a new budget.
ReconstructNoUsage(p) ==
  /\ proc[p].pc = "usage"
  /\ proc' = [proc EXCEPT ![p].pc = IF proc[p].batch = <<>> THEN "iterate" ELSE "batch"]
  /\ UNCHANGED <<files, rec, token, history, spent>>

ReconstructUsage(p) ==
  /\ proc[p].pc = "usage"
  /\ proc' = [proc EXCEPT ![p].used = iters, ![p].seen = logged,
                          ![p].pc = IF ~Within(iters, logged, 0, 0) THEN "halt_return"
                                    ELSE IF proc[p].batch = <<>> THEN "iterate" ELSE "batch"]
  /\ UNCHANGED <<files, rec, token, history, spent>>

-----------------------------------------------------------------------------
(***************************************************************************)
(* The loop.  Top of an iteration: cancelled, over budget, or LLM_REQUESTED.*)
(***************************************************************************)
Iterate(p) ==
  LET me == proc[p]
  IN  /\ me.pc = "iterate"
      /\ CASE token[p] -> Stop(p, "returned")
           [] ~token[p] /\ ~Within(me.used, me.seen, 1, 0) -> Stop(p, "halt_return")
           [] OTHER -> Logs(p, "LLM_REQUESTED", FALSE, me.used + 1, <<>>,
                            [me EXCEPT !.pc = "waiting", !.used = @ + 1])

(***************************************************************************)
(* The response to llm.generate is logged; without tool calls it is the     *)
(* final answer.  Any other exception of the provider fails the run.        *)
(***************************************************************************)
Batches == {s \in UNION {[1 .. n -> Calls \ minted] : n \in 0 .. MaxBatch} :
              \A i, j \in DOMAIN s : i # j => s[i] # s[j]}

Respond(p) ==
  /\ proc[p].pc = "waiting"
  /\ \E cs \in Batches :
       Logs(p, "LLM_RESPONDED", cs # <<>>, proc[p].used, cs,
            [proc[p] EXCEPT !.pc = IF cs = <<>> THEN "final" ELSE "batch", !.batch = cs])

LlmFails(p) ==
  /\ proc[p].pc = "waiting"
  /\ proc' = [proc EXCEPT ![p].pc = "failing", ![p].outcome = "llm_error"]
  /\ UNCHANGED <<files, rec, token, history, spent>>

LogFinalResponse(p) ==
  /\ proc[p].pc = "final"
  /\ Logs(p, "LLM_FINAL_RESPONSE", FALSE, 0, <<>>, At(p, "completing"))

LogRunCompleted(p) ==
  /\ proc[p].pc = "completing"
  /\ Logs(p, "RUN_COMPLETED", FALSE, 0, <<>>, At(p, "returned"))

LogRunFailed(p) ==
  /\ proc[p].pc = "failing"
  /\ Logs(p, "RUN_FAILED", FALSE, 0, <<>>, At(p, "returned"))

LogRunHalted(p) ==
  /\ proc[p].pc \in {"halt_return", "halt_raise"}
  /\ Logs(p, "RUN_HALTED", FALSE, 0, <<>>,
          At(p, IF proc[p].pc = "halt_return" THEN "returned" ELSE "raised"))

(***************************************************************************)
(* The next call of the batch: cancelled, over budget, or ToolExecutor.     *)
(* execute with TOOL_CALL_CREATED.  Only a call id not seen yet is charged. *)
(***************************************************************************)
NextCall(p) ==
  LET me == proc[p]
      isNew == Call(p) \notin me.seen
  IN  /\ me.pc = "batch"
      /\ CASE token[p] -> Stop(p, "returned")
           [] ~token[p] /\ isNew /\ ~Within(me.used, me.seen, 0, 1) -> Stop(p, "halt_return")
           [] OTHER -> Logs(p, "TOOL_CALL_CREATED", FALSE, 0, <<Call(p)>>,
                            [me EXCEPT !.pc = "created", !.seen = @ \cup {Call(p)}])

(***************************************************************************)
(* The call does not validate or names no tool.                             *)
(***************************************************************************)
Reject(p) ==
  /\ proc[p].pc = "created" /\ Call(p) \in Invalid
  /\ Logs(p, "TOOL_CALL_REJECTED", FALSE, 0, <<Call(p)>>, At(p, "result"))

(***************************************************************************)
(* _execute_v2: claim the operation.  A resumed loop yields to the owner of *)
(* a running claim; run() takes "already in progress" as the call's result. *)
(***************************************************************************)
\* Faulty variant: a claim in progress is taken over.
ClaimableAlways(r) == r.status \in {"NONE", "RECOVERABLE", "IN_PROGRESS"}

Claimable(r) ==
  \/ r.status \in {"NONE", "RECOVERABLE"}
  \/ r.status = "IN_PROGRESS" /\ r.expired

Claimed(p) ==
  /\ rec' = [rec EXCEPT ![Op(p)] = [status |-> "IN_PROGRESS", owner |-> p, expired |-> FALSE]]
  /\ proc' = [proc EXCEPT ![p].pc = "attempt", ![p].attempt = 1]
  /\ UNCHANGED <<files, token, history, spent>>

\* Faulty variant: the contender waits for the owner to finish.
ClaimOperationWaits(p) ==
  LET r == rec[Op(p)]
  IN  /\ proc[p].pc = "created" /\ Call(p) \notin Invalid
      /\ \/ Claimable(r) /\ Claimed(p)
         \/ r.status \in {"COMPLETED", "FAILED"} /\ Stop(p, "result")

ClaimOperation(p) ==
  LET r == rec[Op(p)]
  IN  /\ proc[p].pc = "created" /\ Call(p) \notin Invalid
      /\ IF Claimable(r)
         THEN Claimed(p)
         ELSE Stop(p, IF r.status = "IN_PROGRESS" /\ proc[p].mode = "resume"
                      THEN "yielded" ELSE "result")

(***************************************************************************)
(* The store or the checkpoint file cannot be read or written: an OSError   *)
(* becomes SystemStateError; only the claim lets IdempotencyCorruptionError *)
(* through, which no try of the loop catches.                               *)
(***************************************************************************)
StoreFails(p) ==
  /\ \/ proc[p].pc = "created" /\ Call(p) \notin Invalid
     \/ proc[p].pc \in {"session", "usage", "sleep", "settle"}
  /\ RaiseSystemError(p)

StoreCorrupt(p) ==
  /\ proc[p].pc = "created" /\ Call(p) \notin Invalid
  /\ Spend("fault")
  /\ Goto(p, "raised")
  /\ UNCHANGED <<files, rec, token, history>>

(***************************************************************************)
(* execute_with_retry: TOOL_ATTEMPT_STARTED, the tool, TOOL_ATTEMPT_ENDED;  *)
(* a transient failure schedules another attempt, and after the delay the   *)
(* durable run state decides whether it takes place.  Whether a failure is  *)
(* transient (FailureClassifier) and whether its record stays recoverable   *)
(* (error.retryable) are separate: a TimeoutError is retried and then       *)
(* permanent, a failure without an error object is neither.                 *)
(***************************************************************************)
StartAttempt(p) ==
  /\ proc[p].pc = "attempt"
  /\ Logs(p, "TOOL_ATTEMPT_STARTED", FALSE, 0, <<Call(p)>>, At(p, "tool"))

ToolActs(p) ==
  /\ proc[p].pc = "tool"
  /\ Goto(p, "acted")
  /\ effects' = [effects EXCEPT ![Op(p)] = @ + 1]
  /\ UNCHANGED <<files, rec, token, minted, tried, redo, spent>>

EndAttempt(p) ==
  \/ /\ proc[p].pc = "acted"
     /\ \E o \in {"success", "partial"} :
          Logs(p, "TOOL_ATTEMPT_ENDED", FALSE, 0, <<Call(p)>>,
               [proc[p] EXCEPT !.pc = "settle", !.outcome = o])
  \/ /\ proc[p].pc = "tool"
     /\ \E o \in {"recoverable", "fatal"}, transient \in BOOLEAN :
          Logs(p, "TOOL_ATTEMPT_ENDED", FALSE, 0, <<Call(p)>>,
               [proc[p] EXCEPT !.pc = IF transient /\ proc[p].attempt < MaxAttempts
                                      THEN "failed" ELSE "settle",
                               !.outcome = o])

ScheduleRetry(p) ==
  /\ proc[p].pc = "failed"
  /\ Logs(p, "RETRY_SCHEDULED", FALSE, 0, <<Call(p)>>, At(p, "sleep"))

\* Faulty variant: the retry does not look at the durable run state.
BeforeRetryUnchecked(p) ==
  /\ proc[p].pc = "sleep"
  /\ proc' = [proc EXCEPT ![p].pc = "attempt", ![p].attempt = @ + 1]
  /\ UNCHANGED <<files, rec, token, history, spent>>

BeforeRetryAttempt(p) ==
  /\ proc[p].pc = "sleep"
  /\ proc' = [proc EXCEPT ![p] = IF st \in TerminalStates
                                 THEN At(p, "settle")
                                 ELSE [proc[p] EXCEPT !.pc = "attempt", !.attempt = @ + 1]]
  /\ UNCHANGED <<files, rec, token, history, spent>>

(***************************************************************************)
(* _complete_v2 and _fail_v2: a success is COMPLETED, a fatal failure       *)
(* FAILED, everything else, partial success included, RECOVERABLE.  The     *)
(* store refuses a caller that is no longer the owner, which surfaces as    *)
(* SystemStateError.                                                        *)
(***************************************************************************)
Settled(outcome) ==
  CASE outcome = "success" -> "COMPLETED"
    [] outcome = "fatal"   -> "FAILED"
    [] OTHER -> "RECOVERABLE"

Settle(p) ==
  /\ proc[p].pc = "settle"
  /\ IF rec[Op(p)].status = "IN_PROGRESS" /\ rec[Op(p)].owner = p
     THEN /\ rec' = [rec EXCEPT ![Op(p)].status = Settled(proc[p].outcome)]
          /\ redo' = IF proc[p].outcome = "partial"
                     THEN [redo EXCEPT ![Op(p)] = @ + 1] ELSE redo
          /\ Goto(p, "result")
          /\ UNCHANGED <<files, token, minted, tried, effects, spent>>
     ELSE Stop(p, "halt_return")

(***************************************************************************)
(* TOOL_RESULT_RECEIVED; the last result of the batch closes the iteration. *)
(***************************************************************************)
\* Faulty variant: the loop goes on to the LLM after the first call of a batch.
LogResultFirstOnly(p) ==
  /\ proc[p].pc = "result"
  /\ Logs(p, "TOOL_RESULT_RECEIVED", TRUE, 0, <<Call(p)>>,
          [proc[p] EXCEPT !.pc = "iterate", !.batch = <<>>, !.attempt = 0, !.outcome = "none"])

LogResult(p) ==
  LET last == Len(proc[p].batch) = 1
  IN  /\ proc[p].pc = "result"
      /\ Logs(p, "TOOL_RESULT_RECEIVED", last, 0, <<Call(p)>>,
              [proc[p] EXCEPT !.pc = IF last THEN "iterate" ELSE "batch",
                              !.batch = Tail(@), !.attempt = 0, !.outcome = "none"])

-----------------------------------------------------------------------------
(***************************************************************************)
(* asyncio.wait_for: the loop is cancelled where it awaits, and RUN_HALTED  *)
(* is logged.                                                               *)
(***************************************************************************)
\* Faulty variant: a timeout is recorded as a failure.
TimeoutFails(p) == proc[p].pc \in Awaits /\ Stop(p, "failing")

Timeout(p) == proc[p].pc \in Awaits /\ Stop(p, "halt_return")

(***************************************************************************)
(* RunCancellationController.cancel: RUN_HALTED is durable before the token *)
(* of this process is set; a run that refuses RUN_HALTED keeps its token.   *)
(***************************************************************************)
\* Faulty variant: the token is set although the write failed.
CancelTokenFirst(p) ==
  /\ ~token[p]
  /\ Spend("cancel")
  /\ token' = [token EXCEPT ![p] = TRUE]
  /\ UNCHANGED <<files, rec, proc, history>>

Cancel(p) ==
  /\ ~token[p]
  /\ Spend("cancel")
  /\ Write("RUN_HALTED", FALSE, 0, <<>>)
  /\ token' = [token EXCEPT ![p] = TRUE]
  /\ UNCHANGED <<rec, proc, history>>

(***************************************************************************)
(* The process dies and a new one, with a new owner_id, takes its place.    *)
(***************************************************************************)
Crash(p) ==
  /\ proc[p].pc \notin Over
  /\ Spend("crash")
  /\ proc' = [proc EXCEPT ![p] = Idle]
  /\ token' = [token EXCEPT ![p] = FALSE]
  /\ rec' = [o \in Ops |-> IF rec[o].owner = p THEN [rec[o] EXCEPT !.owner = Gone] ELSE rec[o]]
  /\ UNCHANGED <<files, history>>

(***************************************************************************)
(* ttl_seconds pass since a claim that is still IN_PROGRESS.                *)
(***************************************************************************)
Lapse(o) ==
  /\ rec[o].status = "IN_PROGRESS" /\ ~rec[o].expired
  /\ Spend("lapse")
  /\ rec' = [rec EXCEPT ![o].expired = TRUE]
  /\ redo' = [redo EXCEPT ![o] = @ + 1]
  /\ UNCHANGED <<files, proc, token, minted, tried, effects>>

Loop(p) ==
  \/ LogRunStarted(p) \/ ReconstructSession(p) \/ ReconstructUsage(p)
  \/ Iterate(p)
  \/ LogFinalResponse(p) \/ LogRunCompleted(p) \/ LogRunFailed(p) \/ LogRunHalted(p)
  \/ NextCall(p) \/ Reject(p) \/ ClaimOperation(p) \/ StartAttempt(p) \/ ScheduleRetry(p)
  \/ BeforeRetryAttempt(p) \/ Settle(p) \/ LogResult(p)

World(p) ==
  \/ Run(p) \/ Resume(p)
  \/ Respond(p) \/ LlmFails(p)
  \/ StoreFails(p) \/ StoreCorrupt(p)
  \/ ToolActs(p) \/ EndAttempt(p)
  \/ Timeout(p) \/ Cancel(p) \/ Crash(p)

Next ==
  \/ \E p \in Procs : Loop(p) \/ World(p)
  \/ \E o \in Ops : Lapse(o)

(***************************************************************************)
(* The event loop runs a coroutine that can run, and asyncio.wait_for fires *)
(* while it waits.                                                          *)
(***************************************************************************)
Fairness == \A p \in Procs : WF_vars(Loop(p)) /\ WF_vars(Timeout(p))

Spec == Init /\ [][Next]_vars /\ Fairness

-----------------------------------------------------------------------------
Pcs == {"idle", "starting", "session", "usage", "iterate", "waiting", "final", "completing",
        "failing", "halt_return", "halt_raise", "batch", "created", "attempt", "tool", "acted",
        "failed", "sleep", "settle", "result", "returned", "yielded", "raised"}

(***************************************************************************)
(* The variables have the shapes the code gives them, and a process that    *)
(* works on a call has one.                                                 *)
(***************************************************************************)
TypeOK ==
  /\ st \in RunStates
  /\ pend \in Seq(Calls) /\ iters \in Nat /\ logged \in SUBSET Calls
  /\ \A o \in Ops : /\ rec[o].status \in {"NONE", "IN_PROGRESS", "COMPLETED", "FAILED",
                                          "RECOVERABLE"}
                    /\ rec[o].owner \in Procs \cup {Gone}
  /\ \A p \in Procs : /\ proc[p].pc \in Pcs
                      /\ proc[p].batch \in Seq(Calls)
                      /\ proc[p].pc \in InTry => proc[p].batch # <<>>
  /\ minted \in SUBSET Calls /\ tried \subseteq minted

(***************************************************************************)
(* At most one side effect per operation, however processes crash, resume,  *)
(* compete and retry; a second one needs a claim whose TTL passed or a      *)
(* partial success (invariant 6 of docs/PHASE_56_PRODUCTION_READINESS.md).  *)
(***************************************************************************)
AtMostOneEffect == \A o \in Ops : effects[o] <= 1 + redo[o]

(***************************************************************************)
(* The budget holds over the whole run, crashes and resumes included: never *)
(* more LLM iterations than max_iterations, never attempts for more calls   *)
(* than max_tool_calls (RunBudgetEngine.decide: "permits exactly N logical  *)
(* tool calls, never N+1").                                                 *)
(***************************************************************************)
BudgetRespected == iters <= MaxIterations /\ Cardinality(tried) <= MaxToolCalls

(***************************************************************************)
(* A completed run left nothing behind: every call the LLM asked for has    *)
(* its result in the file, and no tool is still at work.                    *)
(***************************************************************************)
CompletedMeansDone ==
  st = "COMPLETED" => /\ pend = <<>>
                      /\ \A p \in Procs : proc[p].pc \notin {"tool", "acted"}

(***************************************************************************)
(* run() and resume() return only when the durable run has ended, so the    *)
(* caller's view, the in-memory token and the file agree.                   *)
(***************************************************************************)
ReturnMeansEnded == \A p \in Procs : proc[p].pc = "returned" => st \in TerminalStates

(***************************************************************************)
(* Durable cancellation authority: once the file says that the run ended,   *)
(* no process asks the LLM for another iteration, starts an attempt of a    *)
(* pending call or goes on to a scheduled retry, whatever its memory says   *)
(* (invariant 1 of docs/PHASE_56_PRODUCTION_READINESS.md).                  *)
(***************************************************************************)
NothingNew ==
  /\ st' = st /\ iters' = iters /\ minted' = minted /\ tried' = tried
  /\ \A p \in Procs : proc[p].pc = "sleep" => proc'[p].pc # "attempt"

EndedRunStaysQuiet == [][(st \in TerminalStates) => NothingNew]_vars

(***************************************************************************)
(* run() returns the answer or None; it raises only when a durable          *)
(* operation failed (the docstring of AgentLoop.run).                       *)
(***************************************************************************)
RaisesOnlyOnFault ==
  \A p \in Procs : proc[p].pc = "raised" /\ proc[p].mode = "run" => spent["fault"] > 0

(***************************************************************************)
(* A run is recorded FAILED only by a loop whose LLM call failed.           *)
(***************************************************************************)
FailsForAReason ==
  [][st # "FAILED" /\ st' = "FAILED"
       => \E p \in Procs : proc[p].pc = "failing" /\ proc[p].outcome = "llm_error"]_vars

(***************************************************************************)
(* Every call of run() and resume() comes to an end: the budget bounds the  *)
(* loop, the timeout bounds every await, and no error leaves it stuck.      *)
(***************************************************************************)
EveryCallEnds == \A p \in Procs : proc[p].pc \notin Over ~> proc[p].pc \in Over
=============================================================================
