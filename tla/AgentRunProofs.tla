---------------------------- MODULE AgentRunProofs ----------------------------
(***************************************************************************)
(* Proofs about AgentRun, for any number of calls, retries, crashes,        *)
(* resumes, cancellations, faults and lapsed claims.  The first part holds  *)
(* for any number of processes that work on the run; the second is about    *)
(* one process at a time, which is what the budget and the end of a run     *)
(* need (two loops at once exceed max_tool_calls, AgentBudget.cfg).         *)
(***************************************************************************)
EXTENDS AgentRun, FiniteSetTheorems, SequenceTheorems, TLAPS

Statuses == {"NONE", "IN_PROGRESS", "COMPLETED", "FAILED", "RECOVERABLE"}
Outcomes == {"none", "llm_error", "success", "partial", "recoverable", "fatal"}
Records  == [status : Statuses, owner : Procs \cup {Gone}, expired : BOOLEAN]
Locals   == [pc : Pcs, mode : {"run", "resume"}, used : Nat, seen : SUBSET Calls,
             batch : Seq(Calls), attempt : Nat, outcome : Outcomes]

-----------------------------------------------------------------------------
(* The inductive invariant of the first part.                              *)

FilesTyped == st \in RunStates /\ pend \in Seq(Calls) /\ iters \in Nat /\ logged \in SUBSET Calls

Typed ==
  /\ FilesTyped
  /\ rec \in [Ops -> Records] /\ proc \in [Procs -> Locals] /\ token \in [Procs -> BOOLEAN]
  /\ minted \in SUBSET Calls /\ tried \in SUBSET Calls
  /\ effects \in [Ops -> Nat] /\ redo \in [Ops -> Nat] /\ spent \in [Counters -> Nat]

\* A process that works on a call has one; one that waits for the LLM has
\* charged an iteration that the policy allows.
Fits(m) == /\ m.pc \in InTry => m.batch # <<>>
           /\ m.pc = "waiting" => m.used <= MaxIterations

AllFit == \A p \in Procs : Fits(proc[p])

\* The token is set after the file, and a loop returns after the file.
Ended == \A p \in Procs : token[p] = TRUE \/ proc[p].pc = "returned" => st \in TerminalStates

\* A process that claimed its operation and for which no tool has acted yet.
IsLive(m) == \/ m.pc \in {"attempt", "tool", "failed", "sleep"}
             \/ m.pc = "settle" /\ m.outcome \notin {"success", "partial"}

Live(o) == {p \in Procs : IsLive(proc[p]) /\ OpOf[Head(proc[p].batch)] = o}

\* Every effect so far, every one that is still to come and the one that a
\* free record would admit are covered.
Covered(o) == /\ IsFiniteSet(Live(o))
              /\ effects[o] + Cardinality(Live(o)) + (IF Claimable(rec[o]) THEN 1 ELSE 0) <= 1 + redo[o]

Safe == Typed /\ AllFit /\ Ended /\ iters <= MaxIterations /\ \A o \in Ops : Covered(o)

-----------------------------------------------------------------------------
(* The inductive invariant of the second part.                             *)

LoopPcs == {"starting", "iterate", "waiting", "batch", "created", "attempt", "tool", "acted",
            "failed", "sleep", "settle", "result"}

Fresh == spent["launch"] = 0 =>
           /\ st # "COMPLETED" /\ pend = <<>> /\ tried = {}
           /\ \A p \in Procs : proc[p] = Idle

\* Attempts are made for calls that were charged, within the budget.
Charged(m, attempted) ==
  m.pc \in LoopPcs =>
    /\ Cardinality(m.seen) <= MaxToolCalls /\ attempted \subseteq m.seen
    /\ m.pc \in InTry \ {"batch"} => Head(m.batch) \in m.seen

\* The batch in memory is what the file still has to do.
InStep(m, queue) ==
  /\ m.pc \in LoopPcs \cup {"usage"} => m.batch = queue
  /\ m.pc \in {"starting", "iterate", "waiting"} => queue = <<>>

\* Where the file is when the process is there.
Follows(m, s) ==
  /\ m.pc \in {"final", "completing"} => s = "COMPLETED"
  /\ m.pc = "waiting" => s \in TerminalStates \cup {"LLM_WAITING"}
  /\ m.pc = "failing" => m.outcome = "llm_error" \/ s \in TerminalStates
  /\ s = "COMPLETED" => m.pc \in Over \cup {"final", "completing"}

Distinct(s) == \A i, j \in 1 .. Len(s) : s[i] = s[j] => i = j

OneLoop ==
  /\ Fresh /\ tried \subseteq logged /\ Cardinality(tried) <= MaxToolCalls
  /\ Distinct(pend) /\ (st = "COMPLETED" => pend = <<>>)
  /\ \A p \in Procs : Charged(proc[p], tried) /\ InStep(proc[p], pend) /\ Follows(proc[p], st)

-----------------------------------------------------------------------------
(* Lemmas about the operators.                                             *)

(* A state that accepts an event goes to a state; an end is final, and the  *)
(* three events that end a run end it.                                      *)
LEMMA Transitions ==
  ASSUME NEW s \in RunStates, NEW t \in EventTypes, NEW flag \in BOOLEAN, Accepts(s, Event(t, flag))
  PROVE  /\ Transition(s, Event(t, flag)) \in RunStates
         /\ s \in TerminalStates => Transition(s, Event(t, flag)) = s
         /\ t \in {"RUN_COMPLETED", "RUN_FAILED", "RUN_HALTED"} => Transition(s, Event(t, flag)) \in TerminalStates
<1> DEFINE e == Event(t, flag)
<1>1. e.type = t /\ e.flag = flag
  BY DEF Event
<1> HIDE DEF e
<1>2. Transition(s, e) # "illegal"
  BY DEF Accepts, e
<1>3. CASE s \in TerminalStates
  <2>1. Transition(s, e) = s
    BY <1>2, <1>3 DEF Transition
  <2> QED
    BY <1>3, <2>1 DEF e
<1>4. CASE s \notin TerminalStates
  <2>1. Transition(s, e) = IF EndOf(e) # "none" THEN EndOf(e) ELSE MoveOf(s, e)
    BY <1>4 DEF Transition
  <2>2. /\ EndOf(e) \in TerminalStates \cup {"none"}
        /\ t \in {"RUN_COMPLETED", "RUN_FAILED", "RUN_HALTED"} => EndOf(e) \in TerminalStates
    BY <1>1 DEF EndOf, TerminalStates
  <2>3. MoveOf(s, e) \in RunStates \cup {"illegal"}
    BY <1>1 DEF MoveOf, RunStates, TerminalStates
  <2>4. Transition(s, e) \in RunStates
    BY <1>2, <2>1, <2>2, <2>3 DEF RunStates
  <2>5. t \in {"RUN_COMPLETED", "RUN_FAILED", "RUN_HALTED"} => Transition(s, e) \in TerminalStates
    BY <2>1, <2>2 DEF TerminalStates
  <2> QED
    BY <1>4, <2>4, <2>5 DEF e
<1> QED
  BY <1>3, <1>4

(* pop() takes one call out of the queue.                                  *)
LEMMA WithoutIsSeq ==
  ASSUME NEW s \in Seq(Calls), NEW c
  PROVE  Without(s, c) \in Seq(Calls)
<1>1. CASE c \notin Elements(s)
  BY <1>1 DEF Without
<1>2. CASE c \in Elements(s)
  <2> DEFINE n == CHOOSE i \in 1 .. Len(s) : s[i] = c
  <2>1. n \in 1 .. Len(s) /\ Len(s) \in Nat /\ Len(s) - 1 \in Nat
    BY <1>2 DEF Elements
  <2> HIDE DEF n
  <2> DEFINE f(i) == IF i < n THEN s[i] ELSE s[i + 1]
  <2>2. Without(s, c) = [i \in 1 .. Len(s) - 1 |-> f(i)]
    BY <1>2 DEF Without, n
  <2>3. \A i \in 1 .. Len(s) - 1 : f(i) \in Calls
    BY <2>1
  <2> HIDE DEF f
  <2> QED
    BY <2>1, <2>2, <2>3, IsASeq
<1> QED
  BY <1>1, <1>2

(* What log_event leaves in the file.                                      *)
LEMMA WriteKeepsFiles ==
  ASSUME Safe, NEW t \in EventTypes, NEW flag \in BOOLEAN, NEW i \in Nat, NEW cs \in Seq(Calls),
         i <= MaxIterations, Write(t, flag, i, cs)
  PROVE  /\ FilesTyped' /\ iters' <= MaxIterations
         /\ st \in TerminalStates => st' = st
         /\ t \in {"RUN_COMPLETED", "RUN_FAILED", "RUN_HALTED"} => st' \in TerminalStates
<1>1. FilesTyped /\ iters <= MaxIterations
  BY DEF Safe, Typed
<1>2. Elements(cs) \subseteq Calls
  BY DEF Elements
<1>3. /\ st' \in RunStates /\ (st \in TerminalStates => st' = st)
      /\ t \in {"RUN_COMPLETED", "RUN_FAILED", "RUN_HALTED"} => st' \in TerminalStates
  BY <1>1, Transitions DEF Write, FilesTyped
<1>4. iters' \in Nat /\ iters' <= MaxIterations
  BY <1>1 DEF Write, FilesTyped
<1>5. logged' \in SUBSET Calls
  BY <1>1, <1>2 DEF Write, FilesTyped
<1>6. pend' \in Seq(Calls)
  <2>1. pend \in Seq(Calls) /\ Without(pend, cs[1]) \in Seq(Calls) /\ pend \o cs \in Seq(Calls)
    BY <1>1, WithoutIsSeq DEF FilesTyped
  <2> QED
    BY <2>1 DEF Write
<1> QED
  BY <1>3, <1>4, <1>5, <1>6 DEF FilesTyped

-----------------------------------------------------------------------------
(* The first part: any number of processes.                                *)

(* A process moves without acting, claiming or settling.                   *)
LEMMA Moves ==
  ASSUME Safe, NEW p \in Procs, NEW m \in Locals, proc' = [proc EXCEPT ![p] = m], Fits(m),
         m.pc = "returned" => st' \in TerminalStates,
         IsLive(m) => IsLive(proc[p]) /\ m.batch = proc[p].batch,
         UNCHANGED <<rec, token, effects, redo>>,
         FilesTyped', iters' <= MaxIterations, st \in TerminalStates => st' = st,
         minted' \in SUBSET Calls, tried' \in SUBSET Calls, spent' \in [Counters -> Nat]
  PROVE  Safe'
<1>1. \A q \in Procs : proc'[q] = IF q = p THEN m ELSE proc[q]
  BY DEF Safe, Typed
<1>2. Typed'
  BY DEF Safe, Typed
<1>3. AllFit'
  BY <1>1 DEF Safe, AllFit, Fits
<1>4. Ended'
  BY <1>1 DEF Safe, Ended
<1>5. ASSUME NEW o \in Ops PROVE Covered(o)'
  <2>1. Live(o)' \subseteq Live(o)
    BY <1>1 DEF Live
  <2>2. IsFiniteSet(Live(o)) /\ effects[o] \in Nat /\ redo[o] \in Nat
    BY DEF Safe, Covered, Typed
  <2>3. IsFiniteSet(Live(o)') /\ Cardinality(Live(o)') <= Cardinality(Live(o))
        /\ Cardinality(Live(o)') \in Nat /\ Cardinality(Live(o)) \in Nat
    BY <2>1, <2>2, FS_Subset, FS_CardinalityType
  <2>4. effects[o] + Cardinality(Live(o)) + (IF Claimable(rec[o]) THEN 1 ELSE 0) <= 1 + redo[o]
    BY DEF Safe, Covered
  <2>5. effects[o] + Cardinality(Live(o)') + (IF Claimable(rec[o]) THEN 1 ELSE 0) <= 1 + redo[o]
    BY <2>2, <2>3, <2>4
  <2> QED
    BY <2>3, <2>5 DEF Covered, Claimable
<1> QED
  BY <1>2, <1>3, <1>4, <1>5 DEF Safe

(* The same when the process changes its place only.                       *)
LEMMA GotoKeeps ==
  ASSUME Safe, NEW p \in Procs, NEW pc \in Pcs, Goto(p, pc),
         pc # "waiting", pc # "returned", pc # "settle", pc \in InTry => proc[p].pc \in InTry,
         pc \in {"attempt", "tool", "failed", "sleep"} => IsLive(proc[p]),
         UNCHANGED <<st, pend, iters, logged, rec, token, minted, tried, effects, redo>>,
         spent' \in [Counters -> Nat]
  PROVE  Safe'
<1> DEFINE m == [proc[p] EXCEPT !.pc = pc]
<1>1. proc' = [proc EXCEPT ![p] = m]
  BY DEF Goto
<1>2. proc[p] \in Locals /\ Fits(proc[p])
  BY DEF Safe, Typed, AllFit
<1>3. m \in Locals /\ m.pc = pc /\ m.batch = proc[p].batch
  BY <1>2 DEF Locals
<1>4. Fits(m) /\ (IsLive(m) => IsLive(proc[p]))
  BY <1>2, <1>3 DEF Fits, IsLive
<1>5. /\ FilesTyped' /\ iters' <= MaxIterations /\ (st \in TerminalStates => st' = st)
      /\ minted' \in SUBSET Calls /\ tried' \in SUBSET Calls
  BY DEF Safe, Typed, FilesTyped
<1> HIDE DEF m
<1> QED
  BY <1>1, <1>3, <1>4, <1>5, Moves

(* What the log says was spent are numbers.                                *)
LEMMA SpendTyped ==
  ASSUME Safe, NEW x \in Counters, Spend(x)
  PROVE  spent' \in [Counters -> Nat]
  BY DEF Safe, Typed, Spend

(* The two errors of a log_event leave the loop or its try.                *)
LEMMA RaiseKeeps ==
  ASSUME Safe, NEW p \in Procs, RaiseStateError(p) \/ RaiseSystemError(p)
  PROVE  Safe'
<1>1. CASE RaiseStateError(p)
  <2> DEFINE pc == IF proc[p].pc = "waiting" THEN "failing" ELSE "raised"
  <2>1. Goto(p, pc) /\ UNCHANGED <<st, pend, iters, logged, rec, token, minted, tried, effects, redo>>
        /\ spent' \in [Counters -> Nat]
    BY <1>1 DEF RaiseStateError, files, history, Safe, Typed
  <2>2. pc \in {"failing", "raised"}
    OBVIOUS
  <2> HIDE DEF pc
  <2> QED
    BY <2>1, <2>2, GotoKeeps DEF Pcs, InTry
<1>2. CASE RaiseSystemError(p)
  <2> DEFINE pc == CASE proc[p].pc = "waiting" -> "halt_raise"
                     [] proc[p].pc \in InTry -> "halt_return"
                     [] OTHER -> "raised"
  <2>1. Goto(p, pc) /\ UNCHANGED <<st, pend, iters, logged, rec, token, minted, tried, effects, redo>> /\ Spend("fault")
    BY <1>2 DEF RaiseSystemError, files, history
  <2>2. pc \in {"halt_raise", "halt_return", "raised"}
    OBVIOUS
  <2>3. spent' \in [Counters -> Nat]
    BY <2>1, SpendTyped DEF Counters
  <2> HIDE DEF pc
  <2> QED
    BY <2>1, <2>2, <2>3, GotoKeeps DEF Pcs, InTry
<1> QED
  BY <1>1, <1>2

(* A step whose durable operation is one log_event.                        *)
LEMMA LogsKeep ==
  ASSUME Safe, NEW p \in Procs, NEW t \in EventTypes, NEW flag \in BOOLEAN, NEW i \in Nat,
         NEW cs \in Seq(Calls), NEW m \in Locals, Logs(p, t, flag, i, cs, m), i <= MaxIterations, Fits(m),
         m.pc = "returned" => t \in {"RUN_COMPLETED", "RUN_FAILED", "RUN_HALTED"},
         IsLive(m) => IsLive(proc[p]) /\ m.batch = proc[p].batch
  PROVE  Safe'
<1>1. CASE Write(t, flag, i, cs) /\ proc' = [proc EXCEPT ![p] = m] /\ UNCHANGED <<rec, token, effects, redo, spent>>
           /\ minted' = (IF t = "LLM_RESPONDED" THEN minted \cup Elements(cs) ELSE minted)
           /\ tried' = (IF t = "TOOL_ATTEMPT_STARTED" THEN tried \cup Elements(cs) ELSE tried)
  <2>1. /\ FilesTyped' /\ iters' <= MaxIterations /\ (st \in TerminalStates => st' = st)
        /\ m.pc = "returned" => st' \in TerminalStates
    BY <1>1, WriteKeepsFiles
  <2>2. minted' \in SUBSET Calls /\ tried' \in SUBSET Calls /\ spent' \in [Counters -> Nat]
    BY <1>1 DEF Elements, Safe, Typed
  <2> QED
    BY <1>1, <2>1, <2>2, Moves
<1>2. CASE RaiseStateError(p) \/ RaiseSystemError(p)
  BY <1>2, RaiseKeeps
<1> QED
  BY <1>1, <1>2 DEF Logs

(* A log_event after which the process is only elsewhere.                  *)
LEMMA LogsThere ==
  ASSUME Safe, NEW p \in Procs, NEW t \in EventTypes, NEW flag \in BOOLEAN, NEW cs \in Seq(Calls), NEW pc \in Pcs,
         Logs(p, t, flag, 0, cs, At(p, pc)), pc # "waiting", pc # "settle",
         pc \in InTry => proc[p].pc \in InTry,
         pc = "returned" => t \in {"RUN_COMPLETED", "RUN_FAILED", "RUN_HALTED"},
         pc \in {"attempt", "tool", "failed", "sleep"} => IsLive(proc[p])
  PROVE  Safe'
<1>1. proc[p] \in Locals /\ Fits(proc[p])
  BY DEF Safe, Typed, AllFit
<1>2. At(p, pc) \in Locals /\ At(p, pc).pc = pc /\ At(p, pc).batch = proc[p].batch
  BY <1>1 DEF Locals, At
<1>3. Fits(At(p, pc)) /\ (IsLive(At(p, pc)) => IsLive(proc[p]))
  BY <1>1, <1>2 DEF Fits, IsLive
<1>4. 0 \in Nat /\ 0 <= MaxIterations
  BY BoundsAssumption
<1> QED
  BY <1>2, <1>3, <1>4, LogsKeep

(* A call that the model answers with is a call.                           *)
LEMMA CallTyped ==
  ASSUME Safe, NEW p \in Procs, proc[p].pc \in InTry
  PROVE  /\ proc[p].batch \in Seq(Calls) /\ proc[p].batch # <<>> /\ Tail(proc[p].batch) \in Seq(Calls)
         /\ Call(p) \in Calls /\ <<Call(p)>> \in Seq(Calls) /\ Op(p) \in Ops
<1>1. proc[p].batch \in Seq(Calls) /\ proc[p].batch # <<>>
  BY DEF Safe, Typed, AllFit, Fits, Locals
<1>2. Head(proc[p].batch) \in Calls /\ Tail(proc[p].batch) \in Seq(Calls)
  BY <1>1
<1> QED
  BY <1>1, <1>2, CallsAssumption DEF Call, Op

(* The steps that log one event and go on.                                 *)
LEMMA PlainLogsKeep ==
  ASSUME Safe, NEW p \in Procs,
         \/ LogRunStarted(p) \/ LogFinalResponse(p) \/ LogRunCompleted(p) \/ LogRunFailed(p) \/ LogRunHalted(p)
         \/ Reject(p) \/ StartAttempt(p) \/ ScheduleRetry(p)
  PROVE  Safe'
<1>1. <<>> \in Seq(Calls)
  OBVIOUS
<1>2. CASE LogRunStarted(p)
  BY <1>1, <1>2, LogsThere DEF LogRunStarted, EventTypes, Pcs, InTry
<1>3. CASE LogFinalResponse(p)
  BY <1>1, <1>3, LogsThere DEF LogFinalResponse, EventTypes, Pcs, InTry
<1>4. CASE LogRunCompleted(p)
  BY <1>1, <1>4, LogsThere DEF LogRunCompleted, EventTypes, Pcs, InTry
<1>5. CASE LogRunFailed(p)
  BY <1>1, <1>5, LogsThere DEF LogRunFailed, EventTypes, Pcs, InTry
<1>6. CASE LogRunHalted(p)
  <2> DEFINE pc == IF proc[p].pc = "halt_return" THEN "returned" ELSE "raised"
  <2>1. Logs(p, "RUN_HALTED", FALSE, 0, <<>>, At(p, pc)) /\ pc \in {"returned", "raised"}
    BY <1>6 DEF LogRunHalted
  <2> HIDE DEF pc
  <2> QED
    BY <1>1, <2>1, LogsThere DEF EventTypes, Pcs, InTry
<1>7. CASE Reject(p)
  <2>1. proc[p].pc = "created" /\ <<Call(p)>> \in Seq(Calls)
        /\ Logs(p, "TOOL_CALL_REJECTED", FALSE, 0, <<Call(p)>>, At(p, "result"))
    BY <1>7, CallTyped DEF Reject, InTry
  <2> QED
    BY <2>1, LogsThere DEF EventTypes, Pcs, InTry
<1>8. CASE StartAttempt(p)
  <2>1. proc[p].pc = "attempt" /\ <<Call(p)>> \in Seq(Calls)
        /\ Logs(p, "TOOL_ATTEMPT_STARTED", FALSE, 0, <<Call(p)>>, At(p, "tool"))
    BY <1>8, CallTyped DEF StartAttempt, InTry
  <2> QED
    BY <2>1, LogsThere DEF EventTypes, Pcs, InTry, IsLive
<1>9. CASE ScheduleRetry(p)
  <2>1. proc[p].pc = "failed" /\ <<Call(p)>> \in Seq(Calls)
        /\ Logs(p, "RETRY_SCHEDULED", FALSE, 0, <<Call(p)>>, At(p, "sleep"))
    BY <1>9, CallTyped DEF ScheduleRetry, InTry
  <2> QED
    BY <2>1, LogsThere DEF EventTypes, Pcs, InTry, IsLive
<1> QED
  BY <1>2, <1>3, <1>4, <1>5, <1>6, <1>7, <1>8, <1>9

(* Steps that only stop: where the loop ends, nothing else changes.        *)
LEMMA StopKeeps ==
  ASSUME Safe, NEW p \in Procs, NEW pc \in Pcs, Stop(p, pc),
         pc \in {"halt_return", "yielded"} \/ (pc = "returned" /\ token[p] = TRUE)
           \/ (pc = "result" /\ proc[p].pc \in InTry)
  PROVE  Safe'
<1>1. Goto(p, pc) /\ UNCHANGED <<st, pend, iters, logged, rec, token, minted, tried, effects, redo>>
      /\ spent' \in [Counters -> Nat]
  BY DEF Stop, files, history, Safe, Typed
<1>2. CASE pc # "returned"
  BY <1>1, <1>2, GotoKeeps DEF InTry
<1>3. CASE pc = "returned"
  <2> DEFINE m == [proc[p] EXCEPT !.pc = pc]
  <2>1. proc' = [proc EXCEPT ![p] = m]
    BY <1>1 DEF Goto
  <2>2. proc[p] \in Locals
    BY DEF Safe, Typed
  <2>3. m \in Locals /\ m.pc = "returned"
    BY <1>3, <2>2 DEF Locals
  <2>4. Fits(m) /\ ~IsLive(m)
    BY <2>3 DEF Fits, IsLive, InTry
  <2>5. st' \in TerminalStates
    BY <1>1, <1>3 DEF Safe, Ended
  <2>6. /\ FilesTyped' /\ iters' <= MaxIterations /\ (st \in TerminalStates => st' = st)
        /\ minted' \in SUBSET Calls /\ tried' \in SUBSET Calls
    BY <1>1 DEF Safe, Typed, FilesTyped
  <2> HIDE DEF m
  <2> QED
    BY <1>1, <2>1, <2>3, <2>4, <2>5, <2>6, Moves
<1> QED
  BY <1>2, <1>3

(* A process without a loop has nothing in memory.                         *)
LEMMA IdleTyped == Idle \in Locals /\ Idle.pc = "idle" /\ Idle.batch = <<>> /\ Idle.seen = {} /\ Idle.mode = "run"
  BY DEF Idle, Locals, Pcs, Outcomes

(* run() and resume(), and what a resumed loop reads.                      *)
LEMMA LaunchKeeps ==
  ASSUME Safe, NEW p \in Procs, Run(p) \/ Resume(p) \/ ReconstructSession(p) \/ ReconstructUsage(p)
  PROVE  Safe'
<1>1. proc[p] \in Locals /\ pend \in Seq(Calls) /\ iters \in Nat /\ logged \in SUBSET Calls
  BY DEF Safe, Typed, FilesTyped
<1>2. ASSUME UNCHANGED <<st, pend, iters, logged, rec, token, minted, tried, effects, redo>>,
             NEW m \in Locals, proc' = [proc EXCEPT ![p] = m], spent' \in [Counters -> Nat],
             m.pc \in {"starting", "session", "usage", "iterate", "halt_return", "raised", "returned", "batch"},
             m.pc = "returned" => st \in TerminalStates, m.pc = "batch" => m.batch # <<>>
      PROVE  Safe'
  <2>1. Fits(m) /\ ~IsLive(m)
    BY <1>2 DEF Fits, IsLive, InTry
  <2>2. /\ FilesTyped' /\ iters' <= MaxIterations /\ (st \in TerminalStates => st' = st)
        /\ minted' \in SUBSET Calls /\ tried' \in SUBSET Calls
    BY <1>2 DEF Safe, Typed, FilesTyped
  <2> QED
    BY <1>2, <2>1, <2>2, Moves
<1>3. CASE Run(p)
  <2> DEFINE pc == IF token[p] THEN "returned" ELSE "starting"
             m == [proc[p] EXCEPT !.pc = pc]
  <2>1. /\ proc' = [proc EXCEPT ![p] = m] /\ Spend("launch")
        /\ UNCHANGED <<st, pend, iters, logged, rec, token, minted, tried, effects, redo>>
    BY <1>3 DEF Run, files, history
  <2>2. pc \in {"returned", "starting"} /\ (pc = "returned" => st \in TerminalStates)
    BY DEF Safe, Typed, Ended
  <2> HIDE DEF pc
  <2>3. m \in Locals /\ m.pc = pc
    BY <1>1, <2>2 DEF Locals, Pcs
  <2>4. spent' \in [Counters -> Nat]
    BY <2>1, SpendTyped DEF Counters
  <2> HIDE DEF m
  <2> QED
    BY <1>2, <2>1, <2>2, <2>3, <2>4
<1>4. CASE Resume(p)
  <2> DEFINE pc == CASE st = "COMPLETED" -> "returned"
                     [] st \in {"FAILED", "HALTED"} -> "raised"
                     [] OTHER -> "session"
             m == [Idle EXCEPT !.mode = "resume", !.pc = pc]
  <2>1. /\ proc' = [proc EXCEPT ![p] = m] /\ Spend("resume")
        /\ UNCHANGED <<st, pend, iters, logged, rec, token, minted, tried, effects, redo>>
    BY <1>4 DEF Resume, files, history
  <2>2. pc \in {"returned", "raised", "session"} /\ (pc = "returned" => st \in TerminalStates)
    BY DEF TerminalStates
  <2> HIDE DEF pc
  <2>3. m \in Locals /\ m.pc = pc
    BY <2>2, IdleTyped DEF Locals, Pcs
  <2>4. spent' \in [Counters -> Nat]
    BY <2>1, SpendTyped DEF Counters
  <2> HIDE DEF m
  <2> QED
    BY <1>2, <2>1, <2>2, <2>3, <2>4
<1>5. CASE ReconstructSession(p)
  <2> DEFINE m == [proc[p] EXCEPT !.pc = "usage", !.batch = pend]
  <2>1. /\ proc' = [proc EXCEPT ![p] = m] /\ spent' \in [Counters -> Nat]
        /\ UNCHANGED <<st, pend, iters, logged, rec, token, minted, tried, effects, redo>>
    BY <1>5 DEF ReconstructSession, files, history, Safe, Typed
  <2>2. m \in Locals /\ m.pc = "usage"
    BY <1>1 DEF Locals, Pcs
  <2> HIDE DEF m
  <2> QED
    BY <1>2, <2>1, <2>2
<1>6. CASE ReconstructUsage(p)
  <2> DEFINE pc == IF ~Within(iters, logged, 0, 0) THEN "halt_return"
                   ELSE IF proc[p].batch = <<>> THEN "iterate" ELSE "batch"
             m == [proc[p] EXCEPT !.used = iters, !.seen = logged, !.pc = pc]
  <2>1. /\ proc' = [proc EXCEPT ![p] = m] /\ spent' \in [Counters -> Nat]
        /\ UNCHANGED <<st, pend, iters, logged, rec, token, minted, tried, effects, redo>>
    BY <1>6 DEF ReconstructUsage, files, history, Safe, Typed
  <2>2. pc \in {"halt_return", "iterate", "batch"} /\ (pc = "batch" => proc[p].batch # <<>>)
    OBVIOUS
  <2> HIDE DEF pc
  <2>3. m \in Locals /\ m.pc = pc /\ m.batch = proc[p].batch
    BY <1>1, <2>2 DEF Locals, Pcs
  <2> HIDE DEF m
  <2> QED
    BY <1>2, <2>1, <2>2, <2>3
<1> QED
  BY <1>3, <1>4, <1>5, <1>6

(* The loop's own steps: an iteration, a response, a call, a result.       *)
LEMMA LoopKeeps ==
  ASSUME Safe, NEW p \in Procs, Iterate(p) \/ Respond(p) \/ LlmFails(p) \/ NextCall(p) \/ LogResult(p)
  PROVE  Safe'
<1> DEFINE me == proc[p]
<1>1. me \in Locals /\ Fits(me) /\ token[p] \in BOOLEAN
  BY DEF Safe, Typed, AllFit
<1>2. MaxIterations \in Nat
  BY BoundsAssumption
<1>3. CASE Iterate(p)
  <2>1. CASE token[p]
    <3>1. Stop(p, "returned")
      BY <1>3, <2>1 DEF Iterate
    <3> QED
      BY <1>1, <2>1, <3>1, StopKeeps DEF Pcs
  <2>2. CASE ~token[p] /\ ~Within(me.used, me.seen, 1, 0)
    <3>1. Stop(p, "halt_return")
      BY <1>3, <2>2 DEF Iterate
    <3> QED
      BY <3>1, StopKeeps DEF Pcs
  <2>3. CASE ~token[p] /\ Within(me.used, me.seen, 1, 0)
    <3> DEFINE n == me.used + 1
               m == [me EXCEPT !.pc = "waiting", !.used = n]
    <3>1. Logs(p, "LLM_REQUESTED", FALSE, n, <<>>, m)
      BY <1>3, <2>3 DEF Iterate
    <3>2. n \in Nat /\ n <= MaxIterations
      BY <1>1, <1>2, <2>3 DEF Within, Locals
    <3> HIDE DEF n
    <3>3. m \in Locals /\ m.pc = "waiting" /\ m.used = n
      BY <1>1, <3>2 DEF Locals, Pcs
    <3>4. Fits(m) /\ ~IsLive(m)
      BY <3>2, <3>3 DEF Fits, IsLive, InTry
    <3>5. m.pc # "returned" /\ <<>> \in Seq(Calls) /\ "LLM_REQUESTED" \in EventTypes
      BY <3>3 DEF EventTypes
    <3> HIDE DEF m, me
    <3> QED
      BY <3>1, <3>2, <3>3, <3>4, <3>5, LogsKeep
  <2> QED
    BY <2>1, <2>2, <2>3
<1>4. CASE Respond(p)
  <2>1. PICK cs \in Batches :
          Logs(p, "LLM_RESPONDED", cs # <<>>, me.used, cs,
               [me EXCEPT !.pc = IF cs = <<>> THEN "final" ELSE "batch", !.batch = cs])
    BY <1>4 DEF Respond
  <2>2. cs \in Seq(Calls)
    <3>1. PICK n \in 0 .. MaxBatch : cs \in [1 .. n -> Calls \ minted]
      BY DEF Batches
    <3>2. n \in Nat
      BY <3>1, BoundsAssumption
    <3>3. cs \in [1 .. n -> Calls]
      BY <3>1
    <3> QED
      BY <3>2, <3>3, SeqDef
  <2> DEFINE pc == IF cs = <<>> THEN "final" ELSE "batch"
             m == [me EXCEPT !.pc = pc, !.batch = cs]
  <2>3. pc \in {"final", "batch"} /\ (pc = "batch" => cs # <<>>)
    OBVIOUS
  <2> HIDE DEF pc
  <2>4. m \in Locals /\ m.pc = pc /\ m.batch = cs
    BY <1>1, <2>2, <2>3 DEF Locals, Pcs
  <2>5. Fits(m) /\ ~IsLive(m)
    BY <2>3, <2>4 DEF Fits, IsLive, InTry
  <2>6. me.used \in Nat /\ me.used <= MaxIterations /\ (cs # <<>>) \in BOOLEAN
    BY <1>1, <1>4 DEF Locals, Fits, Respond
  <2>7. Logs(p, "LLM_RESPONDED", cs # <<>>, me.used, cs, m)
    BY <2>1 DEF pc
  <2>8. m.pc # "returned"
    BY <2>3, <2>4
  <2> HIDE DEF m, me
  <2> QED
    BY <2>2, <2>4, <2>5, <2>6, <2>7, <2>8, LogsKeep DEF EventTypes
<1>5. CASE LlmFails(p)
  <2> DEFINE m == [me EXCEPT !.pc = "failing", !.outcome = "llm_error"]
  <2>1. /\ proc' = [proc EXCEPT ![p] = m] /\ spent' \in [Counters -> Nat]
        /\ UNCHANGED <<st, pend, iters, logged, rec, token, minted, tried, effects, redo>>
    BY <1>5 DEF LlmFails, files, history, Safe, Typed
  <2>2. m \in Locals /\ m.pc = "failing"
    BY <1>1 DEF Locals, Pcs, Outcomes
  <2>3. Fits(m) /\ ~IsLive(m)
    BY <2>2 DEF Fits, IsLive, InTry
  <2>4. /\ FilesTyped' /\ iters' <= MaxIterations /\ (st \in TerminalStates => st' = st)
        /\ minted' \in SUBSET Calls /\ tried' \in SUBSET Calls
    BY <2>1 DEF Safe, Typed, FilesTyped
  <2> HIDE DEF m
  <2> QED
    BY <2>1, <2>2, <2>3, <2>4, Moves
<1>6. CASE NextCall(p)
  <2> DEFINE isNew == Call(p) \notin me.seen
             m == [me EXCEPT !.pc = "created", !.seen = me.seen \cup {Call(p)}]
  <2>1. me.pc = "batch"
    BY <1>6 DEF NextCall
  <2>2. Call(p) \in Calls /\ <<Call(p)>> \in Seq(Calls) /\ me.batch # <<>>
    BY <2>1, CallTyped DEF InTry
  <2>3. CASE token[p]
    <3>1. Stop(p, "returned")
      BY <1>6, <2>3 DEF NextCall
    <3> QED
      BY <1>1, <2>3, <3>1, StopKeeps DEF Pcs
  <2>4. CASE ~token[p] /\ isNew /\ ~Within(me.used, me.seen, 0, 1)
    <3>1. Stop(p, "halt_return")
      BY <1>6, <2>4 DEF NextCall
    <3> QED
      BY <3>1, StopKeeps DEF Pcs
  <2>5. CASE ~token[p] /\ ~(isNew /\ ~Within(me.used, me.seen, 0, 1))
    <3>1. Logs(p, "TOOL_CALL_CREATED", FALSE, 0, <<Call(p)>>, m)
      BY <1>6, <2>5 DEF NextCall
    <3>2. m \in Locals /\ m.pc = "created" /\ m.batch = me.batch
      BY <1>1, <2>2 DEF Locals, Pcs
    <3>3. Fits(m) /\ ~IsLive(m)
      BY <2>2, <3>2 DEF Fits, IsLive, InTry
    <3>4. m.pc # "returned" /\ 0 \in Nat /\ 0 <= MaxIterations /\ "TOOL_CALL_CREATED" \in EventTypes
      BY <1>2, <3>2 DEF EventTypes
    <3> HIDE DEF m, me
    <3> QED
      BY <2>2, <3>1, <3>2, <3>3, <3>4, LogsKeep
  <2> QED
    BY <2>3, <2>4, <2>5
<1>7. CASE LogResult(p)
  <2> DEFINE last == Len(me.batch) = 1
             pc == IF last THEN "iterate" ELSE "batch"
             m == [me EXCEPT !.pc = pc, !.batch = Tail(me.batch), !.attempt = 0, !.outcome = "none"]
  <2>1. me.pc = "result" /\ Logs(p, "TOOL_RESULT_RECEIVED", last, 0, <<Call(p)>>, m)
    BY <1>7 DEF LogResult
  <2>2. /\ <<Call(p)>> \in Seq(Calls) /\ me.batch # <<>> /\ me.batch \in Seq(Calls) /\ Tail(me.batch) \in Seq(Calls)
        /\ last \in BOOLEAN
    BY <2>1, CallTyped DEF InTry
  <2>3. pc \in {"iterate", "batch"} /\ (pc = "batch" => Tail(me.batch) # <<>>)
    <3>1. Len(me.batch) \in Nat /\ Len(me.batch) # 0 /\ Len(Tail(me.batch)) = Len(me.batch) - 1
      BY <2>2, HeadTailProperties, EmptySeq
    <3>2. ~last => Len(Tail(me.batch)) # 0 /\ Len(<<>>) = 0
      BY <3>1, EmptySeq
    <3>3. ~last => Tail(me.batch) # <<>>
      BY <3>2
    <3> HIDE DEF last
    <3> QED
      BY <3>3
  <2> HIDE DEF pc, last
  <2>4. m \in Locals /\ m.pc = pc /\ m.batch = Tail(me.batch)
    BY <1>1, <2>2, <2>3 DEF Locals, Pcs, Outcomes
  <2>5. Fits(m) /\ ~IsLive(m)
    BY <2>3, <2>4 DEF Fits, IsLive, InTry
  <2>6. m.pc # "returned" /\ 0 \in Nat /\ 0 <= MaxIterations /\ "TOOL_RESULT_RECEIVED" \in EventTypes
    BY <1>2, <2>3, <2>4 DEF EventTypes
  <2> HIDE DEF m, me
  <2> QED
    BY <2>1, <2>2, <2>4, <2>5, <2>6, LogsKeep
<1> QED
  BY <1>3, <1>4, <1>5, <1>6, <1>7

\* What a record adds to the count of effects to come.
Free(r) == IF Claimable(r) THEN 1 ELSE 0

(* An operation that the step does not touch stays covered.                *)
LEMMA Untouched ==
  ASSUME Safe, NEW o \in Ops, Live(o)' \subseteq Live(o), effects'[o] = effects[o], redo'[o] = redo[o],
         Claimable(rec'[o]) <=> Claimable(rec[o])
  PROVE  Covered(o)'
<1>1. IsFiniteSet(Live(o)) /\ effects[o] \in Nat /\ redo[o] \in Nat
      /\ effects[o] + Cardinality(Live(o)) + Free(rec[o]) <= 1 + redo[o]
  BY DEF Safe, Covered, Typed, Free
<1>2. IsFiniteSet(Live(o)') /\ Cardinality(Live(o)') <= Cardinality(Live(o))
      /\ Cardinality(Live(o)') \in Nat /\ Cardinality(Live(o)) \in Nat
  BY <1>1, FS_Subset, FS_CardinalityType
<1>3. Free(rec'[o]) = Free(rec[o]) /\ Free(rec[o]) \in Nat
  BY DEF Free
<1>4. effects'[o] + Cardinality(Live(o)') + Free(rec'[o]) <= 1 + redo'[o]
  BY <1>1, <1>2, <1>3
<1> QED
  BY <1>2, <1>4 DEF Covered, Free

(* The claim: the free record becomes an effect to come.                   *)
LEMMA ClaimKeeps ==
  ASSUME Safe, NEW p \in Procs, ClaimOperation(p)
  PROVE  Safe'
<1>1. proc[p].pc = "created" /\ proc[p] \in Locals
  BY DEF ClaimOperation, Safe, Typed
<1>2. proc[p].batch # <<>> /\ Op(p) \in Ops
  BY <1>1, CallTyped DEF InTry
<1>3. CASE ~Claimable(rec[Op(p)])
  <2> DEFINE pc == IF rec[Op(p)].status = "IN_PROGRESS" /\ proc[p].mode = "resume" THEN "yielded" ELSE "result"
  <2>1. Stop(p, pc) /\ pc \in {"yielded", "result"}
    BY <1>3 DEF ClaimOperation
  <2> HIDE DEF pc
  <2> QED
    BY <1>1, <2>1, StopKeeps DEF Pcs, InTry
<1>4. CASE Claimable(rec[Op(p)])
  <2>0. PICK o \in Ops : o = Op(p)
    BY <1>2
  <2> DEFINE m == [proc[p] EXCEPT !.pc = "attempt", !.attempt = 1]
             r == [status |-> "IN_PROGRESS", owner |-> p, expired |-> FALSE]
  <2>1. /\ rec' = [rec EXCEPT ![o] = r] /\ proc' = [proc EXCEPT ![p] = m]
        /\ UNCHANGED <<st, pend, iters, logged, token, minted, tried, effects, redo, spent>>
    BY <1>4, <2>0 DEF ClaimOperation, Claimed, files, history
  <2>2. m \in Locals /\ m.pc = "attempt" /\ m.batch = proc[p].batch
    BY <1>1 DEF Locals, Pcs
  <2>3. r \in Records /\ ~Claimable(r)
    BY DEF Records, Statuses, Claimable
  <2>4. o \in Ops /\ OpOf[Head(m.batch)] = o /\ IsLive(m) /\ ~IsLive(proc[p])
    BY <1>1, <1>2, <2>0, <2>2 DEF Op, Call, IsLive
  <2> HIDE DEF m, r
  <2>5. \A q \in Procs : proc'[q] = IF q = p THEN m ELSE proc[q]
    BY <2>1 DEF Safe, Typed
  <2>6. \A x \in Ops : rec'[x] = IF x = o THEN r ELSE rec[x]
    BY <2>1 DEF Safe, Typed
  <2>7. Typed'
    BY <2>1, <2>2, <2>3 DEF Safe, Typed, FilesTyped
  <2>8. AllFit'
    BY <1>2, <2>2, <2>5 DEF Safe, AllFit, Fits
  <2>9. Ended' /\ iters' <= MaxIterations
    BY <2>1, <2>2, <2>5 DEF Safe, Ended
  <2>10. ASSUME NEW x \in Ops, x # o PROVE Covered(x)'
    <3>1. Live(x)' \subseteq Live(x)
      BY <2>4, <2>5, <2>10 DEF Live
    <3> QED
      BY <2>1, <2>6, <2>10, <3>1, Untouched
  <2>11. Covered(o)'
    <3>1. Live(o)' = Live(o) \cup {p} /\ p \notin Live(o)
      BY <2>4, <2>5 DEF Live
    <3>2. IsFiniteSet(Live(o)) /\ effects[o] + Cardinality(Live(o)) + 1 <= 1 + redo[o]
          /\ effects[o] \in Nat /\ redo[o] \in Nat
      BY <1>4, <2>0, <2>4 DEF Safe, Covered, Typed
    <3>3. IsFiniteSet(Live(o)') /\ Cardinality(Live(o)') = Cardinality(Live(o)) + 1 /\ Cardinality(Live(o)) \in Nat
      BY <3>1, <3>2, FS_AddElement, FS_CardinalityType
    <3>4. ~Claimable(rec'[o])
      BY <2>3, <2>4, <2>6
    <3>5. effects'[o] + Cardinality(Live(o)') + 0 <= 1 + redo'[o]
      BY <2>1, <3>2, <3>3
    <3> QED
      BY <3>3, <3>4, <3>5 DEF Covered
  <2> QED
    BY <2>7, <2>8, <2>9, <2>10, <2>11 DEF Safe
<1> QED
  BY <1>3, <1>4

(* The tool acts: an effect to come becomes an effect.                     *)
LEMMA ToolActsKeeps ==
  ASSUME Safe, NEW p \in Procs, ToolActs(p)
  PROVE  Safe'
<1>0. PICK o \in Ops : o = Op(p)
  BY CallTyped DEF ToolActs, InTry
<1> DEFINE m == [proc[p] EXCEPT !.pc = "acted"]
<1>1. /\ proc[p].pc = "tool" /\ proc' = [proc EXCEPT ![p] = m] /\ effects' = [effects EXCEPT ![o] = @ + 1]
      /\ UNCHANGED <<st, pend, iters, logged, rec, token, minted, tried, redo, spent>>
  BY <1>0 DEF ToolActs, Goto, files
<1>2. proc[p] \in Locals /\ proc[p].batch # <<>> /\ o \in Ops
  BY <1>1, CallTyped DEF InTry, Safe, Typed
<1>3. m \in Locals /\ m.pc = "acted" /\ m.batch = proc[p].batch /\ ~IsLive(m)
  BY <1>2 DEF Locals, Pcs, IsLive
<1>4. OpOf[Head(proc[p].batch)] = o /\ IsLive(proc[p])
  BY <1>0, <1>1 DEF Op, Call, IsLive
<1> HIDE DEF m
<1>5. \A q \in Procs : proc'[q] = IF q = p THEN m ELSE proc[q]
  BY <1>1 DEF Safe, Typed
<1>6. effects' \in [Ops -> Nat] /\ effects[o] \in Nat
      /\ \A x \in Ops : effects'[x] = IF x = o THEN effects[o] + 1 ELSE effects[x]
  BY <1>1, <1>2 DEF Safe, Typed
<1>7. Typed'
  BY <1>1, <1>3, <1>6 DEF Safe, Typed, FilesTyped
<1>8. AllFit'
  BY <1>2, <1>3, <1>5 DEF Safe, AllFit, Fits
<1>9. Ended' /\ iters' <= MaxIterations
  BY <1>1, <1>3, <1>5 DEF Safe, Ended
<1>10. ASSUME NEW x \in Ops, x # o PROVE Covered(x)'
  <2>1. Live(x)' \subseteq Live(x)
    BY <1>3, <1>5 DEF Live
  <2> QED
    BY <1>1, <1>6, <1>10, <2>1, Untouched
<1>11. Covered(o)'
  <2>1. Live(o)' = Live(o) \ {p} /\ p \in Live(o)
    BY <1>3, <1>4, <1>5 DEF Live
  <2>2. IsFiniteSet(Live(o)) /\ effects[o] + Cardinality(Live(o)) + Free(rec[o]) <= 1 + redo[o] /\ redo[o] \in Nat
    BY <1>2 DEF Safe, Covered, Typed, Free
  <2>3. IsFiniteSet(Live(o)') /\ Cardinality(Live(o)') = Cardinality(Live(o)) - 1 /\ Cardinality(Live(o)) \in Nat
    BY <2>1, <2>2, FS_RemoveElement, FS_CardinalityType
  <2>4. Free(rec[o]) \in Nat /\ rec'[o] = rec[o] /\ redo'[o] = redo[o] /\ effects'[o] = effects[o] + 1
    BY <1>1, <1>2, <1>6 DEF Free
  <2>5. effects'[o] + Cardinality(Live(o)') + Free(rec'[o]) <= 1 + redo'[o]
    BY <1>6, <2>2, <2>3, <2>4
  <2> QED
    BY <2>3, <2>5 DEF Covered, Free
<1> QED
  BY <1>7, <1>8, <1>9, <1>10, <1>11 DEF Safe

(* Settling: an effect to come that did not happen frees the record, one    *)
(* that happened closes it, and partial success is counted as a redo.       *)
LEMMA SettleKeeps ==
  ASSUME Safe, NEW p \in Procs, Settle(p)
  PROVE  Safe'
<1>0. PICK o \in Ops : o = Op(p)
  BY CallTyped DEF Settle, InTry
<1> DEFINE outcome == proc[p].outcome
<1>1. proc[p].pc = "settle" /\ proc[p] \in Locals
  BY DEF Settle, Safe, Typed
<1>2. proc[p].batch # <<>> /\ o \in Ops
  BY <1>1, CallTyped DEF InTry
<1>3. CASE ~(rec[o].status = "IN_PROGRESS" /\ rec[o].owner = p)
  BY <1>0, <1>3, StopKeeps DEF Settle, Pcs
<1>4. CASE rec[o].status = "IN_PROGRESS" /\ rec[o].owner = p
  <2> DEFINE m == [proc[p] EXCEPT !.pc = "result"]
             status == Settled(outcome)
             r == [rec[o] EXCEPT !.status = status]
             more == IF outcome = "partial" THEN 1 ELSE 0
  <2>1. /\ rec' = [rec EXCEPT ![o] = r] /\ proc' = [proc EXCEPT ![p] = m]
        /\ redo' = IF outcome = "partial" THEN [redo EXCEPT ![o] = @ + 1] ELSE redo
        /\ UNCHANGED <<st, pend, iters, logged, token, minted, tried, effects, spent>>
    BY <1>0, <1>4 DEF Settle, Goto, files
  <2>2. m \in Locals /\ m.pc = "result" /\ m.batch = proc[p].batch /\ ~IsLive(m)
    BY <1>1 DEF Locals, Pcs, IsLive
  <2>3. status \in {"COMPLETED", "FAILED", "RECOVERABLE"} /\ (outcome = "success" => status = "COMPLETED")
    BY DEF Settled
  <2> HIDE DEF status
  <2>4. r \in Records /\ r.status = status
    <3>1. rec[o] \in Records
      BY <1>2 DEF Safe, Typed
    <3> QED
      BY <2>3, <3>1 DEF Records, Statuses
  <2>5. /\ redo' \in [Ops -> Nat] /\ redo[o] \in Nat /\ redo'[o] = redo[o] + more
        /\ \A x \in Ops : x # o => redo'[x] = redo[x]
    BY <1>2, <2>1 DEF Safe, Typed
  <2>6. OpOf[Head(proc[p].batch)] = o
    BY <1>0 DEF Op, Call
  <2> HIDE DEF m, r
  <2>7. \A q \in Procs : proc'[q] = IF q = p THEN m ELSE proc[q]
    BY <2>1 DEF Safe, Typed
  <2>8. \A x \in Ops : rec'[x] = IF x = o THEN r ELSE rec[x]
    BY <2>1 DEF Safe, Typed
  <2>9. Typed'
    BY <2>1, <2>2, <2>4, <2>5 DEF Safe, Typed, FilesTyped
  <2>10. AllFit'
    BY <1>2, <2>2, <2>7 DEF Safe, AllFit, Fits
  <2>11. Ended' /\ iters' <= MaxIterations
    BY <2>1, <2>2, <2>7 DEF Safe, Ended
  <2>12. ASSUME NEW x \in Ops, x # o PROVE Covered(x)'
    <3>1. Live(x)' \subseteq Live(x)
      BY <2>2, <2>7 DEF Live
    <3> QED
      BY <2>1, <2>5, <2>8, <2>12, <3>1, Untouched
  <2>13. Covered(o)'
    <3>1. Live(o)' = Live(o) \ {p}
      BY <2>2, <2>7 DEF Live
    <3>2. IsFiniteSet(Live(o)) /\ effects[o] + Cardinality(Live(o)) + Free(rec[o]) <= 1 + redo[o]
          /\ effects[o] \in Nat /\ Cardinality(Live(o)) \in Nat /\ Free(rec[o]) \in {0, 1}
      BY <1>2, FS_CardinalityType DEF Safe, Covered, Typed, Free
    <3>3. /\ IsFiniteSet(Live(o)') /\ Cardinality(Live(o)') \in Nat
          /\ Cardinality(Live(o)') = IF p \in Live(o) THEN Cardinality(Live(o)) - 1 ELSE Cardinality(Live(o))
      <4>1. IsFiniteSet(Live(o)')
        BY <3>1, <3>2, FS_Subset
      <4>2. CASE p \in Live(o)
        BY <3>1, <3>2, <4>1, <4>2, FS_RemoveElement, FS_CardinalityType
      <4>3. CASE p \notin Live(o)
        <5>1. Live(o)' = Live(o)
          BY <3>1, <4>3
        <5> QED
          BY <3>2, <4>1, <4>3, <5>1
      <4> QED
        BY <4>2, <4>3
    <3>4. rec'[o] = r /\ effects'[o] = effects[o]
      BY <1>2, <2>1, <2>8
    <3>5. CASE outcome = "success"
      <4>1. Free(rec'[o]) = 0
        BY <2>3, <2>4, <3>4, <3>5 DEF Free, Claimable
      <4>2. effects'[o] + Cardinality(Live(o)') + Free(rec'[o]) <= 1 + redo'[o]
        BY <2>5, <3>2, <3>3, <3>4, <3>5, <4>1
      <4> QED
        BY <3>3, <4>2 DEF Covered, Free
    <3>6. CASE outcome = "partial"
      <4>1. Free(rec'[o]) \in {0, 1}
        BY DEF Free
      <4>2. effects'[o] + Cardinality(Live(o)') + Free(rec'[o]) <= 1 + redo'[o]
        BY <2>5, <3>2, <3>3, <3>4, <3>6, <4>1
      <4> QED
        BY <3>3, <4>2 DEF Covered, Free
    <3>7. CASE outcome \notin {"success", "partial"}
      <4>1. Free(rec'[o]) \in {0, 1}
        BY DEF Free
      <4>2. p \in Live(o)
        BY <1>1, <2>6, <3>7 DEF Live, IsLive
      <4>3. effects'[o] + Cardinality(Live(o)') + Free(rec'[o]) <= 1 + redo'[o]
        BY <2>5, <3>2, <3>3, <3>4, <3>7, <4>1, <4>2
      <4> QED
        BY <3>3, <4>3 DEF Covered, Free
    <3> QED
      BY <3>5, <3>6, <3>7
  <2> QED
    BY <2>9, <2>10, <2>11, <2>12, <2>13 DEF Safe
<1> QED
  BY <1>3, <1>4

(* The attempt ends: a tool that acted is counted, one that did not stays   *)
(* the effect that a retry may still bring.                                 *)
LEMMA EndAttemptKeeps ==
  ASSUME Safe, NEW p \in Procs, EndAttempt(p)
  PROVE  Safe'
<1>1. proc[p] \in Locals /\ proc[p].pc \in {"tool", "acted"}
  BY DEF Safe, Typed, EndAttempt
<1>2. proc[p].batch # <<>> /\ <<Call(p)>> \in Seq(Calls)
  BY <1>1, CallTyped DEF InTry
<1>3. ASSUME NEW pc \in {"settle", "failed"}, NEW x \in {"success", "partial", "recoverable", "fatal"},
             Logs(p, "TOOL_ATTEMPT_ENDED", FALSE, 0, <<Call(p)>>, [proc[p] EXCEPT !.pc = pc, !.outcome = x]),
             proc[p].pc = "tool" \/ (pc = "settle" /\ x \in {"success", "partial"})
      PROVE  Safe'
  <2> DEFINE m == [proc[p] EXCEPT !.pc = pc, !.outcome = x]
  <2>1. m \in Locals /\ m.pc = pc /\ m.batch = proc[p].batch /\ m.outcome = x
    BY <1>1, <1>3 DEF Locals, Pcs, Outcomes
  <2>2. Fits(m) /\ (IsLive(m) => IsLive(proc[p]))
    BY <1>2, <1>3, <2>1 DEF Fits, IsLive, InTry
  <2>3. m.pc # "returned" /\ 0 \in Nat /\ 0 <= MaxIterations /\ "TOOL_ATTEMPT_ENDED" \in EventTypes
    BY <1>3, <2>1, BoundsAssumption DEF EventTypes
  <2>4. Logs(p, "TOOL_ATTEMPT_ENDED", FALSE, 0, <<Call(p)>>, m)
    BY <1>3
  <2> HIDE DEF m
  <2> QED
    BY <1>2, <2>1, <2>2, <2>3, <2>4, LogsKeep
<1>4. CASE proc[p].pc = "acted"
  <2>1. PICK x \in {"success", "partial"} :
          Logs(p, "TOOL_ATTEMPT_ENDED", FALSE, 0, <<Call(p)>>, [proc[p] EXCEPT !.pc = "settle", !.outcome = x])
    BY <1>4 DEF EndAttempt
  <2> QED
    BY <1>3, <2>1
<1>5. CASE proc[p].pc = "tool"
  <2>1. PICK x \in {"recoverable", "fatal"}, transient \in BOOLEAN :
          Logs(p, "TOOL_ATTEMPT_ENDED", FALSE, 0, <<Call(p)>>,
               [proc[p] EXCEPT !.pc = IF transient /\ proc[p].attempt < MaxAttempts THEN "failed" ELSE "settle",
                               !.outcome = x])
    BY <1>5 DEF EndAttempt
  <2>2. CASE transient /\ proc[p].attempt < MaxAttempts
    <3>1. Logs(p, "TOOL_ATTEMPT_ENDED", FALSE, 0, <<Call(p)>>, [proc[p] EXCEPT !.pc = "failed", !.outcome = x])
      BY <2>1, <2>2
    <3> QED
      BY <1>3, <1>5, <3>1
  <2>3. CASE ~(transient /\ proc[p].attempt < MaxAttempts)
    <3>1. Logs(p, "TOOL_ATTEMPT_ENDED", FALSE, 0, <<Call(p)>>, [proc[p] EXCEPT !.pc = "settle", !.outcome = x])
      BY <2>1, <2>3
    <3> QED
      BY <1>3, <1>5, <3>1
  <2> QED
    BY <2>2, <2>3
<1> QED
  BY <1>1, <1>4, <1>5

(* Failing durable operations, the end of a delay, the hard timeout.       *)
LEMMA FaultsKeep ==
  ASSUME Safe, NEW p \in Procs, StoreFails(p) \/ StoreCorrupt(p) \/ BeforeRetryAttempt(p) \/ Timeout(p)
  PROVE  Safe'
<1>1. CASE StoreFails(p)
  BY <1>1, RaiseKeeps DEF StoreFails
<1>2. CASE StoreCorrupt(p)
  <2>1. Goto(p, "raised") /\ UNCHANGED <<st, pend, iters, logged, rec, token, minted, tried, effects, redo>> /\ Spend("fault")
    BY <1>2 DEF StoreCorrupt, files, history
  <2>2. spent' \in [Counters -> Nat]
    BY <2>1, SpendTyped DEF Counters
  <2> QED
    BY <2>1, <2>2, GotoKeeps DEF Pcs, InTry
<1>3. CASE BeforeRetryAttempt(p)
  <2> DEFINE again == [proc[p] EXCEPT !.pc = "attempt", !.attempt = proc[p].attempt + 1]
             over == [proc[p] EXCEPT !.pc = "settle"]
             m == IF st \in TerminalStates THEN over ELSE again
  <2>1. /\ proc[p].pc = "sleep" /\ proc' = [proc EXCEPT ![p] = m] /\ spent' \in [Counters -> Nat]
        /\ UNCHANGED <<st, pend, iters, logged, rec, token, minted, tried, effects, redo>>
    <3>1. /\ proc[p].pc = "sleep" /\ spent' \in [Counters -> Nat]
          /\ UNCHANGED <<st, pend, iters, logged, rec, token, minted, tried, effects, redo>>
      BY <1>3 DEF BeforeRetryAttempt, files, history, Safe, Typed
    <3>2. CASE st \in TerminalStates
      BY <1>3, <3>1, <3>2 DEF BeforeRetryAttempt, At
    <3>3. CASE st \notin TerminalStates
      <4>1. proc' = [proc EXCEPT ![p] = [proc[p] EXCEPT !.pc = "attempt", !.attempt = @ + 1]]
        BY <1>3, <3>3 DEF BeforeRetryAttempt
      <4>2. [proc[p] EXCEPT !.pc = "attempt", !.attempt = @ + 1] = again
        BY DEF Safe, Typed, Locals
      <4> QED
        BY <3>1, <3>3, <4>1, <4>2
    <3> QED
      BY <3>2, <3>3
  <2>2. proc[p] \in Locals /\ proc[p].batch # <<>>
    BY <2>1, CallTyped DEF Safe, Typed, InTry
  <2>3. m \in Locals /\ m.pc \in {"settle", "attempt"} /\ m.batch = proc[p].batch
    <3>1. over \in Locals /\ over.pc = "settle" /\ over.batch = proc[p].batch
      BY <2>2 DEF Locals, Pcs
    <3>2. proc[p].attempt + 1 \in Nat
      BY <2>2 DEF Locals
    <3>3. again \in Locals /\ again.pc = "attempt" /\ again.batch = proc[p].batch
      BY <2>2, <3>2 DEF Locals, Pcs
    <3> HIDE DEF again, over
    <3> QED
      BY <3>1, <3>3
  <2>4. Fits(m) /\ IsLive(proc[p])
    BY <2>1, <2>2, <2>3 DEF Fits, IsLive, InTry
  <2>5. /\ FilesTyped' /\ iters' <= MaxIterations /\ (st \in TerminalStates => st' = st)
        /\ minted' \in SUBSET Calls /\ tried' \in SUBSET Calls /\ m.pc # "returned"
    BY <2>1, <2>3 DEF Safe, Typed, FilesTyped
  <2> HIDE DEF m
  <2> QED
    BY <2>1, <2>3, <2>4, <2>5, Moves
<1>4. CASE Timeout(p)
  BY <1>4, StopKeeps DEF Timeout, Pcs
<1> QED
  BY <1>1, <1>2, <1>3, <1>4

(* Cancellation ends the file before it sets the token.                    *)
LEMMA CancelKeeps ==
  ASSUME Safe, NEW p \in Procs, Cancel(p)
  PROVE  Safe'
<1>1. /\ Write("RUN_HALTED", FALSE, 0, <<>>) /\ token' = [token EXCEPT ![p] = TRUE] /\ Spend("cancel")
      /\ UNCHANGED <<rec, proc, minted, tried, effects, redo>>
  BY DEF Cancel, history
<1>2. 0 \in Nat /\ 0 <= MaxIterations /\ <<>> \in Seq(Calls) /\ "RUN_HALTED" \in EventTypes
  BY BoundsAssumption DEF EventTypes
<1>3. FilesTyped' /\ iters' <= MaxIterations /\ st' \in TerminalStates
  BY <1>1, <1>2, WriteKeepsFiles
<1>4. spent' \in [Counters -> Nat] /\ token' \in [Procs -> BOOLEAN]
  BY <1>1, SpendTyped DEF Counters, Safe, Typed
<1>5. Typed'
  BY <1>1, <1>3, <1>4 DEF Safe, Typed
<1>6. AllFit' /\ Ended'
  BY <1>1, <1>3 DEF Safe, AllFit, Fits, Ended
<1>7. ASSUME NEW o \in Ops PROVE Covered(o)'
  BY <1>1 DEF Safe, Covered, Live, IsLive, Claimable
<1> QED
  BY <1>3, <1>5, <1>6, <1>7 DEF Safe

(* A crash loses what was to come and leaves the records to their TTL.     *)
LEMMA CrashKeeps ==
  ASSUME Safe, NEW p \in Procs, Crash(p)
  PROVE  Safe'
<1>1. /\ proc' = [proc EXCEPT ![p] = Idle] /\ token' = [token EXCEPT ![p] = FALSE] /\ Spend("crash")
      /\ rec' = [o \in Ops |-> IF rec[o].owner = p THEN [rec[o] EXCEPT !.owner = Gone] ELSE rec[o]]
      /\ UNCHANGED <<st, pend, iters, logged, minted, tried, effects, redo>>
  BY DEF Crash, files, history
<1>2. \A q \in Procs : proc'[q] = IF q = p THEN Idle ELSE proc[q]
  BY <1>1 DEF Safe, Typed
<1>3. \A q \in Procs : token'[q] = IF q = p THEN FALSE ELSE token[q]
  BY <1>1 DEF Safe, Typed
<1>4. ASSUME NEW o \in Ops
      PROVE  rec'[o] \in Records /\ rec'[o].status = rec[o].status /\ rec'[o].expired = rec[o].expired
  <2>1. rec[o] \in Records
    BY DEF Safe, Typed
  <2>2. [rec[o] EXCEPT !.owner = Gone] \in Records
        /\ [rec[o] EXCEPT !.owner = Gone].status = rec[o].status /\ [rec[o] EXCEPT !.owner = Gone].expired = rec[o].expired
    BY <2>1 DEF Records
  <2> QED
    BY <1>1, <2>1, <2>2
<1>5. Typed'
  <2>1. spent' \in [Counters -> Nat]
    BY <1>1, SpendTyped DEF Counters
  <2>2. rec' \in [Ops -> Records]
    <3> DEFINE f(o) == IF rec[o].owner = p THEN [rec[o] EXCEPT !.owner = Gone] ELSE rec[o]
    <3>1. rec' = [o \in Ops |-> f(o)] /\ \A o \in Ops : rec'[o] \in Records
      BY <1>1, <1>4
    <3> HIDE DEF f
    <3> QED
      BY <3>1
  <2> QED
    BY <1>1, <2>1, <2>2, IdleTyped DEF Safe, Typed, FilesTyped
<1>6. AllFit' /\ Ended' /\ iters' <= MaxIterations
  BY <1>1, <1>2, <1>3, IdleTyped DEF Safe, AllFit, Fits, Ended, InTry
<1>7. ASSUME NEW o \in Ops PROVE Covered(o)'
  <2>1. Live(o)' \subseteq Live(o)
    BY <1>2, IdleTyped DEF Live, IsLive
  <2>2. Claimable(rec'[o]) <=> Claimable(rec[o])
    BY <1>4 DEF Claimable
  <2> QED
    BY <1>1, <2>1, <2>2, Untouched
<1> QED
  BY <1>5, <1>6, <1>7 DEF Safe

(* A claim whose TTL passes is free again, which is counted as a redo.     *)
LEMMA LapseKeeps ==
  ASSUME Safe, NEW o \in Ops, Lapse(o)
  PROVE  Safe'
<1> DEFINE r == [rec[o] EXCEPT !.expired = TRUE]
<1>1. /\ rec' = [rec EXCEPT ![o] = r] /\ redo' = [redo EXCEPT ![o] = @ + 1] /\ Spend("lapse")
      /\ UNCHANGED <<st, pend, iters, logged, proc, token, minted, tried, effects>>
  BY DEF Lapse, files
<1>2. rec[o] \in Records /\ redo[o] \in Nat
  BY DEF Safe, Typed
<1>3. r \in Records
  BY <1>2 DEF Records
<1> HIDE DEF r
<1>4. redo' \in [Ops -> Nat] /\ redo'[o] = redo[o] + 1 /\ \A x \in Ops : x # o => redo'[x] = redo[x]
  BY <1>1, <1>2 DEF Safe, Typed
<1>5. spent' \in [Counters -> Nat]
  BY <1>1, SpendTyped DEF Counters
<1>6. Typed'
  BY <1>1, <1>3, <1>4, <1>5 DEF Safe, Typed, FilesTyped
<1>7. AllFit' /\ Ended' /\ iters' <= MaxIterations
  BY <1>1 DEF Safe, AllFit, Fits, Ended
<1>8. ASSUME NEW x \in Ops, x # o PROVE Covered(x)'
  <2>1. Live(x)' = Live(x) /\ effects'[x] = effects[x] /\ redo'[x] = redo[x] /\ rec'[x] = rec[x]
    BY <1>1, <1>4, <1>8 DEF Live, IsLive, Safe, Typed
  <2> QED
    BY <2>1, Untouched
<1>9. Covered(o)'
  <2>1. Live(o)' = Live(o) /\ effects'[o] = effects[o]
    BY <1>1 DEF Live, IsLive
  <2>2. IsFiniteSet(Live(o)) /\ effects[o] + Cardinality(Live(o)) + Free(rec[o]) <= 1 + redo[o]
        /\ effects[o] \in Nat /\ Cardinality(Live(o)) \in Nat
    BY FS_CardinalityType DEF Safe, Covered, Typed, Free
  <2>3. Free(rec[o]) \in {0, 1} /\ Free(rec'[o]) \in {0, 1}
    BY DEF Free
  <2>4. effects'[o] + Cardinality(Live(o)') + Free(rec'[o]) <= 1 + redo'[o]
    BY <1>2, <1>4, <2>1, <2>2, <2>3
  <2> QED
    BY <2>1, <2>2, <2>4 DEF Covered, Free
<1> QED
  BY <1>6, <1>7, <1>8, <1>9 DEF Safe

(* AgentController.run has logged TASK_START, and no process works yet.    *)
LEMMA InitIsSafe ==
  ASSUME Init
  PROVE  Safe
<1>1. Typed
  <2>1. [status |-> "NONE", owner |-> Gone, expired |-> FALSE] \in Records
    BY DEF Records, Statuses
  <2>2. rec \in [Ops -> Records] /\ proc \in [Procs -> Locals]
    BY <2>1, IdleTyped DEF Init
  <2>3. FilesTyped
    BY DEF Init, FilesTyped, RunStates
  <2>4. token \in [Procs -> BOOLEAN] /\ effects \in [Ops -> Nat] /\ redo \in [Ops -> Nat] /\ spent \in [Counters -> Nat]
    BY DEF Init
  <2>5. minted \in SUBSET Calls /\ tried \in SUBSET Calls
    BY DEF Init
  <2> QED
    BY <2>2, <2>3, <2>4, <2>5 DEF Typed
<1>2. \A p \in Procs : proc[p].pc = "idle" /\ token[p] = FALSE
  BY IdleTyped DEF Init
<1>3. AllFit /\ Ended
  BY <1>2 DEF AllFit, Fits, Ended, InTry
<1>4. iters <= MaxIterations
  BY BoundsAssumption DEF Init
<1>5. ASSUME NEW o \in Ops PROVE Covered(o)
  <2>1. Live(o) = {}
    BY <1>2 DEF Live, IsLive
  <2>2. IsFiniteSet(Live(o)) /\ Cardinality(Live(o)) = 0
    BY <2>1, FS_EmptySet
  <2>3. effects[o] = 0 /\ redo[o] = 0
    BY DEF Init
  <2> QED
    BY <2>2, <2>3 DEF Covered
<1> QED
  BY <1>1, <1>3, <1>4, <1>5 DEF Safe

(* Every step keeps the first invariant.                                   *)
LEMMA NextKeepsSafe ==
  ASSUME Safe, [Next]_vars
  PROVE  Safe'
<1>1. CASE UNCHANGED vars
  BY <1>1 DEF vars, Safe, Typed, FilesTyped, AllFit, Fits, Ended, Covered, Live, IsLive, Claimable
<1>2. ASSUME NEW p \in Procs, Loop(p) PROVE Safe'
  BY <1>2, PlainLogsKeep, LaunchKeeps, LoopKeeps, ClaimKeeps, SettleKeeps, FaultsKeep DEF Loop
<1>3. ASSUME NEW p \in Procs, World(p) PROVE Safe'
  BY <1>3, LaunchKeeps, LoopKeeps, FaultsKeep, ToolActsKeeps, EndAttemptKeeps, CancelKeeps, CrashKeeps DEF World
<1>4. ASSUME NEW o \in Ops, Lapse(o) PROVE Safe'
  BY <1>4, LapseKeeps
<1> QED
  BY <1>1, <1>2, <1>3, <1>4 DEF Next

(* The invariant of the first part holds at every moment.                  *)
THEOREM SafeAlways == Spec => []Safe
<1>1. Init => Safe
  BY InitIsSafe
<1>2. Safe /\ [Next]_vars => Safe'
  BY NextKeepsSafe
<1> QED
  BY <1>1, <1>2, PTL DEF Spec

(* A tool acts at most once for an operation, beyond the times a claim's    *)
(* TTL passed or a tool reported partial success, whatever processes crash, *)
(* resume, compete and retry (claim_operation, _complete_v2 and _fail_v2).  *)
THEOREM EffectsAreCovered == Spec => []AtMostOneEffect
<1>1. Safe => AtMostOneEffect
  <2> SUFFICES ASSUME Safe, NEW o \in Ops PROVE effects[o] <= 1 + redo[o]
    BY DEF AtMostOneEffect
  <2>1. IsFiniteSet(Live(o)) /\ effects[o] + Cardinality(Live(o)) + Free(rec[o]) <= 1 + redo[o]
        /\ effects[o] \in Nat /\ redo[o] \in Nat
    BY DEF Safe, Covered, Typed, Free
  <2>2. Cardinality(Live(o)) \in Nat /\ Free(rec[o]) \in Nat
    BY <2>1, FS_CardinalityType DEF Free
  <2> QED
    BY <2>1, <2>2
<1> QED
  BY <1>1, SafeAlways, PTL

(* run() and resume() return only when the file says that the run ended,    *)
(* cancelled loops included: the token is set after RUN_HALTED is durable.  *)
THEOREM ReturnsAfterTheEnd == Spec => []ReturnMeansEnded
<1>1. Safe => ReturnMeansEnded
  BY DEF Safe, Ended, ReturnMeansEnded
<1> QED
  BY <1>1, SafeAlways, PTL

-----------------------------------------------------------------------------
(* The file has the last word: an ended run takes no new work.             *)

(* An ended run accepts neither requests and responses of the LLM nor       *)
(* attempts and results of tools.                                           *)
LEMMA EndAbsorbs ==
  ASSUME st \in TerminalStates, NEW t, NEW flag, NEW i, NEW cs, Write(t, flag, i, cs)
  PROVE  /\ t \notin {"LLM_REQUESTED", "LLM_RESPONDED", "TOOL_ATTEMPT_STARTED", "TOOL_RESULT_RECEIVED"}
         /\ UNCHANGED <<st, pend, iters>>
<1> DEFINE e == Event(t, flag)
<1>1. e.type = t
  BY DEF Event
<1> HIDE DEF e
<1>2. Transition(st, e) # "illegal" /\ st' = Transition(st, e)
  BY DEF Write, Accepts, e
<1>3. t \in Absorbs(st) /\ st' = st
  BY <1>1, <1>2 DEF Transition
<1>4. t \notin {"LLM_REQUESTED", "LLM_RESPONDED", "TOOL_ATTEMPT_STARTED", "TOOL_RESULT_RECEIVED"}
  BY <1>3 DEF Absorbs, TerminalStates
<1>5. iters' = iters /\ pend' = pend
  BY <1>4 DEF Write
<1> QED
  BY <1>3, <1>4, <1>5

(* A process moves while nothing happens to the run.                       *)
LEMMA QuietMove ==
  ASSUME Safe, NEW p \in Procs, NEW m, proc' = [proc EXCEPT ![p] = m], UNCHANGED <<st, iters, minted, tried>>,
         proc[p].pc = "sleep" => m.pc # "attempt"
  PROVE  NothingNew
<1>1. \A q \in Procs : proc'[q] = IF q = p THEN m ELSE proc[q]
  BY DEF Safe, Typed
<1> QED
  BY <1>1 DEF NothingNew

(* The same when the process only goes elsewhere.                          *)
LEMMA QuietGoto ==
  ASSUME Safe, NEW p \in Procs, NEW pc, Goto(p, pc), UNCHANGED <<st, iters, minted, tried>>,
         proc[p].pc = "sleep" => pc # "attempt"
  PROVE  NothingNew
<1> DEFINE m == [proc[p] EXCEPT !.pc = pc]
<1>1. m.pc = pc
  BY DEF Safe, Typed, Locals
<1>2. proc' = [proc EXCEPT ![p] = m]
  BY DEF Goto
<1> HIDE DEF m
<1> QED
  BY <1>1, <1>2, QuietMove

(* The errors of a log_event send the process to the end of its loop.      *)
LEMMA QuietRaise ==
  ASSUME Safe, NEW p \in Procs, RaiseStateError(p) \/ RaiseSystemError(p)
  PROVE  NothingNew
<1>1. CASE RaiseStateError(p)
  <2> DEFINE pc == IF proc[p].pc = "waiting" THEN "failing" ELSE "raised"
  <2>1. Goto(p, pc) /\ UNCHANGED <<st, iters, minted, tried>> /\ pc # "attempt"
    BY <1>1 DEF RaiseStateError, files, history
  <2> HIDE DEF pc
  <2> QED
    BY <2>1, QuietGoto
<1>2. CASE RaiseSystemError(p)
  <2> DEFINE pc == CASE proc[p].pc = "waiting" -> "halt_raise"
                     [] proc[p].pc \in InTry -> "halt_return"
                     [] OTHER -> "raised"
  <2>1. Goto(p, pc) /\ UNCHANGED <<st, iters, minted, tried>>
    BY <1>2 DEF RaiseSystemError, files, history
  <2>2. pc # "attempt"
    OBVIOUS
  <2> HIDE DEF pc
  <2> QED
    BY <2>1, <2>2, QuietGoto
<1> QED
  BY <1>1, <1>2

(* A log_event on an ended run is absorbed or refused.                     *)
LEMMA QuietLogs ==
  ASSUME Safe, st \in TerminalStates, NEW p \in Procs, NEW t, NEW flag, NEW i, NEW cs, NEW m,
         Logs(p, t, flag, i, cs, m), proc[p].pc # "sleep"
  PROVE  NothingNew
<1>1. CASE Write(t, flag, i, cs) /\ proc' = [proc EXCEPT ![p] = m]
           /\ minted' = (IF t = "LLM_RESPONDED" THEN minted \cup Elements(cs) ELSE minted)
           /\ tried' = (IF t = "TOOL_ATTEMPT_STARTED" THEN tried \cup Elements(cs) ELSE tried)
  <2>1. t \notin {"LLM_RESPONDED", "TOOL_ATTEMPT_STARTED"} /\ UNCHANGED <<st, iters>>
    BY <1>1, EndAbsorbs
  <2> QED
    BY <1>1, <2>1, QuietMove
<1>2. CASE RaiseStateError(p) \/ RaiseSystemError(p)
  BY <1>2, QuietRaise
<1> QED
  BY <1>1, <1>2 DEF Logs

(* A loop that stops does nothing new.                                     *)
LEMMA QuietStop ==
  ASSUME Safe, NEW p \in Procs, NEW pc, Stop(p, pc), pc # "attempt"
  PROVE  NothingNew
  BY QuietGoto DEF Stop, files, history

(* The loop's own steps, once the run has ended.                           *)
LEMMA QuietLoop ==
  ASSUME Safe, st \in TerminalStates, NEW p \in Procs, Loop(p)
  PROVE  NothingNew
<1>0. token[p] \in BOOLEAN
  BY DEF Safe, Typed
<1>1. CASE LogRunStarted(p) \/ LogFinalResponse(p) \/ LogRunCompleted(p) \/ LogRunFailed(p)
           \/ Reject(p) \/ StartAttempt(p) \/ ScheduleRetry(p)
  BY <1>1, QuietLogs DEF LogRunStarted, LogFinalResponse, LogRunCompleted, LogRunFailed,
                        Reject, StartAttempt, ScheduleRetry
<1>2. CASE LogRunHalted(p)
  <2> DEFINE m == At(p, IF proc[p].pc = "halt_return" THEN "returned" ELSE "raised")
  <2>1. proc[p].pc \in {"halt_return", "halt_raise"} /\ Logs(p, "RUN_HALTED", FALSE, 0, <<>>, m)
    BY <1>2 DEF LogRunHalted
  <2> HIDE DEF m
  <2> QED
    BY <2>1, QuietLogs
<1>3. CASE LogResult(p)
  <2> DEFINE last == Len(proc[p].batch) = 1
             m == [proc[p] EXCEPT !.pc = IF last THEN "iterate" ELSE "batch",
                                  !.batch = Tail(@), !.attempt = 0, !.outcome = "none"]
  <2>1. proc[p].pc = "result" /\ Logs(p, "TOOL_RESULT_RECEIVED", last, 0, <<Call(p)>>, m)
    BY <1>3 DEF LogResult
  <2> HIDE DEF m, last
  <2> QED
    BY <2>1, QuietLogs
<1>4. CASE Iterate(p)
  <2> DEFINE me == proc[p]
             m == [me EXCEPT !.pc = "waiting", !.used = @ + 1]
  <2>1. \/ Stop(p, "returned") \/ Stop(p, "halt_return")
        \/ me.pc = "iterate" /\ Logs(p, "LLM_REQUESTED", FALSE, me.used + 1, <<>>, m)
    BY <1>0, <1>4 DEF Iterate
  <2> HIDE DEF m
  <2> QED
    BY <2>1, QuietStop, QuietLogs
<1>5. CASE NextCall(p)
  <2> DEFINE me == proc[p]
             m == [me EXCEPT !.pc = "created", !.seen = @ \cup {Call(p)}]
  <2>1. \/ Stop(p, "returned") \/ Stop(p, "halt_return")
        \/ me.pc = "batch" /\ Logs(p, "TOOL_CALL_CREATED", FALSE, 0, <<Call(p)>>, m)
    BY <1>0, <1>5 DEF NextCall
  <2> HIDE DEF m
  <2> QED
    BY <2>1, QuietStop, QuietLogs
<1>6. CASE ReconstructSession(p)
  <2> DEFINE m == [proc[p] EXCEPT !.pc = "usage", !.batch = pend]
  <2>1. proc[p].pc = "session" /\ proc' = [proc EXCEPT ![p] = m] /\ UNCHANGED <<st, iters, minted, tried>>
    BY <1>6 DEF ReconstructSession, files, history
  <2> HIDE DEF m
  <2> QED
    BY <2>1, QuietMove
<1>7. CASE ReconstructUsage(p)
  <2> DEFINE pc == IF ~Within(iters, logged, 0, 0) THEN "halt_return"
                   ELSE IF proc[p].batch = <<>> THEN "iterate" ELSE "batch"
             m == [proc[p] EXCEPT !.used = iters, !.seen = logged, !.pc = pc]
  <2>1. proc[p].pc = "usage" /\ proc' = [proc EXCEPT ![p] = m] /\ UNCHANGED <<st, iters, minted, tried>>
    BY <1>7 DEF ReconstructUsage, files, history
  <2> HIDE DEF m
  <2> QED
    BY <2>1, QuietMove
<1>8. CASE ClaimOperation(p)
  <2>1. CASE Claimable(rec[Op(p)])
    <3> DEFINE m == [proc[p] EXCEPT !.pc = "attempt", !.attempt = 1]
    <3>1. proc[p].pc = "created" /\ proc' = [proc EXCEPT ![p] = m] /\ UNCHANGED <<st, iters, minted, tried>>
      BY <1>8, <2>1 DEF ClaimOperation, Claimed, files, history
    <3> HIDE DEF m
    <3> QED
      BY <3>1, QuietMove
  <2>2. CASE ~Claimable(rec[Op(p)])
    <3> DEFINE pc == IF rec[Op(p)].status = "IN_PROGRESS" /\ proc[p].mode = "resume" THEN "yielded" ELSE "result"
    <3>1. Stop(p, pc) /\ pc # "attempt"
      BY <1>8, <2>2 DEF ClaimOperation
    <3> HIDE DEF pc
    <3> QED
      BY <3>1, QuietStop
  <2> QED
    BY <2>1, <2>2
<1>9. CASE BeforeRetryAttempt(p)
  <2>1. proc' = [proc EXCEPT ![p] = At(p, "settle")] /\ UNCHANGED <<st, iters, minted, tried>>
    BY <1>9 DEF BeforeRetryAttempt, files, history
  <2>2. At(p, "settle").pc = "settle"
    BY DEF At, Safe, Typed, Locals
  <2> QED
    BY <2>1, <2>2, QuietMove
<1>10. CASE Settle(p)
  <2>1. (Goto(p, "result") /\ UNCHANGED <<st, iters, minted, tried>>) \/ Stop(p, "halt_return")
    BY <1>10 DEF Settle, files
  <2> QED
    BY <2>1, QuietStop, QuietGoto
<1> QED
  BY <1>1, <1>2, <1>3, <1>4, <1>5, <1>6, <1>7, <1>8, <1>9, <1>10 DEF Loop

(* The steps that come from outside the loop, once the run has ended.      *)
LEMMA QuietWorld ==
  ASSUME Safe, st \in TerminalStates, NEW p \in Procs, World(p)
  PROVE  NothingNew
<1>1. CASE Run(p)
  <2> DEFINE pc == IF token[p] THEN "returned" ELSE "starting"
  <2>1. Goto(p, pc) /\ UNCHANGED <<st, iters, minted, tried>> /\ pc # "attempt"
    BY <1>1 DEF Run, Goto, files, history
  <2> HIDE DEF pc
  <2> QED
    BY <2>1, QuietGoto
<1>2. CASE Resume(p)
  <2> DEFINE m == [Idle EXCEPT !.mode = "resume",
                               !.pc = CASE st = "COMPLETED" -> "returned"
                                        [] st \in {"FAILED", "HALTED"} -> "raised"
                                        [] OTHER -> "session"]
  <2>1. proc[p].pc \in Over /\ proc' = [proc EXCEPT ![p] = m] /\ UNCHANGED <<st, iters, minted, tried>>
    BY <1>2 DEF Resume, files, history
  <2> HIDE DEF m
  <2> QED
    BY <2>1, QuietMove DEF Over
<1>3. CASE Respond(p)
  <2>1. PICK m : \E cs \in Batches :
          proc[p].pc = "waiting" /\ Logs(p, "LLM_RESPONDED", cs # <<>>, proc[p].used, cs, m)
    BY <1>3 DEF Respond
  <2> QED
    BY <2>1, QuietLogs
<1>4. CASE LlmFails(p)
  <2> DEFINE m == [proc[p] EXCEPT !.pc = "failing", !.outcome = "llm_error"]
  <2>1. proc[p].pc = "waiting" /\ proc' = [proc EXCEPT ![p] = m] /\ UNCHANGED <<st, iters, minted, tried>>
    BY <1>4 DEF LlmFails, files, history
  <2> HIDE DEF m
  <2> QED
    BY <2>1, QuietMove
<1>5. CASE StoreFails(p)
  BY <1>5, QuietRaise DEF StoreFails
<1>6. CASE StoreCorrupt(p)
  BY <1>6, QuietGoto DEF StoreCorrupt, files, history
<1>7. CASE ToolActs(p)
  BY <1>7, QuietGoto DEF ToolActs, files
<1>8. CASE EndAttempt(p)
  <2>1. proc[p].pc # "sleep"
    BY <1>8 DEF EndAttempt
  <2>2. ASSUME NEW m, Logs(p, "TOOL_ATTEMPT_ENDED", FALSE, 0, <<Call(p)>>, m) PROVE NothingNew
    BY <2>1, <2>2, QuietLogs
  <2> QED
    BY <1>8, <2>2 DEF EndAttempt
<1>9. CASE Timeout(p)
  BY <1>9, QuietStop DEF Timeout
<1>10. CASE Cancel(p)
  <2>1. Write("RUN_HALTED", FALSE, 0, <<>>) /\ UNCHANGED <<proc, minted, tried>>
    BY <1>10 DEF Cancel, history
  <2>2. UNCHANGED <<st, iters>>
    BY <2>1, EndAbsorbs
  <2> QED
    BY <2>1, <2>2 DEF NothingNew
<1>11. CASE Crash(p)
  BY <1>11, QuietMove, IdleTyped DEF Crash, files, history
<1> QED
  BY <1>1, <1>2, <1>3, <1>4, <1>5, <1>6, <1>7, <1>8, <1>9, <1>10, <1>11 DEF World

(* Once the file says that the run ended, no process asks the LLM for       *)
(* another iteration, starts an attempt or goes on to a scheduled retry,    *)
(* for any number of processes (validate_state_transition and the guard     *)
(* before a retry).                                                         *)
THEOREM EndIsFinal == Spec => EndedRunStaysQuiet
<1>1. Safe /\ [Next]_vars => [(st \in TerminalStates) => NothingNew]_vars
  <2> SUFFICES ASSUME Safe, Next, st \in TerminalStates PROVE NothingNew
    OBVIOUS
  <2>1. ASSUME NEW o \in Ops, Lapse(o) PROVE NothingNew
    BY <2>1 DEF Lapse, files, NothingNew
  <2> QED
    BY <2>1, QuietLoop, QuietWorld DEF Next
<1> QED
  BY <1>1, SafeAlways, PTL DEF Spec, EndedRunStaysQuiet

-----------------------------------------------------------------------------
(* The second part: one process at a time.                                 *)

OneProcess == \A p, q \in Procs : p = q

WorkEvents == {"RUN_STARTED", "LLM_REQUESTED", "TOOL_CALL_CREATED", "TOOL_CALL_REJECTED", "TOOL_ATTEMPT_STARTED",
               "TOOL_ATTEMPT_ENDED", "RETRY_SCHEDULED", "TOOL_RESULT_RECEIVED"}

(* The events of a run at work neither meet an ended run nor end it.       *)
LEMMA WorkGoesOn ==
  ASSUME Safe, NEW t \in WorkEvents, NEW flag \in BOOLEAN, NEW i, NEW cs, Write(t, flag, i, cs)
  PROVE  st' \notin TerminalStates /\ (t = "LLM_REQUESTED" => st' = "LLM_WAITING")
<1> DEFINE e == Event(t, flag)
<1>1. e.type = t /\ e.flag = flag
  BY DEF Event
<1> HIDE DEF e
<1>2. Transition(st, e) # "illegal" /\ st' = Transition(st, e) /\ st \in RunStates
  BY DEF Write, Accepts, e, Safe, Typed, FilesTyped
<1>3. st \notin TerminalStates
  BY <1>1, <1>2 DEF Transition, WorkEvents, Absorbs, TerminalStates
<1>4. EndOf(e) = "none"
  BY <1>1 DEF EndOf, WorkEvents
<1>5. st' = MoveOf(st, e) /\ MoveOf(st, e) # "illegal"
  BY <1>2, <1>3, <1>4 DEF Transition
<1>6. MoveOf(st, e) \in {"illegal", "RUNNING", "LLM_WAITING", "TOOL_EXECUTING"}
      /\ (t = "LLM_REQUESTED" => MoveOf(st, e) \in {"illegal", "LLM_WAITING"})
  BY <1>1 DEF MoveOf, WorkEvents, Starts, ToolStarts, ToolSteps
<1> QED
  BY <1>5, <1>6 DEF TerminalStates

(* An LLM that waits for an answer gets it, and without tool calls it ends  *)
(* the run.                                                                 *)
LEMMA AnswerIsAwaited ==
  ASSUME NEW flag \in BOOLEAN
  PROVE  /\ Accepts("LLM_WAITING", Event("LLM_RESPONDED", flag))
         /\ Transition("LLM_WAITING", Event("LLM_RESPONDED", flag)) = IF flag THEN "TOOL_EXECUTING" ELSE "COMPLETED"
<1> DEFINE e == Event("LLM_RESPONDED", flag)
<1>1. e.type = "LLM_RESPONDED" /\ e.flag = flag
  BY DEF Event
<1> HIDE DEF e
<1>2. EndOf(e) = "none" /\ MoveOf("LLM_WAITING", e) = IF flag THEN "TOOL_EXECUTING" ELSE "COMPLETED"
  BY <1>1 DEF EndOf, MoveOf, Starts, ToolStarts, ToolSteps
<1>3. Transition("LLM_WAITING", e) = IF flag THEN "TOOL_EXECUTING" ELSE "COMPLETED"
  BY <1>2 DEF Transition, TerminalStates
<1> QED
  BY <1>3 DEF Accepts, e

(* Taking out the first of distinct calls leaves the others in order.      *)
LEMMA WithoutHead ==
  ASSUME NEW s \in Seq(Calls), s # <<>>, Distinct(s)
  PROVE  Without(s, Head(s)) = Tail(s) /\ Distinct(Tail(s))
<1>1. Len(s) \in Nat /\ Len(s) >= 1 /\ Head(s) = s[1] /\ Len(s) - 1 \in Nat
  BY EmptySeq
<1>2. Tail(s) \in Seq(Calls) /\ Len(Tail(s)) = Len(s) - 1 /\ \A i \in 1 .. Len(s) - 1 : Tail(s)[i] = s[i + 1]
  BY HeadTailProperties
<1> DEFINE n == CHOOSE i \in 1 .. Len(s) : s[i] = Head(s)
<1>3. n \in 1 .. Len(s) /\ s[n] = Head(s)
  BY <1>1
<1>4. n = 1
  BY <1>1, <1>3 DEF Distinct
<1>5. Head(s) \in Elements(s)
  BY <1>1 DEF Elements
<1>6. Without(s, Head(s)) = [i \in 1 .. Len(s) - 1 |-> IF i < n THEN s[i] ELSE s[i + 1]]
  BY <1>5 DEF Without
<1> HIDE DEF n
<1>7. Without(s, Head(s)) \in Seq(Calls)
  BY WithoutIsSeq
<1>8. \A i \in 1 .. Len(s) - 1 : Without(s, Head(s))[i] = s[i + 1]
  BY <1>1, <1>4, <1>6
<1>9. Len(Without(s, Head(s))) = Len(s) - 1
  BY <1>1, <1>6
<1>10. Without(s, Head(s)) = Tail(s)
  BY <1>2, <1>7, <1>8, <1>9, SeqEqual
<1>11. Distinct(Tail(s))
  <2> SUFFICES ASSUME NEW i \in 1 .. Len(s) - 1, NEW j \in 1 .. Len(s) - 1, Tail(s)[i] = Tail(s)[j] PROVE i = j
    BY <1>2 DEF Distinct
  <2>1. s[i + 1] = s[j + 1] /\ i + 1 \in 1 .. Len(s) /\ j + 1 \in 1 .. Len(s)
    BY <1>1, <1>2
  <2>2. i + 1 = j + 1
    BY <2>1 DEF Distinct
  <2> QED
    BY <2>2
<1> QED
  BY <1>10, <1>11

(* A process at work was launched.                                         *)
LEMMA Launched ==
  ASSUME Safe, OneLoop, NEW p \in Procs, proc[p].pc # "idle"
  PROVE  spent["launch"] # 0
  BY IdleTyped DEF OneLoop, Fresh

(* Spending another counter is no launch.                                  *)
LEMMA SpendsElsewhere ==
  ASSUME Safe, NEW x \in Counters, Spend(x), x # "launch"
  PROVE  spent'["launch"] = spent["launch"]
  BY DEF Safe, Typed, Spend, Counters

(* The only process moves: what has to hold afterwards.                    *)
LEMMA OneMove ==
  ASSUME OneProcess, Safe, OneLoop, NEW p \in Procs, NEW m, proc' = [proc EXCEPT ![p] = m],
         spent'["launch"] # 0, tried' \subseteq logged', Cardinality(tried') <= MaxToolCalls,
         Distinct(pend'), st' = "COMPLETED" => pend' = <<>>,
         Charged(m, tried'), InStep(m, pend'), Follows(m, st')
  PROVE  OneLoop'
<1>1. \A q \in Procs : proc'[q] = m
  BY DEF OneProcess, Safe, Typed
<1>2. \A q \in Procs : (Charged(proc[q], tried) /\ InStep(proc[q], pend) /\ Follows(proc[q], st))'
  BY <1>1 DEF Charged, InStep, Follows
<1> QED
  BY <1>2 DEF OneLoop, Fresh

(* A step inside the loop that stays with its batch and its charges.       *)
LEMMA LoopMove ==
  ASSUME OneProcess, Safe, OneLoop, NEW p \in Procs, NEW m, proc' = [proc EXCEPT ![p] = m],
         UNCHANGED <<pend, tried>>, logged \subseteq logged', spent'["launch"] = spent["launch"],
         proc[p].pc \in LoopPcs, m.pc \in LoopPcs, m.batch = proc[p].batch, m.seen = proc[p].seen,
         m.pc \in InTry \ {"batch"} => proc[p].pc \in InTry \ {"batch"},
         m.pc \in {"starting", "iterate", "waiting"} => proc[p].pc \in {"starting", "iterate", "waiting"},
         st' # "COMPLETED", m.pc = "waiting" => st' = "LLM_WAITING"
  PROVE  OneLoop'
<1>1. spent["launch"] # 0
  BY Launched DEF LoopPcs
<1>2. Charged(proc[p], tried) /\ InStep(proc[p], pend)
  BY DEF OneLoop
<1>3. Charged(m, tried') /\ InStep(m, pend') /\ Follows(m, st')
  BY <1>2 DEF Charged, InStep, Follows, LoopPcs
<1>4. tried' \subseteq logged' /\ Cardinality(tried') <= MaxToolCalls /\ Distinct(pend')
  BY DEF OneLoop, Distinct
<1> QED
  BY <1>1, <1>3, <1>4, OneMove

(* A step that leaves the loop, or that has not entered it yet.            *)
LEMMA LoopLeave ==
  ASSUME OneProcess, Safe, OneLoop, NEW p \in Procs, NEW m, proc' = [proc EXCEPT ![p] = m],
         UNCHANGED <<pend, tried>>, logged \subseteq logged', spent'["launch"] # 0,
         m.pc \notin LoopPcs \cup {"usage", "final", "completing"},
         m.pc = "failing" => m.outcome = "llm_error" \/ st' \in TerminalStates,
         st' = "COMPLETED" => m.pc \in Over /\ pend = <<>>
  PROVE  OneLoop'
<1>1. Charged(m, tried') /\ InStep(m, pend') /\ Follows(m, st')
  BY DEF Charged, InStep, Follows, LoopPcs
<1>2. tried' \subseteq logged' /\ Cardinality(tried') <= MaxToolCalls /\ Distinct(pend')
  BY DEF OneLoop, Distinct
<1> QED
  BY <1>1, <1>2, OneMove

(* The same when the process only goes elsewhere and the files stay.       *)
LEMMA LoopGoto ==
  ASSUME OneProcess, Safe, OneLoop, NEW p \in Procs, NEW pc, Goto(p, pc), proc[p].pc # "idle",
         UNCHANGED <<st, pend, logged, tried>>, spent'["launch"] = spent["launch"],
         pc \notin LoopPcs \cup {"usage", "final", "completing"},
         pc = "failing" => st \in TerminalStates,
         proc[p].pc \in LoopPcs \cup {"session", "usage"} \/ pc \in Over
  PROVE  OneLoop'
<1> DEFINE m == [proc[p] EXCEPT !.pc = pc]
<1>1. m.pc = pc /\ proc' = [proc EXCEPT ![p] = m]
  BY DEF Goto, Safe, Typed, Locals
<1>2. spent'["launch"] # 0
  BY Launched
<1>3. st = "COMPLETED" => pend = <<>> /\ pc \in Over
  BY DEF OneLoop, Follows, LoopPcs, Over
<1> HIDE DEF m
<1> QED
  BY <1>1, <1>2, <1>3, LoopLeave

(* The two errors of a log_event.                                          *)
LEMMA LoopRaise ==
  ASSUME OneProcess, Safe, OneLoop, NEW p \in Procs, proc[p].pc \notin Over,
         \/ RaiseStateError(p) /\ (proc[p].pc = "waiting" => st \in TerminalStates)
         \/ RaiseSystemError(p)
  PROVE  OneLoop'
<1>0. proc[p].pc # "idle"
  BY DEF Over
<1>1. CASE RaiseStateError(p) /\ (proc[p].pc = "waiting" => st \in TerminalStates)
  <2> DEFINE pc == IF proc[p].pc = "waiting" THEN "failing" ELSE "raised"
  <2>1. Goto(p, pc) /\ UNCHANGED <<st, pend, logged, tried>> /\ spent'["launch"] = spent["launch"]
    BY <1>1 DEF RaiseStateError, files, history
  <2>2. pc \in {"failing", "raised"} /\ (pc = "failing" => st \in TerminalStates /\ proc[p].pc = "waiting")
    BY <1>1
  <2> HIDE DEF pc
  <2> QED
    BY <1>0, <2>1, <2>2, LoopGoto DEF LoopPcs, Over
<1>2. CASE RaiseSystemError(p)
  <2> DEFINE pc == CASE proc[p].pc = "waiting" -> "halt_raise"
                     [] proc[p].pc \in InTry -> "halt_return"
                     [] OTHER -> "raised"
  <2>1. Goto(p, pc) /\ UNCHANGED <<st, pend, logged, tried>> /\ Spend("fault")
    BY <1>2 DEF RaiseSystemError, files, history
  <2>2. pc \in {"halt_raise", "halt_return", "raised"} /\ (pc # "raised" => proc[p].pc \in LoopPcs)
    BY DEF InTry, LoopPcs
  <2>3. spent'["launch"] = spent["launch"]
    BY <2>1, SpendsElsewhere DEF Counters
  <2> HIDE DEF pc
  <2> QED
    BY <1>0, <2>1, <2>2, <2>3, LoopGoto DEF LoopPcs, Over
<1> QED
  BY <1>1, <1>2

(* A loop that stops.                                                      *)
LEMMA LoopStop ==
  ASSUME OneProcess, Safe, OneLoop, NEW p \in Procs, NEW pc, Stop(p, pc), proc[p].pc \in LoopPcs,
         pc \in {"halt_return", "yielded", "returned"}
  PROVE  OneLoop'
  BY LoopGoto DEF Stop, files, history, LoopPcs

(* A log_event of a run at work, after which the process is elsewhere in    *)
(* its loop.                                                                *)
LEMMA LoopLogs ==
  ASSUME OneProcess, Safe, OneLoop, NEW p \in Procs, NEW t \in WorkEvents, NEW flag \in BOOLEAN, NEW i, NEW cs, NEW m,
         Logs(p, t, flag, i, cs, m), t \notin {"TOOL_ATTEMPT_STARTED", "TOOL_RESULT_RECEIVED"},
         proc[p].pc \in LoopPcs, proc[p].pc # "waiting", m.pc \in LoopPcs,
         m.batch = proc[p].batch, m.seen = proc[p].seen,
         m.pc \in InTry \ {"batch"} => proc[p].pc \in InTry \ {"batch"},
         m.pc \in {"starting", "iterate", "waiting"} => proc[p].pc \in {"starting", "iterate", "waiting"},
         m.pc = "waiting" => t = "LLM_REQUESTED"
  PROVE  OneLoop'
<1>1. CASE Write(t, flag, i, cs) /\ proc' = [proc EXCEPT ![p] = m] /\ spent' = spent
           /\ tried' = (IF t = "TOOL_ATTEMPT_STARTED" THEN tried \cup Elements(cs) ELSE tried)
  <2>1. st' # "COMPLETED" /\ (m.pc = "waiting" => st' = "LLM_WAITING")
    BY <1>1, WorkGoesOn DEF TerminalStates
  <2>2. UNCHANGED <<pend, tried>> /\ logged \subseteq logged'
    BY <1>1 DEF Write, WorkEvents
  <2> QED
    BY <1>1, <2>1, <2>2, LoopMove
<1>2. CASE RaiseStateError(p) \/ RaiseSystemError(p)
  BY <1>2, LoopRaise DEF LoopPcs, Over
<1> QED
  BY <1>1, <1>2 DEF Logs

(* The same when only the place changes.                                   *)
LEMMA LoopLogsThere ==
  ASSUME OneProcess, Safe, OneLoop, NEW p \in Procs, NEW t \in WorkEvents, NEW cs, NEW pc \in LoopPcs,
         Logs(p, t, FALSE, 0, cs, At(p, pc)), t \notin {"TOOL_ATTEMPT_STARTED", "TOOL_RESULT_RECEIVED"},
         proc[p].pc \in LoopPcs, proc[p].pc # "waiting", pc # "waiting",
         pc \in InTry \ {"batch"} => proc[p].pc \in InTry \ {"batch"},
         pc \in {"starting", "iterate"} => proc[p].pc \in {"starting", "iterate"}
  PROVE  OneLoop'
<1>1. At(p, pc).pc = pc /\ At(p, pc).batch = proc[p].batch /\ At(p, pc).seen = proc[p].seen
  BY DEF At, Safe, Typed, Locals
<1> QED
  BY <1>1, LoopLogs

(* A log_event that ends the run.                                          *)
LEMMA LoopEnds ==
  ASSUME OneProcess, Safe, OneLoop, NEW p \in Procs, NEW t \in {"RUN_COMPLETED", "RUN_FAILED", "RUN_HALTED"}, NEW pc,
         Logs(p, t, FALSE, 0, <<>>, At(p, pc)), proc[p].pc \notin Over, proc[p].pc # "waiting",
         pc \in {"returned", "raised"},
         t = "RUN_COMPLETED" => st = "COMPLETED"
  PROVE  OneLoop'
<1>1. CASE Write(t, FALSE, 0, <<>>) /\ proc' = [proc EXCEPT ![p] = At(p, pc)] /\ UNCHANGED <<spent>>
           /\ tried' = (IF t = "TOOL_ATTEMPT_STARTED" THEN tried \cup Elements(<<>>) ELSE tried)
  <2>1. UNCHANGED <<pend, tried>> /\ logged \subseteq logged'
    BY <1>1 DEF Write
  <2>2. At(p, pc).pc = pc /\ spent'["launch"] # 0
    BY <1>1, Launched DEF At, Safe, Typed, Locals, Over
  <2>3. st' = "COMPLETED" => st = "COMPLETED"
    <3> DEFINE e == Event(t, FALSE)
    <3>1. e.type = t
      BY DEF Event
    <3> HIDE DEF e
    <3>2. st' = Transition(st, e) /\ st' # "illegal"
      BY <1>1 DEF Write, Accepts, e
    <3>3. EndOf(e) = IF t = "RUN_COMPLETED" THEN "COMPLETED" ELSE IF t = "RUN_FAILED" THEN "FAILED" ELSE "HALTED"
      BY <3>1 DEF EndOf
    <3>4. st \in TerminalStates => st' = st
      BY <3>2 DEF Transition
    <3>5. st \notin TerminalStates => st' = EndOf(e)
      BY <3>2, <3>3 DEF Transition
    <3> QED
      BY <3>3, <3>4, <3>5
  <2>4. st' = "COMPLETED" => pend = <<>>
    BY <2>3 DEF OneLoop
  <2> QED
    BY <1>1, <2>1, <2>2, <2>4, LoopLeave DEF LoopPcs, Over
<1>2. CASE RaiseStateError(p) \/ RaiseSystemError(p)
  BY <1>2, LoopRaise
<1> QED
  BY <1>1, <1>2 DEF Logs

(* run() and resume().                                                     *)
LEMMA LoopLaunch ==
  ASSUME OneProcess, Safe, OneLoop, NEW p \in Procs,
         Run(p) \/ Resume(p) \/ ReconstructSession(p) \/ ReconstructUsage(p)
  PROVE  OneLoop'
<1>0. proc[p] \in Locals /\ Follows(proc[p], st) /\ InStep(proc[p], pend) /\ MaxToolCalls \in Nat
  BY BoundsAssumption DEF Safe, Typed, OneLoop
<1>1. CASE Run(p)
  <2> DEFINE pc == IF token[p] THEN "returned" ELSE "starting"
             m == [proc[p] EXCEPT !.pc = pc]
  <2>1. /\ proc' = [proc EXCEPT ![p] = m] /\ Spend("launch")
        /\ UNCHANGED <<st, pend, logged, tried>>
    BY <1>1 DEF Run, files, history
  <2>2. spent["launch"] = 0 /\ spent'["launch"] # 0
    BY <2>1 DEF Spend, Limit, Safe, Typed, Counters
  <2>3. pc \in {"returned", "starting"}
    OBVIOUS
  <2> HIDE DEF pc
  <2>4. st # "COMPLETED" /\ pend = <<>> /\ tried = {} /\ proc[p] = Idle
    BY <2>2 DEF OneLoop, Fresh
  <2>5. m.pc = pc /\ m.batch = <<>> /\ m.seen = {}
    BY <2>4 DEF Idle
  <2> HIDE DEF m
  <2>6. Charged(m, tried') /\ InStep(m, pend') /\ Follows(m, st')
    <3>1. Cardinality(m.seen) <= MaxToolCalls
      BY <1>0, <2>5, FS_EmptySet
    <3> QED
      BY <2>1, <2>3, <2>4, <2>5, <3>1 DEF Charged, InStep, Follows, InTry
  <2>7. tried' \subseteq logged' /\ Cardinality(tried') <= MaxToolCalls /\ Distinct(pend')
    BY <2>1 DEF OneLoop, Distinct
  <2> QED
    BY <2>1, <2>2, <2>4, <2>6, <2>7, OneMove
<1>2. CASE Resume(p)
  <2> DEFINE pc == CASE st = "COMPLETED" -> "returned"
                     [] st \in {"FAILED", "HALTED"} -> "raised"
                     [] OTHER -> "session"
             m == [Idle EXCEPT !.mode = "resume", !.pc = pc]
  <2>1. /\ proc' = [proc EXCEPT ![p] = m] /\ Spend("resume") /\ spent["launch"] = 1
        /\ UNCHANGED <<st, pend, logged, tried>>
    BY <1>2 DEF Resume, files, history
  <2>2. pc \in {"returned", "raised", "session"} /\ (st = "COMPLETED" => pc = "returned")
    OBVIOUS
  <2> HIDE DEF pc
  <2>3. m.pc = pc
    BY DEF Idle
  <2>4. spent'["launch"] # 0
    BY <2>1, SpendsElsewhere DEF Counters
  <2>5. st' = "COMPLETED" => m.pc \in Over /\ pend = <<>>
    BY <2>1, <2>2, <2>3 DEF OneLoop, Over
  <2> HIDE DEF m
  <2> QED
    BY <2>1, <2>2, <2>3, <2>4, <2>5, LoopLeave DEF LoopPcs, Over
<1>3. CASE ReconstructSession(p)
  <2> DEFINE m == [proc[p] EXCEPT !.pc = "usage", !.batch = pend]
  <2>1. /\ proc[p].pc = "session" /\ proc' = [proc EXCEPT ![p] = m]
        /\ UNCHANGED <<st, pend, logged, tried, spent>>
    BY <1>3 DEF ReconstructSession, files, history
  <2>2. m.pc = "usage" /\ m.batch = pend
    BY <1>0 DEF Locals
  <2> HIDE DEF m
  <2>3. spent'["launch"] # 0 /\ st # "COMPLETED"
    BY <1>0, <2>1, Launched DEF Follows, Over
  <2>4. Charged(m, tried') /\ InStep(m, pend') /\ Follows(m, st')
    BY <2>1, <2>2, <2>3 DEF Charged, InStep, Follows, LoopPcs
  <2>5. tried' \subseteq logged' /\ Cardinality(tried') <= MaxToolCalls /\ Distinct(pend')
    BY <2>1 DEF OneLoop, Distinct
  <2> QED
    BY <2>1, <2>3, <2>4, <2>5, OneMove
<1>4. CASE ReconstructUsage(p)
  <2> DEFINE fits == Within(iters, logged, 0, 0)
             pc == IF ~fits THEN "halt_return" ELSE IF proc[p].batch = <<>> THEN "iterate" ELSE "batch"
             m == [proc[p] EXCEPT !.used = iters, !.seen = logged, !.pc = pc]
  <2>1. /\ proc[p].pc = "usage" /\ proc' = [proc EXCEPT ![p] = m]
        /\ UNCHANGED <<st, pend, logged, tried, spent>>
    BY <1>4 DEF ReconstructUsage, files, history
  <2>2. fits => Cardinality(logged) <= MaxToolCalls
    <3>1. Cardinality(logged) \in Nat
      BY CallsAssumption, FS_Subset, FS_CardinalityType DEF Safe, Typed, FilesTyped
    <3> QED
      BY <3>1 DEF Within
  <2>3. pc \in {"halt_return", "iterate", "batch"} /\ (pc # "halt_return" => fits) /\ (pc = "iterate" => proc[p].batch = <<>>)
    OBVIOUS
  <2> HIDE DEF pc, fits
  <2>4. m.pc = pc /\ m.batch = proc[p].batch /\ m.seen = logged
    BY <1>0 DEF Locals
  <2> HIDE DEF m
  <2>5. spent'["launch"] # 0 /\ st # "COMPLETED" /\ proc[p].batch = pend
    BY <1>0, <2>1, Launched DEF Follows, InStep, Over
  <2>6. Charged(m, tried') /\ InStep(m, pend') /\ Follows(m, st')
    <3>1. tried \subseteq logged
      BY DEF OneLoop
    <3>2. Charged(m, tried')
      BY <2>1, <2>2, <2>3, <2>4, <3>1 DEF Charged, LoopPcs, InTry
    <3>3. InStep(m, pend')
      BY <2>1, <2>3, <2>4, <2>5 DEF InStep, LoopPcs
    <3>4. Follows(m, st')
      BY <2>1, <2>3, <2>4, <2>5 DEF Follows
    <3> QED
      BY <3>2, <3>3, <3>4
  <2>7. tried' \subseteq logged' /\ Cardinality(tried') <= MaxToolCalls /\ Distinct(pend')
    BY <2>1 DEF OneLoop, Distinct
  <2> QED
    BY <2>1, <2>5, <2>6, <2>7, OneMove
<1> QED
  BY <1>1, <1>2, <1>3, <1>4

(* The steps that log one event of a run at work, or its end.              *)
LEMMA LoopPlain ==
  ASSUME OneProcess, Safe, OneLoop, NEW p \in Procs,
         \/ LogRunStarted(p) \/ LogFinalResponse(p) \/ LogRunCompleted(p) \/ LogRunFailed(p) \/ LogRunHalted(p)
         \/ Reject(p) \/ ScheduleRetry(p)
  PROVE  OneLoop'
<1>0. Follows(proc[p], st)
  BY DEF OneLoop
<1>1. CASE LogRunStarted(p)
  BY <1>1, LoopLogsThere DEF LogRunStarted, WorkEvents, LoopPcs, InTry
<1>2. CASE Reject(p)
  BY <1>2, LoopLogsThere DEF Reject, WorkEvents, LoopPcs, InTry
<1>3. CASE ScheduleRetry(p)
  BY <1>3, LoopLogsThere DEF ScheduleRetry, WorkEvents, LoopPcs, InTry
<1>4. CASE LogRunCompleted(p)
  BY <1>0, <1>4, LoopEnds DEF LogRunCompleted, Over, Follows
<1>5. CASE LogRunFailed(p)
  BY <1>5, LoopEnds DEF LogRunFailed, Over
<1>6. CASE LogRunHalted(p)
  <2> DEFINE pc == IF proc[p].pc = "halt_return" THEN "returned" ELSE "raised"
  <2>1. /\ Logs(p, "RUN_HALTED", FALSE, 0, <<>>, At(p, pc)) /\ pc \in {"returned", "raised"}
        /\ proc[p].pc \in {"halt_return", "halt_raise"}
    BY <1>6 DEF LogRunHalted
  <2> HIDE DEF pc
  <2> QED
    BY <2>1, LoopEnds DEF Over
<1>7. CASE LogFinalResponse(p)
  <2>1. proc[p].pc = "final" /\ st = "COMPLETED" /\ Logs(p, "LLM_FINAL_RESPONSE", FALSE, 0, <<>>, At(p, "completing"))
    BY <1>0, <1>7 DEF LogFinalResponse, Follows
  <2>2. CASE Write("LLM_FINAL_RESPONSE", FALSE, 0, <<>>) /\ proc' = [proc EXCEPT ![p] = At(p, "completing")]
             /\ UNCHANGED <<spent, tried>>
    <3>1. At(p, "completing").pc = "completing" /\ spent'["launch"] # 0
      BY <2>1, <2>2, Launched DEF At, Safe, Typed, Locals
    <3>2. st' = "COMPLETED" /\ pend' = <<>>
      BY <2>1, <2>2, EndAbsorbs DEF TerminalStates, OneLoop
    <3>3. logged' = logged
      BY <2>2 DEF Write
    <3>4. Charged(At(p, "completing"), tried') /\ InStep(At(p, "completing"), pend') /\ Follows(At(p, "completing"), st')
      <4> DEFINE m == At(p, "completing")
      <4>1. m.pc = "completing"
        BY <3>1
      <4> QED
        BY <3>1, <3>2 DEF Charged, InStep, Follows, LoopPcs
    <3>5. tried' \subseteq logged' /\ Cardinality(tried') <= MaxToolCalls /\ Distinct(pend')
      BY <2>2, <3>2, <3>3 DEF OneLoop, Distinct
    <3> QED
      BY <2>2, <3>1, <3>2, <3>4, <3>5, OneMove
  <2>3. CASE RaiseStateError(p) \/ RaiseSystemError(p)
    BY <2>1, <2>3, LoopRaise DEF Over
  <2> QED
    BY <2>1, <2>2, <2>3 DEF Logs
<1> QED
  BY <1>1, <1>2, <1>3, <1>4, <1>5, <1>6, <1>7

(* An iteration and the call of the LLM.                                   *)
LEMMA LoopTurns ==
  ASSUME OneProcess, Safe, OneLoop, NEW p \in Procs, Iterate(p) \/ LlmFails(p) \/ Respond(p)
  PROVE  OneLoop'
<1> DEFINE me == proc[p]
<1>0. /\ me \in Locals /\ token[p] \in BOOLEAN
      /\ Charged(me, tried) /\ InStep(me, pend) /\ Follows(me, st)
  BY DEF Safe, Typed, OneLoop
<1>1. CASE Iterate(p)
  <2> DEFINE m == [me EXCEPT !.pc = "waiting", !.used = me.used + 1]
  <2>1. me.pc = "iterate"
    BY <1>1 DEF Iterate
  <2>2. \/ Stop(p, "returned") \/ Stop(p, "halt_return")
        \/ Logs(p, "LLM_REQUESTED", FALSE, me.used + 1, <<>>, m)
    BY <1>0, <1>1 DEF Iterate
  <2>3. m.pc = "waiting" /\ m.batch = me.batch /\ m.seen = me.seen
    BY <1>0 DEF Locals
  <2>4. ASSUME Stop(p, "returned") \/ Stop(p, "halt_return") PROVE OneLoop'
    BY <2>1, <2>4, LoopStop DEF LoopPcs
  <2> HIDE DEF m
  <2>5. ASSUME Logs(p, "LLM_REQUESTED", FALSE, me.used + 1, <<>>, m) PROVE OneLoop'
    BY <2>1, <2>3, <2>5, LoopLogs DEF LoopPcs, WorkEvents, InTry
  <2> QED
    BY <2>2, <2>4, <2>5
<1>2. CASE LlmFails(p)
  <2> DEFINE m == [me EXCEPT !.pc = "failing", !.outcome = "llm_error"]
  <2>1. me.pc = "waiting" /\ proc' = [proc EXCEPT ![p] = m] /\ UNCHANGED <<st, pend, logged, tried, spent>>
    BY <1>2 DEF LlmFails, files, history
  <2>2. m.pc = "failing" /\ m.outcome = "llm_error"
    BY <1>0 DEF Locals
  <2>3. spent'["launch"] # 0 /\ st # "COMPLETED"
    BY <1>0, <2>1, Launched DEF Follows, Over
  <2> HIDE DEF m, me
  <2> QED
    BY <2>1, <2>2, <2>3, LoopLeave DEF LoopPcs
<1>3. CASE Respond(p)
  <2>1. PICK cs \in Batches :
          Logs(p, "LLM_RESPONDED", cs # <<>>, me.used, cs,
               [me EXCEPT !.pc = IF cs = <<>> THEN "final" ELSE "batch", !.batch = cs])
    BY <1>3 DEF Respond
  <2> DEFINE flag == cs # <<>>
             pc == IF cs = <<>> THEN "final" ELSE "batch"
             m == [me EXCEPT !.pc = pc, !.batch = cs]
  <2>2. me.pc = "waiting" /\ Logs(p, "LLM_RESPONDED", flag, me.used, cs, m)
    BY <1>3, <2>1 DEF Respond
  <2>3. m.pc = pc /\ m.batch = cs /\ m.seen = me.seen
    BY <1>0 DEF Locals
  <2>4. cs \in Seq(Calls) /\ Distinct(cs)
    <3>1. PICK n \in 0 .. MaxBatch : cs \in [1 .. n -> Calls \ minted]
      BY DEF Batches
    <3>2. n \in Nat /\ cs \in [1 .. n -> Calls]
      BY <3>1, BoundsAssumption
    <3>3. cs \in Seq(Calls) /\ DOMAIN cs = 1 .. Len(cs)
      BY <3>2, SeqDef
    <3>4. \A i, j \in DOMAIN cs : i # j => cs[i] # cs[j]
      BY DEF Batches
    <3> QED
      BY <3>3, <3>4 DEF Distinct
  <2>5. pend = <<>> /\ pend \o cs = cs
    BY <1>0, <2>2, <2>4, ConcatEmptySeq DEF InStep
  <2>6. st \in {"LLM_WAITING", "FAILED", "HALTED"}
    BY <1>0, <2>2 DEF Follows, TerminalStates, Over
  <2>7. pc = (IF flag THEN "batch" ELSE "final") /\ flag \in BOOLEAN /\ (~flag => cs = <<>>)
    OBVIOUS
  <2> HIDE DEF pc, flag, m
  <2>8. CASE Write("LLM_RESPONDED", flag, me.used, cs) /\ proc' = [proc EXCEPT ![p] = m] /\ UNCHANGED <<spent, tried>>
    <3>1. st = "LLM_WAITING"
      BY <2>6, <2>8, EndAbsorbs DEF TerminalStates
    <3>2. st' = IF flag THEN "TOOL_EXECUTING" ELSE "COMPLETED"
      BY <2>7, <2>8, <3>1, AnswerIsAwaited DEF Write
    <3>3. pend' = cs /\ logged \subseteq logged'
      BY <2>5, <2>8 DEF Write
    <3>4. tried' \subseteq logged' /\ Cardinality(tried') <= MaxToolCalls /\ Distinct(pend')
      BY <2>4, <2>8, <3>3 DEF OneLoop
    <3>5. spent'["launch"] # 0
      BY <2>2, <2>8, Launched
    <3>6. Charged(m, tried')
      BY <1>0, <2>2, <2>3, <2>7, <2>8 DEF Charged, LoopPcs, InTry
    <3>7. InStep(m, pend')
      BY <2>3, <2>7, <3>3 DEF InStep, LoopPcs
    <3>8. Follows(m, st')
      BY <2>3, <2>7, <3>2 DEF Follows
    <3>9. st' = "COMPLETED" => pend' = <<>>
      BY <2>7, <3>2, <3>3
    <3> QED
      BY <2>8, <3>4, <3>5, <3>6, <3>7, <3>8, <3>9, OneMove
  <2>9. CASE ~Accepts(st, Event("LLM_RESPONDED", flag)) /\ RaiseStateError(p)
    <3>1. st \in TerminalStates
      BY <2>6, <2>7, <2>9, AnswerIsAwaited DEF TerminalStates
    <3> QED
      BY <2>2, <2>9, <3>1, LoopRaise DEF Over
  <2>10. CASE RaiseSystemError(p)
    BY <2>2, <2>10, LoopRaise DEF Over
  <2> QED
    BY <2>2, <2>8, <2>9, <2>10 DEF Logs
<1> QED
  BY <1>1, <1>2, <1>3

(* A call of the batch: charged, claimed, attempted, settled.              *)
LEMMA LoopCalls ==
  ASSUME OneProcess, Safe, OneLoop, NEW p \in Procs,
         NextCall(p) \/ ClaimOperation(p) \/ StartAttempt(p) \/ ToolActs(p) \/ EndAttempt(p) \/ BeforeRetryAttempt(p) \/ Settle(p)
  PROVE  OneLoop'
<1> DEFINE me == proc[p]
<1>0. /\ me \in Locals /\ token[p] \in BOOLEAN /\ MaxToolCalls \in Nat
      /\ Charged(me, tried) /\ InStep(me, pend) /\ Follows(me, st)
  BY BoundsAssumption DEF Safe, Typed, OneLoop
<1>a. me.pc \in LoopPcs => IsFiniteSet(me.seen) /\ Cardinality(me.seen) \in Nat
  BY <1>0, CallsAssumption, FS_Subset, FS_CardinalityType DEF Locals
<1>b. me.pc \in LoopPcs => st # "COMPLETED" /\ spent["launch"] # 0
  BY <1>0, Launched DEF Follows, LoopPcs, Over
<1>1. CASE NextCall(p)
  <2> DEFINE c == Call(p)
             isNew == c \notin me.seen
             seen == me.seen \cup {c}
             m == [me EXCEPT !.pc = "created", !.seen = seen]
  <2>1. me.pc = "batch"
    BY <1>1 DEF NextCall
  <2>2. CASE token[p] \/ (~token[p] /\ isNew /\ ~Within(me.used, me.seen, 0, 1))
    <3>1. Stop(p, "returned") \/ Stop(p, "halt_return")
      BY <1>0, <1>1, <2>2 DEF NextCall
    <3> QED
      BY <2>1, <3>1, LoopStop DEF LoopPcs
  <2>3. CASE ~token[p] /\ (isNew => Within(me.used, me.seen, 0, 1))
    <3>1. Logs(p, "TOOL_CALL_CREATED", FALSE, 0, <<c>>, m)
      BY <1>0, <1>1, <2>3 DEF NextCall
    <3>2. IsFiniteSet(seen) /\ Cardinality(seen) <= MaxToolCalls
      <4>1. CASE isNew
        <5>1. Cardinality(seen) = Cardinality(me.seen) + 1 /\ IsFiniteSet(seen)
          BY <1>a, <2>1, <4>1, FS_AddElement DEF LoopPcs
        <5> QED
          BY <1>0, <1>a, <2>1, <2>3, <4>1, <5>1 DEF Within, LoopPcs
      <4>2. CASE ~isNew
        <5>1. seen = me.seen
          BY <4>2
        <5> QED
          BY <1>0, <1>a, <2>1, <5>1 DEF Charged, LoopPcs
      <4> QED
        BY <4>1, <4>2
    <3>3. m.pc = "created" /\ m.batch = me.batch /\ m.seen = seen
      BY <1>0 DEF Locals
    <3>4. Head(me.batch) \in seen /\ me.seen \subseteq seen
      BY DEF Call
    <3> HIDE DEF m, seen
    <3>5. CASE Write("TOOL_CALL_CREATED", FALSE, 0, <<c>>) /\ proc' = [proc EXCEPT ![p] = m] /\ UNCHANGED <<spent, tried>>
      <4>1. st' \notin TerminalStates
        BY <3>5, WorkGoesOn DEF WorkEvents
      <4>2. pend' = pend /\ logged' = logged
        BY <3>5 DEF Write
      <4>3. tried' \subseteq logged' /\ Cardinality(tried') <= MaxToolCalls /\ Distinct(pend')
        BY <3>5, <4>2 DEF OneLoop, Distinct
      <4>4. Charged(m, tried')
        BY <1>0, <2>1, <3>2, <3>3, <3>4, <3>5 DEF Charged, LoopPcs
      <4>5. InStep(m, pend')
        BY <1>0, <2>1, <3>3, <4>2 DEF InStep, LoopPcs
      <4>6. Follows(m, st') /\ st' # "COMPLETED"
        BY <3>3, <4>1 DEF Follows, TerminalStates
      <4>7. spent'["launch"] # 0
        BY <1>b, <2>1, <3>5 DEF LoopPcs
      <4> QED
        BY <3>5, <4>3, <4>4, <4>5, <4>6, <4>7, OneMove
    <3>6. CASE RaiseStateError(p) \/ RaiseSystemError(p)
      BY <2>1, <3>6, LoopRaise DEF Over
    <3> QED
      BY <3>1, <3>5, <3>6 DEF Logs
  <2> QED
    BY <1>0, <2>2, <2>3
<1>2. CASE ClaimOperation(p)
  <2>1. me.pc = "created"
    BY <1>2 DEF ClaimOperation
  <2>2. CASE Claimable(rec[Op(p)])
    <3> DEFINE m == [me EXCEPT !.pc = "attempt", !.attempt = 1]
    <3>1. proc' = [proc EXCEPT ![p] = m] /\ UNCHANGED <<st, pend, logged, tried, spent>>
      BY <1>2, <2>2 DEF ClaimOperation, Claimed, files, history
    <3>2. m.pc = "attempt" /\ m.batch = me.batch /\ m.seen = me.seen
      BY <1>0 DEF Locals
    <3> HIDE DEF m
    <3> QED
      BY <1>b, <2>1, <3>1, <3>2, LoopMove DEF LoopPcs, InTry
  <2>3. CASE ~Claimable(rec[Op(p)])
    <3>1. Stop(p, "yielded") \/ Stop(p, "result")
      BY <1>2, <2>3 DEF ClaimOperation
    <3>2. CASE Stop(p, "yielded")
      BY <2>1, <3>2, LoopStop DEF LoopPcs
    <3>3. CASE Stop(p, "result")
      <4> DEFINE m == [me EXCEPT !.pc = "result"]
      <4>1. proc' = [proc EXCEPT ![p] = m] /\ UNCHANGED <<st, pend, logged, tried, spent>>
        BY <3>3 DEF Stop, Goto, files, history
      <4>2. m.pc = "result" /\ m.batch = me.batch /\ m.seen = me.seen
        BY <1>0 DEF Locals
      <4> HIDE DEF m
      <4> QED
        BY <1>b, <2>1, <4>1, <4>2, LoopMove DEF LoopPcs, InTry
    <3> QED
      BY <3>1, <3>2, <3>3
  <2> QED
    BY <2>2, <2>3
<1>3. CASE StartAttempt(p)
  <2> DEFINE c == Call(p)
             m == At(p, "tool")
  <2>1. me.pc = "attempt" /\ Logs(p, "TOOL_ATTEMPT_STARTED", FALSE, 0, <<c>>, m)
    BY <1>3 DEF StartAttempt
  <2>2. m.pc = "tool" /\ m.batch = me.batch /\ m.seen = me.seen
    BY <1>0 DEF At, Locals
  <2>3. c \in me.seen /\ c = Head(me.batch) /\ tried \subseteq me.seen /\ Cardinality(me.seen) <= MaxToolCalls
    BY <1>0, <2>1 DEF Charged, Call, LoopPcs, InTry
  <2>4. Elements(<<c>>) = {c}
    BY DEF Elements
  <2> HIDE DEF m, c
  <2>5. CASE Write("TOOL_ATTEMPT_STARTED", FALSE, 0, <<c>>) /\ proc' = [proc EXCEPT ![p] = m] /\ UNCHANGED <<spent>>
             /\ tried' = tried \cup Elements(<<c>>)
    <3>1. st' \notin TerminalStates
      BY <2>5, WorkGoesOn DEF WorkEvents
    <3>2. pend' = pend /\ logged' = logged \cup {c} /\ tried' = tried \cup {c}
      BY <2>4, <2>5 DEF Write
    <3>3. tried' \subseteq logged' /\ Distinct(pend') /\ tried' \subseteq me.seen
      BY <2>3, <3>2 DEF OneLoop, Distinct
    <3>4. Cardinality(tried') <= MaxToolCalls
      <4>1. Cardinality(tried') <= Cardinality(me.seen) /\ Cardinality(me.seen) \in Nat /\ Cardinality(tried') \in Nat
        BY <1>a, <2>1, <3>3, FS_Subset, FS_CardinalityType DEF LoopPcs
      <4> QED
        BY <1>0, <2>3, <4>1
    <3>5. Charged(m, tried')
      BY <2>2, <2>3, <3>3 DEF Charged
    <3>6. InStep(m, pend')
      BY <1>0, <2>1, <2>2, <3>2 DEF InStep, LoopPcs
    <3>7. Follows(m, st') /\ st' # "COMPLETED"
      BY <2>2, <3>1 DEF Follows, TerminalStates
    <3>8. spent'["launch"] # 0
      BY <1>b, <2>1, <2>5 DEF LoopPcs
    <3> QED
      BY <2>5, <3>3, <3>4, <3>5, <3>6, <3>7, <3>8, OneMove
  <2>6. CASE RaiseStateError(p) \/ RaiseSystemError(p)
    BY <2>1, <2>6, LoopRaise DEF Over
  <2> QED
    BY <2>1, <2>5, <2>6 DEF Logs
<1>4. CASE ToolActs(p)
  <2> DEFINE m == [me EXCEPT !.pc = "acted"]
  <2>1. me.pc = "tool" /\ proc' = [proc EXCEPT ![p] = m] /\ UNCHANGED <<st, pend, logged, tried, spent>>
    BY <1>4 DEF ToolActs, Goto, files
  <2>2. m.pc = "acted" /\ m.batch = me.batch /\ m.seen = me.seen
    BY <1>0 DEF Locals
  <2> HIDE DEF m
  <2> QED
    BY <1>b, <2>1, <2>2, LoopMove DEF LoopPcs, InTry
<1>5. CASE EndAttempt(p)
  <2>1. me.pc \in {"tool", "acted"}
    BY <1>5 DEF EndAttempt
  <2>2. ASSUME NEW pc \in {"settle", "failed"}, NEW x,
               Logs(p, "TOOL_ATTEMPT_ENDED", FALSE, 0, <<Call(p)>>, [me EXCEPT !.pc = pc, !.outcome = x])
        PROVE  OneLoop'
    <3> DEFINE m == [me EXCEPT !.pc = pc, !.outcome = x]
    <3>1. m.pc = pc /\ m.batch = me.batch /\ m.seen = me.seen
      BY <1>0 DEF Locals
    <3>2. Logs(p, "TOOL_ATTEMPT_ENDED", FALSE, 0, <<Call(p)>>, m)
      BY <2>2
    <3> HIDE DEF m
    <3> QED
      BY <2>1, <2>2, <3>1, <3>2, LoopLogs DEF LoopPcs, WorkEvents, InTry
  <2>3. CASE me.pc = "acted"
    <3>1. PICK x \in {"success", "partial"} :
            Logs(p, "TOOL_ATTEMPT_ENDED", FALSE, 0, <<Call(p)>>, [me EXCEPT !.pc = "settle", !.outcome = x])
      BY <1>5, <2>3 DEF EndAttempt
    <3> QED
      BY <2>2, <3>1
  <2>4. CASE me.pc = "tool"
    <3>1. PICK x \in {"recoverable", "fatal"}, transient \in BOOLEAN :
            Logs(p, "TOOL_ATTEMPT_ENDED", FALSE, 0, <<Call(p)>>,
                 [me EXCEPT !.pc = IF transient /\ me.attempt < MaxAttempts THEN "failed" ELSE "settle",
                            !.outcome = x])
      BY <1>5, <2>4 DEF EndAttempt
    <3>2. CASE transient /\ me.attempt < MaxAttempts
      <4>1. Logs(p, "TOOL_ATTEMPT_ENDED", FALSE, 0, <<Call(p)>>, [me EXCEPT !.pc = "failed", !.outcome = x])
        BY <3>1, <3>2
      <4> QED
        BY <2>2, <4>1
    <3>3. CASE ~(transient /\ me.attempt < MaxAttempts)
      <4>1. Logs(p, "TOOL_ATTEMPT_ENDED", FALSE, 0, <<Call(p)>>, [me EXCEPT !.pc = "settle", !.outcome = x])
        BY <3>1, <3>3
      <4> QED
        BY <2>2, <4>1
    <3> QED
      BY <3>2, <3>3
  <2> QED
    BY <2>1, <2>3, <2>4
<1>6. CASE BeforeRetryAttempt(p)
  <2> DEFINE over == At(p, "settle")
             again == [me EXCEPT !.pc = "attempt", !.attempt = me.attempt + 1]
             m == IF st \in TerminalStates THEN over ELSE again
  <2>1. me.pc = "sleep" /\ proc' = [proc EXCEPT ![p] = m] /\ UNCHANGED <<st, pend, logged, tried, spent>>
    BY <1>6 DEF BeforeRetryAttempt, files, history
  <2>2. m.pc \in {"settle", "attempt"} /\ m.batch = me.batch /\ m.seen = me.seen
    <3>1. over.pc = "settle" /\ over.batch = me.batch /\ over.seen = me.seen
      BY <1>0 DEF Locals, At
    <3>2. again.pc = "attempt" /\ again.batch = me.batch /\ again.seen = me.seen
      BY <1>0 DEF Locals
    <3> HIDE DEF again, over
    <3> QED
      BY <3>1, <3>2
  <2> HIDE DEF m
  <2> QED
    BY <1>b, <2>1, <2>2, LoopMove DEF LoopPcs, InTry
<1>7. CASE Settle(p)
  <2>1. me.pc = "settle"
    BY <1>7 DEF Settle
  <2>2. CASE Stop(p, "halt_return")
    BY <2>1, <2>2, LoopStop DEF LoopPcs
  <2>3. CASE Goto(p, "result") /\ UNCHANGED <<st, pend, logged, tried, spent>>
    <3> DEFINE m == [me EXCEPT !.pc = "result"]
    <3>1. proc' = [proc EXCEPT ![p] = m]
      BY <2>3 DEF Goto
    <3>2. m.pc = "result" /\ m.batch = me.batch /\ m.seen = me.seen
      BY <1>0 DEF Locals
    <3> HIDE DEF m
    <3> QED
      BY <1>b, <2>1, <2>3, <3>1, <3>2, LoopMove DEF LoopPcs, InTry
  <2> QED
    BY <1>7, <2>2, <2>3 DEF Settle, files
<1> QED
  BY <1>1, <1>2, <1>3, <1>4, <1>5, <1>6, <1>7

(* The result of a call: the file and the loop drop the same call.         *)
LEMMA LoopResult ==
  ASSUME OneProcess, Safe, OneLoop, NEW p \in Procs, LogResult(p)
  PROVE  OneLoop'
<1> DEFINE me == proc[p]
           last == Len(me.batch) = 1
           pc == IF last THEN "iterate" ELSE "batch"
           c == Call(p)
           m == [me EXCEPT !.pc = pc, !.batch = Tail(me.batch), !.attempt = 0, !.outcome = "none"]
<1>0. me \in Locals /\ Charged(me, tried) /\ InStep(me, pend) /\ Follows(me, st)
  BY DEF Safe, Typed, OneLoop
<1>1. me.pc = "result" /\ Logs(p, "TOOL_RESULT_RECEIVED", last, 0, <<c>>, m)
  BY DEF LogResult
<1>2. me.batch \in Seq(Calls) /\ me.batch # <<>> /\ me.batch = pend /\ c = Head(pend)
  BY <1>0, <1>1, CallTyped DEF InTry, InStep, LoopPcs, Call
<1>3. Len(pend) \in Nat /\ Len(Tail(pend)) = Len(pend) - 1 /\ Tail(pend) \in Seq(Calls)
  BY <1>2, HeadTailProperties
<1>4. last => Tail(pend) = <<>>
  <2>1. last => Len(Tail(pend)) = 0
    BY <1>2, <1>3
  <2> HIDE DEF last
  <2> QED
    BY <1>3, <2>1, EmptySeq
<1>5. Without(pend, c) = Tail(pend) /\ Distinct(Tail(pend))
  BY <1>2, WithoutHead DEF OneLoop
<1>6. m.pc = pc /\ m.batch = Tail(pend) /\ m.seen = me.seen
  BY <1>0, <1>2 DEF Locals
<1>7. pc \in {"iterate", "batch"} /\ (pc = "iterate" => Tail(pend) = <<>>) /\ last \in BOOLEAN
  BY <1>4
<1> HIDE DEF m, pc, last, c
<1>8. CASE Write("TOOL_RESULT_RECEIVED", last, 0, <<c>>) /\ proc' = [proc EXCEPT ![p] = m] /\ UNCHANGED <<spent, tried>>
  <2>1. st' \notin TerminalStates
    BY <1>7, <1>8, WorkGoesOn DEF WorkEvents
  <2>2. pend' = Tail(pend) /\ logged \subseteq logged'
    BY <1>5, <1>8 DEF Write
  <2>3. tried' \subseteq logged' /\ Distinct(pend') /\ Cardinality(tried') <= MaxToolCalls
    BY <1>5, <1>8, <2>2 DEF OneLoop
  <2>4. Charged(m, tried')
    BY <1>0, <1>1, <1>6, <1>7, <1>8 DEF Charged, LoopPcs, InTry
  <2>5. InStep(m, pend')
    BY <1>6, <1>7, <2>2 DEF InStep
  <2>6. Follows(m, st') /\ st' # "COMPLETED"
    BY <1>6, <1>7, <2>1 DEF Follows, TerminalStates
  <2>7. spent'["launch"] # 0
    BY <1>1, <1>8, Launched
  <2> QED
    BY <1>8, <2>3, <2>4, <2>5, <2>6, <2>7, OneMove
<1>9. CASE RaiseStateError(p) \/ RaiseSystemError(p)
  BY <1>1, <1>9, LoopRaise DEF Over
<1> QED
  BY <1>1, <1>8, <1>9 DEF Logs

(* Failing durable operations, the hard timeout, a crash.                  *)
LEMMA LoopFaults ==
  ASSUME OneProcess, Safe, OneLoop, NEW p \in Procs, StoreFails(p) \/ StoreCorrupt(p) \/ Timeout(p) \/ Crash(p)
  PROVE  OneLoop'
<1>1. CASE StoreFails(p)
  BY <1>1, LoopRaise DEF StoreFails, Over
<1>2. CASE StoreCorrupt(p)
  <2>1. proc[p].pc = "created" /\ Goto(p, "raised") /\ UNCHANGED <<st, pend, logged, tried>> /\ Spend("fault")
    BY <1>2 DEF StoreCorrupt, files, history
  <2>2. spent'["launch"] = spent["launch"]
    BY <2>1, SpendsElsewhere DEF Counters
  <2> QED
    BY <2>1, <2>2, LoopGoto DEF LoopPcs, Over
<1>3. CASE Timeout(p)
  BY <1>3, LoopStop DEF Timeout, Awaits, LoopPcs
<1>4. CASE Crash(p)
  <2>1. proc[p].pc # "idle" /\ proc' = [proc EXCEPT ![p] = Idle] /\ UNCHANGED <<st, pend, logged, tried>> /\ Spend("crash")
    BY <1>4 DEF Crash, files, history, Over
  <2>2. spent'["launch"] # 0
    BY <2>1, Launched, SpendsElsewhere DEF Counters
  <2>3. st' = "COMPLETED" => Idle.pc \in Over /\ pend = <<>>
    BY <2>1, IdleTyped DEF OneLoop, Over
  <2> QED
    BY <2>1, <2>2, <2>3, LoopLeave, IdleTyped DEF LoopPcs
<1> QED
  BY <1>1, <1>2, <1>3, <1>4

(* A cancellation ends the run and leaves the loop where it is.            *)
LEMMA LoopCancel ==
  ASSUME OneProcess, Safe, OneLoop, NEW p \in Procs, Cancel(p)
  PROVE  OneLoop'
<1>1. /\ Write("RUN_HALTED", FALSE, 0, <<>>) /\ Spend("cancel") /\ UNCHANGED <<proc, tried>>
  BY DEF Cancel, history
<1>2. UNCHANGED <<pend, logged>>
  BY <1>1 DEF Write
<1>3. st' = "HALTED"
  <2> DEFINE e == Event("RUN_HALTED", FALSE)
  <2>1. e.type = "RUN_HALTED"
    BY DEF Event
  <2> HIDE DEF e
  <2>2. st' = Transition(st, e) /\ st' # "illegal"
    BY <1>1 DEF Write, Accepts, e
  <2>3. EndOf(e) = "HALTED"
    BY <2>1 DEF EndOf
  <2> QED
    BY <2>1, <2>2, <2>3 DEF Transition, Absorbs, TerminalStates
<1>4. st # "COMPLETED"
  <2> DEFINE e == Event("RUN_HALTED", FALSE)
  <2>1. e.type = "RUN_HALTED"
    BY DEF Event
  <2> HIDE DEF e
  <2>2. Transition(st, e) # "illegal"
    BY <1>1 DEF Write, Accepts, e
  <2> QED
    BY <2>1, <2>2 DEF Transition, Absorbs, TerminalStates
<1>5. spent'["launch"] = spent["launch"]
  BY <1>1, SpendsElsewhere DEF Counters
<1>6. Fresh'
  BY <1>1, <1>2, <1>3, <1>5 DEF OneLoop, Fresh
<1>7. ASSUME NEW q \in Procs PROVE Follows(proc[q], st')
  <2>1. Follows(proc[q], st)
    BY DEF OneLoop
  <2> QED
    BY <1>3, <1>4, <2>1 DEF Follows, TerminalStates
<1>8. Distinct(pend')
  BY <1>2 DEF OneLoop, Distinct
<1> QED
  BY <1>1, <1>2, <1>3, <1>6, <1>7, <1>8 DEF OneLoop, Charged, InStep

(* Every step keeps the second invariant.                                  *)
LEMMA NextKeepsLoop ==
  ASSUME OneProcess, Safe, OneLoop, [Next]_vars
  PROVE  OneLoop'
<1>1. ASSUME UNCHANGED <<st, pend, logged, tried, proc>>, spent'["launch"] = spent["launch"] PROVE OneLoop'
  BY <1>1 DEF OneLoop, Fresh, Distinct, Charged, InStep, Follows
<1>2. CASE UNCHANGED vars
  BY <1>1, <1>2 DEF vars
<1>3. ASSUME NEW p \in Procs, Loop(p) PROVE OneLoop'
  BY <1>3, LoopPlain, LoopLaunch, LoopTurns, LoopCalls, LoopResult DEF Loop
<1>4. ASSUME NEW p \in Procs, World(p) PROVE OneLoop'
  BY <1>4, LoopLaunch, LoopTurns, LoopFaults, LoopCalls, LoopCancel DEF World
<1>5. ASSUME NEW o \in Ops, Lapse(o) PROVE OneLoop'
  BY <1>1, <1>5, SpendsElsewhere DEF Lapse, files, Counters
<1> QED
  BY <1>2, <1>3, <1>4, <1>5 DEF Next

(* Before the launch nothing has been asked, charged or attempted.         *)
LEMMA InitIsOneLoop ==
  ASSUME Init
  PROVE  OneLoop
<1>1. st = "RUNNING" /\ pend = <<>> /\ logged = {} /\ tried = {} /\ \A p \in Procs : proc[p] = Idle
  BY DEF Init
<1>2. MaxToolCalls \in Nat /\ Cardinality(tried) <= MaxToolCalls
  BY <1>1, FS_EmptySet, BoundsAssumption
<1>3. Distinct(pend)
  BY <1>1 DEF Distinct
<1>4. \A p \in Procs : Charged(proc[p], tried) /\ InStep(proc[p], pend) /\ Follows(proc[p], st)
  BY <1>1, IdleTyped DEF Charged, InStep, Follows, LoopPcs
<1> QED
  BY <1>1, <1>2, <1>3, <1>4 DEF OneLoop, Fresh

(* The invariant of the second part holds at every moment.                 *)
THEOREM OneLoopAlways == ASSUME OneProcess PROVE Spec => []OneLoop
<1>1. Init => OneLoop
  BY InitIsOneLoop
<1>2. Safe /\ OneLoop /\ [Next]_vars => OneLoop'
  BY NextKeepsLoop
<1> QED
  BY <1>1, <1>2, SafeAlways, PTL DEF Spec

(* The budget holds over the whole run, crashes and resumes included: never *)
(* more LLM iterations than max_iterations, never attempts for more calls   *)
(* than max_tool_calls (RunBudgetEngine.decide and reconstruct_usage).      *)
THEOREM BudgetHolds == ASSUME OneProcess PROVE Spec => []BudgetRespected
<1>1. Safe /\ OneLoop => BudgetRespected
  BY DEF Safe, OneLoop, BudgetRespected
<1> QED
  BY <1>1, SafeAlways, OneLoopAlways, PTL

(* A completed run left no call without a result and no tool at work.      *)
THEOREM CompletionIsClean == ASSUME OneProcess PROVE Spec => []CompletedMeansDone
<1>1. OneLoop => CompletedMeansDone
  BY DEF OneLoop, Follows, Over, CompletedMeansDone
<1> QED
  BY <1>1, OneLoopAlways, PTL

(* A run is recorded FAILED only by a loop whose LLM call failed: a refused *)
(* event, a disk error, a timeout or a crash never is (the two try blocks   *)
(* of AgentLoop._execute_loop).                                             *)
THEOREM FailureHasAReason == ASSUME OneProcess PROVE Spec => FailsForAReason
<1> DEFINE Reason == \E p \in Procs : proc[p].pc = "failing" /\ proc[p].outcome = "llm_error"
           Fails == st # "FAILED" /\ st' = "FAILED"
<1>1. Safe /\ OneLoop /\ [Next]_vars => [Fails => Reason]_vars
  <2> SUFFICES ASSUME Safe, OneLoop, Next, Fails PROVE Reason
    OBVIOUS
  <2>1. ASSUME NEW t, NEW flag, NEW i, NEW cs, Write(t, flag, i, cs) PROVE st \notin TerminalStates /\ t \in {"RUN_FAILED", "TASK_END"}
    <3> DEFINE e == Event(t, flag)
    <3>1. e.type = t
      BY DEF Event
    <3> HIDE DEF e
    <3>2. st' = Transition(st, e) /\ st' # "illegal"
      BY <2>1 DEF Write, Accepts, e
    <3>3. st \notin TerminalStates
      BY <3>2 DEF Transition
    <3>4. MoveOf(st, e) # "FAILED"
      BY DEF MoveOf
    <3>5. EndOf(e) = "FAILED"
      BY <3>2, <3>3, <3>4 DEF Transition
    <3> QED
      BY <3>1, <3>3, <3>5 DEF EndOf
  <2>2. ASSUME NEW p \in Procs, NEW t, NEW flag, NEW i, NEW cs, NEW m, Logs(p, t, flag, i, cs, m)
        PROVE  st \notin TerminalStates /\ t \in {"RUN_FAILED", "TASK_END"}
    BY <2>1, <2>2 DEF Logs, RaiseStateError, RaiseSystemError, files
  <2>b. ASSUME NEW p \in Procs, NEW t, NEW flag, NEW i, NEW cs, NEW m, Logs(p, t, flag, i, cs, m),
               t # "RUN_FAILED", t # "TASK_END"
        PROVE  Reason
    BY <2>2, <2>b
  <2>3. ASSUME NEW p \in Procs, Loop(p) PROVE Reason
    <3>0. token[p] \in BOOLEAN
      BY DEF Safe, Typed
    <3>1. CASE LogRunFailed(p)
      <4>1. proc[p].pc = "failing" /\ st \notin TerminalStates
        BY <2>2, <3>1 DEF LogRunFailed
      <4>2. Follows(proc[p], st)
        BY DEF OneLoop
      <4> QED
        BY <4>1, <4>2 DEF Follows
    <3>2. CASE LogRunStarted(p) \/ LogFinalResponse(p) \/ LogRunCompleted(p)
               \/ Reject(p) \/ StartAttempt(p) \/ ScheduleRetry(p)
      BY <2>b, <3>2 DEF LogRunStarted, LogFinalResponse, LogRunCompleted, Reject, StartAttempt, ScheduleRetry
    <3>3. CASE LogRunHalted(p)
      <4> DEFINE m == At(p, IF proc[p].pc = "halt_return" THEN "returned" ELSE "raised")
      <4>1. Logs(p, "RUN_HALTED", FALSE, 0, <<>>, m)
        BY <3>3 DEF LogRunHalted
      <4> HIDE DEF m, Reason
      <4> QED
        BY <2>b, <4>1
    <3>4. CASE LogResult(p)
      <4> DEFINE last == Len(proc[p].batch) = 1
                 m == [proc[p] EXCEPT !.pc = IF last THEN "iterate" ELSE "batch",
                                      !.batch = Tail(@), !.attempt = 0, !.outcome = "none"]
      <4>1. Logs(p, "TOOL_RESULT_RECEIVED", last, 0, <<Call(p)>>, m)
        BY <3>4 DEF LogResult
      <4> HIDE DEF m, last, Reason
      <4> QED
        BY <2>b, <4>1
    <3>5. CASE ReconstructSession(p) \/ ReconstructUsage(p) \/ ClaimOperation(p) \/ BeforeRetryAttempt(p) \/ Settle(p)
      BY <3>5 DEF ReconstructSession, ReconstructUsage, ClaimOperation, Claimed, BeforeRetryAttempt, Settle, Stop, files
    <3>6. CASE Iterate(p)
      <4> DEFINE me == proc[p]
                 m == [me EXCEPT !.pc = "waiting", !.used = @ + 1]
      <4>1. \/ Stop(p, "returned") \/ Stop(p, "halt_return")
            \/ Logs(p, "LLM_REQUESTED", FALSE, me.used + 1, <<>>, m)
        BY <3>0, <3>6 DEF Iterate
      <4>2. ~Stop(p, "returned") /\ ~Stop(p, "halt_return")
        BY DEF Stop, files
      <4> HIDE DEF m, Reason
      <4> QED
        BY <2>b, <4>1, <4>2
    <3>7. CASE NextCall(p)
      <4> DEFINE me == proc[p]
                 m == [me EXCEPT !.pc = "created", !.seen = @ \cup {Call(p)}]
      <4>1. \/ Stop(p, "returned") \/ Stop(p, "halt_return")
            \/ Logs(p, "TOOL_CALL_CREATED", FALSE, 0, <<Call(p)>>, m)
        BY <3>0, <3>7 DEF NextCall
      <4>2. ~Stop(p, "returned") /\ ~Stop(p, "halt_return")
        BY DEF Stop, files
      <4> HIDE DEF m, Reason
      <4> QED
        BY <2>b, <4>1, <4>2
    <3> HIDE DEF Reason
    <3> QED
      BY <2>3, <3>1, <3>2, <3>3, <3>4, <3>5, <3>6, <3>7 DEF Loop
  <2>4. ASSUME NEW p \in Procs, World(p) PROVE Reason
    <3>1. CASE Respond(p)
      BY <2>b, <3>1 DEF Respond
    <3>2. CASE EndAttempt(p)
      <4>1. ASSUME NEW m, Logs(p, "TOOL_ATTEMPT_ENDED", FALSE, 0, <<Call(p)>>, m) PROVE Reason
        <5> HIDE DEF Reason
        <5> QED
          BY <2>b, <4>1
      <4> HIDE DEF Reason
      <4> QED
        BY <3>2, <4>1 DEF EndAttempt
    <3>3. CASE Cancel(p)
      <4>1. Write("RUN_HALTED", FALSE, 0, <<>>)
        BY <3>3 DEF Cancel
      <4>2. "RUN_HALTED" \in {"RUN_FAILED", "TASK_END"}
        BY <2>1, <4>1
      <4> QED
        BY <4>2
    <3>4. CASE Run(p) \/ Resume(p) \/ LlmFails(p) \/ StoreFails(p) \/ StoreCorrupt(p) \/ ToolActs(p) \/ Timeout(p) \/ Crash(p)
      BY <3>4 DEF Run, Resume, LlmFails, StoreFails, RaiseSystemError, StoreCorrupt, ToolActs, Timeout, Stop, Crash, files
    <3> HIDE DEF Reason
    <3> QED
      BY <2>4, <3>1, <3>2, <3>3, <3>4 DEF World
  <2>5. ASSUME NEW o \in Ops, Lapse(o) PROVE Reason
    BY <2>5 DEF Lapse, files
  <2> QED
    BY <2>3, <2>4, <2>5 DEF Next
<1> QED
  BY <1>1, SafeAlways, OneLoopAlways, PTL DEF Spec, FailsForAReason
=============================================================================
