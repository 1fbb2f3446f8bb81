------------------------------ MODULE Dispatch ------------------------------
(***************************************************************************)
(* Which Brain or executor is asked to do the work: the choice of           *)
(* src/aios_bridge/continuity/dispatch.py from the capacity observations of *)
(* src/aios_bridge/runtime_dispatch.py.  Pure operators; PaidBrain uses     *)
(* them, MCAlgorithms relates their answers to each other.                  *)
(*                                                                          *)
(* Abstracted: an actor id is a number (the code compares ids as strings),  *)
(* fingerprints and serialized sizes are left out.                          *)
(***************************************************************************)
EXTENDS Naturals, FiniteSets

CapacityStates  == {"AVAILABLE", "LIMITED", "QUOTA_EXHAUSTED", "UNAVAILABLE", "UNKNOWN"}

ClassRank(class) == IF class = "SUBSCRIPTION" THEN 0 ELSE 1
StateRank(state) == IF state = "AVAILABLE" THEN 0 ELSE 1

NoRecord == [at |-> 0, state |-> "UNKNOWN", ttl |-> 0]

\* RuntimeCapacityRecord: what somebody observed, when, and for how long it
\* counts.  A ttl of zero is refused, so NoRecord is not one.
CapacityRecords(times, ttls) == [at : times, state : CapacityStates, ttl : ttls \ {0}]

\* classify_capacity_freshness raises on an observation from the future.
FromFuture(record, now) == record # NoRecord /\ now < record.at

Fresh(record, now) == record # NoRecord /\ now <= record.at + record.ttl

EffectiveState(record, now) == IF Fresh(record, now) THEN record.state ELSE "UNKNOWN"

\* Candidates of a request.  ops, caps: what the actor can do; room: its
\* max_context_bytes, 0 for none.
BrainCandidate(id, ops, room, state, class, rank) ==
  [id |-> id, ops |-> ops, caps |-> {}, room |-> room, state |-> state, class |-> class, rank |-> rank]

ExecutorCandidate(id, ops, caps, state, class, rank) ==
  [id |-> id, ops |-> ops, caps |-> caps, room |-> 0, state |-> state, class |-> class, rank |-> rank]

\* need: required_context_bytes, 0 for none.
BrainDispatchRequest(op, candidates, need, allowPaid) ==
  [op |-> op, candidates |-> candidates, need |-> need, required |-> {}, allowPaid |-> allowPaid]

ExecutorDispatchRequest(op, candidates, required, allowPaid) ==
  [op |-> op, candidates |-> candidates, need |-> 0, required |-> required, allowPaid |-> allowPaid]

\* The constructors refuse no candidate and two with one id.
AcceptedRequest(req) ==
  /\ req.candidates # {}
  /\ \A c, d \in req.candidates : c.id = d.id => c = d

PaidDenied(req, c) ==
  IF c.class = "PAID_API" /\ ~req.allowPaid THEN {"PAID_API_NOT_ALLOWED"} ELSE {}

Unsupported(req, c) == IF req.op \notin c.ops THEN {"OPERATION_UNSUPPORTED"} ELSE {}

BrainIncompatibilities(req, c) ==
  Unsupported(req, c) \cup PaidDenied(req, c) \cup
  IF req.need # 0 /\ c.room # 0 /\ c.room < req.need THEN {"CONTEXT_TOO_LARGE"} ELSE {}

ExecutorIncompatibilities(req, c) ==
  Unsupported(req, c) \cup PaidDenied(req, c) \cup
  IF req.required \subseteq c.caps THEN {} ELSE {"REQUIRED_CAPABILITY_MISSING"}

\* _capacity_evidence: a limited actor may still run.
HasCapacity(state) == state \in {"AVAILABLE", "LIMITED"}

Evaluation(c, incompatibilities) ==
  [candidate  |-> c,
   compatible |-> incompatibilities = {},
   runnable   |-> incompatibilities = {} /\ HasCapacity(c.state),
   reasons    |-> IF incompatibilities # {} THEN incompatibilities
                  ELSE {IF c.state = "AVAILABLE" THEN "ELIGIBLE" ELSE c.state}]

\* Mutant: the preference of the policy counts before what the actor costs.
KeyRankFirst(c) == <<c.rank, ClassRank(c.class), StateRank(c.state), c.id>>

\* The key of min() in _build_result, compared from the left.
Key(c) == <<ClassRank(c.class), StateRank(c.state), c.rank, c.id>>

LexLess(k, l) == \E i \in DOMAIN k : k[i] < l[i] /\ \A j \in 1..(i - 1) : k[j] = l[j]

BuildResult(evaluations) ==
  LET runnable == {e \in evaluations : e.runnable}
  IN  [status      |-> IF runnable # {} THEN "SELECTED"
                       ELSE IF \E e \in evaluations : e.compatible THEN "WAIT"
                       ELSE "NO_COMPATIBLE_CANDIDATE",
       selected    |-> {e.candidate.id : e \in {e \in runnable :
                          \A f \in runnable \ {e} : LexLess(Key(e.candidate), Key(f.candidate))}},
       evaluations |-> evaluations]

DispatchBrain(req) ==
  BuildResult({Evaluation(c, BrainIncompatibilities(req, c)) : c \in req.candidates})

DispatchExecutor(req) ==
  BuildResult({Evaluation(c, ExecutorIncompatibilities(req, c)) : c \in req.candidates})

\* ExecutorDispatchPolicySpec, as the one policy line of a TASK or REVIEW
\* carries it: the candidates are known by name, their capacity is not.
ExecutorDispatchPolicy(op, specs, required, allowPaid) ==
  [op |-> op, specs |-> specs, required |-> required, allowPaid |-> allowPaid]

\* build_executor_dispatch_request_from_runtime: an actor without a fresh
\* record is a candidate of unknown capacity.
RequestFromRuntime(policy, records, now) ==
  ExecutorDispatchRequest(policy.op,
    {ExecutorCandidate(s.id, s.ops, s.caps, EffectiveState(records[s.id], now), s.class, s.rank)
       : s \in policy.specs},
    policy.required, policy.allowPaid)
=============================================================================
