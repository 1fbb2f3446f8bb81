----------------------------- MODULE MCAlgorithms -----------------------------
(***************************************************************************)
(* The pure parts of the bridge, each run once on every input of a small   *)
(* set: the document validators (Continuity), the reading of executor      *)
(* output (CodexDiagnostics), the context bundle and the token ranges of   *)
(* an external Brain (BrainContext) and the choice of an executor          *)
(* (Dispatch).  One behaviour is one input and its answer.                 *)
(***************************************************************************)
EXTENDS Continuity, CodexDiagnostics, BrainContext

D == INSTANCE Dispatch

CONSTANT Pending

VARIABLES input, answer

vars == <<input, answer>>

-----------------------------------------------------------------------------
(* Documents of two attempts at one task.  The second differs from the     *)
(* first in one respect; each document is taken from either.               *)

Base ==
    [task |-> 1, operation |-> "RUN", executor |-> "codex", main |-> 1, head |-> 1,
     work |-> 1, ctx |-> 1, lease |-> 1, workspace |-> 1, execution |-> 1,
     transport |-> "local", branch |-> "b1"]

Attempts(base) ==
    {base}
    \cup {[base EXCEPT ![f] = 2] : f \in {"task", "main", "head", "work", "ctx", "lease",
                                          "workspace", "execution"}}
    \cup {[base EXCEPT !.executor = "anti"], [base EXCEPT !.transport = "other"],
          [base EXCEPT !.branch = "b2"]}

BaseOf(operation) == [Base EXCEPT !.operation = operation]

LeaseOf(a) ==
    [lease |-> a.lease, task |-> a.task, workspace |-> a.workspace,
     executor |-> a.executor, operation |-> a.operation, execution |-> a.execution]

PlanInput(a) ==
    LET fix == a.operation = "FIX"
        task == Ref(Path("TASK", a.task), "control", IF fix THEN a.ctx ELSE a.work)
        ctx == Ref(Path("CTX", None), "control", a.ctx)
        work == IF fix THEN Ref(Path("REVIEW", a.task), "control", a.work) ELSE task
        context == IF fix THEN <<task, ctx>> ELSE <<ctx>>
    IN  [task |-> a.task, operation |-> a.operation, executor |-> a.executor,
         main |-> [branch |-> "main", sha |-> a.main], branch |-> a.branch,
         head |-> a.head, work |-> work, context |-> context,
         prior |-> IF fix THEN Ref(Path("RESULT", a.task), a.head, 1) ELSE None,
         required |-> {"EDIT"},
         capabilities |-> [executor |-> a.executor, declarative |-> TRUE,
                           operations |-> {"RUN", "FIX"}, capabilities |-> {"EDIT"}],
         lease |-> LeaseOf(a), binding |-> BindingFor(LeaseOf(a), a.branch, work),
         payloads |-> [p \in {r.path : r \in ToSet(<<work>> \o context)} |->
                         (CHOOSE r \in ToSet(<<work>> \o context) : r.path = p).blob],
         transport |-> a.transport]

DocumentOf(a, kind) ==
    LET x == PlanInput(a)
    IN  CASE kind = "state" -> PlanState(x)
          [] kind = "request" -> PlanRequest(x)
          [] kind = "prepared" -> PlanPrepared(x)
          [] kind = "lease" -> x.lease
          [] kind = "binding" -> x.binding
          [] kind = "payloads" -> x.payloads
          [] kind = "invocation" -> PlanInvocation(x)
          [] kind = "receipt" -> Receipt(PlanInvocation(x), "EXITED_ZERO", 0, None)
          [] kind = "result" ->
                PublishedResult(PlanRequest(x), 7, Ref(Path("RESULT", a.task), a.branch, 7))

Kinds == {"state", "request", "prepared", "lease", "binding", "payloads",
          "invocation", "receipt", "result"}

DocumentInputs ==
    UNION {[tag : {"documents"}, a : {BaseOf(op)}, b : Attempts(BaseOf(op)),
            mixed : SUBSET (Kinds \ {"request"})] : op \in {"RUN", "FIX"}}

Taken(in) == [k \in Kinds |-> DocumentOf(IF k \in in.mixed THEN in.b ELSE in.a, k)]

Accepted(d, transport, executor) ==
    /\ ContinuityStateOK(d.state) /\ ExecutionRequestOK(d.request)
    /\ RequestMatchesState(d.request, d.state)
    /\ PreparedMatchesRequest(d.prepared, d.request)
    /\ BindingMatches(d.binding, d.request, d.prepared, d.lease)
    /\ ArtifactSetOK(d.request, d.payloads)
    /\ InvocationMatches(d.invocation, d.request, d.prepared, d.lease)
    /\ PayloadMatches(d.invocation,
                      RenderPayload(Manifest(d.request, d.prepared, d.lease, d.binding,
                                             transport), d.payloads))
    /\ TransportMatches(transport, executor, d.invocation)
    /\ ReceiptMatches(d.receipt, d.invocation)
    /\ ResultMatchesRequest(d.result, d.request)

CheckDocuments ==
    /\ answer = Pending /\ input.tag = "documents"
    /\ answer' = Accepted(Taken(input), input.a.transport, input.a.executor)
    /\ UNCHANGED input

\* A launch plan, some of whose inputs were read for another attempt.
PlanParts == {"task", "executor", "branch", "head", "work", "context", "prior", "lease",
              "binding", "payloads"}

PlanInputs ==
    UNION {[tag : {"plan"}, a : {BaseOf(op)}, b : Attempts(BaseOf(op)),
            mixed : SUBSET PlanParts] : op \in {"RUN", "FIX"}}

PlanTaken(in) ==
    LET x == PlanInput(in.a) IN
    [f \in DOMAIN x |-> IF f \in in.mixed THEN PlanInput(in.b)[f] ELSE x[f]]

BuildPlan ==
    /\ answer = Pending /\ input.tag = "plan"
    /\ answer' = PlanAccepted(PlanTaken(input))
    /\ UNCHANGED input

\* What the launch of plan x hands to the validators of the later steps.
Launched(x) ==
    [state |-> PlanState(x), request |-> PlanRequest(x), prepared |-> PlanPrepared(x),
     lease |-> x.lease, binding |-> x.binding, payloads |-> x.payloads,
     invocation |-> PlanInvocation(x),
     receipt |-> Receipt(PlanInvocation(x), "EXITED_NONZERO", 1, "ERR"),
     result |-> PublishedResult(PlanRequest(x), 7, Ref(Path("RESULT", x.task), x.branch, 7))]

-----------------------------------------------------------------------------
(* A failover proof and the two leases it is shown with.                   *)

Leases == [lease : {1, 2}, task : {1}, workspace : {1, 2}, executor : {"codex", "anti"},
           operation : {"RUN", "FIX"}, execution : {1, 2}]

Side(l) == [executor |-> l.executor, operation |-> l.operation, execution |-> l.execution,
            lease |-> Fingerprint(l)]

ProofOf(source, replacement) ==
    [task |-> source.task, branch |-> "b1", source |-> Side(source),
     replacement |-> Side(replacement),
     published |-> 1, result |-> Ref(Path("RESULT", source.task), 1, 1),
     review |-> Ref(Path("REVIEW", source.task), 2, 1)]

FailoverInputs ==
    {[tag |-> "failover", from |-> l, to |-> r, shown |-> s] :
        l \in {x \in Leases : x.lease = 1 /\ x.execution = 1},
        r \in {x \in Leases : x.lease = 2}, s \in Leases}

CheckFailover ==
    /\ answer = Pending /\ input.tag = "failover"
    /\ LET proof == ProofOf(input.from, input.to)
       IN  answer' = (FailoverProofOK(proof) /\ FailoverLeasesMatch(proof, input.from, input.shown))
    /\ UNCHANGED input

-----------------------------------------------------------------------------
(* A Brain request, and the one that replaces it.                          *)

BrainRequests ==
    {r \in [task : {1}, id : {1, 2}, brain : {"m1", "m2"}, operation : {"PLAN", "DIAGNOSIS"},
            objective : {1, 2}, output : {[type |-> "PLAN", target |-> Path("PLAN", 1)],
                                          [type |-> "BOUNDED_TEXT", target |-> None]},
            context : {<<[path |-> Path("TASK", 1), blob |-> 1]>>,
                       <<[path |-> Path("TASK", 1), blob |-> 2]>>,
                       <<[path |-> Path("CTX", None), blob |-> None]>>}] : BrainRequestOK(r)}

BrainState(blob) ==
    [task |-> 1, phase |-> "TASK_DEFINED", next |-> "PLAN",
     main |-> [branch |-> "main", sha |-> 1], branch |-> [branch |-> "b1", sha |-> None],
     artifacts |-> [task |-> Ref(Path("TASK", 1), "control", blob), contracts |-> <<>>,
                    plan |-> None, result |-> None, review |-> None],
     executor |-> None]

ResultsOf(r) ==
    {None} \cup
    {x \in [task : {1}, id : {1, 2}, brain : {r.brain}, operation : {r.operation},
            status : {"SUCCESS", "FAILED"}, type : {r.output.type},
            artifact : {None, Ref(Path("PLAN", 1), "control", 9)},
            evidence : {None, [path |-> Path("DIAGNOSIS", 1), blob |-> 9]},
            error : {None, "ERR"}] : BrainResultOK(x)}

BrainInputs ==
    UNION {{[tag |-> "brain", from |-> r, to |-> t, expected |-> BrainState(1),
             state |-> BrainState(b), result |-> x] :
               t \in BrainRequests, b \in {1, 2}, x \in ResultsOf(r)}
             : r \in {q \in BrainRequests : q.id = 1 /\ q.brain = "m1" /\ q.objective = 1}}

CheckBrainFailover ==
    /\ answer = Pending /\ input.tag = "brain"
    /\ answer' = IF BrainFailoverEligible(input.from, input.to, input.state,
                       Fingerprint(input.expected),
                       [brain |-> "m2", operations |-> {"PLAN", "DIAGNOSIS"}, declarative |-> TRUE],
                       input.result)
                  THEN BrainFailoverProof(input.from, input.to, input.state, input.result)
                  ELSE None
    /\ UNCHANGED input

-----------------------------------------------------------------------------
(* Executor output.                                                        *)

Lines ==
    [kind : {"message"}, bytes : {1, 2}, outcome : {"IMPLEMENTED", "BLOCKED"}, id : {0}]
    \cup [kind : {"command"}, bytes : {1, 2}, outcome : {"none"}, id : {0, 1}]
    \cup [kind : {"silent", "text", "failure"}, bytes : {2}, outcome : {"none"}, id : {0}]

OutputInputs == [tag : {"output"}, out : BoundedSeq(Lines, 4), err : {<<>>}]

ReadOutput ==
    /\ answer = Pending /\ input.tag = "output"
    /\ answer' = Diagnostic(input.out, input.err)
    /\ UNCHANGED input

-----------------------------------------------------------------------------
(* Context bundles: the tokens and the content of a candidate go together. *)

Candidates ==
    {[kind |-> k, path |-> 1, sha |-> s, priority |-> p, tokens |-> s, safe |-> TRUE,
      intact |-> i] :
        k \in {"TASK", "ERROR", "DIFF"}, s \in {1, 2}, p \in {1, 2}, i \in {TRUE}}

ContextInputs == [tag : {"context"}, cs : BoundedSeq(Candidates, 4), room : {4}]

BuildContext ==
    /\ answer = Pending /\ input.tag = "context"
    /\ answer' = ContextBuild(input.cs, input.room)
    /\ UNCHANGED input

-----------------------------------------------------------------------------
(* Token ranges of outputs whose sizes are known, and of some that are not. *)

UsageInputs == [tag : {"usage"}, sizes : BoundedSeq(0 .. 7, 3), unknown : {0, 1}]

MeasurementsOf(in) ==
    [i \in DOMAIN in.sizes |-> EstimateTokens(in.sizes[i])]
        \o [i \in 1 .. in.unknown |-> [source |-> "UNKNOWN", min |-> -1, max |-> -1]]

AggregateUsage ==
    /\ answer = Pending /\ input.tag = "usage"
    /\ answer' = AggregateByClass(MeasurementsOf(input), <<>>)
    /\ UNCHANGED input

-----------------------------------------------------------------------------
(* The choice among three executors, one of them paid.                     *)

Specs ==
    {[id |-> 1, ops |-> {"RUN", "FIX"}, caps |-> {"EDIT"}, class |-> "SUBSCRIPTION", rank |-> 2],
     [id |-> 2, ops |-> {"RUN"}, caps |-> {"EDIT"}, class |-> "SUBSCRIPTION", rank |-> 2],
     [id |-> 3, ops |-> {"RUN", "FIX"}, caps |-> {"EDIT"}, class |-> "PAID_API", rank |-> 1]}

Records == {D!NoRecord} \cup D!CapacityRecords({1}, {1})

ChoiceInputs ==
    [tag : {"choice"}, op : {"RUN", "FIX"}, records : [1 .. 3 -> Records], now : {1, 2, 3}]

RequestOf(in, paid) ==
    D!RequestFromRuntime(D!ExecutorDispatchPolicy(in.op, Specs, {"EDIT"}, paid),
                         in.records, in.now)

Choice(in, paid) == D!DispatchExecutor(RequestOf(in, paid))

Choose ==
    /\ answer = Pending /\ input.tag = "choice" /\ D!AcceptedRequest(RequestOf(input, FALSE))
    /\ answer' = [free |-> Choice(input, FALSE).selected, any |-> Choice(input, TRUE).selected]
    /\ UNCHANGED input

-----------------------------------------------------------------------------
Init ==
    /\ answer = Pending
    /\ input \in DocumentInputs \cup PlanInputs \cup FailoverInputs \cup BrainInputs \cup OutputInputs
                    \cup ContextInputs \cup UsageInputs \cup ChoiceInputs

Next == \/ CheckDocuments \/ BuildPlan \/ CheckFailover \/ CheckBrainFailover \/ ReadOutput
        \/ BuildContext \/ AggregateUsage \/ Choose

Spec == Init /\ [][Next]_vars

Answered(tag) == answer # Pending /\ input.tag = tag

-----------------------------------------------------------------------------
\* Documents of two attempts are never accepted together: what the validators
\* of executor.py, lease.py, executor_transport.py and executor_context.py let
\* through equals, document by document, what the request's own attempt made.
\* A launch plan (executor_automation.py) is accepted only when the inputs it
\* names fit each other, and then every later validator accepts what it made.
OneAttempt ==
    /\ Answered("documents") =>
          (answer <=> \A k \in Kinds : Taken(input)[k] = DocumentOf(input.a, k))
    /\ Answered("plan") =>
          LET x == PlanTaken(input) IN
          /\ answer => Accepted(Launched(x), x.transport, x.executor)
          /\ input.mixed = {} => answer

\* A failover is accepted only with the very lease its proof names, for
\* another executor in the same workspace; a Brain is replaced only on the
\* same question with the same pinned content as the state names, and never
\* after an answer.
FailoverKeepsTheWork ==
    /\ Answered("failover") /\ answer =>
          /\ input.shown = input.to /\ input.to.operation = "FIX"
          /\ input.to.workspace = input.from.workspace
          /\ input.to.executor # input.from.executor
    /\ Answered("brain") /\ answer # None =>
          /\ answer.source # answer.replacement /\ answer.status # "SUCCESS"
          /\ answer.state = Fingerprint(input.expected)
          /\ input.to = ReplacementBrainRequest(input.from, "m2", input.to.id)
          /\ \A c \in ToSet(input.to.context) : c.blob = 1
          /\ input.result # None => input.result.id = 1 /\ input.result.status # "SUCCESS"

\* The diagnostic of an output that was read completely is exact; of one that
\* was cut, no count is reported, a missing message is not called missing, and
\* no line is taken for other than it is: a code that says non-JSON output was
\* met, or a failure event, is right.
DiagnosticIsSound ==
    Answered("output") =>
        LET out == input.out IN
        /\ ~answer.cut =>
              /\ answer.outcome = FinalOutcome(out)
              /\ answer.observed = "YES" <=> Messages(out) # {}
              /\ answer.commands # -1 => answer.commands = Distinct(out, "command")
        /\ answer.cut => answer.commands = -1 /\ answer.observed # "NO"
        /\ answer.code = "MIXED_OUTPUT" => \E i \in DOMAIN out : ~IsJson(out[i])
        /\ answer.code = "JSON_ERROR_EVENT" => \E i \in DOMAIN out : out[i].kind = "failure"

\* The bundle given to a Brain does not depend on the order of the candidates:
\* exchanging two neighbours changes nothing.  It fits, and what is left out
\* would not have fitted after what ranks before it.  The total reported
\* afterwards brackets the tokens of outputs of those sizes at four bytes a
\* token, and an unknown part makes it unknown for its own class of actors only
\* (the context builder, estimate_tokens and the usage summary).
BrainContextIsSound ==
    /\ Answered("context") =>
          LET cs == input.cs
              swapped(i) == [cs EXCEPT ![i] = cs[i + 1], ![i + 1] = cs[i]]
          IN  /\ \A i \in 1 .. Len(cs) - 1 : ContextBuild(swapped(i), input.room) = answer
              /\ answer.used <= input.room
              /\ answer.error = "" =>
                    \A c \in ToSet(cs) : Identity(c) \notin {Identity(x) : x \in ToSet(answer.items)} =>
                       c.tokens + TokensOf(SelectSeq(answer.items,
                                      LAMBDA x : x.kind = "TASK" \/ x.priority >= c.priority))
                          > input.room
    /\ Answered("usage") =>
          LET bytes == FoldLeft(LAMBDA n, b : n + b, 0, input.sizes)
              total == answer["BRAIN"]
          IN  /\ \A t \in ToSet(MeasurementsOf(input)) : MeasurementOK(t)
              /\ answer["EXECUTOR"] = <<0, 0>>
              /\ total # Overflow =>
                    IF input.unknown = 1 THEN total = <<-1, -1>>
                    ELSE 4 * total[1] <= bytes + 4 * Len(input.sizes) /\ 4 * total[2] >= bytes

\* Allowing paid executors never replaces a free choice: a paid one is chosen
\* only when no subscription could be, and nothing is chosen whose capacity
\* was not observed, recently, as usable.
PaidIsLastResort ==
    Answered("choice") =>
        /\ answer.free # {} => answer.any = answer.free
        /\ 3 \notin answer.free
        /\ \A id \in answer.any :
              /\ input.records[id] # D!NoRecord
              /\ input.records[id].state \in {"AVAILABLE", "LIMITED"}
              /\ input.now <= 2

\* "Observation status of the worker's final explicit agent response message":
\* when a message is reported as observed, its outcome is the final one's.
ObservedMessageIsFinal ==
    Answered("output") /\ answer.observed = "YES" =>
        answer.outcome = FinalOutcome(input.out)
=============================================================================
