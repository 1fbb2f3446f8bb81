------------------------------ MODULE Continuity ------------------------------
(***************************************************************************)
(* The documents by which the bridge hands work to an executor or a Brain, *)
(* and the pure validators that accept or refuse them                      *)
(* (aios_bridge/continuity/*.py, executor_context.py,                      *)
(* executor_automation.py).                                                *)
(*                                                                         *)
(* A document is a record.  Its canonical JSON is the record, its SHA-256  *)
(* fingerprint is the record too (hash collisions are left out), and       *)
(* from_dict, which refuses unknown and missing fields, is the test that   *)
(* the record has exactly the fields of its kind.  A path of the control   *)
(* tree is a pair <<role, task>>; a blob or commit SHA is a small number;  *)
(* lengths, character classes and byte limits are left out.                *)
(***************************************************************************)
EXTENDS Integers, Sequences, FiniteSets, SequencesExt, Functions

CONSTANT None     \* Python's None

Path(role, task) == <<role, task>>
Ref(path, ref, blob) == [path |-> path, ref |-> ref, blob |-> blob]
Fingerprint(doc) == doc
PathsOf(refs) == [i \in DOMAIN refs |-> refs[i].path]
HasUniquePaths(refs) == IsInjective(PathsOf(refs))
Optional(ref) == IF ref = None THEN <<>> ELSE <<ref>>

-----------------------------------------------------------------------------
(* ContinuityState: where the task stands and which artifacts are          *)
(* authoritative.                                                          *)

NextOperationOf ==
    [TASK_DEFINED |-> "PLAN", READY_FOR_RUN |-> "RUN_APPROVAL",
     RUNNING |-> "WAIT_FOR_RESULT", READY_FOR_REVIEW |-> "REVIEW",
     CHANGES_REQUIRED |-> "FIX_APPROVAL", FIXING |-> "WAIT_FOR_RESULT",
     APPROVED |-> "MERGE_APPROVAL", MERGED |-> "NONE"]
HasBranchSha == DOMAIN NextOperationOf \ {"TASK_DEFINED", "READY_FOR_RUN"}
HasResult == HasBranchSha \ {"RUNNING"}
HasReview == HasResult \ {"READY_FOR_REVIEW"}

\* Every authoritative artifact, in the order check_freshness reads them.
Artifacts(s) ==
    <<s.artifacts.task>> \o s.artifacts.contracts \o Optional(s.artifacts.plan)
        \o Optional(s.artifacts.result) \o Optional(s.artifacts.review)

ContinuityArtifactsOK(s) == HasUniquePaths(Artifacts(s))

StateFields == {"task", "phase", "next", "main", "branch", "artifacts", "executor"}

ContinuityStateOK(s) ==
    /\ DOMAIN s = StateFields
    /\ s.next = NextOperationOf[s.phase]
    /\ s.main.sha # None
    /\ s.phase \in HasBranchSha => s.branch.sha # None
    /\ ContinuityArtifactsOK(s)
    /\ s.artifacts.task.path = Path("TASK", s.task)
    /\ s.artifacts.result # None =>
          s.artifacts.result.path = Path("RESULT", s.task)
    /\ s.artifacts.review # None =>
          s.artifacts.review.path = Path("REVIEW", s.task)
    /\ s.artifacts.plan # None => s.artifacts.plan.path[2] \in {None, s.task}
    /\ s.phase \in HasResult => s.artifacts.result # None
    /\ s.phase \in HasReview => s.artifacts.review # None

\* obs: [main, branch, blobs], where blobs maps observed paths to blobs.
\* A mismatch outweighs a missing observation.
CheckFreshness(s, obs) ==
    LET refs == ToSet(Artifacts(s))
        seen == {r \in refs : r.path \in DOMAIN obs.blobs}
        stale == \/ obs.main \notin {None, s.main.sha}
                 \/ s.branch.sha # None /\ obs.branch \notin {None, s.branch.sha}
                 \/ \E r \in seen : obs.blobs[r.path] # r.blob
        incomplete == \/ obs.main = None
                      \/ s.branch.sha # None /\ obs.branch = None
                      \/ seen # refs
    IN  CASE stale -> "STALE"
          [] ~stale /\ incomplete -> "INCOMPLETE"
          [] OTHER -> "FRESH"

-----------------------------------------------------------------------------
(* Executor contracts: request, prepared execution, result.                *)

CapabilitiesFields == {"executor", "declarative", "operations", "capabilities"}

ExecutorCapabilitiesOK(c) ==
    /\ DOMAIN c = CapabilitiesFields
    /\ c.declarative
    /\ c.operations # {}
    /\ c.operations \subseteq {"RUN", "FIX"}

RequestFields ==
    {"task", "id", "executor", "operation", "state", "branch", "head", "work",
     "context", "required", "resultPath"}

ExecutionRequestOK(r) ==
    /\ DOMAIN r = RequestFields
    /\ r.work.path = Path(IF r.operation = "RUN" THEN "TASK" ELSE "REVIEW", r.task)
    /\ r.resultPath = Path("RESULT", r.task)
    /\ HasUniquePaths(<<r.work>> \o r.context)

PreparedFields == {"task", "id", "executor", "execution", "request"}

PreparedMatchesRequest(p, r) ==
    /\ DOMAIN p = PreparedFields
    /\ p.task = r.task /\ p.id = r.id /\ p.executor = r.executor
    /\ p.request = Fingerprint(r)

RequestMatchesState(r, s) ==
    /\ r.task = s.task
    /\ r.state = Fingerprint(s)
    /\ r.branch = s.branch.branch
    /\ r.head = s.branch.sha
    /\ r.work = IF r.operation = "RUN" THEN s.artifacts.task
                                       ELSE s.artifacts.review
    /\ \A c \in ToSet(r.context), a \in ToSet(Artifacts(s)) :
          c.path = a.path => c = a

ExecutorEligible(r, c) ==
    /\ ExecutorCapabilitiesOK(c)
    /\ c.executor = r.executor
    /\ r.operation \in c.operations
    /\ r.required \subseteq c.capabilities

ResultFields ==
    {"task", "id", "executor", "operation", "status", "sha", "ref", "error"}

ExecutionResultOK(x) ==
    /\ DOMAIN x = ResultFields
    /\ IF x.status = "SUCCESS"
       THEN /\ x.sha # None /\ x.ref # None /\ x.error = None
            /\ x.ref.path = Path("RESULT", x.task)
       ELSE x.sha = None /\ x.ref = None /\ x.error # None

\* Bug: the result's request id is not compared.
ResultMatchesAnyRequest(x, r) ==
    /\ ExecutionResultOK(x)
    /\ x.task = r.task /\ x.executor = r.executor
    /\ x.operation = r.operation
    /\ x.status = "SUCCESS" =>
          x.ref.path = r.resultPath /\ x.ref.ref = r.branch

ResultMatchesRequest(x, r) ==
    /\ ExecutionResultOK(x)
    /\ x.task = r.task /\ x.id = r.id /\ x.executor = r.executor
    /\ x.operation = r.operation
    /\ x.status = "SUCCESS" =>
          x.ref.path = r.resultPath /\ x.ref.ref = r.branch

-----------------------------------------------------------------------------
(* Lease and authorization.                                                *)

LeaseFields == {"lease", "task", "workspace", "executor", "operation", "execution"}

LeaseBinds(l, task, workspace, executor, operation, execution) ==
    /\ DOMAIN l = LeaseFields
    /\ l.task = task /\ l.workspace = workspace /\ l.executor = executor
    /\ l.operation = operation /\ l.execution = execution

BindingFields ==
    {"task", "operation", "executor", "branch", "path", "blob", "lease",
     "leaseDoc", "workspace", "execution", "status"}

\* What the authorization must say for this lease and this work artifact.
BindingFor(l, branch, work) ==
    [task |-> l.task, operation |-> l.operation, executor |-> l.executor,
     branch |-> branch, path |-> work.path, blob |-> work.blob,
     lease |-> l.lease, leaseDoc |-> Fingerprint(l), workspace |-> l.workspace,
     execution |-> l.execution, status |-> "ACTIVE"]

BindingMatches(b, r, p, l) ==
    /\ DOMAIN b = BindingFields
    /\ PreparedMatchesRequest(p, r)
    /\ b.task = r.task /\ b.operation = r.operation /\ b.executor = r.executor
    /\ b.branch = r.branch /\ b.path = r.work.path /\ b.blob = r.work.blob
    /\ b.task = l.task /\ b.operation = l.operation /\ b.executor = l.executor
    /\ b.lease = l.lease /\ b.leaseDoc = Fingerprint(l)
    /\ b.workspace = l.workspace /\ b.execution = l.execution
    /\ LeaseBinds(l, r.task, b.workspace, r.executor, r.operation, b.execution)

-----------------------------------------------------------------------------
(* Context pack and invocation.  A payload maps each path to the blob of   *)
(* the bytes that were read for it.                                        *)

\* Git blob SHA-1 of the bytes must be the one the reference names.
ArtifactContentOK(ref, payloads) == payloads[ref.path] = ref.blob

ArtifactSetOK(r, payloads) ==
    LET refs == <<r.work>> \o r.context
    IN  /\ HasUniquePaths(refs)
        /\ DOMAIN payloads = ToSet(PathsOf(refs))
        /\ \A i \in DOMAIN refs : ArtifactContentOK(refs[i], payloads)

\* WORK is artifact 0, the context follows in the request's order.
ManifestArtifacts(r) ==
    [i \in 1 .. Len(r.context) + 1 |->
        [role |-> IF i = 1 THEN "WORK" ELSE "CONTEXT",
         ref |-> IF i = 1 THEN r.work ELSE r.context[i - 1]]]

Manifest(r, p, l, b, transport) ==
    [request |-> Fingerprint(r), prepared |-> Fingerprint(p),
     lease |-> Fingerprint(l), binding |-> Fingerprint(b),
     transport |-> transport, execution |-> p.execution,
     artifacts |-> ManifestArtifacts(r)]

RenderPayload(manifest, payloads) ==
    [manifest |-> manifest,
     contents |-> [i \in DOMAIN manifest.artifacts |->
                      payloads[manifest.artifacts[i].ref.path]]]

Invocation(r, p, l, invocation, transport, payload) ==
    [invocation |-> invocation, task |-> r.task, id |-> r.id,
     executor |-> r.executor, transport |-> transport,
     operation |-> r.operation, workspace |-> l.workspace, branch |-> r.branch,
     execution |-> p.execution, request |-> Fingerprint(r),
     prepared |-> Fingerprint(p), lease |-> Fingerprint(l),
     work |-> l.execution, payload |-> payload]

InvocationFields ==
    {"invocation", "task", "id", "executor", "transport", "operation",
     "workspace", "branch", "execution", "request", "prepared", "lease", "work",
     "payload"}

InvocationMatches(i, r, p, l) ==
    /\ DOMAIN i = InvocationFields
    /\ PreparedMatchesRequest(p, r)
    /\ i.task = r.task /\ i.id = r.id /\ i.executor = r.executor
    /\ i.operation = r.operation /\ i.branch = r.branch
    /\ i.request = Fingerprint(r)
    /\ i.execution = p.execution /\ i.prepared = Fingerprint(p)
    /\ LeaseBinds(l, i.task, i.workspace, i.executor, i.operation, i.work)
    /\ i.lease = Fingerprint(l)

PayloadMatches(i, payload) == i.payload = payload

TransportMatches(transport, executor, i) ==
    i.transport = transport /\ i.executor = executor

ReceiptFields ==
    {"invocation", "task", "id", "executor", "transport", "operation",
     "execution", "invoked", "status", "exit", "error"}

InvocationReceiptOK(x) ==
    /\ DOMAIN x = ReceiptFields
    /\ CASE x.status = "EXITED_ZERO" -> x.exit = 0 /\ x.error = None
         [] x.status = "EXITED_NONZERO" -> x.exit \notin {None, 0} /\ x.error # None
         [] OTHER -> x.exit = None /\ x.error # None

ReceiptMatches(x, i) ==
    /\ InvocationReceiptOK(x)
    /\ x.invocation = i.invocation /\ x.task = i.task /\ x.id = i.id
    /\ x.executor = i.executor /\ x.transport = i.transport
    /\ x.operation = i.operation /\ x.execution = i.execution
    /\ x.invoked = Fingerprint(i)

-----------------------------------------------------------------------------
(* The launch plan: state, request, prepared execution and pack built from *)
(* one set of inputs, each validated against the one before.               *)

\* Ids carry the first sixteen digits of the lease's fingerprint.
AutomationId(kind, l) == <<kind, l.task, Fingerprint(l)>>

PlanState(x) ==
    LET isTask(ref) == ref.path = Path("TASK", x.task)
        fix == x.operation = "FIX"
    IN  [task |-> x.task, phase |-> IF fix THEN "FIXING" ELSE "RUNNING",
         next |-> "WAIT_FOR_RESULT", main |-> x.main,
         branch |-> [branch |-> x.branch, sha |-> x.head],
         artifacts |->
            [task |-> IF fix THEN SelectSeq(x.context, isTask)[1] ELSE x.work,
             contracts |-> IF fix THEN SelectSeq(x.context, LAMBDA c : ~isTask(c))
                                  ELSE x.context,
             plan |-> None, result |-> x.prior,
             review |-> IF fix THEN x.work ELSE None],
         executor |-> x.executor]

\* The launch plan observes nothing of its own: it repeats the state's values.
ObservedAs(s) ==
    [main |-> s.main.sha, branch |-> s.branch.sha,
     blobs |-> [p \in ToSet(PathsOf(Artifacts(s))) |->
                   (CHOOSE a \in ToSet(Artifacts(s)) : a.path = p).blob]]

PlanRequest(x) ==
    [task |-> x.task, id |-> AutomationId("req", x.lease),
     executor |-> x.executor, operation |-> x.operation,
     state |-> Fingerprint(PlanState(x)), branch |-> x.branch, head |-> x.head,
     work |-> x.work, context |-> x.context, required |-> x.required,
     resultPath |-> Path("RESULT", x.task)]

PlanPrepared(x) ==
    [task |-> x.task, id |-> AutomationId("req", x.lease),
     executor |-> x.executor, execution |-> AutomationId("exec", x.lease),
     request |-> Fingerprint(PlanRequest(x))]

PlanRolesOK(x) ==
    IF x.operation = "RUN"
    THEN x.work.path = Path("TASK", x.task) /\ x.prior = None
    ELSE /\ x.work.path = Path("REVIEW", x.task)
         /\ Cardinality({i \in DOMAIN x.context :
                           x.context[i].path = Path("TASK", x.task)}) = 1
         /\ x.prior # None /\ x.prior.path = Path("RESULT", x.task)

PlanAccepted(x) ==
    /\ PlanRolesOK(x)
    /\ LeaseBinds(x.lease, x.task, x.binding.workspace, x.executor, x.operation,
                  x.binding.execution)
    /\ x.binding = BindingFor(x.lease, x.branch, x.work)
    /\ ContinuityStateOK(PlanState(x))
    /\ CheckFreshness(PlanState(x), ObservedAs(PlanState(x))) = "FRESH"
    /\ ExecutionRequestOK(PlanRequest(x))
    /\ RequestMatchesState(PlanRequest(x), PlanState(x))
    /\ ExecutorEligible(PlanRequest(x), x.capabilities)
    /\ BindingMatches(x.binding, PlanRequest(x), PlanPrepared(x), x.lease)
    /\ ArtifactSetOK(PlanRequest(x), x.payloads)

PlanPayload(x) ==
    RenderPayload(Manifest(PlanRequest(x), PlanPrepared(x), x.lease, x.binding,
                           x.transport), x.payloads)

PlanInvocation(x) ==
    Invocation(PlanRequest(x), PlanPrepared(x), x.lease,
               AutomationId("invoke", x.lease), x.transport, PlanPayload(x))

Receipt(i, status, exit, error) ==
    [invocation |-> i.invocation, task |-> i.task, id |-> i.id,
     executor |-> i.executor, transport |-> i.transport,
     operation |-> i.operation, execution |-> i.execution,
     invoked |-> Fingerprint(i), status |-> status, exit |-> exit,
     error |-> error]

PublishedResult(r, sha, ref) ==
    [task |-> r.task, id |-> r.id, executor |-> r.executor,
     operation |-> r.operation, status |-> "SUCCESS", sha |-> sha, ref |-> ref,
     error |-> None]

-----------------------------------------------------------------------------
(* Executor failover at a stable boundary: another executor takes up the   *)
(* FIX of what the first one published.                                    *)

FailoverProofFields ==
    {"task", "branch", "source", "replacement", "published", "result", "review"}

FailoverProofOK(f) ==
    /\ DOMAIN f = FailoverProofFields
    /\ f.source.executor # f.replacement.executor
    /\ f.source.operation \in {"RUN", "FIX"}
    /\ f.replacement.operation = "FIX"
    /\ f.result.path = Path("RESULT", f.task)
    /\ f.review.path = Path("REVIEW", f.task)
    /\ f.result.ref = f.published

\* Bug: the workspaces of the two leases are not compared.
FailoverLeasesAnywhere(f, source, replacement) ==
    LET bound(l, side) ==
            /\ l.task = f.task /\ l.executor = side.executor
            /\ l.operation = side.operation /\ l.execution = side.execution
            /\ Fingerprint(l) = side.lease
    IN  /\ bound(source, f.source) /\ bound(replacement, f.replacement)
        /\ replacement.operation = "FIX"
        /\ f.source.executor # f.replacement.executor

FailoverLeasesMatch(f, source, replacement) ==
    LET bound(l, side) ==
            /\ l.task = f.task /\ l.executor = side.executor
            /\ l.operation = side.operation /\ l.execution = side.execution
            /\ Fingerprint(l) = side.lease
    IN  /\ bound(source, f.source) /\ bound(replacement, f.replacement)
        /\ replacement.operation = "FIX"
        /\ source.workspace = replacement.workspace
        /\ f.source.executor # f.replacement.executor

-----------------------------------------------------------------------------
(* Brain contracts and Brain failover.                                     *)

OutputTypesOf ==
    [TASK |-> {"TASK"}, TASK_AND_PLAN |-> {"TASK", "PLAN"}, PLAN |-> {"PLAN"},
     REVIEW |-> {"REVIEW"}, DIAGNOSIS |-> {"DIAGNOSIS", "BOUNDED_TEXT"},
     PATCH_PROPOSAL |-> {"PATCH", "BOUNDED_TEXT"}]

\* Directories an output of each type may be written to.
RolesOf(type) ==
    CASE type \in {"TASK", "REVIEW"} -> {type}
      [] type = "PLAN" -> {"CONTEXT", "PLAN", "DECISION"}
      [] type \in {"DIAGNOSIS", "PATCH"} -> {"CONTEXT", type}
      [] type = "BOUNDED_TEXT" -> {}

ArtifactRoleOK(path, type, task) == path[1] \in RolesOf(type) /\ path[2] = task

EvidenceRoleOK(path, operation, task) ==
    /\ operation \in {"DIAGNOSIS", "PATCH_PROPOSAL"}
    /\ path[1] \in {"CONTEXT", IF operation = "DIAGNOSIS" THEN "DIAGNOSIS" ELSE "PATCH"}
    /\ path[2] = task

BrainRequestFields ==
    {"task", "id", "brain", "operation", "objective", "output", "context"}

BrainRequestOK(r) ==
    /\ DOMAIN r = BrainRequestFields
    /\ r.output.type \in OutputTypesOf[r.operation]
    /\ (r.output.type = "BOUNDED_TEXT") <=> (r.output.target = None)
    /\ r.output.target # None =>
          ArtifactRoleOK(r.output.target, r.output.type, r.task)
    /\ HasUniquePaths(r.context)

BrainCapabilityOK(c) == c.operations # {} /\ c.declarative

BrainResultFields ==
    {"task", "id", "brain", "operation", "status", "type", "artifact", "evidence",
     "error"}

BrainResultOK(x) ==
    /\ DOMAIN x = BrainResultFields
    /\ x.type \in OutputTypesOf[x.operation]
    /\ x.artifact = None \/ x.evidence = None
    /\ x.status = "SUCCESS" =>
          /\ x.error = None
          /\ (x.type = "BOUNDED_TEXT") = (x.evidence # None)
          /\ (x.type # "BOUNDED_TEXT") = (x.artifact # None)
    /\ x.artifact # None => ArtifactRoleOK(x.artifact.path, x.type, x.task)
    /\ x.evidence # None => /\ x.type = "BOUNDED_TEXT"
                            /\ EvidenceRoleOK(x.evidence.path, x.operation, x.task)

\* Every context reference names its content, and the content the state names.
ContextAnchored(refs, s) ==
    /\ HasUniquePaths(Artifacts(s))
    /\ \A c \in ToSet(refs) :
          /\ c.blob # None
          /\ \A a \in ToSet(Artifacts(s)) : c.path = a.path => c.blob = a.blob

ReplacementBrainRequest(r, brain, id) ==
    [r EXCEPT !.brain = brain, !.id = id]

BrainFailoverEligible(source, replacement, s, expected, capability, result) ==
    /\ s.task = source.task /\ s.task = replacement.task
    /\ expected = Fingerprint(s)
    /\ [source EXCEPT !.brain = "", !.id = ""]
          = [replacement EXCEPT !.brain = "", !.id = ""]
    /\ ContextAnchored(source.context, s)
    /\ source.brain # replacement.brain
    /\ BrainCapabilityOK(capability)
    /\ capability.brain = replacement.brain
    /\ replacement.operation \in capability.operations
    /\ result # None =>
          /\ result.task = source.task /\ result.id = source.id
          /\ result.brain = source.brain /\ result.operation = source.operation
          /\ result.status # "SUCCESS"

\* What the proof of a Brain failover records.
BrainFailoverProof(source, replacement, s, result) ==
    [task |-> source.task, operation |-> source.operation,
     state |-> Fingerprint(s), source |-> Fingerprint(source),
     replacement |-> Fingerprint(replacement),
     status |-> IF result = None THEN None ELSE result.status]
=============================================================================
