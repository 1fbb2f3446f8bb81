----------------------------- MODULE MCGovernance -----------------------------
(***************************************************************************)
(* The decisions of ReviewLane and Roadmap, each taken on every input of a *)
(* small set.  One behaviour is one input and its answer.                  *)
(***************************************************************************)
EXTENDS Roadmap, TLC

CONSTANT Pending

VARIABLES input, answer

vars == <<input, answer>>

Line(key, val) == [run |-> 0, char |-> "none", bare |-> FALSE, key |-> key, val |-> val]
Fence(char) == [run |-> 3, char |-> char, bare |-> TRUE, key |-> "fence", val |-> None]

-----------------------------------------------------------------------------
(* Two revisions of one roadmap; the second adds a requirement to m1.  A   *)
(* revision may carry an example in a fence, repeat a milestone or have a  *)
(* bullet that is no requirement.                                          *)

Requirements(blob, m) == IF blob = 2 /\ m = "m1" THEN {<<m, 1>>, <<m, 2>>} ELSE {<<m, 1>>}

MilestoneLines(blob, m) ==
    <<Line("###", m), Line("CAPABILITY_ID", IF m = "m1" THEN "c1" ELSE "c2"),
      Line("requirement", <<m, 1>>)>>
    \o (IF Cardinality(Requirements(blob, m)) = 2 THEN <<Line("requirement", <<m, 2>>)>> ELSE <<>>)

Extra(variant) ==
    CASE variant = "plain" -> <<>>
      [] variant = "example" -> <<Fence("tick"), Line("###", "m1"), Fence("tick")>>
      [] variant = "repeated" -> MilestoneLines(1, "m1")
      [] variant = "bullet" -> <<Line("bullet", None)>>

Document(blob, status, variant) ==
    [blob |-> blob,
     lines |-> <<Line("ROADMAP_ID", "R"), Line("ROADMAP_VERSION", 1), Line("STATUS", status),
                 Line("AUTHORITY", "CANONICAL"), Line("##", None)>>
               \o MilestoneLines(blob, "m1") \o MilestoneLines(blob, "m2") \o Extra(variant)]

PreflightInputs ==
    [tag : {"preflight"}, op : {"RUN", "FIX"}, registered : {1, 2}, bound : {1, 2},
     status : {"LOCKED", "DRAFT", "SUPERSEDED"}, variant : {"plain", "example", "repeated", "bullet"},
     milestone : {"m1", "m2"}, claims : {{}, {"m1"}, {"m2"}}, fenced : BOOLEAN,
     complete : {None} \cup [blob : {1, 2}, evidence : SUBSET {<<"m1", 1>>, <<"m1", 2>>}],
     shown : {7, 8}]

BindingOf(in) ==
    [id |-> "R", version |-> 1, blob |-> in.bound, fp |-> in.bound, milestone |-> in.milestone,
     capability |-> IF in.milestone = "m1" THEN "c1" ELSE "c2",
     requirements |-> <<<<in.milestone, 1>>>>]

TaskLines(in) ==
    LET marker == Line("ROADMAP_BINDING_JSON", BindingOf(in))
    IN  <<Line("#", in.claims), Line("PUBLISHER_PROFILE", "CANONICAL_E4")>>
        \o (IF in.fenced THEN <<Fence("tick"), marker, Fence("tick")>> ELSE <<marker>>)

ReviewLines(in) ==
    <<Line("PUBLISHER_PROFILE", "DEFAULT"), Line("REVIEWED_TASK_HEAD_SHA", 1),
      Line("TASK_ARTIFACT_BLOB_SHA", in.shown), Line("ROADMAP", IdentityOf(BindingOf(in))),
      Line("MILESTONE", in.milestone), Line("CAPABILITY_ID", BindingOf(in).capability)>>

\* The TASK has blob 7; a FIX is asked for by a review that shows it or another.
CheckPreflight ==
    /\ answer = Pending /\ input.tag = "preflight"
    /\ LET fix == input.op = "FIX"
           task == [lines |-> TaskLines(input), path |-> "TASK", blob |-> 7,
                    refs |-> <<[path |-> "MAP", blob |-> input.bound]>>]
           artifact == [lines |-> IF fix THEN ReviewLines(input) ELSE task.lines,
                        refs |-> IF fix THEN <<[path |-> "TASK", blob |-> input.shown]>> ELSE task.refs,
                        explicit |-> TRUE,
                        policy |-> [operation |-> input.op, executors |-> {"codex"}, able |-> {"codex"}]]
           registry == ParseCanonicalRoadmapRegistry(
                           <<[id |-> "R", version |-> 1, path |-> "MAP", blob |-> input.registered]>>)
           documents == [at \in {<<e.path, e.blob>> : e \in registry} |->
                            Document(input.registered, input.status, input.variant)]
           record == CompletionRecord(
                         ParseCanonicalRoadmap(Document(input.complete.blob, "LOCKED", "plain"),
                                               "MAP", input.complete.blob),
                         "m1", input.complete.evidence)
           completions == IF input.complete = None THEN None
                          ELSE [id |-> "R", version |-> 1, blob |-> input.complete.blob,
                                fp |-> input.complete.blob, records |-> <<record>>]
       IN  answer' = PreflightExecutableArtifact(artifact, input.op, "codex",
                         IF fix THEN task ELSE None, registry, documents, completions)
    /\ UNCHANGED input

-----------------------------------------------------------------------------
(* Dependencies among three milestones, cycles included.                   *)

Milestones == {"m1", "m2", "m3"}

ConeInputs ==
    [tag : {"cone"}, from : Milestones,
     deps : [Milestones -> {<<>>} \cup {<<x>> : x \in Milestones}
                              \cup {<<p[1], p[2]>> : p \in Milestones \X Milestones}]]

Three == [milestones |-> [i \in 1 .. 3 |-> [id |-> <<"m1", "m2", "m3">>[i]]]]

WalkDependencies ==
    /\ answer = Pending /\ input.tag = "cone"
    /\ answer' = [before |-> [m \in Milestones |-> TransitivePrerequisites(m, input.deps)],
                  cone |-> Range(ImpactCone(Three, input.from, input.deps))]
    /\ UNCHANGED input

\* y is a prerequisite of x, directly or through others.
Reaches(deps, x, y) ==
    \E n \in 1 .. 3 : \E p \in [0 .. n -> Milestones] :
        p[0] = x /\ p[n] = y /\ \A i \in 1 .. n : p[i] \in Range(deps[p[i - 1]])

-----------------------------------------------------------------------------
(* A FIX changes a tree of two source files and one test.                  *)

Before == [p |-> 1, q |-> 1, t |-> 1]

Trees == UNION {[d -> {1, 2}] : d \in SUBSET {"p", "q", "t"}}

ChangedPaths(tree) ==
    {x \in DOMAIN Before : x \notin DOMAIN tree} \cup {x \in DOMAIN tree : tree[x] # Before[x]}

Bindings ==
    {[id |-> i, subjects |-> s, dependencies |-> d, tests |-> {"t"},
      proof |-> [status |-> v, subject |-> Restrict(Before, s), dependency |-> x]] :
        i \in {1}, s \in {{"p"}, {"p", "q"}}, d \in {{}, {"q"}}, v \in {"VALID", "STALE"},
        x \in {Restrict(Before, {}), Restrict(Before, {"q"})}}

FixInputs ==
    [tag : {"fix"}, tree : Trees, bindings : {{b} : b \in Bindings} \cup {{}},
     known : BOOLEAN, affected : SUBSET {"p", "q", "t"}, protected : SUBSET {"p", "q"},
     copies : {1, 2}]

\* The review carries its pack once, or by mistake twice.
AnalyzeFix ==
    /\ answer = Pending /\ input.tag = "fix"
    /\ LET line == Line("FIX_CONTEXT_PACK_JSON",
                        [head |-> 1, known |-> input.known, affected |-> input.affected,
                         protected |-> input.protected, required |-> {"required"},
                         fallback |-> {"whole"}, bindings |-> input.bindings])
           pack == ParseFixContextPack(<<Line("FIX_REVIEW_MODE", "PROOF_REUSE_DELTA_IMPACT")>>
                                           \o [i \in 1 .. input.copies |-> line], 1)
       IN  answer' = IF pack = Refused THEN Refused
                     ELSE AnalyzeFixImpact(pack, 1, Before, input.tree, ChangedPaths(input.tree))
    /\ UNCHANGED input

-----------------------------------------------------------------------------
(* The registry of a review with one finding, over three rounds and two    *)
(* heads; path is the way its finding went.                                *)

MaxMoves == 6

LowRisk ==
    [class |-> "LOW_BOUNDED_NON_CRITICAL", paths |-> {}, radius |-> "LOCAL", api |-> FALSE,
     authority |-> FALSE, schema |-> FALSE, tests |-> FALSE, control |-> FALSE, known |-> TRUE]

FindingInputs == [tag : {"finding"}]

OpenRegistry ==
    /\ answer = Pending /\ input.tag = "finding"
    /\ answer' = [path |-> <<>>,
                  reg |-> [findings |-> "f1" :> [status |-> "NEW", introduced |-> 1,
                                                 fixedBy |-> None, closed |-> None],
                           round |-> 1, head |-> 1, effort |-> RouteReviewEffort(LowRisk),
                           risk |-> LowRisk]]
    /\ UNCHANGED input

MoveFinding ==
    /\ answer # Pending /\ input.tag = "finding" /\ Len(answer.path) < MaxMoves
    /\ \E target \in DOMAIN FindingTransitions, head \in 1 .. 2, round \in 1 .. 3, evidence \in BOOLEAN,
          fixedBy \in {None, 1, 2}, closed \in {None, 1, 2, 3} :
          LET next == TransitionRegistryFinding(answer.reg, "f1", target, head, round, evidence,
                                                fixedBy, closed)
          IN  /\ next # Refused
              /\ answer' = [path |-> Append(answer.path, target), reg |-> next]
    /\ UNCHANGED input

-----------------------------------------------------------------------------
(* A complete REVIEW header with up to two more lines at any place, and one*)
(* with an audit of the roadmap, whole or short of a line.                 *)

Header(kind, key, val) == [kind |-> kind, key |-> key, val |-> val, quoted |-> FALSE]
Kv(key, val) == Header("kv", key, val)

Complete ==
    <<Kv("STATUS", "PASS"), Kv("APPROVED", "YES"), Kv("AUTO_MERGE_ELIGIBLE", "YES"),
      Kv("REVIEWED_TASK_HEAD_SHA", "h1"), Kv("REVIEWED_BASE_MAIN_SHA", "b1")>>

MoreLines ==
    {Kv("STATUS", "PASS"), Kv("STATUS", "CHANGES_REQUIRED"), Kv("REVIEWED_HEAD_SHA", "h1"),
     Kv("REVIEWED_HEAD_SHA", "h2"), Kv("BASE_MAIN_SHA", "b2"), Kv("AUTO_MERGE_ALLOWED", "NO"),
     Kv("ROADMAP_AUDIT", "PASS"), Kv("ROADMAP_FINGERPRINT", "f1"), Kv("MILESTONE", "m2"),
     [Kv("TASK_ARTIFACT_BLOB_SHA", "x") EXCEPT !.quoted = TRUE], Kv("TASK_ARTIFACT_BLOB_SHA", "x"),
     Header("blank", "", ""), Header("title", "", ""), Header("prose", "", ""),
     Header("fence", "", "")}

Audited ==
    Complete \o
    <<Kv("ROADMAP_AUDIT", "PASS"), Kv("ROADMAP_ID", "R"), Kv("ROADMAP_VERSION", "1"),
      Kv("ROADMAP_BLOB_SHA", "x"), Kv("ROADMAP_FINGERPRINT", "f1"), Kv("MILESTONE", "m1"),
      Kv("CAPABILITY_ID", "c1"), Kv("REQUIREMENT_BINDINGS_FINGERPRINT", "q1")>>

WithLine(lines) ==
    {InsertAt(lines, i, x) : i \in 1 .. Len(lines) + 1, x \in MoreLines}

HeaderInputs ==
    [tag : {"header"},
     lines : UNION {WithLine(ls) : ls \in WithLine(Complete)} \cup WithLine(Audited)
             \cup UNION {WithLine(RemoveAt(Audited, i)) : i \in 6 .. 13}]

ReadHeader ==
    /\ answer = Pending /\ input.tag = "header"
    /\ answer' = ParseReviewHeader(input.lines)
    /\ UNCHANGED input

-----------------------------------------------------------------------------
(* Failed workers and validation commands.                                 *)

FailureInputs ==
    [tag : {"failure"}, status : {"TIMED_OUT", "EXITED_NONZERO", "EXITED_ZERO", "FAILED_TO_START"},
     after : {1, 2}, dirty : SUBSET {"a", "b"}, allowed : SUBSET {"a", "b"}]

Classify ==
    /\ answer = Pending /\ input.tag = "failure"
    /\ answer' = ClassifyWorkerFailure(input.status, 1, input.after, input.dirty, input.allowed)
    /\ UNCHANGED input

\* Profile markers of a TASK, its commands (TRUE: the whole suite) and what was
\* observed when they ran.
ValidationInputs ==
    [tag : {"validation"},
     profiles : {<<>>, <<"CONTROL_PLANE_STRICT">>, <<"PRODUCT_DELIVERY_FAST">>,
                 <<"CONTROL_PLANE_STRICT", "CONTROL_PLANE_STRICT">>},
     roadmap : {"LEAN", "OTHER"}, commands : BoundedSeq(BOOLEAN, 4),
     t2 : 0 .. 2, adhoc : {None, 0, 1}, succeeded : BOOLEAN]

SplitCommands ==
    /\ answer = Pending /\ input.tag = "validation"
    /\ LET lines == [i \in DOMAIN input.profiles |-> Line("VALIDATION_PROFILE", input.profiles[i])]
                       \o <<Line("ROADMAP_BINDING_JSON", input.roadmap)>>
           plan == ValidationPlanForTask(lines, input.roadmap)
           evidence == [profile |-> plan.profile, t2 |-> input.t2, expected |-> plan.t2,
                        adhoc |-> input.adhoc]
           test == ReviewFirstCandidateTest(
                       IF input.commands = <<>> THEN None ELSE input.commands[1], plan)
           result == [schema |-> "2", mode |-> "REVIEW_FIRST_CERTIFICATION", t2 |-> input.t2,
                      deferred |-> test[2], review |-> TRUE, owner |-> OwnerOf["T2"],
                      blocked |-> None, paths |-> <<1, 2>>, role |-> "PRE_PUBLICATION_CONTENT_HEAD",
                      bound |-> "EXTERNAL_GIT_COMMIT"]
       IN  answer' =
             IF plan \in {None, Refused} THEN plan
             ELSE [plan |-> plan, test |-> test[1],
                   executor |-> ExecutorCommandsForPlan(input.commands, plan),
                   certification |-> CertificationCommandsForPlan(input.commands, plan),
                   certified |-> RequireCertificationForPublication(plan, evidence, input.succeeded),
                   candidate |-> RequireReviewFirstCandidatePublication(plan, evidence),
                   result |-> ParseResultEvidence(<<Line("RESULT_EVIDENCE_JSON", result)>>)]
    /\ UNCHANGED input

\* One command of a worker; the review names up to two modes.
FlowInputs ==
    [tag : {"flow"}, action : {"STATUS", "RUN", "FIX"}, adapter : {"codex", "antigravity"},
     modes : BoundedSeq({"IMPLEMENTATION", "EVIDENCE_REFRESH", "OTHER"}, 2), authorized : BOOLEAN,
     fails : 0 .. 2, failure : DOMAIN NextActionOf \cup {None}]

Transact ==
    /\ answer = Pending /\ input.tag = "flow"
    /\ LET mode == ExtractFixExecutionMode(
                       [i \in DOMAIN input.modes |-> Line("FIX_EXECUTION_MODE", input.modes[i])])
           refused == input.action = "FIX" /\ mode = Refused
       IN  answer' = ExecuteTransaction(input.action, input.adapter,
                         IF input.authorized THEN mode ELSE None,
                         IF refused THEN 1 ELSE input.fails, input.failure)
    /\ UNCHANGED input

-----------------------------------------------------------------------------
(* Markers, with fences of either character, opened and closed or not.     *)

Mode == Line("REVIEW_PIPELINE_MODE", "REVIEW_FIRST_CERTIFICATION")

MarkerLines ==
    {Mode} \cup {[Fence(c) EXCEPT !.run = n, !.bare = b] :
                    c \in {"tick", "tilde"}, n \in {3, 4}, b \in BOOLEAN}

MarkerInputs == [tag : {"markers"}, lines : BoundedSeq(MarkerLines, 4)]

ReadMode ==
    /\ answer = Pending /\ input.tag = "markers"
    /\ answer' = ParseTaskPipelineMode(input.lines, FALSE)
    /\ UNCHANGED input

-----------------------------------------------------------------------------
Init ==
    /\ answer = Pending
    /\ input \in PreflightInputs \cup ConeInputs \cup FixInputs \cup HeaderInputs
                    \cup FailureInputs \cup ValidationInputs \cup MarkerInputs
                    \cup FindingInputs \cup FlowInputs

Next == \/ CheckPreflight \/ WalkDependencies \/ AnalyzeFix \/ ReadHeader
        \/ Classify \/ SplitCommands \/ ReadMode \/ OpenRegistry \/ MoveFinding \/ Transact

Spec == Init /\ [][Next]_vars

Answered(tag) == answer # Pending /\ input.tag = tag

-----------------------------------------------------------------------------
\* A governed artifact is let through only on the locked roadmap that the
\* registry names now, under the milestone it claims, and for a later
\* milestone only when the earlier one is complete in this revision of the
\* roadmap; a FIX only from a review of this very TASK.  With declared
\* dependencies, the prerequisites of a milestone are exactly what it depends
\* on, a milestone that depends on itself has none, and the milestones that a
\* change touches are exactly those that have it among their prerequisites.
MilestonesOpenInOrder ==
    /\ Answered("preflight") /\ answer /\ (input.claims # {} \/ ~input.fenced) =>
          /\ ~input.fenced /\ input.bound = input.registered /\ input.status = "LOCKED"
          /\ input.variant \in {"plain", "example"}
          /\ input.claims \subseteq {input.milestone}
          /\ input.milestone = "m2" =>
                /\ input.complete # None /\ input.complete.blob = input.registered
                /\ input.complete.evidence = Requirements(input.registered, "m1")
          /\ input.op = "FIX" => input.shown = 7
    /\ Answered("cone") =>
          \A m \in Milestones :
              /\ answer.before[m] = Refused <=> Reaches(input.deps, m, m)
              /\ answer.before[m] # Refused =>
                    /\ answer.before[m] = {x \in Milestones : Reaches(input.deps, m, x)}
                    /\ m \in answer.cone <=> m = input.from \/ input.from \in answer.before[m]

\* After a FIX a proof is carried forward only when every file that it rests
\* on, and its test, is what it was; every other proof is tested again or the
\* whole suite is run; a change outside every proof's files is foreseen by the
\* pack, and unprotected, or the whole suite is run (analyze_fix_impact).  A
\* finding is closed only by a fix that was submitted and verified since the
\* finding was last open, in a round that the registry has reached
\* (transition_registry_finding).
FixIsVerified ==
    /\ Answered("fix") /\ answer # Refused =>
          LET changed == ChangedPaths(input.tree)
              rests(b) == b.subjects \cup b.dependencies
          IN  /\ \A b \in input.bindings :
                    IF b \in answer.carried
                    THEN b.proof.status = "VALID" /\ (rests(b) \cup b.tests) \cap changed = {}
                    ELSE b.tests \subseteq answer.selected \/ "whole" \in answer.selected
              /\ \A x \in changed : "whole" \notin answer.selected =>
                    /\ x \in input.affected
                    /\ x \in input.protected => \E b \in input.bindings : x \in rests(b)
    /\ Answered("finding") =>
          LET f == answer.reg.findings["f1"]
          IN  f.status = "CLOSED" =>
                  /\ IsSuffix(<<"FIX_SUBMITTED", "VERIFYING", "CLOSED">>, answer.path)
                  /\ f.fixedBy # None /\ f.closed \in f.introduced .. answer.reg.round

\* A header that is accepted says one thing: the order of its lines, and
\* whatever text follows it, change nothing.
HeaderIsUnambiguous ==
    Answered("header") /\ answer # Refused =>
        LET ls == input.lines
            swapped(i) == [ls EXCEPT ![i] = ls[i + 1], ![i + 1] = ls[i]]
        IN  /\ \A i \in 1 .. Len(ls) - 1 :
                  ls[i].kind = "kv" /\ ls[i + 1].kind = "kv" => ParseReviewHeader(swapped(i)) = answer
            /\ \A x \in MoreLines :
                  ParseReviewHeader(ls \o <<Header("blank", "", ""), x>>) = answer

\* Nothing is left without an owner.  The classification of a failed worker is
\* one that its record accepts, and it is reported as BLOCKED, after which
\* another executor may start, only when the worker left nothing behind
\* (classify_worker_failure).  Of a plan's commands each is the executor's or
\* the certification's and the whole suite is never the executor's; a
\* publication has seen it pass once or has put it off to the certification,
\* never both (validation.py, parse_result_evidence).  A worker's transaction
\* stops at the first failure, invokes the executor once at most and not at all
\* to refresh evidence, and says PUBLISHED only when nothing failed
\* (execute_transaction).
NothingUnowned ==
    /\ Answered("failure") /\ answer # Refused =>
          /\ WorkerFailureEvidenceOK(answer)
          /\ FlowStatus(answer.class) = "BLOCKED" <=> input.after = 1 /\ input.dirty = {}
    /\ Answered("validation") /\ answer \notin {None, Refused} =>
          /\ ValidationPlanOK(answer.plan) /\ ProfilePolicy(answer.plan.profile).executable
          /\ \A i \in DOMAIN answer.executor : ~answer.executor[i]
          /\ answer.certification # Refused =>
                answer.certification = <<TRUE>> /\ Len(answer.executor) + 1 = Len(input.commands)
          /\ answer.test # TRUE
          /\ answer.certified => input.t2 = 1 /\ input.succeeded /\ answer.result = Refused
          /\ answer.candidate => input.t2 = 0
          /\ answer.certified \/ answer.candidate => input.adhoc # 1
    /\ Answered("flow") =>
          /\ answer.status = "PUBLISHED" =>
                /\ input.action # "STATUS" /\ input.fails \notin DOMAIN answer.ran
                /\ Last(answer.ran) \in {"execute", "publish"}
          /\ answer.invocations = Cardinality({i \in DOMAIN answer.ran : answer.ran[i] = "execute"})
          /\ answer.invocations = 1 =>
                /\ answer.ran[1] = "handoff" /\ input.fails # 1
                /\ input.action = "FIX" => input.modes \in {<<>>, <<"IMPLEMENTATION">>}

\* "Parse one exact top-level opt-in marker while ignoring fenced examples": a
\* text whose marker lies only inside a fence is a legacy TASK.
FencedMarkerIgnored ==
    Answered("markers") /\ TopLevelValues(input.lines, "REVIEW_PIPELINE_MODE") = <<>> =>
        answer \in {Refused, "LEGACY_CERTIFY_ON_PUBLISH"}
=============================================================================
