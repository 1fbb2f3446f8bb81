------------------------------ MODULE ReviewLane ------------------------------
(***************************************************************************)
(* The decisions on a task's way from a published candidate to main that   *)
(* depend on their arguments alone: the markers of a TASK or REVIEW text,  *)
(* the validation plan, findings and proofs of a review, the impact of a   *)
(* FIX, the classification of a failed worker, the certification job and   *)
(* the merge gate (aios_bridge/validation.py, review_pipeline.py,          *)
(* fix_review.py, result_evidence.py, worker_failure.py, worker_flow.py,   *)
(* certification_job.py, review_merge.py).                                 *)
(*                                                                         *)
(* A refusal (a raised error) is the answer Refused; digests are the       *)
(* records they digest; character classes, lengths and the exact-type      *)
(* tests of the constructors are left out.                                 *)
(***************************************************************************)
EXTENDS Integers, Sequences, FiniteSets, SequencesExt, Functions

CONSTANTS None,    \* Python's None
          Refused  \* an exception

-----------------------------------------------------------------------------
(* Markers.  A line is [run, char, bare, key, val]: run >= 3 fence         *)
(* characters char (bare: nothing follows them), or run = 0 and a marker   *)
(* key with its value.                                                     *)

IsFence(l) == l.run >= 3
IsTicks(l) == IsFence(l) /\ l.char = "tick"

\* Three scanners: "strict", "loose", and "ticks", for which tildes are no fence
\* and every line of backticks toggles.
Opens(scanner, l) == IF scanner = "ticks" THEN IsTicks(l) ELSE IsFence(l)

Closes(scanner, open, l) ==
    CASE scanner = "strict" -> l.run >= open.run /\ l.char = open.char /\ l.bare
      [] scanner = "loose" -> IsFence(l) /\ l.char = open.char
      [] scanner = "ticks" -> IsTicks(l)

\* The lines outside every fence.
Unfenced(lines, scanner) ==
    LET step(acc, l) ==
            IF acc.fence = None
            THEN IF Opens(scanner, l) THEN [acc EXCEPT !.fence = l]
                 ELSE [acc EXCEPT !.out = Append(@, l)]
            ELSE IF Closes(scanner, acc.fence, l) THEN [acc EXCEPT !.fence = None] ELSE acc
    IN  FoldLeft(step, [fence |-> None, out |-> <<>>], lines).out

ValuesOf(lines, key) ==
    LET hits == SelectSeq(lines, LAMBDA l : l.run = 0 /\ l.key = key)
    IN  [i \in DOMAIN hits |-> hits[i].val]

\* _top_level_lines and _top_level_marker_values; fix_review reads the same way.
TopLevelValues(lines, key) == ValuesOf(Unfenced(lines, "strict"), key)
TopLevelMarkerValues(lines, key) == TopLevelValues(lines, key)

\* parse_task_pipeline_mode; the marker is missing in a legacy TASK.
ParseTaskPipelineMode(lines, legacyTask) ==
    LET values == ValuesOf(Unfenced(lines, "loose"), "REVIEW_PIPELINE_MODE")
    IN  CASE values = <<>> -> "LEGACY_CERTIFY_ON_PUBLISH"
          [] values = <<"REVIEW_FIRST_CERTIFICATION">> ->
                IF legacyTask THEN "LEGACY_CERTIFY_ON_PUBLISH" ELSE values[1]
          [] OTHER -> Refused

\* _top_level_marker_payloads of roadmap_governance.
RoadmapPayloads(lines) ==
    ValuesOf(Unfenced(lines, "ticks"), "ROADMAP_BINDING_JSON")

ParseFixReviewMode(lines) ==
    LET values == TopLevelValues(lines, "FIX_REVIEW_MODE")
    IN  CASE values = <<>> -> "COMPATIBILITY"
          [] values = <<"PROOF_REUSE_DELTA_IMPACT">> -> values[1]
          [] OTHER -> Refused

\* The pack that the review carries: None without the mode.
ParseFixContextPack(lines, head) ==
    LET mode == ParseFixReviewMode(lines)
        packs == TopLevelValues(lines, "FIX_CONTEXT_PACK_JSON")
    IN  CASE mode = "COMPATIBILITY" /\ packs = <<>> -> None
          [] mode = "PROOF_REUSE_DELTA_IMPACT" /\ Len(packs) = 1 /\ packs[1].head = head -> packs[1]
          [] OTHER -> Refused

\* extract_fix_execution_mode looks at the whole text, fences or not.
ExtractFixExecutionMode(lines) ==
    LET values == ValuesOf(lines, "FIX_EXECUTION_MODE")
    IN  CASE values = <<>> -> "IMPLEMENTATION"
          [] Len(values) = 1 /\ values[1] \in {"IMPLEMENTATION", "EVIDENCE_REFRESH"} -> values[1]
          [] OTHER -> Refused

-----------------------------------------------------------------------------
(* Validation plans: T0 and T1 belong to the executor, T2 to the           *)
(* certification.                                                          *)

OwnerOf == [T0 |-> "EXECUTOR", T1 |-> "EXECUTOR", T2 |-> "CERTIFICATION_BOUNDARY",
            T3 |-> "RELEASE_BOUNDARY"]

StrictPlan(profile) ==
    [profile |-> profile, executor |-> {"T0", "T1"}, certification |-> {"T2"}, t2 |-> 1]

ValidationPlanOK(p) ==
    /\ p.profile # "PRODUCT_DELIVERY_FAST"
    /\ p.executor = {t \in DOMAIN OwnerOf : OwnerOf[t] = "EXECUTOR"}
    /\ p.certification = {t \in DOMAIN OwnerOf : OwnerOf[t] = "CERTIFICATION_BOUNDARY"}
    /\ p.t2 = 1

\* What a profile asks for; the fast one needs a batch and a lane first.
ProfilePolicy(profile) ==
    LET fast == profile = "PRODUCT_DELIVERY_FAST"
    IN  [taskT2 |-> ~fast, capabilityT2 |-> fast, knownImpact |-> fast,
         directMerge |-> ~fast, batch |-> fast, lane |-> fast, executable |-> ~fast]

\* roadmap is the id of the roadmap that the text's binding names.
ValidationProfileForTask(lines, roadmap) ==
    LET values == TopLevelMarkerValues(lines, "VALIDATION_PROFILE")
        bindings == TopLevelMarkerValues(lines, "ROADMAP_BINDING_JSON")
    IN  CASE Len(values) = 1 ->
                IF values[1] \in {"CONTROL_PLANE_STRICT_COMPAT", "CONTROL_PLANE_STRICT",
                                  "PRODUCT_DELIVERY_FAST"}
                THEN values[1] ELSE Refused
          [] Len(values) > 1 \/ Len(bindings) > 1 -> Refused
          [] OTHER -> IF bindings # <<>> /\ roadmap = "LEAN"
                      THEN "CONTROL_PLANE_STRICT_COMPAT" ELSE None

ValidationPlanForTask(lines, roadmap) ==
    LET profile == ValidationProfileForTask(lines, roadmap)
    IN  CASE profile = None -> None
          [] profile \in {Refused, "PRODUCT_DELIVERY_FAST"} -> Refused
          [] OTHER -> StrictPlan(profile)

\* A command is given by whether it is the whole suite.
ClassifyValidationCommand(full) == IF full THEN "T2" ELSE "T1"

TierOwned(commands, plan) ==
    \A i \in DOMAIN commands :
        ClassifyValidationCommand(commands[i]) \in plan.executor \cup plan.certification

ExecutorCommandsForPlan(commands, plan) ==
    IF ~TierOwned(commands, plan) THEN Refused
    ELSE SelectSeq(commands, LAMBDA c : ClassifyValidationCommand(c) \in plan.executor)

CertificationCommandsForPlan(commands, plan) ==
    LET kept == SelectSeq(commands, LAMBDA c : ClassifyValidationCommand(c) \in plan.certification)
    IN  IF TierOwned(commands, plan) /\ Len(kept) = plan.t2 THEN kept ELSE Refused

\* The test a candidate runs before its review, and whether a T2 is put off.
ReviewFirstCandidateTest(command, plan) ==
    CASE command = None -> <<None, FALSE>>
      [] command # None /\ ClassifyValidationCommand(command) \in plan.certification -> <<None, TRUE>>
      [] OTHER -> <<command, FALSE>>

\* evidence: [profile, t2, expected, adhoc], adhoc = None when not observed.
ValidationEvidenceOK(plan, e) ==
    /\ e.profile = plan.profile /\ e.expected = plan.t2
    /\ e.t2 <= e.expected
    /\ e.adhoc \in {None, 0}

RequireCertificationForPublication(plan, e, succeeded) ==
    ValidationEvidenceOK(plan, e) /\ succeeded /\ e.t2 = plan.t2

RequireReviewFirstCandidatePublication(plan, e) == ValidationEvidenceOK(plan, e) /\ e.t2 = 0

\* RESULT evidence of a review-first candidate.
ResultEvidenceOK(r) ==
    /\ r.schema \in {"1", "2"} /\ r.mode = "REVIEW_FIRST_CERTIFICATION"
    /\ r.t2 = 0 /\ r.deferred /\ r.review
    /\ r.owner = "CERTIFICATION_BOUNDARY" /\ r.blocked = None
    /\ r.schema = "2" => r.role = "PRE_PUBLICATION_CONTENT_HEAD" /\ r.bound = "EXTERNAL_GIT_COMMIT"
    /\ \A i, j \in DOMAIN r.paths : i < j => r.paths[i] < r.paths[j]

ResultEvidenceFields(schema) ==
    {"schema", "mode", "t2", "deferred", "review", "owner", "blocked", "paths"}
        \cup (IF schema = "2" THEN {"role", "bound"} ELSE {})

ParseResultEvidence(lines) ==
    LET marks == TopLevelValues(lines, "RESULT_EVIDENCE_JSON")
    IN  IF Len(marks) = 1 /\ DOMAIN marks[1] = ResultEvidenceFields(marks[1].schema)
               /\ ResultEvidenceOK(marks[1])
        THEN marks[1] ELSE Refused

-----------------------------------------------------------------------------
(* Findings and proofs of a review.                                        *)

FindingTransitions ==
    [NEW |-> {"OPEN"}, OPEN |-> {"FIX_SUBMITTED"}, FIX_SUBMITTED |-> {"VERIFYING"},
     VERIFYING |-> {"CLOSED", "OPEN"}, CLOSED |-> {"REOPENED"},
     REOPENED |-> {"OPEN", "FIX_SUBMITTED"}]

FindingRecordOK(f) ==
    /\ f.closed # None => f.closed >= f.introduced
    /\ f.status = "CLOSED" => f.fixedBy # None /\ f.closed # None

\* fixedBy and closed keep their old values when none is given.
TransitionFinding(f, target, evidence, fixedBy, closed) ==
    LET next == [f EXCEPT !.status = target,
                          !.fixedBy = IF fixedBy = None THEN @ ELSE fixedBy,
                          !.closed = IF closed = None THEN @ ELSE closed]
    IN  IF /\ target \in FindingTransitions[f.status]
           /\ evidence <=> f.status = "CLOSED" /\ target = "REOPENED"
           /\ FindingRecordOK(next)
        THEN next ELSE Refused

\* risk: [class, paths, radius, api, authority, schema, tests, control, known].
RouteReviewEffort(risk) ==
    LET critical == \/ risk.authority \/ "AUTHORITY_OR_SECURITY" \in risk.paths
                    \/ risk.class = "CONTROL_PLANE_CRITICAL" \/ risk.control
        deep == \/ ~risk.known \/ risk.class = "HIGH_IMPACT" \/ risk.radius \in {"WIDE", "UNKNOWN"}
                \/ risk.api \/ risk.schema \/ risk.tests
                \/ risk.paths \cap {"PUBLIC_API_OR_CONTRACT", "SCHEMA_OR_STORAGE",
                                    "TEST_INFRASTRUCTURE", "ROADMAP_OR_CONTROL_PLANE"} # {}
    IN  CASE critical -> "CRITICAL_SECOND_REVIEW"
          [] ~critical /\ deep -> "DEEP"
          [] OTHER -> IF risk.class = "LOW_BOUNDED_NON_CRITICAL" THEN "FAST" ELSE "STANDARD"

\* registry: [findings, round, head, effort, risk], findings by their id.
FindingRegistryOK(r) ==
    /\ r.effort = RouteReviewEffort(r.risk)
    /\ \A id \in DOMAIN r.findings :
          /\ r.findings[id].introduced <= r.round
          /\ r.findings[id].closed # None => r.findings[id].closed <= r.round

TransitionRegistryFinding(r, id, target, head, round, evidence, fixedBy, closed) ==
    LET f == TransitionFinding(r.findings[id], target, evidence, fixedBy, closed)
        next == [r EXCEPT !.findings[id] = f, !.round = round, !.head = head]
    IN  IF id \in DOMAIN r.findings /\ round >= r.round /\ f # Refused /\ FindingRegistryOK(next)
        THEN next ELSE Refused

\* A proof is bound to what its subject and its dependencies were.
EvaluateProofCarryForward(proof, subject, dependency) ==
    CASE proof.status # "VALID" -> "CARRY_FORWARD_FORBIDDEN"
      [] proof.status = "VALID" /\ proof.subject = subject /\ proof.dependency = dependency ->
            "CARRY_FORWARD_ALLOWED"
      [] OTHER -> "INVALIDATE"

-----------------------------------------------------------------------------
(* The impact of a FIX.  A tree maps paths to blobs; a path that does not  *)
(* resolve is not in its domain.                                           *)

\* _resolve_fingerprint and canonical_proof_fingerprint.
ResolveFingerprint(tree, paths) ==
    IF paths \subseteq DOMAIN tree THEN Restrict(tree, paths) ELSE None

\* binding: [id, proof, subjects, dependencies, tests].
ProofBindingTrue(b, previous) ==
    /\ ResolveFingerprint(previous, b.subjects) \in {None, b.proof.subject}
    /\ ResolveFingerprint(previous, b.dependencies) \in {None, b.proof.dependency}

\* Mutant: a changed test does not touch the proof.
DecisionByFingerprint(b, previous, current, changed) ==
    EvaluateProofCarryForward(b.proof, ResolveFingerprint(current, b.subjects),
                              ResolveFingerprint(current, b.dependencies))

ProofDecision(b, previous, current, changed) ==
    LET now == <<ResolveFingerprint(current, b.subjects), ResolveFingerprint(current, b.dependencies)>>
        unknown == None \in {now[1], now[2], ResolveFingerprint(previous, b.subjects),
                             ResolveFingerprint(previous, b.dependencies)}
        decision == EvaluateProofCarryForward(b.proof, now[1], now[2])
        touched == changed \cap (b.subjects \cup b.dependencies \cup b.tests) # {}
    IN  CASE unknown -> "UNKNOWN_IMPACT"
          [] ~unknown /\ decision = "CARRY_FORWARD_ALLOWED" /\ touched -> "INVALIDATE"
          [] OTHER -> decision

\* pack: [head, known, affected, protected, required, fallback, bindings].
AnalyzeFixImpact(pack, head, previous, current, changed) ==
    LET decision(b) == ProofDecision(b, previous, current, changed)
        of(kinds) == {b \in pack.bindings : decision(b) \in kinds}
        retested == UNION {b.tests : b \in of({"INVALIDATE", "CARRY_FORWARD_FORBIDDEN"})}
        surface == UNION {b.subjects \cup b.dependencies : b \in pack.bindings}
        unknown == \/ ~pack.known \/ of({"UNKNOWN_IMPACT"}) # {}
                   \/ ~(changed \subseteq pack.affected)
                   \/ (changed \cap pack.protected) \ surface # {}
    IN  IF pack.head # head \/ \E b \in pack.bindings : ~ProofBindingTrue(b, previous)
        THEN Refused
        ELSE [known |-> ~unknown,
              carried |-> of({"CARRY_FORWARD_ALLOWED"}),
              invalidated |-> of({"INVALIDATE"}),
              forbidden |-> of({"UNKNOWN_IMPACT", "CARRY_FORWARD_FORBIDDEN"}),
              selected |-> retested \cup (IF unknown THEN pack.fallback ELSE pack.required),
              protectedUnchanged |-> changed \cap pack.protected = {}]

-----------------------------------------------------------------------------
(* A worker that stopped without publishing.                               *)

\* Mutant: a timeout is clean whatever the worker left.
TimeoutIsClean(status, zero, dirty, allowed) ==
    CASE status = "TIMED_OUT" -> "CLEAN_TIMEOUT"
      [] status # "TIMED_OUT" /\ zero -> "CLEAN_NO_WORKTREE_DELTA"
      [] OTHER -> Refused

FailureClass(status, zero, dirty, allowed) ==
    CASE status = "TIMED_OUT" ->
            IF zero THEN "CLEAN_TIMEOUT" ELSE "DIRTY_TIMEOUT_RECOVERY_REQUIRED"
      [] status # "TIMED_OUT" /\ zero -> "CLEAN_NO_WORKTREE_DELTA"
      [] status = "EXITED_NONZERO" /\ ~zero /\ dirty # {} /\ dirty \subseteq allowed ->
            "PRODUCTIVE_NONZERO_RECOVERY_CANDIDATE"
      [] OTHER -> Refused

NextActionOf ==
    [CLEAN_NO_WORKTREE_DELTA |-> "HUMAN_SELECT_REPLACEMENT_EXECUTOR_IF_PROVEN_SAFE",
     CLEAN_TIMEOUT |-> "HUMAN_DECISION_REQUIRED_CLEAN_TIMEOUT",
     DIRTY_TIMEOUT_RECOVERY_REQUIRED |-> "RECOVERY_REQUIRED_PRESERVED_DELTA",
     PRODUCTIVE_NONZERO_RECOVERY_CANDIDATE |-> "RECOVERY_REQUIRED_PRESERVED_DELTA"]

\* WorkerFailureEvidence and its from_dict.
WorkerFailureEvidenceOK(e) ==
    /\ e.next = NextActionOf[e.class]
    /\ e.zero <=> e.before = e.after /\ e.dirty = {}
    /\ e.class = "CLEAN_NO_WORKTREE_DELTA" => e.zero /\ e.status # "TIMED_OUT"
    /\ e.class = "CLEAN_TIMEOUT" => e.zero /\ e.status = "TIMED_OUT"
    /\ e.class = "DIRTY_TIMEOUT_RECOVERY_REQUIRED" => ~e.zero /\ e.status = "TIMED_OUT"
    /\ e.class = "PRODUCTIVE_NONZERO_RECOVERY_CANDIDATE" => ~e.zero /\ e.status = "EXITED_NONZERO"

ClassifyWorkerFailure(status, before, after, dirty, allowed) ==
    LET zero == before = after /\ dirty = {}
        class == FailureClass(status, zero, dirty, allowed)
    IN  IF class = Refused THEN Refused
        ELSE [class |-> class, next |-> NextActionOf[class], before |-> before, after |-> after,
              dirty |-> dirty, zero |-> zero, status |-> status]

\* How the flow reports a failed execute, from the authorization it left.
FlowStatus(failure) ==
    CASE failure \in {"CLEAN_NO_WORKTREE_DELTA", "CLEAN_TIMEOUT"} -> "BLOCKED"
      [] failure = None -> "EXECUTION_FAILED"
      [] OTHER -> "RECOVERY_REQUIRED"

\* The bridge commands of one worker transaction, in order; mode is what the
\* handoff froze of the review, None when the authorization was not there (a
\* mode that is neither takes an authorization edited by hand: left out).
TransactionCommands(action, adapter, mode) ==
    CASE action = "STATUS" -> <<"sync", "pending">>
      [] action # "STATUS" /\ mode = "EVIDENCE_REFRESH" /\ action = "FIX" -> <<"handoff", "publish">>
      [] action # "STATUS" /\ (action = "RUN" \/ mode = "IMPLEMENTATION") /\ adapter = "codex" ->
            <<"handoff", "execute">>
      [] OTHER -> <<"handoff">>

FailedStatus ==
    [sync |-> "SYNC_FAILED", pending |-> "PENDING_FAILED", handoff |-> "HANDOFF_FAILED",
     publish |-> "EVIDENCE_REFRESH_PUBLISH_FAILED"]

\* execute_transaction: stop at the first command that fails (its position, 0
\* when none does); failure is what a failed execute left behind, or None.
ExecuteTransaction(action, adapter, mode, fails, failure) ==
    LET commands == TransactionCommands(action, adapter, mode)
        failed == fails \in DOMAIN commands
        ran == IF failed THEN SubSeq(commands, 1, fails) ELSE commands
    IN  [ran |-> ran,
         invocations |-> IF Contains(ran, "execute") THEN 1 ELSE 0,
         status |-> CASE failed -> IF Last(ran) = "execute" THEN FlowStatus(failure)
                                                            ELSE FailedStatus[Last(ran)]
                      [] ~failed /\ action = "STATUS" -> "SYNCED"
                      [] ~failed /\ action = "FIX" /\ mode = None -> "AUTH_INVALID"
                      [] OTHER -> IF ran = <<"handoff">> THEN "AUTHORIZED" ELSE "PUBLISHED"]

-----------------------------------------------------------------------------
(* Certification jobs.  A job is [cand, status, succeeded]; its candidate  *)
(* is the record that the candidate fingerprint digests.                   *)

JobTransitions ==
    [PENDING |-> {"RUNNING", "SUPERSEDED"}, RUNNING |-> {"PASS", "FAILED", "SUPERSEDED"},
     PASS |-> {}, FAILED |-> {}, SUPERSEDED |-> {}]

CandidateFingerprint(head, base, blob, roadmap, profile) ==
    [head |-> head, base |-> base, blob |-> blob, roadmap |-> roadmap, profile |-> profile]

CertificationJobOK(job) ==
    /\ job.status \in {"PASS", "FAILED"} <=> job.succeeded # None
    /\ job.status = "PASS" => job.succeeded

PendingJob(cand) == [cand |-> cand, status |-> "PENDING", succeeded |-> None]

TransitionJob(job, target, succeeded) ==
    LET next == [job EXCEPT !.status = target, !.succeeded = succeeded]
    IN  IF target \in JobTransitions[job.status] /\ CertificationJobOK(next) THEN next ELSE Refused

\* derive_review_first_final_state, with require_exact_certification_candidate.
DeriveFinalPass(review, job, cand) ==
    /\ review.status = "SEMANTICALLY_ACCEPTED_PENDING_T2"
    /\ review.approved /\ review.auto
    /\ job # None /\ job.cand = cand /\ job.status = "PASS"

-----------------------------------------------------------------------------
(* The REVIEW header and the merge gate.  Header lines are                 *)
(* [kind, key, val, quoted]; kind is kv, blank, heading, fence or prose.   *)

\* Mutant: every key line of the text belongs to the header.
AnyKeyLine(lines) == SelectSeq(lines, LAMBDA l : l.kind = "kv")

\* The header: the first block of key lines, after blank lines and a title.
HeaderRegion(lines) ==
    LET IsBlank(i) == lines[i].kind = "blank"
        begun == {i \in DOMAIN lines : ~IsBlank(i)}
        first == IF begun = {} THEN Len(lines) + 1 ELSE CHOOSE i \in begun : \A j \in begun : i <= j
        skip == IF first <= Len(lines) /\ lines[first].kind = "title" THEN first ELSE first - 1
        body == SubSeq(lines, skip + 1, Len(lines))
        keys == {i \in DOMAIN body : body[i].kind = "kv"}
        start == {i \in keys : \A j \in 1 .. i - 1 : body[j].kind = "blank"}
        stop == {i \in DOMAIN body : \A j \in 1 .. i :
                    j \in keys \/ (body[j].kind = "blank" /\ \A k \in 1 .. j : k \notin keys)}
    IN  IF start = {} THEN <<>> ELSE SelectSeq(SubSeq(body, 1, Cardinality(stop)), LAMBDA l : l.kind = "kv")

\* A value under its name or its alias; Refused when the two differ.
Aliased(kv, name, alias) ==
    CASE name \in DOMAIN kv /\ alias \in DOMAIN kv -> IF kv[name] = kv[alias] THEN kv[name] ELSE Refused
      [] name \in DOMAIN kv /\ alias \notin DOMAIN kv -> kv[name]
      [] name \notin DOMAIN kv /\ alias \in DOMAIN kv -> kv[alias]
      [] OTHER -> Refused

RoadmapKeys ==
    {"ROADMAP_AUDIT", "ROADMAP_ID", "ROADMAP_VERSION", "ROADMAP_BLOB_SHA", "ROADMAP_FINGERPRINT",
     "MILESTONE", "CAPABILITY_ID", "REQUIREMENT_BINDINGS_FINGERPRINT"}

\* The review's verdict on the roadmap and the identity that it speaks of.
RoadmapAudit(verdict, roadmap, milestone, capability, requirements) ==
    [verdict |-> verdict, roadmap |-> roadmap, milestone |-> milestone,
     capability |-> capability, requirements |-> requirements]

ParseReviewHeader(lines) ==
    LET region == HeaderRegion(lines)
        unique == \A i, j \in DOMAIN region : region[i].key = region[j].key => i = j
        kv == [k \in {l.key : l \in ToSet(region)} |->
                  (CHOOSE l \in ToSet(region) : l.key = k).val]
        auto == Aliased(kv, "AUTO_MERGE_ELIGIBLE", "AUTO_MERGE_ALLOWED")
        head == Aliased(kv, "REVIEWED_TASK_HEAD_SHA", "REVIEWED_HEAD_SHA")
        base == Aliased(kv, "REVIEWED_BASE_MAIN_SHA", "BASE_MAIN_SHA")
        given == RoadmapKeys \cap DOMAIN kv
    IN  IF /\ unique /\ \A l \in ToSet(region) : ~l.quoted
           /\ {"STATUS", "APPROVED"} \subseteq DOMAIN kv
           /\ kv["APPROVED"] \in {"YES", "NO"} /\ auto \in {"YES", "NO"}
           /\ Refused \notin {head, base}
           /\ given \in {{}, RoadmapKeys}
        THEN [status |-> kv["STATUS"], approved |-> kv["APPROVED"] = "YES", auto |-> auto = "YES",
              head |-> head, base |-> base,
              blob |-> IF "TASK_ARTIFACT_BLOB_SHA" \in DOMAIN kv
                       THEN kv["TASK_ARTIFACT_BLOB_SHA"] ELSE None,
              audit |-> IF given = {} THEN None
                        ELSE RoadmapAudit(kv["ROADMAP_AUDIT"],
                                          <<kv["ROADMAP_ID"], kv["ROADMAP_VERSION"],
                                            kv["ROADMAP_BLOB_SHA"], kv["ROADMAP_FINGERPRINT"]>>,
                                          kv["MILESTONE"], kv["CAPABILITY_ID"],
                                          kv["REQUIREMENT_BINDINGS_FINGERPRINT"])]
        ELSE Refused

\* The roadmap part of the gate, None when it is passed.  binding is the TASK's
\* [roadmap, milestone, capability, requirements] or None, current the identity
\* of the LOCKED roadmap or None.
RoadmapReason(audit, binding, current) ==
    IF audit = None THEN "ROADMAP_AUDIT_MISSING"
    ELSE IF audit.verdict # "PASS" THEN "ROADMAP_AUDIT_NOT_PASS"
    ELSE IF binding = None THEN "ROADMAP_IDENTITY_MISMATCH"
    ELSE IF audit.roadmap # binding.roadmap THEN "ROADMAP_IDENTITY_MISMATCH"
    ELSE IF audit.milestone # binding.milestone THEN "ROADMAP_MILESTONE_MISMATCH"
    ELSE IF audit.capability # binding.capability THEN "ROADMAP_CAPABILITY_MISMATCH"
    ELSE IF audit.requirements # binding.requirements THEN "ROADMAP_BINDING_FINGERPRINT_MISMATCH"
    ELSE IF current # binding.roadmap THEN "ROADMAP_CURRENT_DRIFT"
    ELSE None

\* g: [status, approved, auto, reviewed, base, head, main, mergeBase, ahead,
\* behind, governed, audit, binding, current].
EvaluateMergeGate(g) ==
    LET roadmap == IF g.governed THEN RoadmapReason(g.audit, g.binding, g.current) ELSE None
    IN  IF g.status # "PASS" THEN "REVIEW_NOT_PASS"
        ELSE IF ~g.approved THEN "REVIEW_NOT_APPROVED"
        ELSE IF ~g.auto THEN "AUTO_MERGE_DISABLED"
        ELSE IF roadmap # None THEN roadmap
        ELSE IF g.head # g.reviewed THEN "TASK_HEAD_DRIFT"
        ELSE IF g.main # g.base THEN "MAIN_DRIFT"
        ELSE IF g.behind > 0 THEN "BRANCH_BEHIND_MAIN"
        ELSE IF g.mergeBase # g.main THEN "NOT_FAST_FORWARD"
        ELSE IF g.ahead < 1 THEN "NO_TASK_DELTA"
        ELSE "PASS_ELIGIBLE"

\* require_certification_preflight.  p: [exists, reviewFirst, head, main, branch,
\* taskBranch, local, clean, mergeBase, behind, roadmap, t2].
RequireCertificationPreflight(review, p) ==
    /\ p.exists /\ p.reviewFirst
    /\ review.status = "SEMANTICALLY_ACCEPTED_PENDING_T2" /\ review.approved /\ review.auto
    /\ review.head = p.head /\ review.base = p.main
    /\ p.branch = p.taskBranch /\ p.local = review.head /\ p.clean
    /\ p.mergeBase = p.main /\ p.behind = 0
    /\ p.roadmap /\ p.t2 = 1
=============================================================================
