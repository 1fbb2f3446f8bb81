------------------------------- MODULE Roadmap -------------------------------
(***************************************************************************)
(* Roadmap governance (aios_bridge/roadmap_governance.py) and the          *)
(* authoring preflight of an executable artifact (task_authoring.py).      *)
(*                                                                         *)
(* A roadmap is [id, version, status, authority, path, blob, fp,           *)
(* milestones], its milestones a sequence of [id, capability,              *)
(* requirements], a requirement <<milestone, n>>.  Blob and fingerprint    *)
(* are two digests of the same bytes.  Texts are sequences of the lines of *)
(* ReviewLane; a section is a line with key "##", a title one with key "#" *)
(* and the milestones that it names as its value.                          *)
(***************************************************************************)
EXTENDS ReviewLane

CanonicalMilestoneOK(m) ==
    /\ m.requirements # <<>> /\ IsInjective(m.requirements)
    /\ \A i \in DOMAIN m.requirements : m.requirements[i][1] = m.id

MilestoneIds(r) == [i \in DOMAIN r.milestones |-> r.milestones[i].id]
MilestoneOf(r, id) == r.milestones[CHOOSE i \in DOMAIN r.milestones : r.milestones[i].id = id]
Declared(r, id) == id \in Range(MilestoneIds(r))

CanonicalRoadmapOK(r) ==
    /\ r.authority = "CANONICAL" /\ r.status \in {"DRAFT", "LOCKED", "SUPERSEDED"}
    /\ r.milestones # <<>> /\ IsInjective(MilestoneIds(r))
    /\ IsInjective([i \in DOMAIN r.milestones |-> r.milestones[i].capability])

IdentityOf(r) == <<r.id, r.version, r.blob, r.fp>>

\* Entries [id, version, path, blob]; no two share an identity, a path or a blob.
ParseCanonicalRoadmapRegistry(entries) ==
    IF \A i, j \in DOMAIN entries : i # j =>
          /\ <<entries[i].id, entries[i].version>> # <<entries[j].id, entries[j].version>>
          /\ entries[i].path # entries[j].path /\ entries[i].blob # entries[j].blob
    THEN {entries[i] : i \in DOMAIN entries} ELSE Refused

\* What one line does to a roadmap under construction.  cur is the milestone
\* being read; done keeps the finished ones, fields every header field.
FinishMilestone(acc) ==
    CASE acc.cur = None -> acc
      [] acc.cur # None /\ acc.cur.capability # None /\ CanonicalMilestoneOK(acc.cur) ->
            [acc EXCEPT !.done = Append(@, acc.cur), !.cur = None]
      [] OTHER -> [acc EXCEPT !.ok = FALSE]

ReadRoadmapLine(acc, l) ==
    LET finished == FinishMilestone(acc)
        fresh == \A i \in DOMAIN finished.done : finished.done[i].id # l.val
        known == {acc.done[i].capability : i \in DOMAIN acc.done}
    IN  CASE l.key = "##" -> finished
          [] l.key \in {"ROADMAP_ID", "ROADMAP_VERSION", "STATUS", "AUTHORITY"} ->
                [acc EXCEPT !.fields = Append(@, l)]
          [] l.key = "###" ->
                [finished EXCEPT !.cur = [id |-> l.val, capability |-> None, requirements |-> <<>>],
                                 !.ok = @ /\ fresh]
          [] l.key = "CAPABILITY_ID" /\ acc.cur # None ->
                [acc EXCEPT !.cur.capability = l.val,
                            !.ok = @ /\ acc.cur.capability = None /\ l.val \notin known]
          [] l.key = "requirement" /\ acc.cur # None ->
                [acc EXCEPT !.cur.requirements = Append(@, l.val),
                            !.ok = @ /\ l.val[1] = acc.cur.id
                                     /\ l.val \notin Range(acc.cur.requirements)]
          [] l.key = "bullet" /\ acc.cur # None -> [acc EXCEPT !.ok = FALSE]
          [] OTHER -> acc

\* parse_canonical_roadmap of the document [lines, blob].
ParseCanonicalRoadmap(doc, path, expected) ==
    LET start == [ok |-> TRUE, fields |-> <<>>, cur |-> None, done |-> <<>>]
        read == FinishMilestone(FoldLeft(ReadRoadmapLine, start,
                    Unfenced(doc.lines, "ticks")))
        field(key) == ValuesOf(read.fields, key)
        once == \A key \in {"ROADMAP_ID", "ROADMAP_VERSION", "STATUS", "AUTHORITY"} :
                    Len(field(key)) = 1
        roadmap == [id |-> field("ROADMAP_ID")[1], version |-> field("ROADMAP_VERSION")[1],
                    status |-> field("STATUS")[1], authority |-> field("AUTHORITY")[1],
                    path |-> path, blob |-> doc.blob, fp |-> doc.blob, milestones |-> read.done]
    IN  IF doc.blob = expected /\ read.ok /\ once /\ CanonicalRoadmapOK(roadmap)
        THEN roadmap ELSE Refused

-----------------------------------------------------------------------------
(* The binding of a task: [id, version, blob, fp, milestone, capability,   *)
(* requirements].                                                          *)

RoadmapTaskBindingOK(b) == b.requirements # <<>> /\ IsInjective(b.requirements)

ParseRoadmapTaskBinding(lines) ==
    LET payloads == RoadmapPayloads(lines)
    IN  IF Len(payloads) = 1 /\ RoadmapTaskBindingOK(payloads[1]) THEN payloads[1] ELSE Refused

\* The header ends at the first section or fence.
TaskHeader(lines) ==
    LET ends == {i \in DOMAIN lines : lines[i].key \in {"##", "###"} \/ IsTicks(lines[i])}
        last == IF ends = {} THEN Len(lines) ELSE Min(ends) - 1
    IN  SubSeq(lines, 1, last)

TaskHeaderFields(lines, key) == ValuesOf(TaskHeader(lines), key)

\* The first title and every MILESTONE field claim; val of a title is a set.
ClaimedHMilestones(lines) ==
    LET titles == TaskHeaderFields(lines, "#")
    IN  (IF titles = <<>> THEN {} ELSE titles[1]) \cup Range(TaskHeaderFields(lines, "MILESTONE"))

TaskRequiresRoadmapGovernance(lines) ==
    "H-SERIES" \in Range(TaskHeaderFields(lines, "CLASS")) \/ ClaimedHMilestones(lines) # {}

\* refs: the task's context, a sequence of [path, blob].
ValidateTaskBinding(lines, b, r, refs, migration) ==
    LET header == TaskHeaderFields(lines, "MILESTONE")
        atPath == SelectSeq(refs, LAMBDA ref : ref.path = r.path)
    IN  /\ r.status = "LOCKED" \/ (r.status = "SUPERSEDED" /\ migration)
        /\ IdentityOf(b) = IdentityOf(r)
        /\ Declared(r, b.milestone)
        /\ b.capability = MilestoneOf(r, b.milestone).capability
        /\ Range(b.requirements) \subseteq Range(MilestoneOf(r, b.milestone).requirements)
        /\ header \in {<<>>, <<b.milestone>>}
        /\ ClaimedHMilestones(lines) \subseteq {b.milestone}
        /\ Len(atPath) = 1 /\ atPath[1].blob = b.blob
        /\ \A i \in DOMAIN refs : refs[i].blob = b.blob => refs[i].path = r.path

\* The roadmap that the registry has for binding b.  registry: the parsed
\* entries, or None; documents: <<path, blob>> -> the text.
BoundRoadmap(b, registry, documents) ==
    LET entries == {e \in registry : e.id = b.id /\ e.version = b.version}
        e == CHOOSE x \in entries : TRUE
    IN  IF b # Refused /\ registry # None /\ entries # {} /\ b.blob = e.blob
        THEN ParseCanonicalRoadmap(documents[<<e.path, e.blob>>], e.path, e.blob) ELSE Refused

PreflightDecision(lines, refs, b, r, migration) ==
    IF r # Refused /\ ValidateTaskBinding(lines, b, r, refs, migration)
    THEN [allowed |-> TRUE, binding |-> b, roadmap |-> r]
    ELSE [allowed |-> FALSE, binding |-> None, roadmap |-> None]

EvaluateRoadmapPreflight(lines, refs, registry, documents, migration) ==
    LET b == ParseRoadmapTaskBinding(lines)
    IN  IF TaskRequiresRoadmapGovernance(lines) \/ RoadmapPayloads(lines) # <<>>
        THEN PreflightDecision(lines, refs, b, BoundRoadmap(b, registry, documents), migration)
        ELSE [allowed |-> TRUE, binding |-> None, roadmap |-> None]

-----------------------------------------------------------------------------
(* Milestones open in order.  A completion record is [id, version, blob,   *)
(* fp, milestone, capability, evidence, unresolved, status]; the digest of *)
(* a record is the record.                                                 *)

CompletionRecord(r, milestone, evidence) ==
    [id |-> r.id, version |-> r.version, blob |-> r.blob, fp |-> r.fp, milestone |-> milestone,
     capability |-> MilestoneOf(r, milestone).capability, evidence |-> evidence,
     unresolved |-> {}, status |-> "COMPLETE"]

\* Mutant: some evidence will do.
CompletionBySomeEvidence(rec, r) ==
    /\ IdentityOf(rec) = IdentityOf(r)
    /\ Declared(r, rec.milestone) /\ rec.status = "COMPLETE"
    /\ rec.evidence \cap Range(MilestoneOf(r, rec.milestone).requirements) # {}

ValidateMilestoneCompletion(rec, r) ==
    /\ IdentityOf(rec) = IdentityOf(r)
    /\ Declared(r, rec.milestone)
    /\ rec.capability = MilestoneOf(r, rec.milestone).capability
    /\ rec.status = "COMPLETE"
    /\ rec.evidence = Range(MilestoneOf(r, rec.milestone).requirements)
    /\ rec.unresolved = {}

\* The completion artifact of a roadmap: [id, version, blob, fp, records].
ParseMilestoneCompletionRecords(doc, r) ==
    IF /\ IdentityOf(doc) = IdentityOf(r)
       /\ IsInjective([i \in DOMAIN doc.records |-> doc.records[i].milestone])
       /\ \A i \in DOMAIN doc.records : ValidateMilestoneCompletion(doc.records[i], r)
    THEN doc.records ELSE Refused

\* _transitive_prerequisites: a depth-first walk; a node that is being
\* visited raises, one that is in the result is not visited again.
RECURSIVE Visit(_, _, _, _)
Visit(node, visiting, deps, acc) ==
    LET step(a, p) == IF p \in a.result THEN a
                      ELSE Visit(p, visiting \cup {node}, deps, [a EXCEPT !.result = @ \cup {p}])
    IN  IF node \in visiting THEN [acc EXCEPT !.ok = FALSE]
        ELSE FoldLeft(step, acc, deps[node])

TransitivePrerequisites(milestone, deps) ==
    LET walk == Visit(milestone, {}, deps, [ok |-> TRUE, result |-> {}])
    IN  IF walk.ok THEN walk.result ELSE Refused

\* deps = None: every earlier milestone of the roadmap is a prerequisite.
MayOpenMilestone(r, target, records, deps) ==
    LET ids == MilestoneIds(r)
        at == CHOOSE i \in DOMAIN ids : ids[i] = target
        required == IF deps = None THEN {ids[i] : i \in 1 .. at - 1}
                    ELSE TransitivePrerequisites(target, deps)
    IN  /\ Declared(r, target) /\ required # Refused
        /\ IsInjective([i \in DOMAIN records |-> records[i].milestone])
        /\ \A p \in required : \E i \in DOMAIN records :
              records[i].milestone = p /\ ValidateMilestoneCompletion(records[i], r)

\* impact_cone: passes over the milestones until one adds nothing.
RECURSIVE GrowCone(_, _)
GrowCone(cone, deps) ==
    LET next == cone \cup {m \in DOMAIN deps : Range(deps[m]) \cap cone # {}}
    IN  IF next = cone THEN cone ELSE GrowCone(next, deps)

ImpactCone(r, changed, deps) ==
    LET ids == MilestoneIds(r)
    IN  IF deps = None
        THEN SubSeq(ids, CHOOSE i \in DOMAIN ids : ids[i] = changed, Len(ids))
        ELSE IF ~(DOMAIN deps \cup UNION {Range(deps[m]) : m \in DOMAIN deps} \subseteq Range(ids))
        THEN Refused
        ELSE LET cone == GrowCone({changed}, deps) IN SelectSeq(ids, LAMBDA m : m \in cone)

-----------------------------------------------------------------------------
(* Authoring: may this artifact be handed to this executor?                *)

ValidatePublisherProfile(lines, explicit) ==
    LET text == Unfenced(lines, "ticks")
        profiles == ValuesOf(text, "PUBLISHER_PROFILE")
    IN  /\ ValuesOf(text, "CUSTOM_RESULT") = <<>>
        /\ profiles \in {<<"CANONICAL_E4">>, <<"DEFAULT">>}
              \/ (profiles = <<>> /\ ~explicit)

\* refs: the context of the REVIEW.
GovernedFixReviewOK(lines, refs, taskPath, taskBlob, b) ==
    LET atTask == SelectSeq(refs, LAMBDA ref : ref.path = taskPath)
    IN  /\ Len(atTask) = 1 /\ atTask[1].blob = taskBlob
        /\ Len(TaskHeaderFields(lines, "REVIEWED_TASK_HEAD_SHA")) = 1
        /\ TaskHeaderFields(lines, "TASK_ARTIFACT_BLOB_SHA") = <<taskBlob>>
        /\ TaskHeaderFields(lines, "ROADMAP") = <<IdentityOf(b)>>
        /\ TaskHeaderFields(lines, "MILESTONE") = <<b.milestone>>
        /\ TaskHeaderFields(lines, "CAPABILITY_ID") = <<b.capability>>

\* A milestone after the first needs the completion records of the ones before.
MilestoneMayStart(d, completions) ==
    LET records == ParseMilestoneCompletionRecords(completions, d.roadmap)
    IN  \/ d.roadmap.milestones[1].id = d.binding.milestone
        \/ /\ completions # None /\ records # Refused
           /\ MayOpenMilestone(d.roadmap, d.binding.milestone, records, None)

\* What the roadmap decision d asks of the artifact; task is None for a RUN.
GovernanceAllows(a, task, completions, d) ==
    /\ d.allowed
    /\ d.binding # None =>
          /\ task # None => GovernedFixReviewOK(a.lines, a.refs, task.path, task.blob, d.binding)
          /\ MilestoneMayStart(d, completions)

\* No caller approves a migration to a superseded roadmap.
\* a: the artifact [lines, refs, explicit, policy], its policy [operation,
\* executors, able]; task: the canonical TASK of a FIX, [lines, refs, path,
\* blob]; completions: the completion artifact, None when it has none.
PreflightExecutableArtifact(a, operation, executor, task, registry, documents, completions) ==
    LET fix == operation = "FIX"
        governing == IF fix THEN task ELSE a
    IN  /\ ValidatePublisherProfile(a.lines, a.explicit)
        /\ a.policy.operation = operation
        /\ executor \in a.policy.executors /\ executor \in a.policy.able
        /\ fix => task # None
        /\ GovernanceAllows(a, IF fix THEN task ELSE None, completions,
              EvaluateRoadmapPreflight(governing.lines, governing.refs, registry, documents, FALSE))
=============================================================================
