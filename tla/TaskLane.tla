------------------------------- MODULE TaskLane -------------------------------
(***************************************************************************)
(* A reviewed task on its way to main: certify-reviewed and merge-reviewed *)
(* (aios_bridge/legacy_bridge.py, with the identity checks that            *)
(* slim_runtime.py installs over them), run from several terminals of one  *)
(* clone.  The terminals share the remote-tracking refs, the worktree and  *)
(* the job file; a command reads refs and control artifacts at one step    *)
(* and uses them at a later one.                                           *)
(*                                                                         *)
(* The worker who fixes and publishes, the reviewer, the author of TASK    *)
(* and roadmap and the tasks that reach main elsewhere are the             *)
(* environment.  Commits are numbered as they are made, anc gives each its *)
(* ancestors and itself; neither main nor the task branch is rewound.  A   *)
(* push or fetch that fails leaves a command where a crash would.          *)
(***************************************************************************)
EXTENDS ReviewLane, FiniteSetsExt

CONSTANTS Certifiers, Mergers,  \* the terminals that run either command
          Texts,                \* TASK: [mode, bind], bind a roadmap binding or None
          Verdicts,             \* REVIEW: [status, approved, auto, audit]
          MaxCommit,            \* bound on commits
          MaxControl            \* bound on commits of the control branch

ASSUME LaneBounds == MaxCommit \in Nat /\ MaxControl \in Nat

VARIABLES remote,   \* [main, task, control]
          track,    \* the clone's remote-tracking refs, same shape
          anc,      \* commit -> its ancestors and itself
          local,    \* the worktree: [head, clean]
          job,      \* job.json
          term,     \* terminal -> the command it is in and what it read
          t2s,      \* history: T2 runs, in the order they started
          merges    \* history: what merge-reviewed put on main

vars == <<remote, track, anc, local, job, term, t2s, merges>>

Terminals == Certifiers \cup Mergers
Commits == DOMAIN anc
Idle == [pc |-> "idle", control |-> None, main |-> None, task |-> None,
         cand |-> None, id |-> None]

\* control: [rev, blob, text, review, roadmap]; blob and rev grow with every
\* change, so that a TASK text does not come back.  roadmap is the LOCKED
\* roadmap that the registry names.
TypeOK ==
    /\ remote.main \in Commits /\ remote.task \in Commits
    /\ track.main \in Commits /\ track.task \in Commits
    /\ local.head \in Commits /\ local.clean \in BOOLEAN
    /\ job = None \/ CertificationJobOK(job)

Init ==
    /\ \E text \in Texts :
          remote = [main |-> 1, task |-> 2,
                    control |-> [rev |-> 1, blob |-> 1, text |-> text, review |-> None, roadmap |-> 1]]
    /\ track = remote
    /\ anc = [c \in {1, 2} |-> 1..c]
    /\ local = [head |-> 2, clean |-> TRUE]
    /\ job = None
    /\ term = [t \in Terminals |-> Idle]
    /\ t2s = <<>> /\ merges = {}

-----------------------------------------------------------------------------
(* The facts that the two commands put before the gate.                    *)

\* merge-base and rev-list --left-right, of the fetched main and a head.
MergeBase(head) == Max(anc[track.main] \cap anc[head])
Ahead(head) == Cardinality(anc[head] \ anc[track.main])
Behind(head) == Cardinality(anc[track.main] \ anc[head])

\* _review_first_candidate_contract
CandidateContract(control, head, base) ==
    CandidateFingerprint(head, base, control.blob, control.text.bind.roadmap, "CONTROL_PLANE_STRICT")

\* _resolve_current_task_roadmap: the roadmap that the registry names, when it
\* is the one that the TASK is bound to.
RegisteredRoadmap(control) ==
    IF control.text.bind # None /\ control.roadmap = control.text.bind.roadmap
    THEN control.roadmap ELSE None

\* ReviewedMergeInput.  m has the refs that were read; the ancestry is that of
\* the fetched main and of tip as they are by now.
MergeInput(m, tip, status, current) ==
    LET r == m.control.review
        bind == m.control.text.bind
    IN  [status |-> status, approved |-> r.approved, auto |-> r.auto,
         reviewed |-> r.head, base |-> r.base, head |-> m.task, main |-> m.main,
         mergeBase |-> MergeBase(tip), ahead |-> Ahead(tip), behind |-> Behind(tip),
         governed |-> bind # None, audit |-> r.audit, binding |-> bind, current |-> current]

IsReviewFirst(control) == control.text.mode = "REVIEW_FIRST_CERTIFICATION"

\* A step that reads: the command goes on as next, or fails.
Reads(t, ok, next) ==
    /\ term' = [term EXCEPT ![t] = IF ok THEN next ELSE Idle]
    /\ UNCHANGED <<remote, track, anc, local, job, t2s, merges>>

-----------------------------------------------------------------------------
(* certify-reviewed.                                                       *)

\* What _preflight_certify_reviewed asks of the frozen TASK and REVIEW.
Accepted(c) ==
    LET r == c.review
    IN  /\ IsReviewFirst(c) /\ r # None
        /\ r.status = "SEMANTICALLY_ACCEPTED_PENDING_T2" /\ r.approved /\ r.auto
        /\ r.blob = c.blob

\* _preflight_certify_reviewed: fetch, and freeze the control commit.
CertFetch(t) ==
    /\ term[t].pc = "idle"
    /\ track' = remote
    /\ term' = [term EXCEPT ![t] = IF Accepted(remote.control)
                                   THEN [@ EXCEPT !.pc = "certFetched", !.control = remote.control]
                                   ELSE Idle]
    /\ UNCHANGED <<remote, anc, local, job, t2s, merges>>

\* A ref that is not the reviewed one fails the command, here as it is read: the
\* code compares both after the second read, and neither value changes meanwhile.
CertReadMain(t) ==
    LET m == term[t]
    IN  /\ m.pc = "certFetched"
        /\ Reads(t, track.main = m.control.review.base,
                 [m EXCEPT !.pc = "certMain", !.main = track.main])

CertReadTask(t) ==
    LET m == term[t]
    IN  /\ m.pc = "certMain"
        /\ Reads(t, track.task = m.control.review.head,
                 [m EXCEPT !.pc = "certTask", !.task = track.task])

\* The branch is not modelled: the clone stays on the task branch.
CertReadWorktree(t) ==
    /\ term[t].pc = "certTask"
    /\ Reads(t, local = [head |-> term[t].task, clean |-> TRUE], [term[t] EXCEPT !.pc = "certTree"])

\* The gate and the preflight evidence, with the ancestry of HEAD.
CertPreflightOK(m) ==
    LET gate == EvaluateMergeGate(MergeInput(m, local.head, "PASS", RegisteredRoadmap(m.control)))
    IN  /\ m.control.text.bind # None
        /\ RequireCertificationPreflight(m.control.review,
              [exists |-> TRUE, reviewFirst |-> IsReviewFirst(m.control),
               head |-> m.task, main |-> m.main, branch |-> "task", taskBranch |-> "task",
               local |-> m.task, clean |-> TRUE, mergeBase |-> MergeBase(local.head),
               behind |-> Behind(local.head), roadmap |-> gate = "PASS_ELIGIBLE", t2 |-> 1])

CertGate(t) ==
    LET m == term[t]
    IN  /\ m.pc = "certTree"
        /\ Reads(t, CertPreflightOK(m),
                 [Idle EXCEPT !.pc = "certChecked", !.cand = CandidateContract(m.control, m.task, m.main)])

\* _cert_identity resolves all refs once more, after the preflight, and fails on
\* a TASK without a binding.
CertIdentity(t) ==
    LET c == track.control
    IN  /\ term[t].pc = "certChecked"
        /\ Reads(t, c.text.bind # None,
                 [term[t] EXCEPT !.pc = "certIdentified",
                                 !.id = [main |-> track.main, task |-> track.task, blob |-> c.blob,
                                         review |-> c.review, roadmap |-> c.roadmap,
                                         bind |-> c.text.bind]])

\* Mutant: the job of an interrupted certification is started again.
StartsAgain(existing, cand) ==
    existing = None \/ existing.status \in {"PENDING", "RUNNING", "FAILED", "SUPERSEDED"}

\* Whether a T2 may start beside the job on file: none for this candidate, and
\* none running for another.  A stale job goes to the history directory.
MayStartT2(existing, cand) ==
    existing = None \/ (existing.cand # cand /\ existing.status # "RUNNING")

CertLoad(t) ==
    /\ term[t].pc = "certIdentified"
    /\ Reads(t, MayStartT2(job, term[t].cand), [term[t] EXCEPT !.pc = "certDecided"])

CertSavePending(t) ==
    /\ term[t].pc = "certDecided"
    /\ job' = PendingJob(term[t].cand)
    /\ term' = [term EXCEPT ![t].pc = "certPending"]
    /\ UNCHANGED <<remote, track, anc, local, t2s, merges>>

\* The RUNNING job is saved and the blocking T2 starts on the worktree.
CertStartT2(t) ==
    /\ term[t].pc = "certPending"
    /\ job' = TransitionJob(PendingJob(term[t].cand), "RUNNING", None)
    /\ t2s' = Append(t2s, [by |-> t, cand |-> term[t].cand, on |-> local, end |-> None, ok |-> FALSE])
    /\ term' = [term EXCEPT ![t].pc = "certTesting"]
    /\ UNCHANGED <<remote, track, anc, local, merges>>

CertEndT2(t, ok) ==
    LET n == CHOOSE i \in DOMAIN t2s : t2s[i].by = t /\ t2s[i].end = None
    IN  /\ term[t].pc = "certTesting"
        /\ t2s' = [t2s EXCEPT ![n].end = local, ![n].ok = ok]
        /\ term' = [term EXCEPT ![t].pc = IF ok THEN "certPassed" ELSE "certFailed"]
        /\ UNCHANGED <<remote, track, anc, local, job, merges>>

\* _post_t2_identity_only, whose fetch may fail.
PostT2Identity(id, fetched) ==
    LET c == remote.control
    IN  /\ fetched
        /\ c.blob = id.blob /\ c.review = id.review
        /\ remote.main = id.main /\ remote.task = id.task
        /\ local = [head |-> remote.task, clean |-> TRUE]
        /\ c.roadmap = id.roadmap /\ id.roadmap = id.bind.roadmap

\* The job's end: PASS when T2 passed and nothing drifted.
CertFinish(t, fetched) ==
    LET passed == term[t].pc = "certPassed"
        running == TransitionJob(PendingJob(term[t].cand), "RUNNING", None)
    IN  /\ term[t].pc \in {"certPassed", "certFailed"}
        /\ track' = IF fetched THEN remote ELSE track
        /\ job' = TransitionJob(running,
                      IF passed /\ PostT2Identity(term[t].id, fetched) THEN "PASS" ELSE "FAILED", passed)
        /\ term' = [term EXCEPT ![t] = Idle]
        /\ UNCHANGED <<remote, anc, local, t2s, merges>>

-----------------------------------------------------------------------------
(* merge-reviewed.                                                         *)

MergeFetch(t) ==
    /\ term[t].pc = "idle"
    /\ track' = remote
    /\ term' = [term EXCEPT ![t] = IF remote.control.review = None THEN Idle
                                   ELSE [@ EXCEPT !.pc = "mergeFetched", !.control = remote.control]]
    /\ UNCHANGED <<remote, anc, local, job, t2s, merges>>

\* As in CertReadMain, a main or a head that the gate will refuse fails the
\* command as it is read: nothing happens between the read and the gate.
MergeReadMain(t) ==
    LET m == term[t]
    IN  /\ m.pc = "mergeFetched"
        /\ Reads(t, track.main = m.control.review.base,
                 [m EXCEPT !.pc = "mergeMain", !.main = track.main])

MergeReadTask(t) ==
    LET m == term[t]
    IN  /\ m.pc = "mergeMain"
        /\ Reads(t, track.task = m.control.review.head,
                 [m EXCEPT !.pc = "mergeTask", !.task = track.task])

\* Mutant: any passing job stands for the candidate.
AnyPassingJob(m) ==
    LET c == m.control
        r == c.review
    IN  /\ IsReviewFirst(c) => job # None /\ job.status = "PASS"
                               /\ r.status = "SEMANTICALLY_ACCEPTED_PENDING_T2"
        /\ EvaluateMergeGate(MergeInput(m, track.task, IF IsReviewFirst(c) THEN "PASS" ELSE r.status,
                                        RegisteredRoadmap(c))) = "PASS_ELIGIBLE"

\* The gate, before which a review-first task derives FINAL_PASS from its job
\* and a governed one must be reviewed as the canonical TASK it is.
MergeGateOK(m) ==
    LET c == m.control
        r == c.review
        governed == c.text.bind # None
        status == IF IsReviewFirst(c) THEN "PASS" ELSE r.status
    IN  /\ IsReviewFirst(c) =>
              governed /\ DeriveFinalPass(r, job, CandidateContract(c, r.head, r.base))
        /\ governed =>
              /\ r.blob = c.blob
              /\ EvaluateMergeGate(MergeInput(m, track.task, status, None)) = "ROADMAP_CURRENT_DRIFT"
        /\ EvaluateMergeGate(MergeInput(m, track.task, status, RegisteredRoadmap(c))) = "PASS_ELIGIBLE"

MergeGate(t) ==
    /\ term[t].pc = "mergeTask"
    /\ Reads(t, MergeGateOK(term[t]), [term[t] EXCEPT !.pc = "mergeGated"])

\* The push is not forced: the remote takes only a descendant of its main.
MergePush(t) ==
    LET head == term[t].task
        taken == remote.main \in anc[head]
    IN  /\ term[t].pc = "mergeGated"
        /\ remote' = IF taken THEN [remote EXCEPT !.main = head] ELSE remote
        /\ track' = IF taken THEN [track EXCEPT !.main = head] ELSE track
        /\ merges' = IF taken /\ remote.main # head
                     THEN merges \cup {[head |-> head, onto |-> remote.main, under |-> term[t].control,
                                        receipt |-> FALSE]}
                     ELSE merges
        /\ term' = [term EXCEPT ![t] = IF taken THEN [@ EXCEPT !.pc = "mergePushed"] ELSE Idle]
        /\ UNCHANGED <<anc, local, job, t2s>>

\* Refetch, verify that main and the branch are the reviewed head, and write a
\* receipt; a failed verification reports after the merge has happened.
MergeVerify(t) ==
    LET head == term[t].task
        verified == remote.main = head /\ remote.task = head
    IN  /\ term[t].pc = "mergePushed"
        /\ track' = [track EXCEPT !.main = remote.main, !.task = remote.task]
        /\ merges' = {IF verified /\ m.head = head THEN [m EXCEPT !.receipt = TRUE] ELSE m : m \in merges}
        /\ term' = [term EXCEPT ![t] = Idle]
        /\ UNCHANGED <<remote, anc, local, job, t2s>>

\* A terminal dies, or a save, a fetch or the launch of T2 fails.
Crash(t) ==
    /\ term[t].pc # "idle"
    /\ term' = [term EXCEPT ![t] = Idle]
    /\ t2s' = [i \in DOMAIN t2s |-> IF t2s[i].by = t /\ t2s[i].end = None
                                     THEN [t2s[i] EXCEPT !.by = None] ELSE t2s[i]]
    /\ UNCHANGED <<remote, track, anc, local, job, merges>>

-----------------------------------------------------------------------------
(* The environment.                                                        *)

NewCommit == Cardinality(Commits) + 1

\* The history with one more commit, on parents whose ancestors are given.
AncWith(ancestors) ==
    [c \in Commits \cup {NewCommit} |-> IF c \in Commits THEN anc[c] ELSE {NewCommit} \cup ancestors]

WorkerEdits ==
    /\ local.clean
    /\ local' = [local EXCEPT !.clean = FALSE]
    /\ UNCHANGED <<remote, track, anc, job, term, t2s, merges>>

\* The worker commits, with or without the main it has fetched.
WorkerCommits(withMain) ==
    /\ NewCommit <= MaxCommit
    /\ anc' = AncWith(anc[local.head] \cup (IF withMain THEN anc[track.main] ELSE {}))
    /\ local' = [head |-> NewCommit, clean |-> TRUE]
    /\ UNCHANGED <<remote, track, job, term, t2s, merges>>

WorkerPushes ==
    /\ local.head # remote.task
    /\ remote' = [remote EXCEPT !.task = local.head]
    /\ track' = [track EXCEPT !.task = local.head]
    /\ UNCHANGED <<anc, local, job, term, t2s, merges>>

OtherTaskLands ==
    /\ NewCommit <= MaxCommit
    /\ anc' = AncWith(anc[remote.main])
    /\ remote' = [remote EXCEPT !.main = NewCommit]
    /\ UNCHANGED <<track, local, job, term, t2s, merges>>

SetControl(c) ==
    /\ c.rev <= MaxControl
    /\ remote' = [remote EXCEPT !.control = c]
    /\ UNCHANGED <<track, anc, local, job, term, t2s, merges>>

\* The audit that a review of a governed TASK carries.
AuditOf(verdict, bind) ==
    IF bind = None THEN None
    ELSE RoadmapAudit(verdict, bind.roadmap, bind.milestone, bind.capability, bind.requirements)

\* A review names commits that were published by then; it may be slow.
ReviewerWrites(v, head, base) ==
    LET c == remote.control
    IN  SetControl([c EXCEPT !.rev = @ + 1,
            !.review = [status |-> v.status, approved |-> v.approved, auto |-> v.auto,
                        head |-> head, base |-> base, blob |-> c.blob,
                        audit |-> AuditOf(v.audit, c.text.bind)]])

AuthorRevises(text) ==
    SetControl([remote.control EXCEPT !.rev = @ + 1, !.blob = @ + 1, !.text = text])

RoadmapRevised ==
    SetControl([remote.control EXCEPT !.rev = @ + 1, !.roadmap = @ + 1])

Environment ==
    \/ WorkerEdits \/ WorkerPushes \/ OtherTaskLands \/ RoadmapRevised
    \/ \E withMain \in BOOLEAN : WorkerCommits(withMain)
    \/ \E v \in Verdicts, head \in anc[remote.task], base \in anc[remote.main] :
          ReviewerWrites(v, head, base)
    \/ \E text \in Texts : AuthorRevises(text)

Certify(t) ==
    \/ CertFetch(t) \/ CertReadMain(t) \/ CertReadTask(t) \/ CertReadWorktree(t) \/ CertGate(t)
    \/ CertIdentity(t) \/ CertLoad(t) \/ CertSavePending(t) \/ CertStartT2(t)
    \/ \E ok \in BOOLEAN : CertEndT2(t, ok)
    \/ \E fetched \in BOOLEAN : CertFinish(t, fetched)

Merge(t) ==
    \/ MergeFetch(t) \/ MergeReadMain(t) \/ MergeReadTask(t) \/ MergeGate(t)
    \/ MergePush(t) \/ MergeVerify(t)

Next ==
    \/ Environment
    \/ \E t \in Certifiers : Certify(t)
    \/ \E t \in Mergers : Merge(t)
    \/ \E t \in Terminals : Crash(t)

Spec == Init /\ [][Next]_vars

-----------------------------------------------------------------------------
(* Whatever merge-reviewed puts on main is the head that an approving      *)
(* review names, on the very main that review names and of the TASK text   *)
(* that was reviewed; for a review-first task, the T2 run certified for    *)
(* that candidate passed, on a clean worktree that stayed as it was.  The  *)
(* refs, the review and the job are read at different moments and other    *)
(* terminals move all of them (cmd_merge_reviewed, cmd_certify_reviewed,   *)
(* _post_t2_identity_only).  That the worktree held the candidate's head   *)
(* is PassMeansTested.  What has a receipt stays part of main.             *)
MergedIsCertified ==
    \A m \in merges :
        LET r == m.under.review
        IN  /\ r.head = m.head /\ r.base = m.onto /\ r.approved /\ r.auto
            /\ m.under.text.bind # None => r.blob = m.under.blob /\ r.audit = AuditOf("PASS", m.under.text.bind)
            /\ IsReviewFirst(m.under) =>
                  \E i \in DOMAIN t2s :
                      /\ t2s[i].cand = CandidateContract(m.under, m.head, m.onto)
                      /\ t2s[i].ok /\ t2s[i].on.clean /\ t2s[i].end = t2s[i].on
            /\ m.receipt => m.head \in anc[remote.main]

(* A candidate is put through T2 once, however its certification ended and *)
(* however often the command is given again (cmd_certify_reviewed: "second *)
(* T2 is forbidden").                                                      *)
OneT2PerCandidate ==
    \A i, j \in DOMAIN t2s : t2s[i].cand = t2s[j].cand => i = j

(* A job on file that says PASS means that T2 passed on the very candidate *)
(* that the job names (_post_t2_revalidate_certification_subject: "require *)
(* the exact pre-T2 subject binding").                                     *)
PassMeansTested ==
    job # None /\ job.status = "PASS" =>
        \E i \in DOMAIN t2s : t2s[i].ok /\ t2s[i].on.head = job.cand.head
=============================================================================
