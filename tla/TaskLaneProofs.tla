--------------------------- MODULE TaskLaneProofs ---------------------------
(***************************************************************************)
(* Proofs about TaskLane, for any number of commits, control revisions and  *)
(* kills.  The first part lets any number of terminals certify and one      *)
(* merge; the second lets one certify and one merge; the last part is about *)
(* the decisions of ReviewLane, for any arguments.                          *)
(***************************************************************************)
EXTENDS TaskLane, FiniteSetTheorems, SequenceTheorems, WellFoundedInduction, TLAPS

Binds      == {x.bind : x \in Texts}
Reviews    == [status : {v.status : v \in Verdicts}, approved : {v.approved : v \in Verdicts},
               auto : {v.auto : v \in Verdicts}, head : Nat, base : Nat, blob : Nat,
               audit : {AuditOf(v.audit, bind) : v \in Verdicts, bind \in Binds}]
Controls   == [rev : Nat, blob : Nat, text : Texts, review : Reviews \cup {None}, roadmap : Nat]
Worktrees  == [head : Nat, clean : BOOLEAN]
Candidates == [head : Nat, base : Nat, blob : Nat, roadmap : {bind.roadmap : bind \in Binds},
               profile : {"CONTROL_PLANE_STRICT"}]
Jobs       == [cand : Candidates, status : {"PENDING", "RUNNING", "PASS", "FAILED", "SUPERSEDED"},
               succeeded : BOOLEAN \cup {None}]
Identities == [main : Nat, task : Nat, blob : Nat, review : Reviews \cup {None}, roadmap : Nat, bind : Binds]
T2Runs     == [by : Terminals \cup {None}, cand : Candidates, on : Worktrees,
               end : Worktrees \cup {None}, ok : BOOLEAN]
MergeRuns  == [head : Nat, onto : Nat, under : Controls, receipt : BOOLEAN]

\* Up to the gate of the preflight, and from _cert_identity on.
ReadPcs  == {"certFetched", "certMain", "certTask", "certTree"}
CertPcs  == ReadPcs \cup {"certChecked", "certIdentified", "certDecided", "certPending",
                         "certTesting", "certPassed", "certFailed"}
KnownPcs == CertPcs \ (ReadPcs \cup {"certChecked"})
MergePcs == {"mergeFetched", "mergeMain", "mergeTask", "mergeGated", "mergePushed"}

Commands == [pc : CertPcs \cup MergePcs \cup {"idle"}, control : Controls \cup {None}, main : Nat \cup {None},
             task : Nat \cup {None}, cand : Candidates \cup {None}, id : Identities \cup {None}]

\* Why a roadmap audit does not pass the gate.
RoadmapReasons ==
  {"ROADMAP_AUDIT_MISSING", "ROADMAP_AUDIT_NOT_PASS", "ROADMAP_IDENTITY_MISMATCH", "ROADMAP_MILESTONE_MISMATCH",
   "ROADMAP_CAPABILITY_MISMATCH", "ROADMAP_BINDING_FINGERPRINT_MISMATCH", "ROADMAP_CURRENT_DRIFT"}

\* None is a value of its own, as Python's is.
NoneIsApart == None \notin RoadmapReasons \cup Terminals \cup BOOLEAN \cup Worktrees \cup Jobs \cup Reviews

-----------------------------------------------------------------------------
(* The inductive invariant of the first part.                              *)

Shape ==
  /\ remote \in [main : Nat, task : Nat, control : Controls]
  /\ track \in [main : Nat, task : Nat, control : Controls]
  /\ local \in Worktrees
  /\ job \in Jobs \cup {None}
  /\ term \in [Terminals -> Commands]
  /\ t2s \in Seq(T2Runs)
  /\ merges \subseteq MergeRuns

\* A command has read what its place needs.
RoleFits(t, m) ==
  /\ m.pc \in CertPcs => t \in Certifiers
  /\ m.pc \in MergePcs => /\ t \in Mergers /\ m.control \in Controls
                          /\ m.control.review \in Reviews /\ m.control.review.head \in Commits
  /\ m.pc \in ReadPcs => m.control \in Controls
  /\ m.pc \in {"certMain", "certTask", "certTree"} => m.main \in Nat
  /\ m.pc \in {"certTask", "certTree"} => m.task \in Nat
  /\ m.pc \in CertPcs \ ReadPcs => m.cand \in Candidates
  /\ m.pc \in KnownPcs => m.id \in Identities /\ m.id.task <= local.head
  /\ m.pc \in MergePcs \ {"mergeFetched", "mergeMain"} => m.task \in Commits

Roles == \A t \in Terminals : RoleFits(t, term[t])

\* Commits are numbered as they are made, and ancestry is transitive.
History ==
  /\ \E n \in Nat : Commits = 1..n
  /\ \A c \in Commits : /\ c \in anc[c] /\ anc[c] \subseteq Commits
                        /\ \A d \in anc[c] : d <= c /\ anc[d] \subseteq anc[c]

Places ==
  /\ remote.main \in Commits /\ remote.task \in Commits /\ track.main \in Commits /\ track.task \in Commits
  /\ local.head \in Commits
  /\ remote.control.review # None => remote.control.review.head \in Commits
  /\ track.task <= local.head /\ remote.task <= local.head

\* A main that this clone has not seen is in nobody's history.
UnfetchedMain ==
  track.main # remote.main =>
    /\ remote.main # local.head /\ remote.main # track.task /\ remote.main # remote.task
    /\ \A c \in Commits : remote.main \in anc[c] => c = remote.main

\* The main that a merge read is still there, or a push of the reviewed head
\* will be refused; so will it be when this clone has not seen main.
MainIsKept(m) ==
  /\ m.pc = "mergeFetched" /\ track.main # remote.main => m.control.review.head # remote.main
  /\ m.pc \in {"mergeMain", "mergeTask", "mergeGated"} =>
       remote.main = m.main \/ remote.main \notin anc[m.control.review.head]

MainKept == \A t \in Terminals : MainIsKept(term[t])

\* The worktree went from one to the other: a head does not come back, and
\* an edit is undone by no commit of the same head.
Reached(from, to) ==
  /\ from.head <= to.head
  /\ from.head = to.head /\ to.clean = TRUE => from.clean = TRUE

\* A T2 run that has not ended belongs to the certification that waits for
\* it; one that passed has ended.
IsOpen(run) == run.end = None /\ run.by # None

OneOpen == \A i, j \in DOMAIN t2s : IsOpen(t2s[i]) /\ IsOpen(t2s[j]) /\ t2s[i].by = t2s[j].by => i = j

OpenT2 ==
  \A i \in DOMAIN t2s :
    /\ t2s[i].end = None /\ t2s[i].by # None =>
         /\ term[t2s[i].by].pc = "certTesting" /\ t2s[i].cand = term[t2s[i].by].cand
         /\ term[t2s[i].by].id.task <= t2s[i].on.head /\ Reached(t2s[i].on, local)
    /\ t2s[i].ok = TRUE => t2s[i].end # None

Waiting ==
  \A t \in Terminals : term[t].pc = "certTesting" => \E i \in DOMAIN t2s : t2s[i].by = t /\ t2s[i].end = None

Passed ==
  \A t \in Terminals : term[t].pc = "certPassed" =>
    \E i \in DOMAIN t2s :
      /\ t2s[i].cand = term[t].cand /\ t2s[i].ok = TRUE /\ t2s[i].end # None
      /\ term[t].id.task <= t2s[i].on.head
      /\ Reached(t2s[i].on, t2s[i].end) /\ Reached(t2s[i].end, local)

\* T2 passed for the candidate on a clean worktree that stayed as it was.
Tested(cand) ==
  \E i \in DOMAIN t2s : /\ t2s[i].cand = cand /\ t2s[i].ok = TRUE
                        /\ t2s[i].on.clean = TRUE /\ t2s[i].end = t2s[i].on

JobTested == job # None /\ job.status = "PASS" => Tested(job.cand)

\* What the merge gate established.
Eligible(c, main, head) ==
  /\ c.review.head = head /\ c.review.base = main /\ c.review.approved /\ c.review.auto
  /\ c.text.bind # None => c.review.blob = c.blob /\ c.review.audit = AuditOf("PASS", c.text.bind)
  /\ IsReviewFirst(c) => Tested(CandidateContract(c, head, main))

Gated == \A t \in Terminals : term[t].pc = "mergeGated" => Eligible(term[t].control, term[t].main, term[t].task)

Merged ==
  \A m \in merges : /\ Eligible(m.under, m.onto, m.head)
                    /\ m.receipt = TRUE => m.head \in anc[remote.main]

Safe ==
  /\ Shape /\ Roles /\ History /\ Places /\ UnfetchedMain /\ MainKept
  /\ OneOpen /\ OpenT2 /\ Waiting /\ Passed /\ JobTested /\ Gated /\ Merged

-----------------------------------------------------------------------------
(* The inductive invariant of the second part.                             *)

\* The TASK text of candidate x is that of candidate y, or an older one.
TextBefore(xblob, xroadmap, yblob, yroadmap) == xblob < yblob \/ (xblob = yblob /\ xroadmap = yroadmap)

Before(x, y) == x.head <= y.head /\ x.base <= y.base /\ TextBefore(x.blob, x.roadmap, y.blob, y.roadmap)

\* The refs and the control branch are not behind the candidate.
Seen(cand) ==
  /\ cand.head <= track.task /\ cand.base <= track.main
  /\ TextBefore(cand.blob, cand.roadmap, remote.control.blob, remote.control.text.bind.roadmap)

RefsFollow == track.main <= remote.main /\ track.task <= remote.task

JobLast ==
  /\ job = None => DOMAIN t2s = {}
  /\ job # None => Seen(job.cand) /\ \A i \in DOMAIN t2s : Before(t2s[i].cand, job.cand)

\* What is known while a terminal is in command m.
InOrder(m) ==
  /\ m.pc \in ReadPcs =>
        /\ TextBefore(m.control.blob, m.control.text.bind.roadmap, remote.control.blob, remote.control.text.bind.roadmap)
        /\ job # None => TextBefore(job.cand.blob, job.cand.roadmap, m.control.blob, m.control.text.bind.roadmap)
  /\ m.pc \in {"certMain", "certTask", "certTree"} =>
        m.main <= track.main /\ (job # None => job.cand.base <= m.main)
  /\ m.pc \in {"certTask", "certTree"} => m.task <= track.task /\ (job # None => job.cand.head <= m.task)
  /\ m.pc \in CertPcs \ ReadPcs => Seen(m.cand) /\ (job # None => Before(job.cand, m.cand))
  /\ m.pc \in {"certDecided", "certPending"} => \A i \in DOMAIN t2s : t2s[i].cand # m.cand

CertifierAhead == \A s \in Terminals : InOrder(term[s])

Ordered == RefsFollow /\ JobLast /\ CertifierAhead /\ OneT2PerCandidate

-----------------------------------------------------------------------------
(* Lemmas about the operators.                                             *)

(* The worktree's way through two moves.                                   *)
LEMMA WorktreesReach ==
  ASSUME NEW a \in Worktrees, NEW b \in Worktrees, NEW c \in Worktrees, Reached(a, b), Reached(b, c)
  PROVE  Reached(a, c)
  BY DEF Worktrees, Reached

(* The number of a new commit was never used.                              *)
LEMMA NewCommitIsFresh ==
  ASSUME History
  PROVE  /\ NewCommit \in Nat \ {0} /\ Commits \cup {NewCommit} = 1..NewCommit
         /\ \A c \in Commits : c \in Nat /\ c < NewCommit
<1>1. PICK n \in Nat : Commits = 1..n
  BY DEF History
<1>2. Cardinality(1..n) = n
  BY <1>1, FS_Interval
<1> QED
  BY <1>1, <1>2 DEF NewCommit

(* A commit on parents whose ancestors it inherits keeps the history.      *)
LEMMA CommitGrowsHistory ==
  ASSUME History, NEW S, S \subseteq Commits, \A d \in S : anc[d] \subseteq S,
         anc' = AncWith(S)
  PROVE  /\ Commits' = Commits \cup {NewCommit} /\ NewCommit \notin Commits
         /\ \A c \in Commits : anc'[c] = anc[c]
         /\ anc'[NewCommit] = {NewCommit} \cup S
         /\ History'
<1>1. /\ NewCommit \in Nat \ {0} /\ Commits \cup {NewCommit} = 1..NewCommit
      /\ \A c \in Commits : c \in Nat /\ c < NewCommit
  BY NewCommitIsFresh
<1> DEFINE n == NewCommit
<1>2. anc' = [x \in Commits \cup {n} |-> IF x \in Commits THEN anc[x] ELSE {n} \cup S]
  BY DEF AncWith
<1> HIDE DEF n
<1>3. Commits' = Commits \cup {n}
  BY <1>2 DEF Commits
<1>4. n \notin Commits /\ \A c \in Commits : anc'[c] = anc[c]
  BY <1>1, <1>2 DEF n
<1>5. anc'[n] = {n} \cup S
  BY <1>2, <1>4
<1>6. History'
  <2>1. n \in Nat /\ Commits' = 1..n
    BY <1>1, <1>3 DEF n
  <2>2. ASSUME NEW c \in Commits
        PROVE  /\ c \in anc'[c] /\ anc'[c] \subseteq Commits'
               /\ \A d \in anc'[c] : d <= c /\ anc'[d] \subseteq anc'[c]
    BY <1>3, <1>4 DEF History
  <2>3. /\ n \in anc'[n] /\ anc'[n] \subseteq Commits'
        /\ \A d \in anc'[n] : d <= n /\ anc'[d] \subseteq anc'[n]
    BY <1>1, <1>3, <1>4, <1>5 DEF n
  <2>4. \A c \in Commits' : /\ c \in anc'[c] /\ anc'[c] \subseteq Commits'
                            /\ \A d \in anc'[c] : d <= c /\ anc'[d] \subseteq anc'[c]
    BY <1>3, <2>2, <2>3
  <2>5. \E k \in Nat : Commits' = 1..k
    BY <2>1
  <2> QED
    BY <2>4, <2>5 DEF History
<1> QED
  BY <1>3, <1>4, <1>5, <1>6 DEF n

(* The gate lets through what an approving review of these refs and of     *)
(* this roadmap names.                                                     *)
LEMMA GatePasses ==
  ASSUME None \notin RoadmapReasons, NEW g, EvaluateMergeGate(g) = "PASS_ELIGIBLE"
  PROVE  /\ g.status = "PASS" /\ g.approved /\ g.auto /\ g.head = g.reviewed /\ g.main = g.base
         /\ g.governed => /\ g.audit # None /\ g.audit.verdict = "PASS"
                          /\ g.audit.roadmap = g.binding.roadmap /\ g.audit.milestone = g.binding.milestone
                          /\ g.audit.capability = g.binding.capability
                          /\ g.audit.requirements = g.binding.requirements
<1> DEFINE reason == RoadmapReason(g.audit, g.binding, g.current)
           sound == /\ g.audit # None /\ g.audit.verdict = "PASS"
                    /\ g.audit.roadmap = g.binding.roadmap /\ g.audit.milestone = g.binding.milestone
                    /\ g.audit.capability = g.binding.capability
                    /\ g.audit.requirements = g.binding.requirements
<1>1. g.status = "PASS" /\ g.approved /\ g.auto
  BY DEF EvaluateMergeGate
<1>2. reason \in RoadmapReasons \/ (reason = None /\ sound)
  BY DEF RoadmapReason, RoadmapReasons
<1>3. (reason = "PASS_ELIGIBLE" => reason = None) /\ (reason = None => sound)
  <2> HIDE DEF reason, sound
  <2> QED
    BY <1>2 DEF RoadmapReasons
<1>4. /\ g.governed => reason = None
      /\ g.head = g.reviewed /\ g.main = g.base
  <2>1. PICK roadmap : roadmap = IF g.governed THEN reason ELSE None
    OBVIOUS
  <2>2. EvaluateMergeGate(g) = IF g.status # "PASS" THEN "REVIEW_NOT_PASS"
          ELSE IF ~g.approved THEN "REVIEW_NOT_APPROVED"
          ELSE IF ~g.auto THEN "AUTO_MERGE_DISABLED"
          ELSE IF roadmap # None THEN roadmap
          ELSE IF g.head # g.reviewed THEN "TASK_HEAD_DRIFT"
          ELSE IF g.main # g.base THEN "MAIN_DRIFT"
          ELSE IF g.behind > 0 THEN "BRANCH_BEHIND_MAIN"
          ELSE IF g.mergeBase # g.main THEN "NOT_FAST_FORWARD"
          ELSE IF g.ahead < 1 THEN "NO_TASK_DELTA"
          ELSE "PASS_ELIGIBLE"
    BY <2>1 DEF EvaluateMergeGate
  <2> HIDE DEF reason, sound
  <2>3. roadmap = "PASS_ELIGIBLE" => roadmap = None
    BY <1>3, <2>1
  <2> QED
    BY <1>1, <2>1, <2>2, <2>3
<1> QED
  BY <1>1, <1>3, <1>4

\* The job that is saved before T2 starts.
Running(cand) == TransitionJob(PendingJob(cand), "RUNNING", None)

(* The steps of a certification job are never refused.                     *)
LEMMA JobSteps ==
  ASSUME NoneIsApart, NEW cand \in Candidates
  PROVE  /\ PendingJob(cand) = [cand |-> cand, status |-> "PENDING", succeeded |-> None]
         /\ Running(cand) = [cand |-> cand, status |-> "RUNNING", succeeded |-> None]
         /\ \A passed \in BOOLEAN : TransitionJob(Running(cand), "FAILED", passed)
                                      = [cand |-> cand, status |-> "FAILED", succeeded |-> passed]
         /\ TransitionJob(Running(cand), "PASS", TRUE) = [cand |-> cand, status |-> "PASS", succeeded |-> TRUE]
         /\ \A s \in {"PENDING", "RUNNING", "PASS", "FAILED"}, v \in BOOLEAN \cup {None} :
              [cand |-> cand, status |-> s, succeeded |-> v] \in Jobs
<1> DEFINE pending == [cand |-> cand, status |-> "PENDING", succeeded |-> None]
           running == [cand |-> cand, status |-> "RUNNING", succeeded |-> None]
<1>1. None # TRUE /\ None # FALSE
  BY DEF NoneIsApart
<1>2. PendingJob(cand) = pending
  BY DEF PendingJob
<1>3. JobTransitions["PENDING"] = {"RUNNING", "SUPERSEDED"} /\ JobTransitions["RUNNING"] = {"PASS", "FAILED", "SUPERSEDED"}
  BY DEF JobTransitions
<1>4. TransitionJob(pending, "RUNNING", None) = running
  BY <1>3 DEF TransitionJob, CertificationJobOK
<1>5. ASSUME NEW passed \in BOOLEAN
      PROVE  TransitionJob(running, "FAILED", passed) = [cand |-> cand, status |-> "FAILED", succeeded |-> passed]
  BY <1>1, <1>3 DEF TransitionJob, CertificationJobOK
<1>6. TransitionJob(running, "PASS", TRUE) = [cand |-> cand, status |-> "PASS", succeeded |-> TRUE]
  BY <1>1, <1>3 DEF TransitionJob, CertificationJobOK
<1>7. \A s \in {"PENDING", "RUNNING", "PASS", "FAILED"}, v \in BOOLEAN \cup {None} :
        [cand |-> cand, status |-> s, succeeded |-> v] \in Jobs
  BY DEF Jobs
<1>8. Running(cand) = running
  BY <1>2, <1>4 DEF Running
<1> QED
  BY <1>2, <1>5, <1>6, <1>7, <1>8

-----------------------------------------------------------------------------
(* Steps of the environment.                                               *)

(* Whoever commits, pushes, reviews or revises leaves the commands, the job *)
(* and the history of runs alone; a head does not come back.                *)
LEMMA EnvironmentStep ==
  ASSUME Safe, UNCHANGED <<job, term, t2s, merges>>,
         Shape', History', Places', UnfetchedMain', MainKept',
         Commits \subseteq Commits', Reached(local, local'),
         anc[remote.main] \subseteq anc'[remote'.main]
  PROVE  Safe'
<1>1. local \in Worktrees /\ local' \in Worktrees
  BY DEF Safe, Shape
<1>2. \A i \in DOMAIN t2s : t2s[i] \in T2Runs
  BY DEF Safe, Shape
<1>3. Roles'
  <2>1. \A t \in Terminals : term[t].pc \in KnownPcs => term[t].id \in Identities /\ term[t].id.task <= local'.head
    BY <1>1 DEF Safe, Roles, RoleFits, Reached, Identities, Worktrees
  <2> QED
    BY <2>1 DEF Safe, Roles, RoleFits
<1>4. OpenT2'
  <2> SUFFICES ASSUME NEW i \in DOMAIN t2s, t2s[i].end = None, t2s[i].by # None
               PROVE  Reached(t2s[i].on, local')
    BY DEF Safe, OpenT2
  <2>1. Reached(t2s[i].on, local) /\ t2s[i].on \in Worktrees
    BY <1>2 DEF Safe, OpenT2, T2Runs
  <2> QED
    BY <1>1, <2>1, WorktreesReach
<1>5. Passed'
  <2> SUFFICES ASSUME NEW t \in Terminals, term[t].pc = "certPassed" PROVE Passed!(t)'
    BY DEF Passed
  <2>1. PICK i \in DOMAIN t2s :
          /\ t2s[i].cand = term[t].cand /\ t2s[i].ok = TRUE /\ t2s[i].end # None
          /\ term[t].id.task <= t2s[i].on.head
          /\ Reached(t2s[i].on, t2s[i].end) /\ Reached(t2s[i].end, local)
    BY DEF Safe, Passed
  <2>2. t2s[i].end \in Worktrees
    BY <1>2, <2>1 DEF T2Runs
  <2>3. Reached(t2s[i].end, local')
    BY <1>1, <2>1, <2>2, WorktreesReach
  <2> QED
    BY <2>1, <2>3
<1>6. OneOpen' /\ Waiting' /\ JobTested' /\ Gated'
  BY DEF Safe, OneOpen, Waiting, JobTested, Gated, Tested, Eligible
<1>7. Merged'
  BY DEF Safe, Merged, Tested, Eligible
<1> QED
  BY <1>3, <1>4, <1>5, <1>6, <1>7 DEF Safe

(* An edit changes only the worktree.                                      *)
LEMMA WorkerEditsKeeps ==
  ASSUME Safe, WorkerEdits
  PROVE  Safe'
<1>1. local.clean = TRUE /\ local' = [local EXCEPT !.clean = FALSE] /\ UNCHANGED <<remote, track, anc, job, term, t2s, merges>>
  BY DEF WorkerEdits, Safe, Shape, Worktrees
<1>2. local' \in Worktrees /\ local'.head = local.head /\ Reached(local, local')
  <2>1. local \in Worktrees
    BY DEF Safe, Shape
  <2>2. local' \in Worktrees /\ local'.head = local.head /\ local'.clean = FALSE /\ local.head \in Nat
    BY <1>1, <2>1 DEF Worktrees
  <2> QED
    BY <2>2 DEF Reached
<1>3. Shape'
  BY <1>1, <1>2 DEF Safe, Shape
<1>4. History' /\ Places' /\ UnfetchedMain' /\ MainKept' /\ Commits' = Commits
  BY <1>1, <1>2 DEF Safe, History, Places, UnfetchedMain, MainKept, MainIsKept, Commits
<1> QED
  BY <1>1, <1>2, <1>3, <1>4, EnvironmentStep

(* A commit adds one commit on top of what the worker had.                 *)
LEMMA WorkerCommitsKeeps ==
  ASSUME Safe, NEW withMain \in BOOLEAN, WorkerCommits(withMain)
  PROVE  Safe'
<1> DEFINE S == anc[local.head] \cup (IF withMain THEN anc[track.main] ELSE {})
<1>1. /\ anc' = AncWith(S) /\ local' = [head |-> NewCommit, clean |-> TRUE]
      /\ UNCHANGED <<remote, track, job, term, t2s, merges>>
  BY DEF WorkerCommits
<1>2. History /\ local.head \in Commits /\ track.main \in Commits
  BY DEF Safe, Places
<1>3. S \subseteq Commits /\ \A d \in S : anc[d] \subseteq S
  BY <1>2 DEF History
<1>4. remote.main # track.main => remote.main \notin S
  BY <1>2 DEF Safe, UnfetchedMain
<1> HIDE DEF S
<1>5. /\ Commits' = Commits \cup {NewCommit} /\ NewCommit \notin Commits
      /\ \A c \in Commits : anc'[c] = anc[c]
      /\ anc'[NewCommit] = {NewCommit} \cup S
      /\ History'
  BY <1>1, <1>2, <1>3, CommitGrowsHistory
<1>6. NewCommit \in Nat /\ \A c \in Commits : c \in Nat /\ c < NewCommit
  BY <1>2, NewCommitIsFresh
<1>7. local' \in Worktrees /\ local'.head = NewCommit /\ Reached(local, local')
  BY <1>1, <1>2, <1>6 DEF Worktrees, Reached
<1>8. Shape'
  BY <1>1, <1>7 DEF Safe, Shape
<1>9. Places'
  BY <1>1, <1>5, <1>6, <1>7 DEF Safe, Places
<1>10. UnfetchedMain'
  BY <1>1, <1>4, <1>5, <1>7 DEF Safe, UnfetchedMain, Places
<1>11. MainKept'
  BY <1>1, <1>5 DEF Safe, MainKept, MainIsKept, Roles, RoleFits, MergePcs
<1>12. anc'[remote'.main] = anc[remote.main]
  BY <1>1, <1>5 DEF Safe, Places
<1> QED
  BY <1>1, <1>5, <1>7, <1>8, <1>9, <1>10, <1>11, <1>12, EnvironmentStep

(* A push moves the task ref to a commit that exists.                      *)
LEMMA WorkerPushesKeeps ==
  ASSUME Safe, WorkerPushes
  PROVE  Safe'
<1>1. /\ remote' = [remote EXCEPT !.task = local.head] /\ track' = [track EXCEPT !.task = local.head]
      /\ UNCHANGED <<anc, local, job, term, t2s, merges>>
  BY DEF WorkerPushes
<1>2. local \in Worktrees /\ local.head \in Nat
  BY DEF Safe, Shape, Worktrees
<1>3. /\ remote'.main = remote.main /\ remote'.task = local.head /\ remote'.control = remote.control
      /\ track'.main = track.main /\ track'.task = local.head
  BY <1>1 DEF Safe, Shape
<1>4. Shape'
  BY <1>1, <1>2 DEF Safe, Shape
<1>5. History' /\ Commits' = Commits /\ MainKept'
  BY <1>1, <1>3 DEF Safe, History, Commits, MainKept, MainIsKept
<1>6. Places' /\ UnfetchedMain'
  BY <1>1, <1>2, <1>3, <1>5 DEF Safe, Places, UnfetchedMain
<1>7. Reached(local, local') /\ anc'[remote'.main] = anc[remote.main]
  BY <1>1, <1>2, <1>3 DEF Reached
<1> QED
  BY <1>1, <1>4, <1>5, <1>6, <1>7, EnvironmentStep

(* Another task's merge moves main forward.                                *)
LEMMA OtherTaskLandsKeeps ==
  ASSUME Safe, OtherTaskLands
  PROVE  Safe'
<1> DEFINE S == anc[remote.main]
<1>1. /\ anc' = AncWith(S) /\ remote' = [remote EXCEPT !.main = NewCommit]
      /\ UNCHANGED <<track, local, job, term, t2s, merges>>
  BY DEF OtherTaskLands
<1>2. History /\ remote.main \in Commits
  BY DEF Safe, Places
<1>3. S \subseteq Commits /\ \A d \in S : anc[d] \subseteq S
  BY <1>2 DEF History
<1>4. /\ Commits' = Commits \cup {NewCommit} /\ NewCommit \notin Commits
      /\ \A c \in Commits : anc'[c] = anc[c]
      /\ anc'[NewCommit] = {NewCommit} \cup S
      /\ History'
  BY <1>1, <1>2, <1>3, CommitGrowsHistory
<1>5. NewCommit \in Nat /\ \A c \in Commits : c \in Nat /\ c < NewCommit
  BY <1>2, NewCommitIsFresh
<1>6. remote'.main = NewCommit /\ remote'.task = remote.task /\ remote'.control = remote.control
  BY <1>1 DEF Safe, Shape
<1>7. Shape'
  BY <1>1, <1>5 DEF Safe, Shape
<1> HIDE DEF S
<1>8. Places'
  BY <1>1, <1>4, <1>6 DEF Safe, Places
<1>9. \A c \in Commits : NewCommit \notin anc'[c]
  BY <1>2, <1>4 DEF History
<1>10. UnfetchedMain'
  BY <1>1, <1>4, <1>6, <1>9 DEF Safe, UnfetchedMain, Places
<1>11. MainKept'
  <2> SUFFICES ASSUME NEW t \in Terminals, term[t].pc \in MergePcs PROVE MainIsKept(term[t])'
    BY <1>1 DEF MainKept, MainIsKept, MergePcs
  <2>1. term[t].control.review.head \in Commits
    BY DEF Safe, Roles, RoleFits
  <2> QED
    BY <1>1, <1>4, <1>6, <1>9, <2>1 DEF MainIsKept
<1>12. Reached(local, local') /\ anc[remote.main] \subseteq anc'[remote'.main]
  BY <1>1, <1>4, <1>6 DEF Reached, Safe, Shape, Worktrees, S
<1> QED
  BY <1>1, <1>4, <1>7, <1>8, <1>10, <1>11, <1>12, EnvironmentStep

(* A commit of the control branch.                                         *)
LEMMA SetControlKeeps ==
  ASSUME Safe, NEW c \in Controls, SetControl(c), c.review # None => c.review.head \in Commits
  PROVE  Safe'
<1>1. remote' = [remote EXCEPT !.control = c] /\ UNCHANGED <<track, anc, local, job, term, t2s, merges>>
  BY DEF SetControl
<1>2. remote'.main = remote.main /\ remote'.task = remote.task /\ remote'.control = c
  BY <1>1 DEF Safe, Shape
<1>3. Shape'
  BY <1>1 DEF Safe, Shape
<1>4. History' /\ Places' /\ UnfetchedMain' /\ MainKept' /\ Commits' = Commits
  BY <1>1, <1>2 DEF Safe, History, Places, UnfetchedMain, MainKept, MainIsKept, Commits
<1>5. Reached(local, local') /\ anc'[remote'.main] = anc[remote.main]
  BY <1>1, <1>2 DEF Reached, Safe, Shape, Worktrees
<1> QED
  BY <1>1, <1>3, <1>4, <1>5, EnvironmentStep

(* What the reviewer and the author write is a control revision.           *)
LEMMA ControlRevisions ==
  ASSUME NEW c \in Controls
  PROVE  /\ \A r \in Reviews : [c EXCEPT !.rev = @ + 1, !.review = r] \in Controls
         /\ \A text \in Texts : [c EXCEPT !.rev = @ + 1, !.blob = @ + 1, !.text = text] \in Controls
         /\ [c EXCEPT !.rev = @ + 1, !.roadmap = @ + 1] \in Controls
<1> DEFINE rev == c.rev + 1  blob == c.blob + 1  roadmap == c.roadmap + 1
<1>1. rev \in Nat /\ blob \in Nat /\ roadmap \in Nat
  BY DEF Controls
<1> SUFFICES /\ \A r \in Reviews : [c EXCEPT !.rev = rev, !.review = r] \in Controls
             /\ \A text \in Texts : [c EXCEPT !.rev = rev, !.blob = blob, !.text = text] \in Controls
             /\ [c EXCEPT !.rev = rev, !.roadmap = roadmap] \in Controls
  OBVIOUS
<1> HIDE DEF rev, blob, roadmap
<1>2. \A r \in Reviews : [c EXCEPT !.rev = rev, !.review = r] \in Controls
  BY <1>1 DEF Controls
<1>3. \A text \in Texts : [c EXCEPT !.rev = rev, !.blob = blob, !.text = text] \in Controls
  BY <1>1 DEF Controls
<1>4. [c EXCEPT !.rev = rev, !.roadmap = roadmap] \in Controls
  BY <1>1 DEF Controls
<1> QED
  BY <1>2, <1>3, <1>4

(* What the reviewer writes names a commit.                                *)
LEMMA ReviewIsWritten ==
  ASSUME History, remote.control \in Controls,
         NEW v \in Verdicts, NEW head \in Commits, NEW base \in Commits, ReviewerWrites(v, head, base)
  PROVE  \E r \in Reviews : /\ r.head = head /\ [remote.control EXCEPT !.rev = @ + 1, !.review = r] \in Controls
                            /\ SetControl([remote.control EXCEPT !.rev = @ + 1, !.review = r])
<1> DEFINE audit == AuditOf(v.audit, remote.control.text.bind)
           r == [status |-> v.status, approved |-> v.approved, auto |-> v.auto, head |-> head,
                 base |-> base, blob |-> remote.control.blob, audit |-> audit]
<1>1. head \in Nat /\ base \in Nat
  BY NewCommitIsFresh
<1>2. audit \in {AuditOf(w.audit, bind) : w \in Verdicts, bind \in Binds}
  BY DEF Controls, Binds
<1>3. SetControl([remote.control EXCEPT !.rev = @ + 1, !.review = r])
  BY DEF ReviewerWrites
<1> HIDE DEF audit
<1>4. r \in Reviews /\ r.head = head
  BY <1>1, <1>2 DEF Controls, Reviews
<1> QED
  BY <1>3, <1>4, ControlRevisions

(* The worker, the author, the reviewer and other tasks keep the invariant.*)
LEMMA EnvironmentKeeps ==
  ASSUME Safe, Environment
  PROVE  Safe'
<1>1. remote.control \in Controls /\ (remote.control.review # None => remote.control.review.head \in Commits)
  BY DEF Safe, Shape, Places
<1>0. anc[remote.task] \subseteq Commits /\ anc[remote.main] \subseteq Commits
  BY DEF Safe, Places, History
<1>2. ASSUME NEW v \in Verdicts, NEW head \in anc[remote.task], NEW base \in anc[remote.main],
             ReviewerWrites(v, head, base)
      PROVE  Safe'
  <2>1. PICK r \in Reviews : /\ r.head = head /\ [remote.control EXCEPT !.rev = @ + 1, !.review = r] \in Controls
                             /\ SetControl([remote.control EXCEPT !.rev = @ + 1, !.review = r])
    BY <1>0, <1>1, <1>2, ReviewIsWritten DEF Safe
  <2>2. [remote.control EXCEPT !.rev = @ + 1, !.review = r].review = r
    BY <1>1 DEF Controls
  <2> QED
    BY <1>0, <2>1, <2>2, SetControlKeeps
<1>3. ASSUME NEW text \in Texts, AuthorRevises(text) PROVE Safe'
  <2> DEFINE c == [remote.control EXCEPT !.rev = @ + 1, !.blob = @ + 1, !.text = text]
  <2>1. SetControl(c) /\ c \in Controls /\ c.review = remote.control.review
    BY <1>1, <1>3, ControlRevisions DEF AuthorRevises, Controls
  <2> HIDE DEF c
  <2> QED
    BY <1>1, <2>1, SetControlKeeps
<1>4. CASE RoadmapRevised
  <2> DEFINE c == [remote.control EXCEPT !.rev = @ + 1, !.roadmap = @ + 1]
  <2>1. SetControl(c) /\ c \in Controls /\ c.review = remote.control.review
    BY <1>1, <1>4, ControlRevisions DEF RoadmapRevised, Controls
  <2> HIDE DEF c
  <2> QED
    BY <1>1, <2>1, SetControlKeeps
<1> QED
  BY <1>2, <1>3, <1>4, WorkerEditsKeeps, WorkerPushesKeeps, OtherTaskLandsKeeps, WorkerCommitsKeeps DEF Environment

-----------------------------------------------------------------------------
(* Steps of the commands.                                                  *)

LEMMA IdleCommand == Idle \in Commands /\ Idle.pc = "idle" /\ \A t \in Terminals : RoleFits(t, Idle)
<1>1. Idle \in Commands
  BY DEF Idle, Commands
<1>2. Idle.pc = "idle"
  BY DEF Idle
<1>3. \A t \in Terminals : RoleFits(t, Idle)
  BY <1>2 DEF RoleFits, CertPcs, ReadPcs, MergePcs, KnownPcs
<1> QED
  BY <1>1, <1>2, <1>3

(* A command reads, fetches or writes the job: no run starts or ends and    *)
(* nothing reaches main.                                                    *)
LEMMA CommandMoves ==
  ASSUME Safe, NEW t \in Terminals, NEW m \in Commands, term' = [term EXCEPT ![t] = m],
         term[t].pc # "certTesting", m.pc \notin {"certTesting", "certPassed"}, RoleFits(t, m),
         UNCHANGED <<remote, anc, local, t2s, merges>>,
         track' \in [main : Nat, task : Nat, control : Controls],
         track'.main \in {track.main, remote.main}, track'.task \in {track.task, remote.task},
         job' \in Jobs \cup {None}, JobTested',
         m.pc = "mergeFetched" => track'.main = remote.main,
         m.pc \in {"mergeMain", "mergeTask", "mergeGated"} =>
           remote.main = m.main \/ remote.main \notin anc[m.control.review.head],
         m.pc = "mergeGated" => Eligible(m.control, m.main, m.task)
  PROVE  Safe'
<1>1. \A s \in Terminals : term'[s] = IF s = t THEN m ELSE term[s]
  BY DEF Safe, Shape
<1>2. Shape'
  BY DEF Safe, Shape
<1>3. History' /\ Commits' = Commits
  BY DEF Safe, History, Commits
<1>4. Roles'
  <2> SUFFICES ASSUME NEW s \in Terminals PROVE RoleFits(s, term[s])'
    BY DEF Roles
  <2>1. RoleFits(s, term'[s])
    BY <1>1 DEF Safe, Roles
  <2> QED
    BY <1>3, <2>1 DEF RoleFits
<1>5. Places'
  BY <1>3 DEF Safe, Places
<1>6. UnfetchedMain'
  BY <1>3 DEF Safe, UnfetchedMain
<1>7. MainKept'
  BY <1>1 DEF Safe, MainKept, MainIsKept
<1>8. OpenT2'
  <2> SUFFICES ASSUME NEW i \in DOMAIN t2s PROVE OpenT2!(i)'
    BY DEF OpenT2
  <2>1. OpenT2!(i)
    BY DEF Safe, OpenT2
  <2>2. t2s[i].end = None /\ t2s[i].by # None => t2s[i].by \in Terminals /\ t2s[i].by # t
    <3>1. t2s[i] \in T2Runs
      BY DEF Safe, Shape
    <3> QED
      BY <2>1, <3>1 DEF T2Runs
  <2> QED
    BY <1>1, <2>1, <2>2
<1>9. OneOpen' /\ Waiting'
  BY <1>1 DEF Safe, OneOpen, Waiting
<1>10. Passed'
  BY <1>1 DEF Safe, Passed
<1>11. Gated'
  <2> SUFFICES ASSUME NEW s \in Terminals, term'[s].pc = "mergeGated"
               PROVE  Eligible(term[s].control, term[s].main, term[s].task)'
    BY DEF Gated
  <2>1. Eligible(term'[s].control, term'[s].main, term'[s].task)
    BY <1>1 DEF Safe, Gated
  <2> QED
    BY <2>1 DEF Eligible, Tested
<1>12. Merged'
  BY DEF Safe, Merged, Eligible, Tested
<1> QED
  BY <1>2, <1>3, <1>4, <1>5, <1>6, <1>7, <1>8, <1>9, <1>10, <1>11, <1>12 DEF Safe

(* A command that reads either goes on to another place or is over.        *)
LEMMA ReadingKeeps ==
  ASSUME Safe, NEW t \in Terminals, NEW ok, NEW next, Reads(t, ok, next), term[t].pc # "certTesting",
         ok => /\ next \in Commands /\ RoleFits(t, next) /\ next.pc \in CertPcs \cup {"mergeMain", "mergeTask", "mergeGated"}
               /\ next.pc \notin {"certTesting", "certPassed"}
               /\ next.pc \in {"mergeMain", "mergeTask", "mergeGated"} =>
                    remote.main = next.main \/ remote.main \notin anc[next.control.review.head]
               /\ next.pc = "mergeGated" => Eligible(next.control, next.main, next.task)
  PROVE  Safe'
<1>1. PICK m : m = IF ok THEN next ELSE Idle
  OBVIOUS
<1>2. term' = [term EXCEPT ![t] = m] /\ UNCHANGED <<remote, track, anc, local, job, t2s, merges>>
  BY <1>1 DEF Reads
<1>3. JobTested' /\ job' \in Jobs \cup {None} /\ track' \in [main : Nat, task : Nat, control : Controls]
  BY <1>2 DEF Safe, Shape, JobTested, Tested
<1>4. /\ m \in Commands /\ RoleFits(t, m) /\ m.pc \notin {"certTesting", "certPassed"} /\ m.pc # "mergeFetched"
      /\ m.pc \in {"mergeMain", "mergeTask", "mergeGated"} =>
           remote.main = m.main \/ remote.main \notin anc[m.control.review.head]
      /\ m.pc = "mergeGated" => Eligible(m.control, m.main, m.task)
  <2>1. CASE ok
    BY <1>1, <2>1 DEF CertPcs, ReadPcs
  <2>2. CASE ~ok
    BY <1>1, <2>2, IdleCommand
  <2> QED
    BY <2>1, <2>2
<1> QED
  BY <1>2, <1>3, <1>4, CommandMoves

(* A certifier's fetch only reads.                                         *)
LEMMA CertFetchKeeps ==
  ASSUME Safe, NEW t \in Certifiers, CertFetch(t)
  PROVE  Safe'
<1> DEFINE fetched == [term[t] EXCEPT !.pc = "certFetched", !.control = remote.control]
           m == IF Accepted(remote.control) THEN fetched ELSE Idle
<1>1. /\ term[t].pc = "idle" /\ track' = remote /\ term' = [term EXCEPT ![t] = m]
      /\ UNCHANGED <<remote, anc, local, job, t2s, merges>>
  BY DEF CertFetch
<1>2. t \in Terminals /\ term[t] \in Commands /\ remote.control \in Controls
  BY DEF Terminals, Safe, Shape
<1>3. fetched \in Commands /\ fetched.pc = "certFetched" /\ fetched.control = remote.control
  BY <1>2 DEF Commands, CertPcs, ReadPcs
<1>4. RoleFits(t, fetched)
  BY <1>2, <1>3 DEF RoleFits, CertPcs, ReadPcs, MergePcs, KnownPcs
<1> HIDE DEF fetched
<1>5. m \in Commands /\ m.pc \in {"idle", "certFetched"} /\ RoleFits(t, m)
  BY <1>2, <1>3, <1>4, IdleCommand
<1>6. JobTested' /\ job' \in Jobs \cup {None} /\ track' \in [main : Nat, task : Nat, control : Controls]
  BY <1>1 DEF Safe, Shape, JobTested, Tested
<1> HIDE DEF m
<1> QED
  BY <1>1, <1>2, <1>5, <1>6, CommandMoves

(* The refs and the worktree are read one after the other.                 *)
LEMMA CertReadsKeep ==
  ASSUME Safe, NEW t \in Certifiers, CertReadMain(t) \/ CertReadTask(t) \/ CertReadWorktree(t)
  PROVE  Safe'
<1>1. t \in Terminals /\ term[t] \in Commands /\ track.main \in Nat /\ track.task \in Nat /\ RoleFits(t, term[t])
  BY DEF Terminals, Safe, Shape, Roles
<1>2. CASE CertReadMain(t)
  <2> DEFINE m == [term[t] EXCEPT !.pc = "certMain", !.main = track.main]
             ok == track.main = term[t].control.review.base
  <2>1. term[t].pc = "certFetched" /\ Reads(t, ok, m)
    BY <1>2 DEF CertReadMain
  <2>2. m \in Commands /\ m.pc = "certMain" /\ m.control = term[t].control /\ m.main = track.main
    BY <1>1 DEF Commands, CertPcs, ReadPcs
  <2>3. RoleFits(t, m)
    BY <1>1, <2>1, <2>2 DEF RoleFits, CertPcs, ReadPcs, MergePcs, KnownPcs
  <2> HIDE DEF m, ok
  <2> QED
    BY <1>1, <2>1, <2>2, <2>3, ReadingKeeps DEF CertPcs, ReadPcs
<1>3. CASE CertReadTask(t)
  <2> DEFINE m == [term[t] EXCEPT !.pc = "certTask", !.task = track.task]
             ok == track.task = term[t].control.review.head
  <2>1. term[t].pc = "certMain" /\ Reads(t, ok, m)
    BY <1>3 DEF CertReadTask
  <2>2. m \in Commands /\ m.pc = "certTask" /\ m.control = term[t].control /\ m.main = term[t].main /\ m.task = track.task
    BY <1>1 DEF Commands, CertPcs, ReadPcs
  <2>3. RoleFits(t, m)
    BY <1>1, <2>1, <2>2 DEF RoleFits, CertPcs, ReadPcs, MergePcs, KnownPcs
  <2> HIDE DEF m, ok
  <2> QED
    BY <1>1, <2>1, <2>2, <2>3, ReadingKeeps DEF CertPcs, ReadPcs
<1>4. CASE CertReadWorktree(t)
  <2> DEFINE m == [term[t] EXCEPT !.pc = "certTree"]
             ok == local = [head |-> term[t].task, clean |-> TRUE]
  <2>1. term[t].pc = "certTask" /\ Reads(t, ok, m)
    BY <1>4 DEF CertReadWorktree
  <2>2. m \in Commands /\ m.pc = "certTree" /\ m.control = term[t].control /\ m.main = term[t].main /\ m.task = term[t].task
    BY <1>1 DEF Commands, CertPcs, ReadPcs
  <2>3. RoleFits(t, m)
    BY <1>1, <2>1, <2>2 DEF RoleFits, CertPcs, ReadPcs, MergePcs, KnownPcs
  <2> HIDE DEF m, ok
  <2> QED
    BY <1>1, <2>1, <2>2, <2>3, ReadingKeeps DEF CertPcs, ReadPcs
<1> QED
  BY <1>2, <1>3, <1>4

(* The candidate that the preflight names has its commits.                 *)
LEMMA CertGateKeeps ==
  ASSUME Safe, NEW t \in Certifiers, CertGate(t)
  PROVE  Safe'
<1> DEFINE c == term[t].control
           cand == CandidateContract(c, term[t].task, term[t].main)
           m == [Idle EXCEPT !.pc = "certChecked", !.cand = cand]
           ok == CertPreflightOK(term[t])
<1>1. term[t].pc = "certTree" /\ Reads(t, ok, m)
  BY DEF CertGate
<1>2. t \in Terminals
  BY DEF Terminals
<1>3. c \in Controls /\ term[t].task \in Nat /\ term[t].main \in Nat
  BY <1>1, <1>2 DEF Safe, Roles, RoleFits, ReadPcs
<1>4. cand \in Candidates
  BY <1>3 DEF CandidateContract, CandidateFingerprint, Candidates, Controls, Binds
<1> HIDE DEF cand
<1>5. m \in Commands /\ m.pc = "certChecked" /\ m.cand = cand
  BY <1>4 DEF Idle, Commands, CertPcs, ReadPcs
<1>6. RoleFits(t, m)
  BY <1>4, <1>5 DEF RoleFits, CertPcs, ReadPcs, MergePcs, KnownPcs
<1> HIDE DEF m, ok
<1> QED
  BY <1>1, <1>2, <1>5, <1>6, ReadingKeeps DEF CertPcs, ReadPcs

(* The identity captured before T2 has its commits.                        *)
LEMMA CertIdentityKeeps ==
  ASSUME Safe, NEW t \in Certifiers, CertIdentity(t)
  PROVE  Safe'
<1> DEFINE id == [main |-> track.main, task |-> track.task, blob |-> track.control.blob,
                  review |-> track.control.review, roadmap |-> track.control.roadmap,
                  bind |-> track.control.text.bind]
           m == [term[t] EXCEPT !.pc = "certIdentified", !.id = id]
<1>1. term[t].pc = "certChecked" /\ Reads(t, track.control.text.bind # None, m)
  BY DEF CertIdentity
<1>2. t \in Terminals /\ term[t] \in Commands
  BY DEF Terminals, Safe, Shape
<1>3. id \in Identities /\ id.task = track.task
  BY DEF Safe, Shape, Identities, Controls, Binds
<1>4. id.task <= local.head
  BY <1>3 DEF Safe, Places
<1> HIDE DEF id
<1>5. m \in Commands /\ m.pc = "certIdentified" /\ m.id = id /\ m.cand = term[t].cand
  BY <1>2, <1>3 DEF Commands, CertPcs, ReadPcs
<1>6. RoleFits(t, m)
  BY <1>1, <1>2, <1>3, <1>4, <1>5 DEF Safe, Roles, RoleFits, CertPcs, ReadPcs, MergePcs, KnownPcs
<1> HIDE DEF m
<1> QED
  BY <1>1, <1>2, <1>5, <1>6, ReadingKeeps DEF CertPcs, ReadPcs

(* A job that is loaded is not run again.                                  *)
LEMMA CertLoadKeeps ==
  ASSUME Safe, NEW t \in Certifiers, CertLoad(t)
  PROVE  Safe'
<1> DEFINE m == [term[t] EXCEPT !.pc = "certDecided"]
           ok == MayStartT2(job, term[t].cand)
<1>1. term[t].pc = "certIdentified" /\ Reads(t, ok, m)
  BY DEF CertLoad
<1>2. t \in Terminals /\ term[t] \in Commands
  BY DEF Terminals, Safe, Shape
<1>3. m \in Commands /\ m.pc = "certDecided" /\ m.id = term[t].id /\ m.cand = term[t].cand
  BY <1>2 DEF Commands, CertPcs, ReadPcs
<1>4. RoleFits(t, m)
  BY <1>1, <1>2, <1>3 DEF Safe, Roles, RoleFits, CertPcs, ReadPcs, MergePcs, KnownPcs
<1> HIDE DEF m, ok
<1> QED
  BY <1>1, <1>2, <1>3, <1>4, ReadingKeeps DEF CertPcs, ReadPcs

(* A new job starts untested.                                              *)
LEMMA CertSavePendingKeeps ==
  ASSUME NoneIsApart, Safe, NEW t \in Certifiers, CertSavePending(t)
  PROVE  Safe'
<1> DEFINE m == [term[t] EXCEPT !.pc = "certPending"]
<1>1. /\ term[t].pc = "certDecided" /\ term' = [term EXCEPT ![t] = m] /\ job' = PendingJob(term[t].cand)
      /\ UNCHANGED <<remote, track, anc, local, t2s, merges>>
  BY DEF CertSavePending
<1>2. t \in Terminals /\ term[t] \in Commands
  BY DEF Terminals, Safe, Shape
<1>3. m \in Commands /\ m.pc = "certPending" /\ m.id = term[t].id /\ m.cand = term[t].cand
  BY <1>2 DEF Commands, CertPcs, ReadPcs
<1>4. RoleFits(t, m) /\ term[t].cand \in Candidates
  BY <1>1, <1>2, <1>3 DEF Safe, Roles, RoleFits, CertPcs, ReadPcs, MergePcs, KnownPcs
<1>5. job' \in Jobs /\ job'.status = "PENDING"
  <2>1. PendingJob(term[t].cand) = [cand |-> term[t].cand, status |-> "PENDING", succeeded |-> None]
    BY DEF PendingJob
  <2> QED
    BY <1>1, <1>4, <2>1 DEF Jobs
<1>6. JobTested' /\ track' \in [main : Nat, task : Nat, control : Controls]
  BY <1>1, <1>5 DEF Safe, Shape, JobTested
<1> HIDE DEF m
<1> QED
  BY <1>1, <1>2, <1>3, <1>4, <1>5, <1>6, CommandMoves

(* What was tested stays tested while runs start, end and are abandoned.   *)
LEMMA TestedStays ==
  ASSUME OpenT2, \A i \in DOMAIN t2s : t2s[i].end # None => i \in DOMAIN t2s' /\ t2s'[i] = t2s[i]
  PROVE  /\ \A cand : Tested(cand) => Tested(cand)'
         /\ \A c, main, head : Eligible(c, main, head) => Eligible(c, main, head)'
<1>1. ASSUME NEW cand, Tested(cand) PROVE Tested(cand)'
  <2>1. PICK i \in DOMAIN t2s : /\ t2s[i].cand = cand /\ t2s[i].ok = TRUE
                                /\ t2s[i].on.clean = TRUE /\ t2s[i].end = t2s[i].on
    BY <1>1 DEF Tested
  <2>2. t2s[i].end # None
    BY <2>1 DEF OpenT2
  <2> QED
    BY <2>1, <2>2 DEF Tested
<1> QED
  BY <1>1 DEF Eligible, IsReviewFirst, CandidateContract, CandidateFingerprint

(* A T2 run starts, ends or is abandoned.                                  *)
LEMMA RunStep ==
  ASSUME Safe, NEW t \in Terminals, NEW m \in Commands, term' = [term EXCEPT ![t] = m],
         m.pc \notin MergePcs, RoleFits(t, m), UNCHANGED <<remote, track, anc, local, merges>>,
         t2s' \in Seq(T2Runs),
         \A i \in DOMAIN t2s : t2s[i].end # None => i \in DOMAIN t2s' /\ t2s'[i] = t2s[i],
         job' \in Jobs \cup {None}, job' # job => job'.status # "PASS",
         OneOpen', OpenT2', Waiting', Passed'
  PROVE  Safe'
<1>1. \A s \in Terminals : term'[s] = IF s = t THEN m ELSE term[s]
  BY DEF Safe, Shape
<1>2. /\ \A cand : Tested(cand) => Tested(cand)'
      /\ \A c, main, head : Eligible(c, main, head) => Eligible(c, main, head)'
  BY TestedStays DEF Safe
<1>3. Shape'
  BY DEF Safe, Shape
<1>4. History' /\ Commits' = Commits
  BY DEF Safe, History, Commits
<1>5. Roles'
  <2> SUFFICES ASSUME NEW s \in Terminals PROVE RoleFits(s, term[s])'
    BY DEF Roles
  <2>1. RoleFits(s, term'[s])
    BY <1>1 DEF Safe, Roles
  <2> QED
    BY <1>4, <2>1 DEF RoleFits
<1>6. Places' /\ UnfetchedMain'
  BY <1>4 DEF Safe, Places, UnfetchedMain
<1>7. MainKept'
  BY <1>1 DEF Safe, MainKept, MainIsKept, MergePcs
<1>8. JobTested'
  <2>1. CASE job' = job
    BY <1>2, <2>1 DEF Safe, JobTested
  <2>2. CASE job' # job
    BY <2>2 DEF JobTested
  <2> QED
    BY <2>1, <2>2
<1>9. Gated'
  <2> SUFFICES ASSUME NEW s \in Terminals, term'[s].pc = "mergeGated"
               PROVE  Eligible(term[s].control, term[s].main, term[s].task)'
    BY DEF Gated
  <2>1. s # t /\ term'[s] = term[s]
    BY <1>1 DEF MergePcs
  <2>2. Eligible(term[s].control, term[s].main, term[s].task)
    BY <2>1 DEF Safe, Gated
  <2> QED
    BY <1>2, <2>1, <2>2 DEF Eligible, Tested
<1>10. Merged'
  <2> SUFFICES ASSUME NEW x \in merges
               PROVE  /\ Eligible(x.under, x.onto, x.head)'
                      /\ x.receipt = TRUE => x.head \in anc'[remote'.main]
    BY DEF Merged
  <2> QED
    BY <1>2 DEF Safe, Merged
<1> QED
  BY <1>3, <1>4, <1>5, <1>6, <1>7, <1>8, <1>9, <1>10 DEF Safe

(* T2 starts for the candidate of the certifier's job.                     *)
LEMMA CertStartT2Keeps ==
  ASSUME NoneIsApart, Safe, NEW t \in Certifiers, CertStartT2(t)
  PROVE  Safe'
<1> DEFINE m == [term[t] EXCEPT !.pc = "certTesting"]
           run == [by |-> t, cand |-> term[t].cand, on |-> local, end |-> None, ok |-> FALSE]
<1>1. /\ term[t].pc = "certPending" /\ term' = [term EXCEPT ![t] = m]
      /\ job' = Running(term[t].cand) /\ t2s' = Append(t2s, run)
      /\ UNCHANGED <<remote, track, anc, local, merges>>
  BY DEF CertStartT2, Running
<1>2. t \in Terminals /\ term[t] \in Commands /\ local \in Worktrees /\ t2s \in Seq(T2Runs)
  BY DEF Terminals, Safe, Shape
<1>3. m \in Commands /\ m.pc = "certTesting" /\ m.id = term[t].id /\ m.cand = term[t].cand
  BY <1>2 DEF Commands, CertPcs, ReadPcs
<1>4. RoleFits(t, m) /\ term[t].cand \in Candidates /\ term[t].id \in Identities /\ term[t].id.task <= local.head
  BY <1>1, <1>2, <1>3 DEF Safe, Roles, RoleFits, CertPcs, ReadPcs, MergePcs, KnownPcs
<1>5. job' \in Jobs /\ job'.status = "RUNNING"
  <2>1. job' = [cand |-> term[t].cand, status |-> "RUNNING", succeeded |-> None]
    BY <1>1, <1>4, JobSteps
  <2> QED
    BY <1>4, <2>1 DEF Jobs
<1>6. run \in T2Runs
  BY <1>2, <1>4 DEF T2Runs
<1>7. /\ t2s' \in Seq(T2Runs) /\ Len(t2s) \in Nat /\ DOMAIN t2s = 1..Len(t2s) /\ DOMAIN t2s' = 1..(Len(t2s) + 1)
      /\ \A i \in DOMAIN t2s : t2s'[i] = t2s[i]
      /\ t2s'[Len(t2s) + 1] = run
  BY <1>1, <1>2, <1>6, AppendProperties
<1>8. \A s \in Terminals : term'[s] = IF s = t THEN m ELSE term[s]
  BY <1>1, <1>2 DEF Safe, Shape
<1>9. \A i \in DOMAIN t2s : t2s[i].end = None /\ t2s[i].by # None => t2s[i].by \in Terminals /\ t2s[i].by # t
  <2> TAKE i \in DOMAIN t2s
  <2>1. t2s[i] \in T2Runs
    BY <1>2
  <2> QED
    BY <1>1, <2>1 DEF Safe, OpenT2, T2Runs
<1>10. t # None /\ run.by = t /\ run.end = None /\ run.ok = FALSE /\ run.on = local /\ run.cand = term[t].cand
  BY <1>2 DEF NoneIsApart
<1>11. Reached(local, local)
  BY <1>2 DEF Reached, Worktrees
<1> HIDE DEF m, run
<1>12. \A i \in DOMAIN t2s' : i \in DOMAIN t2s \/ i = Len(t2s) + 1
  BY <1>7
<1>13. OneOpen'
  BY <1>7, <1>9, <1>10, <1>12 DEF Safe, OneOpen, IsOpen
<1>14. OpenT2'
  <2> SUFFICES ASSUME NEW i \in DOMAIN t2s' PROVE OpenT2!(i)'
    BY DEF OpenT2
  <2>1. CASE i \in DOMAIN t2s
    <3>1. OpenT2!(i)
      BY <2>1 DEF Safe, OpenT2
    <3> QED
      BY <1>1, <1>7, <1>8, <1>9, <2>1, <3>1
  <2>2. CASE i = Len(t2s) + 1
    BY <1>1, <1>2, <1>3, <1>4, <1>7, <1>8, <1>10, <1>11, <2>2
  <2> QED
    BY <1>12, <2>1, <2>2
<1>15. Waiting'
  <2> SUFFICES ASSUME NEW s \in Terminals, term'[s].pc = "certTesting"
               PROVE  \E i \in DOMAIN t2s' : t2s'[i].by = s /\ t2s'[i].end = None
    BY DEF Waiting
  <2>1. CASE s = t
    BY <1>7, <1>10, <2>1
  <2>2. CASE s # t
    BY <1>7, <1>8, <2>2 DEF Safe, Waiting
  <2> QED
    BY <2>1, <2>2
<1>16. Passed'
  <2> SUFFICES ASSUME NEW s \in Terminals, term'[s].pc = "certPassed" PROVE Passed!(s)'
    BY DEF Passed
  <2>1. s # t /\ term'[s] = term[s]
    BY <1>3, <1>8
  <2>2. PICK i \in DOMAIN t2s :
          /\ t2s[i].cand = term[s].cand /\ t2s[i].ok = TRUE /\ t2s[i].end # None
          /\ term[s].id.task <= t2s[i].on.head
          /\ Reached(t2s[i].on, t2s[i].end) /\ Reached(t2s[i].end, local)
    BY <2>1 DEF Safe, Passed
  <2>3. i \in DOMAIN t2s' /\ t2s'[i] = t2s[i] /\ local' = local
    BY <1>1, <1>7
  <2> QED
    BY <2>1, <2>2, <2>3
<1>17. \A i \in DOMAIN t2s : t2s[i].end # None => i \in DOMAIN t2s' /\ t2s'[i] = t2s[i]
  BY <1>7
<1>18. m.pc \notin MergePcs /\ job' \in Jobs \cup {None} /\ (job' # job => job'.status # "PASS")
  BY <1>3, <1>5 DEF MergePcs
<1> QED
  BY <1>1, <1>2, <1>3, <1>4, <1>7, <1>13, <1>14, <1>15, <1>16, <1>17, <1>18, RunStep

(* T2 ends for the candidate it started on.                                *)
LEMMA CertEndT2Keeps ==
  ASSUME NoneIsApart, Safe, NEW t \in Certifiers, NEW ok \in BOOLEAN, CertEndT2(t, ok)
  PROVE  Safe'
<1> DEFINE n == CHOOSE i \in DOMAIN t2s : t2s[i].by = t /\ t2s[i].end = None
           pc == IF ok THEN "certPassed" ELSE "certFailed"
           m == [term[t] EXCEPT !.pc = pc]
           run == [t2s[n] EXCEPT !.end = local, !.ok = ok]
<1>1. /\ term[t].pc = "certTesting" /\ term' = [term EXCEPT ![t] = m]
      /\ t2s' = [t2s EXCEPT ![n].end = local, ![n].ok = ok]
      /\ UNCHANGED <<remote, track, anc, local, job, merges>>
  BY DEF CertEndT2
<1>2. t \in Terminals /\ term[t] \in Commands /\ local \in Worktrees /\ t2s \in Seq(T2Runs) /\ t # None
  BY DEF Terminals, Safe, Shape, NoneIsApart
<1>3. n \in DOMAIN t2s /\ t2s[n].by = t /\ t2s[n].end = None
  <2>1. \E i \in DOMAIN t2s : t2s[i].by = t /\ t2s[i].end = None
    BY <1>1, <1>2 DEF Safe, Waiting
  <2> QED
    BY <2>1
<1> HIDE DEF n
<1>4. t2s[n] \in T2Runs
  BY <1>2, <1>3
<1>5. /\ run \in T2Runs /\ run.end = local /\ run.ok = ok /\ run.by = t /\ run.on = t2s[n].on /\ run.cand = t2s[n].cand
      /\ run.on \in Worktrees
  BY <1>2, <1>3, <1>4 DEF T2Runs
<1>6. t2s' = [t2s EXCEPT ![n] = run]
  BY <1>1, <1>2, <1>3
<1> HIDE DEF run
<1>7. t2s' \in Seq(T2Runs) /\ DOMAIN t2s' = DOMAIN t2s /\ \A i \in DOMAIN t2s : t2s'[i] = IF i = n THEN run ELSE t2s[i]
  BY <1>2, <1>3, <1>5, <1>6, ExceptSeq
<1>8. pc \in {"certPassed", "certFailed"} /\ (pc = "certPassed" <=> ok)
  OBVIOUS
<1> HIDE DEF pc
<1>9. m \in Commands /\ m.pc = pc /\ m.id = term[t].id /\ m.cand = term[t].cand
  BY <1>2, <1>8 DEF Commands, CertPcs, ReadPcs
<1>10. RoleFits(t, m) /\ m.pc \notin MergePcs
  BY <1>1, <1>2, <1>8, <1>9 DEF Safe, Roles, RoleFits, CertPcs, ReadPcs, MergePcs, KnownPcs
<1> HIDE DEF m
<1>11. \A s \in Terminals : term'[s] = IF s = t THEN m ELSE term[s]
  BY <1>1, <1>2 DEF Safe, Shape
<1>12. \A i \in DOMAIN t2s : i # n /\ IsOpen(t2s[i]) => t2s[i].by \in Terminals /\ t2s[i].by # t
  <2> TAKE i \in DOMAIN t2s
  <2>1. t2s[i] \in T2Runs
    BY <1>2
  <2> QED
    BY <1>2, <1>3, <2>1 DEF Safe, OneOpen, IsOpen, T2Runs
<1>13. ~IsOpen(run)
  BY <1>2, <1>5 DEF NoneIsApart, IsOpen
<1>14. OneOpen'
  BY <1>7, <1>13 DEF Safe, OneOpen
<1>15. OpenT2'
  <2> SUFFICES ASSUME NEW i \in DOMAIN t2s PROVE OpenT2!(i)'
    BY <1>7 DEF OpenT2
  <2>1. CASE i = n
    <3>1. t2s'[i] = run
      BY <1>7, <2>1
    <3> QED
      BY <1>2, <1>5, <3>1 DEF NoneIsApart
  <2>2. CASE i # n
    <3>1. OpenT2!(i)
      BY DEF Safe, OpenT2
    <3>2. t2s'[i] = t2s[i] /\ local' = local
      BY <1>1, <1>7, <2>2
    <3> QED
      BY <1>11, <1>12, <2>2, <3>1, <3>2 DEF IsOpen
  <2> QED
    BY <2>1, <2>2
<1>16. Waiting'
  <2> SUFFICES ASSUME NEW s \in Terminals, term'[s].pc = "certTesting"
               PROVE  \E i \in DOMAIN t2s' : t2s'[i].by = s /\ t2s'[i].end = None
    BY DEF Waiting
  <2>1. s # t /\ term'[s] = term[s]
    BY <1>8, <1>9, <1>11
  <2>2. PICK i \in DOMAIN t2s : t2s[i].by = s /\ t2s[i].end = None
    BY <2>1 DEF Safe, Waiting
  <2>3. i # n
    BY <1>3, <2>1, <2>2
  <2> QED
    BY <1>7, <2>2, <2>3
<1>17. Passed'
  <2> SUFFICES ASSUME NEW s \in Terminals, term'[s].pc = "certPassed" PROVE Passed!(s)'
    BY DEF Passed
  <2>1. CASE s = t
    <3>1. ok = TRUE /\ term'[s].cand = term[t].cand /\ term'[s].id = term[t].id
      BY <1>8, <1>9, <1>11, <2>1
    <3>2. OpenT2!(n)
      BY <1>3 DEF Safe, OpenT2
    <3>3. /\ t2s[n].cand = term[t].cand /\ term[t].id.task <= t2s[n].on.head /\ Reached(t2s[n].on, local)
      BY <1>2, <1>3, <3>2
    <3>4. Reached(local, local) /\ local # None
      BY <1>2 DEF Reached, Worktrees, NoneIsApart
    <3>5. n \in DOMAIN t2s' /\ t2s'[n] = run /\ local' = local
      BY <1>1, <1>3, <1>7
    <3> QED
      BY <1>5, <3>1, <3>3, <3>4, <3>5
  <2>2. CASE s # t
    <3>1. term'[s] = term[s] /\ term[s].pc = "certPassed"
      BY <1>11, <2>2
    <3>2. PICK i \in DOMAIN t2s :
            /\ t2s[i].cand = term[s].cand /\ t2s[i].ok = TRUE /\ t2s[i].end # None
            /\ term[s].id.task <= t2s[i].on.head
            /\ Reached(t2s[i].on, t2s[i].end) /\ Reached(t2s[i].end, local)
      BY <3>1 DEF Safe, Passed
    <3>3. i \in DOMAIN t2s' /\ t2s'[i] = t2s[i] /\ local' = local
      BY <1>1, <1>3, <1>7, <3>2
    <3> QED
      BY <3>1, <3>2, <3>3
  <2> QED
    BY <2>1, <2>2
<1>18. \A i \in DOMAIN t2s : t2s[i].end # None => i \in DOMAIN t2s' /\ t2s'[i] = t2s[i]
  BY <1>3, <1>7
<1>19. job' \in Jobs \cup {None} /\ job' = job
  BY <1>1 DEF Safe, Shape
<1> QED
  BY <1>1, <1>2, <1>7, <1>9, <1>10, <1>14, <1>15, <1>16, <1>17, <1>18, <1>19, RunStep

(* A killed command leaves its job and its T2 as they were.                *)
LEMMA CrashKeeps ==
  ASSUME NoneIsApart, Safe, NEW t \in Terminals, Crash(t)
  PROVE  Safe'
<1> DEFINE run(i) == IF t2s[i].by = t /\ t2s[i].end = None THEN [t2s[i] EXCEPT !.by = None] ELSE t2s[i]
<1>1. /\ term' = [term EXCEPT ![t] = Idle] /\ t2s' = [i \in DOMAIN t2s |-> run(i)]
      /\ UNCHANGED <<remote, track, anc, local, job, merges>>
  BY DEF Crash
<1>2. t2s \in Seq(T2Runs) /\ t # None
  BY DEF Safe, Shape, NoneIsApart
<1>3. ASSUME NEW i \in DOMAIN t2s
      PROVE  /\ run(i) \in T2Runs /\ run(i).end = t2s[i].end /\ run(i).ok = t2s[i].ok /\ run(i).on = t2s[i].on
             /\ run(i).cand = t2s[i].cand /\ (t2s[i].end # None => run(i) = t2s[i])
             /\ run(i).by = IF t2s[i].by = t /\ t2s[i].end = None THEN None ELSE t2s[i].by
  <2>1. t2s[i] \in T2Runs
    BY <1>2
  <2> QED
    BY <2>1 DEF T2Runs
<1> HIDE DEF run
<1>4. t2s' \in Seq(T2Runs) /\ DOMAIN t2s' = DOMAIN t2s /\ \A i \in DOMAIN t2s : t2s'[i] = run(i)
  <2>1. Len(t2s) \in Nat /\ DOMAIN t2s = 1..Len(t2s)
    BY <1>2
  <2>2. t2s' = [i \in 1..Len(t2s) |-> run(i)]
    BY <1>1, <2>1
  <2>3. \A i \in 1..Len(t2s) : run(i) \in T2Runs
    BY <1>3, <2>1
  <2>4. t2s' \in Seq(T2Runs)
    BY <2>1, <2>2, <2>3, IsASeq
  <2> QED
    BY <1>1, <2>4
<1>5. \A s \in Terminals : term'[s] = IF s = t THEN Idle ELSE term[s]
  BY <1>1 DEF Safe, Shape
<1>6. Idle \in Commands /\ Idle.pc = "idle" /\ RoleFits(t, Idle) /\ Idle.pc \notin MergePcs
  BY IdleCommand DEF MergePcs
<1>7. \A i \in DOMAIN t2s : IsOpen(t2s'[i]) => IsOpen(t2s[i]) /\ t2s'[i].by = t2s[i].by /\ t2s[i].by # t
                                              /\ t2s[i].by \in Terminals
  <2> TAKE i \in DOMAIN t2s
  <2>1. t2s[i] \in T2Runs
    BY <1>2
  <2> QED
    BY <1>3, <1>4, <2>1 DEF IsOpen, T2Runs
<1>8. OneOpen'
  BY <1>4, <1>7 DEF Safe, OneOpen
<1>9. OpenT2'
  <2> SUFFICES ASSUME NEW i \in DOMAIN t2s PROVE OpenT2!(i)'
    BY <1>4 DEF OpenT2
  <2>1. OpenT2!(i)
    BY DEF Safe, OpenT2
  <2>2. t2s'[i].end = t2s[i].end /\ t2s'[i].ok = t2s[i].ok /\ t2s'[i].on = t2s[i].on /\ t2s'[i].cand = t2s[i].cand
    BY <1>3, <1>4
  <2>3. local' = local
    BY <1>1
  <2> QED
    BY <1>5, <1>7, <2>1, <2>2, <2>3 DEF IsOpen
<1>10. Waiting'
  <2> SUFFICES ASSUME NEW s \in Terminals, term'[s].pc = "certTesting"
               PROVE  \E i \in DOMAIN t2s' : t2s'[i].by = s /\ t2s'[i].end = None
    BY DEF Waiting
  <2>1. s # t /\ term'[s] = term[s]
    BY <1>5, <1>6
  <2>2. PICK i \in DOMAIN t2s : t2s[i].by = s /\ t2s[i].end = None
    BY <2>1 DEF Safe, Waiting
  <2>3. t2s'[i].by = s /\ t2s'[i].end = None
    BY <1>3, <1>4, <2>1, <2>2
  <2> QED
    BY <1>4, <2>3
<1>11. Passed'
  <2> SUFFICES ASSUME NEW s \in Terminals, term'[s].pc = "certPassed" PROVE Passed!(s)'
    BY DEF Passed
  <2>1. term'[s] = term[s]
    BY <1>5, <1>6
  <2>2. PICK i \in DOMAIN t2s :
          /\ t2s[i].cand = term[s].cand /\ t2s[i].ok = TRUE /\ t2s[i].end # None
          /\ term[s].id.task <= t2s[i].on.head
          /\ Reached(t2s[i].on, t2s[i].end) /\ Reached(t2s[i].end, local)
    BY <2>1 DEF Safe, Passed
  <2>3. i \in DOMAIN t2s' /\ t2s'[i] = t2s[i] /\ local' = local
    BY <1>1, <1>3, <1>4, <2>2
  <2> QED
    BY <2>1, <2>2, <2>3
<1>12. \A i \in DOMAIN t2s : t2s[i].end # None => i \in DOMAIN t2s' /\ t2s'[i] = t2s[i]
  BY <1>3, <1>4
<1>13. job' \in Jobs \cup {None} /\ job' = job
  BY <1>1 DEF Safe, Shape
<1> QED
  BY <1>1, <1>4, <1>6, <1>8, <1>9, <1>10, <1>11, <1>12, <1>13, RunStep

(* PASS is saved only when the worktree at the end is the one T2 started   *)
(* on: its head is the identity's, which no later head equals.             *)
LEMMA CertFinishKeeps ==
  ASSUME NoneIsApart, Safe, NEW t \in Certifiers, NEW fetched \in BOOLEAN, CertFinish(t, fetched)
  PROVE  Safe'
<1> DEFINE passed == term[t].pc = "certPassed"
           good == passed /\ PostT2Identity(term[t].id, fetched)
<1>1. /\ term[t].pc \in {"certPassed", "certFailed"}
      /\ track' = IF fetched THEN remote ELSE track
      /\ job' = TransitionJob(Running(term[t].cand), IF good THEN "PASS" ELSE "FAILED", passed)
      /\ term' = [term EXCEPT ![t] = Idle]
      /\ UNCHANGED <<remote, anc, local, t2s, merges>>
  BY DEF CertFinish, Running
<1>2. t \in Terminals /\ local \in Worktrees /\ t2s \in Seq(T2Runs)
  BY DEF Terminals, Safe, Shape
<1>3. term[t].cand \in Candidates /\ term[t].id \in Identities /\ term[t].id.task \in Nat
  BY <1>1, <1>2 DEF Safe, Roles, RoleFits, CertPcs, ReadPcs, KnownPcs, Identities
<1>4. Idle \in Commands /\ Idle.pc = "idle" /\ RoleFits(t, Idle)
  BY <1>2, IdleCommand
<1>5. track' \in [main : Nat, task : Nat, control : Controls]
      /\ track'.main \in {track.main, remote.main} /\ track'.task \in {track.task, remote.task}
  BY <1>1 DEF Safe, Shape
<1>6. CASE good
  <2>1. job' = [cand |-> term[t].cand, status |-> "PASS", succeeded |-> TRUE]
    <3>1. job' = TransitionJob(Running(term[t].cand), "PASS", TRUE)
      BY <1>1, <1>6
    <3> QED
      BY <1>3, <3>1, JobSteps
  <2>2. job' \in Jobs /\ job'.cand = term[t].cand
    BY <1>3, <2>1 DEF Jobs
  <2>3. PICK i \in DOMAIN t2s :
          /\ t2s[i].cand = term[t].cand /\ t2s[i].ok = TRUE /\ t2s[i].end # None
          /\ term[t].id.task <= t2s[i].on.head
          /\ Reached(t2s[i].on, t2s[i].end) /\ Reached(t2s[i].end, local)
    BY <1>2, <1>6 DEF Safe, Passed
  <2>4. t2s[i] \in T2Runs
    BY <1>2
  <2>5. t2s[i].on \in Worktrees /\ t2s[i].end \in Worktrees
    BY <2>3, <2>4 DEF T2Runs
  <2>6. local.head = term[t].id.task /\ local.clean = TRUE
    BY <1>6 DEF PostT2Identity
  <2>7. t2s[i].end.head = local.head /\ t2s[i].on.head = local.head
    BY <1>2, <1>3, <2>3, <2>5, <2>6 DEF Reached, Worktrees
  <2>8. t2s[i].end.clean = TRUE /\ t2s[i].on.clean = TRUE
    BY <2>3, <2>6, <2>7 DEF Reached
  <2>9. t2s[i].end = t2s[i].on
    BY <2>5, <2>7, <2>8 DEF Worktrees
  <2>10. Tested(term[t].cand)
    BY <2>3, <2>8, <2>9 DEF Tested
  <2>11. JobTested'
    BY <1>1, <2>2, <2>10 DEF JobTested, Tested
  <2> QED
    BY <1>1, <1>2, <1>4, <1>5, <2>2, <2>11, CommandMoves
<1>7. CASE ~good
  <2>1. passed \in BOOLEAN
    OBVIOUS
  <2>2. job' = TransitionJob(Running(term[t].cand), "FAILED", passed)
    BY <1>1, <1>7
  <2> HIDE DEF passed
  <2>3. job' = [cand |-> term[t].cand, status |-> "FAILED", succeeded |-> passed]
    BY <1>3, <2>1, <2>2, JobSteps
  <2>4. job' \in Jobs /\ job'.status = "FAILED"
    BY <1>3, <2>1, <2>3 DEF Jobs
  <2>5. JobTested'
    BY <2>4 DEF JobTested
  <2> QED
    BY <1>1, <1>2, <1>4, <1>5, <2>4, <2>5, CommandMoves
<1> QED
  BY <1>6, <1>7

-----------------------------------------------------------------------------
(* Steps of merge-reviewed.                                                *)

LEMMA MergeFetchKeeps ==
  ASSUME NoneIsApart, Safe, NEW t \in Mergers, MergeFetch(t)
  PROVE  Safe'
<1> DEFINE fetched == [term[t] EXCEPT !.pc = "mergeFetched", !.control = remote.control]
           m == IF remote.control.review = None THEN Idle ELSE fetched
<1>1. /\ term[t].pc = "idle" /\ track' = remote /\ term' = [term EXCEPT ![t] = m]
      /\ UNCHANGED <<remote, anc, local, job, t2s, merges>>
  BY DEF MergeFetch
<1>2. t \in Terminals /\ term[t] \in Commands /\ remote.control \in Controls
  BY DEF Terminals, Safe, Shape
<1>3. fetched \in Commands /\ fetched.pc = "mergeFetched" /\ fetched.control = remote.control
  BY <1>2 DEF Commands, MergePcs
<1>4. remote.control.review # None => RoleFits(t, fetched)
  BY <1>2, <1>3 DEF Safe, Places, Controls, RoleFits, CertPcs, ReadPcs, MergePcs, KnownPcs
<1> HIDE DEF fetched
<1>5. m \in Commands /\ m.pc \in {"idle", "mergeFetched"} /\ RoleFits(t, m)
  BY <1>2, <1>3, <1>4, IdleCommand
<1>6. JobTested' /\ job' \in Jobs \cup {None} /\ track' \in [main : Nat, task : Nat, control : Controls]
  BY <1>1 DEF Safe, Shape, JobTested, Tested
<1> HIDE DEF m
<1> QED
  BY <1>1, <1>2, <1>5, <1>6, CommandMoves

(* The main that is read is the one of the remote, or one that the clone   *)
(* has not seen and the reviewed head does not come from.                  *)
LEMMA MergeReadMainKeeps ==
  ASSUME Safe, NEW t \in Mergers, MergeReadMain(t)
  PROVE  Safe'
<1> DEFINE m == [term[t] EXCEPT !.pc = "mergeMain", !.main = track.main]
<1>1. term[t].pc = "mergeFetched" /\ Reads(t, track.main = term[t].control.review.base, m)
  BY DEF MergeReadMain
<1>2. t \in Terminals /\ term[t] \in Commands /\ track.main \in Nat /\ RoleFits(t, term[t])
  BY DEF Terminals, Safe, Shape, Roles
<1>3. m \in Commands /\ m.pc = "mergeMain" /\ m.main = track.main /\ m.control = term[t].control
  BY <1>2 DEF Commands, MergePcs
<1>4. RoleFits(t, m)
  BY <1>1, <1>2, <1>3 DEF RoleFits, CertPcs, ReadPcs, MergePcs, KnownPcs
<1>5. remote.main = m.main \/ remote.main \notin anc[m.control.review.head]
  <2>1. m.control.review.head \in Commits
    BY <1>3, <1>4 DEF RoleFits, MergePcs
  <2>2. track.main = remote.main \/ m.control.review.head # remote.main
    BY <1>1, <1>2, <1>3 DEF Safe, MainKept, MainIsKept
  <2> QED
    BY <1>3, <2>1, <2>2 DEF Safe, UnfetchedMain
<1> HIDE DEF m
<1> QED
  BY <1>1, <1>2, <1>3, <1>4, <1>5, ReadingKeeps

(* The head that is read is a commit.                                      *)
LEMMA MergeReadTaskKeeps ==
  ASSUME Safe, NEW t \in Mergers, MergeReadTask(t)
  PROVE  Safe'
<1> DEFINE m == [term[t] EXCEPT !.pc = "mergeTask", !.task = track.task]
<1>1. term[t].pc = "mergeMain" /\ Reads(t, track.task = term[t].control.review.head, m)
  BY DEF MergeReadTask
<1>2. t \in Terminals /\ term[t] \in Commands /\ track.task \in Nat /\ RoleFits(t, term[t])
  BY DEF Terminals, Safe, Shape, Roles
<1>3. m \in Commands /\ m.pc = "mergeTask" /\ m.main = term[t].main /\ m.task = track.task /\ m.control = term[t].control
  BY <1>2 DEF Commands, MergePcs
<1>4. RoleFits(t, m)
  BY <1>1, <1>2, <1>3 DEF Safe, Places, RoleFits, CertPcs, ReadPcs, MergePcs, KnownPcs
<1>5. remote.main = m.main \/ remote.main \notin anc[m.control.review.head]
  BY <1>1, <1>2, <1>3 DEF Safe, MainKept, MainIsKept
<1> HIDE DEF m
<1> QED
  BY <1>1, <1>2, <1>3, <1>4, <1>5, ReadingKeeps

(* The gate reads the job that is on file: what it lets through is the     *)
(* reviewed head on the reviewed main, tested when it had to be.           *)
LEMMA GateMeansEligible ==
  ASSUME NoneIsApart, Safe, NEW m, m.control \in Controls, m.control.review \in Reviews, MergeGateOK(m)
  PROVE  Eligible(m.control, m.main, m.task)
<1> DEFINE c == m.control
           r == c.review
           status == IF IsReviewFirst(c) THEN "PASS" ELSE r.status
           g == MergeInput(m, track.task, status, RegisteredRoadmap(c))
<1>1. /\ IsReviewFirst(c) => c.text.bind # None /\ DeriveFinalPass(r, job, CandidateContract(c, r.head, r.base))
      /\ c.text.bind # None => r.blob = c.blob
      /\ EvaluateMergeGate(g) = "PASS_ELIGIBLE"
  BY DEF MergeGateOK
<1>2. /\ g.approved = r.approved /\ g.auto = r.auto /\ g.head = m.task /\ g.reviewed = r.head /\ g.main = m.main
      /\ g.base = r.base /\ g.governed = (c.text.bind # None) /\ g.audit = r.audit /\ g.binding = c.text.bind
  BY DEF MergeInput
<1> HIDE DEF g
<1>3. /\ g.approved /\ g.auto /\ g.head = g.reviewed /\ g.main = g.base
      /\ g.governed =>
           /\ g.audit # None /\ g.audit.verdict = "PASS"
           /\ g.audit.roadmap = g.binding.roadmap /\ g.audit.milestone = g.binding.milestone
           /\ g.audit.capability = g.binding.capability /\ g.audit.requirements = g.binding.requirements
  BY <1>1, GatePasses DEF NoneIsApart
<1>4. /\ r.approved /\ r.auto /\ m.task = r.head /\ m.main = r.base
      /\ c.text.bind # None =>
           /\ r.audit # None /\ r.audit.verdict = "PASS"
           /\ r.audit.roadmap = c.text.bind.roadmap /\ r.audit.milestone = c.text.bind.milestone
           /\ r.audit.capability = c.text.bind.capability /\ r.audit.requirements = c.text.bind.requirements
  BY <1>2, <1>3
<1>5. ASSUME c.text.bind # None PROVE r.audit = AuditOf("PASS", c.text.bind)
  <2>1. PICK v \in Verdicts, bind \in Binds : r.audit = AuditOf(v.audit, bind)
    BY DEF Reviews
  <2>2. r.audit = RoadmapAudit(v.audit, bind.roadmap, bind.milestone, bind.capability, bind.requirements)
    BY <1>4, <1>5, <2>1 DEF AuditOf
  <2> QED
    BY <1>4, <1>5, <2>2 DEF AuditOf, RoadmapAudit
<1>6. ASSUME IsReviewFirst(c) PROVE Tested(CandidateContract(c, m.task, m.main))
  BY <1>1, <1>4, <1>6 DEF DeriveFinalPass, Safe, JobTested
<1> QED
  BY <1>1, <1>4, <1>5, <1>6 DEF Eligible

(* Past the gate, the head was eligible on that main.                      *)
LEMMA MergeGateKeeps ==
  ASSUME NoneIsApart, Safe, NEW t \in Mergers, MergeGate(t)
  PROVE  Safe'
<1> DEFINE m == [term[t] EXCEPT !.pc = "mergeGated"]
           ok == MergeGateOK(term[t])
<1>1. term[t].pc = "mergeTask" /\ Reads(t, ok, m)
  BY DEF MergeGate
<1>2. t \in Terminals /\ term[t] \in Commands /\ RoleFits(t, term[t])
  BY DEF Terminals, Safe, Shape, Roles
<1>3. /\ m \in Commands /\ m.pc = "mergeGated" /\ m.control = term[t].control
      /\ m.main = term[t].main /\ m.task = term[t].task
  BY <1>2 DEF Commands, MergePcs
<1>4. RoleFits(t, m) /\ term[t].control \in Controls /\ term[t].control.review \in Reviews
  BY <1>1, <1>2, <1>3 DEF RoleFits, CertPcs, ReadPcs, MergePcs, KnownPcs
<1>5. remote.main = m.main \/ remote.main \notin anc[m.control.review.head]
  BY <1>1, <1>2, <1>3 DEF Safe, MainKept, MainIsKept
<1>6. ok => Eligible(m.control, m.main, m.task)
  BY <1>3, <1>4, GateMeansEligible
<1> HIDE DEF m, ok
<1> QED
  BY <1>1, <1>2, <1>3, <1>4, <1>5, <1>6, ReadingKeeps

(* A step that changes main, its ref or what is recorded of merges.        *)
LEMMA MergeMoves ==
  ASSUME Safe, NEW t \in Terminals, NEW m \in Commands, term' = [term EXCEPT ![t] = m],
         term[t].pc \in MergePcs, m.pc \in {"idle", "mergePushed"}, RoleFits(t, m),
         UNCHANGED <<anc, local, job, t2s>>, Shape', Places', UnfetchedMain', MainKept', Merged'
  PROVE  Safe'
<1>1. \A s \in Terminals : term'[s] = IF s = t THEN m ELSE term[s]
  BY DEF Safe, Shape
<1>2. History' /\ Commits' = Commits
  BY DEF Safe, History, Commits
<1>3. Roles'
  <2> SUFFICES ASSUME NEW s \in Terminals PROVE RoleFits(s, term[s])'
    BY DEF Roles
  <2>1. RoleFits(s, term'[s])
    BY <1>1 DEF Safe, Roles
  <2> QED
    BY <1>2, <2>1 DEF RoleFits
<1>4. OpenT2'
  <2> SUFFICES ASSUME NEW i \in DOMAIN t2s PROVE OpenT2!(i)'
    BY DEF OpenT2
  <2>1. OpenT2!(i)
    BY DEF Safe, OpenT2
  <2>2. t2s[i].end = None /\ t2s[i].by # None => t2s[i].by \in Terminals /\ t2s[i].by # t
    <3>1. t2s[i] \in T2Runs
      BY DEF Safe, Shape
    <3> QED
      BY <2>1, <3>1 DEF T2Runs, MergePcs
  <2> QED
    BY <1>1, <2>1, <2>2
<1>5. OneOpen' /\ Waiting'
  BY <1>1 DEF Safe, OneOpen, Waiting
<1>6. Passed'
  BY <1>1 DEF Safe, Passed
<1>7. JobTested'
  BY DEF Safe, JobTested, Tested
<1>8. Gated'
  <2> SUFFICES ASSUME NEW s \in Terminals, term'[s].pc = "mergeGated"
               PROVE  Eligible(term[s].control, term[s].main, term[s].task)'
    BY DEF Gated
  <2>1. Eligible(term'[s].control, term'[s].main, term'[s].task)
    BY <1>1 DEF Safe, Gated
  <2> QED
    BY <2>1 DEF Eligible, Tested
<1> QED
  BY <1>2, <1>3, <1>4, <1>5, <1>6, <1>7, <1>8 DEF Safe

(* The push is taken only by the main that was resolved and gated, and the *)
(* other terminals are in no merge that could still rely on the old main.  *)
LEMMA MergePushKeeps ==
  ASSUME Safe, \A s, u \in Mergers : s = u, NEW t \in Mergers, MergePush(t)
  PROVE  Safe'
<1> DEFINE head == term[t].task
           taken == remote.main \in anc[head]
           run == [head |-> head, onto |-> remote.main, under |-> term[t].control, receipt |-> FALSE]
           pushed == [term[t] EXCEPT !.pc = "mergePushed"]
<1>1. /\ term[t].pc = "mergeGated"
      /\ remote' = IF taken THEN [remote EXCEPT !.main = head] ELSE remote
      /\ track' = IF taken THEN [track EXCEPT !.main = head] ELSE track
      /\ merges' = IF taken /\ remote.main # head THEN merges \cup {run} ELSE merges
      /\ term' = [term EXCEPT ![t] = IF taken THEN pushed ELSE Idle]
      /\ UNCHANGED <<anc, local, job, t2s>>
  BY DEF MergePush
<1>2. t \in Terminals /\ term[t] \in Commands /\ remote.main \in Commits
  BY DEF Terminals, Safe, Shape, Places
<1>3. head \in Commits /\ term[t].control \in Controls /\ RoleFits(t, term[t])
  BY <1>1, <1>2 DEF Safe, Roles, RoleFits, MergePcs
<1>4. head \in Nat /\ remote.main \in Nat
  BY <1>2, <1>3, NewCommitIsFresh DEF Safe
<1>5. CASE ~taken
  <2>1. track' = track /\ remote' = remote /\ merges' = merges /\ term' = [term EXCEPT ![t] = Idle]
    BY <1>1, <1>5
  <2>2. JobTested' /\ job' \in Jobs \cup {None} /\ track' \in [main : Nat, task : Nat, control : Controls]
    BY <1>1, <2>1 DEF Safe, Shape, JobTested, Tested
  <2> QED
    BY <1>1, <1>2, <2>1, <2>2, IdleCommand, CommandMoves
<1>6. CASE taken
  <2>1. /\ remote' = [remote EXCEPT !.main = head] /\ track' = [track EXCEPT !.main = head]
        /\ term' = [term EXCEPT ![t] = pushed]
        /\ merges' = IF remote.main # head THEN merges \cup {run} ELSE merges
    BY <1>1, <1>6
  <2>2. remote.main = term[t].main
    <3>1. head = term[t].control.review.head
      BY <1>1, <1>2 DEF Safe, Gated, Eligible
    <3> QED
      BY <1>1, <1>2, <1>6, <3>1 DEF Safe, MainKept, MainIsKept
  <2>3. /\ pushed \in Commands /\ pushed.pc = "mergePushed" /\ pushed.control = term[t].control
        /\ pushed.main = term[t].main /\ pushed.task = head
    BY <1>2 DEF Commands, MergePcs
  <2>4. RoleFits(t, pushed)
    BY <1>1, <1>3, <2>3 DEF RoleFits, CertPcs, ReadPcs, MergePcs, KnownPcs
  <2>5. run \in MergeRuns /\ run.head = head /\ run.onto = remote.main /\ run.under = term[t].control /\ run.receipt = FALSE
    BY <1>3, <1>4 DEF MergeRuns
  <2>6. Eligible(run.under, run.onto, run.head)
    BY <1>1, <1>2, <2>2, <2>5 DEF Safe, Gated
  <2>7. /\ remote'.main = head /\ remote'.task = remote.task /\ remote'.control = remote.control /\ remote' \in [main : Nat, task : Nat, control : Controls]
        /\ track'.main = head /\ track'.task = track.task /\ track' \in [main : Nat, task : Nat, control : Controls]
    BY <1>4, <2>1 DEF Safe, Shape
  <2> HIDE DEF pushed, run, taken
  <2>8. Shape'
    BY <1>1, <1>2, <2>1, <2>3, <2>5, <2>7 DEF Safe, Shape
  <2>9. Places' /\ UnfetchedMain'
    BY <1>1, <1>3, <2>7 DEF Safe, Places, UnfetchedMain, Commits
  <2>10. \A s \in Terminals : term'[s] = IF s = t THEN pushed ELSE term[s]
    BY <2>1 DEF Safe, Shape
  <2>11. MainKept'
    <3> SUFFICES ASSUME NEW s \in Terminals, term'[s].pc \in MergePcs \ {"mergePushed"} PROVE FALSE
      BY DEF MainKept, MainIsKept, MergePcs
    <3>1. s # t /\ term[s].pc \in MergePcs
      BY <2>3, <2>10 DEF MergePcs
    <3> QED
      BY <3>1 DEF Safe, Roles, RoleFits
  <2>12. anc[remote.main] \subseteq anc[head]
    BY <1>3, <1>6 DEF Safe, History, taken
  <2>13. ASSUME NEW x \in merges' PROVE Merged!(x)'
    <3>1. /\ Eligible(x.under, x.onto, x.head)
          /\ x.receipt = TRUE => x.head \in anc[head]
      <4>1. CASE x \in merges
        BY <2>12, <4>1 DEF Safe, Merged
      <4>2. CASE x = run
        BY <2>5, <2>6, <4>2
      <4> QED
        BY <2>1, <4>1, <4>2
    <3> QED
      BY <1>1, <2>7, <3>1 DEF Eligible, Tested
  <2>14. Merged'
    BY <2>13 DEF Merged
  <2> QED
    BY <1>1, <1>2, <2>1, <2>3, <2>4, <2>8, <2>9, <2>11, <2>14, MergeMoves DEF MergePcs
<1> QED
  BY <1>5, <1>6

(* The look at the result changes nothing that was merged.                 *)
LEMMA MergeVerifyKeeps ==
  ASSUME Safe, NEW t \in Mergers, MergeVerify(t)
  PROVE  Safe'
<1> DEFINE head == term[t].task
           verified == remote.main = head /\ remote.task = head
           after(x) == IF verified /\ x.head = head THEN [x EXCEPT !.receipt = TRUE] ELSE x
<1>1. /\ term[t].pc = "mergePushed"
      /\ track' = [track EXCEPT !.main = remote.main, !.task = remote.task]
      /\ merges' = {after(x) : x \in merges}
      /\ term' = [term EXCEPT ![t] = Idle]
      /\ UNCHANGED <<remote, anc, local, job, t2s>>
  BY DEF MergeVerify
<1>2. t \in Terminals /\ remote.main \in Commits
  BY DEF Terminals, Safe, Places
<1>3. /\ track'.main = remote.main /\ track'.task = remote.task
      /\ track' \in [main : Nat, task : Nat, control : Controls]
  BY <1>1 DEF Safe, Shape
<1>4. \A x \in merges : /\ after(x) \in MergeRuns /\ after(x).head = x.head /\ after(x).onto = x.onto
                        /\ after(x).under = x.under
                        /\ after(x).receipt = TRUE => x.receipt = TRUE \/ x.head = remote.main
  <2> TAKE x \in merges
  <2>1. x \in MergeRuns
    BY DEF Safe, Shape
  <2> QED
    BY <2>1 DEF MergeRuns
<1> HIDE DEF after
<1>5. \A s \in Terminals : term'[s] = IF s = t THEN Idle ELSE term[s]
  BY <1>1 DEF Safe, Shape
<1>6. Shape'
  <2>1. term' \in [Terminals -> Commands]
    BY <1>1, IdleCommand DEF Safe, Shape
  <2>2. merges' \subseteq MergeRuns
    BY <1>1, <1>4
  <2> QED
    BY <1>1, <1>3, <2>1, <2>2 DEF Safe, Shape
<1>7. Places' /\ UnfetchedMain'
  BY <1>1, <1>3 DEF Safe, Places, UnfetchedMain, Commits
<1>8. MainKept'
  BY <1>1, <1>5, IdleCommand DEF Safe, MainKept, MainIsKept
<1>9. Merged'
  <2> SUFFICES ASSUME NEW y \in merges' PROVE Merged!(y)'
    BY DEF Merged
  <2>1. PICK x \in merges : y = after(x)
    BY <1>1
  <2>2. Eligible(y.under, y.onto, y.head)
    BY <1>4, <2>1 DEF Safe, Merged
  <2>3. y.receipt = TRUE => y.head \in anc[remote.main]
    BY <1>2, <1>4, <2>1 DEF Safe, Merged, History
  <2> QED
    BY <1>1, <2>2, <2>3 DEF Eligible, Tested
<1> QED
  BY <1>1, <1>2, <1>6, <1>7, <1>8, <1>9, IdleCommand, MergeMoves DEF MergePcs

-----------------------------------------------------------------------------
(* The first part's theorem.                                               *)

LEMMA InitIsSafe ==
  ASSUME Init
  PROVE  Safe
<1>1. PICK text \in Texts :
        remote = [main |-> 1, task |-> 2,
                  control |-> [rev |-> 1, blob |-> 1, text |-> text, review |-> None, roadmap |-> 1]]
  BY DEF Init
<1>2. /\ track = remote /\ anc = [c \in {1, 2} |-> 1..c] /\ local = [head |-> 2, clean |-> TRUE] /\ job = None
      /\ term = [t \in Terminals |-> Idle] /\ t2s = <<>> /\ merges = {}
  BY DEF Init
<1>3. remote.control \in Controls /\ remote.main = 1 /\ remote.task = 2 /\ remote.control.review = None
  BY <1>1 DEF Controls
<1>4. Commits = {1, 2} /\ Commits = 1..2 /\ anc[1] = 1..1 /\ anc[2] = 1..2
  BY <1>2 DEF Commits
<1>5. Shape
  <2>1. remote \in [main : Nat, task : Nat, control : Controls]
    BY <1>1, <1>3
  <2>2. local \in Worktrees /\ term \in [Terminals -> Commands] /\ t2s \in Seq(T2Runs)
    BY <1>2, IdleCommand DEF Worktrees
  <2> QED
    BY <1>2, <2>1, <2>2 DEF Shape
<1>6. \A t \in Terminals : term[t] = Idle
  BY <1>2
<1>7. Roles
  BY <1>6, IdleCommand DEF Roles
<1>8. History
  <2>1. \E n \in Nat : Commits = 1..n
    BY <1>4
  <2>2. ASSUME NEW c \in Commits PROVE History!2!(c)
    BY <1>4
  <2> QED
    BY <2>1, <2>2 DEF History
<1>9. Places /\ UnfetchedMain
  BY <1>2, <1>3, <1>4 DEF Places, UnfetchedMain
<1>10. MainKept /\ Waiting /\ Passed /\ Gated
  BY <1>6, IdleCommand DEF MainKept, MainIsKept, Waiting, Passed, Gated
<1>11. OneOpen /\ OpenT2 /\ JobTested /\ Merged
  BY <1>2 DEF OneOpen, OpenT2, JobTested, Merged
<1> QED
  BY <1>5, <1>7, <1>8, <1>9, <1>10, <1>11 DEF Safe

(* Every step keeps the lane safe.                                         *)
LEMMA NextKeeps ==
  ASSUME NoneIsApart, \A s, u \in Mergers : s = u, Safe, [Next]_vars
  PROVE  Safe'
<1>1. CASE Environment
  BY <1>1, EnvironmentKeeps
<1>2. ASSUME NEW t \in Certifiers, Certify(t) PROVE Safe'
  BY <1>2, CertFetchKeeps, CertReadsKeep, CertGateKeeps, CertIdentityKeeps, CertLoadKeeps, CertSavePendingKeeps,
     CertStartT2Keeps, CertEndT2Keeps, CertFinishKeeps DEF Certify
<1>3. ASSUME NEW t \in Mergers, Merge(t) PROVE Safe'
  BY <1>3, MergeFetchKeeps, MergeReadMainKeeps, MergeReadTaskKeeps, MergeGateKeeps, MergePushKeeps, MergeVerifyKeeps DEF Merge
<1>4. ASSUME NEW t \in Terminals, Crash(t) PROVE Safe'
  BY <1>4, CrashKeeps
<1>5. CASE UNCHANGED vars
  <2>1. UNCHANGED <<remote, track, anc, local, job, term, t2s, merges>>
    BY <1>5 DEF vars
  <2>2. Shape'
    BY <2>1 DEF Safe, Shape
  <2>3. History' /\ Places' /\ UnfetchedMain' /\ MainKept' /\ Commits' = Commits
    BY <2>1 DEF Safe, History, Places, UnfetchedMain, MainKept, MainIsKept, Commits
  <2>4. Reached(local, local')
    BY <2>1 DEF Reached, Safe, Shape, Worktrees
  <2> QED
    BY <2>1, <2>2, <2>3, <2>4, EnvironmentStep
<1> QED
  BY <1>1, <1>2, <1>3, <1>4, <1>5 DEF Next

(* The strengthening of MergedIsCertified is an invariant.                 *)
THEOREM LaneIsSafe ==
  ASSUME NoneIsApart, \A s, u \in Mergers : s = u
  PROVE  Spec => []Safe
<1>1. Init => Safe
  BY InitIsSafe
<1>2. Safe /\ [Next]_vars => Safe'
  BY NextKeeps
<1> QED
  BY <1>1, <1>2, PTL DEF Spec

(* Whatever merge-reviewed puts on main is what an approving review names, *)
(* on the main it names, tested when the task is review-first, with any    *)
(* number of terminals that certify and one that merges                    *)
(* (cmd_merge_reviewed, cmd_certify_reviewed, _post_t2_identity_only).     *)
THEOREM MergesAreCertified ==
  ASSUME NoneIsApart, \A s, u \in Mergers : s = u
  PROVE  Spec => []MergedIsCertified
<1>1. Safe => MergedIsCertified
  <2> SUFFICES ASSUME Safe, NEW m \in merges PROVE MergedIsCertified!(m)
    BY DEF MergedIsCertified
  <2>1. Eligible(m.under, m.onto, m.head) /\ (m.receipt = TRUE => m.head \in anc[remote.main])
    BY DEF Safe, Merged
  <2>2. m \in MergeRuns /\ m.receipt \in BOOLEAN
    BY DEF Safe, Shape, MergeRuns
  <2>3. m.receipt => m.head \in anc[remote.main]
    BY <2>1, <2>2
  <2>4. IsReviewFirst(m.under) =>
          \E i \in DOMAIN t2s :
            /\ t2s[i].cand = CandidateContract(m.under, m.head, m.onto)
            /\ t2s[i].ok /\ t2s[i].on.clean /\ t2s[i].end = t2s[i].on
    BY <2>1 DEF Eligible, Tested
  <2> QED
    BY <2>1, <2>3, <2>4 DEF Eligible
<1>2. Spec => []Safe
  BY LaneIsSafe
<1> QED
  BY <1>1, <1>2, PTL

-----------------------------------------------------------------------------
(* The second part: one T2 per candidate.                                  *)

\* The refs and the TASK text move forward only.
Forward ==
  /\ track.main <= track'.main /\ track.task <= track'.task
  /\ TextBefore(remote.control.blob, remote.control.text.bind.roadmap, remote'.control.blob, remote'.control.text.bind.roadmap)

(* The order of candidates.                                                *)
LEMMA CandidateOrder ==
  /\ \A x \in Candidates : Before(x, x)
  /\ \A x, y \in Candidates : Before(x, y) /\ Before(y, x) => x = y
  /\ \A x, y, z \in Candidates : Before(x, y) /\ Before(y, z) => Before(x, z)
<1>1. \A x \in Candidates : Before(x, x)
  BY DEF Candidates, Before, TextBefore
<1>2. \A x, y \in Candidates : Before(x, y) /\ Before(y, x) => x = y
  BY DEF Candidates, Before, TextBefore
<1>3. \A x, y, z \in Candidates : Before(x, y) /\ Before(y, z) => Before(x, z)
  BY DEF Candidates, Before, TextBefore
<1> QED
  BY <1>1, <1>2, <1>3

(* Following is an order on what has been published.                       *)
LEMMA TextOrder ==
  ASSUME NEW a \in Nat, NEW b \in Nat, NEW c \in Nat, NEW x, NEW y, NEW z,
         TextBefore(a, x, b, y), TextBefore(b, y, c, z)
  PROVE  TextBefore(a, x, c, z)
  BY DEF TextBefore

(* A candidate that was seen stays behind the refs.                        *)
LEMMA SeenStays ==
  ASSUME Safe, Safe', Forward, NEW cand \in Candidates, Seen(cand)
  PROVE  Seen(cand)'
<1>1. /\ track.main \in Nat /\ track.task \in Nat /\ track'.main \in Nat /\ track'.task \in Nat
      /\ remote.control.blob \in Nat /\ remote'.control.blob \in Nat
  BY DEF Safe, Shape, Controls
<1>2. cand.head \in Nat /\ cand.base \in Nat /\ cand.blob \in Nat
  BY DEF Candidates
<1>3. TextBefore(cand.blob, cand.roadmap, remote'.control.blob, remote'.control.text.bind.roadmap)
  BY <1>1, <1>2, TextOrder DEF Forward, Seen
<1>4. cand.head <= track'.task /\ cand.base <= track'.main
  BY <1>1, <1>2 DEF Forward, Seen
<1> QED
  BY <1>3, <1>4 DEF Seen

(* The job, the candidates of the T2 runs and what a certification knows of *)
(* them stay; the refs move forward.                                        *)
LEMMA OrderStays ==
  ASSUME NoneIsApart, Safe, Safe', Ordered, Forward, RefsFollow', job' = job,
         DOMAIN t2s' = DOMAIN t2s, \A i \in DOMAIN t2s : t2s'[i].cand = t2s[i].cand,
         \A s \in Terminals :
            \/ term'[s] = term[s] \/ term'[s].pc \notin CertPcs
            \/ /\ term[s].pc \in CertPcs \ ReadPcs /\ term'[s].cand = term[s].cand
               /\ term'[s].pc \notin ReadPcs
               /\ term'[s].pc \in {"certDecided", "certPending"} => term[s].pc \in {"certDecided", "certPending"}
  PROVE  Ordered'
<1>1. job # None => job.cand \in Candidates
  BY DEF Safe, Shape, Jobs
<1>2. JobLast'
  <2>1. job # None => Seen(job.cand)'
    BY <1>1, SeenStays DEF Ordered, JobLast
  <2> QED
    BY <2>1 DEF Ordered, JobLast
<1>3. OneT2PerCandidate'
  BY DEF Ordered, OneT2PerCandidate
<1>4. CertifierAhead'
  <2> SUFFICES ASSUME NEW s \in Terminals PROVE InOrder(term[s])'
    BY DEF CertifierAhead
  <2>1. InOrder(term[s]) /\ RoleFits(s, term[s])
    BY DEF Ordered, CertifierAhead, Safe, Roles
  <2>2. CASE term'[s].pc \notin CertPcs
    BY <2>2 DEF InOrder, CertPcs, ReadPcs
  <2>3. CASE term'[s].pc \in ReadPcs
    <3>1. term'[s] = term[s] /\ term[s].control \in Controls
      BY <2>1, <2>3 DEF CertPcs, RoleFits
    <3>2. /\ remote.control.blob \in Nat /\ remote'.control.blob \in Nat /\ term[s].control.blob \in Nat
          /\ track.main \in Nat /\ track'.main \in Nat /\ track.task \in Nat /\ track'.task \in Nat
      BY <3>1 DEF Safe, Shape, Controls
    <3>3. TextBefore(term[s].control.blob, term[s].control.text.bind.roadmap, remote.control.blob, remote.control.text.bind.roadmap)
      BY <2>1, <2>3, <3>1 DEF InOrder
    <3>4. TextBefore(term[s].control.blob, term[s].control.text.bind.roadmap, remote'.control.blob, remote'.control.text.bind.roadmap)
      BY <3>2, <3>3, TextOrder DEF Forward
    <3>5. job # None => TextBefore(job.cand.blob, job.cand.roadmap, term[s].control.blob, term[s].control.text.bind.roadmap)
      BY <2>1, <2>3, <3>1 DEF InOrder
    <3>6. term[s].pc \in {"certMain", "certTask", "certTree"} =>
            term[s].main <= track'.main /\ (job # None => job.cand.base <= term[s].main)
      BY <2>1, <3>2 DEF InOrder, Forward, RoleFits
    <3>7. term[s].pc \in {"certTask", "certTree"} =>
            term[s].task <= track'.task /\ (job # None => job.cand.head <= term[s].task)
      BY <2>1, <3>2 DEF InOrder, Forward, RoleFits
    <3> QED
      BY <2>3, <3>1, <3>4, <3>5, <3>6, <3>7 DEF InOrder, ReadPcs
  <2>4. CASE term'[s].pc \in CertPcs \ ReadPcs
    <3>1. /\ term'[s].cand = term[s].cand /\ term[s].pc \in CertPcs \ ReadPcs
          /\ term'[s].pc \in {"certDecided", "certPending"} => term[s].pc \in {"certDecided", "certPending"}
      BY <2>4
    <3>2. term[s].cand \in Candidates
      BY <2>1, <3>1 DEF RoleFits
    <3>3. Seen(term[s].cand) /\ (job # None => Before(job.cand, term[s].cand))
      BY <2>1, <3>1 DEF InOrder
    <3>4. Seen(term[s].cand)'
      <4> DEFINE cand == term[s].cand
      <4>1. ASSUME NEW k \in Candidates, Seen(k) PROVE Seen(k)'
        BY <4>1, SeenStays
      <4>2. /\ cand.head <= track'.task /\ cand.base <= track'.main
            /\ TextBefore(cand.blob, cand.roadmap, remote'.control.blob, remote'.control.text.bind.roadmap)
        BY <3>2, <3>3, <4>1 DEF Seen
      <4> QED
        BY <3>1, <4>2 DEF Seen
    <3>5. term[s].pc \in {"certDecided", "certPending"} => \A i \in DOMAIN t2s : t2s[i].cand # term[s].cand
      BY <2>1 DEF InOrder
    <3> QED
      BY <2>4, <3>1, <3>3, <3>4, <3>5 DEF InOrder, CertPcs, ReadPcs
  <2> QED
    BY <2>2, <2>3, <2>4
<1> QED
  BY <1>2, <1>3, <1>4 DEF Ordered

(* The environment only moves refs and TASK text forward.                  *)
LEMMA EnvironmentKeepsOrder ==
  ASSUME NoneIsApart, Safe, Safe', Ordered, Environment
  PROVE  Ordered'
<1>1. /\ remote.main \in Nat /\ remote.task \in Nat /\ track.main \in Nat /\ track.task \in Nat /\ local.head \in Nat
      /\ remote.control \in Controls /\ remote.control.blob \in Nat
  BY DEF Safe, Shape, Worktrees, Controls
<1>2. TextBefore(remote.control.blob, remote.control.text.bind.roadmap, remote.control.blob, remote.control.text.bind.roadmap)
  BY DEF TextBefore
<1>3. track.main <= remote.main /\ track.task <= remote.task /\ remote.task <= local.head
  BY DEF Ordered, RefsFollow, Safe, Places
<1>4. ASSUME NEW c \in Controls, SetControl(c),
             TextBefore(remote.control.blob, remote.control.text.bind.roadmap, c.blob, c.text.bind.roadmap)
      PROVE  Forward /\ RefsFollow' /\ UNCHANGED <<job, term, t2s>>
  <2>1. remote' = [remote EXCEPT !.control = c] /\ UNCHANGED <<track, job, term, t2s>>
    BY <1>4 DEF SetControl
  <2>2. remote'.main = remote.main /\ remote'.task = remote.task /\ remote'.control = c
    BY <2>1 DEF Safe, Shape
  <2> QED
    BY <1>1, <1>3, <1>4, <2>1, <2>2 DEF Forward, RefsFollow
<1>0. anc[remote.task] \subseteq Commits /\ anc[remote.main] \subseteq Commits
  BY DEF Safe, Places, History
<1>5. ASSUME NEW v \in Verdicts, NEW head \in anc[remote.task], NEW base \in anc[remote.main],
             ReviewerWrites(v, head, base)
      PROVE  Forward /\ RefsFollow' /\ UNCHANGED <<job, term, t2s>>
  <2>1. PICK r \in Reviews : /\ r.head = head /\ [remote.control EXCEPT !.rev = @ + 1, !.review = r] \in Controls
                             /\ SetControl([remote.control EXCEPT !.rev = @ + 1, !.review = r])
    BY <1>0, <1>1, <1>5, ReviewIsWritten DEF Safe
  <2> DEFINE c == [remote.control EXCEPT !.rev = @ + 1, !.review = r]
  <2>2. c.blob = remote.control.blob /\ c.text = remote.control.text
    BY <1>1 DEF Controls
  <2> HIDE DEF c
  <2>3. c \in Controls /\ SetControl(c)
    BY <2>1 DEF c
  <2> QED
    BY <1>2, <1>4, <2>2, <2>3
<1>6. ASSUME NEW text \in Texts, AuthorRevises(text) PROVE Forward /\ RefsFollow' /\ UNCHANGED <<job, term, t2s>>
  <2> DEFINE c == [remote.control EXCEPT !.rev = @ + 1, !.blob = @ + 1, !.text = text]
  <2>1. SetControl(c) /\ c \in Controls
    BY <1>1, <1>6, ControlRevisions DEF AuthorRevises
  <2>2. c.blob = remote.control.blob + 1
    BY <1>1 DEF Controls
  <2>3. TextBefore(remote.control.blob, remote.control.text.bind.roadmap, c.blob, c.text.bind.roadmap)
    BY <1>1, <2>2 DEF TextBefore
  <2> QED
    BY <1>4, <2>1, <2>3
<1>7. CASE RoadmapRevised
  <2> DEFINE c == [remote.control EXCEPT !.rev = @ + 1, !.roadmap = @ + 1]
  <2>1. SetControl(c) /\ c \in Controls
    BY <1>1, <1>7, ControlRevisions DEF RoadmapRevised
  <2>2. c.blob = remote.control.blob /\ c.text = remote.control.text
    BY <1>1 DEF Controls
  <2>3. Forward /\ RefsFollow' /\ UNCHANGED <<job, term, t2s>>
    BY <1>2, <1>4, <2>1, <2>2
  <2> QED
    BY <2>3, OrderStays
<1>8. CASE WorkerEdits \/ \E withMain \in BOOLEAN : WorkerCommits(withMain)
  <2>1. UNCHANGED <<remote, track, job, term, t2s>>
    BY <1>8 DEF WorkerEdits, WorkerCommits
  <2>2. Forward /\ RefsFollow'
    BY <1>1, <1>2, <1>3, <2>1 DEF Forward, RefsFollow
  <2> QED
    BY <2>1, <2>2, OrderStays
<1>9. CASE WorkerPushes
  <2>1. /\ remote' = [remote EXCEPT !.task = local.head] /\ track' = [track EXCEPT !.task = local.head]
        /\ UNCHANGED <<job, term, t2s>>
    BY <1>9 DEF WorkerPushes
  <2>2. /\ remote'.main = remote.main /\ remote'.task = local.head /\ remote'.control = remote.control
        /\ track'.main = track.main /\ track'.task = local.head
    BY <2>1 DEF Safe, Shape
  <2>3. Forward /\ RefsFollow'
    BY <1>1, <1>2, <1>3, <2>2 DEF Forward, RefsFollow
  <2> QED
    BY <2>1, <2>3, OrderStays
<1>10. CASE OtherTaskLands
  <2>1. remote' = [remote EXCEPT !.main = NewCommit] /\ UNCHANGED <<track, job, term, t2s>>
    BY <1>10 DEF OtherTaskLands
  <2>2. remote'.main = NewCommit /\ remote'.task = remote.task /\ remote'.control = remote.control
    BY <2>1 DEF Safe, Shape
  <2>3. NewCommit \in Nat /\ remote.main < NewCommit
    BY NewCommitIsFresh DEF Safe, Places
  <2>4. Forward /\ RefsFollow'
    BY <1>1, <1>2, <1>3, <2>1, <2>2, <2>3 DEF Forward, RefsFollow
  <2> QED
    BY <2>1, <2>4, OrderStays
<1> QED
  BY <1>5, <1>6, <1>7, <1>8, <1>9, <1>10, OrderStays DEF Environment

(* merge-reviewed and a kill: main moves forward and no certification is in *)
(* a later place than before.                                               *)
LEMMA MergeKeepsOrder ==
  ASSUME NoneIsApart, Safe, Safe', Ordered, NEW t \in Terminals, Crash(t) \/ (t \in Mergers /\ Merge(t))
  PROVE  Ordered'
<1>1. /\ remote.main \in Nat /\ remote.task \in Nat /\ track.main \in Nat /\ track.task \in Nat
      /\ remote.control.blob \in Nat /\ track.main <= remote.main /\ track.task <= remote.task
  BY DEF Safe, Shape, Controls, Ordered, RefsFollow
<1>2. TextBefore(remote.control.blob, remote.control.text.bind.roadmap, remote.control.blob, remote.control.text.bind.roadmap)
  BY DEF TextBefore
<1>3. CASE Crash(t)
  <2>1. /\ term' = [term EXCEPT ![t] = Idle] /\ UNCHANGED <<remote, track, job>>
        /\ t2s' = [i \in DOMAIN t2s |-> IF t2s[i].by = t /\ t2s[i].end = None
                                         THEN [t2s[i] EXCEPT !.by = None] ELSE t2s[i]]
    BY <1>3 DEF Crash
  <2>2. \A i \in DOMAIN t2s : t2s'[i].cand = t2s[i].cand
    <3> TAKE i \in DOMAIN t2s
    <3>1. t2s[i] \in T2Runs
      BY DEF Safe, Shape
    <3> QED
      BY <2>1, <3>1 DEF T2Runs
  <2>3. \A s \in Terminals : term'[s] = term[s] \/ term'[s].pc \notin CertPcs
    BY <2>1, IdleCommand DEF Safe, Shape, CertPcs, ReadPcs
  <2>4. Forward /\ RefsFollow'
    BY <1>1, <1>2, <2>1 DEF Forward, RefsFollow
  <2> QED
    BY <2>1, <2>2, <2>3, <2>4, OrderStays
<1>4. ASSUME UNCHANGED <<job, t2s>>, NEW m, m.pc \notin CertPcs, term' = [term EXCEPT ![t] = m], Forward, RefsFollow'
      PROVE  Ordered'
  <2>1. \A s \in Terminals : term'[s] = term[s] \/ term'[s].pc \notin CertPcs
    BY <1>4 DEF Safe, Shape
  <2> QED
    BY <1>4, <2>1, OrderStays
<1>5. Idle.pc \notin CertPcs /\ \A pc \in MergePcs : [term[t] EXCEPT !.pc = pc].pc \notin CertPcs
  <2>1. term[t] \in Commands
    BY DEF Safe, Shape
  <2> QED
    BY <2>1, IdleCommand DEF Commands, CertPcs, ReadPcs, MergePcs
<1>6. CASE MergeFetch(t)
  <2> DEFINE m == IF remote.control.review = None THEN Idle
                  ELSE [term[t] EXCEPT !.pc = "mergeFetched", !.control = remote.control]
  <2>1. term' = [term EXCEPT ![t] = m] /\ track' = remote /\ UNCHANGED <<remote, job, t2s>>
    BY <1>6 DEF MergeFetch
  <2>2. m.pc \notin CertPcs
    <3>1. term[t] \in Commands
      BY DEF Safe, Shape
    <3> QED
      BY <3>1, IdleCommand DEF Commands, CertPcs, ReadPcs
  <2>3. Forward /\ RefsFollow'
    BY <1>1, <1>2, <2>1 DEF Forward, RefsFollow
  <2> HIDE DEF m
  <2> QED
    BY <1>4, <2>1, <2>2, <2>3
<1>7. ASSUME NEW ok, NEW next, next.pc \notin CertPcs, Reads(t, ok, next)
      PROVE  Ordered'
  <2> DEFINE m == IF ok THEN next ELSE Idle
  <2>1. term' = [term EXCEPT ![t] = m] /\ UNCHANGED <<remote, track, job, t2s>>
    BY <1>7 DEF Reads
  <2>2. m.pc \notin CertPcs
    BY <1>5, <1>7
  <2>3. Forward /\ RefsFollow'
    BY <1>1, <1>2, <2>1 DEF Forward, RefsFollow
  <2> HIDE DEF m
  <2> QED
    BY <1>4, <2>1, <2>2, <2>3
<1>8. CASE MergeReadMain(t) \/ MergeReadTask(t) \/ MergeGate(t)
  <2>1. term[t] \in Commands
    BY DEF Safe, Shape
  <2>2. /\ [term[t] EXCEPT !.pc = "mergeMain", !.main = track.main].pc = "mergeMain"
        /\ [term[t] EXCEPT !.pc = "mergeTask", !.task = track.task].pc = "mergeTask"
        /\ [term[t] EXCEPT !.pc = "mergeGated"].pc = "mergeGated"
    BY <2>1 DEF Commands
  <2> QED
    BY <1>7, <1>8, <2>2 DEF MergeReadMain, MergeReadTask, MergeGate, CertPcs, ReadPcs
<1>9. CASE t \in Mergers /\ MergePush(t)
  <2> DEFINE head == term[t].task
             taken == remote.main \in anc[head]
             m == IF taken THEN [term[t] EXCEPT !.pc = "mergePushed"] ELSE Idle
  <2>1. /\ term[t].pc = "mergeGated" /\ term' = [term EXCEPT ![t] = m] /\ UNCHANGED <<job, t2s>>
        /\ remote' = IF taken THEN [remote EXCEPT !.main = head] ELSE remote
        /\ track' = IF taken THEN [track EXCEPT !.main = head] ELSE track
    BY <1>9 DEF MergePush
  <2>2. head \in Commits
    BY <2>1 DEF Safe, Roles, RoleFits, MergePcs
  <2>3. head \in Nat /\ (taken => remote.main <= head)
    BY <2>2, NewCommitIsFresh DEF Safe, History
  <2>4. m.pc \notin CertPcs
    BY <1>5 DEF MergePcs
  <2>5. CASE taken
    <3>1. /\ remote'.main = head /\ remote'.task = remote.task /\ remote'.control = remote.control
          /\ track'.main = head /\ track'.task = track.task
      BY <2>1, <2>5 DEF Safe, Shape
    <3>2. Forward /\ RefsFollow'
      BY <1>1, <1>2, <2>3, <2>5, <3>1 DEF Forward, RefsFollow
    <3> HIDE DEF m
    <3> QED
      BY <1>4, <2>1, <2>4, <3>2
  <2>6. CASE ~taken
    <3>1. Forward /\ RefsFollow'
      BY <1>1, <1>2, <2>1, <2>6 DEF Forward, RefsFollow
    <3> HIDE DEF m
    <3> QED
      BY <1>4, <2>1, <2>4, <3>1
  <2> QED
    BY <2>5, <2>6
<1>10. CASE MergeVerify(t)
  <2>1. /\ term' = [term EXCEPT ![t] = Idle] /\ UNCHANGED <<remote, job, t2s>>
        /\ track' = [track EXCEPT !.main = remote.main, !.task = remote.task]
    BY <1>10 DEF MergeVerify
  <2>2. track'.main = remote.main /\ track'.task = remote.task
    BY <2>1 DEF Safe, Shape
  <2>3. Forward /\ RefsFollow'
    BY <1>1, <1>2, <2>1, <2>2 DEF Forward, RefsFollow
  <2> QED
    BY <1>4, <1>5, <2>1, <2>3
<1> QED
  BY <1>3, <1>6, <1>7, <1>8, <1>9, <1>10 DEF Merge

(* A step of the only terminal that certifies.                             *)
LEMMA CertifierSteps ==
  ASSUME Safe', \A s, u \in Certifiers : s = u, NEW t \in Certifiers,
         RefsFollow', JobLast', OneT2PerCandidate', InOrder(term[t])'
  PROVE  Ordered'
<1>1. ASSUME NEW s \in Terminals PROVE InOrder(term[s])'
  <2>1. CASE s = t
    BY <2>1
  <2>2. CASE s # t
    <3>1. term'[s].pc \notin CertPcs
      BY <2>2 DEF Safe, Roles, RoleFits
    <3> QED
      BY <3>1 DEF InOrder, CertPcs, ReadPcs
  <2> QED
    BY <2>1, <2>2
<1> QED
  BY <1>1 DEF Ordered, CertifierAhead

(* The candidate of a certification comes after every T2 run so far.       *)
LEMMA CandidateIsLast ==
  ASSUME NoneIsApart, Safe, Ordered, NEW t \in Terminals, term[t].pc \in CertPcs \ ReadPcs
  PROVE  /\ term[t].cand \in Candidates /\ Seen(term[t].cand)
         /\ \A i \in DOMAIN t2s : t2s[i].cand \in Candidates /\ Before(t2s[i].cand, term[t].cand)
<1>1. term[t].cand \in Candidates
  BY DEF Safe, Roles, RoleFits
<1>2. InOrder(term[t])
  BY DEF Ordered, CertifierAhead
<1>3. Seen(term[t].cand) /\ (job # None => Before(job.cand, term[t].cand))
  BY <1>2 DEF InOrder
<1>4. ASSUME NEW i \in DOMAIN t2s PROVE t2s[i].cand \in Candidates /\ Before(t2s[i].cand, term[t].cand)
  <2>1. t2s[i] \in T2Runs
    BY DEF Safe, Shape
  <2>2. job # None /\ Before(t2s[i].cand, job.cand)
    BY DEF Ordered, JobLast
  <2>3. job.cand \in Candidates /\ t2s[i].cand \in Candidates
    BY <2>1, <2>2 DEF Safe, Shape, Jobs, T2Runs
  <2> QED
    BY <1>1, <1>3, <2>2, <2>3, CandidateOrder
<1> QED
  BY <1>1, <1>3, <1>4

(* certify-reviewed: only a candidate later than all before it is tested.  *)
LEMMA CertifyKeepsOrder ==
  ASSUME NoneIsApart, \A s, u \in Certifiers : s = u, Safe, Safe', Ordered, NEW t \in Certifiers, Certify(t)
  PROVE  Ordered'
<1>1. /\ remote.main \in Nat /\ remote.task \in Nat /\ track.main \in Nat /\ track.task \in Nat
      /\ remote.control.blob \in Nat /\ track.main <= remote.main /\ track.task <= remote.task
  BY DEF Safe, Shape, Controls, Ordered, RefsFollow
<1>2. TextBefore(remote.control.blob, remote.control.text.bind.roadmap, remote.control.blob, remote.control.text.bind.roadmap)
  BY DEF TextBefore
<1>3. t \in Terminals /\ term[t] \in Commands /\ term \in [Terminals -> Commands]
  BY DEF Terminals, Safe, Shape
<1>4. RefsFollow /\ JobLast /\ OneT2PerCandidate /\ InOrder(term[t]) /\ RoleFits(t, term[t])
  BY <1>3 DEF Ordered, CertifierAhead, Safe, Roles
<1>5. job # None => job.cand \in Candidates
  BY DEF Safe, Shape, Jobs
<1>6. CASE CertFetch(t)
  <2> DEFINE fetched == [term[t] EXCEPT !.pc = "certFetched", !.control = remote.control]
  <2>1. /\ term' = [term EXCEPT ![t] = IF Accepted(remote.control) THEN fetched ELSE Idle]
        /\ track' = remote /\ UNCHANGED <<remote, job, t2s>>
    BY <1>6 DEF CertFetch
  <2>2. fetched.pc = "certFetched" /\ fetched.control = remote.control
    BY <1>3 DEF Commands
  <2> HIDE DEF fetched
  <2>3. Forward /\ RefsFollow'
    BY <1>1, <1>2, <2>1 DEF Forward, RefsFollow
  <2>4. JobLast'
    <3>1. job # None => Seen(job.cand)'
      BY <1>4, <1>5, <2>1, <2>3, SeenStays DEF JobLast
    <3> QED
      BY <1>4, <2>1, <3>1 DEF JobLast
  <2>5. term'[t] = fetched \/ term'[t] = Idle
    BY <1>3, <2>1
  <2>6. InOrder(term[t])'
    <3>1. CASE term'[t] = fetched
      BY <1>2, <1>4, <2>1, <2>2, <3>1 DEF InOrder, CertPcs, ReadPcs, JobLast, Seen
    <3>2. CASE term'[t] = Idle
      BY <3>2, IdleCommand DEF InOrder, CertPcs, ReadPcs
    <3> QED
      BY <2>5, <3>1, <3>2
  <2>7. OneT2PerCandidate'
    BY <1>4, <2>1 DEF OneT2PerCandidate
  <2> QED
    BY <2>3, <2>4, <2>6, <2>7, CertifierSteps
<1>7. ASSUME NEW ok, NEW next, Reads(t, ok, next),
             ok => /\ next.pc \in ReadPcs =>
                        /\ TextBefore(next.control.blob, next.control.text.bind.roadmap,
                                      remote.control.blob, remote.control.text.bind.roadmap)
                        /\ job # None => TextBefore(job.cand.blob, job.cand.roadmap,
                                                    next.control.blob, next.control.text.bind.roadmap)
                   /\ next.pc \in {"certMain", "certTask", "certTree"} =>
                        next.main <= track.main /\ (job # None => job.cand.base <= next.main)
                   /\ next.pc \in {"certTask", "certTree"} =>
                        next.task <= track.task /\ (job # None => job.cand.head <= next.task)
                   /\ next.pc \in CertPcs \ ReadPcs => Seen(next.cand) /\ (job # None => Before(job.cand, next.cand))
                   /\ next.pc \in {"certDecided", "certPending"} => \A i \in DOMAIN t2s : t2s[i].cand # next.cand
      PROVE  Ordered'
  <2>1. term' = [term EXCEPT ![t] = IF ok THEN next ELSE Idle] /\ UNCHANGED <<remote, track, job, t2s>>
    BY <1>7 DEF Reads
  <2>2. InOrder(term[t])'
    <3>1. CASE ok
      <4>1. term'[t] = next
        BY <1>3, <2>1, <3>1
      <4> QED
        BY <1>7, <2>1, <3>1, <4>1 DEF InOrder, Seen
    <3>2. CASE ~ok
      <4>1. term'[t] = Idle
        BY <1>3, <2>1, <3>2
      <4> QED
        BY <4>1, IdleCommand DEF InOrder, CertPcs, ReadPcs
    <3> QED
      BY <3>1, <3>2
  <2>3. RefsFollow' /\ JobLast' /\ OneT2PerCandidate'
    BY <1>4, <2>1 DEF RefsFollow, JobLast, Seen, OneT2PerCandidate
  <2> QED
    BY <2>2, <2>3, CertifierSteps
<1>8. CASE CertReadMain(t) \/ CertReadTask(t) \/ CertReadWorktree(t)
  <2> DEFINE atMain == [term[t] EXCEPT !.pc = "certMain", !.main = track.main]
             atTask == [term[t] EXCEPT !.pc = "certTask", !.task = track.task]
             atTree == [term[t] EXCEPT !.pc = "certTree"]
  <2>1. /\ atMain.pc = "certMain" /\ atMain.control = term[t].control /\ atMain.main = track.main
        /\ atTask.pc = "certTask" /\ atTask.control = term[t].control /\ atTask.main = term[t].main
        /\ atTask.task = track.task
        /\ atTree.pc = "certTree" /\ atTree.control = term[t].control /\ atTree.main = term[t].main
        /\ atTree.task = term[t].task
    BY <1>3 DEF Commands
  <2> HIDE DEF atMain, atTask, atTree
  <2>2. job # None => job.cand.base <= track.main /\ job.cand.head <= track.task
    BY <1>4 DEF JobLast, Seen
  <2>3. CASE CertReadMain(t)
    <3>1. term[t].pc = "certFetched" /\ Reads(t, track.main = term[t].control.review.base, atMain)
      BY <2>3 DEF CertReadMain, atMain
    <3> QED
      BY <1>1, <1>4, <1>7, <2>1, <2>2, <3>1 DEF InOrder, CertPcs, ReadPcs
  <2>4. CASE CertReadTask(t)
    <3>1. term[t].pc = "certMain" /\ Reads(t, track.task = term[t].control.review.head, atTask)
      BY <2>4 DEF CertReadTask, atTask
    <3> QED
      BY <1>1, <1>4, <1>7, <2>1, <2>2, <3>1 DEF InOrder, CertPcs, ReadPcs
  <2>5. CASE CertReadWorktree(t)
    <3>1. term[t].pc = "certTask" /\ Reads(t, local = [head |-> term[t].task, clean |-> TRUE], atTree)
      BY <2>5 DEF CertReadWorktree, atTree
    <3> QED
      BY <1>4, <1>7, <2>1, <3>1 DEF InOrder, CertPcs, ReadPcs
  <2> QED
    BY <1>8, <2>3, <2>4, <2>5
<1>9. CASE CertGate(t) \/ CertIdentity(t) \/ CertLoad(t)
  <2>1. CASE CertGate(t)
    <3> DEFINE c == term[t].control
               cand == CandidateContract(c, term[t].task, term[t].main)
               checked == [Idle EXCEPT !.pc = "certChecked", !.cand = cand]
    <3>1. term[t].pc = "certTree" /\ Reads(t, CertPreflightOK(term[t]), checked)
      BY <2>1 DEF CertGate
    <3>2. /\ cand.head = term[t].task /\ cand.base = term[t].main /\ cand.blob = c.blob
          /\ cand.roadmap = c.text.bind.roadmap
      BY DEF CandidateContract, CandidateFingerprint
    <3> HIDE DEF cand
    <3>3. checked.pc = "certChecked" /\ checked.cand = cand
      BY DEF Idle
    <3> HIDE DEF checked
    <3>4. Seen(cand) /\ (job # None => Before(job.cand, cand))
      BY <1>4, <3>1, <3>2 DEF InOrder, ReadPcs, Seen, Before
    <3> QED
      BY <1>7, <3>1, <3>3, <3>4 DEF ReadPcs
  <2>2. CASE CertIdentity(t)
    <3>1. PICK ok, id : term[t].pc = "certChecked" /\ Reads(t, ok, [term[t] EXCEPT !.pc = "certIdentified", !.id = id])
      BY <2>2 DEF CertIdentity
    <3> DEFINE m == [term[t] EXCEPT !.pc = "certIdentified", !.id = id]
    <3>2. m.pc = "certIdentified" /\ m.cand = term[t].cand
      BY <1>3 DEF Commands
    <3>3. Reads(t, ok, m)
      BY <3>1
    <3> HIDE DEF m
    <3> QED
      BY <1>4, <1>7, <3>1, <3>2, <3>3 DEF InOrder, CertPcs, ReadPcs
  <2>3. CASE CertLoad(t)
    <3> DEFINE cand == term[t].cand
               decided == [term[t] EXCEPT !.pc = "certDecided"]
    <3>1. term[t].pc = "certIdentified" /\ Reads(t, MayStartT2(job, cand), decided)
      BY <2>3 DEF CertLoad
    <3>2. decided.pc = "certDecided" /\ decided.cand = cand
      BY <1>3 DEF Commands
    <3> HIDE DEF decided
    <3>3. cand \in Candidates /\ Seen(cand) /\ (job # None => Before(job.cand, cand))
      BY <1>4, <3>1 DEF InOrder, RoleFits, CertPcs, ReadPcs
    <3>4. ASSUME MayStartT2(job, cand), NEW i \in DOMAIN t2s PROVE t2s[i].cand # cand
      <4>1. job # None /\ job.cand # cand /\ Before(t2s[i].cand, job.cand)
        BY <1>4, <3>4 DEF MayStartT2, JobLast
      <4> QED
        BY <1>5, <3>3, <4>1, CandidateOrder
    <3> QED
      BY <1>7, <3>1, <3>2, <3>3, <3>4 DEF ReadPcs
  <2> QED
    BY <1>9, <2>1, <2>2, <2>3
<1>10. CASE CertSavePending(t)
  <2>1. /\ term[t].pc = "certDecided" /\ UNCHANGED <<remote, track, t2s>>
        /\ job' = PendingJob(term[t].cand) /\ term' = [term EXCEPT ![t].pc = "certPending"]
    BY <1>10 DEF CertSavePending
  <2>2. term'[t].pc = "certPending" /\ term'[t].cand = term[t].cand
    BY <1>3, <2>1 DEF Commands
  <2>3. /\ term[t].cand \in Candidates /\ Seen(term[t].cand)
        /\ \A i \in DOMAIN t2s : t2s[i].cand \in Candidates /\ Before(t2s[i].cand, term[t].cand)
    BY <1>3, <2>1, CandidateIsLast DEF CertPcs, ReadPcs
  <2>4. job' \in Jobs /\ job'.cand = term[t].cand
    <3>1. /\ PendingJob(term[t].cand) = [cand |-> term[t].cand, status |-> "PENDING", succeeded |-> None]
          /\ [cand |-> term[t].cand, status |-> "PENDING", succeeded |-> None] \in Jobs
      BY <2>3, JobSteps
    <3> QED
      BY <2>1, <3>1
  <2>5. JobLast'
    BY <2>1, <2>3, <2>4 DEF JobLast, Seen, NoneIsApart
  <2>6. InOrder(term[t])'
    BY <1>4, <2>1, <2>2, <2>3, <2>4, CandidateOrder DEF InOrder, ReadPcs, Seen
  <2>7. RefsFollow' /\ OneT2PerCandidate'
    BY <1>4, <2>1 DEF RefsFollow, OneT2PerCandidate
  <2> QED
    BY <2>5, <2>6, <2>7, CertifierSteps
<1>11. CASE CertStartT2(t)
  <2> DEFINE run == [by |-> t, cand |-> term[t].cand, on |-> local, end |-> None, ok |-> FALSE]
  <2>1. /\ term[t].pc = "certPending" /\ UNCHANGED <<remote, track>> /\ t2s' = Append(t2s, run)
        /\ job' = Running(term[t].cand) /\ term' = [term EXCEPT ![t].pc = "certTesting"]
    BY <1>11 DEF CertStartT2, Running
  <2>2. term'[t].pc = "certTesting" /\ term'[t].cand = term[t].cand
    BY <1>3, <2>1 DEF Commands
  <2>3. /\ term[t].cand \in Candidates /\ Seen(term[t].cand)
        /\ \A i \in DOMAIN t2s : t2s[i].cand \in Candidates /\ Before(t2s[i].cand, term[t].cand)
    BY <1>3, <2>1, CandidateIsLast DEF CertPcs, ReadPcs
  <2>4. job' \in Jobs /\ job'.cand = term[t].cand
    <3>1. /\ Running(term[t].cand) = [cand |-> term[t].cand, status |-> "RUNNING", succeeded |-> None]
          /\ [cand |-> term[t].cand, status |-> "RUNNING", succeeded |-> None] \in Jobs
      BY <2>3, JobSteps
    <3> QED
      BY <2>1, <3>1
  <2>5. run \in T2Runs /\ run.cand = term[t].cand
    BY <1>3, <2>3 DEF T2Runs, Safe, Shape
  <2>6. /\ DOMAIN t2s = 1..Len(t2s) /\ DOMAIN t2s' = 1..(Len(t2s) + 1) /\ Len(t2s) \in Nat
        /\ \A i \in DOMAIN t2s : t2s'[i] = t2s[i]
        /\ t2s'[Len(t2s) + 1] = run
    BY <2>1, <2>5, AppendProperties DEF Safe, Shape
  <2> HIDE DEF run
  <2>7. \A i \in DOMAIN t2s' : i \in DOMAIN t2s \/ i = Len(t2s) + 1
    BY <2>6
  <2>8. \A i \in DOMAIN t2s' : Before(t2s'[i].cand, term[t].cand)
    BY <2>3, <2>5, <2>6, <2>7, CandidateOrder
  <2>9. JobLast'
    BY <2>1, <2>3, <2>4, <2>8 DEF JobLast, Seen, NoneIsApart
  <2>10. OneT2PerCandidate'
    <3>1. \A i \in DOMAIN t2s : t2s[i].cand # term[t].cand
      BY <1>4, <2>1 DEF InOrder
    <3> QED
      BY <1>4, <2>5, <2>6, <2>7, <3>1 DEF OneT2PerCandidate
  <2>11. InOrder(term[t])'
    BY <2>1, <2>2, <2>3, <2>4, CandidateOrder DEF InOrder, ReadPcs, Seen
  <2>12. RefsFollow'
    BY <1>4, <2>1 DEF RefsFollow
  <2> QED
    BY <2>9, <2>10, <2>11, <2>12, CertifierSteps
<1>12. ASSUME NEW ok \in BOOLEAN, CertEndT2(t, ok) PROVE Ordered'
  <2> DEFINE n == CHOOSE i \in DOMAIN t2s : t2s[i].by = t /\ t2s[i].end = None
  <2>1. /\ term[t].pc = "certTesting" /\ UNCHANGED <<remote, track, job>>
        /\ t2s' = [t2s EXCEPT ![n].end = local, ![n].ok = ok]
        /\ term' = [term EXCEPT ![t].pc = IF ok THEN "certPassed" ELSE "certFailed"]
    BY <1>12 DEF CertEndT2
  <2> HIDE DEF n
  <2>2. term'[t].pc \in {"certPassed", "certFailed"} /\ term'[t].cand = term[t].cand
    BY <1>3, <2>1 DEF Commands
  <2>3. DOMAIN t2s' = DOMAIN t2s /\ \A i \in DOMAIN t2s : t2s'[i].cand = t2s[i].cand
    <3> SUFFICES ASSUME NEW i \in DOMAIN t2s PROVE DOMAIN t2s' = DOMAIN t2s /\ t2s'[i].cand = t2s[i].cand
      BY <2>1
    <3>1. t2s[i] \in T2Runs
      BY DEF Safe, Shape
    <3> QED
      BY <2>1, <3>1 DEF T2Runs
  <2>4. InOrder(term[t])'
    BY <1>4, <2>1, <2>2 DEF InOrder, CertPcs, ReadPcs, Seen
  <2>5. RefsFollow' /\ JobLast' /\ OneT2PerCandidate'
    BY <1>4, <2>1, <2>3 DEF RefsFollow, JobLast, Seen, OneT2PerCandidate
  <2> QED
    BY <2>4, <2>5, CertifierSteps
<1>13. ASSUME NEW fetched \in BOOLEAN, CertFinish(t, fetched) PROVE Ordered'
  <2> DEFINE passed == term[t].pc = "certPassed"
             good == passed /\ PostT2Identity(term[t].id, fetched)
  <2>1. /\ term[t].pc \in {"certPassed", "certFailed"} /\ UNCHANGED <<remote, t2s>>
        /\ track' = IF fetched THEN remote ELSE track
        /\ job' = TransitionJob(Running(term[t].cand), IF good THEN "PASS" ELSE "FAILED", passed)
        /\ term' = [term EXCEPT ![t] = Idle]
    BY <1>13 DEF CertFinish, Running
  <2>2. term'[t] = Idle
    BY <1>3, <2>1
  <2>3. /\ term[t].cand \in Candidates /\ Seen(term[t].cand)
        /\ \A i \in DOMAIN t2s : t2s[i].cand \in Candidates /\ Before(t2s[i].cand, term[t].cand)
    BY <1>3, <2>1, CandidateIsLast DEF CertPcs, ReadPcs
  <2>4. job' \in Jobs /\ job'.cand = term[t].cand
    <3>1. CASE good
      <4>1. job' = TransitionJob(Running(term[t].cand), "PASS", TRUE)
        BY <2>1, <3>1
      <4>2. job' = [cand |-> term[t].cand, status |-> "PASS", succeeded |-> TRUE]
        BY <2>3, <4>1, JobSteps
      <4> QED
        BY <2>3, <4>2 DEF Jobs
    <3>2. CASE ~good
      <4>1. passed \in BOOLEAN /\ job' = TransitionJob(Running(term[t].cand), "FAILED", passed)
        BY <2>1, <3>2
      <4> HIDE DEF passed
      <4>2. job' = [cand |-> term[t].cand, status |-> "FAILED", succeeded |-> passed]
        BY <2>3, <4>1, JobSteps
      <4> QED
        BY <2>3, <4>1, <4>2 DEF Jobs
    <3> QED
      BY <3>1, <3>2
  <2>5. Forward /\ RefsFollow'
    BY <1>1, <1>2, <2>1 DEF Forward, RefsFollow
  <2>6. JobLast'
    <3>1. ASSUME NEW k \in Candidates, Seen(k) PROVE Seen(k)'
      BY <2>5, <3>1, SeenStays
    <3>2. /\ term[t].cand.head <= track'.task /\ term[t].cand.base <= track'.main
          /\ TextBefore(term[t].cand.blob, term[t].cand.roadmap, remote'.control.blob, remote'.control.text.bind.roadmap)
      BY <2>3, <3>1 DEF Seen
    <3> QED
      BY <2>1, <2>3, <2>4, <3>2 DEF JobLast, Seen, NoneIsApart
  <2>7. InOrder(term[t])'
    BY <2>2, IdleCommand DEF InOrder, CertPcs, ReadPcs
  <2>8. OneT2PerCandidate'
    BY <1>4, <2>1 DEF OneT2PerCandidate
  <2> QED
    BY <2>5, <2>6, <2>7, <2>8, CertifierSteps
<1> QED
  BY <1>6, <1>7, <1>8, <1>9, <1>10, <1>11, <1>12, <1>13 DEF Certify

(* The lane starts in order.                                               *)
LEMMA InitIsOrdered ==
  ASSUME Init
  PROVE  Ordered
<1>1. PICK text \in Texts :
        remote = [main |-> 1, task |-> 2,
                  control |-> [rev |-> 1, blob |-> 1, text |-> text, review |-> None, roadmap |-> 1]]
  BY DEF Init
<1>2. track = remote /\ job = None /\ term = [t \in Terminals |-> Idle] /\ t2s = <<>>
  BY DEF Init
<1>3. RefsFollow /\ JobLast /\ OneT2PerCandidate
  BY <1>1, <1>2 DEF RefsFollow, JobLast, OneT2PerCandidate
<1>4. CertifierAhead
  BY <1>2, IdleCommand DEF CertifierAhead, InOrder, CertPcs, ReadPcs
<1> QED
  BY <1>3, <1>4 DEF Ordered

(* One clone, one terminal for each command: however often certify-reviewed *)
(* is given again, killed or overtaken, a candidate is put through T2 once  *)
(* (cmd_certify_reviewed: "second T2 is forbidden").  Candidates only move  *)
(* forward, so the job on file is the latest of them and comparing with it  *)
(* is comparing with all.                                                   *)
THEOREM CandidatesTestedOnce ==
  ASSUME NoneIsApart, \A s, u \in Mergers : s = u, \A s, u \in Certifiers : s = u
  PROVE  Spec => []OneT2PerCandidate
<1>1. Init => Ordered
  BY InitIsOrdered
<1>2. Safe /\ Safe' /\ Ordered /\ [Next]_vars => Ordered'
  <2> SUFFICES ASSUME Safe, Safe', Ordered, [Next]_vars PROVE Ordered'
    OBVIOUS
  <2>1. ASSUME NEW t \in Mergers, Merge(t) PROVE Ordered'
    BY <2>1, MergeKeepsOrder DEF Terminals
  <2>2. ASSUME NEW t \in Terminals, Crash(t) PROVE Ordered'
    BY <2>2, MergeKeepsOrder
  <2>3. CASE UNCHANGED vars
    <3>1. UNCHANGED <<remote, track, job, term, t2s>>
      BY <2>3 DEF vars
    <3>2. Forward /\ RefsFollow'
      BY <3>1 DEF Forward, TextBefore, RefsFollow, Ordered, Safe, Shape
    <3> QED
      BY <3>1, <3>2, OrderStays
  <2> QED
    BY <2>1, <2>2, <2>3, EnvironmentKeepsOrder, CertifyKeepsOrder DEF Next
<1>3. Ordered => OneT2PerCandidate
  BY DEF Ordered
<1>4. Spec => []Safe
  BY LaneIsSafe
<1> QED
  BY <1>1, <1>2, <1>3, <1>4, PTL DEF Spec

-----------------------------------------------------------------------------
(***************************************************************************)
(* The impact of a FIX and the classification of a failed worker, for any  *)
(* pack, trees and change.                                                 *)
(***************************************************************************)
(* What a proof rests on.                                                  *)
RestsOn(b) == b.subjects \cup b.dependencies

(* The one decision on a proof, and what it means when it is carried.      *)
LEMMA DecisionMeans ==
  ASSUME NEW b, NEW previous, NEW current, NEW changed, \A f, S : Restrict(f, S) # None,
         ProofBindingTrue(b, previous)
  PROVE  LET decision == ProofDecision(b, previous, current, changed)
         IN  /\ decision \in {"CARRY_FORWARD_ALLOWED", "INVALIDATE", "CARRY_FORWARD_FORBIDDEN", "UNKNOWN_IMPACT"}
             /\ decision = "CARRY_FORWARD_ALLOWED" =>
                  /\ b.proof.status = "VALID" /\ changed \cap (RestsOn(b) \cup b.tests) = {}
                  /\ RestsOn(b) \subseteq DOMAIN previous /\ RestsOn(b) \subseteq DOMAIN current
                  /\ \A x \in RestsOn(b) : current[x] = previous[x]
<1> DEFINE ps == ResolveFingerprint(previous, b.subjects)
           pd == ResolveFingerprint(previous, b.dependencies)
           cs == ResolveFingerprint(current, b.subjects)
           cd == ResolveFingerprint(current, b.dependencies)
           unknown == None \in {cs, cd, ps, pd}
           carry == EvaluateProofCarryForward(b.proof, cs, cd)
           touched == changed \cap (b.subjects \cup b.dependencies \cup b.tests) # {}
           decision == ProofDecision(b, previous, current, changed)
<1>1. decision = CASE unknown -> "UNKNOWN_IMPACT"
                   [] ~unknown /\ carry = "CARRY_FORWARD_ALLOWED" /\ touched -> "INVALIDATE"
                   [] OTHER -> carry
  BY DEF ProofDecision
<1>2. /\ carry \in {"CARRY_FORWARD_ALLOWED", "INVALIDATE", "CARRY_FORWARD_FORBIDDEN"}
      /\ carry = "CARRY_FORWARD_ALLOWED" =>
           b.proof.status = "VALID" /\ b.proof.subject = cs /\ b.proof.dependency = cd
  BY DEF EvaluateProofCarryForward
<1>3. ps \in {None, b.proof.subject} /\ pd \in {None, b.proof.dependency}
  BY DEF ProofBindingTrue
<1>4. ASSUME NEW tree, NEW paths, ResolveFingerprint(tree, paths) # None
      PROVE  paths \subseteq DOMAIN tree /\ ResolveFingerprint(tree, paths) = [x \in paths |-> tree[x]]
  BY <1>4 DEF ResolveFingerprint, Restrict
<1> HIDE DEF ps, pd, cs, cd, carry, touched, decision
<1>5. decision \in {"CARRY_FORWARD_ALLOWED", "INVALIDATE", "CARRY_FORWARD_FORBIDDEN", "UNKNOWN_IMPACT"}
  BY <1>1, <1>2
<1>6. ASSUME decision = "CARRY_FORWARD_ALLOWED"
      PROVE  /\ b.proof.status = "VALID" /\ ~touched /\ ps = cs /\ pd = cd
             /\ ps # None /\ pd # None
  BY <1>1, <1>2, <1>3, <1>6
<1>7. ASSUME decision = "CARRY_FORWARD_ALLOWED"
      PROVE  /\ RestsOn(b) \subseteq DOMAIN previous /\ RestsOn(b) \subseteq DOMAIN current
             /\ \A x \in RestsOn(b) : current[x] = previous[x]
  <2>1. /\ b.subjects \subseteq DOMAIN previous /\ ps = [x \in b.subjects |-> previous[x]]
        /\ b.subjects \subseteq DOMAIN current /\ cs = [x \in b.subjects |-> current[x]]
    BY <1>4, <1>6, <1>7 DEF ps, cs
  <2>2. /\ b.dependencies \subseteq DOMAIN previous /\ pd = [x \in b.dependencies |-> previous[x]]
        /\ b.dependencies \subseteq DOMAIN current /\ cd = [x \in b.dependencies |-> current[x]]
    BY <1>4, <1>6, <1>7 DEF pd, cd
  <2>3. \A x \in b.subjects : current[x] = previous[x]
    BY <1>6, <1>7, <2>1
  <2>4. \A x \in b.dependencies : current[x] = previous[x]
    BY <1>6, <1>7, <2>2
  <2> QED
    BY <2>1, <2>2, <2>3, <2>4 DEF RestsOn
<1>8. ASSUME decision = "CARRY_FORWARD_ALLOWED"
      PROVE  b.proof.status = "VALID" /\ changed \cap (RestsOn(b) \cup b.tests) = {}
  BY <1>6, <1>8 DEF touched, RestsOn
<1> QED
  BY <1>5, <1>7, <1>8 DEF decision

(* Whatever a FIX changed, a proof is carried forward only when it was     *)
(* valid and every file that it rests on is in both trees with the same    *)
(* content and neither it nor a test of it is among the changes; every     *)
(* proof is carried, invalidated or forbidden, and one only; the tests of  *)
(* a proof that is not carried are selected, or the fallback is; and the   *)
(* fallback is selected whenever a change was not foreseen by the pack or  *)
(* is protected and outside every proof (analyze_fix_impact).              *)
THEOREM CarriedProofsStand ==
  ASSUME NEW pack, NEW head, NEW previous, NEW current, NEW changed,
         \A f, S : Restrict(f, S) # None,
         NEW a, a = AnalyzeFixImpact(pack, head, previous, current, changed), a # Refused
  PROVE  /\ \A b \in a.carried :
              /\ b.proof.status = "VALID" /\ changed \cap (RestsOn(b) \cup b.tests) = {}
              /\ RestsOn(b) \subseteq DOMAIN previous /\ RestsOn(b) \subseteq DOMAIN current
              /\ \A x \in RestsOn(b) : current[x] = previous[x]
         /\ pack.bindings = a.carried \cup a.invalidated \cup a.forbidden
         /\ a.carried \cap (a.invalidated \cup a.forbidden) = {} /\ a.invalidated \cap a.forbidden = {}
         /\ \A b \in pack.bindings \ a.carried : b.tests \subseteq a.selected \/ pack.fallback \subseteq a.selected
         /\ \A x \in changed :
              \/ pack.fallback \subseteq a.selected
              \/ x \in pack.affected /\ (x \in pack.protected => \E b \in pack.bindings : x \in RestsOn(b))
<1> DEFINE decision(b) == ProofDecision(b, previous, current, changed)
           of(kinds) == {b \in pack.bindings : decision(b) \in kinds}
           retested == UNION {b.tests : b \in of({"INVALIDATE", "CARRY_FORWARD_FORBIDDEN"})}
           surface == UNION {b.subjects \cup b.dependencies : b \in pack.bindings}
           unknown == \/ ~pack.known \/ of({"UNKNOWN_IMPACT"}) # {}
                      \/ ~(changed \subseteq pack.affected)
                      \/ (changed \cap pack.protected) \ surface # {}
<1>1. /\ \A b \in pack.bindings : ProofBindingTrue(b, previous)
      /\ a.carried = of({"CARRY_FORWARD_ALLOWED"}) /\ a.invalidated = of({"INVALIDATE"})
      /\ a.forbidden = of({"UNKNOWN_IMPACT", "CARRY_FORWARD_FORBIDDEN"})
      /\ a.selected = retested \cup (IF unknown THEN pack.fallback ELSE pack.required)
  BY DEF AnalyzeFixImpact
<1>2. ASSUME NEW b \in pack.bindings
      PROVE  /\ decision(b) \in {"CARRY_FORWARD_ALLOWED", "INVALIDATE", "CARRY_FORWARD_FORBIDDEN", "UNKNOWN_IMPACT"}
             /\ decision(b) = "CARRY_FORWARD_ALLOWED" =>
                  /\ b.proof.status = "VALID" /\ changed \cap (RestsOn(b) \cup b.tests) = {}
                  /\ RestsOn(b) \subseteq DOMAIN previous /\ RestsOn(b) \subseteq DOMAIN current
                  /\ \A x \in RestsOn(b) : current[x] = previous[x]
  BY <1>1, DecisionMeans
<1> HIDE DEF decision
<1>3. \A b \in a.carried :
        /\ b.proof.status = "VALID" /\ changed \cap (RestsOn(b) \cup b.tests) = {}
        /\ RestsOn(b) \subseteq DOMAIN previous /\ RestsOn(b) \subseteq DOMAIN current
        /\ \A x \in RestsOn(b) : current[x] = previous[x]
  BY <1>1, <1>2
<1>4. /\ pack.bindings = a.carried \cup a.invalidated \cup a.forbidden
      /\ a.carried \cap (a.invalidated \cup a.forbidden) = {} /\ a.invalidated \cap a.forbidden = {}
  BY <1>1, <1>2
<1>5. unknown => pack.fallback \subseteq a.selected
  BY <1>1
<1>6. ASSUME NEW b \in pack.bindings \ a.carried
      PROVE  b.tests \subseteq a.selected \/ pack.fallback \subseteq a.selected
  <2>1. CASE decision(b) = "UNKNOWN_IMPACT"
    BY <1>5, <2>1
  <2>2. CASE decision(b) \in {"INVALIDATE", "CARRY_FORWARD_FORBIDDEN"}
    <3>1. b.tests \subseteq retested
      BY <2>2
    <3> QED
      BY <1>1, <3>1
  <2> QED
    BY <1>1, <1>2, <2>1, <2>2
<1>7. ASSUME NEW x \in changed, ~unknown
      PROVE  x \in pack.affected /\ (x \in pack.protected => \E b \in pack.bindings : x \in RestsOn(b))
  BY <1>7 DEF RestsOn
<1> QED
  BY <1>3, <1>4, <1>5, <1>6, <1>7

(* A failed worker is classified as one that may be replaced (its flow     *)
(* says BLOCKED) exactly when it left the head and the worktree as they    *)
(* were, and the record of every classification is one that its reader     *)
(* accepts (classify_worker_failure, WorkerFailureEvidence).               *)
THEOREM BlockedMeansNothingLeft ==
  ASSUME NEW status, NEW before, NEW after, NEW dirty, NEW allowed, None \notin DOMAIN NextActionOf,
         NEW e, e = ClassifyWorkerFailure(status, before, after, dirty, allowed), e # Refused
  PROVE  /\ WorkerFailureEvidenceOK(e)
         /\ FlowStatus(e.class) = "BLOCKED" <=> before = after /\ dirty = {}
<1> DEFINE zero == before = after /\ dirty = {}
           class == FailureClass(status, zero, dirty, allowed)
<1>1. class # Refused /\ e = [class |-> class, next |-> NextActionOf[class], before |-> before, after |-> after,
              dirty |-> dirty, zero |-> zero, status |-> status]
  BY DEF ClassifyWorkerFailure
<1>2. \/ class = "CLEAN_TIMEOUT" /\ zero /\ status = "TIMED_OUT"
      \/ class = "DIRTY_TIMEOUT_RECOVERY_REQUIRED" /\ ~zero /\ status = "TIMED_OUT"
      \/ class = "CLEAN_NO_WORKTREE_DELTA" /\ zero /\ status # "TIMED_OUT"
      \/ class = "PRODUCTIVE_NONZERO_RECOVERY_CANDIDATE" /\ ~zero /\ status = "EXITED_NONZERO"
  BY <1>1 DEF FailureClass
<1> HIDE DEF class
<1>3. /\ e.class = class /\ e.next = NextActionOf[class] /\ e.zero = zero /\ e.status = status
      /\ e.before = before /\ e.after = after /\ e.dirty = dirty
  BY <1>1
<1>4. WorkerFailureEvidenceOK(e)
  BY <1>2, <1>3 DEF WorkerFailureEvidenceOK
<1>5. class # None
  BY <1>2 DEF NextActionOf
<1>6. FlowStatus(class) = "BLOCKED" <=> zero
  BY <1>2, <1>5 DEF FlowStatus
<1> QED
  BY <1>3, <1>4, <1>6

-----------------------------------------------------------------------------
(***************************************************************************)
(* The findings of a review, for any number of findings, rounds and moves. *)
(***************************************************************************)
(* A registry of the findings ids.                                         *)
RegistryShape(r, ids) ==
  /\ r = [findings |-> r.findings, round |-> r.round, head |-> r.head, effort |-> r.effort, risk |-> r.risk]
  /\ r.findings = [id \in ids |-> r.findings[id]]
  /\ \A id \in ids : /\ r.findings[id] = [status |-> r.findings[id].status, introduced |-> r.findings[id].introduced,
                                          fixedBy |-> r.findings[id].fixedBy, closed |-> r.findings[id].closed]
                     /\ r.findings[id].status \in DOMAIN FindingTransitions

(* n comes from r by an accepted move of finding id.                       *)
Moved(r, n, id) ==
  /\ n # Refused
  /\ \E target, head, round, evidence, fixedBy, closed :
        n = TransitionRegistryFinding(r, id, target, head, round, evidence, fixedBy, closed)

(* What a closed finding has to show in its registry.                      *)
ClosedOK(r, id) ==
  r.findings[id].status = "CLOSED" =>
    /\ r.findings[id].fixedBy # None /\ r.findings[id].closed # None
    /\ r.findings[id].closed >= r.findings[id].introduced /\ r.findings[id].closed <= r.round

(* A move changes one finding, along a transition, and leaves a registry.  *)
LEMMA MovedIs ==
  ASSUME NEW r, NEW ids, RegistryShape(r, ids), NEW n, NEW id, Moved(r, n, id)
  PROVE  /\ RegistryShape(n, ids) /\ id \in ids /\ FindingRegistryOK(n) /\ ClosedOK(n, id)
         /\ \A x \in ids : x # id => n.findings[x] = r.findings[x]
         /\ n.findings[id].status \in FindingTransitions[r.findings[id].status]
<1>1. PICK target, head, round, evidence, fixedBy, closed :
        n = TransitionRegistryFinding(r, id, target, head, round, evidence, fixedBy, closed)
  BY DEF Moved
<1>2. n # Refused
  BY DEF Moved
<1>3. PICK g : g = TransitionFinding(r.findings[id], target, evidence, fixedBy, closed)
  OBVIOUS
<1>4. /\ n = [r EXCEPT !.findings[id] = g, !.round = round, !.head = head]
      /\ id \in DOMAIN r.findings /\ g # Refused /\ FindingRegistryOK(n)
  BY <1>1, <1>2, <1>3 DEF TransitionRegistryFinding
<1>5. id \in ids
  BY <1>4 DEF RegistryShape
<1>6. /\ n.findings = [r.findings EXCEPT ![id] = g] /\ n.round = round
      /\ n = [findings |-> n.findings, round |-> n.round, head |-> n.head, effort |-> n.effort, risk |-> n.risk]
  BY <1>4 DEF RegistryShape
<1>7. /\ n.findings = [x \in ids |-> n.findings[x]] /\ n.findings[id] = g
      /\ \A x \in ids : x # id => n.findings[x] = r.findings[x]
  BY <1>5, <1>6 DEF RegistryShape
<1>8. PICK f : f = r.findings[id]
  OBVIOUS
<1>9. f = [status |-> f.status, introduced |-> f.introduced, fixedBy |-> f.fixedBy, closed |-> f.closed]
      /\ f.status \in DOMAIN FindingTransitions
  BY <1>5, <1>8 DEF RegistryShape
<1>10. /\ g = [f EXCEPT !.status = target, !.fixedBy = IF fixedBy = None THEN @ ELSE fixedBy,
                        !.closed = IF closed = None THEN @ ELSE closed]
       /\ target \in FindingTransitions[f.status] /\ FindingRecordOK(g)
  BY <1>3, <1>4, <1>8 DEF TransitionFinding
<1>11. /\ g = [status |-> g.status, introduced |-> g.introduced, fixedBy |-> g.fixedBy, closed |-> g.closed]
       /\ g.status = target /\ target \in DOMAIN FindingTransitions
  <2>1. g = [status |-> g.status, introduced |-> g.introduced, fixedBy |-> g.fixedBy, closed |-> g.closed]
        /\ g.status = target
    BY <1>9, <1>10
  <2>2. \A s \in DOMAIN FindingTransitions : FindingTransitions[s] \subseteq DOMAIN FindingTransitions
    BY DEF FindingTransitions
  <2> QED
    BY <1>9, <1>10, <2>1, <2>2
<1>12. RegistryShape(n, ids)
  BY <1>6, <1>7, <1>11 DEF RegistryShape
<1>13. ClosedOK(n, id)
  <2>1. g.status = "CLOSED" => g.fixedBy # None /\ g.closed # None /\ g.closed >= g.introduced
    BY <1>10 DEF FindingRecordOK
  <2>2. g.closed # None => g.closed <= n.round
    BY <1>4, <1>5, <1>7 DEF FindingRegistryOK
  <2> QED
    BY <1>7, <2>1, <2>2 DEF ClosedOK
<1> QED
  BY <1>4, <1>5, <1>7, <1>8, <1>10, <1>11, <1>12, <1>13

(* The status of a finding after i moves.                                  *)
StatusAt(r, i, id) == r[i].findings[id].status

(* How a finding came to where it is after i moves: a fix was submitted,   *)
(* then it was verified, and it was not open since.                        *)
Traced(r, i, id, ids) ==
  /\ RegistryShape(r[i], ids) /\ ClosedOK(r[i], id)
  /\ StatusAt(r, i, id) = "VERIFYING" =>
       \E k \in 0 .. i - 1 : /\ StatusAt(r, k, id) = "FIX_SUBMITTED"
                             /\ \A m \in k .. i : StatusAt(r, m, id) \in {"FIX_SUBMITTED", "VERIFYING"}
  /\ StatusAt(r, i, id) = "CLOSED" =>
       \E k, j \in 0 .. i - 1 :
         /\ k < j /\ StatusAt(r, k, id) = "FIX_SUBMITTED" /\ StatusAt(r, j, id) = "VERIFYING"
         /\ \A m \in k .. i : StatusAt(r, m, id) \in {"FIX_SUBMITTED", "VERIFYING", "CLOSED"}

(* One more move keeps the trace.                                          *)
LEMMA TraceGrows ==
  ASSUME NEW r, NEW ids, NEW id \in ids, NEW i \in Nat, NEW i1 \in Nat, i1 = i + 1,
         Traced(r, i, id, ids), NEW who, Moved(r[i], r[i1], who)
  PROVE  Traced(r, i1, id, ids)
<1>1. RegistryShape(r[i], ids) /\ ClosedOK(r[i], id)
  BY DEF Traced
<1>2. /\ RegistryShape(r[i1], ids) /\ who \in ids /\ FindingRegistryOK(r[i1]) /\ ClosedOK(r[i1], who)
      /\ \A x \in ids : x # who => r[i1].findings[x] = r[i].findings[x]
      /\ r[i1].findings[who].status \in FindingTransitions[r[i].findings[who].status]
  BY <1>1, MovedIs
<1>3. DOMAIN r[i1].findings = ids
  BY <1>2 DEF RegistryShape
<1>4. /\ \A k \in 0 .. i - 1 : k \in 0 .. i1 - 1
      /\ i \in 0 .. i1 - 1
      /\ \A k \in 0 .. i : \A m \in k .. i1 : m \in k .. i \/ m = i1
  OBVIOUS
<1>5. CASE who # id
  <2>1. r[i1].findings[id] = r[i].findings[id] /\ StatusAt(r, i1, id) = StatusAt(r, i, id)
    BY <1>2, <1>5 DEF StatusAt
  <2>2. ClosedOK(r[i1], id)
    <3>1. r[i1].findings[id].closed # None => r[i1].findings[id].closed <= r[i1].round
      BY <1>2, <1>3 DEF FindingRegistryOK
    <3> QED
      BY <1>1, <2>1, <3>1 DEF ClosedOK
  <2>3. ASSUME StatusAt(r, i1, id) = "VERIFYING"
        PROVE  \E k \in 0 .. i1 - 1 :
                 /\ StatusAt(r, k, id) = "FIX_SUBMITTED"
                 /\ \A m \in k .. i1 : StatusAt(r, m, id) \in {"FIX_SUBMITTED", "VERIFYING"}
    <3>1. PICK k \in 0 .. i - 1 :
            /\ StatusAt(r, k, id) = "FIX_SUBMITTED"
            /\ \A m \in k .. i : StatusAt(r, m, id) \in {"FIX_SUBMITTED", "VERIFYING"}
      BY <2>1, <2>3 DEF Traced
    <3>2. k \in 0 .. i1 - 1 /\ k \in 0 .. i
      BY <3>1, <1>4
    <3>3. \A m \in k .. i1 : StatusAt(r, m, id) \in {"FIX_SUBMITTED", "VERIFYING"}
      BY <1>4, <2>3, <3>1, <3>2
    <3> QED
      BY <3>1, <3>2, <3>3
  <2>4. ASSUME StatusAt(r, i1, id) = "CLOSED"
        PROVE  \E k, j \in 0 .. i1 - 1 :
                 /\ k < j /\ StatusAt(r, k, id) = "FIX_SUBMITTED" /\ StatusAt(r, j, id) = "VERIFYING"
                 /\ \A m \in k .. i1 : StatusAt(r, m, id) \in {"FIX_SUBMITTED", "VERIFYING", "CLOSED"}
    <3>1. PICK k \in 0 .. i - 1, j \in 0 .. i - 1 :
            /\ k < j /\ StatusAt(r, k, id) = "FIX_SUBMITTED" /\ StatusAt(r, j, id) = "VERIFYING"
            /\ \A m \in k .. i : StatusAt(r, m, id) \in {"FIX_SUBMITTED", "VERIFYING", "CLOSED"}
      BY <2>1, <2>4 DEF Traced
    <3>2. k \in 0 .. i1 - 1 /\ j \in 0 .. i1 - 1 /\ k \in 0 .. i
      BY <3>1, <1>4
    <3>3. \A m \in k .. i1 : StatusAt(r, m, id) \in {"FIX_SUBMITTED", "VERIFYING", "CLOSED"}
      BY <1>4, <2>4, <3>1, <3>2
    <3> QED
      BY <3>1, <3>2, <3>3
  <2> QED
    BY <1>2, <2>2, <2>3, <2>4 DEF Traced
<1>6. CASE who = id
  <2>1. StatusAt(r, i1, id) \in FindingTransitions[StatusAt(r, i, id)] /\ StatusAt(r, i, id) \in DOMAIN FindingTransitions
    BY <1>1, <1>2, <1>6 DEF StatusAt, RegistryShape
  <2>2. /\ StatusAt(r, i1, id) = "VERIFYING" => StatusAt(r, i, id) = "FIX_SUBMITTED"
        /\ StatusAt(r, i1, id) = "CLOSED" => StatusAt(r, i, id) = "VERIFYING"
    BY <2>1 DEF FindingTransitions
  <2>3. ASSUME StatusAt(r, i1, id) = "VERIFYING"
        PROVE  \E k \in 0 .. i1 - 1 :
                 /\ StatusAt(r, k, id) = "FIX_SUBMITTED"
                 /\ \A m \in k .. i1 : StatusAt(r, m, id) \in {"FIX_SUBMITTED", "VERIFYING"}
    <3>1. \A m \in i .. i1 : m = i \/ m = i1
      OBVIOUS
    <3>2. \A m \in i .. i1 : StatusAt(r, m, id) \in {"FIX_SUBMITTED", "VERIFYING"}
      BY <2>2, <2>3, <3>1
    <3> QED
      BY <1>4, <2>2, <2>3, <3>2
  <2>4. ASSUME StatusAt(r, i1, id) = "CLOSED"
        PROVE  \E k, j \in 0 .. i1 - 1 :
                 /\ k < j /\ StatusAt(r, k, id) = "FIX_SUBMITTED" /\ StatusAt(r, j, id) = "VERIFYING"
                 /\ \A m \in k .. i1 : StatusAt(r, m, id) \in {"FIX_SUBMITTED", "VERIFYING", "CLOSED"}
    <3>1. PICK k \in 0 .. i - 1 :
            /\ StatusAt(r, k, id) = "FIX_SUBMITTED"
            /\ \A m \in k .. i : StatusAt(r, m, id) \in {"FIX_SUBMITTED", "VERIFYING"}
      BY <2>2, <2>4 DEF Traced
    <3>2. k \in 0 .. i1 - 1 /\ k \in 0 .. i /\ k < i
      BY <3>1, <1>4
    <3>3. \A m \in k .. i1 : StatusAt(r, m, id) \in {"FIX_SUBMITTED", "VERIFYING", "CLOSED"}
      BY <1>4, <2>4, <3>1, <3>2
    <3> QED
      BY <1>4, <2>2, <2>4, <3>1, <3>2, <3>3
  <2> QED
    BY <1>2, <1>6, <2>3, <2>4 DEF Traced
<1> QED
  BY <1>5, <1>6

(* Through any number of moves of any findings, a finding that is closed   *)
(* names its fix and a round that the registry has reached, and a fix was  *)
(* submitted and then verified since the finding was last open             *)
(* (transition_finding, transition_registry_finding).                      *)
THEOREM ClosedIsVerified ==
  ASSUME NEW n \in Nat, NEW r, NEW ids, RegistryShape(r[0], ids),
         \A i \in 1 .. n : \E who : Moved(r[i - 1], r[i], who),
         NEW id \in ids, StatusAt(r, 0, id) \in {"NEW", "OPEN", "REOPENED"},
         StatusAt(r, n, id) = "CLOSED"
  PROVE  /\ r[n].findings[id].fixedBy # None
         /\ r[n].findings[id].closed >= r[n].findings[id].introduced /\ r[n].findings[id].closed <= r[n].round
         /\ \E k, j \in 0 .. n - 1 :
              /\ k < j /\ StatusAt(r, k, id) = "FIX_SUBMITTED" /\ StatusAt(r, j, id) = "VERIFYING"
              /\ \A m \in k .. n : StatusAt(r, m, id) \notin {"NEW", "OPEN", "REOPENED"}
<1> DEFINE Bad == {i \in 0 .. n : ~Traced(r, i, id, ids)}
           Less == OpToRel(<, Nat)
<1>1. Traced(r, 0, id, ids)
  BY DEF Traced, ClosedOK, StatusAt
<1>2. IsWellFoundedOn(Less, Nat)
  BY NatLessThanWellFounded
<1>3. \A x, y \in Nat : y < x => <<y, x>> \in Less
  BY DEF OpToRel
<1> HIDE DEF Less
<1>4. Bad = {}
  <2> SUFFICES ASSUME Bad # {} PROVE FALSE
    OBVIOUS
  <2>1. Bad \subseteq Nat
    OBVIOUS
  <2>2. PICK b \in Bad : \A y \in Bad : ~(<<y, b>> \in Less)
    <3> HIDE DEF Bad
    <3> QED
      BY <1>2, <2>1, WFMin
  <2>3. b \in 1 .. n /\ b - 1 \in 0 .. n /\ b - 1 < b /\ b - 1 \in Nat /\ b \in Nat /\ b = (b - 1) + 1
    BY <1>1, <2>2
  <2>4. Traced(r, b - 1, id, ids)
    BY <1>3, <2>2, <2>3
  <2>5. PICK who : Moved(r[b - 1], r[b], who)
    BY <2>3
  <2>6. Traced(r, b, id, ids)
    BY <2>3, <2>4, <2>5, TraceGrows
  <2> QED
    BY <2>2, <2>6
<1>5. Traced(r, n, id, ids)
  BY <1>4
<1> QED
  BY <1>5 DEF Traced, ClosedOK, StatusAt
=============================================================================
