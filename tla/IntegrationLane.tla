---------------------------- MODULE IntegrationLane ----------------------------
(***************************************************************************)
(* A capability batch and its linear integration lane                      *)
(* (aios_bridge/capability_batch.py, integration_lane.py).  The functions  *)
(* of the two files are pure; their caller keeps the lane and shows them   *)
(* the manifest, the task's binding and the facts of the moment.  Here the *)
(* caller is the environment: the author may revise the manifest between   *)
(* any two calls, a binding is taken long before it is used, task branches *)
(* and main move.                                                          *)
(*                                                                         *)
(* Digests are the records they digest; a commit is a number, anc its      *)
(* ancestors and itself; a member's position is its index.                 *)
(***************************************************************************)
EXTENDS Integers, Sequences, FiniteSets, SequencesExt, Functions

CONSTANTS None, Refused,
          Tasks,
          MaxVersion,   \* bound on manifest revisions
          MaxCommit     \* bound on commits

ASSUME BoundsAssumption == MaxVersion \in Nat \ {0} /\ MaxCommit \in Nat

VARIABLES current,   \* the batch manifest in the control plane
          lane,      \* the caller's lane state
          held,      \* task -> the binding it was started with, or None
          branch,    \* task -> head of its branch, or None
          reviewed,  \* task -> head that its review names, or None
          main, anc, \* head of main; commit -> ancestors
          lease,     \* an executor lease is active or uncertain
          history    \* history variable: what each advance integrated

vars == <<current, lane, held, branch, reviewed, main, anc, lease, history>>

Commits == DOMAIN anc
IdsOf(members) == [i \in DOMAIN members |-> members[i].task]

-----------------------------------------------------------------------------
(* The manifest: [version, base, members, status], a member [task, blob,   *)
(* base, since] (since: its membership_version).  A member's branch is its *)
(* task; blob stands for its artifact and for the scope that goes with it. *)

BatchTransitions ==
    [OPEN |-> {"INTEGRATING", "SUPERSEDED", "RECOVERY_REQUIRED"},
     INTEGRATING |-> {"READY", "SUPERSEDED", "RECOVERY_REQUIRED"},
     READY |-> {"SUPERSEDED", "RECOVERY_REQUIRED"},
     SUPERSEDED |-> {}, RECOVERY_REQUIRED |-> {"SUPERSEDED"}]

ManifestOK(m) ==
    /\ m.status # "OPEN" => m.members # <<>>
    /\ IsInjective(IdsOf(m.members))
    /\ m.members # <<>> => m.members[1].base = m.base

TransitionBatchStatus(m, status) ==
    LET next == [m EXCEPT !.status = status]
    IN  IF status \in BatchTransitions[m.status] /\ ManifestOK(next) THEN next ELSE Refused

ValidMembershipRevision(previous, candidate) ==
    /\ [candidate EXCEPT !.members = previous.members, !.version = previous.version] = previous
    /\ candidate.members # previous.members
    /\ candidate.version = previous.version + 1

-----------------------------------------------------------------------------
(* The lane: [base, head, integrated, status, bound], bound being the      *)
(* manifest whose fingerprint it carries.                                  *)

LaneOK(l) ==
    /\ IsInjective(l.integrated)
    /\ l.status = "OPEN" => l.head = l.base /\ l.integrated = <<>>

InitialLaneState(m) ==
    [base |-> m.base, head |-> m.base, integrated |-> <<>>, status |-> "OPEN", bound |-> m]

ManifestLaneIdentity(m, l) == l.bound = m /\ l.base = m.base

BeginLaneIntegration(m, l) ==
    LET next == TransitionBatchStatus(m, "INTEGRATING")
    IN  IF ManifestLaneIdentity(m, l) /\ l.status = "OPEN" /\ next # Refused
        THEN [manifest |-> next, lane |-> [l EXCEPT !.bound = next, !.status = "INTEGRATING"]]
        ELSE Refused

\* A binding is the member and the manifest it was taken from.
BindingFromMember(m, i) == [manifest |-> m, member |-> m.members[i], position |-> i]

BindingForNextTask(m, l) ==
    LET i == Len(l.integrated) + 1
    IN  IF ManifestLaneIdentity(m, l) /\ i <= Len(m.members) /\ m.members[i].base = l.head
        THEN BindingFromMember(m, i) ELSE Refused

\* Mutant: the integrated prefix is compared by task only.
RebindByTask(previous, candidate, l, mainNow) ==
    LET n == Len(l.integrated)
    IN  IF /\ ManifestLaneIdentity(previous, l) /\ l.status = "INTEGRATING"
           /\ mainNow = previous.base /\ ValidMembershipRevision(previous, candidate)
           /\ n <= Len(candidate.members)
           /\ SubSeq(IdsOf(candidate.members), 1, n) = l.integrated
           /\ n < Len(candidate.members) => candidate.members[n + 1].base = l.head
        THEN [l EXCEPT !.bound = candidate] ELSE Refused

RebindLaneManifest(previous, candidate, l, mainNow) ==
    LET n == Len(l.integrated)
        prefix(m) == SubSeq(m.members, 1, IF n <= Len(m.members) THEN n ELSE Len(m.members))
    IN  IF /\ ManifestLaneIdentity(previous, l)
           /\ l.status = "INTEGRATING"
           /\ mainNow = previous.base
           /\ ValidMembershipRevision(previous, candidate)
           /\ IdsOf(prefix(previous)) = l.integrated
           /\ prefix(candidate) = prefix(previous)
           /\ n < Len(candidate.members) => candidate.members[n + 1].base = l.head
        THEN [l EXCEPT !.bound = candidate] ELSE Refused

\* e: [manifest, lane, binding, current, reviewed, head, task, lease, main, ff, facts],
\* task: [branch, blob, scope], the task's authority as it is now,
\* facts: [roadmap, semantic, t2, passed, notRequired, permitted, known, trust, scope].
LaneIntegrationPreflight(e) ==
    LET m == e.manifest
        i == Len(e.lane.integrated) + 1
        f == e.facts
    IN  /\ ManifestLaneIdentity(m, e.lane)
        /\ m.status = "INTEGRATING" /\ e.lane.status = "INTEGRATING"
        /\ e.current = m /\ f.roadmap
        /\ i <= Len(m.members)
        /\ e.binding = BindingFromMember(m, i)
        /\ SubSeq(IdsOf(m.members), 1, i - 1) = e.lane.integrated
        /\ e.binding.member.base = e.lane.head
        /\ e.task.branch = e.binding.member.task
        /\ e.task.blob = e.binding.member.blob
        /\ f.semantic
        /\ e.reviewed = e.head /\ e.reviewed # e.lane.head
        /\ f.t2 = 0
        /\ f.passed # (f.notRequired /\ f.permitted)
        /\ f.known /\ f.trust
        /\ f.scope /\ e.task.scope = e.binding.member.blob
        /\ ~e.lease
        /\ e.main = m.base
        /\ e.ff

AdvanceLane(e) ==
    IF LaneIntegrationPreflight(e)
    THEN [e.lane EXCEPT !.head = e.reviewed, !.integrated = Append(@, e.binding.member.task)]
    ELSE Refused

\* e: [current, head, main, recovery].
MarkReadyForCertification(m, l, e) ==
    LET next == TransitionBatchStatus(m, "READY")
    IN  IF /\ ManifestLaneIdentity(m, l)
           /\ m.status = "INTEGRATING" /\ l.status = "INTEGRATING"
           /\ l.integrated # <<>> /\ l.integrated = IdsOf(m.members)
           /\ e.current = m /\ e.head = l.head /\ e.main = m.base
           /\ ~e.recovery /\ next # Refused
        THEN [manifest |-> next, lane |-> [l EXCEPT !.bound = next, !.status = "READY"]]
        ELSE Refused

-----------------------------------------------------------------------------
(* The caller.  A refused call changes nothing.                            *)

\* What an author may make of a membership, whether the code accepts it or not.
\* The artifact of a member that is there may change.
Revisions(members, version) ==
    LET new(blobs) == [task : Tasks, blob : blobs, base : Commits, since : {version}]
    IN  {Append(members, x) : x \in new({1})}
        \cup {[members EXCEPT ![i] = x] : i \in DOMAIN members, x \in new({1, 2})}
        \cup {[members EXCEPT ![i] = members[j], ![j] = members[i]] : i, j \in DOMAIN members}
        \cup {SubSeq(members, 1, Len(members) - 1)}

\* The facts that the evidence carries beside identities: all of them good,
\* or one of them not.
GoodFacts == [roadmap |-> TRUE, semantic |-> TRUE, t2 |-> 0, passed |-> TRUE,
              notRequired |-> FALSE, permitted |-> TRUE, known |-> TRUE, trust |-> TRUE,
              scope |-> TRUE]

Facts ==
    {GoodFacts, [GoodFacts EXCEPT !.t2 = 1], [GoodFacts EXCEPT !.notRequired = TRUE]}
    \cup {[GoodFacts EXCEPT ![f] = FALSE] :
             f \in {"roadmap", "semantic", "passed", "known", "trust", "scope"}}

\* With good facts, the task's branch, artifact or scope may be another one when
\* the lane is asked to advance than it was when the task took binding b.
Shown(b) ==
    LET own == [branch |-> b.member.task, blob |-> b.member.blob, scope |-> b.member.blob]
        moved == {[own EXCEPT !.branch = t] : t \in Tasks}
                 \cup {[own EXCEPT ![f] = 3 - @] : f \in {"blob", "scope"}}
    IN  [facts : Facts, task : {own}] \cup [facts : {GoodFacts}, task : moved]

Init ==
    /\ current \in [version : {1}, base : {0}, status : {"OPEN"},
                    members : {<<>>} \cup {<<[task |-> t, blob |-> 1, base |-> 0, since |-> 1]>> :
                                              t \in Tasks}]
    /\ lane = InitialLaneState(current)
    /\ held = [t \in Tasks |-> None]
    /\ branch = [t \in Tasks |-> None] /\ reviewed = [t \in Tasks |-> None]
    /\ main = 0 /\ anc = [c \in {0} |-> {0}]
    /\ lease = FALSE /\ history = <<>>

Begin ==
    LET next == BeginLaneIntegration(current, lane)
    IN  /\ next # Refused
        /\ current' = next.manifest /\ lane' = next.lane
        /\ UNCHANGED <<held, branch, reviewed, main, anc, lease, history>>

Revise ==
    /\ current.status \in {"OPEN", "INTEGRATING"} /\ current.version < MaxVersion
    /\ \E ms \in Revisions(lane.bound.members, lane.bound.version + 1) :
          LET next == [lane.bound EXCEPT !.members = ms, !.version = @ + 1]
          IN  /\ ManifestOK(next)
              /\ current' = next
              /\ lane' = IF lane.status = "OPEN" THEN InitialLaneState(next) ELSE lane
    /\ UNCHANGED <<held, branch, reviewed, main, anc, lease, history>>

Rebind ==
    LET next == RebindLaneManifest(lane.bound, current, lane, main)
    IN  /\ next # Refused
        /\ lane' = next
        /\ UNCHANGED <<current, held, branch, reviewed, main, anc, lease, history>>

\* A task starts: it takes its binding and branches from the lane.
StartTask ==
    LET b == BindingForNextTask(lane.bound, lane)
    IN  /\ b # Refused
        /\ held' = [held EXCEPT ![b.member.task] = b]
        /\ branch' = [branch EXCEPT ![b.member.task] = b.member.base]
        /\ lease' = TRUE
        /\ UNCHANGED <<current, lane, reviewed, main, anc, history>>

\* A new commit on c, which becomes the value of the ref that moves.
NewCommit(c) ==
    LET n == Cardinality(Commits)
    IN  [x \in Commits \cup {n} |-> IF x = n THEN anc[c] \cup {n} ELSE anc[x]]

\* The executor publishes a commit, on its branch or on a branch of its own making.
Publish(t) ==
    /\ lease /\ held[t] # None /\ Cardinality(Commits) <= MaxCommit
    /\ \E c \in {branch[t], 0} : anc' = NewCommit(c)
    /\ branch' = [branch EXCEPT ![t] = Cardinality(Commits)]
    /\ lease' = FALSE
    /\ UNCHANGED <<current, lane, held, reviewed, main, history>>

Review(t) ==
    /\ branch[t] \notin {None, reviewed[t]}
    /\ reviewed' = [reviewed EXCEPT ![t] = branch[t]]
    /\ UNCHANGED <<current, lane, held, branch, main, anc, lease, history>>

Fix(t) ==
    /\ ~lease /\ held[t] # None
    /\ lease' = TRUE
    /\ UNCHANGED <<current, lane, held, branch, reviewed, main, anc, history>>

Advance(t) ==
    /\ held[t] # None /\ reviewed[t] # None
    /\ \E x \in Shown(held[t]) :
          LET e == [facts |-> x.facts, manifest |-> lane.bound, lane |-> lane, binding |-> held[t],
                    current |-> current, reviewed |-> reviewed[t], head |-> branch[t],
                    task |-> x.task, lease |-> lease, main |-> main,
                    ff |-> lane.head \in anc[reviewed[t]]]
              next == AdvanceLane(e)
          IN  /\ next # Refused /\ LaneOK(next)
              /\ lane' = next
              /\ history' = Append(history, [member |-> held[t].member, from |-> lane.head,
                                             head |-> reviewed[t]])
    /\ UNCHANGED <<current, held, branch, reviewed, main, anc, lease>>

Ready ==
    \E e \in [current : {current}, head : Commits, main : {main}, recovery : BOOLEAN] :
        LET next == MarkReadyForCertification(lane.bound, lane, e)
        IN  /\ next # Refused
            /\ current' = next.manifest /\ lane' = next.lane
            /\ UNCHANGED <<held, branch, reviewed, main, anc, lease, history>>

Retire ==
    \E s \in {"SUPERSEDED", "RECOVERY_REQUIRED"} :
        /\ TransitionBatchStatus(current, s) # Refused
        /\ current' = TransitionBatchStatus(current, s)
        /\ UNCHANGED <<lane, held, branch, reviewed, main, anc, lease, history>>

MainMoves ==
    /\ Cardinality(Commits) <= MaxCommit
    /\ anc' = NewCommit(main) /\ main' = Cardinality(Commits)
    /\ UNCHANGED <<current, lane, held, branch, reviewed, lease, history>>

Next == \/ Begin \/ Revise \/ Rebind \/ StartTask \/ Ready \/ Retire \/ MainMoves
        \/ \E t \in Tasks : Publish(t) \/ Review(t) \/ Fix(t) \/ Advance(t)

Spec == Init /\ [][Next]_vars

-----------------------------------------------------------------------------
\* The lane is the manifest's prefix, whatever the author revised meanwhile:
\* what was integrated is still, member by member, what the bound manifest
\* lists, each member was bound to the head its predecessor left, and the lane
\* is one line of descent from the batch's base.  It is ready for
\* certification only as a whole: no member was left out and no revised
\* manifest stands behind it (begin_lane_integration, rebind_lane_manifest, advance_lane,
\* mark_ready_for_capability_certification).
LaneFollowsManifest ==
    /\ Len(history) = Len(lane.integrated) /\ Len(history) <= Len(lane.bound.members)
    /\ \A i \in DOMAIN history :
          LET from == IF i = 1 THEN lane.base ELSE history[i - 1].head
          IN  /\ history[i].member = lane.bound.members[i]
              /\ history[i].member.task = lane.integrated[i]
              /\ history[i].from = from /\ history[i].member.base = from
              /\ from \in anc[history[i].head]
    /\ lane.head = IF history = <<>> THEN lane.base ELSE Last(history).head
    /\ lane.status = "READY" =>
          /\ Len(history) = Len(lane.bound.members)
          /\ current.members = lane.bound.members /\ current.status # "INTEGRATING"
=============================================================================
