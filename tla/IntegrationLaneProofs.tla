------------------------- MODULE IntegrationLaneProofs -------------------------
(***************************************************************************)
(* Proof that an integration lane follows its batch manifest, for any      *)
(* tasks, any number of revisions of the manifest and any history of       *)
(* branches and main.                                                      *)
(***************************************************************************)
EXTENDS IntegrationLane, FiniteSetTheorems, SequenceTheorems, TLAPS

Statuses == {"OPEN", "INTEGRATING", "READY", "SUPERSEDED", "RECOVERY_REQUIRED"}

Members == [task : Tasks, blob : {1, 2}, base : Commits, since : Nat]

Manifests == [version : Nat, base : {0}, status : Statuses, members : Seq(Members)]

Lanes == [base : {0}, head : Commits, integrated : Seq(Tasks), status : {"OPEN", "INTEGRATING", "READY"},
          bound : Manifests]

Steps == [member : Members, from : Commits, head : Commits]

-----------------------------------------------------------------------------
(* The inductive invariant.                                                *)

\* Commits are numbered in the order in which they are made.
Numbered == /\ IsFiniteSet(Commits)
            /\ Commits = 0 .. Cardinality(Commits) - 1
            /\ Cardinality(Commits) \in Nat \ {0}

Typed == /\ current \in Manifests /\ lane \in Lanes /\ history \in Seq(Steps)
         /\ \A t \in Tasks : branch[t] # None => branch[t] \in Commits
         /\ \A t \in Tasks : reviewed[t] # None => reviewed[t] \in Commits
         /\ DOMAIN branch = Tasks /\ DOMAIN reviewed = Tasks

\* A task's step in the lane: where it starts, what it ran and where it ends.
From(i) == IF i = 1 THEN lane.base ELSE history[i - 1].head

StepOK(i) == /\ history[i].member = lane.bound.members[i]
             /\ history[i].member.task = lane.integrated[i]
             /\ history[i].from = From(i) /\ history[i].member.base = From(i)
             /\ From(i) \in anc[history[i].head]

Lined == /\ Len(history) = Len(lane.integrated) /\ Len(history) <= Len(lane.bound.members)
         /\ \A i \in 1 .. Len(history) : StepOK(i)
         /\ lane.head = IF history = <<>> THEN lane.base ELSE history[Len(history)].head

\* An open lane is empty; a ready one is whole, and no revision can follow.
Phases == /\ lane.status = "OPEN" => history = <<>>
          /\ lane.status = "READY" =>
                /\ Len(history) = Len(lane.bound.members) /\ current.members = lane.bound.members
                /\ current.status \in {"READY", "SUPERSEDED", "RECOVERY_REQUIRED"}

Sound == Numbered /\ Typed /\ Lined /\ Phases

-----------------------------------------------------------------------------
(* Lemmas about the operators.                                             *)

(* A refused call has no result, and an accepted one met its conditions.   *)
LEMMA Accepted ==
  ASSUME NEW m, NEW l, NEW n
  PROVE  /\ \A s : TransitionBatchStatus(m, s) # Refused => TransitionBatchStatus(m, s) = [m EXCEPT !.status = s]
         /\ BeginLaneIntegration(m, l) # Refused =>
               /\ l.bound = m /\ l.status = "OPEN"
               /\ BeginLaneIntegration(m, l) =
                    [manifest |-> [m EXCEPT !.status = "INTEGRATING"],
                     lane |-> [l EXCEPT !.bound = [m EXCEPT !.status = "INTEGRATING"], !.status = "INTEGRATING"]]
         /\ BindingForNextTask(m, l) # Refused =>
               /\ Len(l.integrated) + 1 <= Len(m.members)
               /\ BindingForNextTask(m, l) = BindingFromMember(m, Len(l.integrated) + 1)
<1>1. \A s : TransitionBatchStatus(m, s) # Refused => TransitionBatchStatus(m, s) = [m EXCEPT !.status = s]
  BY DEF TransitionBatchStatus
<1>2. ASSUME BeginLaneIntegration(m, l) # Refused
      PROVE  /\ l.bound = m /\ l.status = "OPEN"
             /\ BeginLaneIntegration(m, l) =
                  [manifest |-> [m EXCEPT !.status = "INTEGRATING"],
                   lane |-> [l EXCEPT !.bound = [m EXCEPT !.status = "INTEGRATING"], !.status = "INTEGRATING"]]
  <2> DEFINE next == TransitionBatchStatus(m, "INTEGRATING")
  <2>1. /\ l.bound = m /\ l.status = "OPEN" /\ next # Refused
        /\ BeginLaneIntegration(m, l) = [manifest |-> next, lane |-> [l EXCEPT !.bound = next, !.status = "INTEGRATING"]]
    BY <1>2 DEF BeginLaneIntegration, ManifestLaneIdentity
  <2>2. next = [m EXCEPT !.status = "INTEGRATING"]
    BY <1>1, <2>1
  <2> HIDE DEF next
  <2> QED
    BY <2>1, <2>2
<1>3. ASSUME BindingForNextTask(m, l) # Refused
      PROVE  /\ Len(l.integrated) + 1 <= Len(m.members)
             /\ BindingForNextTask(m, l) = BindingFromMember(m, Len(l.integrated) + 1)
  BY <1>3 DEF BindingForNextTask
<1> QED
  BY <1>1, <1>2, <1>3

(* A new commit has a number of its own, and the others stay what they are. *)
LEMMA CommitIsNew ==
  ASSUME Numbered, NEW c, anc' = NewCommit(c)
  PROVE  /\ Numbered' /\ Commits \subseteq Commits' /\ Cardinality(Commits) \in Commits'
         /\ \A x \in Commits : anc'[x] = anc[x]
<1> DEFINE n == Cardinality(Commits)
<1>1. n \in Nat \ {0} /\ Commits = 0 .. n - 1 /\ IsFiniteSet(Commits)
  BY DEF Numbered
<1> HIDE DEF n
<1>2. anc' = [x \in Commits \cup {n} |-> IF x = n THEN anc[c] \cup {n} ELSE anc[x]]
  BY DEF NewCommit, n
<1>3. Commits' = Commits \cup {n} /\ n \notin Commits
  BY <1>1, <1>2 DEF Commits
<1>4. IsFiniteSet(Commits') /\ Cardinality(Commits') = n + 1
  BY <1>1, <1>3, FS_AddElement DEF n
<1>5. Commits' = 0 .. (n + 1) - 1
  BY <1>1, <1>3
<1>6. \A x \in Commits : anc'[x] = anc[x]
  BY <1>2, <1>3
<1>7. Numbered'
  <2>1. Commits' = 0 .. Cardinality(Commits') - 1 /\ Cardinality(Commits') \in Nat \ {0}
    BY <1>1, <1>4, <1>5
  <2> QED
    BY <1>4, <2>1 DEF Numbered
<1> QED
  BY <1>3, <1>6, <1>7 DEF n

(* What was typed with fewer commits is typed with more.                   *)
LEMMA TypesGrow ==
  ASSUME Typed, Commits \subseteq Commits', UNCHANGED <<current, lane, history>>
  PROVE  current' \in Manifests' /\ lane' \in Lanes' /\ history' \in Seq(Steps)'
<1>1. Members \subseteq Members'
  BY DEF Members
<1>2. Seq(Members) \subseteq Seq(Members')
  BY <1>1
<1>3. Manifests \subseteq Manifests'
  BY <1>2 DEF Manifests
<1>4. Lanes \subseteq Lanes'
  BY <1>3 DEF Lanes
<1>5. Steps \subseteq Steps'
  BY <1>1 DEF Steps
<1>6. Seq(Steps) \subseteq Seq(Steps')
  BY <1>5
<1> QED
  BY <1>3, <1>4, <1>6 DEF Typed

(* The lane stays lined up while only the graph of commits grows.          *)
LEMMA LineKept ==
  ASSUME Sound, UNCHANGED <<lane, history>>, \A x \in Commits : anc'[x] = anc[x]
  PROVE  Lined'
<1>1. Lined /\ Typed
  BY DEF Sound
<1>2. ASSUME NEW i \in 1 .. Len(history) PROVE StepOK(i)'
  <2>1. StepOK(i) /\ history[i] \in Steps
    BY <1>1 DEF Lined, Typed
  <2>2. anc'[history[i].head] = anc[history[i].head]
    BY <2>1 DEF Steps
  <2> QED
    BY <2>1, <2>2 DEF StepOK, From
<1> QED
  BY <1>1, <1>2 DEF Lined

(* The lane is rebound to a manifest that lists what is integrated.        *)
LEMMA LineRebound ==
  ASSUME Sound, NEW m \in Manifests, NEW s, lane' = [lane EXCEPT !.bound = m, !.status = s], UNCHANGED <<anc, history>>,
         Len(history) <= Len(m.members), \A i \in 1 .. Len(history) : m.members[i] = lane.bound.members[i]
  PROVE  Lined'
<1>1. Lined /\ lane \in Lanes
  BY DEF Sound, Typed
<1>2. lane'.bound = m /\ lane'.base = lane.base /\ lane'.head = lane.head /\ lane'.integrated = lane.integrated
  BY <1>1 DEF Lanes
<1>3. ASSUME NEW i \in 1 .. Len(history) PROVE StepOK(i)'
  <2>1. StepOK(i) /\ m.members[i] = lane.bound.members[i]
    BY <1>1 DEF Lined
  <2> QED
    BY <1>2, <2>1 DEF StepOK, From
<1> QED
  BY <1>1, <1>2, <1>3 DEF Lined

-----------------------------------------------------------------------------
(* Every action keeps the invariant.                                       *)

(* begin_lane_integration: the manifest and the lane change their status.  *)
LEMMA BeginKeeps ==
  ASSUME Sound, Begin
  PROVE  Sound'
<1> DEFINE m == [current EXCEPT !.status = "INTEGRATING"]
           next == BeginLaneIntegration(current, lane)
<1>1. next # Refused /\ current' = next.manifest /\ lane' = next.lane /\ UNCHANGED <<branch, reviewed, anc, history>>
  BY DEF Begin
<1>2. /\ lane.bound = current /\ lane.status = "OPEN"
      /\ next = [manifest |-> m, lane |-> [lane EXCEPT !.bound = m, !.status = "INTEGRATING"]]
  BY <1>1, Accepted
<1>3. current' = m /\ lane' = [lane EXCEPT !.bound = m, !.status = "INTEGRATING"]
  BY <1>1, <1>2
<1>4. current \in Manifests /\ lane \in Lanes /\ history = <<>>
  BY <1>2 DEF Sound, Typed, Phases
<1>5. m \in Manifests /\ m.members = current.members
  BY <1>4 DEF Manifests, Statuses
<1> HIDE DEF m, next
<1>6. lane' \in Lanes /\ lane'.status = "INTEGRATING"
  BY <1>3, <1>4, <1>5 DEF Lanes
<1>7. Lined'
  <2>1. Len(history) <= Len(m.members) /\ \A i \in 1 .. Len(history) : m.members[i] = lane.bound.members[i]
    BY <1>2, <1>5 DEF Sound, Lined
  <2> QED
    BY <1>1, <1>3, <1>5, <2>1, LineRebound
<1>8. Numbered' /\ Typed'
  BY <1>1, <1>3, <1>5, <1>6 DEF Sound, Numbered, Typed, Commits, Manifests, Members, Lanes, Steps
<1>9. Phases'
  BY <1>6 DEF Phases
<1> QED
  BY <1>7, <1>8, <1>9 DEF Sound

(* A revision is a manifest, whatever the author made of the membership.   *)
LEMMA RevisionsTyped ==
  ASSUME NEW ms \in Seq(Members), NEW v \in Nat, NEW r \in Revisions(ms, v)
  PROVE  r \in Seq(Members)
<1> DEFINE added == [task : Tasks, blob : {1, 2}, base : Commits, since : {v}]
<1>1. added \subseteq Members
  BY DEF Members
<1>2. \/ r \in {Append(ms, x) : x \in added}
      \/ r \in {[ms EXCEPT ![i] = x] : i \in DOMAIN ms, x \in added}
      \/ r \in {[ms EXCEPT ![i] = ms[j], ![j] = ms[i]] : i, j \in DOMAIN ms}
      \/ r = SubSeq(ms, 1, Len(ms) - 1)
  BY DEF Revisions
<1> HIDE DEF added
<1>3. CASE r \in {Append(ms, x) : x \in added}
  BY <1>1, <1>3
<1>4. CASE r \in {[ms EXCEPT ![i] = x] : i \in DOMAIN ms, x \in added}
  <2>1. PICK i \in DOMAIN ms, x \in added : r = [ms EXCEPT ![i] = x]
    BY <1>4
  <2>2. i \in 1 .. Len(ms) /\ x \in Members
    BY <1>1
  <2> QED
    BY <2>1, <2>2, ExceptSeq
<1>5. CASE r \in {[ms EXCEPT ![i] = ms[j], ![j] = ms[i]] : i, j \in DOMAIN ms}
  <2>1. PICK i \in DOMAIN ms, j \in DOMAIN ms : r = [ms EXCEPT ![i] = ms[j], ![j] = ms[i]]
    BY <1>5
  <2>2. i \in 1 .. Len(ms) /\ j \in 1 .. Len(ms) /\ ms[i] \in Members /\ ms[j] \in Members
    OBVIOUS
  <2> DEFINE a == [ms EXCEPT ![i] = ms[j]]
  <2>3. a \in Seq(Members) /\ Len(a) = Len(ms)
    BY <2>2, ExceptSeq
  <2>4. r = [a EXCEPT ![j] = ms[i]]
    BY <2>1
  <2> HIDE DEF a
  <2> QED
    BY <2>2, <2>3, <2>4, ExceptSeq
<1>6. CASE r = SubSeq(ms, 1, Len(ms) - 1)
  BY <1>6, SubSeqProperties
<1> QED
  BY <1>2, <1>3, <1>4, <1>5, <1>6

(* The author revises the manifest: an open lane starts over with it, one   *)
(* that integrates stays with the manifest it is bound to.                  *)
LEMMA ReviseKeeps ==
  ASSUME Sound, Revise
  PROVE  Sound'
<1>0. current \in Manifests /\ lane \in Lanes /\ lane.bound \in Manifests
  BY DEF Sound, Typed, Lanes
<1>1. PICK ms \in Revisions(lane.bound.members, lane.bound.version + 1) :
        LET next == [lane.bound EXCEPT !.members = ms, !.version = @ + 1]
        IN  current' = next /\ lane' = IF lane.status = "OPEN" THEN InitialLaneState(next) ELSE lane
  BY DEF Revise
<1>2. current.status \in {"OPEN", "INTEGRATING"} /\ UNCHANGED <<branch, reviewed, anc, history>>
  BY DEF Revise
<1>3. lane.bound.version \in Nat /\ lane.bound.version + 1 \in Nat /\ lane.bound.members \in Seq(Members)
  BY <1>0 DEF Manifests
<1>4. ms \in Seq(Members)
  BY <1>3, RevisionsTyped
<1> DEFINE v == lane.bound.version + 1
           m == [lane.bound EXCEPT !.members = ms, !.version = v]
<1>5. current' = m /\ lane' = IF lane.status = "OPEN" THEN InitialLaneState(m) ELSE lane
  BY <1>1
<1>6. m \in Manifests /\ m.base = 0 /\ lane.base = 0
  BY <1>0, <1>3, <1>4 DEF Manifests, Lanes
<1> HIDE DEF m
<1>7. CASE lane.status = "OPEN"
  <2>1. history = <<>> /\ lane' = [base |-> 0, head |-> 0, integrated |-> <<>>, status |-> "OPEN", bound |-> m]
    BY <1>5, <1>6, <1>7 DEF Sound, Phases, InitialLaneState
  <2>2. 0 \in Commits
    BY DEF Sound, Numbered
  <2>3. lane' \in Lanes
    BY <1>6, <2>1, <2>2 DEF Lanes
  <2>4. Len(history) = 0 /\ m.members \in Seq(Members) /\ Len(m.members) \in Nat
    BY <1>6, <2>1 DEF Manifests
  <2>5. Lined'
    BY <1>2, <2>1, <2>4 DEF Lined
  <2>6. Phases'
    BY <1>2, <2>1 DEF Phases
  <2>7. Numbered' /\ Typed'
    BY <1>2, <1>5, <1>6, <2>3 DEF Sound, Numbered, Typed, Commits, Manifests, Members, Lanes, Steps
  <2> QED
    BY <2>5, <2>6, <2>7 DEF Sound
<1>8. CASE lane.status # "OPEN"
  <2>1. lane' = lane /\ lane.status # "READY"
    BY <1>2, <1>5, <1>8 DEF Sound, Phases
  <2>2. Lined'
    BY <1>2, <2>1, LineKept
  <2>3. Phases'
    BY <1>2, <2>1, <1>8 DEF Phases
  <2>4. Numbered' /\ Typed'
    BY <1>2, <1>5, <1>6, <2>1 DEF Sound, Numbered, Typed, Commits, Manifests, Members, Lanes, Steps
  <2> QED
    BY <2>2, <2>3, <2>4 DEF Sound
<1> QED
  BY <1>7, <1>8

(* rebind_lane_manifest: the integrated prefix is the same in both.        *)
LEMMA RebindKeeps ==
  ASSUME Sound, Rebind
  PROVE  Sound'
<1> DEFINE n == Len(lane.integrated)
           prefix(m) == SubSeq(m.members, 1, IF n <= Len(m.members) THEN n ELSE Len(m.members))
<1>0. /\ current \in Manifests /\ lane \in Lanes /\ lane.bound \in Manifests /\ n \in Nat
      /\ Len(history) = n /\ n <= Len(lane.bound.members)
      /\ current.members \in Seq(Members) /\ lane.bound.members \in Seq(Members)
  BY DEF Sound, Typed, Lanes, Lined, Manifests
<1>1. /\ lane.status = "INTEGRATING" /\ prefix(current) = prefix(lane.bound)
      /\ lane' = [lane EXCEPT !.bound = current] /\ UNCHANGED <<current, branch, reviewed, anc, history>>
  BY DEF Rebind, RebindLaneManifest
<1>2. lane' = [lane EXCEPT !.bound = current, !.status = lane.status]
  BY <1>0, <1>1 DEF Lanes
<1>3. n <= Len(current.members) /\ \A i \in 1 .. n : current.members[i] = lane.bound.members[i]
  <2>1. Len(prefix(lane.bound)) = n /\ \A i \in 1 .. n : prefix(lane.bound)[i] = lane.bound.members[i]
    BY <1>0, SubSeqProperties
  <2>2. n <= Len(current.members)
    <3>1. CASE n > Len(current.members)
      <4>1. prefix(current) = SubSeq(current.members, 1, Len(current.members)) /\ Len(current.members) \in Nat
        BY <1>0, <3>1
      <4>2. Len(prefix(current)) = Len(current.members)
        BY <1>0, <4>1, SubSeqProperties
      <4> QED
        BY <1>0, <1>1, <2>1, <3>1, <4>1, <4>2
    <3> QED
      BY <1>0, <3>1
  <2>3. \A i \in 1 .. n : prefix(current)[i] = current.members[i]
    BY <1>0, <2>2, SubSeqProperties
  <2> QED
    BY <1>1, <2>1, <2>2, <2>3
<1>4. Lined'
  <2>1. Len(history) <= Len(current.members) /\ \A i \in 1 .. Len(history) : current.members[i] = lane.bound.members[i]
    BY <1>0, <1>3
  <2>2. UNCHANGED <<anc, history>>
    BY <1>1
  <2> QED
    BY <1>0, <1>2, <2>1, <2>2, LineRebound
<1>5. lane' \in Lanes /\ lane'.status = "INTEGRATING"
  BY <1>0, <1>1 DEF Lanes
<1>6. Phases'
  BY <1>5 DEF Phases
<1>7. Numbered' /\ Typed'
  BY <1>1, <1>5 DEF Sound, Numbered, Typed, Commits, Manifests, Members, Lanes, Steps
<1> QED
  BY <1>4, <1>6, <1>7 DEF Sound

(* A task starts on the member that is next, reviews and fixes move refs.  *)
LEMMA TaskKeeps ==
  ASSUME Sound, StartTask \/ \E t \in Tasks : Review(t) \/ Fix(t)
  PROVE  Sound'
<1>1. ASSUME UNCHANGED <<current, lane, anc, history>>,
             DOMAIN branch' = Tasks, DOMAIN reviewed' = Tasks,
             \A t \in Tasks : branch'[t] # None => branch'[t] \in Commits,
             \A t \in Tasks : reviewed'[t] # None => reviewed'[t] \in Commits
      PROVE  Sound'
  <2>1. Lined'
    BY <1>1, LineKept
  <2>2. Numbered' /\ Typed' /\ Phases'
    BY <1>1 DEF Sound, Numbered, Typed, Phases, Commits, Manifests, Members, Lanes, Steps
  <2> QED
    BY <2>1, <2>2 DEF Sound
<1>2. CASE StartTask
  <2> DEFINE b == BindingForNextTask(lane.bound, lane)
             i == Len(lane.integrated) + 1
  <2>1. /\ b # Refused /\ branch' = [branch EXCEPT ![b.member.task] = b.member.base]
        /\ UNCHANGED <<current, lane, reviewed, anc, history>>
    BY <1>2 DEF StartTask
  <2>2. i <= Len(lane.bound.members) /\ b = BindingFromMember(lane.bound, i)
    BY <2>1, Accepted
  <2>3. lane.bound.members \in Seq(Members) /\ i \in 1 .. Len(lane.bound.members)
    BY <2>2 DEF Sound, Typed, Lanes, Manifests
  <2>4. lane.bound.members[i] \in Members
    BY <2>3
  <2>5. b.member.base \in Commits
    BY <2>2, <2>4 DEF BindingFromMember, Members
  <2> HIDE DEF b
  <2> QED
    BY <1>1, <2>1, <2>5 DEF Sound, Typed
<1>3. ASSUME NEW t \in Tasks, Review(t) PROVE Sound'
  BY <1>1, <1>3 DEF Review, Sound, Typed
<1>4. ASSUME NEW t \in Tasks, Fix(t) PROVE Sound'
  BY <1>1, <1>4 DEF Fix, Sound, Typed
<1> QED
  BY <1>2, <1>3, <1>4

(* New commits, on a branch or on main.                                    *)
LEMMA CommitKeeps ==
  ASSUME Sound, MainMoves \/ \E t \in Tasks : Publish(t)
  PROVE  Sound'
<1>1. ASSUME NEW c, anc' = NewCommit(c), UNCHANGED <<current, lane, reviewed, history>>,
             DOMAIN branch' = Tasks,
             \A t \in Tasks : branch'[t] = branch[t] \/ branch'[t] = Cardinality(Commits)
      PROVE  Sound'
  <2>1. /\ Numbered' /\ Commits \subseteq Commits' /\ Cardinality(Commits) \in Commits'
        /\ \A x \in Commits : anc'[x] = anc[x]
    BY <1>1, CommitIsNew DEF Sound
  <2>2. current' \in Manifests' /\ lane' \in Lanes' /\ history' \in Seq(Steps)'
    BY <1>1, <2>1, TypesGrow DEF Sound
  <2>3. Typed'
    BY <1>1, <2>1, <2>2 DEF Sound, Typed
  <2>4. Lined'
    BY <1>1, <2>1, LineKept
  <2>5. Phases'
    BY <1>1 DEF Sound, Phases
  <2> QED
    BY <2>1, <2>3, <2>4, <2>5 DEF Sound
<1>2. CASE MainMoves
  BY <1>1, <1>2 DEF MainMoves, Sound, Typed
<1>3. ASSUME NEW t \in Tasks, Publish(t) PROVE Sound'
  <2>1. PICK c : anc' = NewCommit(c)
    BY <1>3 DEF Publish
  <2>2. branch' = [branch EXCEPT ![t] = Cardinality(Commits)] /\ UNCHANGED <<current, lane, reviewed, history>>
    BY <1>3 DEF Publish
  <2> QED
    BY <1>1, <2>1, <2>2 DEF Sound, Typed
<1> QED
  BY <1>2, <1>3

(* advance_lane: the next member, on the head its predecessor left.        *)
LEMMA AdvanceKeeps ==
  ASSUME Sound, NEW t \in Tasks, Advance(t)
  PROVE  Sound'
<1>n. PICK n \in Nat : n = Len(lane.integrated)
  BY DEF Sound, Typed, Lanes
<1> DEFINE i == n + 1
           member == lane.bound.members[i]
           h == reviewed[t]
           task == member.task
           step == [member |-> member, from |-> lane.head, head |-> h]
<1>0. /\ lane \in Lanes /\ lane.integrated \in Seq(Tasks) /\ lane.bound.members \in Seq(Members)
      /\ history \in Seq(Steps) /\ Len(history) = n /\ n \in Nat /\ n <= Len(lane.bound.members)
  BY <1>n DEF Sound, Typed, Lanes, Lined, Manifests
<1>1. PICK x \in Shown(held[t]) :
        LET e == [facts |-> x.facts, manifest |-> lane.bound, lane |-> lane, binding |-> held[t],
                  current |-> current, reviewed |-> reviewed[t], head |-> branch[t],
                  task |-> x.task, lease |-> lease, main |-> main,
                  ff |-> lane.head \in anc[reviewed[t]]]
        IN  /\ AdvanceLane(e) # Refused /\ lane' = AdvanceLane(e)
            /\ history' = Append(history, [member |-> held[t].member, from |-> lane.head, head |-> reviewed[t]])
  BY DEF Advance
<1>2. reviewed[t] # None /\ UNCHANGED <<current, branch, reviewed, anc>>
  BY DEF Advance
<1> DEFINE e == [facts |-> x.facts, manifest |-> lane.bound, lane |-> lane, binding |-> held[t],
                 current |-> current, reviewed |-> reviewed[t], head |-> branch[t],
                 task |-> x.task, lease |-> lease, main |-> main,
                 ff |-> lane.head \in anc[reviewed[t]]]
<1>3. /\ e.manifest = lane.bound /\ e.lane = lane /\ e.binding = held[t] /\ e.reviewed = h
      /\ e.ff = (lane.head \in anc[h])
  OBVIOUS
<1>4. /\ AdvanceLane(e) # Refused /\ lane' = AdvanceLane(e)
      /\ history' = Append(history, [member |-> held[t].member, from |-> lane.head, head |-> h])
  BY <1>1
<1> HIDE DEF e
<1>5. LaneIntegrationPreflight(e) /\ lane' = [e.lane EXCEPT !.head = e.reviewed, !.integrated = Append(@, e.binding.member.task)]
  BY <1>4 DEF AdvanceLane
<1>6. /\ i <= Len(lane.bound.members) /\ held[t] = BindingFromMember(lane.bound, i) /\ lane.status = "INTEGRATING"
      /\ held[t].member.base = lane.head /\ lane.head \in anc[h]
  BY <1>n, <1>3, <1>5 DEF LaneIntegrationPreflight
<1>7. held[t].member = member /\ member.base = lane.head
  BY <1>6 DEF BindingFromMember
<1>8. member \in Members /\ h \in Commits /\ lane.head \in Commits /\ task \in Tasks
  <2>1. i \in 1 .. Len(lane.bound.members)
    BY <1>0, <1>6
  <2>2. member \in Members
    BY <1>0, <2>1
  <2> HIDE DEF member
  <2> QED
    BY <1>0, <1>2, <2>2 DEF Sound, Typed, Lanes, Members
<1>9. step \in Steps /\ history' = Append(history, step)
  <2>1. history' = Append(history, step)
    BY <1>4, <1>7
  <2> HIDE DEF member, h
  <2> QED
    BY <1>8, <2>1 DEF Steps
<1>10. lane' = [lane EXCEPT !.head = h, !.integrated = Append(lane.integrated, task)]
  BY <1>0, <1>3, <1>5, <1>7 DEF Lanes
<1> HIDE DEF member, h, task
<1>11. /\ lane'.head = h /\ lane'.integrated = Append(lane.integrated, task) /\ lane'.base = lane.base
       /\ lane'.bound = lane.bound /\ lane'.status = "INTEGRATING" /\ lane' \in Lanes
  <2> DEFINE done == Append(lane.integrated, task)
  <2>1. done \in Seq(Tasks)
    BY <1>0, <1>8
  <2> HIDE DEF done
  <2>2. lane' = [lane EXCEPT !.head = h, !.integrated = done]
    BY <1>10 DEF done
  <2>3. /\ lane'.head = h /\ lane'.integrated = done /\ lane'.base = lane.base
        /\ lane'.bound = lane.bound /\ lane'.status = lane.status /\ lane' \in Lanes
    BY <1>0, <1>8, <2>1, <2>2 DEF Lanes
  <2> QED
    BY <1>6, <2>3 DEF done
<1>12. step.member = member /\ step.from = lane.head /\ step.head = h
  OBVIOUS
<1> HIDE DEF step
<1>13. /\ history' \in Seq(Steps) /\ Len(history') = n + 1 /\ history'[n + 1] = step
       /\ \A j \in 1 .. n : history'[j] = history[j]
  BY <1>0, <1>9, AppendProperties
<1>14. /\ Len(lane'.integrated) = n + 1 /\ lane'.integrated[n + 1] = task
       /\ \A j \in 1 .. n : lane'.integrated[j] = lane.integrated[j]
  BY <1>n, <1>0, <1>8, <1>11, AppendProperties
<1>15. n # 0 => lane.head = history[n].head
  BY <1>0, EmptySeq DEF Sound, Lined
<1>16. n = 0 => lane.head = lane.base
  BY <1>0, EmptySeq DEF Sound, Lined
<1>17. ASSUME NEW j \in 1 .. n PROVE StepOK(j)'
  <2>1. StepOK(j) /\ history'[j] = history[j] /\ lane'.integrated[j] = lane.integrated[j]
    BY <1>0, <1>13, <1>14 DEF Sound, Lined
  <2>2. From(j)' = From(j)
    <3>1. j # 1 => j - 1 \in 1 .. n
      BY <1>0
    <3> QED
      BY <1>11, <1>13, <3>1 DEF From
  <2> QED
    BY <1>2, <1>11, <2>1, <2>2 DEF StepOK
<1>18. StepOK(n + 1)'
  <2>1. From(n + 1)' = lane.head
    <3>1. CASE n = 0
      BY <1>11, <1>16, <3>1 DEF From
    <3>2. CASE n # 0
      <4>1. n \in 1 .. n /\ n + 1 # 1 /\ (n + 1) - 1 = n
        BY <1>0, <3>2
      <4>2. history'[n] = history[n]
        BY <1>13, <4>1
      <4> QED
        BY <1>15, <3>2, <4>1, <4>2 DEF From
    <3> QED
      BY <3>1, <3>2
  <2>2. member = lane.bound.members[n + 1] /\ member.task = task
    BY DEF member, task
  <2> QED
    BY <1>2, <1>6, <1>7, <1>11, <1>12, <1>13, <1>14, <2>1, <2>2 DEF StepOK
<1>19. Lined'
  <2>1. \A j \in 1 .. Len(history') : StepOK(j)'
    <3>1. ASSUME NEW j \in 1 .. Len(history') PROVE j \in 1 .. n \/ j = n + 1
      BY <1>0, <1>13
    <3> QED
      BY <1>17, <1>18, <3>1
  <2>2. history' # <<>> /\ lane'.head = history'[Len(history')].head
    BY <1>0, <1>11, <1>12, <1>13, EmptySeq
  <2>3. Len(history') = Len(lane'.integrated) /\ Len(history') <= Len(lane'.bound.members)
    BY <1>6, <1>11, <1>13, <1>14
  <2> QED
    BY <2>1, <2>2, <2>3 DEF Lined
<1>20. Numbered' /\ Typed' /\ Phases'
  BY <1>2, <1>11, <1>13 DEF Sound, Numbered, Typed, Phases, Commits, Manifests, Members, Lanes, Steps
<1> QED
  BY <1>19, <1>20 DEF Sound

(* mark_ready_for_capability_certification: the whole membership.          *)
LEMMA ReadyKeeps ==
  ASSUME Sound, Ready
  PROVE  Sound'
<1> DEFINE m == [lane.bound EXCEPT !.status = "READY"]
<1>0. lane \in Lanes /\ lane.bound \in Manifests /\ lane.bound.members \in Seq(Members)
      /\ Len(history) = Len(lane.integrated) /\ lane.integrated \in Seq(Tasks)
  BY DEF Sound, Typed, Lanes, Lined, Manifests
<1>1. PICK e \in [current : {current}, head : Commits, main : {main}, recovery : BOOLEAN] :
        LET next == MarkReadyForCertification(lane.bound, lane, e)
        IN  next # Refused /\ current' = next.manifest /\ lane' = next.lane
  BY DEF Ready
<1>2. UNCHANGED <<branch, reviewed, anc, history>>
  BY DEF Ready
<1> DEFINE next == TransitionBatchStatus(lane.bound, "READY")
<1>3. /\ lane.integrated = IdsOf(lane.bound.members) /\ next # Refused
      /\ current' = next /\ lane' = [lane EXCEPT !.bound = next, !.status = "READY"]
  BY <1>1 DEF MarkReadyForCertification
<1>4. next = m
  BY <1>3, Accepted
<1>5. current' = m /\ lane' = [lane EXCEPT !.bound = m, !.status = "READY"]
  BY <1>3, <1>4
<1>6. Len(lane.integrated) = Len(lane.bound.members)
  <2>1. IdsOf(lane.bound.members) = [i \in 1 .. Len(lane.bound.members) |-> lane.bound.members[i].task]
    BY <1>0 DEF IdsOf
  <2>2. DOMAIN lane.integrated = 1 .. Len(lane.bound.members) /\ Len(lane.bound.members) \in Nat
    BY <1>0, <1>3, <2>1
  <2> QED
    BY <1>0, <2>2, LenProperties
<1>7. m \in Manifests /\ m.members = lane.bound.members /\ m.status = "READY"
  BY <1>0 DEF Manifests, Statuses
<1> HIDE DEF m, next
<1>8. lane' \in Lanes /\ lane'.bound = m /\ lane'.status = "READY"
  BY <1>0, <1>5, <1>7 DEF Lanes
<1>9. Lined'
  <2>1. Len(history) <= Len(m.members) /\ \A i \in 1 .. Len(history) : m.members[i] = lane.bound.members[i]
    BY <1>0, <1>6, <1>7
  <2> QED
    BY <1>2, <1>5, <1>7, <2>1, LineRebound
<1>10. Phases'
  BY <1>0, <1>2, <1>5, <1>6, <1>7, <1>8 DEF Phases
<1>11. Numbered' /\ Typed'
  BY <1>2, <1>5, <1>7, <1>8 DEF Sound, Numbered, Typed, Commits, Manifests, Members, Lanes, Steps
<1> QED
  BY <1>9, <1>10, <1>11 DEF Sound

(* The batch is superseded or asks for recovery.                           *)
LEMMA RetireKeeps ==
  ASSUME Sound, Retire
  PROVE  Sound'
<1>1. PICK s \in {"SUPERSEDED", "RECOVERY_REQUIRED"} :
        TransitionBatchStatus(current, s) # Refused /\ current' = TransitionBatchStatus(current, s)
  BY DEF Retire
<1>2. UNCHANGED <<lane, branch, reviewed, anc, history>>
  BY DEF Retire
<1>3. current' = [current EXCEPT !.status = s]
  BY <1>1, Accepted
<1>4. current' \in Manifests /\ current'.members = current.members /\ current'.status = s
  BY <1>3 DEF Sound, Typed, Manifests, Statuses
<1>5. Lined'
  BY <1>2, LineKept
<1>6. Phases'
  BY <1>2, <1>4 DEF Sound, Phases
<1>7. Numbered' /\ Typed'
  BY <1>2, <1>4 DEF Sound, Numbered, Typed, Commits, Manifests, Members, Lanes, Steps
<1> QED
  BY <1>5, <1>6, <1>7 DEF Sound

(* A batch starts with one commit, an open manifest and an empty lane.     *)
LEMMA InitIsSound ==
  ASSUME Init
  PROVE  Sound
<1>1. Commits = {0}
  BY DEF Init, Commits
<1>2. Numbered
  <2>1. IsFiniteSet({0}) /\ Cardinality({0}) = 1
    BY FS_Singleton
  <2> QED
    BY <1>1, <2>1 DEF Numbered
<1>3. current \in Manifests /\ current.base = 0
  <2>1. \A t \in Tasks : <<[task |-> t, blob |-> 1, base |-> 0, since |-> 1]>> \in Seq(Members)
    <3> SUFFICES ASSUME NEW t \in Tasks PROVE <<[task |-> t, blob |-> 1, base |-> 0, since |-> 1]>> \in Seq(Members)
      OBVIOUS
    <3>1. [task |-> t, blob |-> 1, base |-> 0, since |-> 1] \in Members
      BY <1>1 DEF Members
    <3> QED
      BY <3>1
  <2>2. <<>> \in Seq(Members)
    OBVIOUS
  <2>3. current.members \in Seq(Members)
    BY <2>1, <2>2 DEF Init
  <2> QED
    BY <2>3 DEF Init, Manifests, Statuses
<1>4. lane = [base |-> 0, head |-> 0, integrated |-> <<>>, status |-> "OPEN", bound |-> current] /\ history = <<>>
  BY <1>3 DEF Init, InitialLaneState
<1>5. lane \in Lanes /\ history \in Seq(Steps)
  BY <1>1, <1>3, <1>4 DEF Lanes
<1>6. Typed
  BY <1>3, <1>5 DEF Typed, Init
<1>7. Lined /\ Phases
  <2>1. Len(history) = 0 /\ Len(lane.integrated) = 0 /\ Len(lane.bound.members) \in Nat
    BY <1>3, <1>4 DEF Manifests
  <2> QED
    BY <1>4, <2>1 DEF Lined, Phases
<1> QED
  BY <1>2, <1>6, <1>7 DEF Sound

(* Every step keeps the invariant.                                         *)
LEMMA NextKeeps ==
  ASSUME Sound, [Next]_vars
  PROVE  Sound'
<1>1. CASE UNCHANGED vars
  <2>1. Lined'
    BY <1>1, LineKept DEF vars
  <2> QED
    BY <1>1, <2>1 DEF vars, Sound, Numbered, Typed, Phases, Commits, Manifests, Members, Lanes, Steps
<1>2. CASE Next
  BY <1>2, BeginKeeps, ReviseKeeps, RebindKeeps, TaskKeeps, ReadyKeeps, RetireKeeps, CommitKeeps, AdvanceKeeps DEF Next
<1> QED
  BY <1>1, <1>2

(* The lane is, member by member, the prefix of the manifest it is bound    *)
(* to, one line of descent from the batch's base, whatever the author       *)
(* revised meanwhile; it is ready only as a whole (begin_lane_integration,  *)
(* rebind_lane_manifest, advance_lane,                                      *)
(* mark_ready_for_capability_certification).                                *)
THEOREM LaneIsThePrefix == Spec => []LaneFollowsManifest
<1>1. Init => Sound
  BY InitIsSound
<1>2. Sound /\ [Next]_vars => Sound'
  BY NextKeeps
<1>3. Sound => LaneFollowsManifest
  <2> SUFFICES ASSUME Sound PROVE LaneFollowsManifest
    OBVIOUS
  <2>1. history \in Seq(Steps) /\ Len(history) \in Nat /\ DOMAIN history = 1 .. Len(history)
    BY DEF Sound, Typed
  <2>2. \A i \in DOMAIN history : StepOK(i)
    BY <2>1 DEF Sound, Lined
  <2>3. lane.head = IF history = <<>> THEN lane.base ELSE Last(history).head
    BY DEF Sound, Lined, Last
  <2>4. lane.status = "READY" =>
          /\ Len(history) = Len(lane.bound.members)
          /\ current.members = lane.bound.members /\ current.status # "INTEGRATING"
    BY DEF Sound, Phases
  <2> QED
    BY <2>2, <2>3, <2>4 DEF LaneFollowsManifest, StepOK, From, Sound, Lined
<1> QED
  BY <1>1, <1>2, <1>3, PTL DEF Spec
=============================================================================
