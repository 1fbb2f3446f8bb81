--------------------------- MODULE TaskAuthority ---------------------------
(***************************************************************************)
(* Who may change and publish one task's branch: the commands of            *)
(* src/aios_bridge/legacy_bridge.py over the executor lease                 *)
(* (runtime_lease.py), the authorization record, CURRENT_STATE.json and the *)
(* task branch, with the Human who types the commands, the executors that   *)
(* edit the worktree, the reviewer on the control branch and the watcher.   *)
(*                                                                          *)
(* A command first reads and decides (its Start action), then performs its  *)
(* durable operations one by one: proc[p].todo is what it still has to do.  *)
(* It may be killed between two of them, and each may fail; what the code   *)
(* does after a failure is OnFailure.  A command whose checks refuse it     *)
(* changes nothing and takes no step, except RefuseHandoff.                 *)
(*                                                                          *)
(* Abstracted: a lease is its unique random lease_id, taken here from a     *)
(* counter (its other fields are copied into the authorization with it); a  *)
(* commit of the task branch is its position; uncommitted edits are the     *)
(* executors that made them; contents, wording, schemas and the evidence    *)
(* records are left out.  Executors do not commit by themselves.            *)
(***************************************************************************)
EXTENDS Naturals, Sequences, FiniteSets

CONSTANTS
  Procs,       \* terminals: each runs one command at a time
  Executors,   \* SUPPORTED_RUNTIME_EXECUTORS
  Codex,       \* the executor that cmd_execute starts as a child process
  NoAuth,      \* there is no authorization file
  Orphans,     \* TRUE: the child may outlive a cmd_execute that is killed
  MaxLeases,   \* bound: leases acquired
  MaxEdits,    \* bound: commits on the control branch
  MaxCrashes,  \* bound: commands that are killed
  MaxFaults    \* bound: durable operations that fail

ASSUME ExecutorsAssumption == Codex \in Executors /\ IsFiniteSet(Executors) /\ Orphans \in BOOLEAN
ASSUME NoAuthAssumption    == NoAuth \notin Executors
ASSUME BoundsAssumption    == {MaxLeases, MaxEdits, MaxCrashes, MaxFaults} \subseteq Nat

VARIABLES
  lease,    \* ACTIVE.json of the task: 0 absent, Torn unreadable, else a lease_id
  issued,   \* lease ids handed out
  auth,     \* AUTH-TASK-xxx.json
  status,   \* status in CURRENT_STATE.json
  branch,   \* the task branch: local HEAD and its remote counterpart, 0 absent
  tree,     \* uncommitted edits: who made those in scope, any out of scope
  control,  \* the control branch: TASK and REVIEW artifacts
  seen,     \* newest artifacts that the watcher or a handoff has taken in
  proc,     \* terminal -> its command
  work,     \* executors that are at work
  started,  \* history: leases under which an executor was started
  spent     \* crashes and faults so far

files  == <<lease, issued, auth, status>>
repo   == <<branch, tree>>
others == <<control, seen, work, started>>
vars   == <<lease, issued, auth, status, branch, tree, control, seen, proc, work, started, spent>>

Torn == MaxLeases + 1

Actions  == {"RUN", "FIX"}
Verdicts == {"NONE", "CHANGES_REQUIRED", "APPROVED"}
Statuses == {"NONE", "NOT_STARTED", "IN_PROGRESS", "CHANGES_REQUIRED", "APPROVED", "IN_REVIEW",
             "EXECUTION_BLOCKED", "HANDOFF_PREPARED", "RECOVERY_REQUIRED"}

\* Fields of the authorization that decide something.  blob: revision of the
\* authorized artifact; failover: control revision in a stable failover's
\* proof, 0 without one; hot: whose edits a hot handoff's checkpoint holds;
\* head: blocked_head_sha; prior and was: pre_start_prior_authorization and
\* the status in pre_start_prior_state.
BareAuth == [status : {"ACTIVE", "CONSUMED", "EXECUTION_BLOCKED", "HANDOFF_PREPARED", "CANCELLED"},
             action : Actions, by : Executors, lease : 1..MaxLeases, blob : 1..MaxEdits,
             published : Nat, failover : 0..MaxEdits, hot : SUBSET Executors,
             head : Nat, was : Statuses, prior : {NoAuth}]

\* The copy kept in prior has no prior of its own; its was is never read.
Bare(a) == IF a = NoAuth THEN NoAuth ELSE [a EXCEPT !.prior = NoAuth, !.was = "NONE"]

IsAuth(a) == \/ a = NoAuth
             \/ /\ Bare(a) \in BareAuth
                /\ a.prior = NoAuth \/ a.prior \in BareAuth

Holds(s) == auth # NoAuth /\ auth.status = s

Clean == tree.in = {} /\ ~tree.out

-----------------------------------------------------------------------------
(* Commands as sequences of durable operations.                            *)

Acquire(l)   == [op |-> "acquire", arg |-> l]
Release(l)   == [op |-> "release", arg |-> l]
Save(a)      == [op |-> "save",    arg |-> a]
Restore(a)   == [op |-> "restore", arg |-> a]
SetStatus(s) == [op |-> "status",  arg |-> s]
Settle(s)    == [op |-> "settle",  arg |-> s]
Verify(es)   == [op |-> "verify",  arg |-> es]
Do(name)     == [op |-> name,      arg |-> 0]

\* auth and lease: what the command works with; once it undoes itself, what
\* has to be there when it is done.
Idle == [cmd |-> "idle", todo |-> <<>>, auth |-> NoAuth, lease |-> 0, head |-> 0,
         safe |-> TRUE, auto |-> FALSE]

Command(cmd, a, l, todo) ==
  [Idle EXCEPT !.cmd = cmd, !.auth = a, !.lease = l, !.todo = todo, !.head = branch.local]

\* _rollback_proven_pre_start_failure and the except branches of the two
\* hot-handoff commands: every operation is tried, and safe records whether
\* all succeeded.
Undo(m) ==
  CASE m.cmd \in {"handoff", "execute"} ->
         [m EXCEPT !.cmd = "undo", !.auth = m.auth.prior, !.lease = 0,
                   !.todo = <<Release(m.lease), Restore(m.auth.prior), Settle(m.auth.was), Do("confirm")>>]
    [] m.cmd = "prepare" ->
         [m EXCEPT !.cmd = "undo",
                   !.todo = <<Acquire(m.lease), Save(m.auth),
                              Settle(IF m.auth.action = "RUN" THEN "IN_PROGRESS" ELSE "CHANGES_REQUIRED"),
                              Do("confirm")>>]
    [] m.cmd = "activate" ->
         [m EXCEPT !.cmd = "undo", !.lease = 0,
                   !.todo = <<Release(m.lease), Save(m.auth), Settle("HANDOFF_PREPARED"), Do("confirm")>>]

\* The operation at the head of the list is over; so may the command be.
Pop(m) == IF Len(m.todo) = 1 THEN Idle ELSE [m EXCEPT !.todo = Tail(m.todo)]

\* Mutant: a rollback that does not notice what it could not do.
OnFailureUnnoticed(m) ==
  LET failed == Head(m.todo).op
  IN CASE m.cmd \in {"undo", "block"} -> Pop(m)
       [] m.cmd \in {"handoff", "activate"} /\ failed # "acquire" -> Undo(m)
       [] m.cmd = "prepare" /\ failed # "release" -> Undo(m)
       [] OTHER -> Idle

\* What a command does when the operation at the head of its list fails.
OnFailure(m) ==
  LET failed == Head(m.todo).op
  IN CASE m.cmd \in {"undo", "block"} -> Pop([m EXCEPT !.safe = FALSE])
       [] m.cmd \in {"handoff", "activate"} /\ failed # "acquire" -> Undo(m)
       [] m.cmd = "prepare" /\ failed # "release" -> Undo(m)
       [] OTHER -> Idle

Init ==
  /\ lease = 0 /\ issued = 0 /\ auth = NoAuth /\ status = "NONE"
  /\ branch = [local |-> 1, remote |-> 0]
  /\ tree = [in |-> {}, out |-> FALSE]
  /\ control = [rev |-> 1, task |-> 1, review |-> 0, verdict |-> "NONE", head |-> 0]
  /\ seen = [task |-> 0, review |-> 0]
  /\ proc = [p \in Procs |-> Idle]
  /\ work = {} /\ started = {}
  /\ spent = [crashes |-> 0, faults |-> 0]

-----------------------------------------------------------------------------
(* cmd_handoff.                                                             *)

ArtifactOf(action) == IF action = "RUN" THEN control.task ELSE control.review

NewAuth(e, action, l, failover) ==
  [status |-> "ACTIVE", action |-> action, by |-> e, lease |-> l, blob |-> ArtifactOf(action),
   published |-> 0, failover |-> failover, hot |-> {}, head |-> 0, was |-> status, prior |-> Bare(auth)]

\* sync_existing_task_branch: a local branch that is ahead is refused.
BranchInSync == branch.remote \in {0, branch.local}

\* require_blocked_executor_replacement
ReplacesBlocked(e, action) ==
  /\ e # auth.by /\ lease = 0 /\ Clean
  /\ branch.local = auth.head
  /\ branch.remote \in {0, auth.head}
  /\ auth.action = "FIX" => action = "FIX" /\ control.head = auth.head

\* _validate_stable_failover_preconditions
StableBoundary ==
  /\ auth.status = "CONSUMED" /\ lease = 0
  /\ auth.published = branch.local
  /\ auth.published = branch.remote

\* Mutant: reconcile_local_main without its look at the worktree.
RunAllowedDirty(e) == Holds("EXECUTION_BLOCKED") => ReplacesBlocked(e, "RUN")

RunAllowed(e) ==
  /\ Clean
  /\ Holds("EXECUTION_BLOCKED") => ReplacesBlocked(e, "RUN")

\* On the task branch the worktree is not looked at, except to replace a
\* blocked executor.
PriorAllowsFix(e) ==
  /\ auth # NoAuth
  /\ IF auth.status = "EXECUTION_BLOCKED" THEN ReplacesBlocked(e, "FIX")
     ELSE e = auth.by \/ StableBoundary

FixAllowed(e) == control.verdict = "CHANGES_REQUIRED" /\ PriorAllowsFix(e)

Failover(e, action) ==
  IF action = "FIX" /\ auth.status # "EXECUTION_BLOCKED" /\ e # auth.by THEN control.rev ELSE 0

TakenIn(action) ==
  IF action = "RUN" THEN [seen EXCEPT !.task = control.task] ELSE [seen EXCEPT !.review = control.review]

StartHandoff(p, e, action) ==
  LET l == issued + 1
      a == NewAuth(e, action, l, Failover(e, action))
  IN /\ proc[p].cmd = "idle" /\ issued < MaxLeases
     /\ BranchInSync
     /\ IF action = "RUN" THEN RunAllowed(e) ELSE FixAllowed(e)
     /\ issued' = l
     /\ seen' = TakenIn(action)
     /\ proc' = [proc EXCEPT ![p] = Command("handoff", a, l,
          <<Acquire(l), Save(a), SetStatus(IF action = "RUN" THEN "IN_PROGRESS" ELSE "CHANGES_REQUIRED"),
            Do("context")>>)]
     /\ UNCHANGED <<lease, auth, status, branch, tree, control, work, started, spent>>

\* A handoff refused for its branch, worktree or prior authorization (or by a
\* failing git command) has taken in its artifact: the watcher will not report
\* it any more.
RefuseHandoff(p, action) ==
  /\ proc[p].cmd = "idle"
  /\ action = "FIX" => control.verdict = "CHANGES_REQUIRED"
  /\ seen' = TakenIn(action)
  /\ UNCHANGED <<files, repo, control, proc, work, started, spent>>

-----------------------------------------------------------------------------
(* Executors, the Human, the reviewer and the watcher.                     *)

Quiet == \A p \in Procs : proc[p].cmd = "idle"

\* An interactive executor begins when the command that authorized it returned.
\* Codex is used through cmd_execute here.
Begin(e) ==
  /\ e # Codex /\ work = {} /\ Quiet
  /\ Holds("ACTIVE") /\ auth.by = e /\ lease = auth.lease
  /\ work' = {e}
  /\ UNCHANGED <<files, repo, control, seen, proc, started, spent>>

Edit(e) ==
  /\ e \in work
  /\ \/ tree' = [tree EXCEPT !.in = @ \cup {e}]
     \/ tree' = [tree EXCEPT !.out = TRUE]
  /\ UNCHANGED <<files, branch, others, proc, spent>>

Waits(p) == proc[p].cmd = "execute" /\ Head(proc[p].todo).op = "wait"

Stop(e) ==
  /\ e \in work
  /\ e = Codex => \A p \in Procs : ~Waits(p)
  /\ work' = work \ {e}
  /\ UNCHANGED <<files, repo, control, seen, proc, started, spent>>

\* The control branch gets a review of what is published, or a new TASK text.
Commission ==
  LET r == control.rev + 1
  IN /\ r <= MaxEdits
     /\ \/ \E v \in Verdicts \ {"NONE"} :
             /\ branch.remote # 0
             /\ control' = [control EXCEPT !.rev = r, !.review = r, !.verdict = v, !.head = branch.remote]
        \/ control' = [control EXCEPT !.rev = r, !.task = r]
     /\ UNCHANGED <<files, repo, seen, proc, work, started, spent>>

\* sync_once, one inbound artifact.
Sync ==
  /\ \/ /\ seen.task # control.task
        /\ seen' = [seen EXCEPT !.task = control.task]
        /\ status' = "NOT_STARTED"
     \/ /\ seen.review # control.review
        /\ seen' = [seen EXCEPT !.review = control.review]
        /\ status' = control.verdict
  /\ UNCHANGED <<lease, issued, auth, repo, control, proc, work, started, spent>>

\* --confirm-stopped and --confirm-quiescent: the Human has seen to it.
Confirmed(p) ==
  /\ work = {}
  /\ \A q \in Procs \ {p} : proc[q].cmd \notin {"execute", "publish"}

-----------------------------------------------------------------------------
(* cmd_lease_release, cmd_hot_handoff_prepare, cmd_hot_handoff_activate.    *)

StartLeaseRelease(p) ==
  /\ proc[p].cmd = "idle" /\ Confirmed(p)
  /\ lease \in 1..MaxLeases
  /\ proc' = [proc EXCEPT ![p] = Command("release", auth, lease,
       (IF Holds("ACTIVE") THEN <<Save([auth EXCEPT !.status = "CANCELLED"])>> ELSE <<>>)
         \o <<Release(lease)>>)]
  /\ UNCHANGED <<files, repo, others, spent>>

StartPrepare(p) ==
  /\ proc[p].cmd = "idle" /\ Confirmed(p)
  /\ Holds("ACTIVE") /\ auth.failover = 0 /\ lease = auth.lease
  /\ auth.blob = ArtifactOf(auth.action)
  /\ tree.in # {} /\ ~tree.out
  /\ proc' = [proc EXCEPT ![p] = Command("prepare", auth, auth.lease,
       <<Release(auth.lease), Verify(tree.in),
         Save([auth EXCEPT !.status = "HANDOFF_PREPARED", !.hot = tree.in]),
         SetStatus("HANDOFF_PREPARED")>>)]
  /\ UNCHANGED <<files, repo, others, spent>>

StartActivate(p, e) ==
  LET l == issued + 1
  IN /\ proc[p].cmd = "idle" /\ issued < MaxLeases
     /\ Holds("HANDOFF_PREPARED") /\ e # auth.by /\ lease = 0
     /\ auth.blob = ArtifactOf(auth.action)
     /\ tree = [in |-> auth.hot, out |-> FALSE]
     /\ issued' = l
     /\ proc' = [proc EXCEPT ![p] = Command("activate", auth, l,
          <<Acquire(l), Verify(auth.hot),
            Save([auth EXCEPT !.status = "ACTIVE", !.by = e, !.lease = l]),
            SetStatus(IF auth.action = "RUN" THEN "IN_PROGRESS" ELSE "CHANGES_REQUIRED")>>)]
     /\ UNCHANGED <<lease, auth, status, repo, others, spent>>

-----------------------------------------------------------------------------
(* cmd_publish and cmd_execute.                                             *)

MayPublish ==
  /\ Holds("ACTIVE") /\ lease = auth.lease
  /\ auth.blob = ArtifactOf(auth.action)
  /\ IF auth.action = "RUN" THEN control.verdict # "CHANGES_REQUIRED"
     ELSE control.verdict = "CHANGES_REQUIRED"
  /\ auth.failover # 0 => auth.failover = control.rev

\* Mutant: the authorization is consumed before the push.
PublishConsumesFirst(auto) ==
  [Command("publish", auth, auth.lease,
     <<Do("test"), Do("recheck"), Do("commit"), Release(auth.lease),
       Save([auth EXCEPT !.status = "CONSUMED", !.published = branch.local + 1]),
       Do("push"), SetStatus("IN_REVIEW")>> \o (IF auto THEN <<Do("audit")>> ELSE <<>>))
   EXCEPT !.auto = auto]

Publish(auto) ==
  [Command("publish", auth, auth.lease,
     <<Do("test"), Do("recheck"), Do("commit"), Do("push"), Release(auth.lease),
       Save([auth EXCEPT !.status = "CONSUMED", !.published = branch.local + 1]),
       SetStatus("IN_REVIEW")>> \o (IF auto THEN <<Do("audit")>> ELSE <<>>))
   EXCEPT !.auto = auto]

\* The interactive executor that publishes has finished its edits.
StartPublish(p) ==
  /\ proc[p].cmd = "idle" /\ MayPublish
  /\ work \subseteq {auth.by} \ {Codex}
  /\ proc' = [proc EXCEPT ![p] = Publish(FALSE)]
  /\ work' = {}
  /\ UNCHANGED <<files, repo, control, seen, started, spent>>

\* Anything that fails before the invocation is rolled back.
StartExecute(p) ==
  LET m == Command("execute", auth, auth.lease, <<Do("invoke")>>)
  IN /\ proc[p].cmd = "idle"
     /\ Holds("ACTIVE") /\ auth.by = Codex /\ Clean
     /\ \/ /\ lease = auth.lease /\ auth.blob = ArtifactOf(auth.action)
           /\ proc' = [proc EXCEPT ![p] = m]
        \/ proc' = [proc EXCEPT ![p] = Undo(m)]
     /\ UNCHANGED <<files, repo, others, spent>>

At(p, op) == proc[p].todo # <<>> /\ Head(proc[p].todo).op = op

Goes(p, m) == proc' = [proc EXCEPT ![p] = m]

Ends(p, s) == Goes(p, [proc[p] EXCEPT !.todo = <<SetStatus(s)>>])

Invoke(p) ==
  /\ At(p, "invoke")
  /\ \/ /\ work' = work \cup {Codex} /\ started' = started \cup {proc[p].lease}
        /\ Goes(p, [proc[p] EXCEPT !.todo = <<Do("wait")>>])
     \/ /\ Ends(p, IF Clean THEN "EXECUTION_BLOCKED" ELSE "RECOVERY_REQUIRED")
        /\ UNCHANGED <<work, started>>
  /\ UNCHANGED <<files, repo, control, seen, spent>>

Untouched(m) == Clean /\ branch.local = m.head
InScope(m)   == tree.in # {} /\ ~tree.out /\ branch.local = m.head

Block(m) ==
  [m EXCEPT !.cmd = "block",
            !.todo = <<Release(m.lease),
                       Save([m.auth EXCEPT !.status = "EXECUTION_BLOCKED", !.head = m.head]),
                       Settle("EXECUTION_BLOCKED"), Do("confirm")>>]

\* The child has ended or was killed at the timeout.
ChildEnds(p) ==
  LET m == proc[p]
  IN /\ At(p, "wait")
     /\ work' = work \ {Codex}
     /\ \/ CASE Untouched(m) -> Goes(p, Block(m))                               \* EXITED_ZERO
             [] InScope(m)   -> Goes(p, IF MayPublish THEN Publish(TRUE) ELSE Idle)
             [] OTHER        -> Ends(p, "RECOVERY_REQUIRED")
        \/ Ends(p, "RECOVERY_REQUIRED")                                         \* EXITED_NONZERO, no evidence
        \/ Ends(p, IF Untouched(m) THEN "EXECUTION_BLOCKED" ELSE "RECOVERY_REQUIRED") \* TIMED_OUT
     /\ UNCHANGED <<files, repo, control, seen, started, spent>>

\* The tests may leave files behind.
RunTests(p) ==
  /\ At(p, "test")
  /\ tree' \in {tree, [tree EXCEPT !.out = TRUE]}
  /\ \/ Goes(p, Pop(proc[p]))
     \/ Ends(p, "CHANGES_REQUIRED")
  /\ UNCHANGED <<files, branch, others, spent>>

\* Mutant: the scope is not looked at again after the tests.
StillValidUnscoped(m) == branch.local = m.head /\ auth = m.auth /\ lease = m.lease

\* allowed_paths come from cmd_execute or from a hot handoff.
StillValid(m) ==
  /\ branch.local = m.head
  /\ auth = m.auth /\ lease = m.lease
  /\ m.auto \/ m.auth.hot # {} => InScope(m)

Recheck(p) ==
  /\ At(p, "recheck")
  /\ IF StillValid(proc[p]) THEN Goes(p, Pop(proc[p]))
     ELSE Ends(p, IF proc[p].auto THEN "CHANGES_REQUIRED" ELSE "RECOVERY_REQUIRED")
  /\ UNCHANGED <<files, repo, others, spent>>

Commit(p) ==
  /\ At(p, "commit")
  /\ branch' = [branch EXCEPT !.local = @ + 1]
  /\ tree' = [in |-> {}, out |-> FALSE]
  /\ Goes(p, Pop(proc[p]))
  /\ UNCHANGED <<files, others, spent>>

Push(p) ==
  /\ At(p, "push")
  /\ branch' = [branch EXCEPT !.remote = branch.local]
  /\ Goes(p, Pop(proc[p]))
  /\ UNCHANGED <<files, tree, others, spent>>

\* The end of cmd_execute looks at what cmd_publish left.
Audit(p) ==
  /\ At(p, "audit")
  /\ IF Holds("CONSUMED") /\ auth.published = branch.local THEN Goes(p, Pop(proc[p]))
     ELSE Ends(p, "RECOVERY_REQUIRED")
  /\ UNCHANGED <<files, repo, others, spent>>

-----------------------------------------------------------------------------
(* Operations that all commands share.                                      *)

\* Mutant: the lease file is opened without O_EXCL.
AcquireLeaseShared(p) ==
  /\ At(p, "acquire")
  /\ lease' = Head(proc[p].todo).arg
  /\ Goes(p, Pop(proc[p]))
  /\ UNCHANGED <<issued, auth, status, repo, others, spent>>

\* AtomicExecutorLeaseStore.acquire
AcquireLease(p) ==
  /\ At(p, "acquire")
  /\ IF lease = 0 THEN lease' = Head(proc[p].todo).arg /\ Goes(p, Pop(proc[p]))
     ELSE lease' = lease /\ Goes(p, OnFailure(proc[p]))
  /\ UNCHANGED <<issued, auth, status, repo, others, spent>>

\* AtomicExecutorLeaseStore.release
ReleaseLease(p) ==
  /\ At(p, "release")
  /\ IF lease = Head(proc[p].todo).arg THEN lease' = 0 /\ Goes(p, Pop(proc[p]))
     ELSE lease' = lease /\ Goes(p, OnFailure(proc[p]))
  /\ UNCHANGED <<issued, auth, status, repo, others, spent>>

SaveAuthorization(p) ==
  /\ At(p, "save")
  /\ auth' = Head(proc[p].todo).arg
  /\ Goes(p, Pop(proc[p]))
  /\ UNCHANGED <<lease, issued, status, repo, others, spent>>

\* A prior authorization that is ACTIVE is not put back.
RestoreAuthorization(p) ==
  LET prior == Head(proc[p].todo).arg
      ok    == prior = NoAuth \/ prior.status # "ACTIVE"
  IN /\ At(p, "restore")
     /\ IF ok THEN auth' = prior /\ Goes(p, Pop(proc[p]))
        ELSE auth' = auth /\ Goes(p, OnFailure(proc[p]))
     /\ UNCHANGED <<lease, issued, status, repo, others, spent>>

UpdateState(p) ==
  /\ At(p, "status")
  /\ status' = Head(proc[p].todo).arg
  /\ Goes(p, Pop(proc[p]))
  /\ UNCHANGED <<lease, issued, auth, repo, others, spent>>

\* End of an undo or a block: the status it aims at, or RECOVERY_REQUIRED.
SettleState(p) ==
  /\ At(p, "settle") \/ At(p, "confirm")
  /\ status' = IF ~proc[p].safe THEN "RECOVERY_REQUIRED"
               ELSE IF At(p, "settle") THEN Head(proc[p].todo).arg ELSE status
  /\ Goes(p, Pop(proc[p]))
  /\ UNCHANGED <<lease, issued, auth, repo, others, spent>>

VerifyCheckpoint(p) ==
  /\ At(p, "verify")
  /\ Goes(p, IF tree = [in |-> Head(proc[p].todo).arg, out |-> FALSE] THEN Pop(proc[p]) ELSE OnFailure(proc[p]))
  /\ UNCHANGED <<files, repo, others, spent>>

\* cmd_context at the end of a handoff only reads.
ShowContext(p) ==
  /\ At(p, "context")
  /\ Goes(p, Pop(proc[p]))
  /\ UNCHANGED <<files, repo, others, spent>>

\* An operation fails.  A failed commit leaves the RESULT file uncommitted.
Fault(p) ==
  /\ spent.faults < MaxFaults
  /\ proc[p].todo # <<>>
  /\ \A op \in {"invoke", "wait", "test", "recheck", "audit", "verify"} : ~At(p, op)
  /\ Goes(p, OnFailure(proc[p]))
  /\ tree' = IF At(p, "commit") THEN [tree EXCEPT !.out = TRUE] ELSE tree
  /\ spent' = [spent EXCEPT !.faults = @ + 1]
  /\ UNCHANGED <<files, branch, others>>

\* The command is killed.  In acquire() that may leave an unreadable file.
Crash(p) ==
  /\ spent.crashes < MaxCrashes
  /\ proc[p].todo # <<>>
  /\ Goes(p, Idle)
  /\ lease' \in {lease} \cup (IF At(p, "acquire") /\ lease = 0 THEN {Torn} ELSE {})
  /\ tree' \in {tree} \cup (IF At(p, "commit") THEN {[tree EXCEPT !.out = TRUE]} ELSE {})
  /\ work' \in {IF Waits(p) THEN work \ {Codex} ELSE work} \cup (IF Orphans THEN {work} ELSE {})
  /\ spent' = [spent EXCEPT !.crashes = @ + 1]
  /\ UNCHANGED <<issued, auth, status, branch, control, seen, started>>

-----------------------------------------------------------------------------
Start(p) ==
  \/ \E e \in Executors, action \in Actions : StartHandoff(p, e, action)
  \/ \E action \in Actions : RefuseHandoff(p, action)
  \/ \E e \in Executors : StartActivate(p, e)
  \/ StartPrepare(p) \/ StartLeaseRelease(p) \/ StartPublish(p) \/ StartExecute(p)

Step(p) ==
  \/ Invoke(p) \/ ChildEnds(p) \/ RunTests(p) \/ Recheck(p) \/ Commit(p) \/ Push(p) \/ Audit(p)
  \/ AcquireLease(p) \/ ReleaseLease(p) \/ SaveAuthorization(p) \/ RestoreAuthorization(p)
  \/ UpdateState(p) \/ SettleState(p) \/ VerifyCheckpoint(p) \/ ShowContext(p)

Next ==
  \/ \E p \in Procs : Start(p) \/ Step(p) \/ Fault(p) \/ Crash(p)
  \/ \E e \in Executors : Begin(e) \/ Edit(e) \/ Stop(e)
  \/ Commission \/ Sync

Spec == Init /\ [][Next]_vars
-----------------------------------------------------------------------------
TypeOK ==
  /\ lease \in 0..Torn /\ issued \in 0..MaxLeases
  /\ IsAuth(auth) /\ status \in Statuses
  /\ branch \in [local : Nat, remote : Nat]
  /\ tree \in [in : SUBSET Executors, out : BOOLEAN]
  /\ control \in [rev : 1..MaxEdits, task : 1..MaxEdits, review : 0..MaxEdits, verdict : Verdicts, head : Nat]
  /\ seen \in [task : 0..MaxEdits, review : 0..MaxEdits]
  /\ \A p \in Procs : IsAuth(proc[p].auth) /\ (proc[p].cmd = "idle") = (proc[p].todo = <<>>)
  /\ work \subseteq Executors /\ started \subseteq 1..MaxLeases
  /\ spent \in [crashes : 0..MaxCrashes, faults : 0..MaxFaults]

\* An authorization that is CONSUMED was really published, and its lease is
\* gone: a stable failover builds on both without asking git again.
ConsumedMeansPublished ==
  Holds("CONSUMED") => auth.published <= branch.remote /\ lease # auth.lease

\* Whoever is at work has the one ACTIVE authorization, and the lease it names
\* is the active one (MAX_ACTIVE_EXECUTORS_PER_TASK = 1).
HolderWorksAlone ==
  \A e \in work : Holds("ACTIVE") /\ auth.by = e /\ auth.lease = lease

Commits(p) == At(p, "commit") /\ branch'.local # branch.local

\* What a RUN authorization commits was made by its executor, or by those whose
\* work a hot handoff gave to it.
RunPublishesOwnWork ==
  [][\A p \in Procs : Commits(p) /\ proc[p].auth.action = "RUN" =>
        tree.in \subseteq {proc[p].auth.by} \cup proc[p].auth.hot]_vars

\* Where allowed paths are known, nothing outside them is committed, not even
\* what the tests of the publication left behind.
CommitsInScope ==
  [][\A p \in Procs : Commits(p) /\ (proc[p].auto \/ proc[p].auth.hot # {}) => ~tree.out]_vars

\* A command that failed and ends its rollback has put lease and authorization
\* back, or the status says RECOVERY_REQUIRED.
FailedCommandUndone ==
  [][\A p \in Procs :
       At(p, "confirm") /\ proc[p].cmd = "undo" /\ proc'[p] = Idle /\ spent' = spent
         => \/ status' = "RECOVERY_REQUIRED"
            \/ lease' = proc[p].lease /\ auth' = proc[p].auth]_vars

\* docs/AIOS_CODEX_EXECUTOR_WINDOWS.md: "Bridge approval/handoff preparation
\* fails closed when the worktree is dirty".  A FIX handoff on the task branch
\* does not look at the worktree.
HandoffStartsClean ==
  [][\A p \in Procs : At(p, "acquire") /\ proc[p].cmd = "handoff" /\ lease' # lease => Clean]_vars

\* Docstring of _rollback_proven_pre_start_failure: "Release a newly acquired
\* lease when the executor provably never started".
RollbackOnlyUnstarted ==
  \A p \in Procs : proc[p].cmd = "undo" /\ At(p, "release") => Head(proc[p].todo).arg \notin started

=============================================================================
