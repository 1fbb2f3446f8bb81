-------------------------- MODULE TaskAuthorityProofs --------------------------
(***************************************************************************)
(* Proofs about TaskAuthority with one terminal whose child does not         *)
(* outlive it, for any executors, leases, revisions, crashes and faults.     *)
(* The argument: what is true at each durable operation of each command is   *)
(* written down (Fits), together with what is true of every authorization    *)
(* in circulation: its lease is older than any that is acquired, it was      *)
(* pushed if it says CONSUMED, and the edits in the worktree are its own     *)
(* while it is an ACTIVE RUN.                                                *)
(***************************************************************************)
EXTENDS TaskAuthority, TLAPS

(* One terminal, and a child that dies with its cmd_execute.               *)
OneTerminal == (\A p, q \in Procs : p = q) /\ Orphans = FALSE

-----------------------------------------------------------------------------
(* Authorizations.                                                         *)

(* An authorization record, whatever its fields that decide nothing here.  *)
Rec(a) ==
  /\ a = [status |-> a.status, action |-> a.action, by |-> a.by, lease |-> a.lease, blob |-> a.blob,
          published |-> a.published, failover |-> a.failover, hot |-> a.hot, head |-> a.head,
          was |-> a.was, prior |-> a.prior]
  /\ a.lease \in Nat \ {0} /\ a.published \in Nat

(* The authorization it replaced is older, and has none of its own.        *)
Line(a) ==
  /\ Rec(a)
  /\ a.prior # NoAuth => Rec(a.prior) /\ a.prior.prior = NoAuth /\ a.prior.lease < a.lease

Known(a) == a # NoAuth => Line(a) /\ a.lease <= issued

Pushed(a) == a # NoAuth /\ a.status = "CONSUMED" => a.published <= branch.remote /\ a.lease # lease

(* A CONSUMED authorization was pushed and its lease is gone; so was the   *)
(* one it replaced, which a rollback may put back.                         *)
Settled(a) == Pushed(a) /\ (a # NoAuth => Pushed(a.prior))

(* The edits in the worktree are those of an ACTIVE RUN's executor, or     *)
(* were handed over to it.                                                 *)
Own(a) == a # NoAuth /\ a.status = "ACTIVE" /\ a.action = "RUN" => tree.in \subseteq {a.by} \cup a.hot

-----------------------------------------------------------------------------
(* What is true at each operation of each command m.                       *)

IsCommand(m) ==
  /\ m = [cmd |-> m.cmd, todo |-> m.todo, auth |-> m.auth, lease |-> m.lease, head |-> m.head,
          safe |-> m.safe, auto |-> m.auto]
  /\ m.safe \in BOOLEAN /\ m.auto \in BOOLEAN /\ m.head \in Nat /\ m.lease \in Nat

IdleAt(m) == m = Idle /\ Codex \notin work

(* cmd_handoff.                                                            *)
InHandoff(m) ==
  /\ m.cmd = "handoff" /\ m.safe = TRUE
  /\ Line(m.auth) /\ m.auth.status = "ACTIVE" /\ m.auth.lease = m.lease
  /\ m.lease <= issued /\ Pushed(m.auth.prior)

HandoffAcquire(m) ==
  /\ InHandoff(m) /\ Codex \notin work
  /\ Len(m.todo) = 4 /\ m.todo = <<Acquire(m.lease), Save(m.auth), m.todo[3], Do("context")>>
  /\ m.todo[3].op = "status"
  /\ auth # NoAuth => auth.lease < m.lease
  /\ m.auth.action = "RUN" /\ lease = 0 => tree.in = {}

HandoffSave(m) ==
  /\ InHandoff(m) /\ work = {}
  /\ Len(m.todo) = 3 /\ m.todo = <<Save(m.auth), m.todo[2], Do("context")>>
  /\ m.todo[2].op = "status"
  /\ m.auth.action = "RUN" => tree.in = {}

HandoffStatus(m) ==
  /\ InHandoff(m) /\ work = {}
  /\ Len(m.todo) = 2 /\ m.todo = <<m.todo[1], Do("context")>> /\ m.todo[1].op = "status"

HandoffContext(m) == InHandoff(m) /\ work = {} /\ m.todo = <<Do("context")>>

HandoffAt(m) == HandoffAcquire(m) \/ HandoffSave(m) \/ HandoffStatus(m) \/ HandoffContext(m)

(* A rollback.  Puts(m, x): the operation that puts the authorization back. *)
Puts(m, x) == x = Restore(m.auth) \/ (x = Save(m.auth) /\ Line(m.auth) /\ Own(m.auth))

InUndo(m) == m.cmd = "undo" /\ work = {}

UndoRelease(m) ==
  /\ InUndo(m) /\ m.lease = 0
  /\ Len(m.todo) = 4 /\ m.todo = <<m.todo[1], m.todo[2], m.todo[3], Do("confirm")>>
  /\ m.todo[1].op = "release" /\ Puts(m, m.todo[2]) /\ m.todo[3].op = "settle"

UndoAcquire(m) ==
  /\ InUndo(m)
  /\ Len(m.todo) = 4 /\ m.todo = <<Acquire(m.lease), Save(m.auth), m.todo[3], Do("confirm")>>
  /\ m.todo[3].op = "settle"
  /\ Line(m.auth) /\ m.auth.status = "ACTIVE" /\ m.auth.lease = m.lease /\ Own(m.auth)
  /\ auth # NoAuth => auth.lease = m.lease /\ auth.status # "CONSUMED"

UndoPut(m) ==
  /\ InUndo(m)
  /\ Len(m.todo) = 3 /\ m.todo = <<m.todo[1], m.todo[2], Do("confirm")>>
  /\ Puts(m, m.todo[1]) /\ m.todo[2].op = "settle"
  /\ m.safe = TRUE => lease = m.lease

UndoSettle(m) ==
  /\ InUndo(m)
  /\ Len(m.todo) = 2 /\ m.todo = <<m.todo[1], Do("confirm")>> /\ m.todo[1].op = "settle"
  /\ m.safe = TRUE => lease = m.lease /\ auth = m.auth

UndoConfirm(m) ==
  InUndo(m) /\ m.todo = <<Do("confirm")>> /\ (m.safe = TRUE => lease = m.lease /\ auth = m.auth)

UndoAt(m) == UndoRelease(m) \/ UndoAcquire(m) \/ UndoPut(m) \/ UndoSettle(m) \/ UndoConfirm(m)

(* The end of a cmd_execute whose executor did nothing.                    *)
Blocked(m) == [m.auth EXCEPT !.status = "EXECUTION_BLOCKED", !.head = m.head]

InBlock(m) == m.cmd = "block" /\ work = {} /\ m.auth # NoAuth /\ Line(m.auth)

BlockRelease(m) ==
  /\ InBlock(m)
  /\ Len(m.todo) = 4 /\ m.todo = <<m.todo[1], Save(Blocked(m)), m.todo[3], Do("confirm")>>
  /\ m.todo[1].op = "release" /\ m.todo[3].op = "settle"

BlockSave(m) ==
  /\ InBlock(m)
  /\ Len(m.todo) = 3 /\ m.todo = <<Save(Blocked(m)), m.todo[2], Do("confirm")>> /\ m.todo[2].op = "settle"

BlockSettle(m) ==
  /\ InBlock(m)
  /\ Len(m.todo) = 2 /\ m.todo = <<m.todo[1], Do("confirm")>> /\ m.todo[1].op = "settle"

BlockConfirm(m) == InBlock(m) /\ m.todo = <<Do("confirm")>>

BlockAt(m) == BlockRelease(m) \/ BlockSave(m) \/ BlockSettle(m) \/ BlockConfirm(m)

(* cmd_hot_handoff_prepare.                                                *)
Prepared(m, es) == [m.auth EXCEPT !.status = "HANDOFF_PREPARED", !.hot = es]

InPrepare(m) ==
  /\ m.cmd = "prepare" /\ m.safe = TRUE /\ work = {} /\ m.auth # NoAuth
  /\ Line(m.auth) /\ m.auth.status = "ACTIVE" /\ m.auth.lease = m.lease /\ Own(m.auth)

PrepareRelease(m) ==
  /\ InPrepare(m) /\ auth = m.auth
  /\ Len(m.todo) = 4 /\ m.todo = <<m.todo[1], m.todo[2], Save(Prepared(m, m.todo[2].arg)), m.todo[4]>>
  /\ m.todo[1].op = "release" /\ m.todo[2].op = "verify" /\ m.todo[4].op = "status"

PrepareVerify(m) ==
  /\ InPrepare(m) /\ auth = m.auth
  /\ Len(m.todo) = 3 /\ m.todo = <<m.todo[1], Save(Prepared(m, m.todo[1].arg)), m.todo[3]>>
  /\ m.todo[1].op = "verify" /\ m.todo[3].op = "status"

PrepareSave(m) ==
  /\ InPrepare(m) /\ auth = m.auth
  /\ Len(m.todo) = 2 /\ m.todo = <<Save(Prepared(m, m.todo[1].arg.hot)), m.todo[2]>>
  /\ m.todo[2].op = "status"

PrepareStatus(m) ==
  /\ InPrepare(m) /\ (auth # NoAuth => auth.lease = m.lease /\ auth.status # "CONSUMED")
  /\ Len(m.todo) = 1 /\ m.todo = <<m.todo[1]>> /\ m.todo[1].op = "status"

PrepareAt(m) == PrepareRelease(m) \/ PrepareVerify(m) \/ PrepareSave(m) \/ PrepareStatus(m)

(* cmd_hot_handoff_activate.                                               *)
Activated(m, e) == [m.auth EXCEPT !.status = "ACTIVE", !.by = e, !.lease = m.lease]

InActivate(m) ==
  /\ m.cmd = "activate" /\ m.safe = TRUE /\ work = {} /\ m.auth # NoAuth
  /\ Line(m.auth) /\ m.auth.status = "HANDOFF_PREPARED" /\ m.auth.lease < m.lease /\ m.lease <= issued

ActivateAcquire(m) ==
  /\ InActivate(m) /\ auth = m.auth /\ tree.in = m.auth.hot
  /\ Len(m.todo) = 4
  /\ m.todo = <<Acquire(m.lease), m.todo[2], Save(Activated(m, m.todo[3].arg.by)), m.todo[4]>>
  /\ m.todo[2].op = "verify" /\ m.todo[4].op = "status"

ActivateVerify(m) ==
  /\ InActivate(m) /\ tree.in = m.auth.hot
  /\ Len(m.todo) = 3 /\ m.todo = <<m.todo[1], Save(Activated(m, m.todo[2].arg.by)), m.todo[3]>>
  /\ m.todo[1].op = "verify" /\ m.todo[3].op = "status"

ActivateSave(m) ==
  /\ InActivate(m) /\ tree.in = m.auth.hot
  /\ Len(m.todo) = 2 /\ m.todo = <<Save(Activated(m, m.todo[1].arg.by)), m.todo[2]>>
  /\ m.todo[2].op = "status"

ActivateStatus(m) ==
  InActivate(m) /\ Len(m.todo) = 1 /\ m.todo = <<m.todo[1]>> /\ m.todo[1].op = "status"

ActivateAt(m) == ActivateAcquire(m) \/ ActivateVerify(m) \/ ActivateSave(m) \/ ActivateStatus(m)

(* cmd_lease_release.                                                      *)
ReleaseSave(m) ==
  /\ m.cmd = "release" /\ work = {} /\ Len(m.todo) = 2 /\ m.auth # NoAuth /\ Line(m.auth)
  /\ m.todo = <<Save([m.auth EXCEPT !.status = "CANCELLED"]), m.todo[2]>>
  /\ m.todo[2].op = "release"

ReleaseRelease(m) ==
  /\ m.cmd = "release" /\ work = {}
  /\ Len(m.todo) = 1 /\ m.todo = <<m.todo[1]>> /\ m.todo[1].op = "release"

ReleaseAt(m) == ReleaseSave(m) \/ ReleaseRelease(m)

(* cmd_publish: what is left of it, from each of its operations on.        *)
Published(m) == [m.auth EXCEPT !.status = "CONSUMED", !.published = m.head + 1]

TodoSave(m) ==
  IF m.auto THEN <<Save(Published(m)), SetStatus("IN_REVIEW"), Do("audit")>>
            ELSE <<Save(Published(m)), SetStatus("IN_REVIEW")>>

TodoRelease(m) ==
  IF m.auto THEN <<Release(m.lease), Save(Published(m)), SetStatus("IN_REVIEW"), Do("audit")>>
            ELSE <<Release(m.lease), Save(Published(m)), SetStatus("IN_REVIEW")>>

TodoPush(m) ==
  IF m.auto
  THEN <<Do("push"), Release(m.lease), Save(Published(m)), SetStatus("IN_REVIEW"), Do("audit")>>
  ELSE <<Do("push"), Release(m.lease), Save(Published(m)), SetStatus("IN_REVIEW")>>

TodoCommit(m) ==
  IF m.auto
  THEN <<Do("commit"), Do("push"), Release(m.lease), Save(Published(m)), SetStatus("IN_REVIEW"), Do("audit")>>
  ELSE <<Do("commit"), Do("push"), Release(m.lease), Save(Published(m)), SetStatus("IN_REVIEW")>>

TodoRecheck(m) ==
  IF m.auto
  THEN <<Do("recheck"), Do("commit"), Do("push"), Release(m.lease), Save(Published(m)),
         SetStatus("IN_REVIEW"), Do("audit")>>
  ELSE <<Do("recheck"), Do("commit"), Do("push"), Release(m.lease), Save(Published(m)),
         SetStatus("IN_REVIEW")>>

TodoTest(m) ==
  IF m.auto
  THEN <<Do("test"), Do("recheck"), Do("commit"), Do("push"), Release(m.lease), Save(Published(m)),
         SetStatus("IN_REVIEW"), Do("audit")>>
  ELSE <<Do("test"), Do("recheck"), Do("commit"), Do("push"), Release(m.lease), Save(Published(m)),
         SetStatus("IN_REVIEW")>>

(* The same executor's edits, and nothing out of a scope that is known.    *)
MayCommit(m) == Own(m.auth) /\ (m.auto = TRUE \/ m.auth.hot # {} => tree.out = FALSE)

InPublish(m) ==
  m.cmd = "publish" /\ work = {} /\ m.auth # NoAuth /\ Line(m.auth) /\ m.auth.status = "ACTIVE"

PublishTest(m)    == InPublish(m) /\ m.todo = TodoTest(m) /\ Own(m.auth)
PublishRecheck(m) == InPublish(m) /\ m.todo = TodoRecheck(m) /\ Own(m.auth)
PublishCommit(m)  == InPublish(m) /\ m.todo = TodoCommit(m) /\ branch.local = m.head /\ MayCommit(m)
PublishPush(m)    == InPublish(m) /\ m.todo = TodoPush(m) /\ branch.local = m.head + 1
PublishRelease(m) == InPublish(m) /\ m.todo = TodoRelease(m) /\ branch.remote = m.head + 1
PublishSave(m)    == InPublish(m) /\ m.todo = TodoSave(m) /\ branch.remote = m.head + 1 /\ lease = 0
PublishStatus(m)  ==
  m.cmd = "publish" /\ work = {} /\ m.todo = <<SetStatus("IN_REVIEW"), Do("audit")>>
PublishAudit(m)   == m.cmd = "publish" /\ work = {} /\ m.todo = <<Do("audit")>>

(* A publication or an execution that ends with a status.                  *)
Ending(m) ==
  /\ m.cmd \in {"publish", "execute"} /\ work = {}
  /\ Len(m.todo) = 1 /\ m.todo = <<m.todo[1]>> /\ m.todo[1].op = "status"

PublishAt(m) ==
  \/ PublishTest(m) \/ PublishRecheck(m) \/ PublishCommit(m) \/ PublishPush(m)
  \/ PublishRelease(m) \/ PublishSave(m) \/ PublishStatus(m) \/ PublishAudit(m)

(* cmd_execute.                                                            *)
ExecuteInvoke(m) ==
  /\ m.cmd = "execute" /\ m.todo = <<Do("invoke")>> /\ work = {} /\ m.auth # NoAuth /\ Line(m.auth)
  /\ Holds("ACTIVE") /\ auth.by = Codex /\ lease = auth.lease

ExecuteWait(m) ==
  /\ m.cmd = "execute" /\ m.todo = <<Do("wait")>> /\ work \subseteq {Codex}
  /\ m.auth # NoAuth /\ Line(m.auth)

ExecuteAt(m) == ExecuteInvoke(m) \/ ExecuteWait(m)

Fits(m) ==
  \/ IdleAt(m) \/ HandoffAt(m) \/ UndoAt(m) \/ BlockAt(m) \/ PrepareAt(m)
  \/ ActivateAt(m) \/ ReleaseAt(m) \/ PublishAt(m) \/ ExecuteAt(m) \/ Ending(m)

-----------------------------------------------------------------------------
Typed ==
  /\ lease \in Nat /\ issued \in 0 .. MaxLeases
  /\ branch \in [local : Nat, remote : Nat] /\ branch.remote <= branch.local
  /\ tree = [in |-> tree.in, out |-> tree.out] /\ tree.out \in BOOLEAN
  /\ spent \in [crashes : Nat, faults : Nat]
  /\ proc = [p \in Procs |-> proc[p]]
  /\ \A p \in Procs : IsCommand(proc[p])

(* Everything in circulation is known and settled, and the ACTIVE          *)
(* authorization owns the edits.                                           *)
Circulation ==
  /\ Known(auth) /\ Settled(auth) /\ Own(auth)
  /\ \A p \in Procs : Known(proc[p].auth) /\ Settled(proc[p].auth)

Phases == \A p \in Procs : Fits(proc[p])

Safe == Typed /\ Circulation /\ HolderWorksAlone /\ Phases

-----------------------------------------------------------------------------
(***************************************************************************)
(* Lists of operations.                                                     *)
(***************************************************************************)
(* What is left of a list when its first operation is over.                *)
LEMMA Lists ==
  ASSUME NEW a, NEW b, NEW c, NEW d, NEW e, NEW f, NEW g, NEW h
  PROVE  /\ <<a>> # <<>> /\ Len(<<a>>) = 1 /\ Head(<<a>>) = a
         /\ <<a, b>> # <<>> /\ Len(<<a, b>>) = 2 /\ Head(<<a, b>>) = a /\ Tail(<<a, b>>) = <<b>>
         /\ <<a, b, c>> # <<>> /\ Len(<<a, b, c>>) = 3 /\ Head(<<a, b, c>>) = a
         /\ Tail(<<a, b, c>>) = <<b, c>>
         /\ <<a, b, c, d>> # <<>> /\ Len(<<a, b, c, d>>) = 4 /\ Head(<<a, b, c, d>>) = a
         /\ Tail(<<a, b, c, d>>) = <<b, c, d>>
         /\ <<a, b, c, d, e>> # <<>> /\ Len(<<a, b, c, d, e>>) = 5 /\ Head(<<a, b, c, d, e>>) = a
         /\ Tail(<<a, b, c, d, e>>) = <<b, c, d, e>>
         /\ <<a, b, c, d, e, f>> # <<>> /\ Len(<<a, b, c, d, e, f>>) = 6 /\ Head(<<a, b, c, d, e, f>>) = a
         /\ Tail(<<a, b, c, d, e, f>>) = <<b, c, d, e, f>>
         /\ <<a, b, c, d, e, f, g>> # <<>> /\ Len(<<a, b, c, d, e, f, g>>) = 7
         /\ Head(<<a, b, c, d, e, f, g>>) = a /\ Tail(<<a, b, c, d, e, f, g>>) = <<b, c, d, e, f, g>>
         /\ <<a, b, c, d, e, f, g, h>> # <<>> /\ Len(<<a, b, c, d, e, f, g, h>>) = 8
         /\ Head(<<a, b, c, d, e, f, g, h>>) = a
         /\ Tail(<<a, b, c, d, e, f, g, h>>) = <<b, c, d, e, f, g, h>>
<1>1. <<a>> # <<>> /\ Len(<<a>>) = 1 /\ Head(<<a>>) = a
  OBVIOUS
<1>2. <<a, b>> # <<>> /\ Len(<<a, b>>) = 2 /\ Head(<<a, b>>) = a /\ Tail(<<a, b>>) = <<b>>
  OBVIOUS
<1>3. /\ <<a, b, c>> # <<>> /\ Len(<<a, b, c>>) = 3 /\ Head(<<a, b, c>>) = a
      /\ Tail(<<a, b, c>>) = <<b, c>>
  OBVIOUS
<1>4. /\ <<a, b, c, d>> # <<>> /\ Len(<<a, b, c, d>>) = 4 /\ Head(<<a, b, c, d>>) = a
      /\ Tail(<<a, b, c, d>>) = <<b, c, d>>
  OBVIOUS
<1>5. /\ <<a, b, c, d, e>> # <<>> /\ Len(<<a, b, c, d, e>>) = 5 /\ Head(<<a, b, c, d, e>>) = a
      /\ Tail(<<a, b, c, d, e>>) = <<b, c, d, e>>
  OBVIOUS
<1>6. /\ <<a, b, c, d, e, f>> # <<>> /\ Len(<<a, b, c, d, e, f>>) = 6 /\ Head(<<a, b, c, d, e, f>>) = a
      /\ Tail(<<a, b, c, d, e, f>>) = <<b, c, d, e, f>>
  OBVIOUS
<1>7. /\ <<a, b, c, d, e, f, g>> # <<>> /\ Len(<<a, b, c, d, e, f, g>>) = 7
      /\ Head(<<a, b, c, d, e, f, g>>) = a /\ Tail(<<a, b, c, d, e, f, g>>) = <<b, c, d, e, f, g>>
  OBVIOUS
<1>8. /\ <<a, b, c, d, e, f, g, h>> # <<>> /\ Len(<<a, b, c, d, e, f, g, h>>) = 8
      /\ Head(<<a, b, c, d, e, f, g, h>>) = a
      /\ Tail(<<a, b, c, d, e, f, g, h>>) = <<b, c, d, e, f, g, h>>
  OBVIOUS
<1> QED
  BY <1>1, <1>2, <1>3, <1>4, <1>5, <1>6, <1>7, <1>8

(* An operation is known by its name.                                      *)
LEMMA Ops ==
  ASSUME NEW x
  PROVE  /\ Acquire(x).op = "acquire" /\ Acquire(x).arg = x
         /\ Release(x).op = "release" /\ Release(x).arg = x
         /\ Save(x).op = "save" /\ Save(x).arg = x
         /\ Restore(x).op = "restore" /\ Restore(x).arg = x
         /\ SetStatus(x).op = "status" /\ SetStatus(x).arg = x
         /\ Settle(x).op = "settle" /\ Settle(x).arg = x
         /\ Verify(x).op = "verify" /\ Verify(x).arg = x
         /\ Do(x).op = x
  BY DEF Acquire, Release, Save, Restore, SetStatus, Settle, Verify, Do

(* When an operation is over, the command goes on with the rest.           *)
LEMMA PopRest ==
  ASSUME NEW m, IsCommand(m), Len(m.todo) # 1
  PROVE  /\ IsCommand(Pop(m)) /\ Pop(m).cmd = m.cmd /\ Pop(m).todo = Tail(m.todo)
         /\ Pop(m).auth = m.auth /\ Pop(m).lease = m.lease
         /\ Pop(m).head = m.head /\ Pop(m).safe = m.safe /\ Pop(m).auto = m.auto
<1>1. Pop(m) = [m EXCEPT !.todo = Tail(m.todo)]
  BY DEF Pop
<1> QED
  BY <1>1 DEF IsCommand

(* After the last one the terminal is free.                                *)
LEMMA PopLast ==
  ASSUME NEW m, Len(m.todo) = 1
  PROVE  Pop(m) = Idle
  BY DEF Pop

(* A terminal without a command is a command of its own.                   *)
LEMMA IdleIs ==
  /\ IsCommand(Idle) /\ Idle.cmd = "idle" /\ Idle.todo = <<>> /\ Idle.auth = NoAuth
  /\ Idle.lease = 0 /\ Idle.head = 0 /\ Idle.safe = TRUE /\ Idle.auto = FALSE
  BY DEF Idle, IsCommand

-----------------------------------------------------------------------------
(***************************************************************************)
(* Authorizations that are written.                                         *)
(***************************************************************************)
(* A change of status.                                                    *)
LEMMA Restated ==
  ASSUME NEW a, Line(a), NEW b, NEW s, b = [a EXCEPT !.status = s]
  PROVE  /\ Line(b) /\ b.status = s /\ b.lease = a.lease /\ b.prior = a.prior
         /\ b.published = a.published /\ b.action = a.action /\ b.by = a.by
<1>1. Rec(a)
  BY DEF Line
<1>2. /\ b.status = s /\ b.lease = a.lease /\ b.prior = a.prior
      /\ b.published = a.published /\ b.action = a.action /\ b.by = a.by
  BY <1>1 DEF Rec
<1>3. Rec(b)
  BY <1>1 DEF Rec
<1> QED
  BY <1>2, <1>3 DEF Line

(* A change of status, with the edits that are handed over.               *)
PreparedWith(a, h) == [a EXCEPT !.status = "HANDOFF_PREPARED", !.hot = h]

LEMMA RestatedHot ==
  ASSUME NEW a, Line(a), NEW b, NEW h, b = PreparedWith(a, h)
  PROVE  /\ Line(b) /\ b.status = "HANDOFF_PREPARED" /\ b.lease = a.lease /\ b.prior = a.prior
         /\ b.published = a.published /\ b.action = a.action /\ b.by = a.by
<1>0. b = [a EXCEPT !.status = "HANDOFF_PREPARED", !.hot = h]
  BY DEF PreparedWith
<1>1. Rec(a)
  BY DEF Line
<1>2. /\ b.status = "HANDOFF_PREPARED" /\ b.lease = a.lease /\ b.prior = a.prior
      /\ b.published = a.published /\ b.action = a.action /\ b.by = a.by
  BY <1>0, <1>1 DEF Rec
<1>3. Rec(b)
  BY <1>0, <1>1 DEF Rec
<1> QED
  BY <1>2, <1>3 DEF Line

(* A change of status, with the head of a blocked branch.                 *)
BlockedAt(a, h) == [a EXCEPT !.status = "EXECUTION_BLOCKED", !.head = h]

LEMMA RestatedHead ==
  ASSUME NEW a, Line(a), NEW b, NEW h, b = BlockedAt(a, h)
  PROVE  /\ Line(b) /\ b.status = "EXECUTION_BLOCKED" /\ b.lease = a.lease /\ b.prior = a.prior
         /\ b.published = a.published /\ b.action = a.action /\ b.by = a.by
<1>0. b = [a EXCEPT !.status = "EXECUTION_BLOCKED", !.head = h]
  BY DEF BlockedAt
<1>1. Rec(a)
  BY DEF Line
<1>2. /\ b.status = "EXECUTION_BLOCKED" /\ b.lease = a.lease /\ b.prior = a.prior
      /\ b.published = a.published /\ b.action = a.action /\ b.by = a.by
  BY <1>0, <1>1 DEF Rec
<1>3. Rec(b)
  BY <1>0, <1>1 DEF Rec
<1> QED
  BY <1>2, <1>3 DEF Line

(* A hot handoff's target takes the record over with a newer lease.        *)
TakenOver(a, e, l) == [a EXCEPT !.status = "ACTIVE", !.by = e, !.lease = l]

LEMMA HandedOver ==
  ASSUME NEW a, Line(a), NEW b, NEW e, NEW l \in Nat, a.lease < l, b = TakenOver(a, e, l)
  PROVE  /\ Line(b) /\ b.status = "ACTIVE" /\ b.lease = l /\ b.prior = a.prior
         /\ b.hot = a.hot /\ b.by = e /\ b.action = a.action
<1>0. b = [a EXCEPT !.status = "ACTIVE", !.by = e, !.lease = l]
  BY DEF TakenOver
<1>1. Rec(a)
  BY DEF Line
<1>2. /\ b.status = "ACTIVE" /\ b.lease = l /\ b.prior = a.prior
      /\ b.hot = a.hot /\ b.by = e /\ b.action = a.action
  BY <1>0, <1>1 DEF Rec
<1>3. Rec(b)
  <2>1. a.lease \in Nat \ {0} /\ l # 0 /\ b.published = a.published /\ a.published \in Nat
    BY <1>0, <1>1 DEF Rec
  <2>2. b = [status |-> b.status, action |-> b.action, by |-> b.by, lease |-> b.lease, blob |-> b.blob,
          published |-> b.published, failover |-> b.failover, hot |-> b.hot, head |-> b.head,
          was |-> b.was, prior |-> b.prior]
    BY <1>0, <1>1 DEF Rec
  <2> QED
    BY <2>1, <2>2, <1>2 DEF Rec
<1>4. a.prior # NoAuth => a.prior.lease < l
  BY <1>1 DEF Line, Rec
<1> QED
  BY <1>2, <1>3, <1>4 DEF Line

(* The authorization of a handoff keeps the one it replaces.               *)
LEMMA NewAuthIs ==
  ASSUME NEW e, NEW action, NEW l \in Nat, NEW failover, NEW a, a = NewAuth(e, action, l, failover),
         Known(auth), auth # NoAuth => auth.lease < l, l # 0
  PROVE  /\ Line(a) /\ a.status = "ACTIVE" /\ a.lease = l /\ a.action = action
         /\ a.prior # NoAuth => /\ auth # NoAuth /\ a.prior.lease = auth.lease
                                /\ a.prior.published = auth.published /\ a.prior.status = auth.status
<1>1. /\ a.status = "ACTIVE" /\ a.lease = l /\ a.action = action /\ a.published = 0 /\ a.prior = Bare(auth)
  BY DEF NewAuth
<1>2. Rec(a)
  BY <1>1 DEF NewAuth, Rec
<1>3. CASE auth = NoAuth
  BY <1>1, <1>2, <1>3 DEF Bare, Line
<1>4. CASE auth # NoAuth
  <2>1. Rec(auth) /\ auth.lease < l
    BY <1>4 DEF Known, Line
  <2>2. a.prior = [auth EXCEPT !.prior = NoAuth, !.was = "NONE"]
    BY <1>1, <1>4 DEF Bare
  <2>3. /\ a.prior.lease = auth.lease /\ a.prior.published = auth.published
        /\ a.prior.status = auth.status /\ a.prior.prior = NoAuth
    BY <2>1, <2>2 DEF Rec
  <2>4. Rec(a.prior)
    BY <2>1, <2>2 DEF Rec
  <2> QED
    BY <1>1, <1>2, <1>4, <2>1, <2>3, <2>4 DEF Line
<1> QED
  BY <1>3, <1>4

-----------------------------------------------------------------------------
(***************************************************************************)
(* The operation at the head of a command's list tells where it is.         *)
(***************************************************************************)
(* A handoff.                                                              *)
LEMMA HandoffHeads ==
  ASSUME NEW m
  PROVE  /\ HandoffAcquire(m) => m.todo # <<>> /\ Head(m.todo).op = "acquire"
         /\ HandoffSave(m) => m.todo # <<>> /\ Head(m.todo).op = "save"
         /\ HandoffStatus(m) => m.todo # <<>> /\ Head(m.todo).op = "status"
         /\ HandoffContext(m) => m.todo # <<>> /\ Head(m.todo).op = "context"
<1>1. HandoffAcquire(m) => m.todo # <<>> /\ Head(m.todo).op = "acquire"
  BY Lists, Ops DEF HandoffAcquire
<1>2. HandoffSave(m) => m.todo # <<>> /\ Head(m.todo).op = "save"
  BY Lists, Ops DEF HandoffSave
<1>3. HandoffStatus(m) => m.todo # <<>> /\ Head(m.todo).op = "status"
  BY Lists, Ops DEF HandoffStatus
<1>4. HandoffContext(m) => m.todo # <<>> /\ Head(m.todo).op = "context"
  BY Lists, Ops DEF HandoffContext
<1> QED
  BY <1>1, <1>2, <1>3, <1>4

(* A rollback.                                                             *)
LEMMA UndoHeads ==
  ASSUME NEW m
  PROVE  /\ UndoRelease(m) => m.todo # <<>> /\ Head(m.todo).op = "release"
         /\ UndoAcquire(m) => m.todo # <<>> /\ Head(m.todo).op = "acquire"
         /\ UndoPut(m) => m.todo # <<>> /\ Head(m.todo).op \in {"restore", "save"}
         /\ UndoSettle(m) => m.todo # <<>> /\ Head(m.todo).op = "settle"
         /\ UndoConfirm(m) => m.todo # <<>> /\ Head(m.todo).op = "confirm"
<1>1. UndoRelease(m) => m.todo # <<>> /\ Head(m.todo).op = "release"
  BY Lists, Ops DEF UndoRelease
<1>2. UndoAcquire(m) => m.todo # <<>> /\ Head(m.todo).op = "acquire"
  BY Lists, Ops DEF UndoAcquire
<1>3. UndoPut(m) => m.todo # <<>> /\ Head(m.todo).op \in {"restore", "save"}
  BY Lists, Ops DEF UndoPut, Puts
<1>4. UndoSettle(m) => m.todo # <<>> /\ Head(m.todo).op = "settle"
  BY Lists, Ops DEF UndoSettle
<1>5. UndoConfirm(m) => m.todo # <<>> /\ Head(m.todo).op = "confirm"
  BY Lists, Ops DEF UndoConfirm
<1> QED
  BY <1>1, <1>2, <1>3, <1>4, <1>5

(* A block.                                                                *)
LEMMA BlockHeads ==
  ASSUME NEW m
  PROVE  /\ BlockRelease(m) => m.todo # <<>> /\ Head(m.todo).op = "release"
         /\ BlockSave(m) => m.todo # <<>> /\ Head(m.todo).op = "save"
         /\ BlockSettle(m) => m.todo # <<>> /\ Head(m.todo).op = "settle"
         /\ BlockConfirm(m) => m.todo # <<>> /\ Head(m.todo).op = "confirm"
<1>1. BlockRelease(m) => m.todo # <<>> /\ Head(m.todo).op = "release"
  BY Lists, Ops DEF BlockRelease
<1>2. BlockSave(m) => m.todo # <<>> /\ Head(m.todo).op = "save"
  BY Lists, Ops DEF BlockSave
<1>3. BlockSettle(m) => m.todo # <<>> /\ Head(m.todo).op = "settle"
  BY Lists, Ops DEF BlockSettle
<1>4. BlockConfirm(m) => m.todo # <<>> /\ Head(m.todo).op = "confirm"
  BY Lists, Ops DEF BlockConfirm
<1> QED
  BY <1>1, <1>2, <1>3, <1>4

(* A hot handoff's two commands.                                           *)
LEMMA HotHeads ==
  ASSUME NEW m
  PROVE  /\ PrepareRelease(m) => m.todo # <<>> /\ Head(m.todo).op = "release"
         /\ PrepareVerify(m) => m.todo # <<>> /\ Head(m.todo).op = "verify"
         /\ PrepareSave(m) => m.todo # <<>> /\ Head(m.todo).op = "save"
         /\ PrepareStatus(m) => m.todo # <<>> /\ Head(m.todo).op = "status"
         /\ ActivateAcquire(m) => m.todo # <<>> /\ Head(m.todo).op = "acquire"
         /\ ActivateVerify(m) => m.todo # <<>> /\ Head(m.todo).op = "verify"
         /\ ActivateSave(m) => m.todo # <<>> /\ Head(m.todo).op = "save"
         /\ ActivateStatus(m) => m.todo # <<>> /\ Head(m.todo).op = "status"
<1>1. PrepareRelease(m) => m.todo # <<>> /\ Head(m.todo).op = "release"
  BY Lists, Ops DEF PrepareRelease
<1>2. PrepareVerify(m) => m.todo # <<>> /\ Head(m.todo).op = "verify"
  BY Lists, Ops DEF PrepareVerify
<1>3. PrepareSave(m) => m.todo # <<>> /\ Head(m.todo).op = "save"
  BY Lists, Ops DEF PrepareSave
<1>4. PrepareStatus(m) => m.todo # <<>> /\ Head(m.todo).op = "status"
  BY Lists, Ops DEF PrepareStatus
<1>5. ActivateAcquire(m) => m.todo # <<>> /\ Head(m.todo).op = "acquire"
  BY Lists, Ops DEF ActivateAcquire
<1>6. ActivateVerify(m) => m.todo # <<>> /\ Head(m.todo).op = "verify"
  BY Lists, Ops DEF ActivateVerify
<1>7. ActivateSave(m) => m.todo # <<>> /\ Head(m.todo).op = "save"
  BY Lists, Ops DEF ActivateSave
<1>8. ActivateStatus(m) => m.todo # <<>> /\ Head(m.todo).op = "status"
  BY Lists, Ops DEF ActivateStatus
<1> QED
  BY <1>1, <1>2, <1>3, <1>4, <1>5, <1>6, <1>7, <1>8

(* What is left of a publication.                                          *)
LEMMA PublishLists ==
  ASSUME NEW m
  PROVE  /\ TodoTest(m) # <<>> /\ Head(TodoTest(m)).op = "test"
         /\ Tail(TodoTest(m)) = TodoRecheck(m) /\ Len(TodoTest(m)) # 1
         /\ TodoRecheck(m) # <<>> /\ Head(TodoRecheck(m)).op = "recheck"
         /\ Tail(TodoRecheck(m)) = TodoCommit(m) /\ Len(TodoRecheck(m)) # 1
         /\ TodoCommit(m) # <<>> /\ Head(TodoCommit(m)).op = "commit"
         /\ Tail(TodoCommit(m)) = TodoPush(m) /\ Len(TodoCommit(m)) # 1
         /\ TodoPush(m) # <<>> /\ Head(TodoPush(m)).op = "push"
         /\ Tail(TodoPush(m)) = TodoRelease(m) /\ Len(TodoPush(m)) # 1
         /\ TodoRelease(m) # <<>> /\ Head(TodoRelease(m)).op = "release"
         /\ Tail(TodoRelease(m)) = TodoSave(m) /\ Len(TodoRelease(m)) # 1
         /\ TodoSave(m) # <<>> /\ Head(TodoSave(m)) = Save(Published(m)) /\ Len(TodoSave(m)) # 1
         /\ \/ Tail(TodoSave(m)) = <<SetStatus("IN_REVIEW"), Do("audit")>>
            \/ Tail(TodoSave(m)) = <<SetStatus("IN_REVIEW")>>
<1>1. /\ TodoTest(m) # <<>> /\ Head(TodoTest(m)).op = "test"
      /\ Tail(TodoTest(m)) = TodoRecheck(m) /\ Len(TodoTest(m)) # 1
  BY Lists, Ops DEF TodoTest, TodoRecheck
<1>2. /\ TodoRecheck(m) # <<>> /\ Head(TodoRecheck(m)).op = "recheck"
      /\ Tail(TodoRecheck(m)) = TodoCommit(m) /\ Len(TodoRecheck(m)) # 1
  BY Lists, Ops DEF TodoRecheck, TodoCommit
<1>3. /\ TodoCommit(m) # <<>> /\ Head(TodoCommit(m)).op = "commit"
      /\ Tail(TodoCommit(m)) = TodoPush(m) /\ Len(TodoCommit(m)) # 1
  BY Lists, Ops DEF TodoCommit, TodoPush
<1>4. /\ TodoPush(m) # <<>> /\ Head(TodoPush(m)).op = "push"
      /\ Tail(TodoPush(m)) = TodoRelease(m) /\ Len(TodoPush(m)) # 1
  BY Lists, Ops DEF TodoPush, TodoRelease
<1>5. /\ TodoRelease(m) # <<>> /\ Head(TodoRelease(m)).op = "release"
      /\ Tail(TodoRelease(m)) = TodoSave(m) /\ Len(TodoRelease(m)) # 1
  BY Lists, Ops DEF TodoRelease, TodoSave
<1>6. /\ TodoSave(m) # <<>> /\ Head(TodoSave(m)) = Save(Published(m)) /\ Len(TodoSave(m)) # 1
      /\ \/ Tail(TodoSave(m)) = <<SetStatus("IN_REVIEW"), Do("audit")>>
         \/ Tail(TodoSave(m)) = <<SetStatus("IN_REVIEW")>>
  BY Lists DEF TodoSave
<1> QED
  BY <1>1, <1>2, <1>3, <1>4, <1>5, <1>6

(* A publication, an execution, a lease release.                           *)
LEMMA OtherHeads ==
  ASSUME NEW m
  PROVE  /\ ReleaseSave(m) => m.todo # <<>> /\ Head(m.todo).op = "save"
         /\ ReleaseRelease(m) => m.todo # <<>> /\ Head(m.todo).op = "release"
         /\ PublishTest(m) => m.todo # <<>> /\ Head(m.todo).op = "test"
         /\ PublishRecheck(m) => m.todo # <<>> /\ Head(m.todo).op = "recheck"
         /\ PublishCommit(m) => m.todo # <<>> /\ Head(m.todo).op = "commit"
         /\ PublishPush(m) => m.todo # <<>> /\ Head(m.todo).op = "push"
         /\ PublishRelease(m) => m.todo # <<>> /\ Head(m.todo).op = "release"
         /\ PublishSave(m) => m.todo # <<>> /\ Head(m.todo).op = "save"
         /\ PublishStatus(m) => m.todo # <<>> /\ Head(m.todo).op = "status"
         /\ PublishAudit(m) => m.todo # <<>> /\ Head(m.todo).op = "audit"
         /\ Ending(m) => m.todo # <<>> /\ Head(m.todo).op = "status"
         /\ ExecuteInvoke(m) => m.todo # <<>> /\ Head(m.todo).op = "invoke"
         /\ ExecuteWait(m) => m.todo # <<>> /\ Head(m.todo).op = "wait"
<1>1. ReleaseSave(m) => m.todo # <<>> /\ Head(m.todo).op = "save"
  BY Lists, Ops DEF ReleaseSave
<1>2. ReleaseRelease(m) => m.todo # <<>> /\ Head(m.todo).op = "release"
  BY Lists, Ops DEF ReleaseRelease
<1>3. /\ PublishTest(m) => m.todo # <<>> /\ Head(m.todo).op = "test"
      /\ PublishRecheck(m) => m.todo # <<>> /\ Head(m.todo).op = "recheck"
      /\ PublishCommit(m) => m.todo # <<>> /\ Head(m.todo).op = "commit"
      /\ PublishPush(m) => m.todo # <<>> /\ Head(m.todo).op = "push"
      /\ PublishRelease(m) => m.todo # <<>> /\ Head(m.todo).op = "release"
  BY PublishLists DEF PublishTest, PublishRecheck, PublishCommit, PublishPush, PublishRelease
<1>4. PublishSave(m) => m.todo # <<>> /\ Head(m.todo).op = "save"
  <2>1. TodoSave(m) # <<>> /\ Head(TodoSave(m)) = Save(Published(m))
    BY PublishLists
  <2>2. Save(Published(m)).op = "save"
    BY DEF Save
  <2> QED
    BY <2>1, <2>2 DEF PublishSave
<1>5. PublishStatus(m) => m.todo # <<>> /\ Head(m.todo).op = "status"
  BY Lists, Ops DEF PublishStatus
<1>6. PublishAudit(m) => m.todo # <<>> /\ Head(m.todo).op = "audit"
  BY Lists, Ops DEF PublishAudit
<1>7. Ending(m) => m.todo # <<>> /\ Head(m.todo).op = "status"
  BY Lists, Ops DEF Ending
<1>8. ExecuteInvoke(m) => m.todo # <<>> /\ Head(m.todo).op = "invoke"
  BY Lists, Ops DEF ExecuteInvoke
<1>9. ExecuteWait(m) => m.todo # <<>> /\ Head(m.todo).op = "wait"
  BY Lists, Ops DEF ExecuteWait
<1> QED
  BY <1>1, <1>2, <1>3, <1>4, <1>5, <1>6, <1>7, <1>8, <1>9

(* So the operation that a command performs selects the phase.             *)
LEMMA Located ==
  ASSUME NEW m, Fits(m), m.todo # <<>>, NEW o, o = Head(m.todo).op
  PROVE  /\ o = "acquire" => HandoffAcquire(m) \/ UndoAcquire(m) \/ ActivateAcquire(m)
         /\ o = "release" => \/ UndoRelease(m) \/ BlockRelease(m) \/ PrepareRelease(m)
                             \/ ReleaseRelease(m) \/ PublishRelease(m)
         /\ o = "save" => \/ HandoffSave(m) \/ UndoPut(m) \/ BlockSave(m) \/ PrepareSave(m)
                          \/ ActivateSave(m) \/ ReleaseSave(m) \/ PublishSave(m)
         /\ o = "restore" => UndoPut(m)
         /\ o = "status" => \/ HandoffStatus(m) \/ PrepareStatus(m) \/ ActivateStatus(m)
                            \/ PublishStatus(m) \/ Ending(m)
         /\ o = "settle" => UndoSettle(m) \/ BlockSettle(m)
         /\ o = "confirm" => UndoConfirm(m) \/ BlockConfirm(m)
         /\ o = "verify" => PrepareVerify(m) \/ ActivateVerify(m)
         /\ o = "context" => HandoffContext(m)
         /\ o = "test" => PublishTest(m)
         /\ o = "recheck" => PublishRecheck(m)
         /\ o = "commit" => PublishCommit(m)
         /\ o = "push" => PublishPush(m)
         /\ o = "audit" => PublishAudit(m)
         /\ o = "invoke" => ExecuteInvoke(m)
         /\ o = "wait" => ExecuteWait(m)
<1>1. ~IdleAt(m)
  BY IdleIs DEF IdleAt
<1> QED
  BY <1>1, HandoffHeads, UndoHeads, BlockHeads, HotHeads, OtherHeads
     DEF Fits, HandoffAt, UndoAt, BlockAt, PrepareAt, ActivateAt, ReleaseAt, PublishAt, ExecuteAt

-----------------------------------------------------------------------------
(***************************************************************************)
(* What a step does to the authorizations in circulation.                   *)
(***************************************************************************)
(* What was pushed stays pushed while no lease is acquired again.          *)
LEMMA SettledKept ==
  ASSUME NEW a, Known(a), Settled(a), issued \in Nat,
         branch.remote \in Nat, branch'.remote \in Nat, branch.remote <= branch'.remote,
         lease' \in Nat, lease' = lease \/ lease' = 0 \/ lease' > issued
  PROVE  Settled(a)'
<1> SUFFICES ASSUME a # NoAuth PROVE Pushed(a)' /\ Pushed(a.prior)'
  BY DEF Settled, Pushed
<1>1. Pushed(a) /\ Pushed(a.prior) /\ a.lease \in Nat \ {0} /\ a.lease <= issued /\ a.published \in Nat
  BY DEF Settled, Known, Line, Rec
<1>2. a.prior # NoAuth => /\ a.prior.lease \in Nat \ {0} /\ a.prior.lease < a.lease
                          /\ a.prior.published \in Nat
  BY DEF Known, Line, Rec
<1>3. Pushed(a)'
  BY <1>1 DEF Pushed
<1>4. Pushed(a.prior)'
  BY <1>1, <1>2 DEF Pushed
<1> QED
  BY <1>3, <1>4

(* A lease that is acquired is newer than what was consumed.               *)
LEMMA SettledAcquire ==
  ASSUME NEW a, Known(a), Settled(a), branch' = branch, NEW k \in Nat, lease' = k,
         a # NoAuth => a.lease < k \/ (a.lease = k /\ a.status # "CONSUMED")
  PROVE  Settled(a)'
<1> SUFFICES ASSUME a # NoAuth PROVE Pushed(a)' /\ Pushed(a.prior)'
  BY DEF Settled, Pushed
<1>1. Pushed(a) /\ Pushed(a.prior) /\ a.lease \in Nat \ {0} /\ a.published \in Nat
  BY DEF Settled, Known, Line, Rec
<1>2. a.prior # NoAuth => /\ a.prior.lease \in Nat \ {0} /\ a.prior.lease < a.lease
                          /\ a.prior.published \in Nat
  BY DEF Known, Line, Rec
<1>3. Pushed(a)'
  BY <1>1 DEF Pushed
<1>4. Pushed(a.prior)'
  BY <1>1, <1>2 DEF Pushed
<1> QED
  BY <1>3, <1>4

(* The invariant, where the one terminal runs command m.                   *)
LEMMA Facts ==
  ASSUME Safe, NEW p \in Procs, NEW m, m = proc[p]
  PROVE  /\ lease \in Nat /\ issued \in Nat /\ issued \in 0 .. MaxLeases
         /\ branch.local \in Nat /\ branch.remote \in Nat /\ branch.remote <= branch.local
         /\ IsCommand(m) /\ Known(m.auth) /\ Settled(m.auth) /\ Fits(m)
         /\ Known(auth) /\ Settled(auth) /\ Own(auth) /\ HolderWorksAlone
         /\ branch \in [local : Nat, remote : Nat] /\ spent \in [crashes : Nat, faults : Nat]
         /\ tree = [in |-> tree.in, out |-> tree.out] /\ tree.out \in BOOLEAN
  BY BoundsAssumption DEF Safe, Typed, Circulation, Phases

(* A step of the terminal leaves Safe what is true of its next command n.  *)
LEMMA Moved ==
  ASSUME OneTerminal, Safe, NEW p \in Procs, NEW n, Goes(p, n), IsCommand(n),
         (Known(n.auth) /\ Settled(n.auth) /\ Fits(n))',
         (Known(auth) /\ Settled(auth) /\ Own(auth) /\ HolderWorksAlone)',
         lease' \in Nat, issued' \in 0 .. MaxLeases,
         branch' \in [local : Nat, remote : Nat], branch'.remote <= branch'.local,
         tree' = [in |-> tree'.in, out |-> tree'.out], tree'.out \in BOOLEAN,
         spent' \in [crashes : Nat, faults : Nat]
  PROVE  Safe'
<1>1. proc' = [q \in Procs |-> n]
  <2>1. proc = [q \in Procs |-> proc[q]] /\ \A q \in Procs : q = p
    BY DEF Safe, Typed, OneTerminal
  <2> QED
    BY <2>1 DEF Goes
<1>2. proc' = [q \in Procs |-> proc'[q]] /\ \A q \in Procs : proc'[q] = n
  BY <1>1
<1>3. Typed'
  BY <1>2 DEF Typed, IsCommand
<1>4. Circulation'
  BY <1>2 DEF Circulation
<1>5. Phases'
  BY <1>2 DEF Phases
<1> QED
  BY <1>3, <1>4, <1>5 DEF Safe

(* Where a command may be depends on files, branch, worktree and executors. *)
LEMMA FitsKept ==
  ASSUME NEW n, Fits(n), lease' = lease, issued' = issued, auth' = auth, branch' = branch,
         tree' = tree, work' = work
  PROVE  Fits(n)'
<1>1. (IdleAt(n) => IdleAt(n)') /\ (ReleaseAt(n) => ReleaseAt(n)') /\ (Ending(n) => Ending(n)')
  BY DEF IdleAt, ReleaseAt, ReleaseSave, ReleaseRelease, Ending
<1>2. HandoffAt(n) => HandoffAt(n)'
  BY DEF HandoffAt, HandoffAcquire, HandoffSave, HandoffStatus, HandoffContext, InHandoff, Pushed
<1>3. UndoAt(n) => UndoAt(n)'
  BY DEF UndoAt, UndoRelease, UndoAcquire, UndoPut, UndoSettle, UndoConfirm, InUndo, Puts, Own
<1>4. BlockAt(n) => BlockAt(n)'
  BY DEF BlockAt, BlockRelease, BlockSave, BlockSettle, BlockConfirm, InBlock
<1>5. PrepareAt(n) => PrepareAt(n)'
  BY DEF PrepareAt, PrepareRelease, PrepareVerify, PrepareSave, PrepareStatus, InPrepare, Own
<1>6. ActivateAt(n) => ActivateAt(n)'
  BY DEF ActivateAt, ActivateAcquire, ActivateVerify, ActivateSave, ActivateStatus, InActivate
<1>7. PublishAt(n) => PublishAt(n)'
  BY DEF PublishAt, PublishTest, PublishRecheck, PublishCommit, PublishPush, PublishRelease,
         PublishSave, PublishStatus, PublishAudit, InPublish, Own, MayCommit
<1>8. ExecuteAt(n) => ExecuteAt(n)'
  BY DEF ExecuteAt, ExecuteInvoke, ExecuteWait, Holds
<1> QED
  BY <1>1, <1>2, <1>3, <1>4, <1>5, <1>6, <1>7, <1>8 DEF Fits

(* The same where lease, authorization, branch, tree and executors stay.   *)
LEMMA MovedOnly ==
  ASSUME OneTerminal, Safe, NEW p \in Procs, NEW n, Goes(p, n), IsCommand(n),
         Known(n.auth), Settled(n.auth), Fits(n) \/ Fits(n)', spent' \in [crashes : Nat, faults : Nat],
         lease' = lease, issued' = issued, auth' = auth, branch' = branch, tree' = tree, work' = work
  PROVE  Safe'
<1>1. /\ lease' \in Nat /\ issued' \in 0 .. MaxLeases
      /\ branch' \in [local : Nat, remote : Nat] /\ branch'.remote <= branch'.local
      /\ tree' = [in |-> tree'.in, out |-> tree'.out] /\ tree'.out \in BOOLEAN
      /\ Known(auth) /\ Settled(auth) /\ Own(auth) /\ HolderWorksAlone
  BY DEF Safe, Typed, Circulation
<1>2. (Known(n.auth) /\ Settled(n.auth))'
  BY DEF Known, Settled, Pushed
<1>3. (Known(auth) /\ Settled(auth) /\ Own(auth) /\ HolderWorksAlone)'
  BY <1>1 DEF Known, Settled, Pushed, Own, HolderWorksAlone, Holds
<1>4. Fits(n)'
  BY FitsKept
<1> QED
  BY <1>1, <1>2, <1>3, <1>4, Moved

(* A command that ends leaves nothing to be settled.                       *)
LEMMA Ended ==
  ASSUME Codex \notin work
  PROVE  Fits(Idle) /\ Known(Idle.auth) /\ Settled(Idle.auth)
  BY IdleIs DEF Fits, IdleAt, Known, Settled, Pushed

-----------------------------------------------------------------------------
(***************************************************************************)
(* An operation is over: where the command is then.                         *)
(***************************************************************************)
(* A list of operations loses its first.                                   *)
LEMMA Shorter ==
  ASSUME NEW m, IsCommand(m), NEW n, n = Pop(m)
  PROVE  /\ \A x, y : m.todo = <<x, y>> => n.todo = <<y>> /\ Len(n.todo) = 1
         /\ \A x, y, z : m.todo = <<x, y, z>> => n.todo = <<y, z>> /\ Len(n.todo) = 2
         /\ \A x, y, z, w : m.todo = <<x, y, z, w>> => n.todo = <<y, z, w>> /\ Len(n.todo) = 3
         /\ Len(m.todo) # 1 => /\ IsCommand(n) /\ n.cmd = m.cmd /\ n.auth = m.auth /\ n.lease = m.lease
                               /\ n.head = m.head /\ n.safe = m.safe /\ n.auto = m.auto
<1>1. Len(m.todo) # 1 => /\ IsCommand(n) /\ n.cmd = m.cmd /\ n.auth = m.auth /\ n.lease = m.lease
                         /\ n.head = m.head /\ n.safe = m.safe /\ n.auto = m.auto
                         /\ n.todo = Tail(m.todo)
  BY PopRest
<1>2. ASSUME NEW x, NEW y, m.todo = <<x, y>> PROVE n.todo = <<y>> /\ Len(n.todo) = 1
  <2>1. Len(<<x, y>>) = 2 /\ Tail(<<x, y>>) = <<y>> /\ Len(<<y>>) = 1
    OBVIOUS
  <2> QED
    BY <1>1, <1>2, <2>1
<1>3. ASSUME NEW x, NEW y, NEW z, m.todo = <<x, y, z>> PROVE n.todo = <<y, z>> /\ Len(n.todo) = 2
  <2>1. Len(<<x, y, z>>) = 3 /\ Tail(<<x, y, z>>) = <<y, z>> /\ Len(<<y, z>>) = 2
    OBVIOUS
  <2> QED
    BY <1>1, <1>3, <2>1
<1>4. ASSUME NEW x, NEW y, NEW z, NEW w, m.todo = <<x, y, z, w>>
      PROVE  n.todo = <<y, z, w>> /\ Len(n.todo) = 3
  <2>1. Len(<<x, y, z, w>>) = 4 /\ Tail(<<x, y, z, w>>) = <<y, z, w>> /\ Len(<<y, z, w>>) = 3
    OBVIOUS
  <2> QED
    BY <1>1, <1>4, <2>1
<1> QED
  BY <1>1, <1>2, <1>3, <1>4

(* A rollback goes on.                                                     *)
LEMMA UndoNext ==
  ASSUME NEW m, IsCommand(m), NEW n, n = Pop(m), work' = work, tree' = tree
  PROVE  /\ UndoRelease(m) /\ (m.safe = TRUE => lease' = 0)
              => UndoPut(n)' /\ IsCommand(n) /\ n.auth = m.auth
         /\ UndoAcquire(m) /\ (m.safe = TRUE => lease' = m.lease)
              => UndoPut(n)' /\ IsCommand(n) /\ n.auth = m.auth
         /\ UndoPut(m) /\ (m.safe = TRUE => lease' = m.lease /\ auth' = m.auth)
              => UndoSettle(n)' /\ IsCommand(n) /\ n.auth = m.auth
         /\ UndoSettle(m) /\ lease' = lease /\ auth' = auth
              => UndoConfirm(n)' /\ IsCommand(n) /\ n.auth = m.auth
         /\ UndoConfirm(m) => n = Idle
<1>1. ASSUME UndoRelease(m), m.safe = TRUE => lease' = 0
      PROVE  UndoPut(n)' /\ IsCommand(n) /\ n.auth = m.auth
  <2>1. PICK x, y, z : /\ m.todo = <<x, y, z, Do("confirm")>> /\ Puts(m, y) /\ z.op = "settle"
                       /\ Len(m.todo) = 4
    BY <1>1 DEF UndoRelease
  <2>2. n.todo = <<y, z, Do("confirm")>> /\ Len(n.todo) = 3
    BY <2>1, Shorter
  <2>3. /\ IsCommand(n) /\ n.cmd = m.cmd /\ n.auth = m.auth /\ n.lease = m.lease /\ n.safe = m.safe
    BY <2>1, Shorter
  <2>4. n.todo[1] = y /\ n.todo[2] = z
    BY <2>2
  <2>5. Puts(n, y)'
    BY <2>1, <2>3 DEF Puts, Own
  <2> QED
    BY <1>1, <2>1, <2>2, <2>3, <2>4, <2>5 DEF UndoRelease, UndoPut, InUndo
<1>2. ASSUME UndoAcquire(m), m.safe = TRUE => lease' = m.lease
      PROVE  UndoPut(n)' /\ IsCommand(n) /\ n.auth = m.auth
  <2>1. PICK z : /\ m.todo = <<Acquire(m.lease), Save(m.auth), z, Do("confirm")>> /\ z.op = "settle"
                 /\ Len(m.todo) = 4
    BY <1>2 DEF UndoAcquire
  <2>2. n.todo = <<Save(m.auth), z, Do("confirm")>> /\ Len(n.todo) = 3
    BY <2>1, Shorter
  <2>3. /\ IsCommand(n) /\ n.cmd = m.cmd /\ n.auth = m.auth /\ n.lease = m.lease /\ n.safe = m.safe
    BY <2>1, Shorter
  <2>4. n.todo[1] = Save(m.auth) /\ n.todo[2] = z
    BY <2>2
  <2>5. Puts(n, Save(m.auth))'
    BY <1>2, <2>1, <2>3 DEF Puts, Own, UndoAcquire
  <2> QED
    BY <1>2, <2>1, <2>2, <2>3, <2>4, <2>5 DEF UndoAcquire, UndoPut, InUndo
<1>3. ASSUME UndoPut(m), m.safe = TRUE => lease' = m.lease /\ auth' = m.auth
      PROVE  UndoSettle(n)' /\ IsCommand(n) /\ n.auth = m.auth
  <2>1. PICK y, z : m.todo = <<y, z, Do("confirm")>> /\ z.op = "settle" /\ Len(m.todo) = 3
    BY <1>3 DEF UndoPut
  <2>2. n.todo = <<z, Do("confirm")>> /\ Len(n.todo) = 2
    BY <2>1, Shorter
  <2>3. /\ IsCommand(n) /\ n.cmd = m.cmd /\ n.auth = m.auth /\ n.lease = m.lease /\ n.safe = m.safe
    BY <2>1, Shorter
  <2>4. n.todo[1] = z
    BY <2>2
  <2> QED
    BY <1>3, <2>1, <2>2, <2>3, <2>4 DEF UndoPut, UndoSettle, InUndo
<1>4. ASSUME UndoSettle(m), lease' = lease, auth' = auth
      PROVE  UndoConfirm(n)' /\ IsCommand(n) /\ n.auth = m.auth
  <2>1. PICK z : m.todo = <<z, Do("confirm")>> /\ Len(m.todo) = 2
    BY <1>4 DEF UndoSettle
  <2>2. n.todo = <<Do("confirm")>>
    BY <2>1, Shorter
  <2>3. /\ IsCommand(n) /\ n.cmd = m.cmd /\ n.auth = m.auth /\ n.lease = m.lease /\ n.safe = m.safe
    BY <2>1, Shorter
  <2> QED
    BY <1>4, <2>1, <2>2, <2>3 DEF UndoSettle, UndoConfirm, InUndo
<1>5. UndoConfirm(m) => n = Idle
  BY PopLast, Lists DEF UndoConfirm
<1> QED
  BY <1>1, <1>2, <1>3, <1>4, <1>5

(* A block goes on, whatever happened.                                     *)
LEMMA BlockNext ==
  ASSUME NEW m, IsCommand(m), NEW n, n = Pop(m), work' = work
  PROVE  /\ BlockRelease(m) => BlockSave(n)' /\ IsCommand(n) /\ n.auth = m.auth
         /\ BlockSave(m) => BlockSettle(n)' /\ IsCommand(n) /\ n.auth = m.auth
         /\ BlockSettle(m) => BlockConfirm(n)' /\ IsCommand(n) /\ n.auth = m.auth
         /\ BlockConfirm(m) => n = Idle
<1>1. ASSUME BlockRelease(m) PROVE BlockSave(n)' /\ IsCommand(n) /\ n.auth = m.auth
  <2>1. PICK x, z : m.todo = <<x, Save(Blocked(m)), z, Do("confirm")>> /\ z.op = "settle" /\ Len(m.todo) = 4
    BY <1>1 DEF BlockRelease
  <2>2. n.todo = <<Save(Blocked(m)), z, Do("confirm")>> /\ Len(n.todo) = 3
    BY <2>1, Shorter
  <2>3. IsCommand(n) /\ n.cmd = m.cmd /\ n.auth = m.auth /\ n.head = m.head
    BY <2>1, Shorter
  <2>4. n.todo[2] = z
    BY <2>2
  <2>5. Blocked(n) = Blocked(m)
    BY <2>3 DEF Blocked
  <2> QED
    BY <1>1, <2>1, <2>2, <2>3, <2>4, <2>5 DEF BlockRelease, BlockSave, InBlock
<1>2. ASSUME BlockSave(m) PROVE BlockSettle(n)' /\ IsCommand(n) /\ n.auth = m.auth
  <2>1. PICK x, z : m.todo = <<x, z, Do("confirm")>> /\ z.op = "settle" /\ Len(m.todo) = 3
    BY <1>2 DEF BlockSave
  <2>2. n.todo = <<z, Do("confirm")>> /\ Len(n.todo) = 2
    BY <2>1, Shorter
  <2>3. IsCommand(n) /\ n.cmd = m.cmd /\ n.auth = m.auth
    BY <2>1, Shorter
  <2>4. n.todo[1] = z
    BY <2>2
  <2> QED
    BY <1>2, <2>1, <2>2, <2>3, <2>4 DEF BlockSave, BlockSettle, InBlock
<1>3. ASSUME BlockSettle(m) PROVE BlockConfirm(n)' /\ IsCommand(n) /\ n.auth = m.auth
  <2>1. PICK z : m.todo = <<z, Do("confirm")>> /\ Len(m.todo) = 2
    BY <1>3 DEF BlockSettle
  <2>2. n.todo = <<Do("confirm")>> /\ IsCommand(n) /\ n.cmd = m.cmd /\ n.auth = m.auth
    BY <2>1, Shorter
  <2> QED
    BY <1>3, <2>2 DEF BlockSettle, BlockConfirm, InBlock
<1>4. BlockConfirm(m) => n = Idle
  BY PopLast, Lists DEF BlockConfirm
<1> QED
  BY <1>1, <1>2, <1>3, <1>4

(* A handoff goes on.                                                      *)
LEMMA HandoffNext ==
  ASSUME NEW m, IsCommand(m), NEW n, n = Pop(m), issued' = issued, Pushed(m.auth.prior)'
  PROVE  /\ HandoffAcquire(m) /\ work' = {} /\ (m.auth.action = "RUN" => tree'.in = {})
              => HandoffSave(n)' /\ IsCommand(n) /\ n.auth = m.auth
         /\ HandoffSave(m) /\ work' = work => HandoffStatus(n)' /\ IsCommand(n) /\ n.auth = m.auth
         /\ HandoffStatus(m) /\ work' = work => HandoffContext(n)' /\ IsCommand(n) /\ n.auth = m.auth
         /\ HandoffContext(m) => n = Idle
<1>1. ASSUME HandoffAcquire(m), work' = {}, m.auth.action = "RUN" => tree'.in = {}
      PROVE  HandoffSave(n)' /\ IsCommand(n) /\ n.auth = m.auth
  <2>1. PICK x, z : m.todo = <<x, Save(m.auth), z, Do("context")>> /\ z.op = "status" /\ Len(m.todo) = 4
    BY <1>1 DEF HandoffAcquire
  <2>2. n.todo = <<Save(m.auth), z, Do("context")>> /\ Len(n.todo) = 3
    BY <2>1, Shorter
  <2>3. IsCommand(n) /\ n.cmd = m.cmd /\ n.auth = m.auth /\ n.lease = m.lease /\ n.safe = m.safe
    BY <2>1, Shorter
  <2>4. n.todo[2] = z
    BY <2>2
  <2> QED
    BY <1>1, <2>1, <2>2, <2>3, <2>4 DEF HandoffAcquire, HandoffSave, InHandoff, Pushed
<1>2. ASSUME HandoffSave(m), work' = work PROVE HandoffStatus(n)' /\ IsCommand(n) /\ n.auth = m.auth
  <2>1. PICK x, z : m.todo = <<x, z, Do("context")>> /\ z.op = "status" /\ Len(m.todo) = 3
    BY <1>2 DEF HandoffSave
  <2>2. n.todo = <<z, Do("context")>> /\ Len(n.todo) = 2
    BY <2>1, Shorter
  <2>3. IsCommand(n) /\ n.cmd = m.cmd /\ n.auth = m.auth /\ n.lease = m.lease /\ n.safe = m.safe
    BY <2>1, Shorter
  <2>4. n.todo[1] = z
    BY <2>2
  <2> QED
    BY <1>2, <2>1, <2>2, <2>3, <2>4 DEF HandoffSave, HandoffStatus, InHandoff, Pushed
<1>3. ASSUME HandoffStatus(m), work' = work PROVE HandoffContext(n)' /\ IsCommand(n) /\ n.auth = m.auth
  <2>1. PICK z : m.todo = <<z, Do("context")>> /\ Len(m.todo) = 2
    BY <1>3 DEF HandoffStatus
  <2>2. n.todo = <<Do("context")>>
    BY <2>1, Shorter
  <2>3. IsCommand(n) /\ n.cmd = m.cmd /\ n.auth = m.auth /\ n.lease = m.lease /\ n.safe = m.safe
    BY <2>1, Shorter
  <2> QED
    BY <1>3, <2>2, <2>3 DEF HandoffStatus, HandoffContext, InHandoff, Pushed
<1>4. HandoffContext(m) => n = Idle
  BY PopLast, Lists DEF HandoffContext
<1> QED
  BY <1>1, <1>2, <1>3, <1>4

(* The preparation of a hot handoff goes on.                               *)
LEMMA PrepareNext ==
  ASSUME NEW m, IsCommand(m), NEW n, n = Pop(m), work' = work, tree' = tree
  PROVE  /\ PrepareRelease(m) /\ auth' = auth => PrepareVerify(n)' /\ IsCommand(n) /\ n.auth = m.auth
         /\ PrepareVerify(m) /\ auth' = auth => PrepareSave(n)' /\ IsCommand(n) /\ n.auth = m.auth
         /\ PrepareSave(m) /\ auth' = Head(m.todo).arg
              => /\ PrepareStatus(n)' /\ IsCommand(n) /\ n.auth = m.auth
                 /\ Line(auth') /\ auth'.lease = m.auth.lease /\ auth'.prior = m.auth.prior
                 /\ auth'.status = "HANDOFF_PREPARED"
         /\ PrepareStatus(m) => n = Idle
<1>1. ASSUME PrepareRelease(m), auth' = auth PROVE PrepareVerify(n)' /\ IsCommand(n) /\ n.auth = m.auth
  <2>1. PICK x, y, z : /\ m.todo = <<x, y, Save(Prepared(m, y.arg)), z>> /\ Len(m.todo) = 4
                       /\ y.op = "verify" /\ z.op = "status"
    BY <1>1 DEF PrepareRelease
  <2>2. n.todo = <<y, Save(Prepared(m, y.arg)), z>> /\ Len(n.todo) = 3
    BY <2>1, Shorter
  <2>3. IsCommand(n) /\ n.cmd = m.cmd /\ n.auth = m.auth /\ n.lease = m.lease /\ n.safe = m.safe
    BY <2>1, Shorter
  <2>4. n.todo[1] = y /\ n.todo[3] = z
    BY <2>2
  <2>5. Prepared(n, y.arg) = Prepared(m, y.arg)
    BY <2>3 DEF Prepared
  <2> QED
    BY <1>1, <2>1, <2>2, <2>3, <2>4, <2>5 DEF PrepareRelease, PrepareVerify, InPrepare, Own
<1>2. ASSUME PrepareVerify(m), auth' = auth PROVE PrepareSave(n)' /\ IsCommand(n) /\ n.auth = m.auth
  <2>1. PICK y, z : /\ m.todo = <<y, Save(Prepared(m, y.arg)), z>> /\ Len(m.todo) = 3
                    /\ z.op = "status"
    BY <1>2 DEF PrepareVerify
  <2>2. n.todo = <<Save(Prepared(m, y.arg)), z>> /\ Len(n.todo) = 2
    BY <2>1, Shorter
  <2>3. IsCommand(n) /\ n.cmd = m.cmd /\ n.auth = m.auth /\ n.lease = m.lease /\ n.safe = m.safe
    BY <2>1, Shorter
  <2>4. n.todo[1] = Save(Prepared(m, y.arg)) /\ n.todo[2] = z
    BY <2>2
  <2>5. Prepared(m, y.arg).hot = y.arg
    BY <1>2 DEF Prepared, PrepareVerify, InPrepare, Line, Rec
  <2>6. n.todo[1].arg.hot = y.arg
    BY <2>4, <2>5 DEF Save
  <2>7. Prepared(n, n.todo[1].arg.hot) = Prepared(m, y.arg)
    BY <2>3, <2>6 DEF Prepared
  <2> QED
    BY <1>2, <2>1, <2>2, <2>3, <2>4, <2>7 DEF PrepareVerify, PrepareSave, InPrepare, Own
<1>3. ASSUME PrepareSave(m), auth' = Head(m.todo).arg
      PROVE  /\ PrepareStatus(n)' /\ IsCommand(n) /\ n.auth = m.auth
             /\ Line(auth') /\ auth'.lease = m.auth.lease /\ auth'.prior = m.auth.prior
             /\ auth'.status = "HANDOFF_PREPARED"
  <2>1. PICK es, z : m.todo = <<Save(Prepared(m, es)), z>> /\ Len(m.todo) = 2 /\ z.op = "status"
    BY <1>3 DEF PrepareSave
  <2>2. n.todo = <<z>> /\ Len(n.todo) = 1
    BY <2>1, Shorter
  <2>3. IsCommand(n) /\ n.cmd = m.cmd /\ n.auth = m.auth /\ n.lease = m.lease /\ n.safe = m.safe
    BY <2>1, Shorter
  <2>4. n.todo[1] = z
    BY <2>2
  <2>5. PICK b : b = auth' /\ b = [m.auth EXCEPT !.status = "HANDOFF_PREPARED", !.hot = es]
    BY <1>3, <2>1, Lists DEF Save, Prepared
  <2>6. Line(m.auth)
    BY <1>3 DEF PrepareSave, InPrepare
  <2>7. /\ Line(auth') /\ auth'.lease = m.auth.lease /\ auth'.prior = m.auth.prior
        /\ auth'.status = "HANDOFF_PREPARED"
    <3>1. /\ Line(b) /\ b.status = "HANDOFF_PREPARED" /\ b.lease = m.auth.lease
          /\ b.prior = m.auth.prior
      <4>1. PICK a : a = m.auth
        OBVIOUS
      <4>2. Line(a) /\ b = PreparedWith(a, es)
        BY <2>5, <2>6, <4>1 DEF PreparedWith
      <4>3. Line(b) /\ b.status = "HANDOFF_PREPARED" /\ b.lease = a.lease /\ b.prior = a.prior
        BY <4>2, RestatedHot
      <4> QED
        BY <4>1, <4>3
    <3> QED
      BY <2>5, <3>1
  <2> QED
    BY <1>3, <2>1, <2>2, <2>3, <2>4, <2>7 DEF PrepareSave, PrepareStatus, InPrepare, Own
<1>4. PrepareStatus(m) => n = Idle
  BY PopLast DEF PrepareStatus
<1> QED
  BY <1>1, <1>2, <1>3, <1>4

(* The activation of a hot handoff goes on.                                *)
LEMMA ActivateNext ==
  ASSUME NEW m, IsCommand(m), NEW n, n = Pop(m), work' = work, tree' = tree, issued' = issued
  PROVE  /\ ActivateAcquire(m) => ActivateVerify(n)' /\ IsCommand(n) /\ n.auth = m.auth
         /\ ActivateVerify(m) => ActivateSave(n)' /\ IsCommand(n) /\ n.auth = m.auth
         /\ ActivateSave(m) /\ auth' = Head(m.todo).arg
              => /\ ActivateStatus(n)' /\ IsCommand(n) /\ n.auth = m.auth
                 /\ Line(auth') /\ auth'.lease = m.lease /\ auth'.prior = m.auth.prior
                 /\ auth'.status = "ACTIVE" /\ auth'.hot = m.auth.hot
         /\ ActivateStatus(m) => n = Idle
<1>1. ASSUME ActivateAcquire(m) PROVE ActivateVerify(n)' /\ IsCommand(n) /\ n.auth = m.auth
  <2>1. PICK x, y, e, z : /\ m.todo = <<x, y, Save(Activated(m, e)), z>> /\ Len(m.todo) = 4
                          /\ y.op = "verify" /\ z.op = "status"
    BY <1>1 DEF ActivateAcquire
  <2>2. n.todo = <<y, Save(Activated(m, e)), z>> /\ Len(n.todo) = 3
    BY <2>1, Shorter
  <2>3. IsCommand(n) /\ n.cmd = m.cmd /\ n.auth = m.auth /\ n.lease = m.lease /\ n.safe = m.safe
    BY <2>1, Shorter
  <2>4. n.todo[1] = y /\ n.todo[2] = Save(Activated(m, e)) /\ n.todo[3] = z
    BY <2>2
  <2>5. Activated(m, e).by = e
    BY <1>1 DEF Activated, ActivateAcquire, InActivate, Line, Rec
  <2>6. n.todo[2].arg.by = e
    BY <2>4, <2>5 DEF Save
  <2>7. Activated(n, n.todo[2].arg.by) = Activated(m, e)
    BY <2>3, <2>6 DEF Activated
  <2> QED
    BY <1>1, <2>1, <2>2, <2>3, <2>4, <2>7 DEF ActivateAcquire, ActivateVerify, InActivate
<1>2. ASSUME ActivateVerify(m) PROVE ActivateSave(n)' /\ IsCommand(n) /\ n.auth = m.auth
  <2>1. PICK y, e, z : m.todo = <<y, Save(Activated(m, e)), z>> /\ Len(m.todo) = 3 /\ z.op = "status"
    BY <1>2 DEF ActivateVerify
  <2>2. n.todo = <<Save(Activated(m, e)), z>> /\ Len(n.todo) = 2
    BY <2>1, Shorter
  <2>3. IsCommand(n) /\ n.cmd = m.cmd /\ n.auth = m.auth /\ n.lease = m.lease /\ n.safe = m.safe
    BY <2>1, Shorter
  <2>4. n.todo[1] = Save(Activated(m, e)) /\ n.todo[2] = z
    BY <2>2
  <2>5. Activated(m, e).by = e
    BY <1>2 DEF Activated, ActivateVerify, InActivate, Line, Rec
  <2>6. n.todo[1].arg.by = e
    BY <2>4, <2>5 DEF Save
  <2>7. Activated(n, n.todo[1].arg.by) = Activated(m, e)
    BY <2>3, <2>6 DEF Activated
  <2> QED
    BY <1>2, <2>1, <2>2, <2>3, <2>4, <2>7 DEF ActivateVerify, ActivateSave, InActivate
<1>3. ASSUME ActivateSave(m), auth' = Head(m.todo).arg
      PROVE  /\ ActivateStatus(n)' /\ IsCommand(n) /\ n.auth = m.auth
             /\ Line(auth') /\ auth'.lease = m.lease /\ auth'.prior = m.auth.prior
             /\ auth'.status = "ACTIVE" /\ auth'.hot = m.auth.hot
  <2>1. PICK e, z : m.todo = <<Save(Activated(m, e)), z>> /\ Len(m.todo) = 2 /\ z.op = "status"
    BY <1>3 DEF ActivateSave
  <2>2. n.todo = <<z>> /\ Len(n.todo) = 1
    BY <2>1, Shorter
  <2>3. IsCommand(n) /\ n.cmd = m.cmd /\ n.auth = m.auth /\ n.lease = m.lease /\ n.safe = m.safe
    BY <2>1, Shorter
  <2>4. n.todo[1] = z
    BY <2>2
  <2>5. PICK b : b = auth' /\ b = [m.auth EXCEPT !.status = "ACTIVE", !.by = e, !.lease = m.lease]
    BY <1>3, <2>1, Lists DEF Save, Activated
  <2>6. Line(m.auth) /\ m.auth.lease < m.lease /\ m.lease \in Nat
    BY <1>3 DEF ActivateSave, InActivate, IsCommand
  <2>7. /\ Line(auth') /\ auth'.lease = m.lease /\ auth'.prior = m.auth.prior
        /\ auth'.status = "ACTIVE" /\ auth'.hot = m.auth.hot
    <3>1. /\ Line(b) /\ b.status = "ACTIVE" /\ b.lease = m.lease /\ b.prior = m.auth.prior
          /\ b.hot = m.auth.hot
      <4>1. PICK a, l : a = m.auth /\ l = m.lease
        OBVIOUS
      <4>2. Line(a) /\ b = TakenOver(a, e, l) /\ a.lease < l /\ l \in Nat
        BY <2>5, <2>6, <4>1 DEF TakenOver
      <4>3. Line(b) /\ b.status = "ACTIVE" /\ b.lease = l /\ b.prior = a.prior /\ b.hot = a.hot
        BY <4>2, HandedOver
      <4> QED
        BY <4>1, <4>3
    <3> QED
      BY <2>5, <3>1
  <2> QED
    BY <1>3, <2>1, <2>2, <2>3, <2>4, <2>7 DEF ActivateSave, ActivateStatus, InActivate
<1>4. ActivateStatus(m) => n = Idle
  BY PopLast DEF ActivateStatus
<1> QED
  BY <1>1, <1>2, <1>3, <1>4

(* A lease release goes on.                                                *)
LEMMA ReleaseNext ==
  ASSUME NEW m, IsCommand(m), NEW n, n = Pop(m), work' = work
  PROVE  /\ ReleaseSave(m) /\ auth' = Head(m.todo).arg
              => /\ ReleaseRelease(n)' /\ IsCommand(n) /\ n.auth = m.auth
                 /\ Line(auth') /\ auth'.lease = m.auth.lease /\ auth'.prior = m.auth.prior
                 /\ auth'.status = "CANCELLED"
         /\ ReleaseRelease(m) => n = Idle
<1>1. ASSUME ReleaseSave(m), auth' = Head(m.todo).arg
      PROVE  /\ ReleaseRelease(n)' /\ IsCommand(n) /\ n.auth = m.auth
             /\ Line(auth') /\ auth'.lease = m.auth.lease /\ auth'.prior = m.auth.prior
             /\ auth'.status = "CANCELLED"
  <2>1. PICK b, z : /\ b = [m.auth EXCEPT !.status = "CANCELLED"]
                    /\ m.todo = <<Save(b), z>> /\ Len(m.todo) = 2 /\ z.op = "release"
    BY <1>1 DEF ReleaseSave
  <2>2. n.todo = <<z>> /\ Len(n.todo) = 1
    BY <2>1, Shorter
  <2>3. IsCommand(n) /\ n.cmd = m.cmd /\ n.auth = m.auth
    BY <2>1, Shorter
  <2>4. n.todo[1] = z
    BY <2>2
  <2>5. auth' = b
    BY <1>1, <2>1, Lists DEF Save
  <2>6. Line(m.auth)
    BY <1>1 DEF ReleaseSave
  <2>7. /\ Line(auth') /\ auth'.lease = m.auth.lease /\ auth'.prior = m.auth.prior
        /\ auth'.status = "CANCELLED"
    <3>1. Line(b) /\ b.status = "CANCELLED" /\ b.lease = m.auth.lease /\ b.prior = m.auth.prior
      <4>1. PICK a : a = m.auth
        OBVIOUS
      <4>2. Line(a) /\ b = [a EXCEPT !.status = "CANCELLED"]
        BY <2>1, <2>6, <4>1
      <4>3. Line(b) /\ b.status = "CANCELLED" /\ b.lease = a.lease /\ b.prior = a.prior
        BY <4>2, Restated
      <4> QED
        BY <4>1, <4>3
    <3> QED
      BY <2>5, <3>1
  <2> QED
    BY <1>1, <2>1, <2>2, <2>3, <2>4, <2>7 DEF ReleaseSave, ReleaseRelease
<1>2. ReleaseRelease(m) => n = Idle
  BY PopLast DEF ReleaseRelease
<1> QED
  BY <1>1, <1>2

(* A publication goes on.                                                  *)
LEMMA PublishNext ==
  ASSUME NEW m, IsCommand(m), NEW n, n = Pop(m), work' = work
  PROVE  /\ PublishTest(m) /\ tree'.in = tree.in => PublishRecheck(n)' /\ IsCommand(n) /\ n.auth = m.auth
         /\ PublishRecheck(m) /\ branch'.local = m.head /\ MayCommit(m)'
              => PublishCommit(n)' /\ IsCommand(n) /\ n.auth = m.auth
         /\ PublishCommit(m) /\ branch'.local = m.head + 1
              => PublishPush(n)' /\ IsCommand(n) /\ n.auth = m.auth
         /\ PublishPush(m) /\ branch'.remote = m.head + 1
              => PublishRelease(n)' /\ IsCommand(n) /\ n.auth = m.auth
         /\ PublishRelease(m) /\ branch'.remote = branch.remote /\ lease' = 0
              => PublishSave(n)' /\ IsCommand(n) /\ n.auth = m.auth
         /\ PublishSave(m) => /\ PublishStatus(n)' \/ Ending(n)'
                              /\ IsCommand(n) /\ n.auth = m.auth
         /\ PublishStatus(m) => PublishAudit(n)' /\ IsCommand(n) /\ n.auth = m.auth
         /\ PublishAudit(m) => n = Idle
         /\ Ending(m) => n = Idle
<1>1. ASSUME Len(m.todo) # 1
      PROVE  /\ IsCommand(n) /\ n.cmd = m.cmd /\ n.auth = m.auth /\ n.lease = m.lease
             /\ n.head = m.head /\ n.safe = m.safe /\ n.auto = m.auto /\ n.todo = Tail(m.todo)
  BY <1>1, PopRest
<1>2. ASSUME n.auth = m.auth, n.lease = m.lease, n.head = m.head, n.auto = m.auto
      PROVE  /\ TodoRecheck(n) = TodoRecheck(m) /\ TodoCommit(n) = TodoCommit(m)
             /\ TodoPush(n) = TodoPush(m) /\ TodoRelease(n) = TodoRelease(m) /\ TodoSave(n) = TodoSave(m)
  BY <1>2 DEF TodoRecheck, TodoCommit, TodoPush, TodoRelease, TodoSave, Published
<1>3. ASSUME PublishTest(m), tree'.in = tree.in
      PROVE  PublishRecheck(n)' /\ IsCommand(n) /\ n.auth = m.auth
  BY <1>1, <1>2, <1>3, PublishLists DEF PublishTest, PublishRecheck, InPublish, Own
<1>4. ASSUME PublishRecheck(m), branch'.local = m.head, MayCommit(m)'
      PROVE  PublishCommit(n)' /\ IsCommand(n) /\ n.auth = m.auth
  BY <1>1, <1>2, <1>4, PublishLists DEF PublishRecheck, PublishCommit, InPublish, MayCommit
<1>5. ASSUME PublishCommit(m), branch'.local = m.head + 1
      PROVE  PublishPush(n)' /\ IsCommand(n) /\ n.auth = m.auth
  BY <1>1, <1>2, <1>5, PublishLists DEF PublishCommit, PublishPush, InPublish
<1>6. ASSUME PublishPush(m), branch'.remote = m.head + 1
      PROVE  PublishRelease(n)' /\ IsCommand(n) /\ n.auth = m.auth
  BY <1>1, <1>2, <1>6, PublishLists DEF PublishPush, PublishRelease, InPublish
<1>7. ASSUME PublishRelease(m), branch'.remote = branch.remote, lease' = 0
      PROVE  PublishSave(n)' /\ IsCommand(n) /\ n.auth = m.auth
  BY <1>1, <1>2, <1>7, PublishLists DEF PublishRelease, PublishSave, InPublish
<1>8. ASSUME PublishSave(m)
      PROVE  (PublishStatus(n)' \/ Ending(n)') /\ IsCommand(n) /\ n.auth = m.auth
  <2>1. IsCommand(n) /\ n.cmd = m.cmd /\ n.auth = m.auth
    BY <1>1, <1>8, PublishLists DEF PublishSave
  <2>2. n.todo = <<SetStatus("IN_REVIEW"), Do("audit")>> \/ n.todo = <<SetStatus("IN_REVIEW")>>
    BY <1>1, <1>8, PublishLists DEF PublishSave
  <2>3. CASE n.todo = <<SetStatus("IN_REVIEW"), Do("audit")>>
    BY <1>8, <2>1, <2>3 DEF PublishSave, PublishStatus, InPublish
  <2>4. CASE n.todo = <<SetStatus("IN_REVIEW")>>
    <3>1. Len(n.todo) = 1 /\ n.todo[1] = SetStatus("IN_REVIEW") /\ n.todo[1].op = "status"
      BY <2>4 DEF SetStatus
    <3> QED
      BY <1>8, <2>1, <2>4, <3>1 DEF PublishSave, InPublish, Ending
  <2> QED
    BY <2>1, <2>2, <2>3, <2>4
<1>9. ASSUME PublishStatus(m) PROVE PublishAudit(n)' /\ IsCommand(n) /\ n.auth = m.auth
  <2>1. Len(m.todo) = 2 /\ Tail(m.todo) = <<Do("audit")>>
    BY <1>9, Lists DEF PublishStatus
  <2> QED
    BY <1>1, <1>9, <2>1 DEF PublishStatus, PublishAudit
<1>10. PublishAudit(m) => n = Idle
  BY PopLast, Lists DEF PublishAudit
<1>11. Ending(m) => n = Idle
  BY PopLast DEF Ending
<1> QED
  BY <1>3, <1>4, <1>5, <1>6, <1>7, <1>8, <1>9, <1>10, <1>11

-----------------------------------------------------------------------------
(***************************************************************************)
(* An operation fails: what the command does instead.                       *)
(***************************************************************************)
(* OnFailure, command by command.                                          *)
LEMMA OnFailureIs ==
  ASSUME NEW m, NEW o, o = Head(m.todo).op
  PROVE  /\ m.cmd \in {"undo", "block"} => OnFailure(m) = Pop([m EXCEPT !.safe = FALSE])
         /\ m.cmd \in {"handoff", "activate"} /\ o # "acquire" => OnFailure(m) = Undo(m)
         /\ m.cmd \in {"handoff", "activate"} /\ o = "acquire" => OnFailure(m) = Idle
         /\ m.cmd = "prepare" /\ o # "release" => OnFailure(m) = Undo(m)
         /\ m.cmd = "prepare" /\ o = "release" => OnFailure(m) = Idle
         /\ m.cmd \in {"release", "publish", "execute"} => OnFailure(m) = Idle
  BY DEF OnFailure

(* A command that notes a failure.                                         *)
LEMMA UnsafeIs ==
  ASSUME NEW m, IsCommand(m), NEW k, k = [m EXCEPT !.safe = FALSE]
  PROVE  /\ IsCommand(k) /\ k.cmd = m.cmd /\ k.todo = m.todo /\ k.auth = m.auth /\ k.lease = m.lease
         /\ k.head = m.head /\ k.safe = FALSE /\ k.auto = m.auto
  BY DEF IsCommand

(* Undo, command by command.                                               *)
LEMMA UndoIs ==
  ASSUME NEW m, IsCommand(m), NEW n, n = Undo(m)
  PROVE  /\ m.cmd \in {"handoff", "execute"} =>
              /\ IsCommand(n) /\ n.cmd = "undo" /\ n.auth = m.auth.prior /\ n.lease = 0
              /\ n.todo = <<Release(m.lease), Restore(m.auth.prior), Settle(m.auth.was), Do("confirm")>>
         /\ m.cmd = "prepare" =>
              /\ IsCommand(n) /\ n.cmd = "undo" /\ n.auth = m.auth /\ n.lease = m.lease
              /\ \E s : n.todo = <<Acquire(m.lease), Save(m.auth), Settle(s), Do("confirm")>>
         /\ m.cmd = "activate" =>
              /\ IsCommand(n) /\ n.cmd = "undo" /\ n.auth = m.auth /\ n.lease = 0
              /\ n.todo = <<Release(m.lease), Save(m.auth), Settle("HANDOFF_PREPARED"), Do("confirm")>>
<1>1. ASSUME m.cmd \in {"handoff", "execute"}
      PROVE  /\ IsCommand(n) /\ n.cmd = "undo" /\ n.auth = m.auth.prior /\ n.lease = 0
             /\ n.todo = <<Release(m.lease), Restore(m.auth.prior), Settle(m.auth.was), Do("confirm")>>
  BY <1>1 DEF Undo, IsCommand
<1>2. ASSUME m.cmd = "prepare"
      PROVE  /\ IsCommand(n) /\ n.cmd = "undo" /\ n.auth = m.auth /\ n.lease = m.lease
             /\ \E s : n.todo = <<Acquire(m.lease), Save(m.auth), Settle(s), Do("confirm")>>
  BY <1>2 DEF Undo, IsCommand
<1>3. ASSUME m.cmd = "activate"
      PROVE  /\ IsCommand(n) /\ n.cmd = "undo" /\ n.auth = m.auth /\ n.lease = 0
             /\ n.todo = <<Release(m.lease), Save(m.auth), Settle("HANDOFF_PREPARED"), Do("confirm")>>
  BY <1>3 DEF Undo, IsCommand
<1> QED
  BY <1>1, <1>2, <1>3

(* A rollback that releases the lease and restores the authorization.      *)
LEMMA UndoReleases ==
  ASSUME NEW n, n.cmd = "undo", n.lease = 0, work = {}, NEW l, NEW s, NEW x, Puts(n, x),
         n.todo = <<Release(l), x, Settle(s), Do("confirm")>>
  PROVE  Fits(n)
<1>1. Len(n.todo) = 4 /\ n.todo[1] = Release(l) /\ n.todo[2] = x /\ n.todo[3] = Settle(s)
  OBVIOUS
<1>2. n.todo[1].op = "release" /\ n.todo[3].op = "settle"
  BY <1>1, Ops
<1> QED
  BY <1>1, <1>2 DEF Fits, UndoAt, UndoRelease, InUndo

(* The authorization that a command replaced is known and settled.         *)
LEMMA PriorKnown ==
  ASSUME NEW a, Line(a), a.lease <= issued, Pushed(a.prior), issued \in Nat
  PROVE  Known(a.prior) /\ Settled(a.prior)
<1>1. CASE a.prior = NoAuth
  BY <1>1 DEF Known, Settled, Pushed
<1>2. CASE a.prior # NoAuth
  <2>1. Rec(a.prior) /\ a.prior.prior = NoAuth /\ a.prior.lease < a.lease /\ a.lease \in Nat
    BY <1>2 DEF Line, Rec
  <2>2. Line(a.prior)
    BY <2>1 DEF Line
  <2>3. a.prior.lease <= issued
    BY <2>1 DEF Rec
  <2>4. Pushed(a.prior.prior)
    BY <2>1 DEF Pushed
  <2> QED
    BY <2>2, <2>3, <2>4 DEF Known, Settled
<1> QED
  BY <1>1, <1>2

(* A failing operation leaves the command where it may be.                 *)
LEMMA Failing ==
  ASSUME NEW m, IsCommand(m), Fits(m), Known(m.auth), Settled(m.auth), issued \in Nat,
         m.todo # <<>>, NEW o, o = Head(m.todo).op, o # "wait", NEW n, n = OnFailure(m),
         lease' = lease, auth' = auth, issued' = issued, branch' = branch, tree' = tree, work' = work
  PROVE  IsCommand(n) /\ Known(n.auth) /\ Settled(n.auth) /\ (Fits(n) \/ Fits(n)')
<1>1. CASE Codex \notin work /\ n = Idle
  BY <1>1, IdleIs, Ended
<1>2. CASE HandoffAt(m)
  <2>1. CASE o = "acquire"
    <3>1. HandoffAcquire(m)
      BY <1>2, <2>1, HandoffHeads DEF HandoffAt
    <3> QED
      BY <1>1, <2>1, <3>1, OnFailureIs DEF HandoffAcquire, InHandoff
  <2>2. CASE o # "acquire"
    <3>1. InHandoff(m) /\ work = {}
      BY <1>2, <2>2, HandoffHeads DEF HandoffAt, HandoffSave, HandoffStatus, HandoffContext
    <3>2. n = Undo(m)
      BY <2>2, <3>1, OnFailureIs DEF InHandoff
    <3>3. /\ IsCommand(n) /\ n.cmd = "undo" /\ n.auth = m.auth.prior /\ n.lease = 0
          /\ n.todo = <<Release(m.lease), Restore(m.auth.prior), Settle(m.auth.was), Do("confirm")>>
      BY <3>1, <3>2, UndoIs DEF InHandoff
    <3>4. Puts(n, Restore(m.auth.prior))
      BY <3>3 DEF Puts
    <3>5. Fits(n)
      BY <3>1, <3>3, <3>4, UndoReleases
    <3>6. Known(m.auth.prior) /\ Settled(m.auth.prior)
      BY <3>1, PriorKnown DEF InHandoff
    <3> QED
      BY <3>3, <3>5, <3>6
  <2> QED
    BY <2>1, <2>2
<1>3. CASE UndoAt(m)
  <2>1. PICK k : k = [m EXCEPT !.safe = FALSE]
    OBVIOUS
  <2>2. /\ IsCommand(k) /\ k.cmd = m.cmd /\ k.todo = m.todo /\ k.auth = m.auth /\ k.lease = m.lease
        /\ k.safe = FALSE
    BY <2>1, UnsafeIs
  <2>3. n = Pop(k)
    BY <1>3, <2>1, OnFailureIs
       DEF UndoAt, UndoRelease, UndoAcquire, UndoPut, UndoSettle, UndoConfirm, InUndo
  <2>4. UndoAt(k) /\ work = {}
    BY <1>3, <2>2
       DEF UndoAt, UndoRelease, UndoAcquire, UndoPut, UndoSettle, UndoConfirm, InUndo, Puts
  <2>5. CASE UndoConfirm(k)
    BY <1>1, <2>2, <2>3, <2>4, <2>5, UndoNext
  <2>6. CASE ~UndoConfirm(k)
    <3>1. (UndoPut(n)' \/ UndoSettle(n)' \/ UndoConfirm(n)') /\ IsCommand(n) /\ n.auth = k.auth
      BY <2>2, <2>3, <2>4, <2>6, UndoNext DEF UndoAt
    <3> QED
      BY <2>2, <3>1 DEF Fits, UndoAt
  <2> QED
    BY <2>5, <2>6
<1>4. CASE BlockAt(m)
  <2>1. PICK k : k = [m EXCEPT !.safe = FALSE]
    OBVIOUS
  <2>2. /\ IsCommand(k) /\ k.cmd = m.cmd /\ k.todo = m.todo /\ k.auth = m.auth /\ k.head = m.head
    BY <2>1, UnsafeIs
  <2>3. n = Pop(k)
    BY <1>4, <2>1, OnFailureIs DEF BlockAt, BlockRelease, BlockSave, BlockSettle, BlockConfirm, InBlock
  <2>4. BlockAt(k) /\ work = {}
    BY <1>4, <2>2 DEF BlockAt, BlockRelease, BlockSave, BlockSettle, BlockConfirm, InBlock, Blocked
  <2>5. CASE BlockConfirm(k)
    BY <1>1, <2>2, <2>3, <2>4, <2>5, BlockNext
  <2>6. CASE ~BlockConfirm(k)
    <3>1. (BlockSave(n)' \/ BlockSettle(n)' \/ BlockConfirm(n)') /\ IsCommand(n) /\ n.auth = k.auth
      BY <2>2, <2>3, <2>4, <2>6, BlockNext DEF BlockAt
    <3> QED
      BY <2>2, <3>1 DEF Fits, BlockAt
  <2> QED
    BY <2>5, <2>6
<1>5. CASE PrepareAt(m)
  <2>1. InPrepare(m)
    BY <1>5 DEF PrepareAt, PrepareRelease, PrepareVerify, PrepareSave, PrepareStatus
  <2>2. CASE o = "release"
    BY <1>1, <2>1, <2>2, OnFailureIs DEF InPrepare
  <2>3. CASE o # "release"
    <3>1. auth # NoAuth => auth.lease = m.lease /\ auth.status # "CONSUMED"
      BY <1>5, <2>1, <2>3, HotHeads
         DEF PrepareAt, PrepareVerify, PrepareSave, PrepareStatus, InPrepare
    <3>2. n = Undo(m)
      BY <2>1, <2>3, OnFailureIs DEF InPrepare
    <3>3. IsCommand(n) /\ n.cmd = "undo" /\ n.auth = m.auth /\ n.lease = m.lease
      BY <2>1, <3>2, UndoIs DEF InPrepare
    <3>4. PICK s : n.todo = <<Acquire(m.lease), Save(m.auth), Settle(s), Do("confirm")>>
      BY <2>1, <3>2, UndoIs DEF InPrepare
    <3>5. Len(n.todo) = 4 /\ n.todo[3] = Settle(s) /\ Settle(s).op = "settle"
      BY <3>4, Ops
    <3>6. UndoAcquire(n)
      BY <2>1, <3>1, <3>3, <3>4, <3>5 DEF UndoAcquire, InUndo, InPrepare
    <3> QED
      BY <3>3, <3>6 DEF Fits, UndoAt
  <2> QED
    BY <2>2, <2>3
<1>6. CASE ActivateAt(m)
  <2>1. InActivate(m)
    BY <1>6 DEF ActivateAt, ActivateAcquire, ActivateVerify, ActivateSave, ActivateStatus
  <2>2. CASE o = "acquire"
    BY <1>1, <2>1, <2>2, OnFailureIs DEF InActivate
  <2>3. CASE o # "acquire"
    <3>1. n = Undo(m)
      BY <2>1, <2>3, OnFailureIs DEF InActivate
    <3>2. /\ IsCommand(n) /\ n.cmd = "undo" /\ n.auth = m.auth /\ n.lease = 0
          /\ n.todo = <<Release(m.lease), Save(m.auth), Settle("HANDOFF_PREPARED"), Do("confirm")>>
      BY <2>1, <3>1, UndoIs DEF InActivate
    <3>3. Puts(n, Save(m.auth))
      BY <2>1, <3>2 DEF Puts, InActivate, Own
    <3>4. Fits(n)
      BY <2>1, <3>2, <3>3, UndoReleases DEF InActivate
    <3> QED
      BY <3>2, <3>4
  <2> QED
    BY <2>2, <2>3
<1>7. CASE ReleaseAt(m) \/ PublishAt(m) \/ Ending(m) \/ ExecuteInvoke(m)
  <2>1. m.cmd \in {"release", "publish", "execute"} /\ work = {}
    BY <1>7 DEF ReleaseAt, ReleaseSave, ReleaseRelease, PublishAt, PublishTest, PublishRecheck,
                PublishCommit, PublishPush, PublishRelease, PublishSave, PublishStatus, PublishAudit,
                InPublish, Ending, ExecuteInvoke
  <2> QED
    BY <1>1, <2>1, OnFailureIs
<1>8. ~IdleAt(m) /\ ~ExecuteWait(m)
  BY IdleIs, OtherHeads DEF IdleAt
<1> QED
  BY <1>2, <1>3, <1>4, <1>5, <1>6, <1>7, <1>8 DEF Fits, ExecuteAt

-----------------------------------------------------------------------------
(***************************************************************************)
(* Steps that change neither lease, authorization, branch nor worktree.     *)
(***************************************************************************)
(* The command goes on with what it works with, or ends.                   *)
LEMMA Resumes ==
  ASSUME OneTerminal, Safe, NEW p \in Procs, NEW m, m = proc[p], NEW n, Goes(p, n),
         spent' \in [crashes : Nat, faults : Nat],
         lease' = lease, issued' = issued, auth' = auth, branch' = branch, tree' = tree, work' = work,
         \/ n = Idle /\ Codex \notin work
         \/ IsCommand(n) /\ n.auth = m.auth /\ (Fits(n) \/ Fits(n)')
  PROVE  Safe'
<1>1. CASE n = Idle /\ Codex \notin work
  BY <1>1, Ended, IdleIs, MovedOnly
<1>2. CASE IsCommand(n) /\ n.auth = m.auth /\ (Fits(n) \/ Fits(n)')
  <2>1. Known(n.auth) /\ Settled(n.auth)
    BY <1>2, Facts
  <2> QED
    BY <1>2, <2>1, MovedOnly
<1> QED
  BY <1>1, <1>2

(* CURRENT_STATE.json is written.                                          *)
LEMMA UpdateStateSafe ==
  ASSUME OneTerminal, Safe, NEW p \in Procs, UpdateState(p)
  PROVE  Safe'
<1>1. PICK m, n : m = proc[p] /\ n = Pop(m)
  OBVIOUS
<1>2. /\ m.todo # <<>> /\ Head(m.todo).op = "status" /\ Goes(p, n) /\ spent' = spent
      /\ lease' = lease /\ issued' = issued /\ auth' = auth /\ branch' = branch /\ tree' = tree /\ work' = work
  BY <1>1 DEF UpdateState, At, repo, others
<1>3. IsCommand(m) /\ Fits(m) /\ spent \in [crashes : Nat, faults : Nat]
  BY <1>1, Facts
<1>4. HandoffStatus(m) \/ PrepareStatus(m) \/ ActivateStatus(m) \/ PublishStatus(m) \/ Ending(m)
  BY <1>2, <1>3, Located
<1>5. \/ n = Idle /\ Codex \notin work
      \/ IsCommand(n) /\ n.auth = m.auth /\ Fits(n)'
  <2>1. CASE HandoffStatus(m)
    <3>1. Pushed(m.auth.prior)'
      BY <1>2, <2>1 DEF HandoffStatus, InHandoff, Pushed
    <3>2. HandoffContext(n)' /\ IsCommand(n) /\ n.auth = m.auth
      BY <1>1, <1>2, <1>3, <2>1, <3>1, HandoffNext
    <3> QED
      BY <3>2 DEF Fits, HandoffAt
  <2>2. CASE PrepareStatus(m)
    BY <1>1, <2>2, PopLast DEF PrepareStatus, InPrepare
  <2>3. CASE ActivateStatus(m)
    BY <1>1, <2>3, PopLast DEF ActivateStatus, InActivate
  <2>4. CASE PublishStatus(m)
    <3>1. PublishAudit(n)' /\ IsCommand(n) /\ n.auth = m.auth
      BY <1>1, <1>2, <1>3, <2>4, PublishNext
    <3> QED
      BY <3>1 DEF Fits, PublishAt
  <2>5. CASE Ending(m)
    BY <1>1, <1>2, <1>3, <2>5, PublishNext DEF Ending
  <2> QED
    BY <1>4, <2>1, <2>2, <2>3, <2>4, <2>5
<1> QED
  BY <1>1, <1>2, <1>3, <1>5, Resumes

(* The end of a rollback or a block.                                       *)
LEMMA SettleStateSafe ==
  ASSUME OneTerminal, Safe, NEW p \in Procs, SettleState(p)
  PROVE  Safe'
<1>1. PICK m, n : m = proc[p] /\ n = Pop(m)
  OBVIOUS
<1>2. /\ m.todo # <<>> /\ Head(m.todo).op \in {"settle", "confirm"} /\ Goes(p, n) /\ spent' = spent
      /\ lease' = lease /\ issued' = issued /\ auth' = auth /\ branch' = branch /\ tree' = tree /\ work' = work
  BY <1>1 DEF SettleState, At, repo, others
<1>3. IsCommand(m) /\ Fits(m) /\ spent \in [crashes : Nat, faults : Nat]
  BY <1>1, Facts
<1>4. UndoSettle(m) \/ BlockSettle(m) \/ UndoConfirm(m) \/ BlockConfirm(m)
  BY <1>2, <1>3, Located
<1>5. \/ n = Idle /\ Codex \notin work
      \/ IsCommand(n) /\ n.auth = m.auth /\ Fits(n)'
  <2>1. CASE UndoSettle(m)
    <3>1. UndoConfirm(n)' /\ IsCommand(n) /\ n.auth = m.auth
      BY <1>1, <1>2, <1>3, <2>1, UndoNext
    <3> QED
      BY <3>1 DEF Fits, UndoAt
  <2>2. CASE BlockSettle(m)
    <3>1. BlockConfirm(n)' /\ IsCommand(n) /\ n.auth = m.auth
      BY <1>1, <1>2, <1>3, <2>2, BlockNext
    <3> QED
      BY <3>1 DEF Fits, BlockAt
  <2>3. CASE UndoConfirm(m)
    BY <1>1, <1>2, <1>3, <2>3, UndoNext DEF UndoConfirm, InUndo
  <2>4. CASE BlockConfirm(m)
    BY <1>1, <1>2, <1>3, <2>4, BlockNext DEF BlockConfirm, InBlock
  <2> QED
    BY <1>4, <2>1, <2>2, <2>3, <2>4
<1> QED
  BY <1>1, <1>2, <1>3, <1>5, Resumes

(* cmd_context reads.                                                      *)
LEMMA ShowContextSafe ==
  ASSUME OneTerminal, Safe, NEW p \in Procs, ShowContext(p)
  PROVE  Safe'
<1>1. PICK m, n : m = proc[p] /\ n = Pop(m)
  OBVIOUS
<1>2. /\ m.todo # <<>> /\ Head(m.todo).op = "context" /\ Goes(p, n) /\ spent' = spent
      /\ lease' = lease /\ issued' = issued /\ auth' = auth /\ branch' = branch /\ tree' = tree /\ work' = work
  BY <1>1 DEF ShowContext, At, files, repo, others
<1>3. IsCommand(m) /\ Fits(m) /\ spent \in [crashes : Nat, faults : Nat]
  BY <1>1, Facts
<1>4. HandoffContext(m)
  BY <1>2, <1>3, Located
<1>5. n = Idle /\ Codex \notin work
  BY <1>1, <1>4, PopLast, Lists DEF HandoffContext
<1> QED
  BY <1>1, <1>2, <1>3, <1>5, Resumes

(* The worktree is compared with the checkpoint of a hot handoff.          *)
LEMMA VerifyCheckpointSafe ==
  ASSUME OneTerminal, Safe, NEW p \in Procs, VerifyCheckpoint(p)
  PROVE  Safe'
<1>1. PICK m : m = proc[p]
  OBVIOUS
<1>2. /\ m.todo # <<>> /\ Head(m.todo).op = "verify" /\ spent' = spent
      /\ Goes(p, Pop(m)) \/ Goes(p, OnFailure(m))
      /\ lease' = lease /\ issued' = issued /\ auth' = auth /\ branch' = branch /\ tree' = tree /\ work' = work
  BY <1>1 DEF VerifyCheckpoint, At, files, repo, others
<1>3. /\ IsCommand(m) /\ Fits(m) /\ spent \in [crashes : Nat, faults : Nat]
      /\ Known(m.auth) /\ Settled(m.auth) /\ issued \in Nat
  BY <1>1, Facts
<1>4. CASE Goes(p, Pop(m))
  <2>1. PICK n : n = Pop(m)
    OBVIOUS
  <2>2. PrepareVerify(m) \/ ActivateVerify(m)
    BY <1>2, <1>3, Located
  <2>3. (PrepareSave(n)' \/ ActivateSave(n)') /\ IsCommand(n) /\ n.auth = m.auth
    BY <1>2, <1>3, <2>1, <2>2, PrepareNext, ActivateNext
  <2>4. Fits(n)'
    BY <2>3 DEF Fits, PrepareAt, ActivateAt
  <2> QED
    BY <1>1, <1>2, <1>3, <1>4, <2>1, <2>3, <2>4, Resumes
<1>5. CASE Goes(p, OnFailure(m))
  <2>1. PICK n : n = OnFailure(m)
    OBVIOUS
  <2>2. IsCommand(n) /\ Known(n.auth) /\ Settled(n.auth) /\ (Fits(n) \/ Fits(n)')
    BY <1>2, <1>3, <2>1, Failing
  <2> QED
    BY <1>1, <1>2, <1>3, <1>5, <2>1, <2>2, MovedOnly
<1> QED
  BY <1>2, <1>4, <1>5

(* The command sets a last status.                                         *)
LEMMA EndsIs ==
  ASSUME NEW m, IsCommand(m), m.cmd \in {"publish", "execute"}, NEW s,
         NEW n, n = [m EXCEPT !.todo = <<SetStatus(s)>>], work' = {}
  PROVE  IsCommand(n) /\ n.auth = m.auth /\ Ending(n)'
<1>1. IsCommand(n) /\ n.auth = m.auth /\ n.cmd = m.cmd /\ n.todo = <<SetStatus(s)>>
  BY DEF IsCommand
<1>2. Len(n.todo) = 1 /\ n.todo[1] = SetStatus(s) /\ n.todo[1].op = "status"
  BY <1>1 DEF SetStatus
<1> QED
  BY <1>1, <1>2 DEF Ending

(* The publication looks again after its tests.                            *)
LEMMA RecheckSafe ==
  ASSUME OneTerminal, Safe, NEW p \in Procs, Recheck(p)
  PROVE  Safe'
<1>1. PICK m : m = proc[p]
  OBVIOUS
<1>2. /\ m.todo # <<>> /\ Head(m.todo).op = "recheck" /\ spent' = spent
      /\ lease' = lease /\ issued' = issued /\ auth' = auth /\ branch' = branch /\ tree' = tree /\ work' = work
  BY <1>1 DEF Recheck, At, files, repo, others
<1>3. /\ IsCommand(m) /\ Fits(m) /\ spent \in [crashes : Nat, faults : Nat] /\ tree.out \in BOOLEAN
  BY <1>1, Facts
<1>4. PublishRecheck(m)
  BY <1>2, <1>3, Located
<1>5. CASE StillValid(m)
  <2>1. PICK n : n = Pop(m)
    OBVIOUS
  <2>2. Goes(p, n)
    BY <1>1, <1>5, <2>1 DEF Recheck
  <2>3. MayCommit(m)' /\ branch'.local = m.head
    BY <1>2, <1>3, <1>4, <1>5 DEF StillValid, InScope, MayCommit, PublishRecheck, Own
  <2>4. PublishCommit(n)' /\ IsCommand(n) /\ n.auth = m.auth
    BY <1>2, <1>3, <1>4, <2>1, <2>3, PublishNext
  <2>5. Fits(n)'
    BY <2>4 DEF Fits, PublishAt
  <2> QED
    BY <1>1, <1>2, <1>3, <2>2, <2>4, <2>5, Resumes
<1>6. CASE ~StillValid(m)
  <2>1. PICK s, n : n = [m EXCEPT !.todo = <<SetStatus(s)>>] /\ Goes(p, n)
    BY <1>1, <1>6 DEF Recheck, Ends
  <2>2. IsCommand(n) /\ n.auth = m.auth /\ Ending(n)'
    BY <1>2, <1>3, <1>4, <2>1, EndsIs DEF PublishRecheck, InPublish
  <2>3. Fits(n)'
    BY <2>2 DEF Fits
  <2> QED
    BY <1>1, <1>2, <1>3, <2>1, <2>2, <2>3, Resumes
<1> QED
  BY <1>5, <1>6

(* cmd_execute looks at what its publication left.                         *)
LEMMA AuditSafe ==
  ASSUME OneTerminal, Safe, NEW p \in Procs, Audit(p)
  PROVE  Safe'
<1>1. PICK m : m = proc[p]
  OBVIOUS
<1>2. /\ m.todo # <<>> /\ Head(m.todo).op = "audit" /\ spent' = spent
      /\ lease' = lease /\ issued' = issued /\ auth' = auth /\ branch' = branch /\ tree' = tree /\ work' = work
  BY <1>1 DEF Audit, At, files, repo, others
<1>3. /\ IsCommand(m) /\ Fits(m) /\ spent \in [crashes : Nat, faults : Nat]
  BY <1>1, Facts
<1>4. PublishAudit(m)
  BY <1>2, <1>3, Located
<1>5. CASE Goes(p, Pop(m))
  <2>1. Pop(m) = Idle /\ Codex \notin work
    BY <1>4, PopLast, Lists DEF PublishAudit
  <2> QED
    BY <1>1, <1>2, <1>3, <1>5, <2>1, Resumes
<1>6. CASE ~Goes(p, Pop(m))
  <2>1. PICK s, n : n = [m EXCEPT !.todo = <<SetStatus(s)>>] /\ Goes(p, n)
    BY <1>1, <1>6 DEF Audit, Ends
  <2>2. IsCommand(n) /\ n.auth = m.auth /\ Ending(n)'
    BY <1>2, <1>3, <1>4, <2>1, EndsIs DEF PublishAudit
  <2>3. Fits(n)'
    BY <2>2 DEF Fits
  <2> QED
    BY <1>1, <1>2, <1>3, <2>1, <2>2, <2>3, Resumes
<1> QED
  BY <1>5, <1>6

-----------------------------------------------------------------------------
(***************************************************************************)
(* The lease and the authorization.                                         *)
(***************************************************************************)
(* What is in circulation stays settled unless a lease is acquired.        *)
LEMMA StaysSettled ==
  ASSUME Safe, NEW p \in Procs, NEW m, m = proc[p], issued' = issued, auth' = auth,
         branch'.remote \in Nat, branch.remote <= branch'.remote,
         lease' \in Nat, lease' = lease \/ lease' = 0 \/ lease' > issued
  PROVE  (Known(auth) /\ Settled(auth) /\ Known(m.auth) /\ Settled(m.auth))'
<1>1. PICK a, b : a = auth /\ b = m.auth
  OBVIOUS
<1>2. /\ issued \in Nat /\ branch.remote \in Nat /\ Known(a) /\ Settled(a) /\ Known(b) /\ Settled(b)
  BY <1>1, Facts
<1>3. Known(a)' /\ Known(b)'
  BY <1>2 DEF Known
<1>4. Settled(a)' /\ Settled(b)'
  BY <1>2, SettledKept
<1> QED
  BY <1>1, <1>3, <1>4 DEF Known, Settled, Pushed

(* While no executor is at work, lease and authorization may change.       *)
LEMMA MovedAuth ==
  ASSUME OneTerminal, Safe, NEW p \in Procs, NEW n, Goes(p, n), IsCommand(n),
         (Known(n.auth) /\ Settled(n.auth) /\ Fits(n))',
         (Known(auth) /\ Settled(auth) /\ Own(auth))',
         lease' \in Nat, issued' = issued, branch' = branch, tree' = tree,
         work' = {}, spent' = spent
  PROVE  Safe'
<1>1. HolderWorksAlone'
  BY DEF HolderWorksAlone
<1>2. /\ issued' \in 0 .. MaxLeases
      /\ branch' \in [local : Nat, remote : Nat] /\ branch'.remote <= branch'.local
      /\ tree' = [in |-> tree'.in, out |-> tree'.out] /\ tree'.out \in BOOLEAN
      /\ spent' \in [crashes : Nat, faults : Nat]
  BY DEF Safe, Typed
<1> QED
  BY <1>1, <1>2, Moved

(* AtomicExecutorLeaseStore.acquire                                        *)
LEMMA AcquireLeaseSafe ==
  ASSUME OneTerminal, Safe, NEW p \in Procs, AcquireLease(p)
  PROVE  Safe'
<1>1. PICK m : m = proc[p]
  OBVIOUS
<1>2. /\ m.todo # <<>> /\ Head(m.todo).op = "acquire" /\ spent' = spent
      /\ issued' = issued /\ auth' = auth /\ branch' = branch /\ tree' = tree /\ work' = work
  BY <1>1 DEF AcquireLease, At, repo, others
<1>3. /\ IsCommand(m) /\ Fits(m) /\ spent \in [crashes : Nat, faults : Nat]
      /\ Known(m.auth) /\ Settled(m.auth) /\ issued \in Nat
      /\ Known(auth) /\ Settled(auth) /\ Own(auth) /\ HolderWorksAlone
  BY <1>1, Facts
<1>4. CASE lease # 0
  <2>1. PICK n : n = OnFailure(m)
    OBVIOUS
  <2>2. lease' = lease /\ Goes(p, n)
    BY <1>1, <1>4, <2>1 DEF AcquireLease
  <2>3. IsCommand(n) /\ Known(n.auth) /\ Settled(n.auth) /\ (Fits(n) \/ Fits(n)')
    BY <1>2, <1>3, <2>1, <2>2, Failing
  <2> QED
    BY <1>2, <1>3, <2>2, <2>3, MovedOnly
<1>5. CASE lease = 0
  <2>1. PICK n, a, b : n = Pop(m) /\ a = auth /\ b = m.auth
    OBVIOUS
  <2>2. Goes(p, n) /\ lease' = Head(m.todo).arg
    BY <1>1, <1>5, <2>1 DEF AcquireLease
  <2>3. HandoffAcquire(m) \/ UndoAcquire(m) \/ ActivateAcquire(m)
    BY <1>2, <1>3, Located
  <2>4. lease' = m.lease /\ m.lease \in Nat
    <3>1. Head(m.todo) = Acquire(m.lease)
      BY <2>3, Lists DEF HandoffAcquire, UndoAcquire, ActivateAcquire
    <3> QED
      BY <1>3, <2>2, <3>1 DEF Acquire, IsCommand
  <2>5. work = {}
    <3>1. CASE HandoffAcquire(m)
      <4>1. auth # NoAuth => auth.lease # 0
        BY <1>3 DEF Known, Line, Rec
      <4> QED
        BY <1>3, <1>5, <4>1 DEF HolderWorksAlone, Holds
    <3>2. CASE UndoAcquire(m) \/ ActivateAcquire(m)
      BY <3>2 DEF UndoAcquire, InUndo, ActivateAcquire, InActivate
    <3> QED
      BY <2>3, <3>1, <3>2
  <2>6. a # NoAuth => a.lease < m.lease \/ (a.lease = m.lease /\ a.status # "CONSUMED")
    BY <2>1, <2>3 DEF HandoffAcquire, UndoAcquire, ActivateAcquire, InActivate
  <2>7. b # NoAuth => b.lease < m.lease \/ (b.lease = m.lease /\ b.status # "CONSUMED")
    BY <2>1, <2>3 DEF HandoffAcquire, InHandoff, UndoAcquire, ActivateAcquire, InActivate
  <2>8. Settled(a)' /\ Settled(b)'
    <3>1. PICK k : k = m.lease
      OBVIOUS
    <3> QED
      BY <1>2, <1>3, <2>1, <2>4, <2>6, <2>7, <3>1, SettledAcquire
  <2>9. (Known(auth) /\ Settled(auth) /\ Own(auth) /\ Known(m.auth) /\ Settled(m.auth))'
    BY <1>2, <1>3, <2>1, <2>8 DEF Known, Settled, Pushed, Own
  <2>10. IsCommand(n) /\ n.auth = m.auth /\ Fits(n)'
    <3>1. CASE HandoffAcquire(m)
      <4>1. PICK c, k : c = m.auth.prior /\ k = m.lease
        OBVIOUS
      <4>2. Line(m.auth) /\ m.auth.lease <= issued /\ Pushed(c) /\ m.auth.lease = k
        BY <3>1, <4>1 DEF HandoffAcquire, InHandoff
      <4>3. Known(c) /\ Settled(c)
        BY <1>3, <4>1, <4>2, PriorKnown
      <4>4. c # NoAuth => c.lease < k
        BY <4>1, <4>2 DEF Line
      <4>5. Settled(c)'
        BY <1>2, <2>4, <4>1, <4>3, <4>4, SettledAcquire
      <4>6. Pushed(m.auth.prior)'
        BY <4>1, <4>5 DEF Settled, Pushed
      <4>7. m.auth.action = "RUN" => tree'.in = {}
        BY <1>2, <1>5, <3>1 DEF HandoffAcquire
      <4>8. HandoffSave(n)' /\ IsCommand(n) /\ n.auth = m.auth
        BY <1>2, <1>3, <2>1, <2>5, <3>1, <4>6, <4>7, HandoffNext
      <4> QED
        BY <4>8 DEF Fits, HandoffAt
    <3>2. CASE UndoAcquire(m)
      <4>1. UndoPut(n)' /\ IsCommand(n) /\ n.auth = m.auth
        BY <1>2, <1>3, <2>1, <2>4, <3>2, UndoNext
      <4> QED
        BY <4>1 DEF Fits, UndoAt
    <3>3. CASE ActivateAcquire(m)
      <4>1. ActivateVerify(n)' /\ IsCommand(n) /\ n.auth = m.auth
        BY <1>2, <1>3, <2>1, <3>3, ActivateNext
      <4> QED
        BY <4>1 DEF Fits, ActivateAt
    <3> QED
      BY <2>3, <3>1, <3>2, <3>3
  <2>11. (Known(n.auth) /\ Settled(n.auth))'
    BY <2>9, <2>10 DEF Known, Settled, Pushed
  <2> QED
    BY <1>2, <2>2, <2>4, <2>5, <2>9, <2>10, <2>11, MovedAuth
<1> QED
  BY <1>4, <1>5

(* AtomicExecutorLeaseStore.release                                        *)
LEMMA ReleaseLeaseSafe ==
  ASSUME OneTerminal, Safe, NEW p \in Procs, ReleaseLease(p)
  PROVE  Safe'
<1>1. PICK m : m = proc[p]
  OBVIOUS
<1>2. /\ m.todo # <<>> /\ Head(m.todo).op = "release" /\ spent' = spent
      /\ issued' = issued /\ auth' = auth /\ branch' = branch /\ tree' = tree /\ work' = work
  BY <1>1 DEF ReleaseLease, At, repo, others
<1>3. /\ IsCommand(m) /\ Fits(m) /\ spent \in [crashes : Nat, faults : Nat]
      /\ Known(m.auth) /\ Settled(m.auth) /\ issued \in Nat /\ Own(auth) /\ branch.remote \in Nat
  BY <1>1, Facts
<1>4. CASE lease # Head(m.todo).arg
  <2>1. PICK n : n = OnFailure(m)
    OBVIOUS
  <2>2. lease' = lease /\ Goes(p, n)
    BY <1>1, <1>4, <2>1 DEF ReleaseLease
  <2>3. IsCommand(n) /\ Known(n.auth) /\ Settled(n.auth) /\ (Fits(n) \/ Fits(n)')
    BY <1>2, <1>3, <2>1, <2>2, Failing
  <2> QED
    BY <1>2, <1>3, <2>2, <2>3, MovedOnly
<1>5. CASE lease = Head(m.todo).arg
  <2>1. PICK n : n = Pop(m)
    OBVIOUS
  <2>2. Goes(p, n) /\ lease' = 0
    BY <1>1, <1>5, <2>1 DEF ReleaseLease
  <2>3. \/ UndoRelease(m) \/ BlockRelease(m) \/ PrepareRelease(m) \/ ReleaseRelease(m)
        \/ PublishRelease(m)
    BY <1>2, <1>3, Located
  <2>4. work = {} /\ work' = {}
    BY <1>2, <2>3 DEF UndoRelease, InUndo, BlockRelease, InBlock, PrepareRelease, InPrepare,
                      ReleaseRelease, PublishRelease, InPublish
  <2>5. (Known(auth) /\ Settled(auth) /\ Known(m.auth) /\ Settled(m.auth))'
    BY <1>1, <1>2, <1>3, <2>2, StaysSettled
  <2>6. Own(auth)'
    BY <1>2, <1>3 DEF Own
  <2>7. IsCommand(n) /\ (n = Idle \/ n.auth = m.auth) /\ Fits(n)'
    <3>1. CASE UndoRelease(m)
      <4>1. UndoPut(n)' /\ IsCommand(n) /\ n.auth = m.auth
        BY <1>2, <1>3, <2>1, <2>2, <3>1, UndoNext
      <4> QED
        BY <4>1 DEF Fits, UndoAt
    <3>2. CASE BlockRelease(m)
      <4>1. BlockSave(n)' /\ IsCommand(n) /\ n.auth = m.auth
        BY <1>2, <1>3, <2>1, <3>2, BlockNext
      <4> QED
        BY <4>1 DEF Fits, BlockAt
    <3>3. CASE PrepareRelease(m)
      <4>1. PrepareVerify(n)' /\ IsCommand(n) /\ n.auth = m.auth
        BY <1>2, <1>3, <2>1, <3>3, PrepareNext
      <4> QED
        BY <4>1 DEF Fits, PrepareAt
    <3>4. CASE ReleaseRelease(m)
      <4>1. n = Idle
        BY <2>1, <3>4, PopLast DEF ReleaseRelease
      <4> QED
        BY <2>4, <4>1, IdleIs DEF Fits, IdleAt
    <3>5. CASE PublishRelease(m)
      <4>1. PublishSave(n)' /\ IsCommand(n) /\ n.auth = m.auth
        BY <1>2, <1>3, <2>1, <2>2, <3>5, PublishNext
      <4> QED
        BY <4>1 DEF Fits, PublishAt
    <3> QED
      BY <2>3, <3>1, <3>2, <3>3, <3>4, <3>5
  <2>8. (Known(n.auth) /\ Settled(n.auth))'
    BY <2>5, <2>7, IdleIs DEF Known, Settled, Pushed
  <2> QED
    BY <1>2, <2>2, <2>4, <2>5, <2>6, <2>7, <2>8, MovedAuth
<1> QED
  BY <1>4, <1>5

(* An authorization that goes on from a settled one is settled.            *)
LEMMA WrittenSettled ==
  ASSUME NEW a, a # NoAuth, Settled(a), NEW b, Line(b), b.prior = a.prior, b.lease <= issued,
         b.status = "CONSUMED" => b.published <= branch.remote /\ b.lease # lease
  PROVE  Known(b) /\ Settled(b)
<1>1. Pushed(a.prior)
  BY DEF Settled
<1> QED
  BY <1>1 DEF Known, Settled, Pushed

(* AUTH-TASK-xxx.json is written.                                          *)
LEMMA SaveAuthorizationSafe ==
  ASSUME OneTerminal, Safe, NEW p \in Procs, SaveAuthorization(p)
  PROVE  Safe'
<1>1. PICK m, n, b : m = proc[p] /\ n = Pop(m) /\ b = auth'
  OBVIOUS
<1>2. /\ m.todo # <<>> /\ Head(m.todo).op = "save" /\ spent' = spent /\ Goes(p, n)
      /\ auth' = Head(m.todo).arg
      /\ lease' = lease /\ issued' = issued /\ branch' = branch /\ tree' = tree /\ work' = work
  BY <1>1 DEF SaveAuthorization, At, repo, others
<1>3. /\ IsCommand(m) /\ Fits(m) /\ Known(m.auth) /\ Settled(m.auth) /\ issued \in Nat
      /\ branch.remote \in Nat /\ lease \in Nat
  BY <1>1, Facts
<1>4. \/ HandoffSave(m) \/ UndoPut(m) \/ BlockSave(m) \/ PrepareSave(m)
      \/ ActivateSave(m) \/ ReleaseSave(m) \/ PublishSave(m)
  BY <1>2, <1>3, Located
<1>5. work = {} /\ work' = {}
  BY <1>2, <1>4 DEF HandoffSave, UndoPut, InUndo, BlockSave, InBlock, PrepareSave, InPrepare,
                    ActivateSave, InActivate, ReleaseSave, PublishSave, InPublish
<1>6. m.auth # NoAuth => m.auth.lease <= issued
  BY <1>3 DEF Known
<1>7. Known(b) /\ Settled(b) /\ Own(b) /\ IsCommand(n) /\ n.auth = m.auth /\ Fits(n)'
  <2>1. CASE HandoffSave(m)
    <3>1. b = m.auth
      <4>1. Head(m.todo) = Save(m.auth)
        BY <2>1, Lists DEF HandoffSave
      <4> QED
        BY <1>1, <1>2, <4>1 DEF Save
    <3>2. Own(b)
      BY <2>1, <3>1 DEF HandoffSave, Own
    <3>3. Pushed(m.auth.prior)'
      BY <1>2, <2>1 DEF HandoffSave, InHandoff, Pushed
    <3>4. HandoffStatus(n)' /\ IsCommand(n) /\ n.auth = m.auth
      BY <1>1, <1>2, <1>3, <2>1, <3>3, HandoffNext
    <3> QED
      BY <1>3, <3>1, <3>2, <3>4 DEF Fits, HandoffAt
  <2>2. CASE UndoPut(m)
    <3>1. Head(m.todo) = Save(m.auth) /\ Own(m.auth)
      <4>1. Puts(m, Head(m.todo))
        BY <2>2, Lists DEF UndoPut
      <4> QED
        BY <1>2, <4>1, Ops DEF Puts
    <3>2. b = m.auth
      BY <1>1, <1>2, <3>1 DEF Save
    <3>3. m.safe = TRUE => lease' = m.lease /\ auth' = m.auth
      BY <1>1, <1>2, <2>2, <3>2 DEF UndoPut
    <3>4. UndoSettle(n)' /\ IsCommand(n) /\ n.auth = m.auth
      BY <1>1, <1>2, <1>3, <2>2, <3>3, UndoNext
    <3> QED
      BY <1>3, <3>1, <3>2, <3>4 DEF Fits, UndoAt
  <2>3. CASE BlockSave(m)
    <3>1. PICK a, h : a = m.auth /\ h = m.head /\ Line(a) /\ a # NoAuth
      BY <2>3 DEF BlockSave, InBlock
    <3>2. b = BlockedAt(a, h)
      <4>1. Head(m.todo) = Save(Blocked(m))
        BY <2>3, Lists DEF BlockSave
      <4> QED
        BY <1>1, <1>2, <3>1, <4>1 DEF Save, Blocked, BlockedAt
    <3>3. Line(b) /\ b.status = "EXECUTION_BLOCKED" /\ b.lease = a.lease /\ b.prior = a.prior
      <4>1. Line(a)
        BY <3>1
      <4> QED
        BY <4>1, <3>2, RestatedHead
    <3>4. Known(b) /\ Settled(b)
      BY <1>3, <1>6, <3>1, <3>3, WrittenSettled
    <3>5. BlockSettle(n)' /\ IsCommand(n) /\ n.auth = m.auth
      BY <1>1, <1>2, <1>3, <2>3, BlockNext
    <3> QED
      BY <3>3, <3>4, <3>5 DEF Fits, BlockAt, Own
  <2>4. CASE PrepareSave(m)
    <3>1. /\ PrepareStatus(n)' /\ IsCommand(n) /\ n.auth = m.auth
          /\ Line(b) /\ b.lease = m.auth.lease /\ b.prior = m.auth.prior /\ b.status = "HANDOFF_PREPARED"
      BY <1>1, <1>2, <1>3, <2>4, PrepareNext
    <3>2. m.auth # NoAuth
      BY <2>4 DEF PrepareSave, InPrepare
    <3>3. Known(b) /\ Settled(b)
      BY <1>3, <1>6, <3>1, <3>2, WrittenSettled
    <3> QED
      BY <3>1, <3>3 DEF Fits, PrepareAt, Own
  <2>5. CASE ActivateSave(m)
    <3>1. /\ ActivateStatus(n)' /\ IsCommand(n) /\ n.auth = m.auth
          /\ Line(b) /\ b.lease = m.lease /\ b.prior = m.auth.prior /\ b.status = "ACTIVE"
          /\ b.hot = m.auth.hot
      BY <1>1, <1>2, <1>3, <2>5, ActivateNext
    <3>2. m.auth # NoAuth /\ m.lease <= issued /\ tree.in = m.auth.hot
      BY <2>5 DEF ActivateSave, InActivate
    <3>3. Known(b) /\ Settled(b)
      BY <1>3, <3>1, <3>2, WrittenSettled
    <3>4. Own(b)
      BY <3>1, <3>2 DEF Own
    <3> QED
      BY <3>1, <3>3, <3>4 DEF Fits, ActivateAt
  <2>6. CASE ReleaseSave(m)
    <3>1. /\ ReleaseRelease(n)' /\ IsCommand(n) /\ n.auth = m.auth
          /\ Line(b) /\ b.lease = m.auth.lease /\ b.prior = m.auth.prior /\ b.status = "CANCELLED"
      BY <1>1, <1>2, <1>3, <2>6, ReleaseNext
    <3>2. m.auth # NoAuth
      BY <2>6 DEF ReleaseSave
    <3>3. Known(b) /\ Settled(b)
      BY <1>3, <1>6, <3>1, <3>2, WrittenSettled
    <3> QED
      BY <3>1, <3>3 DEF Fits, ReleaseAt, Own
  <2>7. CASE PublishSave(m)
    <3>1. PICK a, k : a = m.auth /\ k = m.head + 1 /\ Line(a) /\ a # NoAuth
      BY <2>7 DEF PublishSave, InPublish
    <3>2. b = [a EXCEPT !.status = "CONSUMED", !.published = k] /\ k \in Nat
      <4>1. Head(m.todo) = Save(Published(m))
        BY <2>7, PublishLists DEF PublishSave
      <4>2. m.head \in Nat
        BY <1>3 DEF IsCommand
      <4> QED
        BY <1>1, <1>2, <3>1, <4>1, <4>2 DEF Save, Published
    <3>3. Line(b) /\ b.status = "CONSUMED" /\ b.lease = a.lease /\ b.prior = a.prior /\ b.published = k
      <4>1. Rec(a)
        BY <3>1 DEF Line
      <4>2. b.status = "CONSUMED" /\ b.lease = a.lease /\ b.prior = a.prior /\ b.published = k
        BY <3>2, <4>1 DEF Rec
      <4>3. Rec(b)
        BY <3>2, <4>1 DEF Rec
      <4>4. Line(a)
        BY <3>1
      <4> QED
        BY <4>2, <4>3, <4>4 DEF Line
    <3>4. branch.remote = k /\ lease = 0
      BY <2>7, <3>1 DEF PublishSave
    <3>5. b.lease # 0
      BY <3>3 DEF Line, Rec
    <3>6. Known(b) /\ Settled(b)
      <4>1. a # NoAuth /\ Settled(a) /\ b.lease <= issued
        BY <1>3, <1>6, <3>1, <3>3
      <4>2. b.published <= branch.remote /\ b.lease # lease
        BY <3>2, <3>3, <3>4, <3>5
      <4> QED
        BY <3>3, <4>1, <4>2, WrittenSettled
    <3>7. (PublishStatus(n)' \/ Ending(n)') /\ IsCommand(n) /\ n.auth = m.auth
      BY <1>1, <1>2, <1>3, <2>7, PublishNext
    <3> QED
      BY <3>3, <3>6, <3>7 DEF Fits, PublishAt, Own
  <2> QED
    BY <1>4, <2>1, <2>2, <2>3, <2>4, <2>5, <2>6, <2>7
<1>8. (Known(auth) /\ Settled(auth) /\ Own(auth))'
  BY <1>1, <1>2, <1>7 DEF Known, Settled, Pushed, Own
<1>9. (Known(n.auth) /\ Settled(n.auth))'
  BY <1>2, <1>3, <1>7 DEF Known, Settled, Pushed
<1> QED
  BY <1>2, <1>3, <1>5, <1>7, <1>8, <1>9, MovedAuth

(* A prior authorization is put back.                                      *)
LEMMA RestoreAuthorizationSafe ==
  ASSUME OneTerminal, Safe, NEW p \in Procs, RestoreAuthorization(p)
  PROVE  Safe'
<1>1. PICK m, x : m = proc[p] /\ x = Head(m.todo).arg
  OBVIOUS
<1>2. /\ m.todo # <<>> /\ Head(m.todo).op = "restore" /\ spent' = spent
      /\ lease' = lease /\ issued' = issued /\ branch' = branch /\ tree' = tree /\ work' = work
  BY <1>1 DEF RestoreAuthorization, At, repo, others
<1>3. /\ IsCommand(m) /\ Fits(m) /\ Known(m.auth) /\ Settled(m.auth) /\ issued \in Nat
      /\ lease \in Nat /\ spent \in [crashes : Nat, faults : Nat]
  BY <1>1, Facts
<1>4. UndoPut(m)
  BY <1>2, <1>3, Located
<1>5. work = {} /\ work' = {}
  BY <1>2, <1>4 DEF UndoPut, InUndo
<1>6. x = m.auth
  <2>1. Puts(m, Head(m.todo))
    BY <1>4, Lists DEF UndoPut
  <2>2. Head(m.todo) = Restore(m.auth)
    BY <1>2, <2>1, Ops DEF Puts
  <2> QED
    BY <1>1, <2>2 DEF Restore
<1>7. CASE ~(x = NoAuth \/ x.status # "ACTIVE")
  <2>1. PICK n : n = OnFailure(m)
    OBVIOUS
  <2>2. auth' = auth /\ Goes(p, n)
    BY <1>1, <1>7, <2>1 DEF RestoreAuthorization
  <2>3. IsCommand(n) /\ Known(n.auth) /\ Settled(n.auth) /\ (Fits(n) \/ Fits(n)')
    BY <1>2, <1>3, <2>1, <2>2, Failing
  <2> QED
    BY <1>2, <1>3, <2>2, <2>3, MovedOnly
<1>8. CASE x = NoAuth \/ x.status # "ACTIVE"
  <2>1. PICK n : n = Pop(m)
    OBVIOUS
  <2>2. auth' = x /\ Goes(p, n)
    BY <1>1, <1>8, <2>1 DEF RestoreAuthorization
  <2>3. m.safe = TRUE => lease' = m.lease /\ auth' = m.auth
    BY <1>2, <1>4, <1>6, <2>2 DEF UndoPut
  <2>4. UndoSettle(n)' /\ IsCommand(n) /\ n.auth = m.auth
    BY <1>2, <1>3, <1>4, <2>1, <2>3, UndoNext
  <2>5. Fits(n)'
    BY <2>4 DEF Fits, UndoAt
  <2>6. (Known(auth) /\ Settled(auth) /\ Own(auth) /\ Known(n.auth) /\ Settled(n.auth))'
    BY <1>2, <1>3, <1>6, <1>8, <2>2, <2>4 DEF Known, Settled, Pushed, Own
  <2> QED
    BY <1>2, <1>3, <1>5, <2>2, <2>4, <2>5, <2>6, MovedAuth
<1> QED
  BY <1>7, <1>8

-----------------------------------------------------------------------------
(***************************************************************************)
(* cmd_execute and cmd_publish.                                             *)
(***************************************************************************)
(* What stays in circulation while lease, authorization and branch stay.   *)
LEMMA StillSettled ==
  ASSUME NEW a, Known(a), Settled(a), issued' = issued, lease' = lease, branch' = branch
  PROVE  (Known(a) /\ Settled(a))'
  BY DEF Known, Settled, Pushed

(* The list of a publication that starts.                                  *)
LEMMA PublishIs ==
  ASSUME NEW auto \in BOOLEAN, NEW n, n = Publish(auto), branch.local \in Nat,
         NEW a, a = auth, a.lease \in Nat
  PROVE  /\ IsCommand(n) /\ n.cmd = "publish" /\ n.auth = a /\ n.todo = TodoTest(n)
<1>1. PICK l, h, b : l = a.lease /\ h = branch.local /\ b = [a EXCEPT !.status = "CONSUMED", !.published = h + 1]
  OBVIOUS
<1>2. PICK t : t = IF auto THEN <<Do("test"), Do("recheck"), Do("commit"), Do("push"), Release(l), Save(b),
                                  SetStatus("IN_REVIEW"), Do("audit")>>
                   ELSE <<Do("test"), Do("recheck"), Do("commit"), Do("push"), Release(l), Save(b),
                          SetStatus("IN_REVIEW")>>
  OBVIOUS
<1>3. t = <<Do("test"), Do("recheck"), Do("commit"), Do("push"), Release(l), Save(b),
            SetStatus("IN_REVIEW")>> \o (IF auto THEN <<Do("audit")>> ELSE <<>>)
  <2>1. CASE auto = TRUE
    BY <1>2, <2>1
  <2>2. CASE auto = FALSE
    BY <1>2, <2>2
  <2> QED
    BY <2>1, <2>2
<1>4. n = [Command("publish", a, l, t) EXCEPT !.auto = auto]
  BY <1>1, <1>3 DEF Publish
<1>5. /\ IsCommand(n) /\ n.cmd = "publish" /\ n.auth = a /\ n.todo = t /\ n.auto = auto
      /\ n.lease = l /\ n.head = h
  BY <1>1, <1>4 DEF Command, Idle, IsCommand
<1>6. Published(n) = b
  BY <1>1, <1>5 DEF Published
<1>7. n.todo = TodoTest(n)
  BY <1>2, <1>5, <1>6 DEF TodoTest
<1> QED
  BY <1>5, <1>7

(* A publication starts with the ACTIVE authorization.                     *)
LEMMA PublishStarts ==
  ASSUME Safe, MayPublish, NEW auto \in BOOLEAN, NEW n, n = Publish(auto), work' = {},
         lease' = lease, issued' = issued, auth' = auth, branch' = branch, tree' = tree
  PROVE  /\ IsCommand(n) /\ (Known(n.auth) /\ Settled(n.auth) /\ Fits(n))'
<1>1. PICK a : a = auth
  OBVIOUS
<1>2. /\ Known(a) /\ Settled(a) /\ Own(a) /\ a # NoAuth /\ a.status = "ACTIVE" /\ branch.local \in Nat
  BY <1>1 DEF MayPublish, Holds, Safe, Typed, Circulation
<1>3. Line(a) /\ a.lease \in Nat
  BY <1>2 DEF Known, Line, Rec
<1>4. IsCommand(n) /\ n.cmd = "publish" /\ n.auth = a /\ n.todo = TodoTest(n)
  BY <1>1, <1>2, <1>3, PublishIs
<1>5. PublishTest(n)'
  BY <1>2, <1>3, <1>4 DEF PublishTest, InPublish, Own
<1>6. (Known(a) /\ Settled(a))'
  BY <1>2, StillSettled
<1> QED
  BY <1>4, <1>5, <1>6 DEF Fits, PublishAt, Known, Settled, Pushed

(* Codex is started, or cannot be.                                         *)
LEMMA InvokeSafe ==
  ASSUME OneTerminal, Safe, NEW p \in Procs, Invoke(p)
  PROVE  Safe'
<1>1. PICK m : m = proc[p]
  OBVIOUS
<1>2. /\ m.todo # <<>> /\ Head(m.todo).op = "invoke" /\ spent' = spent
      /\ lease' = lease /\ issued' = issued /\ auth' = auth /\ branch' = branch /\ tree' = tree
  BY <1>1 DEF Invoke, At, files, repo
<1>3. /\ IsCommand(m) /\ Fits(m) /\ spent \in [crashes : Nat, faults : Nat]
      /\ Known(m.auth) /\ Settled(m.auth) /\ issued \in 0 .. MaxLeases /\ lease \in Nat
      /\ Known(auth) /\ Settled(auth) /\ Own(auth)
      /\ branch \in [local : Nat, remote : Nat] /\ branch.remote <= branch.local
      /\ tree = [in |-> tree.in, out |-> tree.out] /\ tree.out \in BOOLEAN
  BY <1>1, Facts
<1>4. ExecuteInvoke(m)
  BY <1>2, <1>3, Located
<1>5. \/ /\ work' = work \cup {Codex}
         /\ Goes(p, [m EXCEPT !.todo = <<Do("wait")>>])
      \/ /\ work' = work
         /\ \E s : Goes(p, [m EXCEPT !.todo = <<SetStatus(s)>>])
  BY <1>1 DEF Invoke, Ends
<1>6. CASE work' = work \cup {Codex} /\ Goes(p, [m EXCEPT !.todo = <<Do("wait")>>])
  <2>1. PICK n : n = [m EXCEPT !.todo = <<Do("wait")>>]
    OBVIOUS
  <2>2. IsCommand(n) /\ n.cmd = m.cmd /\ n.auth = m.auth /\ n.todo = <<Do("wait")>>
    BY <1>3, <2>1 DEF IsCommand
  <2>3. ExecuteWait(n)'
    BY <1>4, <1>6, <2>2 DEF ExecuteInvoke, ExecuteWait
  <2>4. HolderWorksAlone'
    BY <1>2, <1>4, <1>6 DEF ExecuteInvoke, HolderWorksAlone, Holds
  <2>5. (Known(auth) /\ Settled(auth) /\ Own(auth))' /\ (Known(n.auth) /\ Settled(n.auth))'
    BY <1>2, <1>3, <2>2 DEF Known, Settled, Pushed, Own
  <2>6. Fits(n)'
    BY <2>3 DEF Fits, ExecuteAt
  <2>7. /\ lease' \in Nat /\ issued' \in 0 .. MaxLeases
        /\ branch' \in [local : Nat, remote : Nat] /\ branch'.remote <= branch'.local
        /\ tree' = [in |-> tree'.in, out |-> tree'.out] /\ tree'.out \in BOOLEAN
        /\ spent' \in [crashes : Nat, faults : Nat]
    BY <1>2, <1>3
  <2> QED
    BY <1>6, <2>1, <2>2, <2>4, <2>5, <2>6, <2>7, Moved
<1>7. CASE work' = work /\ \E s : Goes(p, [m EXCEPT !.todo = <<SetStatus(s)>>])
  <2>1. PICK s, n : n = [m EXCEPT !.todo = <<SetStatus(s)>>] /\ Goes(p, n)
    BY <1>7
  <2>2. IsCommand(n) /\ n.auth = m.auth /\ Ending(n)'
    BY <1>3, <1>4, <1>7, <2>1, EndsIs DEF ExecuteInvoke
  <2>3. Fits(n)'
    BY <2>2 DEF Fits
  <2> QED
    BY <1>1, <1>2, <1>3, <1>7, <2>1, <2>2, <2>3, Resumes
<1> QED
  BY <1>5, <1>6, <1>7

(* A block starts.                                                         *)
LEMMA BlockStarts ==
  ASSUME NEW m, IsCommand(m), ExecuteWait(m), NEW n, n = Block(m), work' = {}
  PROVE  IsCommand(n) /\ n.auth = m.auth /\ Fits(n)'
<1>1. /\ IsCommand(n) /\ n.cmd = "block" /\ n.auth = m.auth /\ n.head = m.head
      /\ n.todo = <<Release(m.lease), Save(Blocked(m)), Settle("EXECUTION_BLOCKED"), Do("confirm")>>
  BY DEF Block, Blocked, IsCommand
<1>2. Blocked(n) = Blocked(m)
  BY <1>1 DEF Blocked
<1>3. /\ Len(n.todo) = 4 /\ n.todo[1] = Release(m.lease) /\ n.todo[3] = Settle("EXECUTION_BLOCKED")
  BY <1>1
<1>4. n.todo[1].op = "release" /\ n.todo[3].op = "settle"
  BY <1>3 DEF Release, Settle
<1>5. BlockRelease(n)'
  BY <1>1, <1>2, <1>3, <1>4 DEF BlockRelease, InBlock, ExecuteWait
<1> QED
  BY <1>1, <1>5 DEF Fits, BlockAt

(* The child ends.                                                         *)
LEMMA ChildEndsSafe ==
  ASSUME OneTerminal, Safe, NEW p \in Procs, ChildEnds(p)
  PROVE  Safe'
<1>1. PICK m : m = proc[p]
  OBVIOUS
<1>2. /\ m.todo # <<>> /\ Head(m.todo).op = "wait" /\ spent' = spent /\ work' = work \ {Codex}
      /\ lease' = lease /\ issued' = issued /\ auth' = auth /\ branch' = branch /\ tree' = tree
  BY <1>1 DEF ChildEnds, At, files, repo
<1>3. /\ IsCommand(m) /\ Fits(m) /\ Known(m.auth) /\ Settled(m.auth) /\ lease \in Nat
      /\ Known(auth) /\ Settled(auth) /\ Own(auth)
  BY <1>1, Facts
<1>4. ExecuteWait(m)
  BY <1>2, <1>3, Located
<1>5. work' = {}
  BY <1>2, <1>4 DEF ExecuteWait
<1>6. PICK n : /\ Goes(p, n)
               /\ \/ n = Block(m)
                  \/ n = Publish(TRUE) /\ MayPublish
                  \/ n = Idle
                  \/ \E s : n = [m EXCEPT !.todo = <<SetStatus(s)>>]
  BY <1>1 DEF ChildEnds, Ends
<1>7. (Known(auth) /\ Settled(auth) /\ Own(auth) /\ Known(m.auth) /\ Settled(m.auth))'
  BY <1>2, <1>3 DEF Known, Settled, Pushed, Own
<1>8. IsCommand(n) /\ (Known(n.auth) /\ Settled(n.auth) /\ Fits(n))'
  <2>1. CASE n = Block(m)
    <3>1. IsCommand(n) /\ n.auth = m.auth /\ Fits(n)'
      BY <1>3, <1>4, <1>5, <2>1, BlockStarts
    <3> QED
      BY <1>7, <3>1 DEF Known, Settled, Pushed
  <2>2. CASE n = Publish(TRUE) /\ MayPublish
    BY <1>2, <1>5, <2>2, PublishStarts
  <2>3. CASE n = Idle
    BY <1>5, <2>3, IdleIs DEF Fits, IdleAt, Known, Settled, Pushed
  <2>4. CASE \E s : n = [m EXCEPT !.todo = <<SetStatus(s)>>]
    <3>1. PICK s : n = [m EXCEPT !.todo = <<SetStatus(s)>>]
      BY <2>4
    <3>2. IsCommand(n) /\ n.auth = m.auth /\ Ending(n)'
      BY <1>3, <1>4, <1>5, <3>1, EndsIs DEF ExecuteWait
    <3> QED
      BY <1>7, <3>2 DEF Known, Settled, Pushed, Fits
  <2> QED
    BY <1>6, <2>1, <2>2, <2>3, <2>4
<1> QED
  BY <1>2, <1>3, <1>5, <1>6, <1>7, <1>8, MovedAuth

(* The tests of a publication.                                             *)
LEMMA RunTestsSafe ==
  ASSUME OneTerminal, Safe, NEW p \in Procs, RunTests(p)
  PROVE  Safe'
<1>1. PICK m : m = proc[p]
  OBVIOUS
<1>2. /\ m.todo # <<>> /\ Head(m.todo).op = "test" /\ spent' = spent /\ work' = work
      /\ lease' = lease /\ issued' = issued /\ auth' = auth /\ branch' = branch
      /\ tree' \in {tree, [tree EXCEPT !.out = TRUE]}
  BY <1>1 DEF RunTests, At, files, others
<1>3. /\ IsCommand(m) /\ Fits(m) /\ spent \in [crashes : Nat, faults : Nat]
      /\ Known(m.auth) /\ Settled(m.auth) /\ issued \in 0 .. MaxLeases /\ lease \in Nat
      /\ Known(auth) /\ Settled(auth) /\ Own(auth)
      /\ branch \in [local : Nat, remote : Nat] /\ branch.remote <= branch.local
      /\ tree = [in |-> tree.in, out |-> tree.out] /\ tree.out \in BOOLEAN
  BY <1>1, Facts
<1>4. PublishTest(m)
  BY <1>2, <1>3, Located
<1>5. work = {} /\ work' = {}
  BY <1>2, <1>4 DEF PublishTest, InPublish
<1>6. tree'.in = tree.in /\ tree' = [in |-> tree'.in, out |-> tree'.out] /\ tree'.out \in BOOLEAN
  BY <1>2, <1>3
<1>7. (Known(auth) /\ Settled(auth) /\ Own(auth) /\ Known(m.auth) /\ Settled(m.auth))'
  BY <1>2, <1>3, <1>6 DEF Known, Settled, Pushed, Own
<1>8. PICK n : Goes(p, n) /\ (n = Pop(m) \/ \E s : n = [m EXCEPT !.todo = <<SetStatus(s)>>])
  BY <1>1 DEF RunTests, Ends
<1>9. IsCommand(n) /\ n.auth = m.auth /\ Fits(n)'
  <2>1. CASE n = Pop(m)
    <3>1. PublishRecheck(n)' /\ IsCommand(n) /\ n.auth = m.auth
      BY <1>2, <1>3, <1>4, <1>6, <2>1, PublishNext
    <3> QED
      BY <3>1 DEF Fits, PublishAt
  <2>2. CASE \E s : n = [m EXCEPT !.todo = <<SetStatus(s)>>]
    <3>1. PICK s : n = [m EXCEPT !.todo = <<SetStatus(s)>>]
      BY <2>2
    <3>2. IsCommand(n) /\ n.auth = m.auth /\ Ending(n)'
      BY <1>3, <1>4, <1>5, <3>1, EndsIs DEF PublishTest, InPublish
    <3> QED
      BY <3>2 DEF Fits
  <2> QED
    BY <1>8, <2>1, <2>2
<1>10. HolderWorksAlone'
  BY <1>5 DEF HolderWorksAlone
<1>11. (Known(n.auth) /\ Settled(n.auth))'
  BY <1>7, <1>9 DEF Known, Settled, Pushed
<1>12. /\ lease' \in Nat /\ issued' \in 0 .. MaxLeases /\ spent' \in [crashes : Nat, faults : Nat]
       /\ branch' \in [local : Nat, remote : Nat] /\ branch'.remote <= branch'.local
  BY <1>2, <1>3
<1> QED
  BY <1>6, <1>7, <1>8, <1>9, <1>10, <1>11, <1>12, Moved

(* The publication's commit.                                               *)
LEMMA CommitSafe ==
  ASSUME OneTerminal, Safe, NEW p \in Procs, Commit(p)
  PROVE  Safe'
<1>1. PICK m, n : m = proc[p] /\ n = Pop(m)
  OBVIOUS
<1>2. /\ m.todo # <<>> /\ Head(m.todo).op = "commit" /\ spent' = spent /\ work' = work /\ Goes(p, n)
      /\ lease' = lease /\ issued' = issued /\ auth' = auth
      /\ branch' = [branch EXCEPT !.local = @ + 1] /\ tree' = [in |-> {}, out |-> FALSE]
  BY <1>1 DEF Commit, At, files, others
<1>3. /\ IsCommand(m) /\ Fits(m) /\ spent \in [crashes : Nat, faults : Nat]
      /\ issued \in 0 .. MaxLeases /\ lease \in Nat
      /\ branch \in [local : Nat, remote : Nat] /\ branch.remote <= branch.local
  BY <1>1, Facts
<1>4. PublishCommit(m)
  BY <1>2, <1>3, Located
<1>5. /\ branch' \in [local : Nat, remote : Nat] /\ branch'.remote = branch.remote
      /\ branch'.local = branch.local + 1 /\ branch'.remote <= branch'.local
  BY <1>2, <1>3
<1>6. (Known(auth) /\ Settled(auth) /\ Known(m.auth) /\ Settled(m.auth))'
  BY <1>1, <1>2, <1>3, <1>5, StaysSettled
<1>7. Own(auth)' /\ HolderWorksAlone' /\ tree' = [in |-> tree'.in, out |-> tree'.out] /\ tree'.out \in BOOLEAN
  BY <1>2, <1>4 DEF Own, HolderWorksAlone, PublishCommit, InPublish
<1>8. PublishPush(n)' /\ IsCommand(n) /\ n.auth = m.auth
  <2>1. branch'.local = m.head + 1
    BY <1>4, <1>5 DEF PublishCommit
  <2> QED
    BY <1>1, <1>2, <1>3, <1>4, <2>1, PublishNext
<1>9. (Known(n.auth) /\ Settled(n.auth) /\ Fits(n))'
  BY <1>6, <1>8 DEF Known, Settled, Pushed, Fits, PublishAt
<1>10. lease' \in Nat /\ issued' \in 0 .. MaxLeases /\ spent' \in [crashes : Nat, faults : Nat]
  BY <1>2, <1>3
<1> QED
  BY <1>2, <1>5, <1>6, <1>7, <1>8, <1>9, <1>10, Moved

(* The publication's push.                                                 *)
LEMMA PushSafe ==
  ASSUME OneTerminal, Safe, NEW p \in Procs, Push(p)
  PROVE  Safe'
<1>1. PICK m, n : m = proc[p] /\ n = Pop(m)
  OBVIOUS
<1>2. /\ m.todo # <<>> /\ Head(m.todo).op = "push" /\ spent' = spent /\ work' = work /\ Goes(p, n)
      /\ lease' = lease /\ issued' = issued /\ auth' = auth /\ tree' = tree
      /\ branch' = [branch EXCEPT !.remote = branch.local]
  BY <1>1 DEF Push, At, files, others
<1>3. /\ IsCommand(m) /\ Fits(m) /\ spent \in [crashes : Nat, faults : Nat]
      /\ issued \in 0 .. MaxLeases /\ lease \in Nat /\ Own(auth)
      /\ branch \in [local : Nat, remote : Nat] /\ branch.remote <= branch.local
      /\ tree = [in |-> tree.in, out |-> tree.out] /\ tree.out \in BOOLEAN
  BY <1>1, Facts
<1>4. PublishPush(m)
  BY <1>2, <1>3, Located
<1>5. /\ branch' \in [local : Nat, remote : Nat] /\ branch'.remote = branch.local
      /\ branch'.local = branch.local /\ branch.remote <= branch'.remote /\ branch'.remote <= branch'.local
  BY <1>2, <1>3
<1>6. (Known(auth) /\ Settled(auth) /\ Known(m.auth) /\ Settled(m.auth))'
  BY <1>1, <1>2, <1>3, <1>5, StaysSettled
<1>7. Own(auth)' /\ HolderWorksAlone'
  BY <1>2, <1>3, <1>4 DEF Own, HolderWorksAlone, PublishPush, InPublish
<1>8. PublishRelease(n)' /\ IsCommand(n) /\ n.auth = m.auth
  <2>1. branch'.remote = m.head + 1
    BY <1>4, <1>5 DEF PublishPush
  <2> QED
    BY <1>1, <1>2, <1>3, <1>4, <2>1, PublishNext
<1>9. (Known(n.auth) /\ Settled(n.auth) /\ Fits(n))'
  BY <1>6, <1>8 DEF Known, Settled, Pushed, Fits, PublishAt
<1>10. /\ lease' \in Nat /\ issued' \in 0 .. MaxLeases /\ spent' \in [crashes : Nat, faults : Nat]
       /\ tree' = [in |-> tree'.in, out |-> tree'.out] /\ tree'.out \in BOOLEAN
  BY <1>2, <1>3
<1> QED
  BY <1>2, <1>5, <1>6, <1>7, <1>8, <1>9, <1>10, Moved

-----------------------------------------------------------------------------
(***************************************************************************)
(* Faults and crashes.                                                      *)
(***************************************************************************)
(* An operation fails.                                                     *)
LEMMA FaultSafe ==
  ASSUME OneTerminal, Safe, NEW p \in Procs, Fault(p)
  PROVE  Safe'
<1>1. PICK m, n, o : m = proc[p] /\ n = OnFailure(m) /\ o = Head(m.todo).op
  OBVIOUS
<1>2. /\ m.todo # <<>> /\ o # "wait" /\ Goes(p, n)
      /\ spent' = [spent EXCEPT !.faults = @ + 1]
      /\ lease' = lease /\ issued' = issued /\ auth' = auth /\ branch' = branch /\ work' = work
  <2>1. m.todo # <<>> /\ ~At(p, "wait")
    BY <1>1 DEF Fault
  <2> QED
    BY <1>1, <2>1 DEF Fault, At, files, others
<1>3. /\ IsCommand(m) /\ Fits(m) /\ spent \in [crashes : Nat, faults : Nat]
      /\ Known(m.auth) /\ Settled(m.auth) /\ issued \in Nat /\ issued \in 0 .. MaxLeases /\ lease \in Nat
      /\ Known(auth) /\ Settled(auth) /\ Own(auth)
      /\ branch \in [local : Nat, remote : Nat] /\ branch.remote <= branch.local
      /\ tree = [in |-> tree.in, out |-> tree.out] /\ tree.out \in BOOLEAN
  BY <1>1, Facts
<1>4. spent' \in [crashes : Nat, faults : Nat]
  BY <1>2, <1>3
<1>5. CASE o # "commit"
  <2>1. tree' = tree
    BY <1>1, <1>5 DEF Fault, At
  <2>2. IsCommand(n) /\ Known(n.auth) /\ Settled(n.auth) /\ (Fits(n) \/ Fits(n)')
    BY <1>1, <1>2, <1>3, <2>1, Failing
  <2> QED
    BY <1>2, <1>4, <2>1, <2>2, MovedOnly
<1>6. CASE o = "commit"
  <2>1. PublishCommit(m)
    BY <1>1, <1>2, <1>3, <1>6, Located
  <2>2. n = Idle /\ work' = {}
    BY <1>1, <1>2, <2>1, OnFailureIs DEF PublishCommit, InPublish
  <2>3. tree' = [tree EXCEPT !.out = TRUE]
    BY <1>1, <1>2, <1>6 DEF Fault, At
  <2>4. tree'.in = tree.in /\ tree' = [in |-> tree'.in, out |-> tree'.out] /\ tree'.out \in BOOLEAN
    BY <1>3, <2>3
  <2>5. (Known(auth) /\ Settled(auth) /\ Own(auth))' /\ HolderWorksAlone'
    BY <1>2, <1>3, <2>2, <2>4 DEF Known, Settled, Pushed, Own, HolderWorksAlone
  <2>6. IsCommand(n) /\ (Known(n.auth) /\ Settled(n.auth) /\ Fits(n))'
    BY <2>2, IdleIs DEF Fits, IdleAt, Known, Settled, Pushed
  <2>7. /\ lease' \in Nat /\ issued' \in 0 .. MaxLeases
        /\ branch' \in [local : Nat, remote : Nat] /\ branch'.remote <= branch'.local
    BY <1>2, <1>3
  <2> QED
    BY <1>2, <1>4, <2>4, <2>5, <2>6, <2>7, Moved
<1> QED
  BY <1>5, <1>6

(* Only cmd_execute has a child.                                           *)
LEMMA OnlyWaiting ==
  ASSUME NEW m, Fits(m), ~ExecuteWait(m)
  PROVE  Codex \notin work
<1>1. CASE IdleAt(m) \/ HandoffAt(m) \/ ReleaseAt(m) \/ Ending(m) \/ ExecuteInvoke(m)
  BY <1>1 DEF IdleAt, HandoffAt, HandoffAcquire, HandoffSave, HandoffStatus, HandoffContext,
              ReleaseAt, ReleaseSave, ReleaseRelease, Ending, ExecuteInvoke
<1>2. CASE UndoAt(m) \/ BlockAt(m)
  BY <1>2 DEF UndoAt, UndoRelease, UndoAcquire, UndoPut, UndoSettle, UndoConfirm, InUndo,
              BlockAt, BlockRelease, BlockSave, BlockSettle, BlockConfirm, InBlock
<1>3. CASE PrepareAt(m) \/ ActivateAt(m)
  BY <1>3 DEF PrepareAt, PrepareRelease, PrepareVerify, PrepareSave, PrepareStatus, InPrepare,
              ActivateAt, ActivateAcquire, ActivateVerify, ActivateSave, ActivateStatus, InActivate
<1>4. CASE PublishAt(m)
  BY <1>4 DEF PublishAt, PublishTest, PublishRecheck, PublishCommit, PublishPush, PublishRelease,
              PublishSave, PublishStatus, PublishAudit, InPublish
<1> QED
  BY <1>1, <1>2, <1>3, <1>4 DEF Fits, ExecuteAt

(* A command is killed.                                                    *)
LEMMA CrashSafe ==
  ASSUME OneTerminal, Safe, NEW p \in Procs, Crash(p)
  PROVE  Safe'
<1>1. PICK m, n : m = proc[p] /\ n = Idle
  OBVIOUS
<1>2. /\ m.todo # <<>> /\ Goes(p, n) /\ spent' = [spent EXCEPT !.crashes = @ + 1]
      /\ issued' = issued /\ auth' = auth /\ branch' = branch
      /\ lease' = lease \/ (lease = 0 /\ lease' = Torn)
      /\ tree' \in {tree, [tree EXCEPT !.out = TRUE]}
  BY <1>1 DEF Crash
<1>3. /\ IsCommand(m) /\ Fits(m) /\ spent \in [crashes : Nat, faults : Nat]
      /\ issued \in Nat /\ issued \in 0 .. MaxLeases /\ lease \in Nat
      /\ Known(auth) /\ Settled(auth) /\ Own(auth) /\ HolderWorksAlone
      /\ branch \in [local : Nat, remote : Nat] /\ branch.remote <= branch.local /\ branch.remote \in Nat
      /\ tree = [in |-> tree.in, out |-> tree.out] /\ tree.out \in BOOLEAN
  BY <1>1, Facts
<1>4. spent' \in [crashes : Nat, faults : Nat]
  BY <1>2, <1>3
<1>5. work' \subseteq work /\ Codex \notin work'
  <2>1. work' = IF Waits(p) THEN work \ {Codex} ELSE work
    BY DEF Crash, OneTerminal
  <2>2. ExecuteWait(m) => Waits(p)
    BY <1>1, OtherHeads, Lists, Ops DEF ExecuteWait, Waits
  <2>3. CASE Waits(p)
    BY <2>1, <2>3
  <2>4. CASE ~Waits(p)
    BY <1>3, <2>1, <2>2, <2>4, OnlyWaiting
  <2> QED
    BY <2>3, <2>4
<1>6. Torn \in Nat /\ Torn > issued
  BY <1>3, BoundsAssumption DEF Torn
<1>7. lease' \in Nat /\ (lease' = lease \/ lease' > issued)
  BY <1>2, <1>3, <1>6
<1>8. (Known(auth) /\ Settled(auth))'
  BY <1>1, <1>2, <1>3, <1>7, StaysSettled
<1>9. tree'.in = tree.in /\ tree' = [in |-> tree'.in, out |-> tree'.out] /\ tree'.out \in BOOLEAN
  BY <1>2, <1>3
<1>10. Own(auth)'
  BY <1>2, <1>3, <1>9 DEF Own
<1>11. HolderWorksAlone'
  <2>1. CASE lease' = lease
    BY <1>2, <1>3, <1>5, <2>1 DEF HolderWorksAlone, Holds
  <2>2. CASE lease = 0
    <3>1. auth # NoAuth => auth.lease # 0
      BY <1>3 DEF Known, Line, Rec
    <3>2. work = {}
      BY <1>3, <2>2, <3>1 DEF HolderWorksAlone, Holds
    <3> QED
      BY <1>5, <3>2 DEF HolderWorksAlone
  <2> QED
    BY <1>2, <2>1, <2>2
<1>12. IsCommand(n) /\ (Known(n.auth) /\ Settled(n.auth) /\ Fits(n))'
  BY <1>1, <1>5, IdleIs DEF Fits, IdleAt, Known, Settled, Pushed
<1>13. /\ issued' \in 0 .. MaxLeases
       /\ branch' \in [local : Nat, remote : Nat] /\ branch'.remote <= branch'.local
  BY <1>2, <1>3
<1> QED
  BY <1>2, <1>4, <1>7, <1>8, <1>9, <1>10, <1>11, <1>12, <1>13, Moved

-----------------------------------------------------------------------------
(***************************************************************************)
(* Commands that start.                                                     *)
(***************************************************************************)
(* A terminal without a command has no child.                              *)
LEMMA IdleOnly ==
  ASSUME NEW m, Fits(m), m.cmd = "idle"
  PROVE  m = Idle /\ Codex \notin work
<1>1. ~HandoffAt(m) /\ ~ReleaseAt(m) /\ ~Ending(m) /\ ~ExecuteAt(m)
  BY DEF HandoffAt, HandoffAcquire, HandoffSave, HandoffStatus, HandoffContext, InHandoff,
         ReleaseAt, ReleaseSave, ReleaseRelease, Ending, ExecuteAt, ExecuteInvoke, ExecuteWait
<1>2. ~UndoAt(m) /\ ~BlockAt(m)
  BY DEF UndoAt, UndoRelease, UndoAcquire, UndoPut, UndoSettle, UndoConfirm, InUndo,
         BlockAt, BlockRelease, BlockSave, BlockSettle, BlockConfirm, InBlock
<1>3. ~PrepareAt(m) /\ ~ActivateAt(m)
  BY DEF PrepareAt, PrepareRelease, PrepareVerify, PrepareSave, PrepareStatus, InPrepare,
         ActivateAt, ActivateAcquire, ActivateVerify, ActivateSave, ActivateStatus, InActivate
<1>4. ~PublishAt(m)
  BY DEF PublishAt, PublishTest, PublishRecheck, PublishCommit, PublishPush, PublishRelease,
         PublishSave, PublishStatus, PublishAudit, InPublish
<1> QED
  BY <1>1, <1>2, <1>3, <1>4 DEF Fits, IdleAt

(* cmd_handoff                                                             *)
LEMMA StartHandoffSafe ==
  ASSUME OneTerminal, Safe, NEW p \in Procs, NEW e, NEW action, StartHandoff(p, e, action)
  PROVE  Safe'
<1>1. PICK m, l, x : m = proc[p] /\ l = issued + 1 /\ x = Failover(e, action)
  OBVIOUS
<1>2. PICK a, s : /\ a = NewAuth(e, action, l, x)
                  /\ s = IF action = "RUN" THEN "IN_PROGRESS" ELSE "CHANGES_REQUIRED"
  OBVIOUS
<1>3. PICK t, n : t = <<Acquire(l), Save(a), SetStatus(s), Do("context")>> /\ n = Command("handoff", a, l, t)
  OBVIOUS
<1>4. /\ m.cmd = "idle" /\ issued < MaxLeases /\ Goes(p, n) /\ issued' = l
      /\ action = "RUN" => tree.in = {}
      /\ lease' = lease /\ auth' = auth /\ branch' = branch /\ tree' = tree /\ work' = work /\ spent' = spent
  BY <1>1, <1>2, <1>3 DEF StartHandoff, Goes, RunAllowed, Clean
<1>5. /\ Fits(m) /\ spent \in [crashes : Nat, faults : Nat]
      /\ issued \in Nat /\ issued \in 0 .. MaxLeases /\ lease \in Nat
      /\ Known(auth) /\ Settled(auth) /\ Own(auth) /\ HolderWorksAlone
      /\ branch \in [local : Nat, remote : Nat] /\ branch.remote <= branch.local /\ branch.remote \in Nat
      /\ tree = [in |-> tree.in, out |-> tree.out] /\ tree.out \in BOOLEAN
  BY <1>1, Facts
<1>6. Codex \notin work
  BY <1>4, <1>5, IdleOnly
<1>7. l \in Nat /\ l # 0 /\ l \in 0 .. MaxLeases /\ issued < l
  BY <1>1, <1>4, <1>5, BoundsAssumption
<1>8. auth # NoAuth => auth.lease < l
  BY <1>5, <1>7 DEF Known, Line, Rec
<1>9. /\ Line(a) /\ a.status = "ACTIVE" /\ a.lease = l /\ a.action = action
      /\ a.prior # NoAuth => /\ auth # NoAuth /\ a.prior.lease = auth.lease
                             /\ a.prior.published = auth.published /\ a.prior.status = auth.status
  BY <1>2, <1>5, <1>7, <1>8, NewAuthIs
<1>10. Pushed(a.prior)'
  BY <1>4, <1>5, <1>9 DEF Pushed, Settled
<1>11. /\ IsCommand(n) /\ n.cmd = "handoff" /\ n.todo = t /\ n.auth = a /\ n.lease = l /\ n.safe = TRUE
  <2>1. n = Command("handoff", a, l, t)
    BY <1>3
  <2>2. l \in Nat /\ branch.local \in Nat
    BY <1>5, <1>7
  <2> QED
    BY <2>1, <2>2 DEF Command, Idle, IsCommand
<1>12. /\ Len(n.todo) = 4 /\ n.todo[3] = SetStatus(s) /\ SetStatus(s).op = "status"
       /\ n.todo = <<Acquire(l), Save(a), SetStatus(s), Do("context")>>
  BY <1>3, <1>11, Ops
<1>13. InHandoff(n)'
  BY <1>4, <1>7, <1>9, <1>10, <1>11 DEF InHandoff
<1>14. HandoffAcquire(n)'
  BY <1>4, <1>6, <1>8, <1>9, <1>11, <1>12, <1>13 DEF HandoffAcquire
<1>15. (Known(n.auth) /\ Settled(n.auth) /\ Fits(n))'
  BY <1>4, <1>7, <1>9, <1>10, <1>11, <1>14 DEF Known, Settled, Pushed, Fits, HandoffAt
<1>16. (Known(auth) /\ Settled(auth) /\ Own(auth) /\ HolderWorksAlone)'
  <2>1. auth # NoAuth => auth.lease <= l
    BY <1>7, <1>8, <1>5 DEF Known, Line, Rec
  <2> QED
    BY <1>4, <1>5, <2>1 DEF Known, Settled, Pushed, Own, HolderWorksAlone, Holds
<1>17. /\ lease' \in Nat /\ issued' \in 0 .. MaxLeases
       /\ branch' \in [local : Nat, remote : Nat] /\ branch'.remote <= branch'.local
       /\ tree' = [in |-> tree'.in, out |-> tree'.out] /\ tree'.out \in BOOLEAN
       /\ spent' \in [crashes : Nat, faults : Nat]
  BY <1>4, <1>5, <1>7
<1> QED
  BY <1>4, <1>11, <1>15, <1>16, <1>17, Moved

(* cmd_hot_handoff_activate                                                *)
LEMMA StartActivateSafe ==
  ASSUME OneTerminal, Safe, NEW p \in Procs, NEW e, StartActivate(p, e)
  PROVE  Safe'
<1>1. PICK m, l, a : m = proc[p] /\ l = issued + 1 /\ a = auth
  OBVIOUS
<1>2. PICK b, s : /\ b = [a EXCEPT !.status = "ACTIVE", !.by = e, !.lease = l]
                  /\ s = IF a.action = "RUN" THEN "IN_PROGRESS" ELSE "CHANGES_REQUIRED"
  OBVIOUS
<1>3. PICK t, n : /\ t = <<Acquire(l), Verify(a.hot), Save(b), SetStatus(s)>>
                  /\ n = Command("activate", a, l, t)
  OBVIOUS
<1>4. /\ m.cmd = "idle" /\ issued < MaxLeases /\ issued' = l
      /\ a # NoAuth /\ a.status = "HANDOFF_PREPARED" /\ tree.in = a.hot
      /\ lease' = lease /\ auth' = auth /\ branch' = branch /\ tree' = tree /\ work' = work /\ spent' = spent
  BY <1>1 DEF StartActivate, repo, others, Holds
<1>5. Goes(p, n)
  BY <1>1, <1>2, <1>3 DEF StartActivate, Goes
<1>6. /\ Fits(m) /\ spent \in [crashes : Nat, faults : Nat]
      /\ issued \in Nat /\ issued \in 0 .. MaxLeases /\ lease \in Nat
      /\ Known(a) /\ Settled(a) /\ Own(auth) /\ HolderWorksAlone
      /\ branch \in [local : Nat, remote : Nat] /\ branch.remote <= branch.local /\ branch.remote \in Nat
      /\ tree = [in |-> tree.in, out |-> tree.out] /\ tree.out \in BOOLEAN
  BY <1>1, Facts
<1>7. work = {}
  BY <1>1, <1>4, <1>6 DEF HolderWorksAlone, Holds
<1>8. l \in Nat /\ l # 0 /\ l \in 0 .. MaxLeases /\ issued < l
  BY <1>1, <1>4, <1>6, BoundsAssumption
<1>9. Line(a) /\ a.lease < l /\ a.lease <= l
  BY <1>4, <1>6, <1>8 DEF Known, Line, Rec
<1>10. /\ IsCommand(n) /\ n.cmd = "activate" /\ n.todo = t /\ n.auth = a /\ n.lease = l /\ n.safe = TRUE
  <2>1. n = Command("activate", a, l, t)
    BY <1>3
  <2>2. l \in Nat /\ branch.local \in Nat
    BY <1>6, <1>8
  <2> QED
    BY <2>1, <2>2 DEF Command, Idle, IsCommand
<1>11. b.by = e
  BY <1>2, <1>9 DEF Line, Rec
<1>12. /\ Len(n.todo) = 4 /\ n.todo[2] = Verify(a.hot) /\ n.todo[3] = Save(b) /\ n.todo[4] = SetStatus(s)
       /\ n.todo = <<Acquire(l), Verify(a.hot), Save(b), SetStatus(s)>>
  BY <1>3, <1>10
<1>13. n.todo[2].op = "verify" /\ n.todo[4].op = "status" /\ n.todo[3].arg = b
  BY <1>12, Ops
<1>14. Activated(n, n.todo[3].arg.by) = b
  BY <1>2, <1>10, <1>11, <1>13 DEF Activated
<1>15. InActivate(n)'
  BY <1>4, <1>7, <1>8, <1>9, <1>10 DEF InActivate
<1>16. ActivateAcquire(n)'
  BY <1>1, <1>4, <1>10, <1>12, <1>13, <1>14, <1>15 DEF ActivateAcquire
<1>17. (Known(a) /\ Settled(a))'
  BY <1>4, <1>6, <1>8, <1>9 DEF Known, Settled, Pushed
<1>18. (Known(n.auth) /\ Settled(n.auth) /\ Fits(n))'
  BY <1>10, <1>16, <1>17 DEF Known, Settled, Pushed, Fits, ActivateAt
<1>19. (Known(auth) /\ Settled(auth) /\ Own(auth) /\ HolderWorksAlone)'
  BY <1>1, <1>4, <1>6, <1>7, <1>17 DEF Known, Settled, Pushed, Own, HolderWorksAlone
<1>20. /\ lease' \in Nat /\ issued' \in 0 .. MaxLeases
       /\ branch' \in [local : Nat, remote : Nat] /\ branch'.remote <= branch'.local
       /\ tree' = [in |-> tree'.in, out |-> tree'.out] /\ tree'.out \in BOOLEAN
       /\ spent' \in [crashes : Nat, faults : Nat]
  BY <1>4, <1>6, <1>8
<1> QED
  BY <1>5, <1>10, <1>18, <1>19, <1>20, Moved

(* A command that starts on the files as they are.                         *)
LEMMA Starts ==
  ASSUME OneTerminal, Safe, NEW p \in Procs, NEW n, Goes(p, n), IsCommand(n), Fits(n),
         n.auth = auth, spent' = spent,
         lease' = lease, issued' = issued, auth' = auth, branch' = branch, tree' = tree, work' = work
  PROVE  Safe'
<1>1. Known(n.auth) /\ Settled(n.auth) /\ spent' \in [crashes : Nat, faults : Nat]
  BY DEF Safe, Typed, Circulation
<1> QED
  BY <1>1, MovedOnly

(* cmd_lease_release                                                       *)
LEMMA StartLeaseReleaseSafe ==
  ASSUME OneTerminal, Safe, NEW p \in Procs, StartLeaseRelease(p)
  PROVE  Safe'
<1>1. PICK a, l, b : a = auth /\ l = lease /\ b = [a EXCEPT !.status = "CANCELLED"]
  OBVIOUS
<1>2. PICK t : t = IF Holds("ACTIVE") THEN <<Save(b), Release(l)>> ELSE <<Release(l)>>
  OBVIOUS
<1>3. t = (IF Holds("ACTIVE") THEN <<Save(b)>> ELSE <<>>) \o <<Release(l)>>
  <2>1. CASE Holds("ACTIVE")
    BY <1>2, <2>1
  <2>2. CASE ~Holds("ACTIVE")
    BY <1>2, <2>2
  <2> QED
    BY <2>1, <2>2
<1>4. PICK n : n = Command("release", a, l, t)
  OBVIOUS
<1>5. /\ Goes(p, n) /\ work = {} /\ spent' = spent
      /\ lease' = lease /\ issued' = issued /\ auth' = auth /\ branch' = branch /\ tree' = tree /\ work' = work
  BY <1>1, <1>3, <1>4 DEF StartLeaseRelease, Goes, Confirmed, files, repo, others
<1>6. l \in Nat /\ branch.local \in Nat /\ Known(a)
  BY <1>1 DEF Safe, Typed, Circulation
<1>7. IsCommand(n) /\ n.cmd = "release" /\ n.todo = t /\ n.auth = a
  BY <1>4, <1>6 DEF Command, Idle, IsCommand
<1>8. CASE Holds("ACTIVE")
  <2>1. t = <<Save(b), Release(l)>>
    BY <1>2, <1>8
  <2>2. Len(n.todo) = 2 /\ n.todo[2] = Release(l) /\ Release(l).op = "release"
    BY <1>7, <2>1, Ops
  <2>3. a # NoAuth /\ Line(a)
    BY <1>1, <1>6, <1>8 DEF Holds, Known
  <2>4. ReleaseSave(n)
    BY <1>1, <1>5, <1>7, <2>1, <2>2, <2>3 DEF ReleaseSave
  <2> QED
    BY <1>1, <1>5, <1>7, <2>4, Starts DEF Fits, ReleaseAt
<1>9. CASE ~Holds("ACTIVE")
  <2>1. t = <<Release(l)>>
    BY <1>2, <1>9
  <2>2. Len(n.todo) = 1 /\ n.todo[1] = Release(l) /\ Release(l).op = "release"
    BY <1>7, <2>1, Ops
  <2>3. ReleaseRelease(n)
    BY <1>5, <1>7, <2>1, <2>2 DEF ReleaseRelease
  <2> QED
    BY <1>1, <1>5, <1>7, <2>3, Starts DEF Fits, ReleaseAt
<1> QED
  BY <1>8, <1>9

(* cmd_hot_handoff_prepare                                                 *)
LEMMA StartPrepareSafe ==
  ASSUME OneTerminal, Safe, NEW p \in Procs, StartPrepare(p)
  PROVE  Safe'
<1>1. PICK a, l, es : a = auth /\ l = a.lease /\ es = tree.in
  OBVIOUS
<1>2. PICK b : b = [a EXCEPT !.status = "HANDOFF_PREPARED", !.hot = es]
  OBVIOUS
<1>3. PICK t, n : /\ t = <<Release(l), Verify(es), Save(b), SetStatus("HANDOFF_PREPARED")>>
                  /\ n = Command("prepare", a, l, t)
  OBVIOUS
<1>4. /\ Goes(p, n) /\ work = {} /\ spent' = spent /\ a # NoAuth /\ a.status = "ACTIVE"
      /\ lease' = lease /\ issued' = issued /\ auth' = auth /\ branch' = branch /\ tree' = tree /\ work' = work
  BY <1>1, <1>2, <1>3 DEF StartPrepare, Goes, Confirmed, Holds, files, repo, others
<1>5. branch.local \in Nat /\ Known(a) /\ Own(a)
  BY <1>1 DEF Safe, Typed, Circulation
<1>6. Line(a) /\ l \in Nat
  BY <1>1, <1>4, <1>5 DEF Known, Line, Rec
<1>7. IsCommand(n) /\ n.cmd = "prepare" /\ n.todo = t /\ n.auth = a /\ n.lease = l /\ n.safe = TRUE
  <2>1. n = Command("prepare", a, l, t)
    BY <1>3
  <2> QED
    BY <1>5, <1>6, <2>1 DEF Command, Idle, IsCommand
<1>8. /\ Len(n.todo) = 4 /\ n.todo[1] = Release(l) /\ n.todo[2] = Verify(es)
      /\ n.todo[4] = SetStatus("HANDOFF_PREPARED")
      /\ n.todo = <<Release(l), Verify(es), Save(b), SetStatus("HANDOFF_PREPARED")>>
  BY <1>3, <1>7
<1>9. /\ n.todo[1].op = "release" /\ n.todo[2].op = "verify" /\ n.todo[2].arg = es
      /\ n.todo[4].op = "status"
  BY <1>8, Ops
<1>10. Prepared(n, n.todo[2].arg) = b
  BY <1>2, <1>7, <1>9 DEF Prepared
<1>11. InPrepare(n)
  BY <1>1, <1>4, <1>5, <1>6, <1>7 DEF InPrepare
<1>12. PrepareRelease(n)
  BY <1>1, <1>7, <1>8, <1>9, <1>10, <1>11 DEF PrepareRelease
<1> QED
  BY <1>1, <1>4, <1>7, <1>12, Starts DEF Fits, PrepareAt

(* cmd_publish                                                             *)
LEMMA StartPublishSafe ==
  ASSUME OneTerminal, Safe, NEW p \in Procs, StartPublish(p)
  PROVE  Safe'
<1>1. PICK n : n = Publish(FALSE)
  OBVIOUS
<1>2. /\ Goes(p, n) /\ MayPublish /\ work' = {} /\ spent' = spent
      /\ lease' = lease /\ issued' = issued /\ auth' = auth /\ branch' = branch /\ tree' = tree
  BY <1>1 DEF StartPublish, Goes, files, repo
<1>3. IsCommand(n) /\ (Known(n.auth) /\ Settled(n.auth) /\ Fits(n))'
  BY <1>1, <1>2, PublishStarts
<1>4. lease' \in Nat /\ (Known(auth) /\ Settled(auth) /\ Own(auth))'
  BY <1>2 DEF Safe, Typed, Circulation, Known, Settled, Pushed, Own
<1> QED
  BY <1>2, <1>3, <1>4, MovedAuth

(* cmd_execute, and its rollback when something fails before the child.    *)
LEMMA StartExecuteSafe ==
  ASSUME OneTerminal, Safe, NEW p \in Procs, StartExecute(p)
  PROVE  Safe'
<1>1. PICK k, a, l : k = proc[p] /\ a = auth /\ l = a.lease
  OBVIOUS
<1>2. PICK m : m = Command("execute", a, l, <<Do("invoke")>>)
  OBVIOUS
<1>3. /\ k.cmd = "idle" /\ a # NoAuth /\ a.status = "ACTIVE" /\ a.by = Codex /\ spent' = spent
      /\ (lease = l /\ Goes(p, m)) \/ Goes(p, Undo(m))
      /\ lease' = lease /\ issued' = issued /\ auth' = auth /\ branch' = branch /\ tree' = tree /\ work' = work
  BY <1>1, <1>2 DEF StartExecute, Goes, Holds, files, repo, others
<1>4. /\ branch.local \in Nat /\ Known(a) /\ Settled(a) /\ Fits(k) /\ HolderWorksAlone /\ issued \in Nat
      /\ spent \in [crashes : Nat, faults : Nat]
  BY <1>1, Facts
<1>5. Line(a) /\ a.lease <= issued /\ l \in Nat /\ Pushed(a.prior)
  BY <1>1, <1>3, <1>4 DEF Known, Settled, Line, Rec
<1>6. IsCommand(m) /\ m.cmd = "execute" /\ m.todo = <<Do("invoke")>> /\ m.auth = a /\ m.lease = l
  BY <1>2, <1>4, <1>5 DEF Command, Idle, IsCommand
<1>7. work = {}
  <2>1. Codex \notin work
    BY <1>3, <1>4, IdleOnly
  <2>2. \A e \in work : e = Codex
    BY <1>1, <1>3, <1>4 DEF HolderWorksAlone
  <2> QED
    BY <2>1, <2>2
<1>8. CASE lease = l /\ Goes(p, m)
  <2>1. ExecuteInvoke(m)
    BY <1>1, <1>3, <1>5, <1>6, <1>7, <1>8 DEF ExecuteInvoke, Holds
  <2> QED
    BY <1>1, <1>3, <1>6, <1>8, <2>1, Starts DEF Fits, ExecuteAt
<1>9. CASE Goes(p, Undo(m))
  <2>1. PICK n : n = Undo(m)
    OBVIOUS
  <2>2. /\ IsCommand(n) /\ n.cmd = "undo" /\ n.auth = a.prior /\ n.lease = 0
        /\ n.todo = <<Release(l), Restore(a.prior), Settle(a.was), Do("confirm")>>
    BY <1>6, <2>1, UndoIs
  <2>3. Puts(n, Restore(a.prior))
    BY <2>2 DEF Puts
  <2>4. Fits(n)
    BY <1>7, <2>2, <2>3, UndoReleases
  <2>5. Known(n.auth) /\ Settled(n.auth)
    BY <1>4, <1>5, <2>2, PriorKnown
  <2> QED
    BY <1>3, <1>4, <1>9, <2>1, <2>2, <2>4, <2>5, MovedOnly
<1> QED
  BY <1>3, <1>8, <1>9

-----------------------------------------------------------------------------
(***************************************************************************)
(* Executors, the Human, the reviewer and the watcher.                     *)
(***************************************************************************)
(* No command moves.                                                       *)
LEMMA NobodyMoves ==
  ASSUME Safe, proc' = proc, spent' = spent, lease' = lease, issued' = issued, auth' = auth,
         branch' = branch, tree' = [in |-> tree'.in, out |-> tree'.out], tree'.out \in BOOLEAN,
         Own(auth)', HolderWorksAlone', \A p \in Procs : Fits(proc[p])'
  PROVE  Safe'
<1>1. Typed'
  <2>1. Typed
    BY DEF Safe
  <2> QED
    BY <2>1 DEF Typed, IsCommand
<1>2. Circulation'
  <2>1. Circulation
    BY DEF Safe
  <2>2. (Known(auth) /\ Settled(auth))'
    BY <2>1 DEF Circulation, Known, Settled, Pushed
  <2>3. ASSUME NEW p \in Procs PROVE (Known(proc[p].auth) /\ Settled(proc[p].auth))'
    <3>1. PICK a : a = proc[p].auth
      OBVIOUS
    <3>2. Known(a) /\ Settled(a) /\ proc'[p].auth = a
      BY <2>1, <3>1 DEF Circulation
    <3>3. (Known(a) /\ Settled(a))'
      BY <3>2, StillSettled
    <3> QED
      BY <3>1, <3>2, <3>3 DEF Known, Settled, Pushed
  <2> QED
    BY <2>2, <2>3 DEF Circulation
<1>3. Phases'
  BY DEF Phases
<1> QED
  BY <1>1, <1>2, <1>3 DEF Safe

(* Nothing moves that commands and executors depend on.                    *)
LEMMA NothingMoves ==
  ASSUME Safe, proc' = proc, spent' = spent, lease' = lease, issued' = issued, auth' = auth,
         branch' = branch, tree' = tree, work' = work
  PROVE  Safe'
<1>1. ASSUME NEW p \in Procs PROVE Fits(proc[p])'
  <2>1. PICK m : m = proc[p]
    OBVIOUS
  <2>2. Fits(m)'
    BY <2>1, FitsKept DEF Safe, Phases
  <2> QED
    BY <2>1, <2>2
<1>2. /\ tree' = [in |-> tree'.in, out |-> tree'.out] /\ tree'.out \in BOOLEAN
      /\ Own(auth)' /\ HolderWorksAlone'
  BY DEF Safe, Typed, Circulation, Own, HolderWorksAlone, Holds
<1> QED
  BY <1>1, <1>2, NobodyMoves

(* An interactive executor begins.                                         *)
LEMMA BeginSafe ==
  ASSUME OneTerminal, Safe, NEW e \in Executors, Begin(e)
  PROVE  Safe'
<1>1. /\ e # Codex /\ Quiet /\ Holds("ACTIVE") /\ auth.by = e /\ lease = auth.lease /\ work' = {e}
      /\ proc' = proc /\ spent' = spent /\ lease' = lease /\ issued' = issued /\ auth' = auth
      /\ branch' = branch /\ tree' = tree
  BY DEF Begin, files, repo
<1>2. ASSUME NEW p \in Procs PROVE Fits(proc[p])'
  <2>1. proc[p] = Idle
    BY <1>1, IdleOnly DEF Safe, Phases, Quiet
  <2> QED
    BY <1>1, <2>1 DEF Fits, IdleAt
<1>3. HolderWorksAlone'
  BY <1>1 DEF HolderWorksAlone, Holds
<1>4. tree' = [in |-> tree'.in, out |-> tree'.out] /\ tree'.out \in BOOLEAN /\ Own(auth)'
  BY <1>1 DEF Safe, Typed, Circulation, Own
<1> QED
  BY <1>1, <1>2, <1>3, <1>4, NobodyMoves

(* While an executor is at work, a command can only wait for it, or be at  *)
(* its first operation.                                                    *)
LEMMA AtWork ==
  ASSUME NEW m, Fits(m), work # {}
  PROVE  IdleAt(m) \/ HandoffAcquire(m) \/ ExecuteWait(m)
<1>1. ~HandoffSave(m) /\ ~HandoffStatus(m) /\ ~HandoffContext(m) /\ ~ReleaseAt(m) /\ ~Ending(m) /\ ~ExecuteInvoke(m)
  BY DEF HandoffSave, HandoffStatus, HandoffContext,
         ReleaseAt, ReleaseSave, ReleaseRelease, Ending, ExecuteInvoke
<1>2. ~UndoAt(m) /\ ~BlockAt(m)
  BY DEF UndoAt, UndoRelease, UndoAcquire, UndoPut, UndoSettle, UndoConfirm, InUndo,
         BlockAt, BlockRelease, BlockSave, BlockSettle, BlockConfirm, InBlock
<1>3. ~PrepareAt(m) /\ ~ActivateAt(m)
  BY DEF PrepareAt, PrepareRelease, PrepareVerify, PrepareSave, PrepareStatus, InPrepare,
         ActivateAt, ActivateAcquire, ActivateVerify, ActivateSave, ActivateStatus, InActivate
<1>4. ~PublishAt(m)
  BY DEF PublishAt, PublishTest, PublishRecheck, PublishCommit, PublishPush, PublishRelease,
         PublishSave, PublishStatus, PublishAudit, InPublish
<1> QED
  BY <1>1, <1>2, <1>3, <1>4 DEF Fits, HandoffAt, ExecuteAt

(* An executor edits.                                                      *)
LEMMA EditSafe ==
  ASSUME OneTerminal, Safe, NEW e \in Executors, Edit(e)
  PROVE  Safe'
<1>1. /\ e \in work
      /\ tree' \in {[tree EXCEPT !.in = @ \cup {e}], [tree EXCEPT !.out = TRUE]}
      /\ proc' = proc /\ spent' = spent /\ lease' = lease /\ issued' = issued /\ auth' = auth
      /\ branch' = branch /\ work' = work
  BY DEF Edit, files, others
<1>2. /\ tree = [in |-> tree.in, out |-> tree.out] /\ tree.out \in BOOLEAN
      /\ HolderWorksAlone /\ Own(auth) /\ Known(auth)
  BY DEF Safe, Typed, Circulation
<1>3. auth # NoAuth /\ auth.status = "ACTIVE" /\ auth.by = e /\ auth.lease = lease
  BY <1>1, <1>2 DEF HolderWorksAlone, Holds
<1>4. lease # 0
  BY <1>2, <1>3 DEF Known, Line, Rec
<1>5. /\ tree'.in \subseteq tree.in \cup {e}
      /\ tree' = [in |-> tree'.in, out |-> tree'.out] /\ tree'.out \in BOOLEAN
  BY <1>1, <1>2
<1>6. Own(auth)'
  BY <1>1, <1>2, <1>3, <1>5 DEF Own
<1>7. HolderWorksAlone'
  BY <1>1, <1>2 DEF HolderWorksAlone, Holds
<1>8. ASSUME NEW p \in Procs PROVE Fits(proc[p])'
  <2>1. PICK m : m = proc[p]
    OBVIOUS
  <2>2. IdleAt(m) \/ HandoffAcquire(m) \/ ExecuteWait(m)
    BY <1>1, <2>1, AtWork DEF Safe, Phases
  <2>3. CASE IdleAt(m)
    BY <1>1, <2>1, <2>3 DEF Fits, IdleAt
  <2>4. CASE HandoffAcquire(m)
    <3>1. HandoffAcquire(m)'
      BY <1>1, <1>4, <2>4 DEF HandoffAcquire, InHandoff, Pushed
    <3> QED
      BY <1>1, <2>1, <3>1 DEF Fits, HandoffAt
  <2>5. CASE ExecuteWait(m)
    <3>1. ExecuteWait(m)'
      BY <1>1, <2>5 DEF ExecuteWait
    <3> QED
      BY <1>1, <2>1, <3>1 DEF Fits, ExecuteAt
  <2> QED
    BY <2>2, <2>3, <2>4, <2>5
<1> QED
  BY <1>1, <1>5, <1>6, <1>7, <1>8, NobodyMoves

(* An executor stops.                                                      *)
LEMMA StopSafe ==
  ASSUME OneTerminal, Safe, NEW e \in Executors, Stop(e)
  PROVE  Safe'
<1>1. /\ e \in work /\ work' = work \ {e}
      /\ proc' = proc /\ spent' = spent /\ lease' = lease /\ issued' = issued /\ auth' = auth
      /\ branch' = branch /\ tree' = tree
  BY DEF Stop, files, repo
<1>2. /\ tree' = [in |-> tree'.in, out |-> tree'.out] /\ tree'.out \in BOOLEAN
      /\ HolderWorksAlone' /\ Own(auth)'
  BY <1>1 DEF Safe, Typed, Circulation, HolderWorksAlone, Holds, Own
<1>3. ASSUME NEW p \in Procs PROVE Fits(proc[p])'
  <2>1. PICK m : m = proc[p]
    OBVIOUS
  <2>2. IdleAt(m) \/ HandoffAcquire(m) \/ ExecuteWait(m)
    BY <1>1, <2>1, AtWork DEF Safe, Phases
  <2>3. CASE IdleAt(m)
    BY <1>1, <2>1, <2>3 DEF Fits, IdleAt
  <2>4. CASE HandoffAcquire(m)
    <3>1. HandoffAcquire(m)'
      BY <1>1, <2>4 DEF HandoffAcquire, InHandoff, Pushed
    <3> QED
      BY <1>1, <2>1, <3>1 DEF Fits, HandoffAt
  <2>5. CASE ExecuteWait(m)
    <3>1. ExecuteWait(m)'
      BY <1>1, <2>5 DEF ExecuteWait
    <3> QED
      BY <1>1, <2>1, <3>1 DEF Fits, ExecuteAt
  <2> QED
    BY <2>2, <2>3, <2>4, <2>5
<1> QED
  BY <1>1, <1>2, <1>3, NobodyMoves

-----------------------------------------------------------------------------
(***************************************************************************)
(* Every step.                                                              *)
(***************************************************************************)
(* Nothing has happened yet.                                               *)
LEMMA InitSafe ==
  ASSUME Init
  PROVE  Safe
<1>1. Typed
  BY IdleIs, BoundsAssumption DEF Init, Typed
<1>2. Circulation
  BY IdleIs DEF Init, Circulation, Known, Settled, Pushed, Own
<1>3. HolderWorksAlone
  BY DEF Init, HolderWorksAlone
<1>4. Phases
  BY DEF Init, Phases, Fits, IdleAt
<1> QED
  BY <1>1, <1>2, <1>3, <1>4 DEF Safe

(* A command starts.                                                       *)
LEMMA StartSafe ==
  ASSUME OneTerminal, Safe, NEW p \in Procs, Start(p)
  PROVE  Safe'
<1>1. CASE \E e \in Executors, action \in Actions : StartHandoff(p, e, action)
  BY <1>1, StartHandoffSafe
<1>2. CASE \E action \in Actions : RefuseHandoff(p, action)
  BY <1>2, NothingMoves DEF RefuseHandoff, files, repo
<1>3. CASE \E e \in Executors : StartActivate(p, e)
  BY <1>3, StartActivateSafe
<1>4. CASE StartPrepare(p) \/ StartLeaseRelease(p) \/ StartPublish(p) \/ StartExecute(p)
  BY <1>4, StartPrepareSafe, StartLeaseReleaseSafe, StartPublishSafe, StartExecuteSafe
<1> QED
  BY <1>1, <1>2, <1>3, <1>4 DEF Start

(* A command goes on.                                                      *)
LEMMA StepSafe ==
  ASSUME OneTerminal, Safe, NEW p \in Procs, Step(p)
  PROVE  Safe'
  BY InvokeSafe, ChildEndsSafe, RunTestsSafe, RecheckSafe, CommitSafe, PushSafe, AuditSafe,
     AcquireLeaseSafe, ReleaseLeaseSafe, SaveAuthorizationSafe, RestoreAuthorizationSafe,
     UpdateStateSafe, SettleStateSafe, VerifyCheckpointSafe, ShowContextSafe
     DEF Step

(* Whatever happens.                                                       *)
LEMMA NextSafe ==
  ASSUME OneTerminal, Safe, [Next]_vars
  PROVE  Safe'
<1>1. CASE \E p \in Procs : Start(p) \/ Step(p) \/ Fault(p) \/ Crash(p)
  BY <1>1, StartSafe, StepSafe, FaultSafe, CrashSafe
<1>2. CASE \E e \in Executors : Begin(e) \/ Edit(e) \/ Stop(e)
  BY <1>2, BeginSafe, EditSafe, StopSafe
<1>3. CASE Commission
  BY <1>3, NothingMoves DEF Commission, files, repo
<1>4. CASE Sync
  BY <1>4, NothingMoves DEF Sync, repo
<1>5. CASE UNCHANGED vars
  BY <1>5, NothingMoves DEF vars
<1> QED
  BY <1>1, <1>2, <1>3, <1>4, <1>5 DEF Next

-----------------------------------------------------------------------------
(***************************************************************************)
(* The theorems.                                                            *)
(***************************************************************************)
(* The inductive invariant holds.                                          *)
THEOREM Invariance ==
  ASSUME OneTerminal
  PROVE  Spec => []Safe
<1>1. Init => Safe
  BY InitSafe
<1>2. Safe /\ [Next]_vars => Safe'
  BY NextSafe
<1> QED
  BY <1>1, <1>2, PTL DEF Spec

(* HolderWorksAlone: whoever is at work has the one ACTIVE authorization,  *)
(* and the lease it names is the active one.                               *)
THEOREM OneHolder ==
  ASSUME OneTerminal
  PROVE  Spec => []HolderWorksAlone
<1>1. Safe => HolderWorksAlone
  BY DEF Safe
<1> QED
  BY <1>1, Invariance, PTL

(* ConsumedMeansPublished: a CONSUMED authorization was pushed and its     *)
(* lease is gone, which a stable failover relies on.                       *)
THEOREM FailoverBoundary ==
  ASSUME OneTerminal
  PROVE  Spec => []ConsumedMeansPublished
<1>1. Safe => ConsumedMeansPublished
  BY DEF Safe, Circulation, Settled, Pushed, ConsumedMeansPublished, Holds
<1> QED
  BY <1>1, Invariance, PTL

(* What is known of a publication that is about to commit.                 *)
LEMMA Committing ==
  ASSUME Safe, NEW p \in Procs, At(p, "commit")
  PROVE  PublishCommit(proc[p])
<1>1. PICK m : m = proc[p]
  OBVIOUS
<1>2. Fits(m) /\ m.todo # <<>> /\ Head(m.todo).op = "commit"
  BY <1>1 DEF Safe, Phases, At
<1> QED
  BY <1>1, <1>2, Located

(* RunPublishesOwnWork: a RUN commits only what its executor made, or what *)
(* a hot handoff gave to it.                                               *)
THEOREM OwnWork ==
  ASSUME OneTerminal
  PROVE  Spec => RunPublishesOwnWork
<1>1. Safe => \A p \in Procs : Commits(p) /\ proc[p].auth.action = "RUN" =>
                 tree.in \subseteq {proc[p].auth.by} \cup proc[p].auth.hot
  BY Committing DEF Commits, PublishCommit, InPublish, MayCommit, Own
<1> QED
  BY <1>1, Invariance, PTL DEF RunPublishesOwnWork

(* CommitsInScope: where allowed paths are known, nothing outside them is  *)
(* committed, whatever the tests of the publication leave behind.          *)
THEOREM Scope ==
  ASSUME OneTerminal
  PROVE  Spec => CommitsInScope
<1>1. Safe => \A p \in Procs : Commits(p) /\ (proc[p].auto \/ proc[p].auth.hot # {}) => ~tree.out
  BY Committing DEF Commits, PublishCommit, MayCommit, Safe, Typed, IsCommand
<1> QED
  BY <1>1, Invariance, PTL DEF CommitsInScope

(* A rollback ends only with its last operation.                           *)
LEMMA Confirms ==
  ASSUME OneTerminal, [Next]_vars, NEW p \in Procs, At(p, "confirm"), proc[p].cmd = "undo",
         proc'[p] = Idle, spent' = spent, spent \in [crashes : Nat, faults : Nat]
  PROVE  SettleState(p)
<1>1. proc' # proc
  BY IdleIs
<1>2. ~(\E e \in Executors : Begin(e) \/ Edit(e) \/ Stop(e)) /\ ~Commission /\ ~Sync /\ ~UNCHANGED vars
  BY <1>1 DEF Begin, Edit, Stop, Commission, Sync, vars
<1>3. \A q \in Procs : q = p
  BY DEF OneTerminal
<1>4. Start(p) \/ Step(p) \/ Fault(p) \/ Crash(p)
  BY <1>2, <1>3 DEF Next
<1>5. ~Start(p)
  BY <1>1 DEF Start, StartHandoff, RefuseHandoff, StartActivate, StartPrepare, StartLeaseRelease,
              StartPublish, StartExecute
<1>6. ~Fault(p) /\ ~Crash(p)
  BY DEF Fault, Crash
<1>7. Head(proc[p].todo).op = "confirm"
  BY DEF At
<1>8. /\ ~Invoke(p) /\ ~ChildEnds(p) /\ ~RunTests(p) /\ ~Recheck(p) /\ ~Commit(p) /\ ~Push(p) /\ ~Audit(p)
      /\ ~AcquireLease(p) /\ ~ReleaseLease(p) /\ ~SaveAuthorization(p) /\ ~RestoreAuthorization(p)
      /\ ~UpdateState(p) /\ ~VerifyCheckpoint(p) /\ ~ShowContext(p)
  BY <1>7 DEF At, Invoke, ChildEnds, RunTests, Recheck, Commit, Push, Audit, AcquireLease, ReleaseLease,
              SaveAuthorization, RestoreAuthorization, UpdateState, VerifyCheckpoint, ShowContext
<1> QED
  BY <1>4, <1>5, <1>6, <1>8 DEF Step

(* FailedCommandUndone: a command that ends its rollback has put lease and *)
(* authorization back, or the status says RECOVERY_REQUIRED.               *)
THEOREM RolledBack ==
  ASSUME OneTerminal
  PROVE  Spec => FailedCommandUndone
<1>1. ASSUME Safe, [Next]_vars, NEW p \in Procs, At(p, "confirm"), proc[p].cmd = "undo",
             proc'[p] = Idle, spent' = spent
      PROVE  \/ status' = "RECOVERY_REQUIRED"
             \/ lease' = proc[p].lease /\ auth' = proc[p].auth
  <2>1. SettleState(p)
    BY <1>1, Confirms DEF Safe, Typed
  <2>2. PICK m : m = proc[p]
    OBVIOUS
  <2>3. Fits(m) /\ IsCommand(m) /\ m.todo # <<>> /\ Head(m.todo).op = "confirm" /\ m.cmd = "undo"
    BY <1>1, <2>2 DEF Safe, Phases, Typed, At
  <2>4. UndoConfirm(m)
    BY <2>3, Located DEF BlockConfirm, InBlock
  <2>5. CASE m.safe = TRUE
    BY <2>1, <2>2, <2>4, <2>5 DEF SettleState, UndoConfirm
  <2>6. CASE m.safe = FALSE
    BY <2>1, <2>2, <2>6 DEF SettleState
  <2> QED
    BY <2>3, <2>5, <2>6 DEF IsCommand
<1>2. Safe /\ [Next]_vars =>
        \A p \in Procs :
          At(p, "confirm") /\ proc[p].cmd = "undo" /\ proc'[p] = Idle /\ spent' = spent
            => \/ status' = "RECOVERY_REQUIRED"
               \/ lease' = proc[p].lease /\ auth' = proc[p].auth
  BY <1>1
<1> QED
  BY <1>2, Invariance, PTL DEF Spec, FailedCommandUndone
=============================================================================
