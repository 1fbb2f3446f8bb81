------------------------------ MODULE PaidBrain ------------------------------
(***************************************************************************)
(* Spending money on an external Brain exactly once: the commands           *)
(* paid-grant-create, paid-proof-preflight and paid-proof-execute of        *)
(* src/aios_bridge/legacy_bridge.py, over the grant store                   *)
(* (runtime_paid_api_grant.py), the escape from subscription to paid        *)
(* capacity (paid_api_brain_escape.py, paid_api_real_escape.py), the        *)
(* gateway, the usage ledger and the proof that is left behind.             *)
(*                                                                          *)
(* Terminals run commands; each may be killed between two durable steps and *)
(* each durable step may fail.  A command whose checks refuse it before it  *)
(* has anything to report takes no step.                                    *)
(*                                                                          *)
(* Abstracted: a grant is the revision of the TASK artifact it names and    *)
(* its expiry; its random id is a counter.  Reads of the grant store do not *)
(* take its lock; one that meets a move half way refuses, as a fault does.  *)
(* The checks of the local repository read constants here; they can only    *)
(* refuse.                                                                  *)
(***************************************************************************)
EXTENDS Dispatch, ModelGateway

CONSTANTS
  Terminals,        \* processes that run commands
  Nobody,           \* the mutation guard of the task is free
  ObservedStates,   \* capacity states that get recorded
  GrantTTL,         \* --ttl-seconds
  CapacityTTL,      \* ttl of the capacity observations
  MaxGrants,        \* bound: grants created
  MaxTime,          \* bound: the clock
  MaxEdits,         \* bound: commits of the TASK artifact and of the proof lock
  Tokens,           \* revision of the TASK artifact -> exact tokens of the whole input
  MaxInputTokens,   \* max_input_tokens of the grants
  MaxObservations,  \* bound: capacity observations recorded
  MaxCrashes,       \* bound: commands that are killed
  MaxFaults         \* bound: durable steps that fail

ASSUME NobodyAssumption == Nobody \notin Terminals /\ ObservedStates \subseteq CapacityStates
ASSUME TokensAssumption == MaxInputTokens \in Nat \ {0} /\ Tokens \in [1..MaxEdits -> Nat]
ASSUME TTLAssumption    == GrantTTL \in Nat \ {0} /\ CapacityTTL \in Nat \ {0}
ASSUME BoundAssumption  == {MaxGrants, MaxTime, MaxEdits, MaxObservations, MaxCrashes, MaxFaults} \subseteq Nat

VARIABLES
  grant,     \* grant id -> what the Human authorized
  active,    \* grant id -> its ACTIVE file: none, torn or whole
  consumed,  \* grant id -> its CONSUMED file
  guard,     \* who holds the task's mutation guard
  control,   \* revisions of TASK artifact and proof lock on the control branch
  tracking,  \* those that the local tracking branch has
  assets,    \* the lock revision that installed packages and tokenizer satisfy
  capacity,  \* Brain -> its capacity record
  clock,     \* epoch seconds
  key,       \* the credential is in the environment
  proc,      \* terminal -> its command
  calls,     \* history: grant id -> terminals that sent its request, in order
  ledger,    \* grant id -> statuses in its usage ledger
  proofs,    \* published proofs, with what they are about
  reports,   \* history: what failed commands told the Human
  spent      \* bounds used up: observations, crashes, faults

vars   == <<grant, active, consumed, guard, control, tracking, assets, capacity, clock, key, proc,
            calls, ledger, proofs, reports, spent>>
store  == <<grant, active, consumed, guard>>
world  == <<control, tracking, assets, capacity, clock, key>>
record == <<calls, ledger, proofs, reports>>

GrantIds == 1..MaxGrants

Subscription == 1
Paid         == 2
Brains       == {Subscription, Paid}

\* PaidApiGrant: max_calls is one, operation and Brain are those of Candidates.
GrantRecords == [blob : 0..MaxEdits, expires : 0..(MaxTime + GrantTTL)]

Revisions == [task : 1..MaxEdits, lock : 1..MaxEdits]

\* now: the clock as the command read it, once; lock: the proof lock it works
\* under; saw: the capacity records whose fingerprints the Human named;
\* tokens and ledgered: of the answer that is being proved.
Idle == [pc |-> "idle", g |-> 0, now |-> 0, lock |-> 0, saw |-> <<>>, tokens |-> "absent", ledgered |-> FALSE]

At(p, pc) == proc[p].pc = pc

Goto(p, pc) == proc' = [proc EXCEPT ![p].pc = pc]

Quit(p) == proc' = [proc EXCEPT ![p] = Idle]

Init ==
  /\ grant = [g \in GrantIds |-> [blob |-> 0, expires |-> 0]]
  /\ active = [g \in GrantIds |-> "none"] /\ consumed = active /\ guard = Nobody
  /\ control = [task |-> 1, lock |-> 1] /\ tracking = control /\ assets = 1
  /\ capacity = [b \in Brains |-> NoRecord] /\ clock = 0 /\ key = TRUE
  /\ proc = [p \in Terminals |-> Idle]
  /\ calls = [g \in GrantIds |-> {}] /\ ledger = [g \in GrantIds |-> {}]
  /\ proofs = {} /\ reports = {}
  /\ spent = [observations |-> 0, crashes |-> 0, faults |-> 0]

Faulty == spent.faults < MaxFaults /\ spent' = [spent EXCEPT !.faults = @ + 1]
Fine   == UNCHANGED spent

-----------------------------------------------------------------------------
(* The grant store.                                                        *)

\* _inspect_key: both files, or a file that cannot be read, is an error.
Readable(g) == active[g] # "torn" /\ (active[g] = "none" \/ consumed[g] = "none")

Unexpired(g, now) == now < grant[g].expires

\* require_active
IsActive(g, now) == Readable(g) /\ active[g] = "whole" /\ Unexpired(g, now)

IsConsumed(g) == Readable(g) /\ consumed[g] = "whole"

\* cmd_paid_grant_create fetches the control branch and names the artifact
\* it finds there.
StartGrantCreate(p) ==
  LET g == Cardinality({h \in GrantIds : grant[h].blob # 0}) + 1
  IN /\ At(p, "idle") /\ g \in GrantIds
     /\ grant' = [grant EXCEPT ![g] = [blob |-> control.task, expires |-> clock + GrantTTL]]
     /\ tracking' = control
     /\ proc' = [proc EXCEPT ![p] = [Idle EXCEPT !.pc = "activate", !.g = g, !.now = clock]]
     /\ Fine
     /\ UNCHANGED <<active, consumed, guard, control, assets, capacity, clock, key, record>>

\* activate: under the guard, create the file exclusively ...
Activate(p) ==
  LET g == proc[p].g
  IN /\ At(p, "activate") /\ guard = Nobody
     /\ active[g] = "none" /\ consumed[g] = "none" /\ Unexpired(g, proc[p].now)
     /\ active' = [active EXCEPT ![g] = "torn"] /\ guard' = p
     /\ Goto(p, "write") /\ Fine
     /\ UNCHANGED <<grant, consumed, world, record>>

\* ... then write it, read it back, and remove it again if that failed.
WriteGrant(p) ==
  LET g == proc[p].g
  IN /\ At(p, "write")
     /\ \/ active' = [active EXCEPT ![g] = "whole"] /\ Fine
        \/ Faulty /\ \E left \in {"none", "torn"} : active' = [active EXCEPT ![g] = left]
     /\ guard' = Nobody /\ Quit(p)
     /\ UNCHANGED <<grant, consumed, world, record>>

\* Mutant: a grant that is consumed already satisfies the caller.
MayConsumeAgain(g, now) == Readable(g) /\ (active[g] = "whole" \/ consumed[g] = "whole") /\ Unexpired(g, now)

\* consume's conditions, examined under the guard.
MayConsume(g, now) == IsActive(g, now) /\ consumed[g] = "none"

-----------------------------------------------------------------------------
(* paid-proof-execute.                                                     *)

\* Mutant: whatever went wrong, nothing is said to have been sent.
TellNoCall(p, blind) ==
  reports' = reports \cup {[g |-> proc[p].g, says |-> "NO_PROVIDER_CALL",
                            called |-> p \in calls[proc[p].g], blind |-> blind]}

\* What the Human is told when the escape raised: it depends on whether the
\* consumed grant can be read, not on what this terminal did.
Tell(p, blind) ==
  reports' = reports \cup
    {[g      |-> proc[p].g,
      says   |-> IF IsConsumed(proc[p].g) /\ ~blind THEN "AFTER_CONSUME" ELSE "NO_PROVIDER_CALL",
      called |-> p \in calls[proc[p].g],
      blind  |-> blind]}

\* The escape raised; with the second fault even the grant cannot be read.
EscapeFailed(p) ==
  /\ Quit(p)
  /\ \/ Tell(p, FALSE) /\ Fine
     \/ Tell(p, TRUE)  /\ Faulty

\* validate_paid_api_grant_binding and validate_paid_api_grant_budget, with
\* the request that execute_paid_api_real_escape makes of the artifact.
Bound(g)      == tracking.task = grant[g].blob
Counted(g)    == Tokens[grant[g].blob]
FitsBudget(g) == Counted(g) <= MaxInputTokens

\* _load_validated_assets and the package versions, against the proof lock.
AssetsLocked == assets = tracking.lock

\* R0 to R4 of cmd_paid_proof_execute on the commit that R1 resolves;
\* paid-proof-preflight makes the same checks and keeps nothing.
PreflightPasses(g) == IsActive(g, clock) /\ Bound(g) /\ AssetsLocked /\ key

\* The evidence the command goes on with.  The clock is read here and nowhere
\* else; the token counter is loaded and holds on to the locked assets.
Evidence(g) == [Idle EXCEPT !.pc = "gates", !.g = g, !.now = clock, !.lock = tracking.lock, !.saw = capacity]

StartProof(p) ==
  \E g \in GrantIds :
    /\ At(p, "idle") /\ PreflightPasses(g)
    /\ proc' = [proc EXCEPT ![p] = Evidence(g)]
    /\ Fine /\ UNCHANGED <<store, world, record>>

\* _validate_capacity_record, both times.
CapacityProven(b, saw, now, states) ==
  /\ capacity[b] = saw[b] /\ Fresh(saw[b], now) /\ ~FromFuture(saw[b], now)
  /\ saw[b].state \in states

Candidates(saw) ==
  {BrainCandidate(Subscription, {"PLAN"}, 0, saw[Subscription].state, "SUBSCRIPTION", 0),
   BrainCandidate(Paid, {"PLAN"}, 0, saw[Paid].state, "PAID_API", 1)}

\* _build_base_dispatch: nobody may be selected while paying is not allowed.
BaseDispatchWaits(saw) ==
  LET result == DispatchBrain(BrainDispatchRequest("PLAN", Candidates(saw), 1, FALSE))
  IN /\ result.status = "WAIT"
     /\ \A e \in result.evaluations :
          IF e.candidate.id = Paid THEN "PAID_API_NOT_ALLOWED" \in e.reasons ELSE e.compatible /\ ~e.runnable

\* Mutant: the capacity gate of the subscription is left out.
GatesPassUnproven(m) ==
  /\ IsActive(m.g, m.now)
  /\ CapacityProven(Paid, m.saw, m.now, {"AVAILABLE"})

\* R2 again, then R5 and R6 of execute_paid_api_real_escape.
GatesPass(m) ==
  /\ IsActive(m.g, m.now)
  /\ FitsBudget(m.g)
  /\ CapacityProven(Subscription, m.saw, m.now, {"QUOTA_EXHAUSTED", "UNAVAILABLE"})
  /\ CapacityProven(Paid, m.saw, m.now, {"AVAILABLE"})
  /\ BaseDispatchWaits(m.saw)

Gates(p) ==
  /\ At(p, "gates")
  /\ IF GatesPass(proc[p]) THEN Goto(p, "escape") ELSE Quit(p)
  /\ Fine /\ UNCHANGED <<store, world, record>>

\* execute_paid_api_brain_escape up to the choice of the paid Brain: the
\* request is bound to the grant, its exact token count fits, and dispatch
\* with paying allowed takes the paid candidate.
PaidSelected(m) ==
  LET result == DispatchBrain(BrainDispatchRequest("PLAN", Candidates(m.saw), 1, TRUE))
  IN result.status = "SELECTED" /\ result.selected = {Paid}

Escape(p) ==
  /\ At(p, "escape")
  /\ IF IsActive(proc[p].g, proc[p].now) /\ PaidSelected(proc[p])
     THEN Goto(p, "consume") /\ Fine /\ UNCHANGED reports
     ELSE EscapeFailed(p)
  /\ UNCHANGED <<store, world, calls, ledger, proofs>>

\* consume takes the guard and looks ...
Consume(p) ==
  /\ At(p, "consume") /\ guard = Nobody
  /\ IF MayConsume(proc[p].g, proc[p].now)
     THEN guard' = p /\ Goto(p, "replace") /\ Fine /\ UNCHANGED reports
     ELSE EscapeFailed(p) /\ UNCHANGED guard
  /\ UNCHANGED <<grant, active, consumed, world, calls, ledger, proofs>>

Move(g) ==
  /\ active' = [active EXCEPT ![g] = "none"]
  /\ consumed' = [consumed EXCEPT ![g] = "whole"]

\* ... and moves the file; the move may fail, and so may the read-back after
\* it, which leaves the grant consumed.
Replace(p) ==
  LET g == proc[p].g
  IN /\ At(p, "replace") /\ guard' = Nobody
     /\ \/ Move(g) /\ Goto(p, "send") /\ Fine /\ UNCHANGED reports
        \/ /\ Faulty /\ Quit(p)
           /\ \/ Move(g) /\ reports' = reports \cup {[g |-> g, says |-> "AFTER_CONSUME", called |-> FALSE, blind |-> FALSE]}
              \/ Tell(p, FALSE) /\ UNCHANGED <<active, consumed>>
     /\ UNCHANGED <<grant, world, calls, ledger, proofs>>

\* The provider is only now constructed, with the credential of the moment.
Send(p) ==
  /\ At(p, "send")
  /\ IF key
     THEN /\ calls' = [calls EXCEPT ![proc[p].g] = @ \cup {p}]
          /\ Goto(p, "answer") /\ Fine /\ UNCHANGED reports
     ELSE EscapeFailed(p) /\ UNCHANGED calls
  /\ UNCHANGED <<store, world, ledger, proofs>>

Answers == {a \in [http : HttpCodes, base : {"none", "rate"}, body : BodyShapes, tokens : TokenUses,
                   sections : BOOLEAN] : WellFormed(a)}

\* What the command learns of an answer, and its line in the usage ledger.
Outcomes == {[status |-> GatewayStatus(a), tokens |-> a.tokens] : a \in Answers}

\* The answer arrives, or reading it raises; the ledger's line is best effort.
Receive(p) ==
  /\ At(p, "answer")
  /\ \/ \E o \in Outcomes, written \in BOOLEAN :
          /\ IF written THEN Fine ELSE Faulty
          /\ ledger' = [ledger EXCEPT ![proc[p].g] = IF written THEN @ \cup {o} ELSE @]
          /\ proc' = [proc EXCEPT ![p] = IF o.status # "SUCCESS" THEN Idle
                        ELSE [@ EXCEPT !.pc = "prove", !.tokens = o.tokens, !.ledgered = written]]
          /\ UNCHANGED reports
     \/ EscapeFailed(p) /\ UNCHANGED ledger
  /\ UNCHANGED <<store, world, calls, proofs>>

\* build_paid_api_operational_proof: the grant is terminal ...
GrantTerminal(g) == IsConsumed(g) /\ active[g] = "none"

\* ... and what the provider reports is what was counted before the call, in
\* the answer and in a durable line of the ledger.
UsageAgrees(m) == m.tokens = "as_counted" /\ m.ledgered

Provable(m) == GrantTerminal(m.g) /\ UsageAgrees(m)

Prove(p) ==
  /\ At(p, "prove")
  /\ IF Provable(proc[p]) THEN Goto(p, "persist") ELSE Quit(p)
  /\ Fine /\ UNCHANGED <<store, world, record>>

\* PaidApiRealEscapeProofReceipt: what the published proof is about.
Proof(p) == [g |-> proc[p].g, by |-> p, blob |-> grant[proc[p].g].blob,
             lock |-> proc[p].lock, saw |-> proc[p].saw]

\* persist_paid_api_real_escape_artifacts: a staged directory is renamed; a
\* failure before the rename leaves nothing, one after it leaves the proof.
Persist(p) ==
  LET fresh == \A q \in proofs : q.g # proc[p].g
  IN /\ At(p, "persist") /\ Quit(p)
     /\ \/ fresh /\ proofs' = proofs \cup {Proof(p)} /\ (Fine \/ Faulty)
        \/ ~fresh /\ UNCHANGED proofs /\ Fine
        \/ UNCHANGED proofs /\ Faulty
     /\ UNCHANGED <<store, world, calls, ledger, reports>>

-----------------------------------------------------------------------------
(* Everything else.                                                        *)

\* Mutant: the guard outlives the process that held it.
CrashHoldingGuard(p) ==
  /\ ~At(p, "idle") /\ spent.crashes < MaxCrashes
  /\ spent' = [spent EXCEPT !.crashes = @ + 1]
  /\ Quit(p) /\ UNCHANGED <<store, world, record>>

\* The kernel releases a killed process's file lock.
Crash(p) ==
  /\ ~At(p, "idle") /\ spent.crashes < MaxCrashes
  /\ spent' = [spent EXCEPT !.crashes = @ + 1]
  /\ guard' = IF guard = p THEN Nobody ELSE guard
  /\ Quit(p) /\ UNCHANGED <<grant, active, consumed, world, record>>

\* cmd_capacity_set: the record is replaced in one move.
CapacitySet ==
  \E b \in Brains, s \in ObservedStates :
    /\ spent.observations < MaxObservations
    /\ spent' = [spent EXCEPT !.observations = @ + 1]
    /\ capacity' = [capacity EXCEPT ![b] = [at |-> clock, state |-> s, ttl |-> CapacityTTL]]
    /\ UNCHANGED <<store, record, control, tracking, assets, clock, key, proc>>

\* The control branch moves, other commands fetch it, the locked packages
\* and assets are installed, time passes, the credential goes.
Environment ==
  /\ \/ /\ \E file \in {"task", "lock"} :
             control.task + control.lock <= MaxEdits /\ control' = [control EXCEPT ![file] = @ + 1]
        /\ UNCHANGED <<tracking, assets, clock, key>>
     \/ tracking # control /\ tracking' = control /\ UNCHANGED <<control, assets, clock, key>>
     \/ assets # tracking.lock /\ assets' = tracking.lock /\ UNCHANGED <<control, tracking, clock, key>>
     \/ clock < MaxTime /\ clock' = clock + 1 /\ UNCHANGED <<control, tracking, assets, key>>
     \/ key /\ key' = FALSE /\ UNCHANGED <<control, tracking, assets, clock>>
  /\ Fine /\ UNCHANGED <<store, capacity, proc, record>>

Work(p) ==
  Activate(p) \/ WriteGrant(p) \/ Gates(p) \/ Escape(p) \/ Consume(p) \/ Replace(p)
  \/ Send(p) \/ Receive(p) \/ Prove(p) \/ Persist(p)

Next ==
  \/ \E p \in Terminals : StartGrantCreate(p) \/ StartProof(p) \/ Work(p) \/ Crash(p)
  \/ CapacitySet \/ Environment

\* A command that was started runs on: nothing but a kill stops a terminal,
\* the wait for the provider is bounded by its timeout, and whoever holds the
\* guard has no more to wait for.
Spec == Init /\ [][Next]_vars /\ \A p \in Terminals : WF_vars(Work(p))

-----------------------------------------------------------------------------
(* Properties.                                                             *)

TypeOK ==
  /\ grant \in [GrantIds -> GrantRecords]
  /\ active \in [GrantIds -> {"none", "torn", "whole"}] /\ consumed \in [GrantIds -> {"none", "whole"}]
  /\ guard \in Terminals \cup {Nobody}
  /\ {control, tracking} \subseteq Revisions /\ assets \in 1..MaxEdits /\ clock \in 0..MaxTime /\ key \in BOOLEAN
  /\ capacity \in [Brains -> {NoRecord} \cup CapacityRecords(0..MaxTime, {CapacityTTL})]
  /\ calls \in [GrantIds -> SUBSET Terminals] /\ ledger \in [GrantIds -> SUBSET Outcomes]
  /\ \A p \in Terminals : proc[p].g \in {0} \cup GrantIds

\* One grant pays for at most one request, whatever the terminals repeat and
\* wherever they are killed: when a request has gone out, the grant is
\* terminally consumed and nobody else is about to send
\* (AtomicPaidApiGrantStore.consume before gateway.invoke).
SpendOnce ==
  \A g \in GrantIds :
    LET senders == {p \in Terminals : At(p, "send") /\ proc[p].g = g}
    IN /\ Cardinality(calls[g]) + Cardinality(senders) <= 1
       /\ calls[g] \cup senders # {} => consumed[g] = "whole" /\ active[g] = "none"

\* A published proof is about a request that was really sent, once, by the
\* command that proves it, for the artifact the Human authorized, with its
\* usage alone in the ledger and as counted before, while the subscription was out of capacity and the
\* paid Brain was not, both freshly observed before the grant expired.
ProofIsEvidence ==
  \A q \in proofs :
    /\ calls[q.g] = {q.by} /\ consumed[q.g] = "whole"
    /\ ledger[q.g] = {[status |-> "SUCCESS", tokens |-> "as_counted"]}
    /\ q.blob = grant[q.g].blob /\ Tokens[q.blob] <= MaxInputTokens
    /\ q.saw[Subscription].state \in {"QUOTA_EXHAUSTED", "UNAVAILABLE"}
    /\ q.saw[Paid].state = "AVAILABLE"
    /\ \A b \in Brains : q.saw[b].at < grant[q.g].expires

\* "NO_PROVIDER_CALL" is only said by a command that sent nothing, unless the
\* consumed grant could not even be read (the except clause around
\* execute_paid_api_brain_escape).
NoCallReportIsTrue ==
  \A r \in reports : r.says = "NO_PROVIDER_CALL" /\ ~r.blind => ~r.called

\* Every command comes to an end, whoever is killed while it holds the
\* task's mutation guard.
EveryCommandEnds == \A p \in Terminals : ~At(p, "idle") ~> At(p, "idle")
=============================================================================
