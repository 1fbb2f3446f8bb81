# Verification of the agent runtime and its bridge

TLA+ models of this repository's core logic: the durable stores, the run state
machine and the agent loop that crashes, resumes, retries and is cancelled on top of
them; the bridge's commands that decide who may change, publish, certify and merge
a task; the one paid call of an external Brain; the pure validators, parsers and
choices all of these rest on; and the product catalog that several terminals fill.
`PROJECT.json` maps every definition to the source lines it models.

## The system

| part | state | operations | talks to |
|---|---|---|---|
| `core/idempotency_store_v2.py` | one JSONL file per store, a lock file | claim, complete, fail, get, compact, prune, repair | every process that executes tools |
| `core/checkpoint.py`, `checkpoint_contract.py` | one JSONL file of the events of all runs, a lock file | log_event and its wrappers, summaries | the loop, the executor, cancellation, the image pipeline |
| `agent/loop.py` | locals of a coroutine: budget used, call ids seen, messages | run, resume, the hard timeout | LLM provider, tool executor, checkpoints |
| `core/tool_executor.py`, `core/retry.py` | none of their own | execute, attempts, retries, settlement | both files, the tools |
| `core/cancellation.py` | tokens in memory | cancel, get_token | checkpoints first, then the token |
| `core/run_budget.py`, `replay_engine.py`, `recovery_diagnostics.py` | none | decide, reconstruct usage, reconstruct session, classify | the checkpoint file, read-only |
| `agent_controller.py` | the queue of `tasks.txt` | run, run_autonomous_loop | the loop |
| `aios_bridge/legacy_bridge.py`, `runtime_lease.py`, `blocked_recovery.py`, `continuity/` | per task: the lease file, the authorization, the status, the task branch and its worktree | handoff, sync, execute, publish, hot handoff, lease-release | the Human, executors, git, the control branch |
| `legacy_bridge.py` (certify-reviewed, merge-reviewed), `slim_runtime.py`, `certification_job.py`, `review_merge.py` | job.json, remote-tracking refs, the worktree, the control branch's TASK, REVIEW and roadmap | certify-reviewed (T2), merge-reviewed (push to main) | git remote, reviewer, author, worker |
| `paid_api_*.py`, `runtime_paid_api_grant.py`, `external_brain/` | grant files, mutation guard, capacity records, usage ledger, proofs | paid-grant-create, preflight, execute | the paid provider, the Human |
| `continuity/`, `executor_*.py`, `runtime_dispatch.py` | documents, capacity records | validate, launch plan, failover, dispatch, diagnostics | executors, Brains |
| `capability_batch.py`, `integration_lane.py`, `roadmap_governance.py`, `task_authoring.py`, `review_pipeline.py`, `fix_review.py`, `validation.py`, `worker_*.py` | none of their own; their callers keep the lane, registry and records | parse, validate, transition, decide | the bridge's commands |
| `product_intelligence/` | evidence files, the SQLite catalog | resolve, group, approve, register | SQLite, the Human |
| the rest | | scraping, scoring, static analysis, Drive, Gemini | web pages and services |

What is hard here: two processes share both files without any server; a process
may die between any two durable operations; an append may stop half way; a claim
expires by the wall clock while its tool may still be running; cancellation is
durable first and visible in memory later; a resumed run rebuilds its budget and
its pending calls from events. A bridge command writes the lease, the
authorization, the status and the branch one after the other and may stop between
any two, and what one command checked is what the next one builds on.
certify-reviewed and merge-reviewed read refs, review, TASK and job at different
moments while worker, reviewer, author and other tasks move all of them. A paid
request may be sent once although its command may be repeated in two terminals and
killed anywhere. The catalog is decided on from an old view and written later.

## Modules

| module | models | how it corresponds |
|---|---|---|
| `IdempotencyContract` | `idempotency_contract.py` | the promise: one record per key, atomic claim / settle / prune |
| `IdempotencyStore` | `JsonlIdempotencyStore` | `file` is the sequence of lines, `tail` how the last line ends, `lock` the lock file; every critical section is a "load and decide" step and a "write" step, so crashes fall between them. `Latest` is `_load`, `Corrupt` is where it raises |
| `IdempotencyStoreProofs` | | theorems about `IdempotencyStore` |
| `CheckpointLogProofs`, `AgentRunProofs`, `TaskAuthorityProofs`, `PaidBrainProofs`, `TaskLaneProofs`, `IntegrationLaneProofs`, `ProductCatalogProofs` | | theorems about the module of that name; `PaidBrainProofs` also about `Dispatch`, `TaskLaneProofs` about `ReviewLane` |
| `RunContract` | `checkpoint_contract.py` | `Transition` is `validate_state_transition`, `ValidSequence` is `validate_event_sequence` |
| `RunLog` | the promise of `CheckpointManager` | one history per run that only grows by accepted events |
| `CheckpointLog` | `CheckpointManager` | as `IdempotencyStore`; the scan skips unparsable lines, which the idempotency store does not |
| `AgentRun` | loop, executor, retries, budget, cancellation, recovery | the checkpoint file as what the replay makes of it (`st`, `pend`, `iters`, `logged`), the idempotency records as `rec`, a coroutine as a program counter and locals; one step per durable operation or await |
| `TaskAuthority` | the bridge's commands over one task | a command is a Start action, which reads and decides, and the list `todo` of durable operations it then performs one by one; `OnFailure` is what its except branches do, `Undo` their rollback. A lease is its unique id, a commit its position, an edit the executor that made it |
| `Dispatch` | `continuity/dispatch.py`, `runtime_dispatch.py` | candidates, freshness of capacity, the choice; pure |
| `ModelGateway` | `external_brain/` gateway, provider, transport | one call: what comes back and what the gateway makes of it; pure |
| `PaidBrain` | the paid commands | a terminal is a program counter and what it read; grant files, guard, ledger and proofs are the shared state; one step per durable operation |
| `Continuity` | the documents of `continuity/` and the launch plan | a document is a record, its fingerprint the record itself, a validator a predicate |
| `CodexDiagnostics` | the reading of executor output | a stream is a sequence of lines with sizes; at most `Budget` bytes are scanned |
| `BrainContext` | the context bundle and token ranges | candidates, precedence, the greedy fill; measurements and totals |
| `ReviewLane` | markers, validation plans, findings, FIX impact, failure classes, worker transactions, jobs, review header, merge gate | pure operators; a raised error is `Refused`; the header has all eight roadmap keys, the gate all its reasons in their order |
| `Roadmap` | roadmap governance and the authoring preflight | pure operators on roadmaps, bindings and completion records |
| `IntegrationLane` | capability batch and its lane | the functions are pure, the module is their caller: manifest, lane, held bindings, branches and main; the evidence shown to the lane may name another branch, artifact or scope than the binding, and an evidence of the lane's head that is out of date |
| `TaskLane` | certify-reviewed and merge-reviewed | one action per ref that is read, for the worktree, the job and every write; what is still read in one step is listed under "The steps of `TaskLane`"; the environment moves refs, reviews, TASK text and roadmap |
| `ProductEntities` | resolution, grouping, approvals, catalog, codec | pure operators on evidence packs; what a breadth-first search reaches is the least set no edge leaves, and the stored document refers to families and members by position |
| `ProductCatalog` | the SQLite store and the commands | a command reads, waits for a person, registers in one transaction |
| `MC...` | | instances for TLC: model values, symmetry. `MCAlgorithms` and `MCGovernance` run each pure operator on every input of a small set: one behaviour is one input and its answer |

`AgentRun` uses `claim`, `complete`, `fail` and `log_event` as atomic steps: that
they are is what `DecisionsStillDue`, `ImplementsContract` and `ImplementsRunLog`
show of the two stores.

## Runs

| run | shows |
|---|---|
| `idempotency_store` | two processes, two keys, crashes and torn appends: decisions are atomic, claims exclude each other within the TTL, acknowledged completions survive, only the claimer settles, repair() always suffices, nothing COMPLETED is reopened, and the store implements the contract |
| `checkpoint_log` | two processes, two runs, torn appends, a clock that goes back: readers accept what was written, nothing acknowledged is silently missing, and the file implements `RunLog` |
| `agent_solo` | one process at a time with crash, resume, retries, timeout, cancellation, a fault and an expired claim: budget, completeness, the reason of a failure, termination |
| `agent_contended` | two processes on one run: at most one effect, a return means the run ended, an ended run stays quiet |
| `task_authority` | one task, two executors, reviewer and watcher, a crash and a failing operation anywhere: CONSUMED means pushed, whoever is at work holds lease and authorization, a RUN commits only its executor's (or handed over) edits, known scopes are kept even if the tests leave files behind, and a failed command undoes itself or says RECOVERY_REQUIRED |
| `paid_brain` | two terminals, one grant, a kill and a failing step anywhere: one grant pays for at most one request, a proof is about the request that was really sent, "NO_PROVIDER_CALL" is true, and every command ends |
| `algorithms` | documents of two attempts never pass the validators together and an accepted launch plan passes all of them; failover keeps the work; diagnostics of cut output claim nothing they cannot know; the Brain's context does not depend on the order of candidates; a paid executor is the last resort |
| `governance` | milestones open in order and on whole evidence of the current roadmap; no proof survives a FIX that touches it and no finding closes without its steps; a review header says one thing; every failure, test command and worker transaction has one owner |
| `integration_lane` | a batch of two tasks integrated while its author revises the manifest and main moves: the lane is always a prefix of the manifest, and is ready only when whole |
| `task_lane` | one certifying and one merging terminal, while worker, reviewer, author, roadmap and main move: what reaches main is the approved head on the approved main with its certification passed; an interrupted certification never runs a second T2 |
| `certified_untested` | *violation*: a publication between the certification preflight and the capture of the slim identity leaves a PASS job for a head on which T2 never ran |
| `product_catalog` | two terminals decide from old views while evidence arrives: the catalog stays readable and coherent, and nothing registered is forgotten |

Configurations kept as counterexamples. Each checks one statement that the
repository makes and the code does not keep; TLC finds the trace in seconds
(`tlc -config X.cfg M`).

| configuration | module | shows |
|---|---|---|
| `IdempotencyBareTail` | `MCIdempotencyStore` | an append cut just before its newline is loaded as valid, the next append joins it, repair() drops both and a COMPLETED record is open again |
| `CheckpointTornTail` | `MCCheckpointLog` | after a torn append the next acknowledged event is unreadable |
| `AgentBudget` | `MCAgentRun` | two loops together exceed max_tool_calls |
| `AgentCancel` | `MCAgentRun` | a cancellation between two events escapes run() as CheckpointStateError |
| `TaskDirtyFix` | `MCTaskAuthority` | a FIX handoff on the task branch takes the lease with a dirty worktree |
| `TaskRollback` | `MCTaskAuthority` | a second execute rolls back a lease under which the executor had run |
| `CodexFinal` | `MCAlgorithms` | when output was cut, the message reported as the final one need not be the final one |
| `FencedMarker` | `MCGovernance` | the three scanners of fenced text differ: a marker inside a fence for one is top-level for another |

Bounds. Two workers are enough for every race of a critical section, since it has
one load and one write; two keys (runs) so that a line of another key comes in
between; three to five lines so that a claim, its settlement and a second claim
fit, with a torn line among them. In `AgentRun` a batch of two calls has a first and a last,
two iterations let a result be followed by another request, two attempts let a
retry happen; crashes, resumes, cancellations, faults and expiries are bounded by
one each, which already combines all of them in one behaviour. c1 and c2 have
the same idempotency key (same tool, same arguments), c4 does not validate.
`TaskAuthority` has one command at a time, two executors, two leases (a handoff
and its successor, or a hot handoff) and two revisions of the control branch (the
task and one review or new text), one crash and one fault. Two faults, or three
leases as far as the search went (16 million states), showed nothing more, except
for the dirty FIX, whose run has three leases.

The type invariants of the modules hold on these instances as well; the
configurations state them only where a proof or another property uses them.

`PaidBrain`: two terminals race for one grant; one crash and one fault fall between
any two steps; two revisions of TASK and of the lock let a check go stale; the clock
passes the expiry of grant and capacity once. `TaskLane`: four commits (main, the
candidate, and two more by worker or another task) and three control commits (a
review, and a revision or a second review); with three control commits a review can
be withdrawn after it was used. `IntegrationLane`: two tasks, three manifest
versions, so that a member is added and another replaced, and evidence that is wrong
in one respect at a time. Header inputs: a complete header with two more lines
inserted anywhere (a repeated key, an alias, a roadmap key, prose, a fence), and one
with a whole roadmap audit or an audit short of one line, with one more line.
`ProductCatalog`: four
observations in five worlds: two families, chains whose ends differ, a family that
grows. The inputs of `MCAlgorithms`: two attempts that differ in one respect, every
subset of documents or plan inputs taken from the second; streams of up to four
lines against a budget of four bytes; up to four context candidates; up to three
measured outputs; three executors with every capacity state.

The steps of `TaskLane`. The commands freeze the control commit and then read main,
task, worktree, ancestry and job one after the other; each is a step, with the
environment and the other terminal in between. Read in one step are: the worktree's
head and its cleanliness (`CertReadWorktree`; the branch name is a constant, the clone
stays on the task branch), merge-base and rev-list with the gate that uses them
(`CertGate`, `MergeGate`; the latter also with the job), the refs of `_cert_identity`,
and the comparison and the saved job at the end of a certification (`CertFinish`). The
ancestry is that of the refs at that step while the head and main compared with the
review are those read before, as in the code. A command that reads a main or a head
other than the reviewed one fails at that step; the code fails later, at the gate, and
changes nothing in between. No verdict of `task_lane` approves with an audit other than PASS, and
no two of its TASK texts are bound to different milestones, capabilities or
requirements; `MergesAreCertified` holds for every set of texts and verdicts.

What the bounds leave to the theorems. `agent_contended` has `MaxFaults = 0`: a
settlement that fails while two processes contend is in `EffectsAreCovered`. In
`governance` the registry's six moves do not reach a second closure after REOPENED:
that is `ClosedIsVerified`.

Environment of `TaskAuthority`. `--confirm-stopped` and `--confirm-quiescent` are
believed: the Human has seen that no executor works. Executors do not commit
themselves, as `docs/AIOS_CODEX_EXECUTOR_WINDOWS.md` asks. The codex child does
not outlive an execute that is killed (`Orphans = FALSE`), and the workspace stays
on the task branch. In the rollback, the restored status PENDING_APPROVAL is left
out: `load_json` gives `{}` when there was no state.

Fairness. `AgentRun` assumes that a coroutine that can take a step takes one
(the event loop) and that `asyncio.wait_for` fires while the loop waits. Nothing
is assumed of the LLM, the tools, other processes or a resume after a crash.
`PaidBrain` assumes that a command that was started goes on until it ends or is
killed: the call of the provider has a timeout, and the operating system frees the
guard's file lock with its process. `TaskAuthority`, `TaskLane`, `IntegrationLane`
and `ProductCatalog` assume none: every command waits for a Human.
`CHECK_DEADLOCK FALSE` in the `AgentRun` and `TaskAuthority` configurations: a run
that ended has nothing left to do, and a task whose leases are used up (the bound)
or whose lease file is unreadable may be at rest. The same holds of the other
modules: a spent grant, a merged task, a full catalog and an answered input rest.

## Proofs

All theorems are for every value of the constants: any number of processes, keys,
runs, calls, tasks, commits and lines, any bound. Where one needs more, it is a
hypothesis with a name, and a configuration or a remark below shows that the
property fails without it. No property is inductive by itself; the strengthening
was checked by TLC on the run's instance before it was proved.

**`IdempotencyStoreProofs`**: `TypeCorrect`, `DecisionsAtomic`, `Exclusion`,
`Durability`, `Ownership`, `Repairable`, `NeverReopened` and `Refinement` (the
store implements `IdempotencyContract`). `SoundEnvironment` names what the code
cannot enforce: finitely many keys, one owner_id per worker, a clock that does not
go back, and torn appends that do not leave a complete JSON text
(`IdempotencyBareTail` shows why). The invariant adds that the lock holder is the
one worker in a critical section, that what it is about to write still fits the
file, that lines of a key have increasing times bounded by the clock, that at most
the last line is unparsable and exactly when the tail is not a newline, and that
the claim a worker holds is the key's latest line or an older attempt.

**`CheckpointLogProofs`**: `LossIsVisible` (`NoSilentLoss`, no hypothesis: an
append that falls on an unfinished line leaves a line that does not parse, and such
a line never goes away); with `NoBareTail` (`CheckpointTornTail` shows why)
`WritersSatisfyReaders` (`ReadersAccept`) and `Refinement` (the file implements
`RunLog`). The invariant says that every history is numbered from 1, has increasing
times and is accepted event by event, and that the line the lock holder is about to
write continues the history of its run; a write is then either invisible to the
readers or adds that line. What the readers make of the file is a recursion along
its lines. Its defining equation, and that it commutes with an append, are proved
by minimal counterexample from the well-foundedness of < on the naturals, the one
form of induction over data that is within the prover's reach; it has to be done
for each definition anew.

**`AgentRunProofs`**, any number of processes: `EffectsAreCovered`
(`AtMostOneEffect`), `ReturnsAfterTheEnd` (`ReturnMeansEnded`), `EndIsFinal`
(`EndedRunStaysQuiet`). The invariant `Safe` counts: effects of an operation, loops
that hold its claim and have still to act, and a record that may be claimed add up
to at most one more than the redos; a returned loop and a cancelled token have a
terminal file behind them. With `OneProcess` (one loop at a time, crashes and
resumes included): `BudgetHolds` (`BudgetRespected`), `CompletionIsClean`
(`CompletedMeansDone`), `FailureHasAReason` (`FailsForAReason`), from the invariant
`OneLoop`: what the loop has in memory, its budget, its batch and its state of the
run, is what a replay of the file would give it. Two loops at once break all three
(`AgentBudget`, and the list below).

**`PaidBrainProofs`**, any number of terminals: `GrantSpentOnce` (`SpendOnce`),
`ProofsAreEvidence` (`ProofIsEvidence`), `NoCallReportsAreTrue`
(`NoCallReportIsTrue`). The choice of an executor, for any policy, capacity records
and time: `OneUsableSelected` (somebody is selected if and only if somebody may be,
it is one, and its capacity was observed recently enough as usable) and
`FreeChoiceStands` (allowing paid executors changes no choice that could be made
without them); they say for every policy what `PaidIsLastResort` says of three
executors, and rest on the key being a lexicographic order that ends in the id, so
that ids of their own (`CandidatesOK`, which the constructors enforce) leave exactly
one first candidate. The invariant ties each program counter to the grant's
files: whoever is past the replacement of the grant's file is the one terminal that
spent it, and the guard's holder is the only one between look and replacement.

**`TaskLaneProofs`**: `LaneIsSafe`; `MergesAreCertified` (`MergedIsCertified`) with
one merging terminal and any number of certifying ones; `CandidatesTestedOnce`
(`OneT2PerCandidate`) with one terminal of each kind. With two mergers TLC finds
`MergedIsCertified` violated, with two certifiers `OneT2PerCandidate` (see below).
`NoneIsApart` says that None is no terminal, job, review, worktree or reason of the
gate. The invariant relates every commit id that a command has read to the
history of the refs (the main that a merger read is still the remote's, or no push of
the reviewed head can be taken: `MainKept`), the job to the T2 runs that ended, and a merger past its gate
to the candidate that was certified. Of the pure decisions, for any pack, trees,
change, worker and registry: `CarriedProofsStand` (a proof survives a FIX only if
all it rests on is the same in both trees, and what does not survive is tested
again), `BlockedMeansNothingLeft` (a failed worker may be replaced exactly when it
left nothing), `ClosedIsVerified` (through any number of moves of any findings, a
closed one was submitted and verified since it was last open; by minimal
counterexample over the number of moves). They generalise `FixIsVerified` and the
first part of `NothingUnowned`, which TLC checks on small inputs; `Restrict(f, S) #
None` and `None \notin DOMAIN NextActionOf` say that Python's None is no tree and no
failure class.

**`IntegrationLaneProofs`**: `LaneIsThePrefix` (`LaneFollowsManifest`), no
hypothesis. The invariant adds that an open lane is empty and that a ready lane is
whole with a status past INTEGRATING.

**`TaskAuthorityProofs`**, any executors, leases and commands one after the other,
each of which may fail or be killed at every durable operation: `OneHolder`
(`HolderWorksAlone`), `FailoverBoundary` (`ConsumedMeansPublished`), `OwnWork`
(`RunPublishesOwnWork`), `Scope` (`CommitsInScope`), `RolledBack`
(`FailedCommandUndone`). The hypothesis `OneTerminal` is what the code does not
enforce: one bridge command at a time, and a child that does not outlive its
execute. With two terminals `HolderWorksAlone` fails (see below). The invariant
`Safe` has one predicate for each place a command can be at (`HandoffAcquire` to
`ExecuteWait`, and the operations of a rollback): the rest of its list, and how what
it read at its start is related to the lease, the authorization, the worktree and
the branch there. Around them stands what is true of every authorization in
circulation, the current one, the one a command has in hand and the one it would
restore: its lease was issued before any lease still to come, its prior's before
its own; when it says CONSUMED its commit is on the remote and its lease is gone;
and while it is an ACTIVE RUN the uncommitted edits are its executor's or were
handed to it. `RolledBack` needs the places because a rollback is only right if
nothing it undoes was seen by another command meanwhile.

**`ProductCatalogProofs`**, any evidence, terminals, people and ids:
`CatalogStaysCoherent` (`CatalogCoherent`), `RegistrationsLast` (`NothingForgotten`),
`CatalogOnlyGrows` (no step takes a value out of the stored catalog) and `RoundTrip`
(a catalog is what its document says). `OrderAssumption` says that ids and
observations are ordered as numbers are, as the code orders them by their keys, and
that evidence is finite; the hypothesis `Apart` that None and Refused are no
terminal, document, catalog, family or variant. The argument has three parts.
(1) A family that was planned from any part of the evidence agrees with all of it
(`GoodFamily`): edges have no direction, so every member of a group reaches every
other, and a pair known to differ would have been a conflict of that group; evidence
that arrives later adds observations and changes none. A proposed variant is exact
throughout because its pairs are among the family's exact ones (`GoodVariant`).
(2) A catalog of such values in the order of their ids, with disjoint members,
stays one through a registration (`RegisterFamily`, `RegisterVariant`), and decoding
its document gives it back: positions mean the same members again, and registering
the values of the document one after the other appends each to the end of the list
so far (`NextFamily`, `NextVariant`; the recursion by minimal counterexample).
(3) The inductive invariant `CatalogInv`: what is stored is the document of such a
catalog; whoever has registered and not committed is the writer, and has a document
with all that is stored and its own decision. Registering while another terminal
could still replace the document (`BeginUnreserved`) breaks just that.

Only model-checked: liveness (`EveryCallEnds`, `EveryCommandEnds`), which is out of
the prover's reach; and, of the pure operators that `MCAlgorithms` and
`MCGovernance` run on every input of a small set, those without a general theorem
above: the document validators (`OneAttempt`, `FailoverKeepsTheWork`), the folds
over output lines and context candidates (`DiagnosticIsSound`,
`BrainContextIsSound`), the header parser (`HeaderIsUnambiguous`) and the roadmap's
recursion (`MilestonesOpenInOrder`; a RECURSIVE operator costs the prover its SMT
backend).

## What the models do not hold

Met while modelling, besides the violation run and the counterexample configurations:
- with the system clock set back the idempotency store refuses every load and
  repair() does not help (`RepairSuffices` fails with `ClockSteps = {1, -1}`);
- two coroutines of one executor share an owner_id, so after an expiry the first
  may settle the second's claim (`SettlesOwnClaim` fails when `OwnerOf` is not
  injective);
- with two loops on one run, `FailsForAReason` and `CompletedMeansDone` fail: one
  loop's events make the other's illegal, which is recorded as RUN_FAILED, and one
  loop may complete the run while the other's tool is at work;
- one torn line makes the replay refuse every run of the file, not only its own;
- invariant 2 of `docs/PHASE_56_PRODUCTION_READINESS.md` says that no event is
  appended after a terminal state; a few absorbed ones are (`Absorbs`);
- a corrupt idempotency store leaves run() as IdempotencyCorruptionError without
  RUN_HALTED (`StoreCorrupt`);
- with two terminals `HolderWorksAlone` fails in seven steps: execute in one while
  a handoff rolls back in the other, which releases the lease first and replaces
  the authorization afterwards;
- a blocked executor's recorded head need not be the branch's: with three leases,
  blocked, replaced, handed back hot, published up to a failing push, and rolled
  back by a refused execute, the task is EXECUTION_BLOCKED again with the old head;
- a crash in acquire() may leave an unreadable ACTIVE.json that no command removes;
- publish compares the control blob before the tests and not after them;
- a FIX after a cancelled hot handoff publishes the other executor's edits, and a
  commit whose first push failed is published by the next executor's RUN: only
  `RunPublishesOwnWork`, which is about uncommitted edits of a RUN, is claimed.
- paid Brain: the terminal that loses the race for a grant is told "AFTER_CONSUME"
  although it sent nothing; "NO_PROVIDER_CALL" may be false when the consumed grant
  cannot be read after a call that raised (`blind`); the clock is read once, and the
  control artifact may have moved on the remote by the time the request is sent;
- launch plan: its freshness check compares the state with itself (`ObservedAs`),
  and all ids derive from the lease's fingerprint alone;
- context: ERROR and DIFF share one precedence, so their order is alphabetical;
- roadmap: the search for cycles only finds those through its start, a reopened
  finding keeps its old fixed_by and closure round, and no caller passes
  migration_approved;
- task lane: with two certifying terminals `OneT2PerCandidate` fails, since nothing
  is locked between loading and saving the job; a crash leaves the job PENDING or
  RUNNING and the candidate can never be certified, nor can one whose T2 passed and
  whose refs then drifted (FAILED); a review may be withdrawn between the gate and
  the push; a merger that pauses between resolving refs and loading the job can push
  the untested head of `certified_untested`; an identity failure after the push is
  reported after main has moved;
- catalog: a writer that meets another gives up at once (timeout 0), and the decision
  has to be taken again.

## Not modelled

The LLM's messages (they decide nothing in the code), tools, providers, browsers
and Drive (I/O), the legacy idempotency store, reports that only read. SHA-256
collisions, character classes, byte limits and the exact-type tests of the document
constructors. In `TaskLane` a TASK text never returns to an earlier one and the
worktree is not edited and restored during T2. In `ProductEntities` confidence and
weak evidence, and rejected decisions. Of `aios_engineering` (static analysis and
reports), `product_source` (scraping), `live_capture.py`, retrieval, scoring and the
commerce packages nothing: they transform data or talk to services, and hold no
state that two steps share. See `components` in `PROJECT.json` for each part.

## Plan

1. Theorems about the validators of `Continuity`: an accepted launch plan passes every
   later validator, whatever its inputs.
2. `agent_controller`: the queue of tasks over `AgentRun`'s abstraction.
3. `hot_handoff.py`'s checkpoint documents in `Continuity`.
