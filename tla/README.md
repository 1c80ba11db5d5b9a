# Verification of the ACES runtime control plane

TLA+ models of the runtime of ACES (`src/implementations/python/packages/`), the
TLC configurations that check them on small instances, and TLAPS proofs that hold
for every instance. Paths below are relative to that package directory;
`PROJECT.json` maps each definition to the lines it stands for.

## 1. Inventory

ACES compiles a scenario written in its SDL into plans, and a runtime applies
those plans to backends and keeps the one authoritative snapshot of what exists.
Almost all of the code is parsing, validation and data classes. State that
several actors change is concentrated in `raes_runtime`.

| Component | State it keeps | Operations | What is hard | Correct when |
| --- | --- | --- | --- | --- |
| Mutation authority and call executor (`control_plane_mutation.py`, `control_plane_api/_offload.py`) | owner thread, reservation, deque of async waiters, nesting depth, pending count | `mutation`, `reserve`, `external_call`, `mutate`, grant and release | threads, tasks and worker threads share one permit; cancellation at any await | one mutation at a time, FIFO, no orphaned permit, no lost wake-up |
| Operation store (`control_plane_store*.py`) | operation records, idempotency index, snapshot and revision, audit log | claim, terminal commit, participant transitions | atomicity of the commit, duplicate keys, revision limit | one record per key, a terminal record always with its audit event, revision grows with every snapshot |
| Control plane (`control_plane*.py`) | open/closing/closed, poison flag, lease, cached snapshot, retry fingerprints | submit, read, close; claim, apply, commit, publish | retries, two processes, crash between claim and commit, store errors in doubt | an effect at most once per key, no lost update, fail closed |
| Workflow control (`control_plane_workflow*.py`, `control_plane_timeouts.py`, `workflow_result_contract*`) | workflow results and histories in the snapshot | backend report, cancel, reconcile timeouts, compensate | three parties can end a run; clocks and timestamp text | a run ends once, is compensated exactly, and meets its own contract |
| Participant control and crossing (`participant_control*`, `participant_crossing*`, `participant_episode_control.py`) | intents, decisions, occurrences, history heads | admit, mediate, decide, commit | history heads committed beside the snapshot | histories only grow, every occurrence has its decision |
| Participant scheduler (`participant_scheduler*`) | a scheduler state per participant, a service state per policy | initialize, select, reserve, dispatch, settle, clock life cycle, reset | concurrent batches, indeterminate dispatch, retries, a result that never comes | what was submitted is counted once and not submitted again, overlapping actions are independent, counters return |
| Resource accounting (`participant_resource_*`) | budgets, pool allocations, an event log | reserve, commit, release, reconcile | idempotence by event, two copies of each account, generations | both copies agree, an attempt is charged exactly once, governed work is reserved |
| Time coordinator and clock driver (`time_*.py`, `participant_clock_driver.py`) | clock state, driver thread, stop event, failure | advance, pause, resume, jump, reset, start, stop | driver against client, rollback of a failed control, stop time-out, a publication without the lock | clock and participants keep step, pacing completes, a stop ends the thread |
| Runtime manager (`manager*.py`) | snapshot, time declaration, started services | apply, destroy, rollback | a phase fails after earlier ones took effect; the driver while it tears down | the snapshot tells what is really there, teardown runs alone |
| Module registry (`raes/module_registry`) | versions, pointer file, cache lock | publish, resolve | crash during publication | a pointer names a complete version |
| SDL, contracts, processor, conformance, CLI, MCP, backends | none shared | pure functions, front ends, external drivers | volume | not protocol questions |

Interaction. The HTTP API hands a request to the executor, which counts it,
probes for a replay, reserves the permit for it and runs it on a worker thread.
The worker enters the control plane, which looks the key up, claims the operation
in the store, calls the backend *outside* any lock but under the permit, commits
the terminal record and publishes the committed pair to its cache. Reads refresh
that same cache from the store at any time and take no permit. Workflow control
is one family of operations inside that frame.

Below it, the runtime manager keeps the snapshot of an applied scenario. Its time
controls move a shared clock and then synchronize the autonomous participants with
it: the scheduler runs every participant whose tick has come, in batches or one by
one, hands each action to the backend's participant runtime and settles what comes
back. A clock driver thread issues the same controls by itself as wall-clock
deadlines pass. Client and driver exclude each other by one re-entrant lock, except
where the driver, having failed, publishes a degraded snapshot.

## 2. Modules

| Module | Models | State and actions |
| --- | --- | --- |
| `FifoPermit` | abstract specification: one permit, a queue of requests, threads that get it only when nobody is queued | `holder`, `queued` and their arrival order `before`, `inside` |
| `MutationAuthority` | `RuntimeMutationAuthority`, `_ControlPlaneCallExecutor`, `_settle_worker` | one action per step between two points where another thread or task can run: `Enter`/`Nest`/`ExitNested`/`ExitOuter` are `mutation`, `Reserve`…`LeaveReservation` are `reserve`, `CompleteWaiter` is the loop callback, `Worker*` the worker thread |
| `MutationAuthorityProofs`, `ControlPlaneProofs`, `WorkflowControlProofs`, `ParticipantExecutionProofs` | theorems about the module they extend, with the inductive invariant's proof, one step per action | |
| `ParticipantAccountingProofs`, `ParticipantStepProofs`, `ParticipantBalanceProofs` | three more inductive invariants of `ParticipantExecution`, each on top of the ones before, and their theorems | |
| `ParticipantSchedulerProofs` | lemmas about the scheduler's and the ledger's operators: what each returns, preserves and bounds | |
| `OperationStore` | the atomic store: claim, compare-and-swap commit, audit, revision limit | used through EXTENDS by `ControlPlane` |
| `ControlPlane` | several `RuntimeControlPlane` instances over one store | life cycle (`Open`, `BeginClose`, `CloseInterrupted`, `FinishClose`, `Crash`), `Read`, and a submission step by step: `Submit`, `Precheck`, `Acquire`, `Recheck`, `Claim*`, `Validate`, `Apply`, `ApplyReturns`/`BackendInterrupted`, `Commit*`, `Publish` |
| `WorkflowControl` | workflow runs in the snapshot | backend reports, `Cancel`, `Reconcile`, and the result contract as the predicate `ResultContract` |
| `ResourceLedger` | budgets, pools and the event log of governed (v3) policies, as operators on a ledger | `Reserve`, `Commit`, `Release`, `Reconcile` return a ledger and a disposition, as the functions return a snapshot and a result |
| `ParticipantScheduler` | what the scheduler's functions make of a snapshot: the clock, a scheduler state per participant, a service per policy, the ledger | `InitialSnapshots`, `Due`, `NextActionState`, `NextActivityStates`, `IndependentPrefix`, `ReserveBatch`, `SettleBatch`, `SettleIndeterminate`, `ClockLifecycle`, `ResetSnapshots`, `ReadbackValid` |
| `ParticipantExecution` | composes them: the client thread and the driver thread over the manager's snapshot | `Advance`, `Pause`, `Resume`, `Jump`, `Reset`, `RunDue` begin a *pass*, a call that holds the lock; `Sync`, `EnterPolicy`, `Submit*`, `Settle*`, `PublishDue`, `Conclude` are its steps between two points where another thread can run or a native call can answer; `Driver*` are the driver's loop; `CallStop`, `JoinTimesOut`, `BeginTeardown`, `EndTeardown`, `Apply` are apply and destroy |
| `MCControlPlane`, `MCWorkflowControl`, `MCParticipantExecution` | constants of the instances | |

Abstractions, and why they are sound for the properties stated:

* An operation identifier is the call that made it; a snapshot's content is the
  set of operations whose effect it holds. That is what "at most once" and "no
  lost update" are about; payloads do not matter to either.
* `_reload_derived_state` and the lookup that follows it are one step: nothing
  between them can change what the lookup sees in the cache, whose lock it holds.
* A store read that fails *before* the claim raises and leaves cache and store as
  they are: it has no action. Failures of the claim, the commit and the
  read-back after it are actions, with both outcomes for what became durable.
* `ControlPlane` takes the permit as one variable per plane, which is what
  `ImplementsFifoPermit` justifies; it does not need its FIFO order.
* A `BaseException` in extension code is `BackendInterrupted`; an `Exception` or a
  result that fails validation is a failed result, which the code commits.
* `control_plane_recovery.py` recovers nothing: a claim that was running when its
  process died stays running, and so it does in the model.
* In `WorkflowControl` an operation is one step because it holds the permit from
  its read to its commit. Instants are half seconds, the coarsest grain at which
  whole-second timeouts and timestamp text show their edges. A step's state is
  whether it is reported as successfully completed. `SkewedClock` lets the control
  plane's clock lag the backend's; `Unrecorded` lets a backend report a completed
  step without its event. The passing run has neither.
* Backends are external: any report that passes the contract is possible. A native
  participant action may succeed, fail, fail retryably, break the protocol, carry
  untrusted measurements, raise or never pair with its request.
* An attempt is identified by participant, segment and, for a v1 policy, the number
  of the attempt, for a v3 policy occurrence and retry. The v1 action instance id has
  no segment in it and repeats after a reset; the code tells the two apart by the
  episode, which is new in every segment.
* Random draws (next tick, burst, candidate) are nondeterministic choices among what
  the draw can return. Cooldowns only restrict that choice. A draw is a function of
  seed, occurrence and state (`select_activity_candidate`), so an occurrence for which
  a candidate was found once is not found empty later (`NoCandidate`).
* A pass runs on its own working snapshot, as the code does, and publishes where the
  code assigns `_snapshot`. Calls that are refused before they change anything have
  no action.
* `log` is a history variable. `log.native` is what reached the participant runtime,
  `log.fenced` what an indeterminate batch settled. `log.forgotten` are submissions
  whose record the code drops on purpose or in passing: a rolled back time control, an
  exception on the serial path, an uncharged governed result, the driver's unlocked
  publication. `log.torn` says that a time control was cut between its two
  publications by an exception or by the driver's publication. `SubmittedIsCounted` leaves
  out the first, `InStep`, `ReservedIsHeld` and `AttemptedIsCharged` the second, so these
  four do not catch what happens in those windows; `SettledBetweenFlights`,
  `AccountsAgree` and `AloneInTeardown` have no such exception, and what a rollback costs
  is the finding of `execution_replay`.
* The admission context that a stored record is matched against is a digest of kind,
  value-free body and base snapshot (`Context`). Only plans carry secrets and prove an
  exact retry; participant actions and workflow operations have neither.
* A batch that settles its service counters to anything but their value from before it
  fails, and the old value is put back (`SettleService`, `ServiceSettles`).
* A resume publishes the resumed life cycle and captures the snapshot for the due work
  in two steps; the second is that of an advance by no ticks (`Sync`).

## 3. Runs

| Run | Instance | Shows |
| --- | --- | --- |
| `authority` | 2 threads, 3 requests, pending limit 2, nesting 2, fairness | `TypeOK`, `NoLostWakeup`, `PermitHolderIsLive`, `WorkerIsCovered`, `MutualExclusion`, `PendingIsExact`, the refinement `ImplementsFifoPermit`, and `EveryRequestEnds` |
| `plane` | 2 calls with one key or none, plans and workflow operations, a leased store, 2 planes (the second is the restart), store errors, interrupts, crash; fairness | `EffectAtMostOnce`, `ClaimPrecedesEffect`, `TerminalIsAudited`, `CacheIsPaired`, `OwnerOnly`, `PoisonedIsQuiet`, `StoreOnlyGrows`, `NoLostUpdate`, `EveryCallReturns`, `CloseCompletes` |
| `plane_shared` | 2 calls, 2 planes at once, no lease, 3 bodies of which two differ in a secret, plans and participant actions, explicit base snapshots, revisions up to 1 | `EffectAtMostOnce`, `ReceiptsAgree` without the lease's help, and `TypeOK` at the revision limit |
| `workflow` | 2 workflows (2 steps compensated on cancel and time-out, 1 step compensated on failure only), 1 s time-outs, 3 instants | `ContractHolds`, `EndedOnce`, `EndedIsFinal`, `CompensatedExactly`, `ReconciledExactly` |
| `execution` | a v1 policy of 3 participants, 2 of which conflict, capacity 3, 2 attempts each; a v3 policy of 1 participant with a budget of 2, 2 occurrences and 1 retry; 3 client calls, 1 failure of any kind, ticks 0..1, segments 0..1; fairness | `SettledBetweenFlights`, `SubmittedIsCounted`, `OverlapIsIndependent`, `InStep`, `AccountsAgree`, `ReservedIsHeld`, `AttemptedIsCharged`, `UnreservedWasReleased`, `AloneInTeardown`, `PacingCompletes`, `StopEndsDriver` |
| `authority_cancel`, `plane_stale`, `plane_unresolved`, `workflow_order`, `workflow_contract`, `execution_replay`, `execution_reserved` | the smallest instances that show them | the findings of section 5 |

Why the bounds are enough for the cases they are after. Three requests and a
pending limit of two give a holder, a queued request and a refused one, and a
cancelled request between two live ones in the deque; two threads give one asleep
while another releases. Two calls give a first attempt and its
retry, or an unrelated operation that meets its leftovers; all three together were
checked offline for the safety properties of `plane` (3 calls, 0.66 million states). A
revision limit of one lets the second snapshot commit of `plane_shared` fail at the limit
after its effect. Three half-second instants
hold two events in one second and one in the next, a time-out exactly due, and
one half a second short.

In `execution`, participants a, b, c with a and c in conflict give a batch of two, a
participant left for the serial path, and a prefix in which only a non-neighbour
conflicts. Three calls give an apply, a control that races the driver or fails, and
the control after it, which meets its leftovers; two attempts and two segments give a
second batch after a settled one, before and after a reset. The budget of two with a
demand of one leaves room for one retry and throttles the third reservation. One
failure reaches every failing branch once; combinations of two were checked offline
for the invariants (1.8 million states), as was a window of three ticks (0.5 million
states). The window of three ticks is where a reset can find its new segment
taken back by the driver's publication with governed work still due, the exception that
`UnreservedWasReleased` names.

The run has one governed participant, so it does not show operations of two participants
on one budget. That case was checked offline for `ReservedIsHeld` (2.1 million states:
two participants on a budget of two, two failures, which leave one operation released and
one held), and the theorem `BudgetsHoldWhatIsReserved` covers it for any number of
participants and budgets.

Deadlock is not checked in the `ControlPlane` and `ParticipantExecution` runs: calls
are finite in number, and a system whose calls have all returned, whose planes have
closed and whose driver has ended may stop.
Symmetry is used only in runs that check safety.

Fairness. `MutationAuthority`: threads and the event loop are scheduled (weak
fairness of every step that is not a new call or a client's cancellation), and
code inside a state cut ends; the exits have strong fairness because a body may
nest or call out repeatedly before it ends. Entering the permit is *not* fair for
threads, and no liveness is claimed for them: `_sync_permit_available` lets
asynchronous waiters pass them without bound. `ControlPlane`: each call's thread
runs, backends return or raise, store transactions end, and a `close()` whose
wait is over runs on. Nothing is assumed of clients, readers, crashes or the
interruption of a close. `ParticipantExecution`: the steps of a pass (native calls
return or raise), of the driver thread and of a client inside apply or destroy are
weakly fair; that the client calls anything at all is not assumed. The lock is
handed on because a waiting step is enabled whenever it is free.

## 4. Proofs

Each theorem holds for every value of the constants that meets the named `ASSUME`s
of the module: any finite sets of threads, requests, planes, calls or workflows, any
sequence of policies, any bounds. The bounds on calls and faults are constants too,
so nothing proved depends on their size. `DistinctAssumption`, that a policy names a
participant once, is what `_resolve_behavior_spec_refs` makes of the references;
`AliasAssumption`, that the budgets of one policy draw on distinct pools, is what the
admission of a policy requires (`raes/participant_resource_budgets.py:201-214`,
`raes_backend_protocols/participant_resource_admission.py:215`). It is what
lets `Reserve` apply a vector to all its accounts at once, where the code writes back
pool states that it read before the first of them. Every inductive invariant was first checked
with TLC as an invariant of the passing runs' instances.

| Module | Theorems (and the checked property) | Hypotheses beyond the `ASSUME`s |
| --- | --- | --- |
| `MutationAuthorityProofs` | `AuthorityIsFifoPermit` (`ImplementsFifoPermit`), `TypeCorrect`, `MutualExclusionHolds` (`MutualExclusion`), `PermitIsNeverOrphaned` (`PermitHolderIsLive`), `WorkersAreCovered` (`WorkerIsCovered`), `WakeupsAreNotLost` (`NoLostWakeup`), `PendingCountIsExact` (`PendingIsExact`) | none |
| `ControlPlaneProofs` | `TypeCorrect`, `OneEffectPerKey` (`EffectAtMostOnce`), `ClaimBeforeEffect` (`ClaimPrecedesEffect`), `TerminalAudit` (`TerminalIsAudited`), `CachedPairs` (`CacheIsPaired`), `OwnedStore` (`OwnerOnly`), `StoreGrows` (`StoreOnlyGrows`), `PoisonedStaysQuiet` (`PoisonedIsQuiet`) | none |
| | `LeasedStoreKeepsUpdates` (`NoLostUpdate`) | `LeasedStore`; `plane_stale` shows it is needed |
| | `OneReceiptPerRequest` (`ReceiptsAgree`) | `ExactRequests` |
| `WorkflowControlProofs` | `TypeCorrect`, `RunsEndOnce` (`EndedOnce`), `EveryCompletionCompensatedOnce` (`CompensatedExactly`), `EndedRunsStay` (`EndedIsFinal`), `TimeoutsAreExact` (`ReconciledExactly`) | none: they hold with skewed clocks and unrecorded steps too |
| | `RuntimeMeetsContract` (`ContractHolds`) | `~SkewedClock`, `~Unrecorded`; `workflow_contract` shows the second is needed |
| `ParticipantExecutionProofs` | `FlightInvariant`, `TypeCorrect`, `TeardownIsAlone` (`AloneInTeardown`), `BatchesSettle` (`SettledBetweenFlights`), `BatchesAreIndependent` (`OverlapIsIndependent`) | none |
| `ParticipantAccountingProofs` | `AccountInvariant`, `SubmissionsAreCounted` (`SubmittedIsCounted`), `AccountsAlwaysAgree` (`AccountsAgree`), `AttemptsAreCharged` (`AttemptedIsCharged`), `UnreservedOnlyIfReleased` (`UnreservedWasReleased`) | none |
| `ParticipantStepProofs` | `StepInvariant`, `ClockInStep` (`InStep`) | none |
| `ParticipantBalanceProofs` | `BalanceInvariant`, `BudgetsHoldWhatIsReserved` (`ReservedIsHeld`) | none |

`ExactRequests` says that commitment and exact secret together identify a request
body. It is a hypothesis of the theorem and not an assumption of the module because
the code does not give it for every request: a request that arrives in value-free form
(`material.value_present`, `raes_contracts/account_credentials.py:69-90`) has the
commitment of the request that carries the secret, and none of its own. The bodies of
the instances meet it.

The arguments:

* **Mutation authority.** Mutual exclusion needs to know that a worker inside the cut
  is covered by a reservation; that needs `HolderInv` (which control states go with
  which holder, and that a granted waiter is the reserved one); a grant keeps that
  only if what is popped from the deque is a request that still awaits and was not
  granted before, which is `QueueInv`; and a task that resumes may believe its future
  only because a completed future belongs to a granted waiter, which is `FutureInv`.
  The lemmas are about the grant loop (what is left of the queue, who is reserved, who
  wakes) and the cardinality of the set of requests in flight.
  The same invariant carries the refinement. The mapping sees the *live* places of the
  deque: a waiter leaves the abstract queue when its future is cancelled, and its later
  removal, by its own task or by somebody's grant loop, is a stutter. The loop drops the
  dead places at the front and serves the first live one, which is the abstract
  first-come grant; a release that finds no live place frees the permit.
* **Control plane.** That an effect happens once per key rests on the store alone:
  `RecordInv` (a call past its claim has the record, with its key) and `KeyInv` (a key
  has one record), which is why it needs no lease. That no update is lost rests on the
  lease: `LifeInv` (the plane alive is the owner, and only it has calls), `PermitInv`
  (one call per plane past the wait, none in a poisoned plane) and `BaseInv` (under
  that call base, cache and durable cut are one). `CutInv` is what makes a matching
  revision mean a matching content. `ProofInv` and `ReceiptInv` carry the receipts.
* **Workflow control.** `EndedOnce` needs `OpenHistory` (until a run ends its history
  has neither terminal nor compensation events); `CompensatedExactly` is proved of the
  sequence the compensation builds by a bijection between its positions and the
  completions sorted newest first; the contract needs `Recorded` as well.
* **Participant execution.** A settlement subtracts a batch from counters that it
  cannot see were raised for it. `OnCourse` therefore says that the working snapshot of
  a concurrent flight *is* `ReserveBatch` of the base it started from, and `KeptAtRest`
  that this base, and every snapshot that is kept for a publication, a rollback or the
  driver's failure path, is at rest. `Turns` says whose turn it is (a client that waits
  for the driver holds no pass, the driver is busy exactly during its pass), `Populated`
  that only an apply works on a blank runtime. The recursive walk over the policies at a
  reset (`ReconcileAll`) is typed by the least index at which it could go wrong
  (`LeastNatural`), the independent prefix of a batch by `MaxIsGreatest`.
* **Participant accounting**, on top of that. A rollback or the driver's publication
  brings back an older snapshot, so what is said of the current one must hold of every
  snapshot that something still keeps (`Kept`): no participant is ahead of the clock
  (`Ordered`), the two accounts of a budget agree in the generation of their service
  (`Twinned`), and the commits are those of attempts that are over, as many in the
  present segment as the participant counts (`Charged`). `Ordered` is what makes a reset
  open a segment that no commit and no submission belongs to (`ResetIsNew`); `Twinned`
  is what makes its reconciliation succeed for each policy in turn. That an attempt is
  charged once then is that the operation in flight is not counted and hence not
  committed; that it is reserved needs its reserve event (`FlightHasEvent`). Most
  operators do not change what is accounted for, which one relation says (`CarriesOn`);
  only a commit (`CommitKeepsBooks`) and a reset (`ResetKeepsBooks`) have arguments of
  their own.
* **Clock and participants**, on top of `FlightInv`. A time control publishes a moved
  clock before its participants have followed, and the readback at its end compares
  segments and life cycles, not ticks. That nobody was overlooked is therefore an
  invariant of the traversal (`PassedInTime`): everyone a pass is past is in time, those
  of a v1 policy because it is searched for missed cadences on entry, those of a v3
  policy one by one. A pause and a reset service nobody, and leave nobody late. A due
  run outside a time control starts in step and stays so, and what a rollback or the
  driver's publication would bring back is in step too.
* **Budgets**, on top of all of these. A commit frees a demand whether or not its
  operation still holds one: an operation whose reservation was released by an untrusted
  result is tried again without a new one, and its commit takes the amount off whatever
  is reserved, down to zero. This is harmless only if nothing else of the policy is held
  at that moment. So the invariant counts *open* operations (reserved, not committed,
  released or not) and says that outside a time control a policy has at most one
  (`Quiet`). It stays the only one because its participant is served first: whoever has
  a turn before it is not due at the same tick, so the next pass comes to it before it
  opens anything else, or finds it missed and fails (`Serviced`). A time control may
  find it in a service that accepts nothing, move the clock past it and open others, but
  until it fails it commits whatever it opens (`TimeGoesOn`), and if it fails all of it
  is rolled back. `Balanced` then follows from the cardinality of the held operations,
  step by step (`GrantBooked`, `CommitBooked`, `ReleaseBooked`, `ResetBooked`).

Only model-checked: every liveness property and the fairness behind it (`EveryRequestEnds`,
`EveryCallReturns`, `CloseCompletes`, `PacingCompletes`, `StopEndsDriver`), which is out
of the prover's reach. Every invariant and every safety action property of the passing
runs, and the one refinement, is also proved.

## 5. Findings

1. **A cancelled waiter can raise `ValueError`** (`authority_cancel`).
   `reserve` removes its waiter from the deque when its await is cancelled, but a
   release by another thread may have dropped the cancelled waiter already.
2. **A refreshed cache defeats the compare-and-swap** (`plane_stale`). The
   expected revision is read from the cache at commit time. A read during the
   backend call moves it forward, so over a store without a lease a stale result
   overwrites another plane's commit. With the lease (`plane`) the property holds.
3. **A conflict after an effect does not fail closed** (`plane_unresolved`). The
   operation stays running and the plane goes on.
4. **Compensation order is timestamp-text order** (`workflow_order`). It is
   reverse completion order only across seconds, which `CompensatedExactly` states
   and `workflow` checks. In the run's behaviour the two completions are half a second
   apart. Completions at one instant, which a stable sort leaves in the order of the
   history, are excluded from the property.
5. **Compensation and contract read different records** (`workflow_contract`).
   A completed step without its event is not compensated, and the stored result
   fails the contract it is held to.
6. **A rolled back time control replays an indeterminate batch**
   (`execution_replay`). The scheduler settles a lost batch so that its action ids
   cannot become due again; the failed time control then restores the snapshot from
   before the batch, and the next advance submits the same ids. The test of the
   scheduler's promise calls the scheduler without time control above it.
7. **A released operation runs again without a reservation** (`execution_reserved`).
   ADR-097 says that admission "reserves the complete vector ... before native work",
   which is `NativeWorkIsReserved`. An untrusted result gives the reservation back and
   leaves the operation due; the next pass finds its reserve event, which answers for it
   without a look at the accounts. `UnreservedWasReleased`, checked in `execution` and
   proved, says how far this goes: no other operation runs unreserved, except in a reset
   into whose two publications the driver's unlocked one falls. There the participants
   stay in the old segment, whose operation ids are used, and answered from the event
   log, a second time. `ReservedIsHeld` says that no capacity is lost or invented by it.

Not findings, but worth a maintainer's look. Apply on a manager that already holds time
state fails and leaves it without a time declaration. A participant without an
eligible tick is completed at initialization but due at once after a reset. With
`SkewedClock`, a cancellation stamped before the run's start breaks `ContractHolds`.

## 6. Not modelled

Planned (section 7): participant control and crossing, the phases of the manager's
apply and destroy, the planner's ordering and the module registry. Left out of
`ParticipantExecution`: the v2 profile (v3 without budgets), several clocks and the
mappings between them, microsteps, the merge of the snapshots that concurrent workers
return (it works on history contents), and the wall-clock arithmetic of deadlines.
Out of scope: SDL parsing and validation, contract data classes, schema checks, the
conformance suites, CLI, MCP and tools (pure or input/output without shared
state); the libvirt backend (its state is an external hypervisor's); the HTTP
routes and authentication (stateless); the store's file formats, legacy migration
and lease-file inspection (input/output). These are most of the repository's lines;
the modules here are about the part that several actors share.

## 7. Plan

In order of importance:

1. *(done)* Permit, store, control plane, workflow control.
2. *(done)* `ParticipantScheduler` with `ResourceLedger`, and `ParticipantExecution`,
   which holds the clock driver and the driver's side of apply and destroy.
3. *(done)* Theorems for the safety properties of these modules, and for the refinement
   of `FifoPermit`.
4. `ParticipantTransitions`: the store's participant and control transitions with
   history heads, crossing decisions and occurrences, composed with
   `OperationStore`. Properties: histories only grow and stay chained, an
   occurrence follows its decision, one outcome per admission.
5. `RuntimeManager`: apply phases, rollback, destroy that goes on past failures.
6. `ModuleRegistry`: versions, pointer publication, crash, power loss and clean-up,
   against an abstract register.
7. `PlanOrder`: the planner's dependency ordering as operators, against a
   reference definition over all small graphs.
8. Two closers of one plane; an abstract `OperationLedger` that `ControlPlane`
   implements.
