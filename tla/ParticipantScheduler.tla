------------------------ MODULE ParticipantScheduler ------------------------
(***************************************************************************)
(* The shared-clock scheduler of autonomous participants: what each of its *)
(* functions makes of a runtime snapshot.  ParticipantExecution gives the  *)
(* order in which the runtime manager and its clock driver call them.      *)
(*                                                                         *)
(* A snapshot holds the shared clock, one scheduler state per participant, *)
(* one execution service per policy and the resource ledger.  A v1 policy  *)
(* acts on a fixed cadence and may run due participants concurrently; a v3 *)
(* policy acts on drawn ticks, one participant after another, and accounts *)
(* for resources.  Every policy is bound to the one clock.                 *)
(***************************************************************************)
EXTENDS ResourceLedger, Sequences, SequencesExt

CONSTANTS
    Policies,   \* the admitted policies, in order
    Conflicts,  \* pairs of participants whose bound actions conflict
    WindowEnd   \* last tick of the work window of the v3 policies

ASSUME PoliciesAssumption ==
    /\ Policies \in Seq(ToSet(Policies))
    /\ \A i \in DOMAIN Policies :
        /\ Policies[i].participants \in Seq(ToSet(Policies[i].participants))
        /\ Policies[i].profile \in {"v1", "v3"}
        /\ Policies[i].maxInFlight \in Nat \ {0}
        /\ {Policies[i].start, Policies[i].maxRetries} \subseteq Nat
        /\ {Policies[i].cadence, Policies[i].maxAttempts, Policies[i].maxOccurrences} \subseteq Nat \ {0}
        /\ Policies[i].failurePolicy \in {"stop", "continue"}
        /\ Policies[i].budgets \subseteq Budgets
        /\ Policies[i].profile = "v1" => Policies[i].budgets = {}
        /\ \A j \in DOMAIN Policies \ {i} :
               /\ ToSet(Policies[i].participants) \cap ToSet(Policies[j].participants) = {}
               /\ Policies[i].budgets \cap Policies[j].budgets = {}
\* _resolve_behavior_spec_refs drops repeated references
ASSUME DistinctAssumption ==
    \A i \in DOMAIN Policies : IsInjective(Policies[i].participants)
\* _validate_policy refuses dimensions that alias one canonical pool
ASSUME AliasAssumption ==
    \A i \in DOMAIN Policies : \A b, c \in Policies[i].budgets :
        b # c => Budget[b].pool # Budget[c].pool
ASSUME ConflictsAssumption == \A c \in Conflicts : Cardinality(c) = 2
ASSUME WindowAssumption == WindowEnd \in Nat

Participants == UNION {ToSet(Policies[i].participants) : i \in DOMAIN Policies}
PolicyOf(p)  == CHOOSE i \in DOMAIN Policies : p \in ToSet(Policies[i].participants)
Governed(p)  == Policies[PolicyOf(p)].profile = "v3"
\* _execution_service_accepts_work
Accepts(w, i) == w.svc[i].life = "running"

Terminal == {"completed", "failed"}
\* ParticipantAutonomousExecutionStateModel
SchedulerStates == [life : {"running", "paused"} \cup Terminal, segment : Nat, next : Nat,
                    attempted : Nat, succeeded : Nat, failed : Nat, inFlight : Nat,
                    occurrence : Nat, retry : Nat]
\* ParticipantExecutionServiceStateModel; readiness and accepting_new_work are
\* written together with the observed life cycle, always in agreement with it
ServiceStates == [life : {"running", "paused"}, health : {"healthy", "degraded"},
                  generation : Nat, inFlight : Nat, quiescent : BOOLEAN]

\* The identity of the attempt a state leads to: the episode of its segment and its
\* action instance id.  A v1 id numbers the attempts and repeats in the next
\* segment, where only the episode tells it apart; a v3 id numbers occurrences
\* and their retries.
Operation(p, s) ==
    [participant |-> p, segment |-> s.segment,
     occurrence  |-> IF Governed(p) THEN s.occurrence ELSE s.attempted,
     retry       |-> s.retry]
Operations == [participant : Participants, segment : Nat, occurrence : Nat, retry : Nat]

\* The parts of a runtime snapshot that this code reads and writes
Clocks    == [state : {"running", "paused"}, segment : Nat, tick : Nat]
Snapshots == [clock : Clocks, st : [Participants -> SchedulerStates],
              svc : [DOMAIN Policies -> ServiceStates], led : Ledgers(Operations)]

-----------------------------------------------------------------------------
\* cadence, and its alignment in clock_reset_context
FirstTick(policy, tick) ==
    IF policy.start >= tick THEN policy.start
    ELSE policy.start + ((tick - policy.start + policy.cadence - 1) \div policy.cadence) * policy.cadence

InitialState(clock, life, next) ==
    [life |-> life, segment |-> clock.segment, next |-> next, attempted |-> 0, succeeded |-> 0,
     failed |-> 0, inFlight |-> 0, occurrence |-> 0, retry |-> 0]

\* next_activity_timing: a later tick inside the window.  Where it finds none the
\* caller decides.
DrawnTicks(tick) == (tick + 1)..WindowEnd

\* _initial_participant_state: an activity without an eligible tick is completed
InitialStates(p, clock) ==
    IF ~Governed(p) THEN {InitialState(clock, "running", Policies[PolicyOf(p)].start)}
    ELSE {InitialState(clock, "running", t) : t \in DrawnTicks(clock.tick)}
         \cup {InitialState(clock, "completed", clock.tick)}

\* reset_scheduler_participant: without an eligible tick it is due at once
ResetStates(p, clock) ==
    IF ~Governed(p) THEN {InitialState(clock, "running", FirstTick(Policies[PolicyOf(p)], clock.tick))}
    ELSE {InitialState(clock, "running", t) : t \in {clock.tick} \cup DrawnTicks(clock.tick)}

\* One scheduler state per participant, each from its own set
StatesFrom(Options(_)) == {f \in [Participants -> UNION {Options(p) : p \in Participants}] :
                            \A p \in Participants : f[p] \in Options(p)}

\* ParticipantScheduler.initialize, execution_service_state
InitialSnapshots ==
    LET clock == [state |-> "running", segment |-> 0, tick |-> 0]
    IN  {[clock |-> clock, st |-> st, led |-> InitialLedger,
          svc |-> [i \in DOMAIN Policies |->
                      [life |-> "running", health |-> "healthy", generation |-> 0,
                       inFlight |-> 0, quiescent |-> TRUE]]]
            : st \in StatesFrom(LAMBDA p : InitialStates(p, clock))}

-----------------------------------------------------------------------------
\* _legacy_action_is_due, _activity_action_is_due
Due(w, p) ==
    /\ w.st[p].life = "running"
    /\ w.st[p].next = w.clock.tick
    /\ w.st[p].attempted < Policies[PolicyOf(p)].maxAttempts
    /\ w.st[p].inFlight = 0

\* The test before cadence_missed_result
Missed(w, p) == w.st[p].life = "running" /\ w.st[p].next < w.clock.tick

\* _next_action_state, of the state s before the action
NextActionState(p, s, ok, protocolFailure) ==
    LET policy == Policies[PolicyOf(p)]
    IN  [s EXCEPT !.attempted = @ + 1,
                  !.succeeded = IF ok THEN @ + 1 ELSE @,
                  !.failed    = IF ok THEN @ ELSE @ + 1,
                  !.next      = @ + policy.cadence,
                  !.life      = IF protocolFailure \/ (~ok /\ policy.failurePolicy = "stop") THEN "failed"
                                ELSE IF s.attempted + 1 >= policy.maxAttempts THEN "completed"
                                ELSE @]

\* _activity_attempt_is_retryable
Retryable(p, s) ==
    LET policy == Policies[PolicyOf(p)]
    IN  s.retry < policy.maxRetries /\ s.attempted + 1 < policy.maxAttempts

\* Mutant: an attempt that is to be retried is not counted.
NextActivityStatesFreeRetry(p, s, tick, outcome) ==
    LET ok == outcome = "succeeded"
    IN  IF outcome = "retryable" /\ Retryable(p, s)
        THEN {[s EXCEPT !.retry = @ + 1, !.next = tick]}
        ELSE {[s EXCEPT !.attempted = @ + 1, !.succeeded = IF ok THEN @ + 1 ELSE @,
                        !.failed = IF ok THEN @ ELSE @ + 1, !.occurrence = @ + 1, !.retry = 0,
                        !.life = "completed", !.next = tick]}

\* next_activity_occurrence_state: a burst repeats at the current tick, otherwise
\* the next tick is drawn.  Cooldowns and completed candidates only decide which
\* candidate is selected.
NextActivityStates(p, s, tick, outcome) ==
    LET policy  == Policies[PolicyOf(p)]
        ok      == outcome = "succeeded"
        counted == [s EXCEPT !.attempted = @ + 1,
                             !.succeeded = IF ok THEN @ + 1 ELSE @,
                             !.failed    = IF ok THEN @ ELSE @ + 1]
        ended(life) == [counted EXCEPT !.occurrence = @ + 1, !.retry = 0, !.life = life, !.next = tick]
    IN  IF outcome = "retryable" /\ Retryable(p, s)
        THEN {[counted EXCEPT !.retry = @ + 1, !.next = tick]}
        ELSE IF ~ok /\ policy.failurePolicy = "stop" THEN {ended("failed")}
        ELSE IF s.occurrence + 1 >= policy.maxOccurrences \/ s.attempted + 1 >= policy.maxAttempts
        THEN {ended("completed")}
        ELSE {ended("completed")} \cup {[ended("running") EXCEPT !.next = t] : t \in {tick} \cup DrawnTicks(tick)}

\* _empty_activity_state
EmptyActivityStates(s, tick) ==
    {[s EXCEPT !.life = "completed", !.next = tick]} \cup {[s EXCEPT !.next = t] : t \in DrawnTicks(tick)}

-----------------------------------------------------------------------------
\* Due work is a set of positions among a policy's participants, and is taken in
\* their order: the n first of them
First(positions, n) == {k \in positions : Cardinality({j \in positions : j <= k}) <= n}

\* _due_contexts, when nothing was missed
DueParticipants(w, i) == {k \in DOMAIN Policies[i].participants : Due(w, Policies[i].participants[k])}

\* _available_concurrent_capacity
Available(w, i) ==
    LET free == Policies[i].maxInFlight - w.svc[i].inFlight IN IF free > 0 THEN free ELSE 0

\* Mutant: a participant is compared with its neighbour only.
IndependentNeighbours(ps, positions, limit) ==
    Max({n \in 1..Min({Cardinality(positions), limit}) :
            \A k \in First(positions, n - 1) : {ps[k], ps[k + 1]} \notin Conflicts})

\* _semantically_independent_prefix_size, at most limit
IndependentPrefix(ps, positions, limit) ==
    Max({n \in 1..Min({Cardinality(positions), limit}) :
            \A j, k \in First(positions, n) : j # k => {ps[j], ps[k]} \notin Conflicts})

\* _reserve_concurrent_actions, for the participants of one batch
ReserveBatch(w, i, batch) ==
    LET state(p) == [w.st[p] EXCEPT !.attempted = @ + 1, !.inFlight = @ + 1]
        service  == [w.svc[i] EXCEPT !.inFlight = @ + Cardinality(batch), !.quiescent = FALSE]
    IN  [w EXCEPT !.st = [p \in Participants |-> IF p \in batch THEN state(p) ELSE w.st[p]],
                  !.svc[i] = service]

\* _finish_concurrent_service_state
Finished(service, batch) ==
    LET remaining == service.inFlight - Cardinality(batch)
    IN  [service EXCEPT !.inFlight = remaining, !.quiescent = remaining = 0]

\* _settle_concurrent_service_state: a finished service that is not the one from
\* before the batch is replaced by it, so it is that one in any case ...
SettleService(w, base, i) == [w EXCEPT !.svc[i] = base.svc[i]]
\* ... and a replacement fails the pass.
ServiceSettles(w, base, i, batch) == Finished(w.svc[i], batch) = base.svc[i]

\* _commit_prepared_concurrent_results: every peer is settled from its state
\* before the batch, with the result returned for it
SettleBatch(w, base, i, batch, results) ==
    SettleService(
        [w EXCEPT !.st = [p \in Participants |->
                             IF p \in batch
                             THEN NextActionState(p, base.st[p], results[p] = "succeeded", results[p] = "invalid")
                             ELSE @[p]]],
        base, i)

\* Mutant: a lost batch settles its participants and not the service.
SettleParticipantsOnly(w, base, i, batch) ==
    [w EXCEPT !.st = [p \in Participants |->
                         IF p \in batch THEN NextActionState(p, base.st[p], FALSE, TRUE) ELSE @[p]]]

\* Mutant: a lost batch puts back the state before it.
SettleByRestoring(w, base, i, batch) == base

\* _settle_indeterminate_concurrent_batch: results that never came, or that
\* cannot be paired with the requests, settle every peer as a protocol failure
SettleIndeterminate(w, base, i, batch) ==
    SettleBatch(w, base, i, batch, [p \in batch |-> "invalid"])

\* Does a result end the pass?  A failed one does under the policy's stop.
Stops(i, result) ==
    result = "invalid" \/ (result # "succeeded" /\ Policies[i].failurePolicy = "stop")

-----------------------------------------------------------------------------
\* set_execution_clock_lifecycle: only the policies with an active participant
ClockLifecycle(w, life) ==
    LET active == {p \in Participants : w.st[p].life \notin Terminal}
    IN  [w EXCEPT !.st  = [p \in Participants |-> IF p \in active THEN [@[p] EXCEPT !.life = life] ELSE @[p]],
                  !.svc = [i \in DOMAIN Policies |->
                              IF \E p \in active : PolicyOf(p) = i THEN [@[i] EXCEPT !.life = life] ELSE @[i]]]

\* reset_execution_service
ResetService(service) ==
    [service EXCEPT !.life = "running", !.generation = @ + 1, !.inFlight = 0, !.quiescent = TRUE]

\* Mutant: a reset leaves the budgets alone.
ReconcileNothing(w) == Result("ok", w.led)

\* _reset_resource_generation, for the v3 policies in order
ReconcileAll(w) ==
    LET F[i \in 0..Len(Policies)] ==
            IF i = 0 THEN Result("ok", w.led)
            ELSE IF Policies[i].profile # "v3" \/ F[i - 1].disposition # "ok" THEN F[i - 1]
            ELSE Reconcile(F[i - 1].ledger, Policies[i].budgets, w.svc[i].generation)
    IN  F[Len(Policies)]

\* ParticipantScheduler.reset_clock after a coordinated reset of the episodes
ResetSnapshots(w) ==
    {[w EXCEPT !.st = st, !.led = ReconcileAll(w).ledger,
               !.svc = [i \in DOMAIN Policies |-> ResetService(w.svc[i])]]
        : st \in StatesFrom(LAMBDA p : ResetStates(p, w.clock))}

\* ParticipantClockDriver._pacing_failure_snapshot
PacingFailure(w) ==
    [w EXCEPT !.svc = [i \in DOMAIN Policies |-> [@[i] EXCEPT !.life = "paused", !.health = "degraded"]]]

\* _next_participant_tick: the earliest tick a running participant waits for
RunningParticipants(w) == {p \in Participants : w.st[p].life = "running" /\ w.st[p].inFlight = 0}
NextTick(w) == Min({w.st[p].next : p \in RunningParticipants(w)})

\* _participant_cadence_skip_failure
SkipsCadence(w, tick) ==
    /\ tick > w.clock.tick
    /\ \E p \in Participants :
           /\ w.st[p].life = "running"
           /\ \/ w.st[p].next < w.clock.tick
              \/ w.clock.tick < w.st[p].next /\ w.st[p].next < tick

\* Mutant: the readback does not compare segments.
ReadbackOfLifecycle(w) ==
    \A p \in Participants :
        /\ w.st[p].succeeded + w.st[p].failed + w.st[p].inFlight = w.st[p].attempted
        /\ w.st[p].life \notin Terminal => w.st[p].life = w.clock.state

\* require_participant_autonomous_runtime_snapshot
ReadbackValid(w) ==
    \A p \in Participants :
        LET s == w.st[p]
        IN  /\ s.succeeded + s.failed + s.inFlight = s.attempted
            /\ s.life \in Terminal => s.inFlight = 0
            /\ s.segment = w.clock.segment
            /\ s.life \notin Terminal => s.life = w.clock.state

\* Nothing is in flight, and every attempt has succeeded or failed
AtRest(w) ==
    /\ \A p \in Participants :
           w.st[p].inFlight = 0 /\ w.st[p].attempted = w.st[p].succeeded + w.st[p].failed
    /\ \A i \in DOMAIN Policies : w.svc[i].inFlight = 0 /\ w.svc[i].quiescent
=============================================================================
