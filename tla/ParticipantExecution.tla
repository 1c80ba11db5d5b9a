------------------------ MODULE ParticipantExecution ------------------------
(***************************************************************************)
(* Autonomous participant execution under the runtime manager: a client    *)
(* thread that applies, controls the shared clock, services due work and   *)
(* destroys, and the wall-paced clock driver thread the manager starts.    *)
(*                                                                         *)
(* A pass is one call that holds the participant execution lock: it moves  *)
(* the clock, publishes, runs the due participants policy by policy on a   *)
(* working snapshot, publishes that, and may put its predecessor back.     *)
(* The driver's failure path publishes without the lock.  Native work      *)
(* happens between the submission of a flight and its settlement.          *)
(*                                                                         *)
(* A call that is refused before it changes anything has no action.        *)
(***************************************************************************)
EXTENDS ParticipantScheduler

CONSTANTS
    MaxCalls,    \* bound on the client's calls
    MaxFaults,   \* bound on results other than success, and on failing calls
    MaxTick,     \* bound on the ticks a client advances or jumps to
    MaxSegment   \* bound on the clock's segments

ASSUME BoundsAssumption == {MaxCalls, MaxFaults, MaxTick, MaxSegment} \subseteq Nat

VARIABLES
    snap,       \* the manager's _snapshot
    declared,   \* _time_declaration is set
    pass,       \* the call that holds the lock
    client,     \* the client thread: idle, joining the driver, or tearing down
    driver,     \* the driver thread
    read,       \* the snapshot a thread works from outside the lock
    stop,       \* the driver's _stop event
    log,        \* what reached the native runtime, and what became of the record
    calls, faults

vars == <<snap, declared, pass, client, driver, read, stop, log, calls, faults>>

Blank  == [clock |-> [state |-> "absent", segment |-> 0, tick |-> 0]]
NoPass == [pc |-> "free"]
Pass(by, op, pc, pred, work) ==
    [by |-> by, op |-> op, pc |-> pc, pred |-> pred, work |-> work, base |-> Blank,
     pol |-> 0, todo |-> {}, batch |-> FALSE, fly |-> {}, failed |-> FALSE]

IsBlank(w) == w.clock.state = "absent"
Free == pass.pc = "free"
Alive == driver \notin {"off", "ended"}

Init ==
    /\ snap = Blank /\ read = Blank
    /\ declared = FALSE
    /\ pass = NoPass
    /\ client = "idle" /\ driver = "off" /\ stop = FALSE
    /\ log = [native |-> {}, forgotten |-> {}, fenced |-> {}, torn |-> FALSE]
    /\ calls = 0 /\ faults = 0

\* An operation is counted by a snapshot whose participant is past it
Counted(o, w) ==
    /\ ~IsBlank(w)
    /\ LET now == Operation(o.participant, w.st[o.participant])
       IN  \/ o.segment < now.segment
           \/ /\ o.segment = now.segment
              /\ \/ o.occurrence < now.occurrence
                 \/ o.occurrence = now.occurrence /\ o.retry < now.retry

\* The submissions that a snapshot taking the place of another does not count
Forget(w) == [log EXCEPT !.forgotten = @ \cup {o \in log.native : ~Counted(o, w)}]

Fault == faults < MaxFaults /\ faults' = faults + 1

-----------------------------------------------------------------------------
\* Time control: preflight, the time coordinator, and the publication of its
\* snapshot (_apply_time_control_locked, TimeCoordinator)

Call == client = "idle" /\ Free /\ calls < MaxCalls /\ calls' = calls + 1

Begin(by, op, clock) ==
    /\ pass' = Pass(by, op, "sync", snap, snap)
    /\ snap' = [snap EXCEPT !.clock = clock]
    /\ UNCHANGED <<declared, client, read, stop, log, faults>>

Advance(ticks) ==
    /\ Call /\ declared /\ snap.clock.state = "running"
    /\ snap.clock.tick + ticks <= MaxTick
    /\ ~SkipsCadence(snap, snap.clock.tick + ticks)
    /\ Begin("client", "advance", [snap.clock EXCEPT !.tick = @ + ticks])
    /\ UNCHANGED driver

Pause ==
    /\ Call /\ declared /\ snap.clock.state = "running"
    /\ Begin("client", "pause", [snap.clock EXCEPT !.state = "paused"])
    /\ UNCHANGED driver

Resume ==
    /\ Call /\ declared /\ snap.clock.state = "paused"
    /\ Begin("client", "resume", [snap.clock EXCEPT !.state = "running"])
    /\ UNCHANGED driver

Jump(tick) ==
    /\ Call /\ declared /\ ~IsBlank(snap)
    /\ snap.clock.segment < MaxSegment
    /\ ~SkipsCadence(snap, tick)
    /\ Begin("client", "jump", [snap.clock EXCEPT !.segment = @ + 1, !.tick = tick])
    /\ UNCHANGED driver

\* reset_with_participants: the tick is kept or set to 0, as the policy says
Reset(preserve) ==
    /\ Call /\ declared /\ ~IsBlank(snap)
    /\ snap.clock.segment < MaxSegment
    /\ Begin("client", "reset", [state |-> "running", segment |-> snap.clock.segment + 1,
                                 tick |-> IF preserve THEN snap.clock.tick ELSE 0])
    /\ UNCHANGED driver

\* run_due_participant_actions, called by itself
RunDue ==
    /\ Call /\ ~IsBlank(snap)
    /\ pass' = Pass("client", "run_due", "due", snap, snap)
    /\ UNCHANGED <<snap, declared, client, driver, read, stop, log, faults>>

\* _sync_participant_execution_clock up to its call of run_due.  A resume publishes
\* the life cycle first; after that it is an advance by no ticks.
Sync ==
    /\ pass.pc = "sync"
    /\ \/ /\ pass.op \in {"advance", "jump"}
          /\ pass' = [pass EXCEPT !.pc = "due", !.work = snap]
          /\ UNCHANGED snap
       \/ /\ pass.op = "resume"
          /\ snap' = ClockLifecycle(snap, "running")
          /\ pass' = [pass EXCEPT !.op = "advance"]
       \/ /\ pass.op = "pause"
          /\ snap' = ClockLifecycle(snap, "paused")
          /\ pass' = [pass EXCEPT !.pc = "conclude"]
       \/ /\ pass.op = "reset"
          /\ snap' \in ResetSnapshots(snap)
          /\ pass' = [pass EXCEPT !.pc = "conclude", !.failed = ReconcileAll(snap).disposition # "ok"]
    /\ UNCHANGED <<declared, client, driver, read, stop, log, calls, faults>>

-----------------------------------------------------------------------------
\* ParticipantScheduler.run_due on the working snapshot

Selecting == pass.pc = "due" /\ ~pass.failed
Fail      == pass' = [pass EXCEPT !.failed = TRUE]

\* _run_due_policy: a service that is not accepting is passed by; a v1 policy
\* looks for missed cadences before it submits anything
EnterPolicy ==
    LET i   == pass.pol + 1
        due == DueParticipants(pass.work, i)
    IN  /\ Selecting /\ ~pass.batch /\ pass.todo = {} /\ pass.pol < Len(Policies)
        /\ \/ /\ ~Accepts(pass.work, i)
              /\ pass' = [pass EXCEPT !.pol = i]
           \/ /\ Accepts(pass.work, i)
              /\ Policies[i].profile = "v1"
              /\ \E p \in ToSet(Policies[i].participants) : Missed(pass.work, p)
              /\ Fail
           \/ /\ Accepts(pass.work, i)
              /\ Policies[i].profile = "v1" => \A p \in ToSet(Policies[i].participants) : ~Missed(pass.work, p)
              /\ LET concurrent == Policies[i].profile = "v1" /\ Cardinality(due) >= 2 /\ Policies[i].maxInFlight >= 2
                 IN  pass' = [pass EXCEPT !.pol = i, !.batch = concurrent,
                                          !.todo = IF concurrent THEN due ELSE DOMAIN Policies[i].participants]
        /\ UNCHANGED <<snap, declared, client, driver, read, stop, log, calls, faults>>

\* The native runtime is handed the operations of a flight
Submit(fly, work, todo) ==
    LET ids == {Operation(p, pass.work.st[p]) : p \in fly}
    IN  /\ pass' = [pass EXCEPT !.pc = "flight", !.fly = fly, !.base = pass.work, !.work = work, !.todo = todo]
        /\ log' = [log EXCEPT !.native = @ \cup ids, !.forgotten = @ \ ids]

\* The participants of the policy, by position
Peer(k) == Policies[pass.pol].participants[k]

\* _execute_capacity_bounded_batches: the next chunk, or the rest one by one
BatchSize ==
    IF Cardinality(pass.todo) < 2 \/ Available(pass.work, pass.pol) < 2 THEN 0
    ELSE IndependentPrefix(Policies[pass.pol].participants, pass.todo, Available(pass.work, pass.pol))

SubmitBatch ==
    /\ Selecting /\ pass.batch
    /\ BatchSize >= 2
    /\ LET chunk == First(pass.todo, BatchSize)
           fly   == {Peer(k) : k \in chunk}
       IN  Submit(fly, ReserveBatch(pass.work, pass.pol, fly), pass.todo \ chunk)
    /\ UNCHANGED <<snap, declared, client, driver, read, stop, calls, faults>>

\* _bind_concurrent_policy_requests, _fail_concurrent_batch_before_dispatch; the
\* validation behind the last chunk (_materialize_concurrent_snapshot) fails alike
FailBeforeDispatch ==
    /\ Selecting /\ pass.batch /\ Fault
    /\ Fail
    /\ UNCHANGED <<snap, declared, client, driver, read, stop, log, calls>>

LeaveBatches ==
    /\ Selecting /\ pass.batch
    /\ BatchSize < 2
    /\ pass' = [pass EXCEPT !.batch = FALSE]
    /\ UNCHANGED <<snap, declared, client, driver, read, stop, log, calls, faults>>

\* run_participant_due for the next participant
Serial(p) == Selecting /\ ~pass.batch /\ pass.todo # {} /\ p = Peer(Min(pass.todo))
Rest      == pass.todo \ {Min(pass.todo)}

SkipParticipant(p) ==
    /\ Serial(p) /\ ~Due(pass.work, p) /\ ~Missed(pass.work, p)
    /\ pass' = [pass EXCEPT !.todo = Rest]
    /\ UNCHANGED <<snap, declared, client, driver, read, stop, log, calls, faults>>

CadenceMissed(p) ==
    /\ Serial(p) /\ Missed(pass.work, p)
    /\ Fail
    /\ UNCHANGED <<snap, declared, client, driver, read, stop, log, calls, faults>>

SubmitAction(p) ==
    /\ Serial(p) /\ Due(pass.work, p) /\ ~Governed(p)
    /\ Submit({p}, pass.work, pass.todo)
    /\ UNCHANGED <<snap, declared, client, driver, read, stop, calls, faults>>

\* _selected_activity_index finds no eligible candidate for a new occurrence.  The
\* draw is a function of occurrence and state: one that led to a submission leads
\* to it again.
NoCandidate(p) ==
    /\ Serial(p) /\ Due(pass.work, p) /\ Governed(p)
    /\ pass.work.st[p].retry = 0
    /\ Operation(p, pass.work.st[p]) \in pass.work.led.reserves => log.torn
    /\ \E s \in EmptyActivityStates(pass.work.st[p], pass.work.clock.tick) :
           pass' = [pass EXCEPT !.work.st[p] = s, !.todo = Rest]
    /\ UNCHANGED <<snap, declared, client, driver, read, stop, log, calls, faults>>

\* reserve_activity_resources, then the submission
SubmitActivity(p) ==
    LET i        == pass.pol
        reserved == Reserve(pass.work.led, Policies[i].budgets, Operation(p, pass.work.st[p]),
                            pass.work.svc[i].generation)
    IN  /\ Serial(p) /\ Due(pass.work, p) /\ Governed(p)
        /\ \/ /\ reserved.disposition = "ok"
              /\ Submit({p}, [pass.work EXCEPT !.led = reserved.ledger], pass.todo)
           \/ /\ reserved.disposition # "ok"
              /\ Fail
              /\ UNCHANGED log
        /\ UNCHANGED <<snap, declared, client, driver, read, stop, calls, faults>>

-----------------------------------------------------------------------------
\* What the native runtime answers

Settled(work, failed) ==
    pass' = [pass EXCEPT !.pc = "due", !.work = work, !.fly = {}, !.base = Blank, !.failed = failed]

\* _commit_prepared_concurrent_results
SettleResults(results) ==
    /\ pass.pc = "flight" /\ pass.batch
    /\ IF \A p \in pass.fly : results[p] = "succeeded" THEN UNCHANGED faults ELSE Fault
    /\ Settled(SettleBatch(pass.work, pass.base, pass.pol, pass.fly, results),
               \/ \E p \in pass.fly : Stops(pass.pol, results[p])
               \/ ~ServiceSettles(pass.work, pass.base, pass.pol, pass.fly))
    /\ UNCHANGED <<snap, declared, client, driver, read, stop, log, calls>>

\* _dispatch_concurrent_results: the call raised, was cancelled, or returned
\* results that cannot be paired with the requests
SettleLost ==
    /\ pass.pc = "flight" /\ pass.batch /\ Fault
    /\ Settled(SettleIndeterminate(pass.work, pass.base, pass.pol, pass.fly), TRUE)
    /\ log' = [log EXCEPT !.fenced = @ \cup {Operation(p, pass.base.st[p]) : p \in pass.fly}]
    /\ UNCHANGED <<snap, declared, client, driver, read, stop, calls>>

\* _run_one_due_action after admit_action
SettleAction(p, result) ==
    /\ pass.pc = "flight" /\ ~pass.batch /\ pass.fly = {p} /\ ~Governed(p)
    /\ IF result = "succeeded" THEN UNCHANGED faults ELSE Fault
    /\ Settled([pass.work EXCEPT !.st[p] = NextActionState(p, pass.work.st[p], result = "succeeded", result = "invalid")],
               Stops(pass.pol, result))
    /\ UNCHANGED <<snap, declared, client, driver, read, stop, log, calls>>

\* An exception that nothing between the scheduler and the caller catches: the
\* snapshot stays as it was last published
Raise ==
    /\ pass' = NoPass
    /\ driver' = IF pass.by = "driver" THEN "failing" ELSE driver
    /\ log' = [Forget(snap) EXCEPT !.torn = @ \/ pass.op \in {"advance", "jump"}]
    /\ UNCHANGED <<snap, declared, client, read, stop, calls>>

\* commit_activity_resources and the rest of _run_one_activity_action, for a
\* trusted vector of measurements: none, as reserved, or more than reserved
SettleActivity(p, outcome, extent) ==
    LET i        == pass.pol
        s        == pass.work.st[p]
        budgets  == Policies[i].budgets
        measured == [b \in budgets |-> CASE extent = "none" -> 0
                                          [] extent = "reserved" -> Budget[b].demand
                                          [] extent = "more" -> Budget[b].demand + 1]
        commit   == Commit(pass.work.led, budgets, Operation(p, s), pass.work.svc[i].generation, measured)
    IN  /\ pass.pc = "flight" /\ pass.fly = {p} /\ Governed(p)
        /\ IF outcome = "succeeded" /\ extent # "more" THEN UNCHANGED faults ELSE Fault
        /\ CASE commit.disposition = "ok" ->
                   /\ \E next \in NextActivityStates(p, s, pass.work.clock.tick, outcome) :
                          Settled([pass.work EXCEPT !.led = commit.ledger, !.st[p] = next], next.life = "failed")
                   /\ UNCHANGED <<snap, declared, client, driver, read, stop, log, calls>>
             [] commit.disposition = "refused" ->
                   /\ Settled(pass.work, TRUE)
                   /\ log' = [log EXCEPT !.forgotten = @ \cup {Operation(p, s)}]
                   /\ UNCHANGED <<snap, declared, client, driver, read, stop, calls>>
             [] commit.disposition = "raised" -> Raise

\* _release_untrusted_measurements, for a result that violates the protocol or
\* does not carry the exact vector: the attempt is not counted
SettleUntrusted(p) ==
    LET released == Release(pass.work.led, Policies[pass.pol].budgets, Operation(p, pass.work.st[p]),
                            pass.work.svc[pass.pol].generation)
    IN  /\ pass.pc = "flight" /\ pass.fly = {p} /\ Governed(p) /\ Fault
        /\ Settled([pass.work EXCEPT !.led = released.ledger], TRUE)
        /\ log' = [log EXCEPT !.forgotten = @ \cup {Operation(p, pass.work.st[p])}]
        /\ UNCHANGED <<snap, declared, client, driver, read, stop, calls>>

\* The serial path does not catch what the native runtime raises
NativeRaises ==
    /\ pass.pc = "flight" /\ ~pass.batch /\ Fault
    /\ Raise

BindRaises(p) ==
    /\ Serial(p) /\ Due(pass.work, p) /\ Fault
    /\ Raise

-----------------------------------------------------------------------------
\* The end of a pass

Return(ok) ==
    /\ pass' = NoPass
    /\ driver' = IF pass.by # "driver" THEN driver ELSE IF ok THEN "idle" ELSE "ended"

\* run_due's result is published whether it failed or not.  An apply ends by
\* starting the driver, or by withdrawing the time declaration.
PublishDue ==
    /\ pass.pc = "due"
    /\ pass.failed \/ (~pass.batch /\ pass.todo = {} /\ pass.pol = Len(Policies))
    /\ snap' = pass.work
    /\ \/ /\ pass.op = "apply"
          /\ pass' = NoPass
          /\ declared' = ~pass.failed
          /\ driver' = IF pass.failed THEN "off" ELSE "idle"
       \/ /\ pass.op = "run_due"
          /\ Return(~pass.failed)
          /\ UNCHANGED declared
       \/ /\ pass.op \in {"advance", "jump"}
          /\ pass' = [pass EXCEPT !.pc = "conclude"]
          /\ UNCHANGED <<declared, driver>>
    /\ UNCHANGED <<client, read, stop, log, calls, faults>>

\* _synchronize_participant_clock and _participant_readback_result: a failed
\* time control puts back the snapshot from before it
Conclude ==
    LET ok == ~pass.failed /\ ReadbackValid(snap)
    IN  /\ pass.pc = "conclude"
        /\ snap' = IF ok THEN snap ELSE pass.pred
        /\ log' = IF ok THEN log ELSE Forget(pass.pred)
        /\ Return(ok)
        /\ UNCHANGED <<declared, client, read, stop, calls, faults>>

-----------------------------------------------------------------------------
\* The clock driver thread (ParticipantClockDriver)

HasTransition == ~IsBlank(snap) /\ snap.clock.state = "running" /\ RunningParticipants(snap) # {}

\* _run_once: the deadline of the next transition has passed
DriverObserves ==
    /\ driver = "idle" /\ ~stop /\ Free /\ HasTransition
    /\ driver' = "ready"
    /\ UNCHANGED <<snap, declared, pass, client, read, stop, log, calls, faults>>

\* Mutant: a transition that is due at the current tick is not serviced.
DriverAdvancesOnly ==
    /\ driver = "ready" /\ Free
    /\ IF HasTransition /\ NextTick(snap) > snap.clock.tick
       THEN driver' = "busy" /\ Begin("driver", "advance", [snap.clock EXCEPT !.tick = NextTick(snap)])
       ELSE driver' = "idle" /\ UNCHANGED <<snap, declared, pass, client, read, stop, log, faults>>
    /\ UNCHANGED calls

\* _service_current_transition, which looks again under the lock
DriverServices ==
    /\ driver = "ready" /\ Free
    /\ \/ /\ ~HasTransition
          /\ driver' = "idle"
          /\ UNCHANGED <<snap, declared, pass, client, read, stop, log, faults>>
       \/ /\ HasTransition /\ NextTick(snap) <= snap.clock.tick
          /\ driver' = "busy"
          /\ pass' = Pass("driver", "run_due", "due", snap, snap)
          /\ UNCHANGED <<snap, declared, client, read, stop, log, faults>>
       \/ /\ HasTransition /\ NextTick(snap) > snap.clock.tick
          /\ driver' = "busy"
          /\ Begin("driver", "advance", [snap.clock EXCEPT !.tick = NextTick(snap)])
    /\ UNCHANGED calls

\* Mutant: the event is looked at only when there is nothing left to pace.
DriverStopsAtTheEnd ==
    /\ driver = "idle" /\ stop /\ ~HasTransition
    /\ driver' = "ended"
    /\ UNCHANGED <<snap, declared, pass, client, read, stop, log, calls, faults>>

\* run: the loop ends at the stop event
DriverStops ==
    /\ driver = "idle" /\ stop
    /\ driver' = "ended"
    /\ UNCHANGED <<snap, declared, pass, client, read, stop, log, calls, faults>>

\* _record_unexpected_failure: reads and publishes without the lock
DriverFails ==
    /\ driver = "failing"
    /\ driver' = "publishing" /\ read' = snap
    /\ log' = [log EXCEPT !.torn = @ \/ ~Free]
    /\ UNCHANGED <<snap, declared, pass, client, stop, calls, faults>>

DriverPublishes ==
    /\ driver = "publishing"
    /\ driver' = "ended" /\ read' = Blank
    /\ snap' = PacingFailure(read)
    /\ log' = IF Free THEN Forget(read) ELSE [log EXCEPT !.forgotten = log.native, !.torn = TRUE]
    /\ UNCHANGED <<declared, pass, client, stop, calls, faults>>

-----------------------------------------------------------------------------
\* Apply and destroy stop the driver first

Stopping == client \in {"apply", "destroy"}

CallStop(call) ==
    /\ client = "idle" /\ calls < MaxCalls
    /\ ~Free => pass.by = "driver"
    /\ client' = call /\ calls' = calls + 1
    /\ stop' = Alive
    /\ UNCHANGED <<snap, declared, pass, driver, read, log, faults>>

\* ParticipantClockDriver.stop gave up on a driver that is still alive
JoinTimesOut ==
    /\ Stopping /\ Alive
    /\ client' = "idle"
    /\ UNCHANGED <<snap, declared, pass, driver, read, stop, log, calls, faults>>

\* Mutant: destroy does not wait for the driver.
BeginTeardownAtOnce ==
    /\ client = "destroy"
    /\ client' = "tearing" /\ read' = snap
    /\ UNCHANGED <<snap, declared, pass, driver, stop, log, calls, faults>>

\* destroy, from its reading of the snapshot
BeginTeardown ==
    /\ client = "destroy" /\ ~Alive
    /\ client' = "tearing" /\ read' = snap
    /\ driver' = "off" /\ stop' = FALSE
    /\ UNCHANGED <<snap, declared, pass, log, calls, faults>>

\* ... to its publication of what the phases made of it
EndTeardown ==
    /\ client = "tearing"
    /\ client' = "idle" /\ snap' = read /\ read' = Blank
    /\ UNCHANGED <<declared, pass, driver, stop, log, calls, faults>>

\* apply up to the first run_due.  A snapshot that already holds time state
\* fails in the time phase, which leaves the manager without a declaration.
Apply ==
    /\ client = "apply" /\ ~Alive /\ Free
    /\ client' = "idle" /\ driver' = "off" /\ stop' = FALSE
    /\ \/ /\ IsBlank(snap)
          /\ \E w \in InitialSnapshots : pass' = Pass("client", "apply", "due", snap, w)
          /\ declared' = TRUE
       \/ /\ ~IsBlank(snap)
          /\ declared' = FALSE
          /\ UNCHANGED pass
    /\ UNCHANGED <<snap, read, log, calls, faults>>

-----------------------------------------------------------------------------
ClientCall ==
    \/ \E ticks \in 1..MaxTick : Advance(ticks)
    \/ Pause \/ Resume \/ RunDue
    \/ \E tick \in 0..MaxTick : Jump(tick)
    \/ \E preserve \in BOOLEAN : Reset(preserve)
    \/ \E call \in {"apply", "destroy"} : CallStop(call)

ClientStep == JoinTimesOut \/ BeginTeardown \/ EndTeardown \/ Apply

Flying == IF pass.pc = "flight" THEN pass.fly ELSE {}

Answer ==
    \/ \E results \in [Flying -> {"succeeded", "failed", "invalid"}] : SettleResults(results)
    \/ SettleLost \/ NativeRaises
    \/ \E p \in Flying :
           \/ \E result \in {"succeeded", "failed", "invalid"} : SettleAction(p, result)
           \/ \E outcome \in {"succeeded", "failed", "retryable"}, extent \in {"none", "reserved", "more"} :
                  SettleActivity(p, outcome, extent)
           \/ SettleUntrusted(p)

PassStep ==
    \/ Sync \/ EnterPolicy \/ SubmitBatch \/ FailBeforeDispatch \/ LeaveBatches
    \/ \E p \in Participants :
           SkipParticipant(p) \/ CadenceMissed(p) \/ SubmitAction(p) \/ NoCandidate(p)
           \/ SubmitActivity(p) \/ BindRaises(p)
    \/ Answer
    \/ PublishDue \/ Conclude

DriverStep == DriverObserves \/ DriverServices \/ DriverStops \/ DriverFails \/ DriverPublishes

Next == ClientCall \/ ClientStep \/ PassStep \/ DriverStep

\* Native calls return, the lock is handed on and threads keep running; the
\* client need not call anything
Spec == Init /\ [][Next]_vars /\ WF_vars(ClientStep) /\ WF_vars(PassStep) /\ WF_vars(DriverStep)

-----------------------------------------------------------------------------
Passes == [by : {"client", "driver"}, pc : {"sync", "due", "flight", "conclude"},
           op : {"apply", "run_due", "advance", "pause", "resume", "jump", "reset"},
           pred : Snapshots \cup {Blank}, work : Snapshots, base : Snapshots \cup {Blank},
           pol : 0..Len(Policies), todo : SUBSET Nat, batch : BOOLEAN,
           fly : SUBSET Participants, failed : BOOLEAN]

TypeOK ==
    /\ snap \in Snapshots \cup {Blank} /\ read \in Snapshots \cup {Blank}
    /\ declared \in BOOLEAN /\ stop \in BOOLEAN
    /\ client \in {"idle", "apply", "destroy", "tearing"}
    /\ driver \in {"off", "idle", "ready", "busy", "failing", "publishing", "ended"}
    /\ pass \in Passes \cup {NoPass}
    /\ log \in [native : SUBSET Operations, forgotten : SUBSET Operations,
                fenced : SUBSET Operations, torn : BOOLEAN]
    /\ log.forgotten \subseteq log.native
    /\ calls \in 0..MaxCalls /\ faults \in 0..MaxFaults

\* The snapshot that decides what happens next
Current == IF pass.pc \in {"due", "flight"} THEN pass.work ELSE snap

\* Between two submissions nothing is in flight: every attempt of a participant
\* has succeeded or failed, and each service has its whole capacity back,
\* whatever the native runtime answered (_settle_concurrent_service_state).
SettledBetweenFlights == ~IsBlank(Current) /\ pass.pc # "flight" => AtRest(Current)

\* What was handed to the native runtime is in flight or counted as attempted, and
\* so is not handed to it again, unless its record was dropped whole: by the
\* rollback of a time control, an exception, the driver's unlocked publication,
\* or a governed result that is not charged.
SubmittedIsCounted ==
    \A o \in log.native \ log.forgotten :
        \/ Counted(o, Current)
        \/ pass.pc = "flight" /\ o \in {Operation(p, pass.base.st[p]) : p \in pass.fly}

\* Actions that overlap in the native runtime belong to one policy, fit its
\* max_in_flight and do not conflict (_semantically_independent_prefix_size).
OverlapIsIndependent ==
    pass.pc = "flight" =>
        /\ Cardinality(pass.fly) <= Policies[pass.pol].maxInFlight
        /\ \A p, q \in pass.fly : PolicyOf(p) = PolicyOf(q) /\ {p, q} \notin Conflicts

\* Participant and clock agree on segment and life cycle ...
Agreeing(w, p) ==
    /\ w.st[p].segment = w.clock.segment
    /\ w.st[p].life \notin Terminal => w.st[p].life = w.clock.state
\* ... and the clock has not passed a tick that an open service still owes it.
Timely(w, p) ==
    w.st[p].life = "running" /\ Accepts(w, PolicyOf(p)) => w.st[p].next >= w.clock.tick
Stepped(w) == \A p \in Participants : Agreeing(w, p) /\ Timely(w, p)

\* Whenever the lock is free, participants and clock agree on segment and life
\* cycle, and the clock has not passed a tick that an open service still owes a
\* participant, unless a time control was left between its two publications.
InStep == Free /\ ~IsBlank(snap) /\ ~log.torn => Stepped(snap)

\* The reservations of a policy's current segment that are neither committed nor
\* released
Held(w, i) ==
    {o \in w.led.reserves \ (w.led.commits \cup w.led.releases) :
        PolicyOf(o.participant) = i /\ o.segment = w.st[o.participant].segment}

\* Both accounts of a budget are alike and carry the generation of their execution
\* service, through every reservation, commit, release, reset and rollback.
Twinned(w) ==
    \A i \in DOMAIN Policies : \A b \in Policies[i].budgets :
        /\ w.led.pool[b] = w.led.budget[b]
        /\ w.led.budget[b].generation = w.svc[i].generation
AccountsAgree == ~IsBlank(Current) => Twinned(Current)

\* A budget reserves exactly the demand of the operations that hold a reservation,
\* unless a time control was left between its two publications.
Balanced(w) ==
    \A i \in DOMAIN Policies : \A b \in Policies[i].budgets :
        w.led.budget[b].reserved = Budget[b].demand * Cardinality(Held(w, i))
ReservedIsHeld == ~IsBlank(Current) /\ ~log.torn => Balanced(Current)

\* A governed attempt counts as attempted exactly when its measurements have been
\* committed: no free attempts, and no charge for one that is tried again, unless
\* the driver's publication took back the new segment inside a reset.
AttemptedIsCharged ==
    ~IsBlank(Current) /\ ~log.torn =>
        \A p \in Participants : Governed(p) =>
            Current.st[p].attempted =
                Cardinality({o \in Current.led.commits :
                                o.participant = p /\ o.segment = Current.st[p].segment})

\* Governed work is in the native runtime only with the complete vector of its policy
\* reserved for it: reserve_participant_resources comes before the submission.
NativeWorkIsReserved ==
    pass.pc = "flight" =>
        \A p \in pass.fly : Governed(p) =>
            Operation(p, pass.work.st[p]) \in Held(pass.work, pass.pol)

\* That fails in two ways and in no other: the same operation ran before and its
\* reservation was released, or a reset whose new segment the driver's publication
\* took back starts the old one again, in which its operations are committed already.
\* No operation that is new to the ledger runs unreserved.
UnreservedWasReleased ==
    pass.pc = "flight" =>
        \A p \in pass.fly : Governed(p) =>
            LET o == Operation(p, pass.work.st[p])
            IN  \/ o \in Held(pass.work, pass.pol) \cup pass.work.led.releases
                \/ log.torn /\ o \in pass.work.led.commits

\* While destroy works from the snapshot it read, no driver runs and nothing is
\* published that its own publication would undo.
AloneInTeardown == client = "tearing" => ~Alive /\ Free /\ snap = read

\* An operation whose batch became indeterminate is never handed to the native
\* runtime again.
FencedIsNeverReplayed ==
    [][pass.pc = "due" /\ pass'.pc = "flight" =>
           \A p \in pass'.fly : Operation(p, pass'.base.st[p]) \notin log.fenced]_vars

\* The driver paces every participant to its end, unless it was stopped, its own
\* transition failed, or the clock was paused.
PacingCompletes == <>[](Alive => ~HasTransition)

\* A driver that was told to stop ends, also after the caller has given up on it.
StopEndsDriver == stop ~> ~Alive

-----------------------------------------------------------------------------
(* An inductive invariant for the control of the two threads, the types and *)
(* what is in flight                                                        *)

\* Whose turn it is: a pass of the driver is on exactly while the driver is busy, a
\* client that waits for the driver or tears down has no pass of its own, and the
\* first pass of an apply runs before there is a driver.
Turns ==
    /\ driver = "busy" <=> ~Free /\ pass.by = "driver"
    /\ ~Free /\ pass.by = "client" => client = "idle"
    /\ ~Free /\ pass.op = "apply" => pass.by = "client" /\ driver = "off"
    /\ client = "tearing" => driver = "off" /\ Free /\ snap = read

\* Nothing but an apply works on a runtime without participants.
Populated ==
    /\ Alive => ~IsBlank(snap)
    /\ driver = "publishing" => ~IsBlank(read)
    /\ ~Free /\ pass.op # "apply" => ~IsBlank(snap) /\ ~IsBlank(pass.pred)
    /\ ~Free /\ pass.pc \in {"sync", "conclude"} => pass.op \notin {"apply", "run_due"}

\* A pass services positions of the policy it is in, and what is in flight was handed
\* over; a concurrent batch is the predecessor with its actions reserved, a single
\* action leaves counters alone.
OnCourse ==
    ~Free =>
        /\ pass.todo # {} \/ pass.batch \/ pass.pc = "flight" => pass.pol \in DOMAIN Policies
        /\ pass.todo # {} => pass.todo \subseteq DOMAIN Policies[pass.pol].participants
        /\ pass.batch => Policies[pass.pol].profile = "v1"
        /\ pass.pc = "flight" =>
              /\ ~IsBlank(pass.base)
              /\ pass.fly \subseteq ToSet(Policies[pass.pol].participants) /\ IsFiniteSet(pass.fly)
              /\ \A p \in pass.fly : Operation(p, pass.base.st[p]) \in log.native
              /\ pass.batch => pass.work = ReserveBatch(pass.base, pass.pol, pass.fly)
              /\ ~pass.batch => /\ pass.work.st = pass.base.st /\ pass.work.svc = pass.base.svc
                                /\ \E p \in Participants : pass.fly = {p}

\* Every snapshot that is kept or published is at rest, and so is the one that a
\* flight started from.
KeptAtRest ==
    /\ \A w \in {snap, read} : ~IsBlank(w) => AtRest(w)
    /\ ~Free => /\ ~IsBlank(pass.pred) => AtRest(pass.pred)
                /\ AtRest(IF pass.pc = "flight" THEN pass.base ELSE pass.work)

FlightInv == TypeOK /\ Turns /\ Populated /\ OnCourse /\ KeptAtRest /\ OverlapIsIndependent

-----------------------------------------------------------------------------
(* An inductive invariant for the accounts and the counters, on top of it   *)

\* The snapshots that something still reads or may publish
Kept == {w \in {snap, read} \cup (IF Free THEN {} ELSE {pass.pred, pass.work, pass.base}) : ~IsBlank(w)}

\* No participant is in a segment that the clock has not reached.
Ordered(w) == \A p \in Participants : w.st[p].segment <= w.clock.segment

\* Every commit is one of an attempt that is over, and a governed participant has
\* one for each attempt it counts.
Commits(w, p) == {o \in w.led.commits : o.participant = p /\ o.segment = w.st[p].segment}
Charged(w) ==
    /\ IsFiniteSet(w.led.commits)
    /\ \A o \in w.led.commits : Counted(o, w)
    /\ \A p \in Participants : Governed(p) => w.st[p].attempted = Cardinality(Commits(w, p))

\* A reset finds every participant in an earlier segment, unless the driver's
\* publication has taken the new one back, which forgets what was submitted.
ResetIsNew ==
    pass.pc = "sync" /\ pass.op = "reset" =>
        \/ \A p \in Participants : snap.st[p].segment < snap.clock.segment
        \/ log.torn /\ log.forgotten = log.native

\* Governed work in flight has a reserve event.
FlightHasEvent ==
    pass.pc = "flight" =>
        \A p \in pass.fly : Governed(p) => Operation(p, pass.work.st[p]) \in pass.work.led.reserves

BooksInv   == \A w \in Kept : Ordered(w) /\ Twinned(w) /\ (log.torn \/ Charged(w))
AccountInv == BooksInv /\ ResetIsNew /\ FlightHasEvent /\ SubmittedIsCounted

-----------------------------------------------------------------------------
(* An inductive invariant for the clock and what participants wait for      *)

\* A run of due work outside a time control works on a snapshot that is in step, and
\* so is the one it would leave behind.
DueInStep ==
    ~Free /\ pass.op \in {"run_due", "apply"} => Stepped(pass.work) /\ snap = pass.pred

\* A time control that moved the clock has found in time whatever it has been past:
\* every participant of an earlier policy, those of a v1 policy when it entered it,
\* those of a v3 policy one by one.  A pause and a reset service nobody.
PassedBy(p) ==
    \/ PolicyOf(p) < pass.pol
    \/ /\ PolicyOf(p) = pass.pol
       /\ Governed(p) => \A k \in pass.todo : Peer(k) # p
PassedInTime ==
    /\ pass.pc = "sync" => pass.pol = 0
    /\ pass.pc \in {"due", "flight"} => pass.op \notin {"pause", "resume", "reset"}
    /\ pass.pc \in {"due", "flight"} /\ ~pass.failed =>
           \A p \in Participants : PassedBy(p) => Timely(pass.work, p)
    /\ pass.pc = "conclude" /\ ~pass.failed => \A p \in Participants : Timely(snap, p)

\* What would be put back or published late is in step.
KeptInStep ==
    /\ ~Free /\ ~IsBlank(pass.pred) => Stepped(pass.pred)
    /\ driver = "publishing" => Stepped(read)

\* Only a running participant of a pass that has not failed has governed work in flight.
FlightIsRunning ==
    pass.pc = "flight" =>
        ~pass.failed /\ \A p \in pass.fly : Governed(p) => pass.work.st[p].life = "running"

StepInv ==
    /\ FlightIsRunning
    /\ ~log.torn => InStep /\ DueInStep /\ PassedInTime /\ KeptInStep

-----------------------------------------------------------------------------
(* An inductive invariant for what the budgets hold, on top of these three  *)

\* The operations of a policy that were reserved in the current segment and are not
\* committed, whether their reservation was released or not
Open(w, i) ==
    {o \in w.led.reserves \ w.led.commits :
        PolicyOf(o.participant) = i /\ o.segment = w.st[o.participant].segment}

\* Only governed work is reserved, in a segment that has been reached, and released
\* after that; an open operation is the one its participant is at.
Recorded(w) ==
    /\ IsFiniteSet(w.led.reserves) /\ w.led.releases \subseteq w.led.reserves
    /\ \A o \in w.led.reserves : Governed(o.participant) /\ o.segment <= w.st[o.participant].segment
    /\ \A i \in DOMAIN Policies : \A o \in Open(w, i) : o = Operation(o.participant, w.st[o.participant])

\* A participant that has attempts left, and one that has its turn before another
Waits(w, p) == w.st[p].life \notin Terminal /\ w.st[p].attempted < Policies[PolicyOf(p)].maxAttempts
HasTurnBefore(p, q) ==
    LET ps == Policies[PolicyOf(q)].participants
    IN  \E k \in DOMAIN ps : ps[k] = q /\ \E j \in DOMAIN ps : j < k /\ ps[j] = p

\* At most one operation of a policy is open.  Its participant still owes it, and
\* nobody who has a turn before it waits for the same tick: whoever services the
\* policy next comes to this operation first, or finds it missed.
Quiet(w) ==
    \A i \in DOMAIN Policies : \A o \in Open(w, i) :
        LET q == o.participant
        IN  /\ Open(w, i) = {o}
            /\ Waits(w, q) /\ w.st[q].next <= w.clock.tick
            /\ \A p \in Participants : HasTurnBefore(p, q) /\ Waits(w, p) => w.st[p].next # w.st[q].next

\* So it is in whatever is published outside a time control, and in what a time
\* control puts back or keeps.
KeptQuiet ==
    /\ Free /\ ~IsBlank(snap) => Quiet(snap)
    /\ driver = "publishing" => Quiet(read)
    /\ ~Free /\ ~IsBlank(pass.pred) => Quiet(pass.pred)
    /\ ~Free /\ pass.op \in {"run_due", "apply"} => Quiet(pass.work)
    /\ pass.pc = "conclude" /\ ~pass.failed /\ ReadbackValid(snap) => Quiet(snap)

\* A participant is where it was, but for its being paused or not
SameCourse(s, t) ==
    /\ t.segment = s.segment /\ t.occurrence = s.occurrence /\ t.retry = s.retry
    /\ t.attempted = s.attempted /\ t.next = s.next
    /\ t.life \in Terminal <=> s.life \in Terminal

\* The clock of a time control that keeps the segment does not go back.
GoesOn(clock) ==
    clock.segment = pass.pred.clock.segment =>
        clock.tick >= pass.pred.clock.tick /\ (pass.op # "pause" => clock.state = "running")

\* A time control starts from its predecessor and a moved clock, and until it fails
\* it opens nothing that it does not commit: what else is open was so before it, and
\* has not been serviced.
OpenBefore(i) == IF IsBlank(pass.pred) THEN {} ELSE Open(pass.pred, i)
OpenInFlight  == {Operation(p, pass.work.st[p]) : p \in Flying} \ pass.work.led.releases
TimeGoesOn ==
    /\ pass.pc = "sync" => /\ GoesOn(snap.clock)
                           /\ \A p \in Participants : SameCourse(pass.pred.st[p], snap.st[p])
                           /\ snap.led = pass.pred.led
    /\ pass.pc \in {"due", "flight"} /\ ~pass.failed =>
           \A i \in DOMAIN Policies : Open(pass.work, i) \subseteq OpenBefore(i) \cup OpenInFlight
    /\ pass.pc \in {"due", "flight"} /\ ~pass.failed /\ pass.op \notin {"run_due", "apply"} =>
           /\ GoesOn(pass.work.clock) /\ pass.pred.led.reserves \subseteq pass.work.led.reserves
           /\ \A i \in DOMAIN Policies : \A o \in Open(pass.work, i) \cap OpenBefore(i) :
                  SameCourse(pass.pred.st[o.participant], pass.work.st[o.participant])
           /\ \A p \in Participants :
                  Governed(p) /\ (pass.pol < PolicyOf(p) \/ ~Accepts(pass.work, PolicyOf(p))) =>
                      SameCourse(pass.pred.st[p], pass.work.st[p])

\* Whoever a pass is past is not due any more, and governed work in flight is that of
\* the participant whose turn it is.
Serviced ==
    /\ pass.pc \in {"due", "flight"} /\ pass.todo # {} => Accepts(pass.work, pass.pol)
    /\ pass.pc \in {"due", "flight"} /\ ~pass.failed =>
           \A p \in Participants : PassedBy(p) /\ Governed(p) /\ Accepts(pass.work, PolicyOf(p)) => ~Due(pass.work, p)
    /\ pass.pc = "flight" => \A p \in pass.fly : Governed(p) =>
           pass.todo # {} /\ p = Peer(Min(pass.todo)) /\ Due(pass.work, p)

BalanceInv ==
    ~log.torn => /\ \A w \in Kept : Recorded(w) /\ Balanced(w)
                 /\ KeptQuiet /\ TimeGoesOn /\ Serviced
=============================================================================
