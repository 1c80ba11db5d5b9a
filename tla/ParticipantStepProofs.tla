------------------------ MODULE ParticipantStepProofs ------------------------
(***************************************************************************)
(* Proofs about the shared clock of ParticipantExecution: StepInv is       *)
(* inductive on top of FlightInv.  From it follows that participants and   *)
(* clock are in step whenever the lock is free, also after a time control  *)
(* that failed and was taken back.                                         *)
(***************************************************************************)
EXTENDS ParticipantAccountingProofs

-----------------------------------------------------------------------------
(* What the scheduler's operators do to participants and their clock        *)

\* One snapshot keeps pace with another: the same clock and open services, and
\* participants that are over, or go on in the same segment and wait for no earlier
\* tick unless it is the present or a later one.
KeepsPace(s, t, tick) ==
    /\ t.segment = s.segment
    /\ t.life \in Terminal \/ t.life = s.life
    /\ t.next >= s.next \/ t.next >= tick
Paces(w, v) ==
    /\ v.clock = w.clock
    /\ \A i \in DOMAIN Policies : v.svc[i].life = w.svc[i].life
    /\ \A p \in Participants : KeepsPace(w.st[p], v.st[p], w.clock.tick)

LEMMA KeepingPace ==
    ASSUME NEW w \in Snapshots, NEW v \in Snapshots, Paces(w, v)
    PROVE  /\ \A p \in Participants : Agreeing(w, p) => Agreeing(v, p)
           /\ \A p \in Participants : Timely(w, p) => Timely(v, p)
           /\ Stepped(w) => Stepped(v)
<1>1. ASSUME NEW p \in Participants
      PROVE  (Agreeing(w, p) => Agreeing(v, p)) /\ (Timely(w, p) => Timely(v, p))
  <2>1. /\ w.st[p].next \in Nat /\ v.st[p].next \in Nat /\ w.clock.tick \in Nat
        /\ "running" \notin Terminal /\ PolicyOf(p) \in DOMAIN Policies
    BY SnapshotParts, PolicyIsUnique DEF SchedulerStates, Terminal
  <2>2. KeepsPace(w.st[p], v.st[p], w.clock.tick) /\ v.clock = w.clock
        /\ v.svc[PolicyOf(p)].life = w.svc[PolicyOf(p)].life
    BY <2>1 DEF Paces
  <2>3. Agreeing(w, p) => Agreeing(v, p)
    BY <2>2 DEF Agreeing, KeepsPace
  <2>4. Timely(w, p) => Timely(v, p)
    BY <2>1, <2>2 DEF Timely, Accepts, KeepsPace
  <2> QED  BY <2>3, <2>4
<1> QED  BY <1>1 DEF Stepped

LEMMA SamePace ==
    ASSUME NEW w \in Snapshots, NEW v, v.clock = w.clock, v.svc = w.svc, v.st = w.st
    PROVE  Paces(w, v)
<1>1. \A p \in Participants : w.st[p].next \in Nat
  BY SnapshotParts DEF SchedulerStates
<1> QED  BY <1>1 DEF Paces, KeepsPace

LEMMA OneStatePaces ==
    ASSUME NEW w \in Snapshots, NEW p \in Participants, NEW s, KeepsPace(w.st[p], s, w.clock.tick)
    PROVE  Paces(w, [w EXCEPT !.st[p] = s])
<1> DEFINE v == [w EXCEPT !.st[p] = s]
<1>1. /\ v.clock = w.clock /\ v.svc = w.svc
      /\ v.st[p] = s /\ \A q \in Participants \ {p} : v.st[q] = w.st[q]
  BY SnapshotParts DEF Snapshots
<1>2. \A q \in Participants : w.st[q].next \in Nat
  BY SnapshotParts DEF SchedulerStates
<1> HIDE DEF v
<1>3. \A q \in Participants : KeepsPace(w.st[q], v.st[q], w.clock.tick)
  BY <1>1, <1>2 DEF KeepsPace
<1>4. Paces(w, v)
  BY <1>1, <1>3 DEF Paces
<1> QED  BY <1>4 DEF v

\* A settled action waits for its next cadence.
LEMMA ActionKeepsPace ==
    ASSUME NEW p \in Participants, NEW s \in SchedulerStates, NEW ok, NEW broken, NEW tick
    PROVE  KeepsPace(s, NextActionState(p, s, ok, broken), tick)
<1>1. s.next \in Nat /\ Policies[PolicyOf(p)].cadence \in Nat
  BY PolicyNumbers DEF SchedulerStates
<1> DEFINE t == NextActionState(p, s, ok, broken)
<1>2. /\ t.segment = s.segment /\ t.next = s.next + Policies[PolicyOf(p)].cadence
      /\ t.life \in {"failed", "completed", s.life}
  BY DEF NextActionState, SchedulerStates
<1> HIDE DEF t
<1>3. KeepsPace(s, t, tick)
  BY <1>1, <1>2 DEF KeepsPace, Terminal
<1> QED  BY <1>3 DEF t

\* A settled activity is over or waits for the present tick or a drawn one.
LEMMA ActivityKeepsPace ==
    ASSUME NEW p \in Participants, NEW s \in SchedulerStates, s.life = "running", NEW tick \in Nat, NEW outcome,
           NEW t \in NextActivityStates(p, s, tick, outcome)
    PROVE  KeepsPace(s, t, tick)
<1> DEFINE ok == outcome = "succeeded"
           counted == [s EXCEPT !.attempted = @ + 1, !.succeeded = IF ok THEN @ + 1 ELSE @,
                                !.failed = IF ok THEN @ ELSE @ + 1]
           Ended(life, next) == [counted EXCEPT !.occurrence = @ + 1, !.retry = 0, !.life = life, !.next = next]
           again == [counted EXCEPT !.retry = @ + 1, !.next = tick]
<1>1. counted.segment = s.segment /\ counted.life = s.life /\ DOMAIN counted = DOMAIN s
  BY DEF SchedulerStates
<1>2. \/ t = again
      \/ \E life \in Terminal : t = Ended(life, tick)
      \/ \E next \in {tick} \cup DrawnTicks(tick) : t = [Ended("running", tick) EXCEPT !.next = next]
  BY DEF NextActivityStates, Terminal
<1> HIDE DEF counted
<1>3. DOMAIN counted = {"life", "segment", "next", "attempted", "succeeded", "failed", "inFlight", "occurrence", "retry"}
  BY <1>1 DEF SchedulerStates
<1>4. \A next \in {tick} \cup DrawnTicks(tick) : next >= tick
  BY WindowAssumption DEF DrawnTicks
<1>5. CASE t = again
  BY <1>1, <1>3, <1>4, <1>5 DEF KeepsPace
<1>6. CASE \E life \in Terminal : t = Ended(life, tick)
  BY <1>1, <1>3, <1>4, <1>6 DEF KeepsPace
<1>7. CASE \E next \in {tick} \cup DrawnTicks(tick) : t = [Ended("running", tick) EXCEPT !.next = next]
  BY <1>1, <1>3, <1>4, <1>7 DEF KeepsPace
<1> QED  BY <1>2, <1>5, <1>6, <1>7

\* So is one without a candidate.
LEMMA EmptyKeepsPace ==
    ASSUME NEW s \in SchedulerStates, NEW tick \in Nat, NEW t \in EmptyActivityStates(s, tick)
    PROVE  KeepsPace(s, t, tick)
<1>1. \A next \in {tick} \cup DrawnTicks(tick) : next >= tick
  BY WindowAssumption DEF DrawnTicks
<1> QED  BY <1>1 DEF EmptyActivityStates, KeepsPace, SchedulerStates, Terminal

LEMMA ReservingPaces ==
    ASSUME NEW w \in Snapshots, NEW i \in DOMAIN Policies, NEW batch \in SUBSET Participants, IsFiniteSet(batch)
    PROVE  Paces(w, ReserveBatch(w, i, batch))
<1> DEFINE v == ReserveBatch(w, i, batch)
<1>1. /\ v.clock = w.clock
      /\ \A p \in Participants : p \notin batch => v.st[p] = w.st[p]
      /\ \A j \in DOMAIN Policies : j # i => v.svc[j] = w.svc[j]
  BY ReserveBatchTypes
<1>2. ASSUME NEW p \in batch  PROVE  v.st[p] = [w.st[p] EXCEPT !.attempted = @ + 1, !.inFlight = @ + 1]
  BY DEF ReserveBatch, Snapshots
<1>3. v.svc[i].life = w.svc[i].life
  <2>1. w.svc \in [DOMAIN Policies -> ServiceStates] /\ w.svc[i] \in ServiceStates
    BY SnapshotParts
  <2>2. v.svc[i] = [w.svc[i] EXCEPT !.inFlight = @ + Cardinality(batch), !.quiescent = FALSE]
    BY <2>1 DEF ReserveBatch, Snapshots
  <2> QED  BY <2>1, <2>2 DEF ServiceStates
<1> HIDE DEF v
<1>4. ASSUME NEW p \in Participants  PROVE  KeepsPace(w.st[p], v.st[p], w.clock.tick)
  <2>1. w.st[p] \in SchedulerStates
    BY SnapshotParts
  <2>2. CASE p \in batch
    <3>1. v.st[p].segment = w.st[p].segment /\ v.st[p].life = w.st[p].life /\ v.st[p].next = w.st[p].next
      BY <1>2, <2>1, <2>2 DEF SchedulerStates
    <3>2. w.st[p].next \in Nat
      BY <2>1 DEF SchedulerStates
    <3> QED  BY <3>1, <3>2 DEF KeepsPace
  <2>3. CASE p \notin batch
    BY <1>1, <2>1, <2>3 DEF KeepsPace, SchedulerStates
  <2> QED  BY <2>2, <2>3
<1>5. Paces(w, v)
  BY <1>1, <1>3, <1>4 DEF Paces
<1> QED  BY <1>5 DEF v

LEMMA SettlingPaces ==
    ASSUME NEW base \in Snapshots, AtRest(base), NEW i \in DOMAIN Policies,
           NEW batch \in SUBSET Participants, IsFiniteSet(batch), NEW results,
           NEW w, w = ReserveBatch(base, i, batch), NEW v, v = SettleBatch(w, base, i, batch, results)
    PROVE  Paces(w, v)
<1> DEFINE settled(p) == NextActionState(p, base.st[p], results[p] = "succeeded", results[p] = "invalid")
<1>1. w \in Snapshots /\ w.clock = base.clock
  BY ReserveBatchTypes
<1>2. /\ v.clock = w.clock
      /\ \A p \in Participants : v.st[p] = IF p \in batch THEN settled(p) ELSE w.st[p]
      /\ \A j \in DOMAIN Policies : v.svc[j].life = w.svc[j].life
  <2> DEFINE u == [w EXCEPT !.st = [p \in Participants |-> IF p \in batch THEN settled(p) ELSE w.st[p]]]
  <2>1. v = [u EXCEPT !.svc = [u.svc EXCEPT ![i] = base.svc[i]]]
    BY DEF SettleBatch, SettleService
  <2>2. /\ u.clock = w.clock /\ u.svc = w.svc
        /\ \A p \in Participants : u.st[p] = IF p \in batch THEN settled(p) ELSE w.st[p]
        /\ DOMAIN u = {"clock", "st", "svc", "led"}
    BY <1>1 DEF Snapshots
  <2>3. w.svc \in [DOMAIN Policies -> ServiceStates]
    BY <1>1, SnapshotParts
  <2> HIDE DEF u
  <2>4. base.svc[i].life = w.svc[i].life
    BY ReservingPaces DEF Paces
  <2>5. v.clock = w.clock /\ v.st = u.st /\ v.svc = [w.svc EXCEPT ![i] = base.svc[i]]
    BY <2>1, <2>2
  <2> QED  BY <2>2, <2>3, <2>4, <2>5
<1>3. ASSUME NEW p \in batch
      PROVE  w.st[p].segment = base.st[p].segment /\ w.st[p].life = base.st[p].life /\ w.st[p].next = base.st[p].next
  <2>1. base.st[p] \in SchedulerStates
    BY SnapshotParts
  <2>2. w.st[p] = [base.st[p] EXCEPT !.attempted = @ + 1, !.inFlight = @ + 1]
    BY DEF ReserveBatch, Snapshots
  <2> QED  BY <2>1, <2>2 DEF SchedulerStates
<1>4. ASSUME NEW p \in Participants  PROVE  KeepsPace(w.st[p], v.st[p], w.clock.tick)
  <2>1. CASE p \in batch
    <3>1. base.st[p] \in SchedulerStates
      BY SnapshotParts
    <3>2. KeepsPace(base.st[p], settled(p), w.clock.tick)
      BY <3>1, ActionKeepsPace
    <3> HIDE DEF settled
    <3> QED  BY <1>2, <1>3, <2>1, <3>2 DEF KeepsPace
  <2>2. CASE p \notin batch
    <3>1. w.st[p].next \in Nat
      BY <1>1, SnapshotParts DEF SchedulerStates
    <3> QED  BY <1>2, <2>2, <3>1 DEF KeepsPace
  <2> QED  BY <2>1, <2>2
<1> QED  BY <1>2, <1>4 DEF Paces

\* The driver's failure closes every service and leaves the rest alone.
LEMMA PacingFailureSteps ==
    ASSUME NEW w \in Snapshots, Stepped(w)
    PROVE  Stepped(PacingFailure(w))
<1> DEFINE v == PacingFailure(w)
<1>1. v.clock = w.clock /\ v.st = w.st
  BY DEF PacingFailure, Snapshots
<1>2. ASSUME NEW i \in DOMAIN Policies  PROVE  v.svc[i].life = "paused"
  <2>1. w.svc[i] \in ServiceStates
    BY SnapshotParts
  <2>2. v.svc[i] = [w.svc[i] EXCEPT !.life = "paused", !.health = "degraded"]
    BY DEF PacingFailure, Snapshots
  <2> QED  BY <2>1, <2>2 DEF ServiceStates
<1> HIDE DEF v
<1>3. \A p \in Participants : ~Accepts(v, PolicyOf(p))
  BY <1>2, PolicyIsUnique DEF Accepts
<1>4. Stepped(v)
  BY <1>1, <1>3 DEF Stepped, Agreeing, Timely
<1> QED  BY <1>4 DEF v

LEMMA DivisionRoundsDown ==
    ASSUME NEW n \in Nat, NEW c \in Nat, c > 0
    PROVE  n < (n \div c) * c + c
OBVIOUS

\* A cadence that is aligned to a tick starts no earlier than at that tick.
LEMMA AlignedCadence ==
    ASSUME NEW p \in Participants, NEW tick \in Nat
    PROVE  FirstTick(Policies[PolicyOf(p)], tick) >= tick
<1> DEFINE policy == Policies[PolicyOf(p)]
           start == policy.start
           cadence == policy.cadence
<1>1. start \in Nat /\ cadence \in Nat /\ cadence > 0
  BY PolicyNumbers
<1>2. CASE start >= tick
  BY <1>1, <1>2 DEF FirstTick
<1>3. CASE ~(start >= tick)
  <2> DEFINE d == tick - start
             n == d + cadence - 1
             q == n \div cadence
  <2>1. FirstTick(Policies[PolicyOf(p)], tick) = start + q * cadence
    BY <1>3 DEF FirstTick
  <2>2. d \in Nat /\ n \in Nat /\ tick = start + d
    BY <1>1, <1>3
  <2>3. q \in Nat
    BY <1>1, <2>2
  <2>4. n < q * cadence + cadence
    BY <1>1, <2>2, DivisionRoundsDown
  <2>5. q * cadence \in Nat
    BY <1>1, <2>3
  <2> DEFINE m == q * cadence
  <2>6. m \in Nat /\ d + cadence - 1 < m + cadence /\ FirstTick(Policies[PolicyOf(p)], tick) = start + m
    BY <2>1, <2>4, <2>5
  <2> HIDE DEF q, d, m
  <2> QED  BY <1>1, <2>2, <2>6
<1> QED  BY <1>2, <1>3

LEMMA FreshStatesAreTimely ==
    ASSUME NEW clock \in Clocks, NEW p \in Participants
    PROVE  /\ \A s \in ResetStates(p, clock) : s.next >= clock.tick /\ s.life = "running"
           /\ clock.tick = 0 => \A s \in InitialStates(p, clock) :
                 s.next >= clock.tick /\ s.life \in {"running", "completed"} /\ s.segment = clock.segment
<1>1. clock.tick \in Nat /\ clock.segment \in Nat
  BY DEF Clocks
<1>2. /\ FirstTick(Policies[PolicyOf(p)], clock.tick) >= clock.tick
      /\ FirstTick(Policies[PolicyOf(p)], clock.tick) \in Nat /\ Policies[PolicyOf(p)].start \in Nat
  BY <1>1, AlignedCadence, FirstTickType, PolicyNumbers
<1>3. \A t \in {clock.tick} \cup DrawnTicks(clock.tick) : t \in Nat /\ t >= clock.tick
  BY <1>1, WindowAssumption DEF DrawnTicks
<1>4. \A s \in ResetStates(p, clock) : s.next >= clock.tick /\ s.life = "running"
  BY <1>1, <1>2, <1>3 DEF ResetStates, InitialState
<1>5. ASSUME clock.tick = 0, NEW s \in InitialStates(p, clock)
      PROVE  s.next >= clock.tick /\ s.life \in {"running", "completed"} /\ s.segment = clock.segment
  BY <1>1, <1>2, <1>3, <1>5 DEF InitialStates, InitialState
<1> QED  BY <1>4, <1>5

LEMMA InitialIsInStep ==
    ASSUME NEW w \in InitialSnapshots
    PROVE  Stepped(w)
<1> DEFINE clock == [state |-> "running", segment |-> 0, tick |-> 0]
           svc == [i \in DOMAIN Policies |-> [life |-> "running", health |-> "healthy", generation |-> 0,
                                              inFlight |-> 0, quiescent |-> TRUE]]
<1>1. PICK st \in StatesFrom(LAMBDA p : InitialStates(p, clock)) :
          w = [clock |-> clock, st |-> st, led |-> InitialLedger, svc |-> svc]
  BY DEF InitialSnapshots
<1>2. \A p \in Participants : st[p] \in InitialStates(p, clock)
  BY DEF StatesFrom
<1>3. clock \in Clocks /\ clock.tick = 0 /\ clock.state = "running"
  BY DEF Clocks
<1>4. w.clock = clock /\ w.st = st
  BY <1>1
<1> HIDE DEF clock, svc
<1>5. ASSUME NEW p \in Participants
      PROVE  st[p].next >= clock.tick /\ st[p].life \in {"running", "completed"} /\ st[p].segment = clock.segment
  BY <1>2, <1>3, FreshStatesAreTimely
<1> QED  BY <1>3, <1>4, <1>5 DEF Stepped, Agreeing, Timely, Terminal

LEMMA ResetIsTimely ==
    ASSUME NEW w \in Snapshots, NEW v \in ResetSnapshots(w), NEW p \in Participants
    PROVE  Timely(v, p)
<1>1. PICK st \in StatesFrom(LAMBDA q : ResetStates(q, w.clock)) :
          v = [w EXCEPT !.st = st, !.led = ReconcileAll(w).ledger,
                        !.svc = [i \in DOMAIN Policies |-> ResetService(w.svc[i])]]
  BY DEF ResetSnapshots
<1>2. st[p] \in ResetStates(p, w.clock)
  BY DEF StatesFrom
<1>3. v.clock = w.clock /\ v.st = st /\ w.clock \in Clocks
  BY <1>1, SnapshotParts DEF Snapshots
<1> QED  BY <1>2, <1>3, FreshStatesAreTimely DEF Timely

\* Nobody is late on a paused clock.
LEMMA PausedIsTimely ==
    ASSUME NEW w \in Snapshots, NEW p \in Participants
    PROVE  Timely(ClockLifecycle(w, "paused"), p)
<1> DEFINE v == ClockLifecycle(w, "paused")
<1>1. w.st[p] \in SchedulerStates
  BY SnapshotParts
<1>2. v.st[p] = IF w.st[p].life \notin Terminal THEN [w.st[p] EXCEPT !.life = "paused"] ELSE w.st[p]
  BY DEF ClockLifecycle, Snapshots
<1>3. v.st[p].life # "running"
  BY <1>1, <1>2 DEF SchedulerStates, Terminal
<1> HIDE DEF v
<1>4. Timely(v, p)
  BY <1>3 DEF Timely
<1> QED  BY <1>4 DEF v

-----------------------------------------------------------------------------
(* Steps of a pass                                                          *)

\* Between its start and its publication a pass keeps pace, and finds in time whom it
\* passes.
LEMMA WorkGoesOn ==
    ASSUME FlightInv, StepInv, FlightInv', pass.pc \in {"due", "flight"}, pass'.pc \in {"due", "flight"},
           pass'.op = pass.op, pass'.pred = pass.pred, Paces(pass.work, pass'.work),
           UNCHANGED <<snap, driver, read>>, log'.torn = log.torn,
           ~pass'.failed => /\ ~pass.failed
                            /\ \A p \in Participants : PassedBy(p)' => PassedBy(p) \/ Timely(pass'.work, p),
           FlightIsRunning'
    PROVE  StepInv'
<1>1. ~Free /\ ~Free' /\ pass.work \in Snapshots /\ pass'.work \in Snapshots
  <2>1. ~Free /\ ~Free'
    BY DEF Free
  <2>2. pass \in Passes /\ pass' \in Passes
    BY <2>1, PassTypes DEF FlightInv, TypeOK, Free
  <2> QED  BY <2>1, <2>2 DEF Passes
<1>2. /\ Stepped(pass.work) => Stepped(pass'.work)
      /\ \A p \in Participants : Timely(pass.work, p) => Timely(pass'.work, p)
  BY <1>1, KeepingPace
<1> SUFFICES ASSUME ~log.torn
             PROVE  InStep' /\ DueInStep' /\ PassedInTime' /\ KeptInStep'
  BY DEF StepInv
<1>3. DueInStep /\ PassedInTime /\ KeptInStep
  BY DEF StepInv
<1>4. InStep'
  BY <1>1 DEF InStep
<1>5. DueInStep'
  BY <1>1, <1>2, <1>3 DEF DueInStep
<1>6. PassedInTime'
  <2> SUFFICES ASSUME ~pass'.failed, NEW p \in Participants, PassedBy(p)'
               PROVE  Timely(pass'.work, p)
    BY <1>3 DEF PassedInTime, Timely, Accepts
  <2> QED  BY <1>2, <1>3 DEF PassedInTime
<1>7. KeptInStep'
  BY <1>1, <1>3 DEF KeptInStep, IsBlank
<1> QED  BY <1>4, <1>5, <1>6, <1>7

\* Steps that change what is left of a pass, but not its snapshot.
LEMMA CourseKeepsStep ==
    ASSUME FlightInv, StepInv, FlightInv', pass.pc = "due",
           NEW pol, NEW todo, NEW batch, NEW failed,
           pass' = [pass EXCEPT !.pol = pol, !.todo = todo, !.batch = batch, !.failed = failed],
           ~failed => /\ ~pass.failed
                      /\ \A p \in Participants : PassedBy(p)' => PassedBy(p) \/ Timely(pass.work, p),
           UNCHANGED <<snap, driver, read, log>>
    PROVE  StepInv'
<1>1. pass \in Passes /\ pass.work \in Snapshots
  BY PassParts DEF FlightInv, Free
<1>2. /\ pass'.pc = "due" /\ pass'.op = pass.op /\ pass'.pred = pass.pred /\ pass'.work = pass.work
      /\ pass'.failed = failed
  BY <1>1 DEF Passes
<1>3. Paces(pass.work, pass'.work) /\ FlightIsRunning'
  BY <1>1, <1>2, SamePace DEF FlightIsRunning
<1> QED  BY <1>2, <1>3, WorkGoesOn

LEMMA FailKeepsStep ==
    ASSUME FlightInv, StepInv, FlightInv', pass.pc = "due", Fail, UNCHANGED <<snap, driver, read, log>>
    PROVE  StepInv'
<1>1. pass \in Passes
  BY PassParts DEF FlightInv, Free
<1>2. pass' = [pass EXCEPT !.pol = pass.pol, !.todo = pass.todo, !.batch = pass.batch, !.failed = TRUE]
  BY <1>1 DEF Fail, Passes
<1> QED  BY <1>2, CourseKeepsStep

LEMMA EnterPolicyKeepsStep ==
    ASSUME FlightInv, StepInv, FlightInv', EnterPolicy
    PROVE  StepInv'
<1> DEFINE i == pass.pol + 1
           due == DueParticipants(pass.work, i)
           concurrent == Policies[i].profile = "v1" /\ Cardinality(due) >= 2 /\ Policies[i].maxInFlight >= 2
           all == DOMAIN Policies[i].participants
           todo == IF concurrent THEN due ELSE all
<1>1. pass.pc = "due" /\ ~Free /\ pass.todo = {} /\ pass.failed = FALSE /\ pass.pol < Len(Policies)
      /\ pass \in Passes /\ pass.work \in Snapshots /\ pass.pol \in Nat /\ pass.batch = FALSE
      /\ UNCHANGED <<snap, driver, read, log>>
  <2>1. pass.pc = "due" /\ ~Free /\ pass.todo = {} /\ ~pass.failed /\ ~pass.batch /\ pass.pol < Len(Policies)
        /\ UNCHANGED <<snap, driver, read, log>>
    BY DEF EnterPolicy, Selecting, Free
  <2> QED  BY <2>1, PassParts DEF FlightInv
<1>2. i \in DOMAIN Policies
  BY <1>1, PolicyTypes
<1>3. ASSUME NEW p \in Participants, PolicyOf(p) < i  PROVE  PassedBy(p)
  <2>1. PolicyOf(p) \in Nat
    BY PolicyIsUnique, PolicyTypes
  <2>2. PolicyOf(p) <= pass.pol
    BY <1>1, <1>3, <2>1
  <2> QED  BY <1>1, <2>1, <2>2 DEF PassedBy
<1>4. ASSUME NEW p \in Participants, PassedBy(p)', pass'.pol = i  PROVE  PassedBy(p) \/ PolicyOf(p) = i
  BY <1>3, <1>4 DEF PassedBy
<1>5. \/ pass' = [pass EXCEPT !.pol = i] /\ ~Accepts(pass.work, i)
      \/ Fail
      \/ /\ pass' = [pass EXCEPT !.pol = i, !.batch = concurrent, !.todo = todo]
         /\ Policies[i].profile = "v1" => \A p \in ToSet(Policies[i].participants) : ~Missed(pass.work, p)
  BY Zenon DEF EnterPolicy
<1>6. CASE pass' = [pass EXCEPT !.pol = i] /\ ~Accepts(pass.work, i)
  <2>1. pass' = [pass EXCEPT !.pol = i, !.todo = pass.todo, !.batch = pass.batch, !.failed = FALSE] /\ pass'.pol = i
    BY <1>1, <1>6 DEF Passes
  <2>2. ASSUME NEW p \in Participants, PassedBy(p)'  PROVE  PassedBy(p) \/ Timely(pass.work, p)
    BY <1>4, <1>6, <2>1, <2>2 DEF Timely
  <2> HIDE DEF i
  <2> QED  BY <1>1, <2>1, <2>2, CourseKeepsStep
<1>7. CASE Fail
  BY <1>1, <1>7, FailKeepsStep
<1>8. CASE /\ pass' = [pass EXCEPT !.pol = i, !.batch = concurrent, !.todo = todo]
           /\ Policies[i].profile = "v1" => \A p \in ToSet(Policies[i].participants) : ~Missed(pass.work, p)
  <2> HIDE DEF i, concurrent, todo
  <2>1. pass' = [pass EXCEPT !.pol = i, !.todo = todo, !.batch = concurrent, !.failed = FALSE]
        /\ pass'.pol = i /\ pass'.todo = todo
    BY <1>1, <1>8 DEF Passes
  <2>2. ASSUME NEW p \in Participants, PassedBy(p)', PolicyOf(p) = i  PROVE  Timely(pass.work, p)
    <3>1. p \in ToSet(Policies[i].participants) /\ Policies[i].profile \in {"v1", "v3"}
      BY <1>2, <2>2, PolicyIsUnique, PoliciesAssumption
    <3>2. CASE Policies[i].profile = "v1"
      <4>1. ~Missed(pass.work, p) /\ pass.work.st[p].next \in Nat /\ pass.work.clock.tick \in Nat
        BY <1>1, <1>8, <3>1, <3>2, SnapshotParts DEF SchedulerStates
      <4> QED  BY <4>1 DEF Missed, Timely
    <3>3. CASE Policies[i].profile = "v3"
      <4>1. todo = all /\ Governed(p)
        BY <2>2, <3>3 DEF todo, concurrent, Governed
      <4>2. PICK k \in all : Policies[i].participants[k] = p
        BY <3>1 DEF ToSet
      <4>3. Peer(k)' = p
        BY <2>1, <4>2 DEF Peer
      <4>4. ~(i < i)
        BY <1>2, PolicyTypes
      <4> QED  BY <2>1, <2>2, <4>1, <4>2, <4>3, <4>4 DEF PassedBy
    <3> QED  BY <3>1, <3>2, <3>3
  <2>3. ASSUME NEW p \in Participants, PassedBy(p)'  PROVE  PassedBy(p) \/ Timely(pass.work, p)
    BY <1>4, <2>1, <2>2, <2>3 DEF i
  <2> QED  BY <1>1, <2>1, <2>3, CourseKeepsStep
<1> QED  BY <1>5, <1>6, <1>7, <1>8

LEMMA SelectionKeepsStep ==
    ASSUME FlightInv, StepInv, FlightInv',
           FailBeforeDispatch \/ LeaveBatches \/ \E p \in Participants : CadenceMissed(p)
    PROVE  StepInv'
<1>1. pass.pc = "due" /\ pass \in Passes /\ ~pass.failed /\ UNCHANGED <<snap, driver, read, log>>
  <2>1. pass.pc = "due" /\ ~Free /\ ~pass.failed /\ UNCHANGED <<snap, driver, read, log>>
    BY DEF FailBeforeDispatch, LeaveBatches, CadenceMissed, Serial, Selecting, Free
  <2> QED  BY <2>1, PassParts DEF FlightInv
<1>2. CASE LeaveBatches
  <2>1. pass' = [pass EXCEPT !.pol = pass.pol, !.todo = pass.todo, !.batch = FALSE, !.failed = pass.failed]
        /\ pass'.pol = pass.pol /\ pass'.todo = pass.todo
    BY <1>1, <1>2 DEF LeaveBatches, Passes
  <2>2. ASSUME NEW p \in Participants, PassedBy(p)'  PROVE  PassedBy(p)
    BY <2>1, <2>2 DEF PassedBy, Peer
  <2> QED  BY <1>1, <2>1, <2>2, CourseKeepsStep
<1>3. CASE Fail
  BY <1>1, <1>3, FailKeepsStep
<1> QED  BY <1>2, <1>3 DEF FailBeforeDispatch, CadenceMissed

\* Passing one more participant by leaves the others of the policy to be serviced.
LEMMA OneIsPassed ==
    ASSUME FlightInv, NEW p \in Participants, Serial(p), pass'.pol = pass.pol, pass'.todo = Rest,
           NEW q \in Participants, PassedBy(q)'
    PROVE  PassedBy(q) \/ q = p
<1>1. CASE PolicyOf(q) = pass.pol /\ Governed(q)
  <2>1. ASSUME NEW k \in pass.todo, Peer(k) = q, q # p  PROVE  FALSE
    <3>1. k \in Rest
      BY <2>1 DEF Rest, Serial
    <3> QED  BY <1>1, <2>1, <3>1, PolicyIsUnique, PolicyTypes DEF PassedBy, Peer
  <2> QED  BY <1>1, <2>1 DEF PassedBy
<1>2. CASE ~(PolicyOf(q) = pass.pol /\ Governed(q))
  BY <1>2 DEF PassedBy
<1> QED  BY <1>1, <1>2

LEMMA SkipKeepsStep ==
    ASSUME FlightInv, StepInv, FlightInv', NEW p \in Participants, SkipParticipant(p)
    PROVE  StepInv'
<1>1. /\ Serial(p) /\ ~Missed(pass.work, p) /\ pass' = [pass EXCEPT !.todo = Rest]
      /\ UNCHANGED <<snap, driver, read, log>>
  BY DEF SkipParticipant
<1>2. pass.pc = "due" /\ pass \in Passes /\ pass.failed = FALSE /\ pass.work \in Snapshots
  BY <1>1, SerialParts
<1>3. pass' = [pass EXCEPT !.pol = pass.pol, !.todo = Rest, !.batch = pass.batch, !.failed = pass.failed]
      /\ pass'.pol = pass.pol /\ pass'.todo = Rest
  BY <1>1, <1>2 DEF Passes
<1>4. Timely(pass.work, p)
  <2>1. pass.work.st[p].next \in Nat /\ pass.work.clock.tick \in Nat
    BY <1>2, SnapshotParts DEF SchedulerStates
  <2> QED  BY <1>1, <2>1 DEF Missed, Timely
<1>5. ASSUME NEW q \in Participants, PassedBy(q)'  PROVE  PassedBy(q) \/ Timely(pass.work, q)
  BY <1>1, <1>3, <1>4, <1>5, OneIsPassed
<1>6. pass.failed = FALSE /\ UNCHANGED <<snap, driver, read, log>>
  BY <1>1, <1>2
<1> QED  BY <1>2, <1>3, <1>5, <1>6, CourseKeepsStep

LEMMA NoCandidateKeepsStep ==
    ASSUME FlightInv, StepInv, FlightInv', NEW p \in Participants, NoCandidate(p)
    PROVE  StepInv'
<1>1. Serial(p) /\ Due(pass.work, p) /\ UNCHANGED <<snap, driver, read, log>>
  BY DEF NoCandidate
<1>2. pass.pc = "due" /\ pass \in Passes /\ pass.failed = FALSE /\ pass.work \in Snapshots
  BY <1>1, SerialParts
<1>3. PICK s \in EmptyActivityStates(pass.work.st[p], pass.work.clock.tick) :
          pass' = [pass EXCEPT !.work.st[p] = s, !.todo = Rest]
  BY DEF NoCandidate
<1> DEFINE w == [pass.work EXCEPT !.st[p] = s]
<1>4. pass' = [pass EXCEPT !.work = w, !.todo = Rest]
  BY <1>2, <1>3
<1>5. pass.work.st[p] \in SchedulerStates /\ pass.work.clock.tick \in Nat
  BY <1>2, SnapshotParts
<1>6. KeepsPace(pass.work.st[p], s, pass.work.clock.tick)
  BY <1>5, EmptyKeepsPace
<1>7. Paces(pass.work, w)
  BY <1>2, <1>6, OneStatePaces
<1> HIDE DEF w
<1>8. /\ pass'.pc = "due" /\ pass'.op = pass.op /\ pass'.pred = pass.pred /\ pass'.work = w
      /\ pass'.failed = FALSE /\ pass'.pol = pass.pol /\ pass'.todo = Rest /\ pass' \in Passes
  <2>1. /\ pass'.pc = "due" /\ pass'.op = pass.op /\ pass'.pred = pass.pred /\ pass'.work = w
        /\ pass'.failed = FALSE /\ pass'.pol = pass.pol /\ pass'.todo = Rest
    BY <1>2, <1>4 DEF Passes
  <2> QED  BY <2>1, PassTypes DEF FlightInv, TypeOK
<1>9. w \in Snapshots
  BY <1>8 DEF Passes
<1>10. Timely(w, p)
  <2>1. Timely(pass.work, p)
    BY <1>1, <1>5 DEF Due, Timely
  <2> QED  BY <1>2, <1>7, <1>9, <2>1, KeepingPace
<1>11. ASSUME NEW q \in Participants, PassedBy(q)'  PROVE  PassedBy(q) \/ Timely(w, q)
  BY <1>1, <1>8, <1>10, <1>11, OneIsPassed
<1>12. FlightIsRunning'
  BY <1>8 DEF FlightIsRunning
<1> QED  BY <1>1, <1>2, <1>7, <1>8, <1>11, <1>12, WorkGoesOn

-----------------------------------------------------------------------------
(* Submissions and answers                                                  *)

\* What is handed over belongs to the policy the pass is in.
LEMMA SubmitKeepsStep ==
    ASSUME FlightInv, StepInv, FlightInv', Selecting, NEW fly, NEW work, NEW todo, Submit(fly, work, todo),
           Paces(pass.work, work), pass.batch \/ todo = pass.todo,
           \A p \in fly : Governed(p) => work.st[p].life = "running",
           UNCHANGED <<snap, driver, read>>
    PROVE  StepInv'
<1>1. pass.pc = "due" /\ ~Free /\ ~pass.failed
  BY DEF Selecting, Free
<1>2. pass \in Passes
  BY <1>1, PassParts DEF FlightInv
<1>3. /\ pass'.pc = "flight" /\ pass'.op = pass.op /\ pass'.pred = pass.pred /\ pass'.work = work
      /\ pass'.failed = pass.failed /\ pass'.pol = pass.pol /\ pass'.todo = todo /\ pass'.fly = fly
  BY <1>2 DEF Submit, Passes
<1>4. log'.torn = log.torn
  BY DEF Submit, FlightInv, TypeOK
<1>5. FlightIsRunning'
  BY <1>1, <1>3 DEF FlightIsRunning
<1>6. ASSUME NEW p \in Participants, PassedBy(p)'  PROVE  PassedBy(p)
  <2>1. CASE pass.batch
    <3>1. Policies[pass.pol].profile = "v1"
      BY <1>1, <2>1 DEF FlightInv, OnCourse
    <3> QED  BY <1>3, <1>6, <3>1 DEF PassedBy, Governed
  <2>2. CASE todo = pass.todo
    BY <1>3, <1>6, <2>2 DEF PassedBy, Peer
  <2> QED  BY <2>1, <2>2
<1> QED  BY <1>1, <1>3, <1>4, <1>5, <1>6, WorkGoesOn

LEMMA SubmitBatchKeepsStep ==
    ASSUME FlightInv, StepInv, FlightInv', SubmitBatch
    PROVE  StepInv'
<1> DEFINE chunk == First(pass.todo, BatchSize)
           fly == {Peer(k) : k \in chunk}
           work == ReserveBatch(pass.work, pass.pol, fly)
           todo == pass.todo \ chunk
<1>1. /\ Selecting /\ pass.batch /\ Submit(fly, work, todo) /\ UNCHANGED <<snap, driver, read>>
      /\ pass.pc = "due" /\ ~Free
  BY DEF SubmitBatch, Selecting, Free
<1> HIDE DEF fly, todo
<1>2. pass \in Passes /\ pass.work \in Snapshots
  BY <1>1, PassParts DEF FlightInv
<1>3. /\ pass'.pc = "flight" /\ pass'.fly = fly /\ pass'.pol = pass.pol
  BY <1>1, <1>2 DEF Submit, Passes
<1>4. /\ pass.pol \in DOMAIN Policies /\ Policies[pass.pol].profile = "v1"
  BY <1>1 DEF FlightInv, OnCourse
<1>5. /\ IsFiniteSet(fly) /\ fly \subseteq ToSet(Policies[pass.pol].participants)
  BY <1>3 DEF FlightInv, OnCourse, Free
<1>6. fly \in SUBSET Participants /\ \A p \in fly : ~Governed(p)
  <2>1. \A p \in fly : p \in Participants /\ PolicyOf(p) = pass.pol
    BY <1>4, <1>5, PolicyIsUnique DEF Participants
  <2> QED  BY <1>4, <2>1 DEF Governed
<1>7. Paces(pass.work, work)
  BY <1>2, <1>4, <1>5, <1>6, ReservingPaces
<1> HIDE DEF work
<1> QED  BY <1>1, <1>6, <1>7, SubmitKeepsStep

LEMMA SubmitOneKeepsStep ==
    ASSUME FlightInv, StepInv, FlightInv', NEW p \in Participants, SubmitAction(p) \/ SubmitActivity(p)
    PROVE  StepInv'
<1>1. Serial(p) /\ Selecting /\ Due(pass.work, p) /\ UNCHANGED <<snap, driver, read>>
  BY DEF SubmitAction, SubmitActivity, Serial
<1>2. pass.pc = "due" /\ pass.work \in Snapshots
  BY <1>1, SerialParts
<1>3. \/ Submit({p}, pass.work, pass.todo)
      \/ \E led : Submit({p}, [pass.work EXCEPT !.led = led], pass.todo)
      \/ Fail /\ log' = log
  BY DEF SubmitAction, SubmitActivity
<1>4. CASE Submit({p}, pass.work, pass.todo)
  <2>1. Paces(pass.work, pass.work)
    BY <1>2, SamePace
  <2> QED  BY <1>1, <1>4, <2>1, SubmitKeepsStep DEF Due
<1>5. CASE \E led : Submit({p}, [pass.work EXCEPT !.led = led], pass.todo)
  <2>1. PICK led : Submit({p}, [pass.work EXCEPT !.led = led], pass.todo)
    BY <1>5
  <2> DEFINE work == [pass.work EXCEPT !.led = led]
  <2>2. work.clock = pass.work.clock /\ work.svc = pass.work.svc /\ work.st = pass.work.st
    BY <1>2 DEF Snapshots
  <2>3. Submit({p}, work, pass.todo)
    BY <2>1
  <2> HIDE DEF work
  <2>4. Paces(pass.work, work)
    BY <1>2, <2>2, SamePace
  <2> QED  BY <1>1, <2>2, <2>3, <2>4, SubmitKeepsStep DEF Due
<1>6. CASE Fail /\ log' = log
  BY <1>1, <1>2, <1>6, FailKeepsStep
<1> QED  BY <1>3, <1>4, <1>5, <1>6

\* A settled flight goes on with the policy, or ends the pass as failed.
LEMMA SettledKeepsStep ==
    ASSUME FlightInv, StepInv, FlightInv', pass.pc = "flight", NEW work, NEW failed, Settled(work, failed),
           Paces(pass.work, work), UNCHANGED <<snap, driver, read>>, log'.torn = log.torn
    PROVE  StepInv'
<1>1. pass \in Passes /\ ~pass.failed
  BY FlightParts DEF StepInv, FlightIsRunning
<1>2. /\ pass'.pc = "due" /\ pass'.op = pass.op /\ pass'.pred = pass.pred /\ pass'.work = work
      /\ pass'.pol = pass.pol /\ pass'.todo = pass.todo
  BY <1>1 DEF Settled, Passes
<1>3. FlightIsRunning'
  BY <1>2 DEF FlightIsRunning
<1>4. ASSUME NEW p \in Participants, PassedBy(p)'  PROVE  PassedBy(p)
  BY <1>2, <1>4 DEF PassedBy, Peer
<1> QED  BY <1>1, <1>2, <1>3, <1>4, WorkGoesOn

LEMMA SettleBatchKeepsStep ==
    ASSUME FlightInv, StepInv, FlightInv', (\E results : SettleResults(results)) \/ SettleLost
    PROVE  StepInv'
<1>1. pass.pc = "flight" /\ pass.batch /\ UNCHANGED <<snap, driver, read>> /\ log'.torn = log.torn
  BY DEF SettleResults, SettleLost, FlightInv, TypeOK
<1>2. /\ pass.pol \in DOMAIN Policies /\ pass.base \in Snapshots /\ AtRest(pass.base)
      /\ pass.fly \in SUBSET Participants /\ IsFiniteSet(pass.fly)
      /\ pass.work = ReserveBatch(pass.base, pass.pol, pass.fly)
  BY <1>1, FlightParts
<1>3. PICK results, failed : Settled(SettleBatch(pass.work, pass.base, pass.pol, pass.fly, results), failed)
  BY DEF SettleResults, SettleLost, SettleIndeterminate
<1> DEFINE work == SettleBatch(pass.work, pass.base, pass.pol, pass.fly, results)
<1>4. Paces(pass.work, work)
  BY <1>2, SettlingPaces
<1> HIDE DEF work
<1>5. Settled(work, failed)
  BY <1>3 DEF work
<1> QED  BY <1>1, <1>4, <1>5, SettledKeepsStep

LEMMA SettleActionKeepsStep ==
    ASSUME FlightInv, StepInv, FlightInv', NEW p \in pass.fly, NEW result, SettleAction(p, result)
    PROVE  StepInv'
<1> DEFINE s == NextActionState(p, pass.work.st[p], result = "succeeded", result = "invalid")
           work == [pass.work EXCEPT !.st[p] = s]
<1>1. pass.pc = "flight" /\ Settled(work, Stops(pass.pol, result)) /\ UNCHANGED <<snap, driver, read, log>>
  BY DEF SettleAction
<1>2. pass.work \in Snapshots /\ p \in Participants
  BY <1>1, FlightParts
<1>3. pass.work.st[p] \in SchedulerStates
  BY <1>2, SnapshotParts
<1>4. KeepsPace(pass.work.st[p], s, pass.work.clock.tick)
  BY <1>2, <1>3, ActionKeepsPace
<1> HIDE DEF s
<1>5. Paces(pass.work, work)
  BY <1>2, <1>4, OneStatePaces
<1> HIDE DEF work
<1> QED  BY <1>1, <1>5, SettledKeepsStep

LEMMA SettleUntrustedKeepsStep ==
    ASSUME FlightInv, StepInv, FlightInv', NEW p \in pass.fly, SettleUntrusted(p)
    PROVE  StepInv'
<1>1. pass.pc = "flight" /\ UNCHANGED <<snap, driver, read>> /\ log'.torn = log.torn
  BY DEF SettleUntrusted, FlightInv, TypeOK
<1>2. PICK led : Settled([pass.work EXCEPT !.led = led], TRUE)
  BY DEF SettleUntrusted
<1>3. pass.work \in Snapshots
  BY <1>1, FlightParts
<1> DEFINE work == [pass.work EXCEPT !.led = led]
<1>4. work.clock = pass.work.clock /\ work.svc = pass.work.svc /\ work.st = pass.work.st
  BY <1>3 DEF Snapshots
<1>5. Settled(work, TRUE)
  BY <1>2
<1> HIDE DEF work
<1>6. Paces(pass.work, work)
  BY <1>3, <1>4, SamePace
<1> QED  BY <1>1, <1>5, <1>6, SettledKeepsStep

\* An exception leaves the published snapshot: the predecessor, unless a time control
\* has moved the clock and not yet serviced what is due, which is torn.
LEMMA RaiseKeepsStep ==
    ASSUME FlightInv, StepInv, FlightInv', pass.pc \in {"due", "flight"}, Raise
    PROVE  StepInv'
<1>1. /\ pass'.pc = "free" /\ Free' /\ ~Free /\ UNCHANGED <<snap, read>>
      /\ driver' = "publishing" => driver = "publishing"
      /\ log' = [Forget(snap) EXCEPT !.torn = @ \/ pass.op \in {"advance", "jump"}]
  BY PassTypes DEF Raise, Free
<1>2. log'.torn = (log.torn \/ pass.op \in {"advance", "jump"})
  BY <1>1 DEF FlightInv, TypeOK, Forget
<1>3. FlightIsRunning'
  BY <1>1 DEF FlightIsRunning
<1> SUFFICES ASSUME ~log'.torn  PROVE  InStep' /\ DueInStep' /\ PassedInTime' /\ KeptInStep'
  BY <1>3 DEF StepInv
<1>4. ~log.torn /\ pass.op \notin {"advance", "jump"}
  BY <1>2
<1>5. DueInStep /\ KeptInStep
  BY <1>4 DEF StepInv
<1>6. CASE pass.op \in {"run_due", "apply"}
  <2>1. snap = pass.pred
    BY <1>1, <1>5, <1>6 DEF DueInStep
  <2>2. InStep'
    BY <1>1, <1>5, <2>1 DEF InStep, KeptInStep
  <2>3. DueInStep' /\ PassedInTime' /\ KeptInStep'
    BY <1>1, <1>5 DEF DueInStep, PassedInTime, KeptInStep
  <2> QED  BY <2>2, <2>3
<1>7. pass.op \notin {"pause", "resume", "reset"}
  BY <1>4 DEF StepInv, PassedInTime
<1>8. pass.op \in {"apply", "run_due", "advance", "pause", "resume", "jump", "reset"}
  BY <1>1, PassParts DEF FlightInv
<1> QED  BY <1>4, <1>6, <1>7, <1>8

LEMMA SettleActivityKeepsStep ==
    ASSUME FlightInv, StepInv, FlightInv', NEW p \in pass.fly, NEW outcome, NEW extent,
           SettleActivity(p, outcome, extent)
    PROVE  StepInv'
<1> DEFINE s == pass.work.st[p]
           tick == pass.work.clock.tick
<1>1. pass.pc = "flight" /\ Governed(p)
  BY DEF SettleActivity
<1>2. /\ pass.work \in Snapshots /\ p \in Participants /\ s \in SchedulerStates /\ tick \in Nat
      /\ s.life = "running"
  BY <1>1, GovernedParts DEF StepInv, FlightIsRunning
<1>3. \/ /\ \E led : \E next \in NextActivityStates(p, s, tick, outcome) :
               Settled([pass.work EXCEPT !.led = led, !.st[p] = next], next.life = "failed")
         /\ UNCHANGED <<snap, driver, read, log>>
      \/ /\ Settled(pass.work, TRUE) /\ UNCHANGED <<snap, driver, read>>
         /\ log' = [log EXCEPT !.forgotten = @ \cup {Operation(p, s)}]
      \/ Raise
  <2> DEFINE budgets == Policies[pass.pol].budgets
             measured == [b \in budgets |-> CASE extent = "none" -> 0
                                               [] extent = "reserved" -> Budget[b].demand
                                               [] extent = "more" -> Budget[b].demand + 1]
             commit == Commit(pass.work.led, budgets, Operation(p, s), pass.work.svc[pass.pol].generation, measured)
  <2>1. commit.disposition \in {"ok", "refused", "raised"}
    <3> HIDE DEF measured, budgets
    <3> QED  BY ResultsOfLedger
  <2>2. CASE commit.disposition = "ok"
    <3>1. /\ \E next \in NextActivityStates(p, s, tick, outcome) :
                Settled([pass.work EXCEPT !.led = commit.ledger, !.st[p] = next], next.life = "failed")
          /\ UNCHANGED <<snap, driver, read, log>>
      BY <2>2 DEF SettleActivity
    <3> DEFINE Ends(led) == \E next \in NextActivityStates(p, s, tick, outcome) :
                   Settled([pass.work EXCEPT !.led = led, !.st[p] = next], next.life = "failed")
    <3>2. Ends(commit.ledger)
      BY <3>1
    <3> HIDE DEF Ends, commit
    <3>3. \E led : Ends(led)
      BY <3>2
    <3> QED  BY <3>1, <3>3 DEF Ends
  <2>3. CASE commit.disposition = "refused"
    BY <2>3 DEF SettleActivity
  <2>4. CASE commit.disposition = "raised"
    BY <2>4 DEF SettleActivity
  <2> QED  BY <2>1, <2>2, <2>3, <2>4
<1>4. CASE /\ \E led : \E next \in NextActivityStates(p, s, tick, outcome) :
                 Settled([pass.work EXCEPT !.led = led, !.st[p] = next], next.life = "failed")
           /\ UNCHANGED <<snap, driver, read, log>>
  <2>1. PICK led : \E next \in NextActivityStates(p, s, tick, outcome) :
            Settled([pass.work EXCEPT !.led = led, !.st[p] = next], next.life = "failed")
    BY <1>4
  <2> PICK next \in NextActivityStates(p, s, tick, outcome) :
          Settled([pass.work EXCEPT !.led = led, !.st[p] = next], next.life = "failed")
    BY <2>1
  <2> DEFINE w == [pass.work EXCEPT !.st[p] = next]
             work == [pass.work EXCEPT !.led = led, !.st[p] = next]
  <2>2. KeepsPace(s, next, tick)
    <3> HIDE DEF s, tick
    <3> QED  BY <1>2, ActivityKeepsPace
  <2>3. Paces(pass.work, w)
    BY <1>2, <2>2, OneStatePaces
  <2>4. work.clock = w.clock /\ work.svc = w.svc /\ work.st = w.st
    BY <1>2 DEF Snapshots
  <2>5. Settled(work, next.life = "failed")
    BY <2>1
  <2> HIDE DEF w, work
  <2>6. Paces(pass.work, work)
    BY <2>3, <2>4 DEF Paces
  <2> QED  BY <1>1, <1>4, <2>5, <2>6, SettledKeepsStep
<1>5. CASE /\ Settled(pass.work, TRUE) /\ UNCHANGED <<snap, driver, read>>
           /\ log' = [log EXCEPT !.forgotten = @ \cup {Operation(p, s)}]
  <2>1. log'.torn = log.torn
    BY <1>5 DEF FlightInv, TypeOK
  <2>2. Paces(pass.work, pass.work)
    BY <1>2, SamePace
  <2> QED  BY <1>1, <1>5, <2>1, <2>2, SettledKeepsStep
<1>6. CASE Raise
  BY <1>1, <1>6, RaiseKeepsStep
<1> QED  BY <1>3, <1>4, <1>5, <1>6

-----------------------------------------------------------------------------
(* The end of a pass, and its beginning                                     *)

LEMMA EndKeepsStep ==
    ASSUME StepInv, pass'.pc = "free", log'.torn = log.torn,
           driver' = "publishing" => driver = "publishing" /\ read' = read,
           ~log.torn /\ ~IsBlank(snap') => Stepped(snap')
    PROVE  StepInv'
<1>1. Free' /\ FlightIsRunning'
  BY DEF Free, FlightIsRunning
<1>2. ~log'.torn => InStep'
  BY DEF InStep
<1>3. DueInStep' /\ PassedInTime'
  BY <1>1 DEF DueInStep, PassedInTime
<1>4. ~log'.torn => KeptInStep'
  BY <1>1 DEF KeptInStep, StepInv
<1> QED  BY <1>1, <1>2, <1>3, <1>4 DEF StepInv

\* A pass that has come to its end has passed everyone by.
LEMMA PublishDueKeepsStep ==
    ASSUME FlightInv, StepInv, PublishDue
    PROVE  StepInv'
<1>1. /\ pass.pc = "due" /\ ~Free /\ snap' = pass.work /\ read' = read /\ log' = log
      /\ pass.failed \/ (pass.todo = {} /\ pass.pol = Len(Policies))
  BY DEF PublishDue, Free
<1>2. pass \in Passes /\ pass.work \in Snapshots
  BY <1>1, PassParts DEF FlightInv
<1>3. CASE pass.op \in {"apply", "run_due"}
  <2>1. pass' = NoPass /\ (driver' # "publishing" \/ driver' = driver)
    BY <1>3 DEF PublishDue, Return
  <2>2. pass'.pc = "free"
    BY <1>3, PassTypes DEF PublishDue, Return
  <2>3. ~log.torn => Stepped(snap')
    BY <1>1, <1>3 DEF StepInv, DueInStep
  <2> QED  BY <1>1, <2>1, <2>2, <2>3, EndKeepsStep
<1>4. CASE pass.op \in {"advance", "jump"}
  <2>1. pass' = [pass EXCEPT !.pc = "conclude"] /\ driver' = driver
    BY <1>4 DEF PublishDue
  <2>2. pass'.pc = "conclude" /\ pass'.pred = pass.pred /\ pass'.op = pass.op /\ pass'.failed = pass.failed
    BY <1>2, <2>1 DEF Passes
  <2>3. ASSUME ~log.torn, ~pass.failed, NEW p \in Participants  PROVE  Timely(pass.work, p)
    <3>1. PolicyOf(p) \in 1..Len(Policies) /\ Len(Policies) \in Nat
      BY PolicyIsUnique, PolicyTypes
    <3>2. PassedBy(p)
      BY <1>1, <2>3, <3>1 DEF PassedBy
    <3> QED  BY <1>1, <2>3, <3>2 DEF StepInv, PassedInTime
  <2>4. Free' = FALSE /\ FlightIsRunning' /\ InStep' /\ DueInStep'
    BY <1>4, <2>2 DEF Free, FlightIsRunning, InStep, DueInStep
  <2>5. ~log.torn => PassedInTime'
    BY <1>1, <2>2, <2>3 DEF PassedInTime, Timely, Accepts
  <2>6. ~log.torn => KeptInStep'
    BY <1>1, <2>1, <2>2 DEF StepInv, KeptInStep, IsBlank
  <2> QED  BY <1>1, <2>4, <2>5, <2>6 DEF StepInv
<1> QED  BY <1>3, <1>4 DEF PublishDue

\* A time control that is kept was read back as agreeing with the clock; one that is
\* not leaves its predecessor.
LEMMA ConcludeKeepsStep ==
    ASSUME FlightInv, StepInv, Conclude
    PROVE  StepInv'
<1> DEFINE ok == ~pass.failed /\ ReadbackValid(snap)
<1>1. /\ pass.pc = "conclude" /\ ~Free /\ read' = read /\ pass'.pc = "free"
      /\ snap' = IF ok THEN snap ELSE pass.pred
      /\ log' = IF ok THEN log ELSE Forget(pass.pred)
      /\ driver' = "publishing" => driver = "publishing"
  BY PassTypes DEF Conclude, Free, Return
<1>2. log'.torn = log.torn
  BY <1>1 DEF FlightInv, TypeOK, Forget
<1>3. ASSUME ~log.torn, ok  PROVE  Stepped(snap)
  BY <1>1, <1>3 DEF StepInv, PassedInTime, Stepped, Agreeing, ReadbackValid
<1>4. ASSUME ~log.torn, ~IsBlank(pass.pred)  PROVE  Stepped(pass.pred)
  BY <1>1, <1>4 DEF StepInv, KeptInStep
<1> HIDE DEF ok
<1> QED  BY <1>1, <1>2, <1>3, <1>4, EndKeepsStep

\* A time control starts from a snapshot that is in step, and moves its clock.
LEMMA BeginKeepsStep ==
    ASSUME StepInv, Free, ~IsBlank(snap), NEW by, NEW op, op \notin {"run_due", "apply"},
           pass' = Pass(by, op, "sync", snap, snap), UNCHANGED <<read, log>>,
           driver' = "publishing" => driver = "publishing"
    PROVE  StepInv'
<1>1. pass'.pc = "sync" /\ pass'.op = op /\ pass'.pred = snap /\ pass'.pol = 0
  BY DEF Pass
<1>2. Free' = FALSE /\ FlightIsRunning' /\ InStep' /\ DueInStep' /\ PassedInTime'
  BY <1>1 DEF Free, FlightIsRunning, InStep, DueInStep, PassedInTime
<1>3. ~log.torn => Stepped(snap)
  BY DEF StepInv, InStep
<1>4. ~log.torn => KeptInStep'
  BY <1>1, <1>3 DEF StepInv, KeptInStep
<1> QED  BY <1>2, <1>4 DEF StepInv

LEMMA ServiceKeepsStep ==
    ASSUME StepInv, Free, NEW by, NEW op \in {"run_due", "apply"}, NEW w,
           pass' = Pass(by, op, "due", snap, w), UNCHANGED <<snap, read, log>>,
           driver' = "publishing" => driver = "publishing",
           ~log.torn => Stepped(w)
    PROVE  StepInv'
<1>1. pass'.pc = "due" /\ pass'.op = op /\ pass'.pred = snap /\ pass'.work = w
  BY DEF Pass
<1>2. Free' = FALSE /\ FlightIsRunning' /\ InStep'
  BY <1>1 DEF Free, FlightIsRunning, InStep
<1>3. ~log.torn => DueInStep'
  BY <1>1 DEF DueInStep
<1>4. ~log.torn => PassedInTime'
  BY <1>1 DEF PassedInTime, Stepped
<1>5. ~log.torn => KeptInStep'
  BY <1>1 DEF StepInv, KeptInStep, InStep, IsBlank
<1> QED  BY <1>2, <1>3, <1>4, <1>5 DEF StepInv

LEMMA CallKeepsStep ==
    ASSUME FlightInv, StepInv,
           \/ \E ticks \in 1..MaxTick : Advance(ticks)
           \/ Pause \/ Resume \/ RunDue
           \/ \E tick \in 0..MaxTick : Jump(tick)
           \/ \E preserve \in BOOLEAN : Reset(preserve)
    PROVE  StepInv'
<1>1. Free /\ ~IsBlank(snap)
  BY DEF Advance, Pause, Resume, RunDue, Jump, Reset, Call, IsBlank
<1>2. driver' = driver /\ read' = read /\ log' = log
  BY DEF Advance, Pause, Resume, RunDue, Jump, Reset, Begin
<1>3. \/ \E op \in {"advance", "pause", "resume", "jump", "reset"} : pass' = Pass("client", op, "sync", snap, snap)
      \/ pass' = Pass("client", "run_due", "due", snap, snap) /\ snap' = snap
  BY DEF Advance, Pause, Resume, RunDue, Jump, Reset, Begin
<1>4. CASE \E op \in {"advance", "pause", "resume", "jump", "reset"} : pass' = Pass("client", op, "sync", snap, snap)
  BY <1>1, <1>2, <1>4, BeginKeepsStep
<1>5. CASE pass' = Pass("client", "run_due", "due", snap, snap) /\ snap' = snap
  <2>1. ~log.torn => Stepped(snap)
    BY <1>1 DEF StepInv, InStep
  <2> QED  BY <1>1, <1>2, <1>5, <2>1, ServiceKeepsStep
<1> QED  BY <1>3, <1>4, <1>5

\* A time control that services what is due has passed nobody by yet; nobody is late
\* on a clock that is paused or after a reset.
LEMMA SyncKeepsStep ==
    ASSUME FlightInv, StepInv, FlightInv', Sync
    PROVE  StepInv'
<1>1. /\ pass.pc = "sync" /\ ~Free /\ UNCHANGED <<driver, read, log>>
  BY DEF Sync, Free
<1>2. /\ pass \in Passes /\ pass.op \notin {"apply", "run_due"} /\ snap \in Snapshots
  BY <1>1, PassParts, Blanks DEF FlightInv, TypeOK, Populated
<1>3. ASSUME pass'.pred = pass.pred, pass'.op \notin {"apply", "run_due"}, pass'.pc \in {"sync", "due", "conclude"},
             ~log.torn => PassedInTime'
      PROVE  StepInv'
  <2>1. Free' = FALSE /\ FlightIsRunning' /\ InStep' /\ DueInStep'
    BY <1>2, <1>3 DEF Free, FlightIsRunning, InStep, DueInStep
  <2>2. ~log.torn => KeptInStep'
    BY <1>1, <1>3 DEF StepInv, KeptInStep, IsBlank
  <2> QED  BY <1>1, <1>3, <2>1, <2>2 DEF StepInv
<1>4. CASE pass.op \in {"advance", "jump"}
  <2>1. PICK w : pass' = [pass EXCEPT !.pc = "due", !.work = w]
    BY <1>4 DEF Sync
  <2>2. pass'.pc = "due" /\ pass'.pred = pass.pred /\ pass'.op = pass.op /\ pass'.pol = pass.pol
    BY <1>2, <2>1 DEF Passes
  <2>3. ASSUME ~log.torn, NEW p \in Participants  PROVE  ~PassedBy(p)'
    <3>1. PolicyOf(p) \in 1..Len(Policies)
      BY PolicyIsUnique, PolicyTypes
    <3>2. pass.pol = 0
      BY <1>1, <2>3 DEF StepInv, PassedInTime
    <3> QED  BY <2>2, <3>1, <3>2 DEF PassedBy
  <2>4. ~log.torn => PassedInTime'
    BY <1>4, <2>2, <2>3 DEF PassedInTime
  <2> QED  BY <1>2, <1>3, <2>2, <2>4
<1>5. CASE pass.op = "resume"
  <2>1. pass' = [pass EXCEPT !.op = "advance"]
    BY <1>5 DEF Sync
  <2>2. pass'.pc = "sync" /\ pass'.pred = pass.pred /\ pass'.op = "advance" /\ pass'.pol = pass.pol
    BY <1>1, <1>2, <2>1 DEF Passes
  <2>3. ~log.torn => PassedInTime'
    BY <1>1, <2>2 DEF StepInv, PassedInTime
  <2> QED  BY <1>3, <2>2, <2>3
<1>6. CASE pass.op = "pause"
  <2>1. pass' = [pass EXCEPT !.pc = "conclude"] /\ snap' = ClockLifecycle(snap, "paused")
    BY <1>6 DEF Sync
  <2>2. pass'.pc = "conclude" /\ pass'.pred = pass.pred /\ pass'.op = pass.op
    BY <1>2, <2>1 DEF Passes
  <2> DEFINE v == ClockLifecycle(snap, "paused")
  <2>3. \A p \in Participants : Timely(v, p)
    BY <1>2, PausedIsTimely
  <2>4. snap' = v
    BY <2>1
  <2> HIDE DEF v
  <2>5. PassedInTime'
    BY <2>2, <2>3, <2>4 DEF PassedInTime, Timely, Accepts
  <2> QED  BY <1>2, <1>3, <2>2, <2>5
<1>7. CASE pass.op = "reset"
  <2> DEFINE failed == ReconcileAll(snap).disposition # "ok"
  <2>1. pass' = [pass EXCEPT !.pc = "conclude", !.failed = failed] /\ snap' \in ResetSnapshots(snap)
    BY <1>7 DEF Sync
  <2> HIDE DEF failed
  <2>2. pass'.pc = "conclude" /\ pass'.pred = pass.pred /\ pass'.op = pass.op
    BY <1>2, <2>1 DEF Passes
  <2>3. PICK v \in ResetSnapshots(snap) : snap' = v
    BY <2>1
  <2>4. \A p \in Participants : Timely(v, p)
    BY <1>2, ResetIsTimely
  <2>5. PassedInTime'
    BY <2>2, <2>3, <2>4 DEF PassedInTime, Timely, Accepts
  <2> QED  BY <1>2, <1>3, <2>2, <2>5
<1> QED  BY <1>4, <1>5, <1>6, <1>7 DEF Sync

LEMMA PassStepKeepsStep ==
    ASSUME FlightInv, StepInv, FlightInv', PassStep
    PROVE  StepInv'
<1>1. CASE Answer
  <2>1. ASSUME NEW p \in Flying  PROVE  p \in pass.fly
    BY DEF Flying
  <2>2. CASE NativeRaises
    BY <2>2, RaiseKeepsStep DEF NativeRaises
  <2>3. CASE \E p \in Flying, result \in {"succeeded", "failed", "invalid"} : SettleAction(p, result)
    BY <2>1, <2>3, SettleActionKeepsStep
  <2>4. CASE \E p \in Flying, outcome \in {"succeeded", "failed", "retryable"},
                extent \in {"none", "reserved", "more"} : SettleActivity(p, outcome, extent)
    BY <2>1, <2>4, SettleActivityKeepsStep
  <2>5. CASE \E p \in Flying : SettleUntrusted(p)
    BY <2>1, <2>5, SettleUntrustedKeepsStep
  <2>6. CASE (\E results : SettleResults(results)) \/ SettleLost
    BY <2>6, SettleBatchKeepsStep
  <2> QED  BY <1>1, <2>2, <2>3, <2>4, <2>5, <2>6 DEF Answer
<1>2. CASE \E p \in Participants : BindRaises(p)
  BY <1>2, RaiseKeepsStep DEF BindRaises, Serial, Selecting
<1>3. CASE \/ FailBeforeDispatch \/ LeaveBatches \/ EnterPolicy
           \/ \E p \in Participants : SkipParticipant(p) \/ CadenceMissed(p)
  BY <1>3, SelectionKeepsStep, EnterPolicyKeepsStep, SkipKeepsStep
<1>4. CASE \E p \in Participants : SubmitAction(p) \/ NoCandidate(p) \/ SubmitActivity(p)
  BY <1>4, SubmitOneKeepsStep, NoCandidateKeepsStep
<1>5. CASE Sync \/ SubmitBatch \/ PublishDue \/ Conclude
  BY <1>5, SyncKeepsStep, SubmitBatchKeepsStep, PublishDueKeepsStep, ConcludeKeepsStep
<1> QED  BY <1>1, <1>2, <1>3, <1>4, <1>5 DEF PassStep

-----------------------------------------------------------------------------
(* The driver, the client and the initial state                             *)

\* A step that publishes nothing; what is read to be published later is in step.
LEMMA ReadingKeepsStep ==
    ASSUME StepInv, UNCHANGED <<snap, pass>>, log'.torn = log.torn,
           driver' = "publishing" => \/ driver = "publishing" /\ read' = read
                                     \/ Free /\ ~IsBlank(snap) /\ read' = snap
    PROVE  StepInv'
<1>1. Free' = Free /\ FlightIsRunning'
  BY DEF Free, FlightIsRunning, StepInv
<1> SUFFICES ASSUME ~log.torn  PROVE  InStep' /\ DueInStep' /\ PassedInTime' /\ KeptInStep'
  BY <1>1 DEF StepInv
<1>2. InStep /\ DueInStep /\ PassedInTime /\ KeptInStep
  BY DEF StepInv
<1>3. InStep'
  BY <1>1, <1>2 DEF InStep
<1>4. DueInStep' /\ PassedInTime'
  BY <1>1, <1>2 DEF DueInStep, PassedInTime, PassedBy, Peer
<1>5. KeptInStep'
  BY <1>1, <1>2 DEF KeptInStep, InStep
<1> QED  BY <1>3, <1>4, <1>5

\* Whatever the driver reads or publishes during another pass is torn.
LEMMA TornKeepsStep ==
    ASSUME StepInv, pass' = pass, log'.torn
    PROVE  StepInv'
BY DEF StepInv, FlightIsRunning

LEMMA DriverStepKeepsStep ==
    ASSUME FlightInv, StepInv, DriverStep
    PROVE  StepInv'
<1>1. CASE DriverObserves \/ DriverStops
  BY <1>1, ReadingKeepsStep DEF DriverObserves, DriverStops
<1>2. CASE DriverFails
  <2>1. /\ driver = "failing" /\ read' = snap /\ UNCHANGED <<snap, pass>>
        /\ log' = [log EXCEPT !.torn = @ \/ ~Free]
    BY <1>2 DEF DriverFails
  <2>2. log'.torn = (log.torn \/ ~Free) /\ log.torn \in BOOLEAN
    BY <2>1 DEF FlightInv, TypeOK
  <2>3. ~IsBlank(snap)
    BY <2>1 DEF FlightInv, Populated, Alive
  <2>4. CASE Free
    BY <2>1, <2>2, <2>3, <2>4, ReadingKeepsStep
  <2>5. CASE ~Free
    BY <2>1, <2>2, <2>5, TornKeepsStep
  <2> QED  BY <2>4, <2>5
<1>3. CASE DriverServices
  <2>1. Free /\ driver = "ready" /\ driver' # "publishing"
    BY <1>3 DEF DriverServices
  <2>2. ~IsBlank(snap)
    BY <2>1 DEF FlightInv, Populated, Alive
  <2>3. ~log.torn => Stepped(snap)
    BY <2>1, <2>2 DEF StepInv, InStep
  <2>4. CASE UNCHANGED <<snap, pass, read, log>>
    BY <2>1, <2>4, ReadingKeepsStep
  <2>5. CASE pass' = Pass("driver", "run_due", "due", snap, snap) /\ UNCHANGED <<snap, read, log>>
    BY <2>1, <2>3, <2>5, ServiceKeepsStep
  <2>6. CASE pass' = Pass("driver", "advance", "sync", snap, snap) /\ UNCHANGED <<read, log>>
    BY <2>1, <2>2, <2>6, BeginKeepsStep
  <2> QED  BY <1>3, <2>4, <2>5, <2>6 DEF DriverServices, Begin
<1>4. CASE DriverPublishes
  <2> DEFINE v == PacingFailure(read)
  <2>1. /\ driver = "publishing" /\ driver' = "ended" /\ snap' = v /\ pass' = pass
        /\ log' = IF Free THEN Forget(read) ELSE [log EXCEPT !.forgotten = log.native, !.torn = TRUE]
    BY <1>4 DEF DriverPublishes
  <2>2. read \in Snapshots
    BY <2>1, Blanks DEF FlightInv, TypeOK, Populated
  <2>3. ~log.torn => Stepped(v)
    BY <2>1, <2>2, PacingFailureSteps DEF StepInv, KeptInStep
  <2> HIDE DEF v
  <2>4. CASE Free
    <3>1. log'.torn = log.torn /\ pass'.pc = "free"
      BY <2>1, <2>4 DEF FlightInv, TypeOK, Forget, Free
    <3> QED  BY <2>1, <2>3, <3>1, EndKeepsStep
  <2>5. CASE ~Free
    <3>1. log'.torn
      BY <2>1, <2>5 DEF FlightInv, TypeOK
    <3> QED  BY <2>1, <3>1, TornKeepsStep
  <2> QED  BY <2>4, <2>5
<1> QED  BY <1>1, <1>2, <1>3, <1>4 DEF DriverStep

LEMMA ClientStepKeepsStep ==
    ASSUME FlightInv, StepInv, ClientStep \/ \E call \in {"apply", "destroy"} : CallStop(call)
    PROVE  StepInv'
<1>1. CASE JoinTimesOut \/ BeginTeardown \/ \E call \in {"apply", "destroy"} : CallStop(call)
  BY <1>1, ReadingKeepsStep DEF JoinTimesOut, BeginTeardown, CallStop
<1>2. CASE EndTeardown
  <2>1. snap' = snap /\ pass' = pass /\ log' = log /\ driver' = "off"
    BY <1>2 DEF EndTeardown, FlightInv, Turns
  <2> QED  BY <2>1, ReadingKeepsStep
<1>3. CASE Apply
  <2>1. Free /\ driver' = "off" /\ UNCHANGED <<snap, read, log>>
    BY <1>3 DEF Apply
  <2>2. CASE pass' = pass
    BY <2>1, <2>2, ReadingKeepsStep
  <2>3. CASE \E w \in InitialSnapshots : pass' = Pass("client", "apply", "due", snap, w)
    BY <2>1, <2>3, InitialIsInStep, ServiceKeepsStep
  <2> QED  BY <1>3, <2>2, <2>3 DEF Apply
<1> QED  BY <1>1, <1>2, <1>3 DEF ClientStep

LEMMA InitEstablishesStep == Init => StepInv
<1> SUFFICES ASSUME Init  PROVE  StepInv
  OBVIOUS
<1>1. IsBlank(snap) /\ Free /\ pass.pc = "free" /\ driver = "off"
  BY PassTypes, Blanks DEF Init, Free
<1> QED  BY <1>1 DEF StepInv, InStep, DueInStep, PassedInTime, KeptInStep, FlightIsRunning

-----------------------------------------------------------------------------
(* The theorems                                                             *)

\* StepInv holds initially and is kept by every step, on top of FlightInv: a pass that
\* moved the clock is in time for everyone it has passed by, and whatever it would put
\* back, or the driver would publish late, is in step.
THEOREM StepInvariant == Spec => []StepInv
<1>1. FlightInv /\ FlightInv' /\ StepInv /\ [Next]_vars => StepInv'
  <2> SUFFICES ASSUME FlightInv, FlightInv', StepInv, [Next]_vars  PROVE  StepInv'
    OBVIOUS
  <2>1. CASE ClientCall
    BY <2>1, CallKeepsStep, ClientStepKeepsStep DEF ClientCall
  <2>2. CASE ClientStep \/ PassStep \/ DriverStep
    BY <2>2, ClientStepKeepsStep, PassStepKeepsStep, DriverStepKeepsStep
  <2>3. CASE UNCHANGED vars
    BY <2>3, ReadingKeepsStep DEF vars
  <2> QED  BY <2>1, <2>2, <2>3 DEF Next
<1> QED  BY <1>1, InitEstablishesStep, FlightInvariant, PTL DEF Spec

\* Whenever the lock is free, participants and clock agree on segment and life cycle,
\* and the clock has not passed a tick that an open service still owes a participant,
\* unless a time control was left between its two publications.
THEOREM ClockInStep == Spec => []InStep
<1>1. StepInv => InStep
  BY DEF StepInv, InStep
<1> QED  BY <1>1, StepInvariant, PTL
=============================================================================
