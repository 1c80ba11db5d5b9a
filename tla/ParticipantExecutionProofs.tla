--------------------- MODULE ParticipantExecutionProofs ---------------------
(***************************************************************************)
(* Proofs about ParticipantExecution: FlightInv is inductive, for any      *)
(* policies, conflicts, budgets and bounds that meet the assumptions.      *)
(* From it follow that types are kept, that a teardown is alone, that      *)
(* nothing is in flight between submissions, and that what overlaps in the *)
(* native runtime is independent and within its capacity.                  *)
(***************************************************************************)
EXTENDS ParticipantExecution, ParticipantSchedulerProofs

Logs  == [native : SUBSET Operations, forgotten : SUBSET Operations,
          fenced : SUBSET Operations, torn : BOOLEAN]
LogOK == log \in Logs /\ log.forgotten \subseteq log.native

-----------------------------------------------------------------------------
(* Facts about a state that satisfies the invariant                         *)

LEMMA Blanks ==
    /\ IsBlank(Blank) /\ Blank \notin Snapshots
    /\ \A w \in Snapshots : ~IsBlank(w)
    /\ \A w \in Snapshots \cup {Blank} : ~IsBlank(w) => w \in Snapshots
<1>1. IsBlank(Blank)
  BY DEF IsBlank, Blank
<1>2. \A w \in Snapshots : ~IsBlank(w)
  BY SnapshotParts DEF IsBlank
<1> QED  BY <1>1, <1>2

LEMMA PassTypes ==
    /\ NoPass \notin Passes /\ NoPass.pc = "free"
    /\ \A x \in Passes : x.pc # "free"
BY DEF NoPass, Passes

LEMMA PassParts ==
    ASSUME TypeOK, ~Free
    PROVE  /\ pass \in Passes
           /\ pass.by \in {"client", "driver"} /\ pass.pc \in {"sync", "due", "flight", "conclude"}
           /\ pass.op \in {"apply", "run_due", "advance", "pause", "resume", "jump", "reset"}
           /\ pass.pred \in Snapshots \cup {Blank} /\ pass.work \in Snapshots
           /\ pass.base \in Snapshots \cup {Blank} /\ pass.pol \in 0..Len(Policies)
           /\ pass.todo \in SUBSET Nat /\ pass.batch \in BOOLEAN
           /\ pass.fly \in SUBSET Participants /\ pass.failed \in BOOLEAN
<1>1. pass \in Passes
  BY DEF TypeOK, Free, NoPass
<1> QED  BY <1>1 DEF Passes

LEMMA NotFree ==
    ASSUME TypeOK
    PROVE  /\ Free <=> pass = NoPass
           /\ ~Free <=> pass \in Passes
BY PassTypes DEF TypeOK, Free

LEMMA FaultTypes ==
    ASSUME TypeOK, Fault
    PROVE  faults' \in 0..MaxFaults
BY BoundsAssumption DEF TypeOK, Fault

LEMMA ForgetTypes ==
    ASSUME LogOK, NEW w
    PROVE  /\ Forget(w) \in Logs /\ Forget(w).forgotten \subseteq Forget(w).native
           /\ Forget(w).torn = log.torn
BY DEF LogOK, Logs, Forget

-----------------------------------------------------------------------------
(* Steps that stay inside a pass, and steps that begin or end one           *)

\* A step that leaves a pass on, and everything outside it alone.
LEMMA PassGoesOn ==
    ASSUME FlightInv, ~Free, pass' \in Passes,
           pass'.by = pass.by, pass'.op = pass.op, pass'.pred = pass.pred, pass'.pc \in {"due", "flight"},
           UNCHANGED <<snap, declared, client, driver, read, stop, calls>>,
           LogOK', faults' \in 0..MaxFaults, OnCourse', OverlapIsIndependent',
           AtRest(IF pass'.pc = "flight" THEN pass'.base ELSE pass'.work)
    PROVE  FlightInv'
<1> USE DEF FlightInv
<1>1. ~Free' /\ pass \in Passes
  BY PassTypes, PassParts DEF Free
<1>2. TypeOK'
  BY DEF TypeOK, LogOK, Logs
<1>3. Turns'
  BY <1>1 DEF Turns, Free
<1>4. Populated'
  BY <1>1 DEF Populated, Alive, IsBlank
<1>5. KeptAtRest'
  BY <1>1 DEF KeptAtRest
<1> QED  BY <1>2, <1>3, <1>4, <1>5

\* A call of the client or of the driver takes the lock with a pass of its own.
LEMMA PassBegins ==
    ASSUME FlightInv, Free,
           NEW by \in {"client", "driver"}, NEW op \in {"run_due", "advance", "pause", "resume", "jump", "reset"},
           NEW pc \in {"sync", "due"}, op = "run_due" => pc = "due",
           pass' = Pass(by, op, pc, snap, snap),
           snap \in Snapshots, snap' \in Snapshots, AtRest(snap'),
           \/ by = "client" /\ client = "idle" /\ driver' = driver
           \/ by = "driver" /\ driver = "ready" /\ driver' = "busy",
           UNCHANGED <<declared, client, read, stop, log, faults>>, calls' \in 0..MaxCalls
    PROVE  FlightInv'
<1> USE DEF FlightInv
<1>1. /\ pass' \in Passes /\ pass'.by = by /\ pass'.op = op /\ pass'.pc = pc
      /\ pass'.pred = snap /\ pass'.work = snap
      /\ pass'.todo = {} /\ pass'.batch = FALSE
  <2>1. 0 \in 0..Len(Policies)
    BY PolicyTypes
  <2> QED  BY <2>1 DEF Pass, Passes
<1>2. ~Free' /\ ~IsBlank(snap) /\ ~IsBlank(snap')
  BY <1>1, Blanks, PassTypes DEF Free
<1>3. TypeOK'
  BY <1>1 DEF TypeOK
<1>4. Turns'
  BY <1>1, <1>2 DEF Turns, Free
<1>5. Populated'
  BY <1>1, <1>2 DEF Populated, Alive, IsBlank
<1>6. OnCourse' /\ OverlapIsIndependent'
  BY <1>1 DEF OnCourse, OverlapIsIndependent
<1>7. KeptAtRest'
  <2>1. AtRest(snap) /\ (~IsBlank(read) => AtRest(read))
    BY <1>2 DEF KeptAtRest
  <2> QED  BY <1>1, <2>1 DEF KeptAtRest
<1> QED  BY <1>3, <1>4, <1>5, <1>6, <1>7

LEMMA BeginKeepsRest ==
    ASSUME FlightInv, snap \in Snapshots, NEW clock \in Clocks, snap' = [snap EXCEPT !.clock = clock]
    PROVE  snap' \in Snapshots /\ AtRest(snap')
<1>1. AtRest(snap)
  BY Blanks DEF FlightInv, KeptAtRest
<1>2. snap' \in Snapshots /\ snap'.st = snap.st /\ snap'.svc = snap.svc
  BY DEF Snapshots
<1> QED  BY <1>1, <1>2 DEF AtRest

\* The calls of a client that take the lock.
LEMMA CallKeepsInv ==
    ASSUME FlightInv,
           \/ \E ticks \in 1..MaxTick : Advance(ticks)
           \/ Pause \/ Resume \/ RunDue
           \/ \E tick \in 0..MaxTick : Jump(tick)
           \/ \E preserve \in BOOLEAN : Reset(preserve)
    PROVE  FlightInv'
<1>1. ASSUME Call  PROVE  client = "idle" /\ Free /\ calls' \in 0..MaxCalls
  BY <1>1, BoundsAssumption DEF Call, FlightInv, TypeOK
<1>2. ASSUME ~IsBlank(snap)  PROVE  snap \in Snapshots
  BY <1>2, Blanks DEF FlightInv, TypeOK
<1>3. ASSUME NEW op \in {"advance", "pause", "resume", "jump", "reset"}, NEW clock \in Clocks, ~IsBlank(snap),
             Call, Begin("client", op, clock), UNCHANGED driver
      PROVE  FlightInv'
  BY <1>1, <1>2, <1>3, BeginKeepsRest, PassBegins DEF Begin
<1>4. ASSUME NEW ticks \in 1..MaxTick, Advance(ticks)  PROVE  FlightInv'
  <2> DEFINE t == snap.clock.tick + ticks
             clock == [snap.clock EXCEPT !.tick = t]
  <2>1. ~IsBlank(snap)
    BY <1>4 DEF Advance, IsBlank
  <2>2. t \in Nat /\ snap.clock \in Clocks
    BY <1>2, <2>1, SnapshotParts, BoundsAssumption
  <2>3. Call /\ Begin("client", "advance", clock) /\ UNCHANGED driver
    BY <1>4 DEF Advance
  <2> HIDE DEF t
  <2>4. clock \in Clocks
    BY <2>2 DEF Clocks
  <2> QED  BY <1>3, <2>1, <2>3, <2>4
<1>5. ASSUME Pause \/ Resume  PROVE  FlightInv'
  <2>1. ~IsBlank(snap)
    BY <1>5 DEF Pause, Resume, IsBlank
  <2>2. \A state \in {"running", "paused"} : [snap.clock EXCEPT !.state = state] \in Clocks
    BY <1>2, <2>1, SnapshotParts DEF Clocks
  <2> QED  BY <1>3, <1>5, <2>1, <2>2 DEF Pause, Resume
<1>6. ASSUME RunDue  PROVE  FlightInv'
  <2>1. Call /\ ~IsBlank(snap) /\ snap' = snap /\ snap \in Snapshots
    BY <1>2, <1>6 DEF RunDue
  <2>2. AtRest(snap)
    BY <2>1 DEF FlightInv, KeptAtRest
  <2> QED  BY <1>1, <1>6, <2>1, <2>2, PassBegins DEF RunDue
<1>7. ASSUME NEW tick \in 0..MaxTick, Jump(tick)  PROVE  FlightInv'
  <2> DEFINE s == snap.clock.segment + 1
             clock == [snap.clock EXCEPT !.segment = s, !.tick = tick]
  <2>1. ~IsBlank(snap) /\ Call /\ Begin("client", "jump", clock) /\ UNCHANGED driver
    BY <1>7 DEF Jump
  <2>2. s \in Nat /\ tick \in Nat /\ snap.clock \in Clocks
    BY <1>2, <2>1, SnapshotParts, BoundsAssumption
  <2> HIDE DEF s
  <2>3. clock \in Clocks
    BY <2>2 DEF Clocks
  <2> QED  BY <1>3, <2>1, <2>3
<1>8. ASSUME NEW preserve \in BOOLEAN, Reset(preserve)  PROVE  FlightInv'
  <2> DEFINE s == snap.clock.segment + 1
             t == IF preserve THEN snap.clock.tick ELSE 0
             clock == [state |-> "running", segment |-> s, tick |-> t]
  <2>1. ~IsBlank(snap) /\ Call /\ Begin("client", "reset", clock) /\ UNCHANGED driver
    BY <1>8 DEF Reset
  <2>2. s \in Nat /\ t \in Nat
    BY <1>2, <2>1, SnapshotParts
  <2> HIDE DEF s, t
  <2>3. clock \in Clocks
    BY <2>2 DEF Clocks
  <2> QED  BY <1>3, <2>1, <2>3
<1> QED  BY <1>4, <1>5, <1>6, <1>7, <1>8

-----------------------------------------------------------------------------
(* Steps of a pass before it submits anything                               *)

LEMMA SyncKeepsInv ==
    ASSUME FlightInv, Sync
    PROVE  FlightInv'
<1> USE DEF FlightInv
<1>1. pass.pc = "sync" /\ ~Free
  BY DEF Sync, Free
<1>2. /\ pass \in Passes /\ pass.work \in Snapshots /\ pass.op \notin {"apply", "run_due"} /\ ~IsBlank(snap)
      /\ AtRest(pass.work)
  BY <1>1, PassParts DEF Populated, KeptAtRest
<1>3. snap \in Snapshots /\ AtRest(snap)
  BY <1>2, Blanks DEF TypeOK, KeptAtRest
<1>4. ASSUME snap' \in Snapshots, AtRest(snap'), pass' \in Passes,
             pass'.by = pass.by, pass'.op \notin {"apply", "run_due"}, pass'.pred = pass.pred, pass'.pol = pass.pol,
             pass'.todo = pass.todo, pass'.batch = pass.batch, pass'.pc \in {"sync", "due", "conclude"}, AtRest(pass'.work)
      PROVE  FlightInv'
  <2>1. UNCHANGED <<declared, client, driver, read, stop, log, calls, faults>>
    BY DEF Sync
  <2>2. ~Free' /\ ~IsBlank(snap')
    BY <1>4, Blanks, PassTypes DEF Free
  <2>3. TypeOK'
    BY <1>4, <2>1 DEF TypeOK
  <2>4. Turns'
    BY <1>1, <1>4, <2>1, <2>2 DEF Turns, Free
  <2>5. Populated'
    BY <1>1, <1>2, <1>4, <2>1, <2>2 DEF Populated, Alive, IsBlank
  <2>6. OnCourse' /\ OverlapIsIndependent'
    BY <1>1, <1>4 DEF OnCourse, OverlapIsIndependent
  <2>7. KeptAtRest'
    BY <1>1, <1>4, <2>1 DEF KeptAtRest
  <2> QED  BY <2>3, <2>4, <2>5, <2>6, <2>7
<1>5. CASE pass.op \in {"advance", "jump"}
  <2>1. pass' = [pass EXCEPT !.pc = "due", !.work = snap] /\ snap' = snap
    BY <1>5 DEF Sync
  <2>2. /\ pass' \in Passes /\ pass'.by = pass.by /\ pass'.op = pass.op /\ pass'.pred = pass.pred
        /\ pass'.pol = pass.pol /\ pass'.todo = pass.todo /\ pass'.batch = pass.batch /\ pass'.pc = "due"
        /\ pass'.work = snap
    BY <1>2, <1>3, <2>1 DEF Passes
  <2> QED  BY <1>2, <1>3, <1>4, <2>1, <2>2
<1>6. CASE pass.op = "resume"
  <2>1. pass' = [pass EXCEPT !.op = "advance"] /\ snap' = ClockLifecycle(snap, "running")
    BY <1>6 DEF Sync
  <2>2. snap' \in Snapshots /\ AtRest(snap')
    BY <1>3, <2>1, ClockLifecycleTypes
  <2>3. /\ pass' \in Passes /\ pass'.by = pass.by /\ pass'.op = "advance" /\ pass'.pred = pass.pred
        /\ pass'.pol = pass.pol /\ pass'.todo = pass.todo /\ pass'.batch = pass.batch /\ pass'.pc = "sync"
        /\ pass'.work = pass.work
    BY <1>1, <1>2, <2>1 DEF Passes
  <2> QED  BY <1>2, <1>4, <2>2, <2>3
<1>7. CASE pass.op = "pause"
  <2>1. pass' = [pass EXCEPT !.pc = "conclude"] /\ snap' = ClockLifecycle(snap, "paused")
    BY <1>7 DEF Sync
  <2>2. snap' \in Snapshots /\ AtRest(snap')
    BY <1>3, <2>1, ClockLifecycleTypes
  <2>3. /\ pass' \in Passes /\ pass'.by = pass.by /\ pass'.op = pass.op /\ pass'.pred = pass.pred
        /\ pass'.pol = pass.pol /\ pass'.todo = pass.todo /\ pass'.batch = pass.batch /\ pass'.pc = "conclude"
        /\ pass'.work = pass.work
    BY <1>2, <2>1 DEF Passes
  <2> QED  BY <1>2, <1>4, <2>2, <2>3
<1>8. CASE pass.op = "reset"
  <2> DEFINE failed == ReconcileAll(snap).disposition # "ok"
  <2>1. pass' = [pass EXCEPT !.pc = "conclude", !.failed = failed] /\ snap' \in ResetSnapshots(snap)
    BY <1>8 DEF Sync
  <2>2. snap' \in Snapshots /\ AtRest(snap')
    BY <1>3, <2>1, ResetSnapshotTypes
  <2>3. failed \in BOOLEAN
    OBVIOUS
  <2> HIDE DEF failed
  <2>4. /\ pass' \in Passes /\ pass'.by = pass.by /\ pass'.op = pass.op /\ pass'.pred = pass.pred
        /\ pass'.pol = pass.pol /\ pass'.todo = pass.todo /\ pass'.batch = pass.batch /\ pass'.pc = "conclude"
        /\ pass'.work = pass.work
    BY <1>2, <2>1, <2>3 DEF Passes
  <2> QED  BY <1>2, <1>4, <2>2, <2>4
<1> QED  BY <1>5, <1>6, <1>7, <1>8 DEF Sync

\* Steps that only change the course of a pass: which policy, what is left of it,
\* and whether it has failed.
LEMMA CourseKeepsInv ==
    ASSUME FlightInv, pass.pc = "due",
           NEW pol \in 0..Len(Policies), NEW todo \in SUBSET Nat, NEW batch \in BOOLEAN, NEW failed \in BOOLEAN,
           pass' = [pass EXCEPT !.pol = pol, !.todo = todo, !.batch = batch, !.failed = failed],
           todo # {} \/ batch => pol \in DOMAIN Policies,
           todo # {} => todo \subseteq DOMAIN Policies[pol].participants,
           batch => Policies[pol].profile = "v1",
           faults' \in 0..MaxFaults,
           UNCHANGED <<snap, declared, client, driver, read, stop, log, calls>>
    PROVE  FlightInv'
<1> USE DEF FlightInv
<1>1. pass \in Passes /\ ~Free
  BY PassParts DEF Free
<1>2. /\ pass' \in Passes /\ pass'.by = pass.by /\ pass'.op = pass.op /\ pass'.pred = pass.pred /\ pass'.pc = "due"
      /\ pass'.work = pass.work /\ pass'.pol = pol /\ pass'.todo = todo /\ pass'.batch = batch
  BY <1>1 DEF Passes
<1>3. OnCourse' /\ OverlapIsIndependent'
  BY <1>2 DEF OnCourse, OverlapIsIndependent
<1>4. AtRest(pass.work) /\ LogOK'
  BY <1>1 DEF KeptAtRest, TypeOK, LogOK, Logs
<1> QED  BY <1>1, <1>2, <1>3, <1>4, PassGoesOn

LEMMA EnterPolicyKeepsInv ==
    ASSUME FlightInv, EnterPolicy
    PROVE  FlightInv'
<1> DEFINE i == pass.pol + 1
           due == DueParticipants(pass.work, i)
           concurrent == Policies[i].profile = "v1" /\ Cardinality(due) >= 2 /\ Policies[i].maxInFlight >= 2
           all == DOMAIN Policies[i].participants
<1>1. pass.pc = "due" /\ ~Free /\ pass.todo = {} /\ ~pass.batch /\ ~pass.failed /\ pass.pol < Len(Policies)
  BY DEF EnterPolicy, Selecting, Free
<1>2. pass \in Passes /\ pass.pol \in 0..Len(Policies) /\ pass.batch = FALSE /\ pass.failed = FALSE
  BY <1>1, PassParts DEF FlightInv
<1>3. i \in DOMAIN Policies /\ i \in 0..Len(Policies)
  BY <1>1, <1>2, PolicyTypes
<1>4. all \in SUBSET Nat /\ due \subseteq all
  BY <1>3, PolicyTypes DEF DueParticipants
<1>5. faults' \in 0..MaxFaults /\ UNCHANGED <<snap, declared, client, driver, read, stop, log, calls>>
  BY DEF EnterPolicy, FlightInv, TypeOK
<1> DEFINE todo == IF concurrent THEN due ELSE all
<1>6. \/ pass' = [pass EXCEPT !.pol = i]
      \/ pass' = [pass EXCEPT !.failed = TRUE]
      \/ pass' = [pass EXCEPT !.pol = i, !.batch = concurrent, !.todo = todo]
  BY Zenon DEF EnterPolicy, Fail
<1> HIDE DEF i
<1>7. /\ todo \in SUBSET Nat /\ todo \subseteq all /\ concurrent \in BOOLEAN
      /\ concurrent => Policies[i].profile = "v1"
  BY <1>4
<1> HIDE DEF due, concurrent, todo
<1>8. CASE pass' = [pass EXCEPT !.pol = i]
  <2>1. pass' = [pass EXCEPT !.pol = i, !.todo = {}, !.batch = FALSE, !.failed = FALSE]
    BY <1>1, <1>2, <1>8 DEF Passes
  <2> QED  BY <1>1, <1>3, <1>5, <2>1, CourseKeepsInv
<1>9. CASE pass' = [pass EXCEPT !.failed = TRUE]
  <2>1. pass' = [pass EXCEPT !.pol = pass.pol, !.todo = {}, !.batch = FALSE, !.failed = TRUE]
    BY <1>1, <1>2, <1>9 DEF Passes
  <2> QED  BY <1>1, <1>2, <1>5, <2>1, CourseKeepsInv
<1>10. CASE pass' = [pass EXCEPT !.pol = i, !.batch = concurrent, !.todo = todo]
  <2>1. pass' = [pass EXCEPT !.pol = i, !.todo = todo, !.batch = concurrent, !.failed = FALSE]
    BY <1>1, <1>2, <1>10 DEF Passes
  <2> QED  BY <1>1, <1>3, <1>5, <1>7, <2>1, CourseKeepsInv
<1> QED  BY <1>6, <1>8, <1>9, <1>10

\* A pass fails, leaves its batches or passes a participant by.
LEMMA PassFails ==
    ASSUME FlightInv, pass.pc = "due", Fail, faults' \in 0..MaxFaults,
           UNCHANGED <<snap, declared, client, driver, read, stop, log, calls>>
    PROVE  FlightInv'
<1>1. ~Free
  BY DEF Free
<1>2. /\ pass \in Passes /\ pass.pol \in 0..Len(Policies) /\ pass.batch \in BOOLEAN /\ pass.todo \in SUBSET Nat
  BY <1>1, PassParts DEF FlightInv
<1>3. pass' = [pass EXCEPT !.pol = pass.pol, !.todo = pass.todo, !.batch = pass.batch, !.failed = TRUE]
  BY <1>2 DEF Fail, Passes
<1>4. /\ pass.todo # {} \/ pass.batch => pass.pol \in DOMAIN Policies
      /\ pass.todo # {} => pass.todo \subseteq DOMAIN Policies[pass.pol].participants
      /\ pass.batch => Policies[pass.pol].profile = "v1"
  BY <1>1 DEF FlightInv, OnCourse
<1> QED  BY <1>2, <1>3, <1>4, CourseKeepsInv

LEMMA LeaveBatchesKeepsInv ==
    ASSUME FlightInv, LeaveBatches
    PROVE  FlightInv'
<1>1. pass.pc = "due" /\ ~Free /\ ~pass.failed
  BY DEF LeaveBatches, Selecting, Free
<1>2. /\ pass \in Passes /\ pass.pol \in 0..Len(Policies) /\ pass.todo \in SUBSET Nat /\ pass.failed = FALSE
  BY <1>1, PassParts DEF FlightInv
<1>3. pass' = [pass EXCEPT !.pol = pass.pol, !.todo = pass.todo, !.batch = FALSE, !.failed = FALSE]
  BY <1>2 DEF LeaveBatches, Passes
<1>4. /\ pass.todo # {} => pass.pol \in DOMAIN Policies
      /\ pass.todo # {} => pass.todo \subseteq DOMAIN Policies[pass.pol].participants
  BY <1>1 DEF FlightInv, OnCourse
<1>5. faults' \in 0..MaxFaults /\ UNCHANGED <<snap, declared, client, driver, read, stop, log, calls>>
  BY DEF LeaveBatches, FlightInv, TypeOK
<1> QED  BY <1>1, <1>2, <1>3, <1>4, <1>5, CourseKeepsInv

\* The participant that is next is one of the policy that the pass is in.
LEMMA SerialParts ==
    ASSUME FlightInv, NEW p \in Participants, Serial(p)
    PROVE  /\ pass.pc = "due" /\ ~Free /\ pass \in Passes /\ pass.batch = FALSE /\ pass.failed = FALSE
           /\ pass.work \in Snapshots /\ AtRest(pass.work)
           /\ pass.pol \in DOMAIN Policies /\ pass.pol \in 0..Len(Policies)
           /\ pass.todo \in SUBSET Nat /\ pass.todo \subseteq DOMAIN Policies[pass.pol].participants
           /\ p \in ToSet(Policies[pass.pol].participants)
           /\ Rest \in SUBSET Nat /\ Rest \subseteq DOMAIN Policies[pass.pol].participants
<1> USE DEF FlightInv
<1>1. pass.pc = "due" /\ ~Free /\ ~pass.batch /\ ~pass.failed /\ pass.todo # {} /\ p = Peer(Min(pass.todo))
  BY DEF Serial, Selecting, Free
<1>2. /\ pass \in Passes /\ pass.work \in Snapshots /\ pass.pol \in 0..Len(Policies) /\ pass.todo \in SUBSET Nat
      /\ pass.batch = FALSE /\ pass.failed = FALSE
  BY <1>1, PassParts
<1>3. pass.pol \in DOMAIN Policies /\ pass.todo \subseteq DOMAIN Policies[pass.pol].participants
  BY <1>1 DEF OnCourse
<1>4. AtRest(pass.work)
  BY <1>1 DEF KeptAtRest
<1>5. Min(pass.todo) \in pass.todo
  BY <1>1, <1>2, MinIsLeast
<1>6. p \in ToSet(Policies[pass.pol].participants)
  BY <1>1, <1>3, <1>5 DEF Peer, ToSet
<1> QED  BY <1>1, <1>2, <1>3, <1>4, <1>6 DEF Rest

LEMMA SkipKeepsInv ==
    ASSUME FlightInv, NEW p \in Participants, SkipParticipant(p)
    PROVE  FlightInv'
<1>1. Serial(p) /\ pass' = [pass EXCEPT !.todo = Rest]
  BY DEF SkipParticipant
<1>2. /\ pass.pc = "due" /\ pass \in Passes /\ pass.batch = FALSE /\ pass.failed = FALSE
      /\ pass.pol \in DOMAIN Policies /\ pass.pol \in 0..Len(Policies)
      /\ Rest \in SUBSET Nat /\ Rest \subseteq DOMAIN Policies[pass.pol].participants
  BY <1>1, SerialParts
<1>3. pass' = [pass EXCEPT !.pol = pass.pol, !.todo = Rest, !.batch = FALSE, !.failed = FALSE]
  BY <1>1, <1>2 DEF Passes
<1>4. faults' \in 0..MaxFaults /\ UNCHANGED <<snap, declared, client, driver, read, stop, log, calls>>
  BY DEF SkipParticipant, FlightInv, TypeOK
<1> QED  BY <1>2, <1>3, <1>4, CourseKeepsInv

\* Replacing the state of one participant by one that is at rest too.
LEMMA StateIsReplaced ==
    ASSUME NEW w \in Snapshots, AtRest(w), NEW p \in Participants, NEW s \in SchedulerStates,
           s.inFlight = 0, s.attempted = s.succeeded + s.failed
    PROVE  [w EXCEPT !.st[p] = s] \in Snapshots /\ AtRest([w EXCEPT !.st[p] = s])
<1> DEFINE st == [w.st EXCEPT ![p] = s]
           v == [w EXCEPT !.st = st]
<1>1. st \in [Participants -> SchedulerStates] /\ st[p] = s /\ \A q \in Participants : q # p => st[q] = w.st[q]
  BY SnapshotParts
<1>2. [w EXCEPT !.st[p] = s] = v
  OBVIOUS
<1> HIDE DEF st
<1>3. v \in Snapshots /\ v.st = st /\ v.svc = w.svc
  BY <1>1 DEF Snapshots
<1>4. AtRest(v)
  BY <1>1, <1>3 DEF AtRest
<1> QED  BY <1>2, <1>3, <1>4

LEMMA NoCandidateKeepsInv ==
    ASSUME FlightInv, NEW p \in Participants, NoCandidate(p)
    PROVE  FlightInv'
<1> USE DEF FlightInv
<1>1. Serial(p)
  BY DEF NoCandidate
<1>2. /\ pass.pc = "due" /\ ~Free /\ pass \in Passes /\ pass.batch = FALSE
      /\ pass.work \in Snapshots /\ AtRest(pass.work) /\ pass.pol \in DOMAIN Policies
      /\ Rest \in SUBSET Nat /\ Rest \subseteq DOMAIN Policies[pass.pol].participants
  BY <1>1, SerialParts
<1>3. PICK s \in EmptyActivityStates(pass.work.st[p], pass.work.clock.tick) :
          pass' = [pass EXCEPT !.work.st[p] = s, !.todo = Rest]
  BY DEF NoCandidate
<1> DEFINE w == [pass.work EXCEPT !.st[p] = s]
<1>4. pass' = [pass EXCEPT !.work = w, !.todo = Rest]
  BY <1>2, <1>3
<1>5. w \in Snapshots /\ AtRest(w)
  <2> DEFINE old == pass.work.st[p]
             tick == pass.work.clock.tick
  <2>1. old \in SchedulerStates /\ tick \in Nat
    BY <1>2, SnapshotParts
  <2>2. old.inFlight = 0 /\ old.attempted = old.succeeded + old.failed
    BY <1>2 DEF AtRest
  <2>3. s \in EmptyActivityStates(old, tick)
    OBVIOUS
  <2> HIDE DEF old, tick
  <2>4. s \in SchedulerStates /\ s.inFlight = 0 /\ s.attempted = s.succeeded + s.failed
    BY <2>1, <2>2, <2>3, EmptyActivityTypes
  <2> QED  BY <1>2, <2>4, StateIsReplaced
<1> HIDE DEF w
<1>6. /\ pass' \in Passes /\ pass'.by = pass.by /\ pass'.op = pass.op /\ pass'.pred = pass.pred /\ pass'.pc = "due"
      /\ pass'.work = w /\ pass'.pol = pass.pol /\ pass'.todo = Rest /\ pass'.batch = FALSE
  BY <1>2, <1>4, <1>5 DEF Passes
<1>7. OnCourse' /\ OverlapIsIndependent'
  BY <1>2, <1>6 DEF OnCourse, OverlapIsIndependent
<1>8. /\ faults' \in 0..MaxFaults /\ UNCHANGED <<snap, declared, client, driver, read, stop, calls>> /\ LogOK'
  BY DEF NoCandidate, TypeOK, LogOK, Logs
<1> QED  BY <1>2, <1>5, <1>6, <1>7, <1>8, PassGoesOn

-----------------------------------------------------------------------------
(* Submissions                                                              *)

LEMMA SubmitKeepsInv ==
    ASSUME FlightInv, pass.pc = "due", pass.pol \in DOMAIN Policies,
           NEW fly \in SUBSET ToSet(Policies[pass.pol].participants), IsFiniteSet(fly),
           Cardinality(fly) <= Policies[pass.pol].maxInFlight,
           \A p, q \in fly : {p, q} \notin Conflicts,
           NEW work \in Snapshots,
           NEW todo \in SUBSET Nat, todo \subseteq DOMAIN Policies[pass.pol].participants,
           pass.batch => work = ReserveBatch(pass.work, pass.pol, fly),
           ~pass.batch => work.st = pass.work.st /\ work.svc = pass.work.svc /\ \E p \in Participants : fly = {p},
           Submit(fly, work, todo),
           UNCHANGED <<snap, declared, client, driver, read, stop, calls, faults>>
    PROVE  FlightInv'
<1> USE DEF FlightInv
<1>1. ~Free
  BY DEF Free
<1>2. pass \in Passes /\ pass.work \in Snapshots /\ AtRest(pass.work)
  BY <1>1, PassParts DEF KeptAtRest
<1>3. fly \in SUBSET Participants /\ \A p \in fly : PolicyOf(p) = pass.pol
  BY PolicyTypes, PolicyIsUnique
<1>4. /\ pass' \in Passes /\ pass'.by = pass.by /\ pass'.op = pass.op /\ pass'.pred = pass.pred
      /\ pass'.pc = "flight" /\ pass'.work = work /\ pass'.base = pass.work /\ pass'.pol = pass.pol
      /\ pass'.todo = todo /\ pass'.batch = pass.batch /\ pass'.fly = fly
  BY <1>2, <1>3 DEF Submit, Passes
<1>5. ~IsBlank(pass.work)
  BY <1>2, Blanks
<1>6. OverlapIsIndependent'
  BY <1>3, <1>4 DEF OverlapIsIndependent
<1> DEFINE ids == {Operation(p, pass.work.st[p]) : p \in fly}
<1>7. ids \in SUBSET Operations
  BY <1>2, <1>3, OperationType, SnapshotParts
<1>8. LogOK' /\ ids \subseteq log'.native
  <2>1. log' = [log EXCEPT !.native = @ \cup ids, !.forgotten = @ \ ids]
    BY DEF Submit
  <2>2. LogOK
    BY DEF TypeOK, LogOK, Logs
  <2> HIDE DEF ids
  <2> QED  BY <1>7, <2>1, <2>2 DEF LogOK, Logs
<1>9. OnCourse'
  <2>1. pass.batch => Policies[pass.pol].profile = "v1"
    BY <1>1 DEF OnCourse
  <2>2. \A p \in fly : Operation(p, pass.work.st[p]) \in log'.native
    BY <1>8
  <2> QED  BY <1>4, <1>5, <2>1, <2>2 DEF OnCourse, IsBlank
<1>10. faults' \in 0..MaxFaults
  BY DEF TypeOK
<1> QED  BY <1>1, <1>2, <1>4, <1>6, <1>8, <1>9, <1>10, PassGoesOn

\* One participant does not conflict with itself, and a service can take one.
LEMMA AloneIsIndependent ==
    ASSUME NEW i \in DOMAIN Policies, NEW p
    PROVE  /\ IsFiniteSet({p}) /\ Cardinality({p}) <= Policies[i].maxInFlight
           /\ \A x, y \in {p} : {x, y} \notin Conflicts
<1>1. IsFiniteSet({p}) /\ Cardinality({p}) = 1
  BY FS_Singleton
<1>2. Policies[i].maxInFlight \in Nat \ {0}
  BY PoliciesAssumption
<1>3. {p} \notin Conflicts
  BY <1>1, ConflictsAssumption
<1>4. \A x, y \in {p} : {x, y} = {p}
  OBVIOUS
<1> QED  BY <1>1, <1>2, <1>3, <1>4

LEMMA SubmitOneKeepsInv ==
    ASSUME FlightInv, NEW p \in Participants, Serial(p), NEW work \in Snapshots,
           work.st = pass.work.st, work.svc = pass.work.svc, Submit({p}, work, pass.todo),
           UNCHANGED <<snap, declared, client, driver, read, stop, calls, faults>>
    PROVE  FlightInv'
<1>1. /\ pass.pc = "due" /\ pass.batch = FALSE /\ pass.pol \in DOMAIN Policies
      /\ pass.todo \in SUBSET Nat /\ pass.todo \subseteq DOMAIN Policies[pass.pol].participants
      /\ {p} \in SUBSET ToSet(Policies[pass.pol].participants)
  BY SerialParts
<1>2. /\ IsFiniteSet({p}) /\ Cardinality({p}) <= Policies[pass.pol].maxInFlight
      /\ \A x, y \in {p} : {x, y} \notin Conflicts
  BY <1>1, AloneIsIndependent
<1>3. \E q \in Participants : {p} = {q}
  OBVIOUS
<1> QED  BY <1>1, <1>2, <1>3, SubmitKeepsInv

LEMMA SubmitActionKeepsInv ==
    ASSUME FlightInv, NEW p \in Participants, SubmitAction(p)
    PROVE  FlightInv'
<1>1. Serial(p) /\ Submit({p}, pass.work, pass.todo)
      /\ UNCHANGED <<snap, declared, client, driver, read, stop, calls, faults>>
  BY DEF SubmitAction
<1>2. pass.work \in Snapshots
  BY <1>1, SerialParts
<1> QED  BY <1>1, <1>2, SubmitOneKeepsInv

LEMMA SubmitActivityKeepsInv ==
    ASSUME FlightInv, NEW p \in Participants, SubmitActivity(p)
    PROVE  FlightInv'
<1> DEFINE i == pass.pol
           o == Operation(p, pass.work.st[p])
           reserved == Reserve(pass.work.led, Policies[i].budgets, o, pass.work.svc[i].generation)
           work == [pass.work EXCEPT !.led = reserved.ledger]
<1>1. /\ Serial(p) /\ UNCHANGED <<snap, declared, client, driver, read, stop, calls, faults>>
      /\ Submit({p}, work, pass.todo) \/ (Fail /\ log' = log)
  BY DEF SubmitActivity
<1>2. pass.pc = "due" /\ pass.work \in Snapshots /\ i \in DOMAIN Policies
  BY <1>1, SerialParts
<1>3. reserved.ledger \in Ledgers(Operations)
  <2>1. /\ pass.work.led \in Ledgers(Operations) /\ pass.work.st[p] \in SchedulerStates
        /\ pass.work.svc[i].generation \in Nat
    BY <1>2, SnapshotParts
  <2>2. o \in Operations /\ Policies[i].budgets \in SUBSET Budgets
    BY <1>2, <2>1, OperationType, PoliciesAssumption
  <2> HIDE DEF o, i
  <2>3. [b \in Policies[i].budgets |-> 0] \in [Policies[i].budgets -> Nat]
    OBVIOUS
  <2> QED  BY <2>1, <2>2, <2>3, LedgerTypes
<1> HIDE DEF reserved
<1>4. work \in Snapshots /\ work.st = pass.work.st /\ work.svc = pass.work.svc
  BY <1>2, <1>3 DEF Snapshots
<1> HIDE DEF work
<1>5. CASE Submit({p}, work, pass.todo)
  BY <1>1, <1>4, <1>5, SubmitOneKeepsInv
<1>6. CASE Fail /\ log' = log
  <2>1. faults' \in 0..MaxFaults
    BY <1>1 DEF FlightInv, TypeOK
  <2> QED  BY <1>1, <1>2, <1>6, <2>1, PassFails
<1> QED  BY <1>1, <1>5, <1>6

LEMMA SubmitBatchKeepsInv ==
    ASSUME FlightInv, SubmitBatch
    PROVE  FlightInv'
<1> USE DEF FlightInv
<1> DEFINE i == pass.pol
           ps == Policies[i].participants
           L == Len(ps)
           chunk == First(pass.todo, BatchSize)
           fly == {Peer(k) : k \in chunk}
           work == ReserveBatch(pass.work, i, fly)
           todo == pass.todo \ chunk
<1>1. /\ pass.pc = "due" /\ ~Free /\ pass.batch /\ BatchSize >= 2 /\ Submit(fly, work, todo)
      /\ UNCHANGED <<snap, declared, client, driver, read, stop, calls, faults>>
  BY DEF SubmitBatch, Selecting, Free
<1>2. pass.work \in Snapshots /\ AtRest(pass.work) /\ pass.todo \in SUBSET Nat
  BY <1>1, PassParts DEF KeptAtRest
<1>3. i \in DOMAIN Policies /\ (pass.todo # {} => pass.todo \subseteq DOMAIN ps)
  BY <1>1 DEF OnCourse
<1>4. L \in Nat /\ DOMAIN ps = 1..L /\ pass.todo \in SUBSET (1..L)
  BY <1>3, PolicyTypes
<1>5. Available(pass.work, i) = Policies[i].maxInFlight /\ Policies[i].maxInFlight \in Nat
  <2>1. pass.work.svc[i].inFlight = 0
    BY <1>2, <1>3 DEF AtRest
  <2>2. Policies[i].maxInFlight \in Nat /\ Policies[i].maxInFlight > 0
    BY <1>3, PoliciesAssumption
  <2> HIDE DEF i
  <2> QED  BY <2>1, <2>2 DEF Available
<1>6. /\ Cardinality(pass.todo) >= 2 /\ Available(pass.work, i) >= 2
      /\ BatchSize = IndependentPrefix(ps, pass.todo, Available(pass.work, i))
  <2>1. ~(Cardinality(pass.todo) < 2 \/ Available(pass.work, i) < 2)
    BY <1>1 DEF BatchSize
  <2>2. Cardinality(pass.todo) \in Nat
    <3>1. IsFiniteSet(1..L)
      BY <1>4, FS_Interval
    <3> QED  BY <1>4, <3>1, FS_Subset, FS_CardinalityType
  <2> QED  BY <1>5, <2>1, <2>2 DEF BatchSize
<1>7. /\ BatchSize \in Nat /\ BatchSize <= Policies[i].maxInFlight
      /\ \A j, k \in chunk : j # k => {ps[j], ps[k]} \notin Conflicts
  <2> DEFINE limit == Available(pass.work, i)
             size == BatchSize
  <2>1. /\ L \in Nat /\ pass.todo \in SUBSET (1..L) /\ Cardinality(pass.todo) >= 2
        /\ limit \in Nat /\ limit >= 2 /\ size = IndependentPrefix(ps, pass.todo, limit)
    BY <1>4, <1>5, <1>6
  <2>2. limit = Policies[i].maxInFlight
    BY <1>5
  <2> HIDE DEF limit, size, ps, L
  <2>3. /\ size \in Nat /\ size <= limit
        /\ \A j, k \in First(pass.todo, size) : j # k => {ps[j], ps[k]} \notin Conflicts
    BY <2>1, PrefixIsIndependent
  <2> QED  BY <2>2, <2>3 DEF size
<1>8. chunk \subseteq pass.todo /\ IsFiniteSet(chunk) /\ Cardinality(chunk) <= BatchSize
  BY <1>4, <1>7, FirstIsBounded
<1> HIDE DEF chunk
<1>9. fly \in SUBSET ToSet(ps)
  BY <1>4, <1>8 DEF Peer, ToSet
<1>10. IsFiniteSet(fly) /\ Cardinality(fly) <= Policies[i].maxInFlight
  <2>1. IsFiniteSet(fly) /\ Cardinality(fly) <= Cardinality(chunk)
    <3> DEFINE f == [k \in chunk |-> Peer(k)]
    <3>1. f \in Surjection(chunk, fly)
      BY DEF Surjection
    <3> QED  BY <1>8, <3>1, FS_Surjection
  <2>2. Cardinality(fly) \in Nat /\ Cardinality(chunk) \in Nat
    BY <1>8, <2>1, FS_CardinalityType
  <2> HIDE DEF fly
  <2> QED  BY <1>5, <1>7, <1>8, <2>1, <2>2
<1>11. ASSUME NEW p \in fly, NEW q \in fly  PROVE  {p, q} \notin Conflicts
  <2>1. PICK j \in chunk, k \in chunk : p = ps[j] /\ q = ps[k]
    BY DEF Peer
  <2>2. CASE j = k
    <3>1. {p, q} = {p}
      BY <2>1, <2>2
    <3> QED  BY <1>3, <3>1, AloneIsIndependent
  <2>3. CASE j # k
    BY <1>7, <2>1, <2>3
  <2> QED  BY <2>2, <2>3
<1>12. fly \in SUBSET Participants
  BY <1>3, <1>9, PolicyTypes
<1> HIDE DEF fly
<1>13. work \in Snapshots
  BY <1>2, <1>3, <1>10, <1>12, ReserveBatchTypes
<1>14. todo \in SUBSET Nat /\ todo \subseteq DOMAIN ps
  BY <1>2, <1>3
<1> HIDE DEF todo
<1> QED  BY <1>1, <1>3, <1>9, <1>10, <1>11, <1>13, <1>14, SubmitKeepsInv

-----------------------------------------------------------------------------
(* Answers of the native runtime                                            *)

LEMMA FlightParts ==
    ASSUME FlightInv, pass.pc = "flight"
    PROVE  /\ ~Free /\ pass \in Passes /\ pass.work \in Snapshots /\ pass.pol \in DOMAIN Policies
           /\ pass.base \in Snapshots /\ AtRest(pass.base)
           /\ pass.fly \in SUBSET Participants /\ IsFiniteSet(pass.fly)
           /\ \A p \in pass.fly : PolicyOf(p) = pass.pol
           /\ pass.batch => pass.work = ReserveBatch(pass.base, pass.pol, pass.fly)
           /\ ~pass.batch => AtRest(pass.work)
           /\ \A p \in pass.fly : Governed(p) => ~pass.batch
           /\ ~pass.batch => \A p \in pass.fly : Operation(p, pass.work.st[p]) \in log.native
<1> USE DEF FlightInv
<1>1. ~Free
  BY DEF Free
<1>2. /\ pass \in Passes /\ pass.work \in Snapshots /\ pass.base \in Snapshots \cup {Blank}
      /\ pass.fly \in SUBSET Participants
  BY <1>1, PassParts
<1>3. /\ pass.pol \in DOMAIN Policies /\ ~IsBlank(pass.base)
      /\ pass.fly \subseteq ToSet(Policies[pass.pol].participants) /\ IsFiniteSet(pass.fly)
      /\ pass.batch => Policies[pass.pol].profile = "v1"
      /\ pass.batch => pass.work = ReserveBatch(pass.base, pass.pol, pass.fly)
      /\ ~pass.batch => pass.work.st = pass.base.st /\ pass.work.svc = pass.base.svc
      /\ \A p \in pass.fly : Operation(p, pass.base.st[p]) \in log.native
  BY <1>1 DEF OnCourse
<1>4. pass.base \in Snapshots
  BY <1>2, <1>3, Blanks
<1>5. AtRest(pass.base)
  BY <1>1 DEF KeptAtRest
<1>6. ~pass.batch => AtRest(pass.work)
  BY <1>3, <1>5 DEF AtRest
<1>7. \A p \in pass.fly : PolicyOf(p) = pass.pol
  BY <1>3, PolicyIsUnique
<1>8. \A p \in pass.fly : Governed(p) => ~pass.batch
  BY <1>3, <1>7 DEF Governed
<1> QED  BY <1>1, <1>2, <1>3, <1>4, <1>5, <1>6, <1>7, <1>8

LEMMA SettledKeepsInv ==
    ASSUME FlightInv, pass.pc = "flight", NEW work \in Snapshots, AtRest(work), NEW failed \in BOOLEAN,
           Settled(work, failed), LogOK', faults' \in 0..MaxFaults,
           UNCHANGED <<snap, declared, client, driver, read, stop, calls>>
    PROVE  FlightInv'
<1> USE DEF FlightInv
<1>1. pass \in Passes /\ ~Free
  BY FlightParts
<1>2. /\ pass' \in Passes /\ pass'.by = pass.by /\ pass'.op = pass.op /\ pass'.pred = pass.pred
      /\ pass'.pc = "due" /\ pass'.work = work /\ pass'.pol = pass.pol /\ pass'.todo = pass.todo
      /\ pass'.batch = pass.batch
  BY <1>1 DEF Settled, Passes
<1>3. OnCourse' /\ OverlapIsIndependent'
  BY <1>1, <1>2 DEF OnCourse, OverlapIsIndependent
<1> QED  BY <1>1, <1>2, <1>3, PassGoesOn

LEMMA AnswerCount ==
    ASSUME FlightInv, NEW ok \in BOOLEAN, IF ok THEN UNCHANGED faults ELSE Fault
    PROVE  faults' \in 0..MaxFaults
BY FaultTypes DEF FlightInv, TypeOK

LEMMA SettleResultsKeepsInv ==
    ASSUME FlightInv, NEW results, SettleResults(results)
    PROVE  FlightInv'
<1> DEFINE work == SettleBatch(pass.work, pass.base, pass.pol, pass.fly, results)
           failed == \/ \E p \in pass.fly : Stops(pass.pol, results[p])
                     \/ ~ServiceSettles(pass.work, pass.base, pass.pol, pass.fly)
           ok == \A p \in pass.fly : results[p] = "succeeded"
<1>1. /\ pass.pc = "flight" /\ pass.batch /\ Settled(work, failed)
      /\ IF ok THEN UNCHANGED faults ELSE Fault
      /\ UNCHANGED <<snap, declared, client, driver, read, stop, calls>> /\ log' = log
  BY DEF SettleResults
<1>2. /\ pass.pol \in DOMAIN Policies /\ pass.base \in Snapshots /\ AtRest(pass.base)
      /\ pass.fly \in SUBSET Participants /\ IsFiniteSet(pass.fly)
      /\ pass.work = ReserveBatch(pass.base, pass.pol, pass.fly)
  BY <1>1, FlightParts
<1>3. work \in Snapshots /\ AtRest(work)
  BY <1>2, SettledBatchIsAtRest
<1>4. failed \in BOOLEAN /\ ok \in BOOLEAN
  OBVIOUS
<1>5. LogOK'
  BY <1>1 DEF FlightInv, TypeOK, LogOK, Logs
<1> HIDE DEF work, failed, ok
<1>6. faults' \in 0..MaxFaults
  BY <1>1, <1>4, AnswerCount
<1> QED  BY <1>1, <1>3, <1>4, <1>5, <1>6, SettledKeepsInv

LEMMA SettleLostKeepsInv ==
    ASSUME FlightInv, SettleLost
    PROVE  FlightInv'
<1> DEFINE work == SettleIndeterminate(pass.work, pass.base, pass.pol, pass.fly)
           ids == {Operation(p, pass.base.st[p]) : p \in pass.fly}
<1>1. /\ pass.pc = "flight" /\ pass.batch /\ Settled(work, TRUE) /\ Fault
      /\ UNCHANGED <<snap, declared, client, driver, read, stop, calls>>
      /\ log' = [log EXCEPT !.fenced = @ \cup ids]
  BY DEF SettleLost
<1>2. /\ pass.pol \in DOMAIN Policies /\ pass.base \in Snapshots /\ AtRest(pass.base)
      /\ pass.fly \in SUBSET Participants /\ IsFiniteSet(pass.fly)
      /\ pass.work = ReserveBatch(pass.base, pass.pol, pass.fly)
  BY <1>1, FlightParts
<1>3. work \in Snapshots /\ AtRest(work)
  BY <1>2, SettledBatchIsAtRest DEF SettleIndeterminate
<1>4. ids \in SUBSET Operations
  BY <1>2, OperationType, SnapshotParts
<1> HIDE DEF ids, work
<1>5. LogOK'
  <2>1. LogOK
    BY DEF FlightInv, TypeOK, LogOK, Logs
  <2> QED  BY <1>1, <1>4, <2>1 DEF LogOK, Logs
<1>6. faults' \in 0..MaxFaults
  BY <1>1, FaultTypes DEF FlightInv
<1> QED  BY <1>1, <1>3, <1>5, <1>6, SettledKeepsInv

LEMMA SettleActionKeepsInv ==
    ASSUME FlightInv, NEW p \in pass.fly, NEW result, SettleAction(p, result)
    PROVE  FlightInv'
<1> DEFINE s == NextActionState(p, pass.work.st[p], result = "succeeded", result = "invalid")
           work == [pass.work EXCEPT !.st[p] = s]
           failed == Stops(pass.pol, result)
           ok == result = "succeeded"
<1>1. /\ pass.pc = "flight" /\ ~pass.batch /\ Settled(work, failed)
      /\ IF ok THEN UNCHANGED faults ELSE Fault
      /\ UNCHANGED <<snap, declared, client, driver, read, stop, calls>> /\ log' = log
  BY DEF SettleAction
<1>2. pass.work \in Snapshots /\ AtRest(pass.work) /\ p \in Participants
  BY <1>1, FlightParts
<1>3. s \in SchedulerStates /\ s.inFlight = 0 /\ s.attempted = s.succeeded + s.failed
  <2> DEFINE old == pass.work.st[p]
  <2>1. old \in SchedulerStates /\ old.inFlight = 0 /\ old.attempted = old.succeeded + old.failed
    BY <1>2, SnapshotParts DEF AtRest
  <2>2. s = NextActionState(p, old, ok, result = "invalid")
    OBVIOUS
  <2> HIDE DEF s, old
  <2> QED  BY <1>2, <2>1, <2>2, NextActionTypes
<1> HIDE DEF s
<1>4. work \in Snapshots /\ AtRest(work)
  BY <1>2, <1>3, StateIsReplaced
<1>5. failed \in BOOLEAN /\ ok \in BOOLEAN
  BY DEF Stops
<1>6. LogOK'
  BY <1>1 DEF FlightInv, TypeOK, LogOK, Logs
<1> HIDE DEF work, failed, ok
<1>7. faults' \in 0..MaxFaults
  BY <1>1, <1>5, AnswerCount
<1> QED  BY <1>1, <1>4, <1>5, <1>6, <1>7, SettledKeepsInv

\* The ledger of a governed flight takes part in the commit and the release.
LEMMA GovernedParts ==
    ASSUME FlightInv, pass.pc = "flight", NEW p \in pass.fly, Governed(p)
    PROVE  /\ pass.work \in Snapshots /\ AtRest(pass.work) /\ p \in Participants /\ pass.pol \in DOMAIN Policies
           /\ pass.work.led \in Ledgers(Operations) /\ pass.work.st[p] \in SchedulerStates
           /\ pass.work.svc[pass.pol].generation \in Nat /\ pass.work.clock.tick \in Nat
           /\ Policies[pass.pol].budgets \in SUBSET Budgets
           /\ Operation(p, pass.work.st[p]) \in Operations /\ Operation(p, pass.work.st[p]) \in log.native
<1>1. /\ pass.work \in Snapshots /\ AtRest(pass.work) /\ p \in Participants /\ pass.pol \in DOMAIN Policies
      /\ Operation(p, pass.work.st[p]) \in log.native
  BY FlightParts
<1>2. /\ pass.work.led \in Ledgers(Operations) /\ pass.work.st[p] \in SchedulerStates
      /\ pass.work.svc[pass.pol].generation \in Nat /\ pass.work.clock.tick \in Nat
  BY <1>1, SnapshotParts
<1>3. Policies[pass.pol].budgets \in SUBSET Budgets
  BY <1>1, PoliciesAssumption
<1>4. Operation(p, pass.work.st[p]) \in Operations
  BY <1>1, <1>2, OperationType
<1> QED  BY <1>1, <1>2, <1>3, <1>4

LEMMA LedgerIsReplaced ==
    ASSUME NEW w \in Snapshots, AtRest(w), NEW l \in Ledgers(Operations)
    PROVE  [w EXCEPT !.led = l] \in Snapshots /\ AtRest([w EXCEPT !.led = l])
<1> DEFINE v == [w EXCEPT !.led = l]
<1>1. v \in Snapshots /\ v.st = w.st /\ v.svc = w.svc
  BY DEF Snapshots
<1>2. AtRest(v)
  BY <1>1 DEF AtRest
<1> QED  BY <1>1, <1>2

LEMMA SettleUntrustedKeepsInv ==
    ASSUME FlightInv, NEW p \in pass.fly, SettleUntrusted(p)
    PROVE  FlightInv'
<1> DEFINE i == pass.pol
           o == Operation(p, pass.work.st[p])
           led == Release(pass.work.led, Policies[i].budgets, o, pass.work.svc[i].generation).ledger
           work == [pass.work EXCEPT !.led = led]
<1>1. /\ pass.pc = "flight" /\ Governed(p) /\ Settled(work, TRUE) /\ Fault
      /\ UNCHANGED <<snap, declared, client, driver, read, stop, calls>>
      /\ log' = [log EXCEPT !.forgotten = @ \cup {o}]
  BY DEF SettleUntrusted
<1>2. /\ pass.work \in Snapshots /\ AtRest(pass.work) /\ pass.work.led \in Ledgers(Operations)
      /\ pass.work.svc[i].generation \in Nat /\ Policies[i].budgets \in SUBSET Budgets
      /\ o \in Operations /\ o \in log.native
  BY <1>1, GovernedParts
<1>3. led \in Ledgers(Operations)
  <2> HIDE DEF o, i
  <2>1. [b \in Policies[i].budgets |-> 0] \in [Policies[i].budgets -> Nat]
    OBVIOUS
  <2> QED  BY <1>2, <2>1, LedgerTypes
<1> HIDE DEF led
<1>4. work \in Snapshots /\ AtRest(work)
  BY <1>2, <1>3, LedgerIsReplaced
<1> HIDE DEF work, o
<1>5. LogOK'
  <2>1. LogOK
    BY DEF FlightInv, TypeOK, LogOK, Logs
  <2> QED  BY <1>1, <1>2, <2>1 DEF LogOK, Logs
<1>6. faults' \in 0..MaxFaults
  BY <1>1, FaultTypes DEF FlightInv
<1> QED  BY <1>1, <1>4, <1>5, <1>6, SettledKeepsInv

-----------------------------------------------------------------------------
(* The end of a pass                                                        *)

LEMMA PassEnds ==
    ASSUME FlightInv, ~Free, pass' = NoPass, snap' \in Snapshots \cup {Blank}, ~IsBlank(snap') => AtRest(snap'),
           driver' \in {"off", "idle", "ready", "failing", "publishing", "ended"},
           driver' \notin {"off", "ended"} => ~IsBlank(snap'),
           driver' = "publishing" => driver = "publishing",
           declared' \in BOOLEAN, LogOK', faults' \in 0..MaxFaults, UNCHANGED <<client, read, stop, calls>>
    PROVE  FlightInv'
<1> USE DEF FlightInv
<1>1. Free'
  BY PassTypes DEF Free
<1>2. TypeOK'
  BY DEF TypeOK, LogOK, Logs
<1>3. Turns'
  BY <1>1 DEF Turns, Free
<1>4. Populated'
  BY <1>1 DEF Populated, Alive, IsBlank
<1>5. OnCourse' /\ OverlapIsIndependent'
  <2>1. pass'.pc # "flight"
    BY <1>1 DEF Free
  <2> QED  BY <1>1, <2>1 DEF OnCourse, OverlapIsIndependent
<1>6. KeptAtRest'
  BY <1>1 DEF KeptAtRest
<1> QED  BY <1>2, <1>3, <1>4, <1>5, <1>6

\* The driver after a pass that raised or returned.
LEMMA RaiseKeepsInv ==
    ASSUME FlightInv, ~Free, Raise, faults' \in 0..MaxFaults
    PROVE  FlightInv'
<1> USE DEF FlightInv
<1>1. /\ pass' = NoPass /\ snap' = snap /\ declared' = declared /\ UNCHANGED <<client, read, stop, calls>>
      /\ driver' = IF pass.by = "driver" THEN "failing" ELSE driver
  BY DEF Raise
<1>2. snap' \in Snapshots \cup {Blank} /\ (~IsBlank(snap') => AtRest(snap')) /\ declared' \in BOOLEAN
  BY <1>1 DEF TypeOK, KeptAtRest
<1>3. pass.by = "driver" <=> driver = "busy"
  BY DEF Turns
<1>4. /\ driver' \in {"off", "idle", "ready", "failing", "publishing", "ended"}
      /\ driver' \notin {"off", "ended"} => driver \notin {"off", "ended"}
      /\ driver' = "publishing" => driver = "publishing"
  BY <1>1, <1>3 DEF TypeOK
<1>5. driver' \notin {"off", "ended"} => ~IsBlank(snap')
  BY <1>1, <1>4 DEF Populated, Alive
<1>6. LogOK'
  <2> DEFINE l == Forget(snap)
             torn == l.torn \/ pass.op \in {"advance", "jump"}
  <2>1. LogOK
    BY DEF TypeOK, LogOK, Logs
  <2>2. l \in Logs /\ l.forgotten \subseteq l.native
    BY <2>1, ForgetTypes
  <2>3. log' = [l EXCEPT !.torn = torn] /\ torn \in BOOLEAN
    BY DEF Raise
  <2> HIDE DEF l, torn
  <2> QED  BY <2>2, <2>3 DEF LogOK, Logs
<1> QED  BY <1>1, <1>2, <1>4, <1>5, <1>6, PassEnds

LEMMA ReturnKeepsInv ==
    ASSUME FlightInv, ~Free, NEW ok \in BOOLEAN, Return(ok), snap' \in Snapshots, AtRest(snap'),
           declared' = declared, LogOK', UNCHANGED <<client, read, stop, calls, faults>>
    PROVE  FlightInv'
<1> USE DEF FlightInv
<1>1. /\ pass' = NoPass
      /\ driver' = IF pass.by # "driver" THEN driver ELSE IF ok THEN "idle" ELSE "ended"
  BY DEF Return
<1>2. pass.by = "driver" <=> driver = "busy"
  BY DEF Turns
<1>3. /\ driver' \in {"off", "idle", "ready", "failing", "publishing", "ended"}
      /\ driver' = "publishing" => driver = "publishing"
  BY <1>1, <1>2 DEF TypeOK
<1>4. ~IsBlank(snap') /\ snap' \in Snapshots \cup {Blank} /\ declared' \in BOOLEAN /\ faults' \in 0..MaxFaults
  BY Blanks DEF TypeOK
<1> QED  BY <1>1, <1>3, <1>4, PassEnds

LEMMA PublishDueKeepsInv ==
    ASSUME FlightInv, PublishDue
    PROVE  FlightInv'
<1> USE DEF FlightInv
<1>1. /\ pass.pc = "due" /\ ~Free /\ snap' = pass.work /\ UNCHANGED <<client, read, stop, log, calls, faults>>
  BY DEF PublishDue, Free
<1>2. pass \in Passes /\ pass.work \in Snapshots /\ AtRest(pass.work) /\ pass.failed \in BOOLEAN
  BY <1>1, PassParts DEF KeptAtRest
<1>3. LogOK' /\ ~IsBlank(snap')
  BY <1>1, <1>2, Blanks DEF TypeOK, LogOK, Logs
<1>4. CASE pass.op = "apply"
  <2>1. pass' = NoPass /\ declared' = ~pass.failed /\ driver' = IF pass.failed THEN "off" ELSE "idle"
    BY <1>4 DEF PublishDue
  <2>2. /\ driver' \in {"off", "idle", "ready", "failing", "publishing", "ended"} /\ driver' # "publishing"
        /\ declared' \in BOOLEAN /\ faults' \in 0..MaxFaults
    BY <1>1, <2>1 DEF TypeOK
  <2> QED  BY <1>1, <1>2, <1>3, <2>1, <2>2, PassEnds
<1>5. CASE pass.op = "run_due"
  <2>1. Return(~pass.failed) /\ declared' = declared
    BY <1>5 DEF PublishDue
  <2> QED  BY <1>1, <1>2, <1>3, <2>1, ReturnKeepsInv
<1>6. CASE pass.op \in {"advance", "jump"}
  <2>1. pass' = [pass EXCEPT !.pc = "conclude"] /\ UNCHANGED <<declared, driver>>
    BY <1>6 DEF PublishDue
  <2>2. /\ pass' \in Passes /\ pass'.by = pass.by /\ pass'.op = pass.op /\ pass'.pred = pass.pred
        /\ pass'.pc = "conclude" /\ pass'.work = pass.work /\ pass'.pol = pass.pol /\ pass'.todo = pass.todo
        /\ pass'.batch = pass.batch
    BY <1>2, <2>1 DEF Passes
  <2>3. ~Free'
    BY <2>2 DEF Free
  <2>4. TypeOK'
    BY <1>1, <1>2, <2>1, <2>2 DEF TypeOK
  <2>5. Turns'
    BY <1>1, <2>1, <2>2, <2>3 DEF Turns, Free
  <2>6. Populated'
    BY <1>1, <1>3, <1>6, <2>1, <2>2, <2>3 DEF Populated, Alive, IsBlank
  <2>7. OnCourse' /\ OverlapIsIndependent'
    BY <1>1, <2>2 DEF OnCourse, OverlapIsIndependent
  <2>8. KeptAtRest'
    BY <1>1, <1>2, <2>2, <2>3 DEF KeptAtRest
  <2> QED  BY <2>4, <2>5, <2>6, <2>7, <2>8
<1> QED  BY <1>4, <1>5, <1>6 DEF PublishDue

LEMMA ConcludeKeepsInv ==
    ASSUME FlightInv, Conclude
    PROVE  FlightInv'
<1> USE DEF FlightInv
<1> DEFINE ok == ~pass.failed /\ ReadbackValid(snap)
<1>1. /\ pass.pc = "conclude" /\ ~Free /\ snap' = (IF ok THEN snap ELSE pass.pred)
      /\ log' = (IF ok THEN log ELSE Forget(pass.pred)) /\ Return(ok)
      /\ UNCHANGED <<declared, client, read, stop, calls, faults>>
  BY DEF Conclude, Free
<1>2. ok \in BOOLEAN
  BY <1>1, PassParts DEF ReadbackValid
<1>3. /\ ~IsBlank(snap) /\ ~IsBlank(pass.pred)
      /\ snap \in Snapshots \cup {Blank} /\ pass.pred \in Snapshots \cup {Blank}
  BY <1>1, PassParts DEF Populated, TypeOK
<1>4. snap \in Snapshots /\ pass.pred \in Snapshots /\ AtRest(snap) /\ AtRest(pass.pred)
  BY <1>1, <1>3, Blanks DEF KeptAtRest
<1>5. LogOK'
  <2>1. LogOK
    BY DEF TypeOK, LogOK, Logs
  <2>2. Forget(pass.pred) \in Logs /\ Forget(pass.pred).forgotten \subseteq Forget(pass.pred).native
    BY <2>1, ForgetTypes
  <2>3. log' = log \/ log' = Forget(pass.pred)
    BY <1>1
  <2> QED  BY <2>1, <2>2, <2>3 DEF LogOK
<1> HIDE DEF ok
<1>6. snap' \in Snapshots /\ AtRest(snap')
  BY <1>1, <1>4
<1> QED  BY <1>1, <1>2, <1>5, <1>6, ReturnKeepsInv

\* A governed result that carries trusted measurements: committed and counted,
\* refused, or raised.
LEMMA SettleActivityKeepsInv ==
    ASSUME FlightInv, NEW p \in pass.fly, NEW outcome, NEW extent \in {"none", "reserved", "more"},
           SettleActivity(p, outcome, extent)
    PROVE  FlightInv'
<1> DEFINE i == pass.pol
           s == pass.work.st[p]
           o == Operation(p, s)
           tick == pass.work.clock.tick
           budgets == Policies[i].budgets
           measured == [b \in budgets |-> CASE extent = "none" -> 0
                                             [] extent = "reserved" -> Budget[b].demand
                                             [] extent = "more" -> Budget[b].demand + 1]
           commit == Commit(pass.work.led, budgets, o, pass.work.svc[i].generation, measured)
           ok == outcome = "succeeded" /\ extent # "more"
<1>1. /\ pass.pc = "flight" /\ Governed(p) /\ ~Free
      /\ IF ok THEN UNCHANGED faults ELSE Fault
  BY DEF SettleActivity, Free
<1>2. CASE commit.disposition = "ok"
  <2>1. /\ \E next \in NextActivityStates(p, s, tick, outcome) :
              Settled([pass.work EXCEPT !.led = commit.ledger, !.st[p] = next], next.life = "failed")
        /\ UNCHANGED <<snap, declared, client, driver, read, stop, log, calls>>
    BY <1>2 DEF SettleActivity
  <2>2. /\ pass.work \in Snapshots /\ AtRest(pass.work) /\ p \in Participants
        /\ pass.work.led \in Ledgers(Operations) /\ s \in SchedulerStates
        /\ pass.work.svc[i].generation \in Nat /\ tick \in Nat /\ budgets \in SUBSET Budgets /\ o \in Operations
    BY <1>1, GovernedParts
  <2>3. measured \in [budgets -> Nat]
    <3>1. \A b \in budgets : Budget[b].demand \in Nat /\ Budget[b].demand + 1 \in Nat
      BY <2>2, BudgetTypes
    <3>2. extent = "none" \/ extent = "reserved" \/ extent = "more"
      OBVIOUS
    <3> HIDE DEF budgets
    <3> QED  BY <3>1, <3>2
  <2>4. commit.ledger \in Ledgers(Operations)
    <3> HIDE DEF measured, o, budgets, i
    <3> QED  BY <2>2, <2>3, LedgerTypes
  <2>5. PICK next \in NextActivityStates(p, s, tick, outcome) :
            Settled([pass.work EXCEPT !.led = commit.ledger, !.st[p] = next], next.life = "failed")
    BY <2>1
  <2> DEFINE w == [pass.work EXCEPT !.led = commit.ledger]
             work == [w EXCEPT !.st[p] = next]
  <2> HIDE DEF commit
  <2>6. work = [pass.work EXCEPT !.led = commit.ledger, !.st[p] = next]
    BY <2>2 DEF Snapshots
  <2>7. w \in Snapshots /\ AtRest(w)
    BY <2>2, <2>4, LedgerIsReplaced
  <2>8. next \in SchedulerStates /\ next.inFlight = 0 /\ next.attempted = next.succeeded + next.failed
    <3>1. s.inFlight = 0 /\ s.attempted = s.succeeded + s.failed
      BY <2>2 DEF AtRest
    <3> HIDE DEF s, tick
    <3> QED  BY <2>2, <3>1, NextActivityTypes
  <2> HIDE DEF w
  <2>9. work \in Snapshots /\ AtRest(work)
    BY <2>2, <2>7, <2>8, StateIsReplaced
  <2>10. (next.life = "failed") \in BOOLEAN /\ ok \in BOOLEAN
    OBVIOUS
  <2>11. LogOK'
    BY <2>1 DEF FlightInv, TypeOK, LogOK, Logs
  <2> HIDE DEF work, ok
  <2>12. faults' \in 0..MaxFaults
    BY <1>1, <2>10, AnswerCount
  <2>13. Settled(work, next.life = "failed")
    BY <2>5, <2>6
  <2> QED  BY <1>1, <2>1, <2>9, <2>10, <2>11, <2>12, <2>13, SettledKeepsInv
<1>3. CASE commit.disposition = "refused"
  <2>1. /\ Settled(pass.work, TRUE)
        /\ log' = [log EXCEPT !.forgotten = @ \cup {o}]
        /\ UNCHANGED <<snap, declared, client, driver, read, stop, calls>>
    BY <1>3 DEF SettleActivity
  <2>2. /\ pass.work \in Snapshots /\ AtRest(pass.work) /\ o \in Operations /\ o \in log.native
    BY <1>1, GovernedParts
  <2>3. ok \in BOOLEAN
    OBVIOUS
  <2> HIDE DEF o, ok
  <2>4. LogOK'
    <3>1. LogOK
      BY DEF FlightInv, TypeOK, LogOK, Logs
    <3> QED  BY <2>1, <2>2, <3>1 DEF LogOK, Logs
  <2>5. faults' \in 0..MaxFaults
    BY <1>1, <2>3, AnswerCount
  <2> QED  BY <1>1, <2>1, <2>2, <2>4, <2>5, SettledKeepsInv
<1>4. CASE commit.disposition = "raised"
  <2>1. Raise
    BY <1>4 DEF SettleActivity
  <2>2. ok \in BOOLEAN
    OBVIOUS
  <2> HIDE DEF ok
  <2>3. faults' \in 0..MaxFaults
    BY <1>1, <2>2, AnswerCount
  <2> QED  BY <1>1, <2>1, <2>3, RaiseKeepsInv
<1>5. commit.disposition \in {"ok", "refused", "raised"}
  <2> HIDE DEF measured, o, budgets, i
  <2> QED  BY ResultsOfLedger
<1> QED  BY <1>2, <1>3, <1>4, <1>5

\* The steps of a pass.
LEMMA PassStepKeepsInv ==
    ASSUME FlightInv, PassStep
    PROVE  FlightInv'
<1>1. ASSUME NEW p \in Participants,
             SkipParticipant(p) \/ CadenceMissed(p) \/ SubmitAction(p) \/ NoCandidate(p)
             \/ SubmitActivity(p) \/ BindRaises(p)
      PROVE  FlightInv'
  <2>1. CASE CadenceMissed(p)
    <3>1. pass.pc = "due" /\ Fail /\ UNCHANGED <<snap, declared, client, driver, read, stop, log, calls, faults>>
      BY <2>1 DEF CadenceMissed, Serial, Selecting
    <3>2. faults' \in 0..MaxFaults
      BY <3>1 DEF FlightInv, TypeOK
    <3> QED  BY <3>1, <3>2, PassFails
  <2>2. CASE BindRaises(p)
    <3>1. ~Free /\ Fault /\ Raise
      BY <2>2 DEF BindRaises, Serial, Selecting, Free
    <3>2. faults' \in 0..MaxFaults
      BY <3>1, FaultTypes DEF FlightInv
    <3> QED  BY <3>1, <3>2, RaiseKeepsInv
  <2> QED  BY <1>1, <2>1, <2>2, SkipKeepsInv, SubmitActionKeepsInv, NoCandidateKeepsInv, SubmitActivityKeepsInv
<1>2. ASSUME FailBeforeDispatch  PROVE  FlightInv'
  <2>1. pass.pc = "due" /\ Fault /\ Fail /\ UNCHANGED <<snap, declared, client, driver, read, stop, log, calls>>
    BY <1>2 DEF FailBeforeDispatch, Selecting
  <2>2. faults' \in 0..MaxFaults
    BY <2>1, FaultTypes DEF FlightInv
  <2> QED  BY <2>1, <2>2, PassFails
<1>3. ASSUME Answer  PROVE  FlightInv'
  <2>1. CASE \E results \in [Flying -> {"succeeded", "failed", "invalid"}] : SettleResults(results)
    BY <2>1, SettleResultsKeepsInv
  <2>2. CASE SettleLost
    BY <2>2, SettleLostKeepsInv
  <2>3. CASE NativeRaises
    <3>1. ~Free /\ Fault /\ Raise
      BY <2>3 DEF NativeRaises, Free
    <3>2. faults' \in 0..MaxFaults
      BY <3>1, FaultTypes DEF FlightInv
    <3> QED  BY <3>1, <3>2, RaiseKeepsInv
  <2>4. ASSUME NEW p \in Flying  PROVE  p \in pass.fly
    BY DEF Flying
  <2>5. ASSUME NEW p \in Flying,
               \/ \E result \in {"succeeded", "failed", "invalid"} : SettleAction(p, result)
               \/ \E outcome \in {"succeeded", "failed", "retryable"}, extent \in {"none", "reserved", "more"} :
                      SettleActivity(p, outcome, extent)
               \/ SettleUntrusted(p)
        PROVE  FlightInv'
    <3>1. p \in pass.fly
      BY <2>4
    <3>2. ASSUME NEW result, SettleAction(p, result)  PROVE  FlightInv'
      BY <3>1, <3>2, SettleActionKeepsInv
    <3>3. ASSUME NEW outcome, NEW extent \in {"none", "reserved", "more"}, SettleActivity(p, outcome, extent)
          PROVE  FlightInv'
      BY <3>1, <3>3, SettleActivityKeepsInv
    <3>4. ASSUME SettleUntrusted(p)  PROVE  FlightInv'
      BY <3>1, <3>4, SettleUntrustedKeepsInv
    <3> QED  BY <2>5, <3>2, <3>3, <3>4
  <2> QED  BY <1>3, <2>1, <2>2, <2>3, <2>5 DEF Answer
<1> QED  BY <1>1, <1>2, <1>3, SyncKeepsInv, EnterPolicyKeepsInv, SubmitBatchKeepsInv, LeaveBatchesKeepsInv,
            PublishDueKeepsInv, ConcludeKeepsInv DEF PassStep

-----------------------------------------------------------------------------
(* The driver and the client outside a pass                                 *)

LEMMA DriverStepKeepsInv ==
    ASSUME FlightInv, DriverStep
    PROVE  FlightInv'
<1> USE DEF FlightInv
<1>1. ASSUME driver' \in {"idle", "ready", "ended"}, driver \in {"idle", "ready"},
             UNCHANGED <<snap, declared, pass, client, read, stop, log, calls, faults>>
      PROVE  FlightInv'
  <2>1. TypeOK'
    BY <1>1 DEF TypeOK
  <2>2. Turns' /\ Populated'
    BY <1>1 DEF Turns, Populated, Free, Alive, IsBlank
  <2>3. OnCourse' /\ KeptAtRest' /\ OverlapIsIndependent'
    BY <1>1 DEF OnCourse, KeptAtRest, OverlapIsIndependent, Free
  <2> QED  BY <2>1, <2>2, <2>3
<1>2. ASSUME DriverObserves \/ DriverStops  PROVE  FlightInv'
  BY <1>1, <1>2 DEF DriverObserves, DriverStops
<1>3. ASSUME DriverServices  PROVE  FlightInv'
  <2>1. driver = "ready" /\ Free /\ calls' = calls /\ calls' \in 0..MaxCalls
    BY <1>3 DEF DriverServices, TypeOK
  <2>2. CASE /\ ~HasTransition /\ driver' = "idle"
             /\ UNCHANGED <<snap, declared, pass, client, read, stop, log, faults>>
    BY <1>1, <2>1, <2>2
  <2>3. ASSUME HasTransition
        PROVE  snap \in Snapshots /\ AtRest(snap) /\ RunningParticipants(snap) # {}
    BY <2>3, Blanks DEF HasTransition, TypeOK, KeptAtRest
  <2>4. CASE /\ HasTransition /\ driver' = "busy" /\ pass' = Pass("driver", "run_due", "due", snap, snap)
             /\ UNCHANGED <<snap, declared, client, read, stop, log, faults>>
    BY <2>1, <2>3, <2>4, PassBegins
  <2>5. CASE /\ HasTransition /\ driver' = "busy"
             /\ Begin("driver", "advance", [snap.clock EXCEPT !.tick = NextTick(snap)])
    <3>1. snap.clock \in Clocks /\ NextTick(snap) \in Nat
      BY <2>3, <2>5, NextTickType, SnapshotParts
    <3>2. [snap.clock EXCEPT !.tick = NextTick(snap)] \in Clocks
      BY <3>1 DEF Clocks
    <3>3. snap' \in Snapshots /\ AtRest(snap')
      BY <2>3, <2>5, <3>2, BeginKeepsRest DEF Begin
    <3>4. pass' = Pass("driver", "advance", "sync", snap, snap)
          /\ UNCHANGED <<declared, client, read, stop, log, faults>>
      BY <2>5 DEF Begin
    <3> QED  BY <2>1, <2>3, <2>5, <3>3, <3>4, PassBegins
  <2> QED  BY <1>3, <2>2, <2>4, <2>5 DEF DriverServices
<1>4. ASSUME DriverFails  PROVE  FlightInv'
  <2>1. /\ driver = "failing" /\ driver' = "publishing" /\ read' = snap
        /\ log' = [log EXCEPT !.torn = @ \/ ~Free]
        /\ UNCHANGED <<snap, declared, pass, client, stop, calls, faults>>
    BY <1>4 DEF DriverFails
  <2>2. ~IsBlank(snap) /\ snap \in Snapshots /\ AtRest(snap) /\ client # "tearing"
    BY <2>1, Blanks DEF Populated, Alive, TypeOK, KeptAtRest, Turns
  <2>3. LogOK' /\ log'.native = log.native
    <3> DEFINE torn == log.torn \/ ~Free
    <3>1. LogOK
      BY DEF TypeOK, LogOK, Logs
    <3>2. torn \in BOOLEAN /\ log' = [log EXCEPT !.torn = torn]
      BY <2>1, <3>1 DEF LogOK, Logs
    <3> HIDE DEF torn
    <3> QED  BY <3>1, <3>2 DEF LogOK, Logs
  <2>4. TypeOK'
    BY <2>1, <2>2, <2>3 DEF TypeOK, LogOK, Logs
  <2>5. Turns' /\ Populated'
    BY <2>1, <2>2 DEF Turns, Populated, Free, Alive, IsBlank
  <2>6. OnCourse' /\ OverlapIsIndependent'
    BY <2>1, <2>3 DEF OnCourse, OverlapIsIndependent, Free, IsBlank
  <2>7. KeptAtRest'
    BY <2>1, <2>2 DEF KeptAtRest, Free
  <2> QED  BY <2>4, <2>5, <2>6, <2>7
<1>5. ASSUME DriverPublishes  PROVE  FlightInv'
  <2>1. /\ driver = "publishing" /\ driver' = "ended" /\ read' = Blank /\ snap' = PacingFailure(read)
        /\ log' = (IF Free THEN Forget(read) ELSE [log EXCEPT !.forgotten = log.native, !.torn = TRUE])
        /\ UNCHANGED <<declared, pass, client, stop, calls, faults>>
    BY <1>5 DEF DriverPublishes
  <2>2. read \in Snapshots /\ AtRest(read) /\ client # "tearing"
    BY <2>1, Blanks DEF Populated, TypeOK, KeptAtRest, Turns
  <2>3. snap' \in Snapshots /\ AtRest(snap') /\ ~IsBlank(snap') /\ IsBlank(read')
    BY <2>1, <2>2, PacingFailureTypes, Blanks
  <2>4. LogOK' /\ log'.native = log.native
    <3>1. LogOK
      BY DEF TypeOK, LogOK, Logs
    <3>2. CASE Free
      BY <2>1, <3>1, <3>2 DEF LogOK, Logs, Forget
    <3>3. CASE ~Free
      BY <2>1, <3>1, <3>3 DEF LogOK, Logs
    <3> QED  BY <3>2, <3>3
  <2>5. TypeOK'
    BY <2>1, <2>3, <2>4 DEF TypeOK, LogOK, Logs
  <2>6. Turns' /\ Populated'
    BY <2>1, <2>2, <2>3 DEF Turns, Populated, Free, Alive, IsBlank
  <2>7. OnCourse' /\ OverlapIsIndependent'
    BY <2>1, <2>4 DEF OnCourse, OverlapIsIndependent, Free, IsBlank
  <2>8. KeptAtRest'
    BY <2>1, <2>3 DEF KeptAtRest, Free
  <2> QED  BY <2>5, <2>6, <2>7, <2>8
<1> QED  BY <1>2, <1>3, <1>4, <1>5 DEF DriverStep

LEMMA CallStopKeepsInv ==
    ASSUME FlightInv, NEW call \in {"apply", "destroy"}, CallStop(call)
    PROVE  FlightInv'
<1> USE DEF FlightInv
<1>1. /\ client = "idle" /\ (~Free => pass.by = "driver") /\ client' = call /\ stop' \in BOOLEAN
      /\ calls' \in 0..MaxCalls /\ UNCHANGED <<snap, declared, pass, driver, read, log, faults>>
  BY BoundsAssumption DEF CallStop, TypeOK, Alive
<1>2. TypeOK'
  BY <1>1 DEF TypeOK
<1>3. Turns' /\ Populated'
  BY <1>1 DEF Turns, Populated, Free, Alive, IsBlank
<1>4. OnCourse' /\ KeptAtRest' /\ OverlapIsIndependent'
  BY <1>1 DEF OnCourse, KeptAtRest, OverlapIsIndependent, Free
<1> QED  BY <1>2, <1>3, <1>4

LEMMA ClientStepKeepsInv ==
    ASSUME FlightInv, ClientStep
    PROVE  FlightInv'
<1> USE DEF FlightInv
<1>1. ASSUME JoinTimesOut  PROVE  FlightInv'
  <2>1. /\ client \in {"apply", "destroy"} /\ client' = "idle"
        /\ UNCHANGED <<snap, declared, pass, driver, read, stop, log, calls, faults>>
    BY <1>1 DEF JoinTimesOut, Stopping
  <2>2. TypeOK'
    BY <2>1 DEF TypeOK
  <2>3. Turns' /\ Populated'
    BY <2>1 DEF Turns, Populated, Free, Alive, IsBlank
  <2>4. OnCourse' /\ KeptAtRest' /\ OverlapIsIndependent'
    BY <2>1 DEF OnCourse, KeptAtRest, OverlapIsIndependent, Free
  <2> QED  BY <2>2, <2>3, <2>4
<1>2. ASSUME client \in {"apply", "destroy"}, ~Alive  PROVE  Free
  <2>1. driver # "busy"
    BY <1>2 DEF Alive
  <2>2. Free \/ pass.by \in {"client", "driver"}
    BY PassParts
  <2> QED  BY <1>2, <2>1, <2>2 DEF Turns
<1>3. ASSUME BeginTeardown  PROVE  FlightInv'
  <2>1. /\ client = "destroy" /\ ~Alive /\ client' = "tearing" /\ read' = snap /\ driver' = "off" /\ stop' = FALSE
        /\ UNCHANGED <<snap, declared, pass, log, calls, faults>>
    BY <1>3 DEF BeginTeardown
  <2>2. Free
    BY <1>2, <2>1
  <2>3. TypeOK'
    BY <2>1 DEF TypeOK
  <2>4. Turns' /\ Populated'
    BY <2>1, <2>2 DEF Turns, Populated, Free, Alive, IsBlank
  <2>5. OnCourse' /\ KeptAtRest' /\ OverlapIsIndependent'
    BY <2>1, <2>2 DEF OnCourse, KeptAtRest, OverlapIsIndependent, Free
  <2> QED  BY <2>3, <2>4, <2>5
<1>4. ASSUME EndTeardown  PROVE  FlightInv'
  <2>1. /\ client = "tearing" /\ client' = "idle" /\ snap' = read /\ read' = Blank
        /\ UNCHANGED <<declared, pass, driver, stop, log, calls, faults>>
    BY <1>4 DEF EndTeardown
  <2>2. driver = "off" /\ Free /\ snap' = snap /\ IsBlank(read')
    BY <2>1, Blanks DEF Turns
  <2>3. TypeOK'
    BY <2>1 DEF TypeOK
  <2>4. Turns' /\ Populated'
    BY <2>1, <2>2 DEF Turns, Populated, Free, Alive, IsBlank
  <2>5. OnCourse' /\ KeptAtRest' /\ OverlapIsIndependent'
    BY <2>1, <2>2 DEF OnCourse, KeptAtRest, OverlapIsIndependent, Free
  <2> QED  BY <2>3, <2>4, <2>5
<1>5. ASSUME Apply  PROVE  FlightInv'
  <2>1. /\ client = "apply" /\ Free /\ client' = "idle" /\ driver' = "off" /\ stop' = FALSE
        /\ declared' \in BOOLEAN /\ UNCHANGED <<snap, read, log, calls, faults>>
    BY <1>5 DEF Apply
  <2>2. CASE pass' = pass
    <3>1. TypeOK'
      BY <2>1, <2>2 DEF TypeOK
    <3>2. Turns' /\ Populated'
      BY <2>1, <2>2 DEF Turns, Populated, Free, Alive, IsBlank
    <3>3. OnCourse' /\ KeptAtRest' /\ OverlapIsIndependent'
      BY <2>1, <2>2 DEF OnCourse, KeptAtRest, OverlapIsIndependent, Free
    <3> QED  BY <3>1, <3>2, <3>3
  <2>3. CASE \E w \in InitialSnapshots : pass' = Pass("client", "apply", "due", snap, w)
    <3>1. PICK w \in InitialSnapshots : pass' = Pass("client", "apply", "due", snap, w)
      BY <2>3
    <3>2. w \in Snapshots /\ AtRest(w)
      BY InitialSnapshotTypes
    <3>3. snap \in Snapshots \cup {Blank} /\ 0 \in 0..Len(Policies)
      BY PolicyTypes DEF TypeOK
    <3>4. /\ pass' \in Passes /\ pass'.by = "client" /\ pass'.op = "apply" /\ pass'.pc = "due"
          /\ pass'.pred = snap /\ pass'.work = w /\ pass'.todo = {} /\ pass'.batch = FALSE
      BY <3>1, <3>2, <3>3 DEF Pass, Passes
    <3>5. TypeOK'
      BY <2>1, <3>4 DEF TypeOK
    <3>6. Turns' /\ Populated'
      BY <2>1, <3>4 DEF Turns, Populated, Free, Alive, IsBlank
    <3>7. OnCourse' /\ OverlapIsIndependent'
      BY <3>4 DEF OnCourse, OverlapIsIndependent
    <3>8. KeptAtRest'
      BY <2>1, <3>2, <3>4 DEF KeptAtRest
    <3> QED  BY <3>5, <3>6, <3>7, <3>8
  <2> QED  BY <1>5, <2>2, <2>3 DEF Apply
<1> QED  BY <1>1, <1>3, <1>4, <1>5 DEF ClientStep

-----------------------------------------------------------------------------
(* The theorems                                                             *)

LEMMA InitEstablishesInv == Init => FlightInv
<1> SUFFICES ASSUME Init  PROVE  FlightInv
  OBVIOUS
<1>1. Free /\ pass.pc = "free"
  BY PassTypes DEF Init, Free
<1>2. TypeOK
  <2>1. calls \in 0..MaxCalls /\ faults \in 0..MaxFaults
    BY BoundsAssumption DEF Init
  <2>2. /\ log \in Logs /\ log.forgotten \subseteq log.native
    BY DEF Init, Logs
  <2> QED  BY <2>1, <2>2 DEF Init, TypeOK, Logs
<1>3. Turns /\ Populated
  BY <1>1 DEF Init, Turns, Populated, Alive
<1>4. OnCourse /\ OverlapIsIndependent /\ KeptAtRest
  BY <1>1, Blanks DEF Init, OnCourse, OverlapIsIndependent, KeptAtRest
<1> QED  BY <1>2, <1>3, <1>4 DEF FlightInv

\* FlightInv holds initially and is kept by every step of the client, the driver
\* and the pass that holds the lock.
THEOREM FlightInvariant == Spec => []FlightInv
<1>1. FlightInv /\ [Next]_vars => FlightInv'
  <2> SUFFICES ASSUME FlightInv, [Next]_vars  PROVE  FlightInv'
    OBVIOUS
  <2>1. CASE ClientCall
    BY <2>1, CallKeepsInv, CallStopKeepsInv DEF ClientCall
  <2>2. CASE ClientStep \/ PassStep \/ DriverStep
    BY <2>2, ClientStepKeepsInv, PassStepKeepsInv, DriverStepKeepsInv
  <2>3. CASE UNCHANGED vars
    BY <2>3 DEF FlightInv, vars, TypeOK, Turns, Populated, OnCourse, KeptAtRest, OverlapIsIndependent,
                Free, Alive, IsBlank
  <2> QED  BY <2>1, <2>2, <2>3 DEF Next
<1> QED  BY <1>1, InitEstablishesInv, PTL DEF Spec

\* Every snapshot, ledger, pass and thread state stays of its type, whatever the
\* native runtime answers.
THEOREM TypeCorrect == Spec => []TypeOK
<1>1. FlightInv => TypeOK
  BY DEF FlightInv
<1> QED  BY <1>1, FlightInvariant, PTL

\* While destroy works from the snapshot it read, no driver runs and nothing is
\* published that its own publication would undo.
THEOREM TeardownIsAlone == Spec => []AloneInTeardown
<1>1. FlightInv => AloneInTeardown
  BY DEF FlightInv, Turns, AloneInTeardown, Alive
<1> QED  BY <1>1, FlightInvariant, PTL

\* Between two submissions nothing is in flight and every service has its whole
\* capacity back, whatever the native runtime answered for the batches before.
THEOREM BatchesSettle == Spec => []SettledBetweenFlights
<1>1. FlightInv => SettledBetweenFlights
  <2> SUFFICES ASSUME FlightInv, ~IsBlank(Current), pass.pc # "flight"  PROVE  AtRest(Current)
    BY DEF SettledBetweenFlights
  <2>1. CASE pass.pc = "due"
    BY <2>1 DEF FlightInv, KeptAtRest, Current, Free
  <2>2. CASE pass.pc # "due"
    BY <2>2 DEF FlightInv, KeptAtRest, Current
  <2> QED  BY <2>1, <2>2
<1> QED  BY <1>1, FlightInvariant, PTL

\* Actions that overlap in the native runtime belong to one policy, fit its
\* max_in_flight and are pairwise free of conflicts.
THEOREM BatchesAreIndependent == Spec => []OverlapIsIndependent
<1>1. FlightInv => OverlapIsIndependent
  BY DEF FlightInv
<1> QED  BY <1>1, FlightInvariant, PTL
=============================================================================
