-------------------- MODULE ParticipantAccountingProofs --------------------
(***************************************************************************)
(* Proofs about the counters and the accounts of ParticipantExecution:     *)
(* AccountInv is inductive on top of FlightInv.  From it follow that what  *)
(* was submitted stays counted, that an attempt is charged exactly once,   *)
(* that governed work in flight is reserved, and that the two accounts of  *)
(* a budget agree with each other and with their service.                  *)
(***************************************************************************)
EXTENDS ParticipantExecutionProofs

-----------------------------------------------------------------------------
(* The ledger                                                               *)

\* What a transition of a vector leaves alone: two accounts that are alike stay
\* alike, in their generation.
Alike(l, m) ==
    \A b \in Budgets : l.pool[b] = l.budget[b] =>
        m.pool[b] = m.budget[b] /\ m.budget[b].generation = l.budget[b].generation

LEMMA AccountsStayAlike ==
    ASSUME NEW l \in Ledgers(Operations), NEW B \in SUBSET Budgets, NEW o, NEW g, NEW measured \in [B -> Nat]
    PROVE  /\ Alike(l, Reserve(l, B, o, g).ledger)
           /\ Alike(l, Commit(l, B, o, g, measured).ledger)
           /\ Alike(l, Release(l, B, o, g).ledger)
<1>1. Alike(l, l)
  BY DEF Alike
<1>2. ASSUME NEW b \in Budgets, l.pool[b] = l.budget[b]
      PROVE  /\ Reserved(l.pool, B)[b] = Reserved(l.budget, B)[b]
             /\ Reserved(l.budget, B)[b].generation = l.budget[b].generation
             /\ Committed(l.pool, B, measured)[b] = Committed(l.budget, B, measured)[b]
             /\ Committed(l.budget, B, measured)[b].generation = l.budget[b].generation
             /\ Released(l.pool, B)[b] = Released(l.budget, B)[b]
             /\ Released(l.budget, B)[b].generation = l.budget[b].generation
  <2>1. l.budget[b] \in Accounts
    BY DEF Ledgers
  <2> QED  BY <1>2, <2>1 DEF Reserved, Committed, Released, Accounts
<1>3. Alike(l, Reserve(l, B, o, g).ledger)
  <2> DEFINE m == [l EXCEPT !.budget = Reserved(l.budget, B), !.pool = Reserved(l.pool, B),
                            !.reserves = l.reserves \cup {o}]
  <2>1. Alike(l, m)
    BY <1>2 DEF Alike, Ledgers
  <2>2. Reserve(l, B, o, g).ledger \in {l, m}
    BY DEF Reserve, Result
  <2> QED  BY <1>1, <2>1, <2>2
<1>4. Alike(l, Commit(l, B, o, g, measured).ledger)
  <2> DEFINE m == [l EXCEPT !.budget = Committed(l.budget, B, measured), !.pool = Committed(l.pool, B, measured),
                            !.commits = l.commits \cup {o}]
  <2>1. Alike(l, m)
    BY <1>2 DEF Alike, Ledgers
  <2>2. Commit(l, B, o, g, measured).ledger \in {l, m}
    BY DEF Commit, Result
  <2> QED  BY <1>1, <2>1, <2>2
<1>5. Alike(l, Release(l, B, o, g).ledger)
  <2> DEFINE m == [l EXCEPT !.budget = Released(l.budget, B), !.pool = Released(l.pool, B),
                            !.releases = l.releases \cup {o}]
  <2>1. Alike(l, m)
    BY <1>2 DEF Alike, Ledgers
  <2>2. Release(l, B, o, g).ledger \in {l, m}
    BY DEF Release, Result
  <2> QED  BY <1>1, <2>1, <2>2
<1> QED  BY <1>3, <1>4, <1>5

\* What happens to the events: a reservation that is granted has one, only a commit
\* adds to the commits, and only the operation it is for.
Charges(l, m, o) == m.commits = l.commits \cup {o}

LEMMA EventsOfLedger ==
    ASSUME NEW l \in Ledgers(Operations), NEW B, NEW o, NEW g
    PROVE  /\ Reserve(l, B, o, g).ledger.commits = l.commits
           /\ Reserve(l, B, o, g).disposition = "ok" => o \in Reserve(l, B, o, g).ledger.reserves
           /\ Release(l, B, o, g).ledger.commits = l.commits
           /\ \A measured : Commit(l, B, o, g, measured).disposition = "ok" =>
                 Charges(l, Commit(l, B, o, g, measured).ledger, o)
<1>1. Reserve(l, B, o, g).ledger.commits = l.commits
  BY DEF Reserve, Result, Ledgers
<1>2. Reserve(l, B, o, g).disposition = "ok" => o \in Reserve(l, B, o, g).ledger.reserves
  BY DEF Reserve, Result, Ledgers
<1>3. Release(l, B, o, g).ledger.commits = l.commits
  BY DEF Release, Result, Ledgers
<1>4. \A measured : Commit(l, B, o, g, measured).disposition = "ok" =>
         Charges(l, Commit(l, B, o, g, measured).ledger, o)
  BY DEF Commit, Result, Ledgers, Charges
<1> QED  BY <1>1, <1>2, <1>3, <1>4

\* A reset reconciles every budget: it moves its accounts to the next generation, since
\* each carried that of its service, and leaves nothing reserved and every event.
Events(l) == <<l.reserves, l.commits, l.releases>>

LEMMA ReconcileAllSucceeds ==
    ASSUME NEW w \in Snapshots, Twinned(w)
    PROVE  /\ Events(ReconcileAll(w).ledger) = Events(w.led)
           /\ \A i \in DOMAIN Policies : \A b \in Policies[i].budgets :
                 /\ ReconcileAll(w).ledger.pool[b] = ReconcileAll(w).ledger.budget[b]
                 /\ ReconcileAll(w).ledger.budget[b].reserved = 0
                 /\ ReconcileAll(w).ledger.budget[b].generation = w.svc[i].generation + 1
<1>1. PICK F : Walks(F, w)
  BY ReconcileAllSteps
<1> DEFINE Agrees(l, j, d) == \A b \in Policies[j].budgets :
                                 /\ l.pool[b] = l.budget[b] /\ l.budget[b].generation = w.svc[j].generation + d
                                 /\ d = 1 => l.budget[b].reserved = 0
           Done(i) == /\ F[i].disposition = "ok" /\ F[i].ledger \in Ledgers(Operations)
                      /\ Events(F[i].ledger) = Events(w.led)
                      /\ \A j \in DOMAIN Policies : Agrees(F[i].ledger, j, IF j <= i THEN 1 ELSE 0)
<1>2. Done(0)
  <2>1. F[0].disposition = "ok" /\ F[0].ledger = w.led
    BY <1>1 DEF Walks, Result
  <2>2. \A j \in DOMAIN Policies : w.svc[j].generation + 0 = w.svc[j].generation /\ ~(j <= 0)
    BY SnapshotParts, PolicyTypes
  <2> QED  BY <2>1, <2>2, SnapshotParts DEF Twinned
<1>3. ASSUME NEW i \in 1..Len(Policies), Done(i - 1)  PROVE  Done(i)
  <2> DEFINE l == F[i - 1].ledger
             B == Policies[i].budgets
             g == w.svc[i].generation
             m == [l EXCEPT !.budget = Reconciled(l.budget, B, g), !.pool = Reconciled(l.pool, B, g)]
  <2>1. /\ i \in DOMAIN Policies /\ B \in SUBSET Budgets /\ g \in Nat /\ ~(i <= i - 1)
        /\ Policies[i].profile = "v1" => B = {}
        /\ Policies[i].profile \in {"v1", "v3"}
    <3>1. i \in DOMAIN Policies /\ ~(i <= i - 1)
      BY PolicyTypes
    <3>2. g \in Nat
      BY <3>1, SnapshotParts
    <3> QED  BY <3>1, <3>2, PoliciesAssumption
  <2>2. \A j \in DOMAIN Policies : j # i => (j <= i <=> j <= i - 1) /\ Policies[j].budgets \cap B = {}
    BY <2>1, PolicyTypes, PoliciesAssumption
  <2>3. CASE Policies[i].profile = "v1"
    <3>1. F[i] = F[i - 1]
      BY <1>1, <2>3 DEF Walks
    <3>2. Agrees(l, i, 1)
      BY <2>1, <2>3
    <3> QED  BY <1>3, <2>2, <3>1, <3>2
  <2>4. CASE Policies[i].profile = "v3"
    <3>1. \A b \in B : l.budget[b].generation = g
      BY <1>3, <2>1
    <3>2. F[i] = Result("ok", m)
      <4>1. F[i] = Reconcile(l, B, g)
        BY <1>1, <1>3, <2>4 DEF Walks
      <4> QED  BY <3>1, <4>1 DEF Reconcile
    <3>3. m \in Ledgers(Operations) /\ Events(m) = Events(l)
      <4>1. Reconcile(l, B, g).ledger = m
        BY <3>1 DEF Reconcile, Result
      <4>2. m \in Ledgers(Operations)
        BY <1>3, <2>1, <4>1, ReconcileTypes
      <4> QED  BY <1>3, <4>2 DEF Ledgers, Events
    <3>4. /\ m.pool = Reconciled(l.pool, B, g) /\ m.budget = Reconciled(l.budget, B, g)
      BY <1>3 DEF Ledgers
    <3>5. Agrees(m, i, 1)
      <4>1. \A b \in B : l.pool[b] = l.budget[b]
        BY <1>3, <2>1
      <4> QED  BY <2>1, <3>4, <4>1 DEF Reconciled
    <3>6. ASSUME NEW j \in DOMAIN Policies, j # i  PROVE  Agrees(m, j, IF j <= i THEN 1 ELSE 0)
      <4>1. Agrees(l, j, IF j <= i - 1 THEN 1 ELSE 0)
        BY <1>3
      <4>2. \A b \in Policies[j].budgets : m.pool[b] = l.pool[b] /\ m.budget[b] = l.budget[b]
        <5>1. Policies[j].budgets \in SUBSET Budgets
          BY PoliciesAssumption
        <5> QED  BY <2>2, <3>4, <3>6, <5>1 DEF Reconciled
      <4> QED  BY <2>2, <3>6, <4>1, <4>2
    <3>7. F[i].disposition = "ok" /\ F[i].ledger = m
      BY <3>2 DEF Result
    <3> HIDE DEF m
    <3> QED  BY <1>3, <2>1, <3>3, <3>5, <3>6, <3>7
  <2> QED  BY <2>1, <2>3, <2>4
<1>4. Done(Len(Policies))
  <2> HIDE DEF Done
  <2> DEFINE S == {i \in 0..Len(Policies) : ~Done(i)}
  <2> SUFFICES ASSUME S # {}  PROVE  FALSE
    BY PolicyTypes
  <2>1. S \in SUBSET Nat
    BY PolicyTypes
  <2>2. PICK i \in S : \A j \in S : i <= j
    BY <2>1, LeastNatural
  <2>3. i \in 1..Len(Policies) /\ i - 1 \in 0..Len(Policies) /\ ~(i <= i - 1)
    BY <1>2, PolicyTypes
  <2> QED  BY <1>3, <2>2, <2>3
<1>5. ReconcileAll(w) = F[Len(Policies)]
  BY <1>1 DEF Walks
<1>6. \A j \in DOMAIN Policies : j <= Len(Policies)
  BY PolicyTypes
<1> QED  BY <1>4, <1>5, <1>6

-----------------------------------------------------------------------------
(* What the scheduler's operators do to a snapshot's books                  *)

\* The account of a snapshot is in order.
Sound(w) == Ordered(w) /\ Twinned(w)

\* One snapshot carries on another: the same ledger and generations, a clock that
\* has not gone back, and states that lead to the same attempts or, where nothing is
\* accounted for, to later ones.
CarriesOn(w, v) ==
    /\ v.led = w.led
    /\ w.clock.segment <= v.clock.segment
    /\ \A i \in DOMAIN Policies : v.svc[i].generation = w.svc[i].generation
    /\ \A p \in Participants :
          /\ v.st[p].segment = w.st[p].segment
          /\ v.st[p].occurrence = w.st[p].occurrence
          /\ v.st[p].retry = w.st[p].retry
          /\ w.st[p].attempted <= v.st[p].attempted
          /\ Governed(p) => v.st[p].attempted = w.st[p].attempted

LEMMA CountedParts ==
    ASSUME NEW w \in Snapshots, NEW o \in Operations
    PROVE  /\ o.participant \in Participants /\ o.segment \in Nat /\ o.occurrence \in Nat /\ o.retry \in Nat
           /\ LET s == w.st[o.participant]
                  n == IF Governed(o.participant) THEN s.occurrence ELSE s.attempted
              IN  /\ s.segment \in Nat /\ n \in Nat /\ s.retry \in Nat
                  /\ Counted(o, w) <=> \/ o.segment < s.segment
                                       \/ /\ o.segment = s.segment
                                          /\ o.occurrence < n \/ (o.occurrence = n /\ o.retry < s.retry)
<1>1. o.participant \in Participants /\ o.segment \in Nat /\ o.occurrence \in Nat /\ o.retry \in Nat
  BY DEF Operations
<1>2. w.st[o.participant] \in SchedulerStates /\ ~IsBlank(w)
  BY <1>1, SnapshotParts, Blanks
<1> QED  BY <1>1, <1>2 DEF Counted, Operation, SchedulerStates

LEMMA CarryingOn ==
    ASSUME NEW w \in Snapshots, NEW v \in Snapshots, CarriesOn(w, v)
    PROVE  /\ Sound(w) => Sound(v)
           /\ Charged(w) => Charged(v)
           /\ \A o \in Operations : Counted(o, w) => Counted(o, v)
<1> USE DEF CarriesOn
<1>1. ASSUME NEW o \in Operations, Counted(o, w)  PROVE  Counted(o, v)
  <2>1. o.participant \in Participants
    BY CountedParts
  <2>2. v.st[o.participant] \in SchedulerStates /\ w.st[o.participant] \in SchedulerStates
    BY <2>1, SnapshotParts
  <2>3. v.st[o.participant].attempted \in Nat /\ w.st[o.participant].attempted \in Nat
    BY <2>2 DEF SchedulerStates
  <2> QED  BY <1>1, <2>1, <2>3, CountedParts
<1>2. Sound(w) => Sound(v)
  <2>1. ASSUME Ordered(w)  PROVE  Ordered(v)
    <3>1. \A p \in Participants : w.st[p].segment \in Nat
      BY SnapshotParts DEF SchedulerStates
    <3> QED  BY <2>1, <3>1, SnapshotParts DEF Ordered
  <2>2. ASSUME Twinned(w)  PROVE  Twinned(v)
    BY <2>2 DEF Twinned
  <2> QED  BY <2>1, <2>2 DEF Sound
<1>3. Charged(w) => Charged(v)
  <2>1. v.led.commits \in SUBSET Operations
    BY SnapshotParts DEF Ledgers
  <2>2. \A p \in Participants : Commits(v, p) = Commits(w, p)
    BY DEF Commits
  <2> QED  BY <1>1, <2>1, <2>2 DEF Charged
<1> QED  BY <1>1, <1>2, <1>3

LEMMA ClockMoves ==
    ASSUME NEW w \in Snapshots, NEW clock \in Clocks, w.clock.segment <= clock.segment
    PROVE  CarriesOn(w, [w EXCEPT !.clock = clock])
<1>1. \A p \in Participants : w.st[p].attempted \in Nat
  BY SnapshotParts DEF SchedulerStates
<1> QED  BY <1>1 DEF CarriesOn, Snapshots

LEMMA LifecycleCarriesOn ==
    ASSUME NEW w \in Snapshots, NEW life
    PROVE  CarriesOn(w, ClockLifecycle(w, life))
<1> DEFINE v == ClockLifecycle(w, life)
<1>1. v.led = w.led /\ v.clock = w.clock /\ w.clock.segment \in Nat
  BY SnapshotParts DEF ClockLifecycle, Snapshots
<1>2. ASSUME NEW p \in Participants
      PROVE  /\ v.st[p].segment = w.st[p].segment /\ v.st[p].occurrence = w.st[p].occurrence
             /\ v.st[p].retry = w.st[p].retry /\ v.st[p].attempted = w.st[p].attempted
             /\ w.st[p].attempted \in Nat
  <2>1. w.st[p] \in SchedulerStates
    BY SnapshotParts
  <2>2. v.st[p] \in {w.st[p], [w.st[p] EXCEPT !.life = life]}
    BY DEF ClockLifecycle, Snapshots
  <2> QED  BY <2>1, <2>2 DEF SchedulerStates
<1>3. ASSUME NEW i \in DOMAIN Policies  PROVE  v.svc[i].generation = w.svc[i].generation
  <2>1. w.svc[i] \in ServiceStates
    BY SnapshotParts
  <2>2. v.svc[i] \in {w.svc[i], [w.svc[i] EXCEPT !.life = life]}
    BY DEF ClockLifecycle, Snapshots
  <2> QED  BY <2>1, <2>2 DEF ServiceStates
<1> HIDE DEF v
<1>4. CarriesOn(w, v)
  BY <1>1, <1>2, <1>3 DEF CarriesOn
<1> QED  BY <1>4 DEF v

LEMMA PacingFailureCarriesOn ==
    ASSUME NEW w \in Snapshots
    PROVE  CarriesOn(w, PacingFailure(w))
<1> DEFINE v == PacingFailure(w)
<1>1. v.led = w.led /\ v.clock = w.clock /\ v.st = w.st /\ w.clock.segment \in Nat
  BY SnapshotParts DEF PacingFailure, Snapshots
<1>2. \A p \in Participants : w.st[p].attempted \in Nat
  BY SnapshotParts DEF SchedulerStates
<1>3. ASSUME NEW i \in DOMAIN Policies  PROVE  v.svc[i].generation = w.svc[i].generation
  <2>1. w.svc[i] \in ServiceStates
    BY SnapshotParts
  <2>2. v.svc[i] = [w.svc[i] EXCEPT !.life = "paused", !.health = "degraded"]
    BY DEF PacingFailure, Snapshots
  <2> QED  BY <2>1, <2>2 DEF ServiceStates
<1> HIDE DEF v
<1>4. CarriesOn(w, v)
  BY <1>1, <1>2, <1>3 DEF CarriesOn
<1> QED  BY <1>4 DEF v

\* How a scheduler state moves on: one more attempt, and for a governed one the next
\* retry or the next occurrence; a fresh state has made none in the clock's segment.
LEMMA StateMoves ==
    /\ \A p, ok, broken : \A s \in SchedulerStates :
          LET t == NextActionState(p, s, ok, broken)
          IN  /\ t.segment = s.segment /\ t.occurrence = s.occurrence /\ t.retry = s.retry
              /\ t.attempted = s.attempted + 1
    /\ \A tick : \A s \in SchedulerStates : \A t \in EmptyActivityStates(s, tick) :
          /\ t.segment = s.segment /\ t.occurrence = s.occurrence /\ t.retry = s.retry
          /\ t.attempted = s.attempted
    /\ \A p, clock : \A t \in InitialStates(p, clock) \cup ResetStates(p, clock) :
          t.segment = clock.segment /\ t.attempted = 0
<1>1. ASSUME NEW p, NEW ok, NEW broken, NEW s \in SchedulerStates
      PROVE  LET t == NextActionState(p, s, ok, broken)
             IN  /\ t.segment = s.segment /\ t.occurrence = s.occurrence /\ t.retry = s.retry
                 /\ t.attempted = s.attempted + 1
  BY DEF NextActionState, SchedulerStates
<1>2. ASSUME NEW tick, NEW s \in SchedulerStates, NEW t \in EmptyActivityStates(s, tick)
      PROVE  /\ t.segment = s.segment /\ t.occurrence = s.occurrence /\ t.retry = s.retry
             /\ t.attempted = s.attempted
  BY DEF EmptyActivityStates, SchedulerStates
<1>3. ASSUME NEW p, NEW clock, NEW t \in InitialStates(p, clock) \cup ResetStates(p, clock)
      PROVE  t.segment = clock.segment /\ t.attempted = 0
  BY DEF InitialStates, ResetStates, InitialState
<1> QED  BY <1>1, <1>2, <1>3

\* A governed state is one attempt further: in its next occurrence or its next retry.
OneFurther(s, t) ==
    /\ t.segment = s.segment /\ t.attempted = s.attempted + 1
    /\ t.occurrence = s.occurrence + 1 \/ (t.occurrence = s.occurrence /\ t.retry = s.retry + 1)

LEMMA ActivityMoves ==
    ASSUME NEW p, NEW s \in SchedulerStates, NEW tick, NEW outcome,
           NEW t \in NextActivityStates(p, s, tick, outcome)
    PROVE  OneFurther(s, t)
<1> DEFINE ok == outcome = "succeeded"
           counted == [s EXCEPT !.attempted = @ + 1, !.succeeded = IF ok THEN @ + 1 ELSE @,
                                !.failed = IF ok THEN @ ELSE @ + 1]
           Ended(life, next) == [counted EXCEPT !.occurrence = @ + 1, !.retry = 0, !.life = life, !.next = next]
           again == [counted EXCEPT !.retry = @ + 1, !.next = tick]
<1>1. counted.segment = s.segment /\ counted.attempted = s.attempted + 1
      /\ counted.occurrence = s.occurrence /\ counted.retry = s.retry /\ DOMAIN counted = DOMAIN s
  BY DEF SchedulerStates
<1>2. \/ t = again
      \/ \E life, next : t = Ended(life, next)
      \/ \E next : t = [Ended("running", tick) EXCEPT !.next = next]
  BY DEF NextActivityStates
<1> HIDE DEF counted
<1>3. DOMAIN counted = {"life", "segment", "next", "attempted", "succeeded", "failed", "inFlight", "occurrence", "retry"}
  BY <1>1 DEF SchedulerStates
<1> QED  BY <1>1, <1>2, <1>3 DEF OneFurther

LEMMA OneStateCarriesOn ==
    ASSUME NEW w \in Snapshots, NEW p \in Participants, NEW s \in SchedulerStates,
           s.segment = w.st[p].segment, s.occurrence = w.st[p].occurrence, s.retry = w.st[p].retry,
           w.st[p].attempted <= s.attempted, Governed(p) => s.attempted = w.st[p].attempted
    PROVE  CarriesOn(w, [w EXCEPT !.st[p] = s])
<1> DEFINE v == [w EXCEPT !.st[p] = s]
<1>1. /\ v.led = w.led /\ v.clock = w.clock /\ v.svc = w.svc /\ w.clock.segment \in Nat
      /\ v.st[p] = s /\ \A q \in Participants \ {p} : v.st[q] = w.st[q]
  BY SnapshotParts DEF Snapshots
<1>2. \A q \in Participants : w.st[q].attempted \in Nat
  BY SnapshotParts DEF SchedulerStates
<1> HIDE DEF v
<1>3. CarriesOn(w, v)
  <2>1. ASSUME NEW q \in Participants
        PROVE  /\ v.st[q].segment = w.st[q].segment /\ v.st[q].occurrence = w.st[q].occurrence
               /\ v.st[q].retry = w.st[q].retry /\ w.st[q].attempted <= v.st[q].attempted
               /\ Governed(q) => v.st[q].attempted = w.st[q].attempted
    <3>1. CASE q = p
      BY <1>1, <3>1
    <3>2. CASE q # p
      BY <1>1, <1>2, <3>2
    <3> QED  BY <3>1, <3>2
  <2> QED  BY <1>1, <2>1 DEF CarriesOn
<1> QED  BY <1>3 DEF v

LEMMA ReservingCarriesOn ==
    ASSUME NEW w \in Snapshots, NEW i \in DOMAIN Policies, NEW batch \in SUBSET Participants, IsFiniteSet(batch),
           \A p \in batch : ~Governed(p)
    PROVE  /\ CarriesOn(w, ReserveBatch(w, i, batch))
           /\ \A p \in batch : ReserveBatch(w, i, batch).st[p].attempted = w.st[p].attempted + 1
<1> DEFINE v == ReserveBatch(w, i, batch)
<1>1. /\ v \in Snapshots /\ v.clock = w.clock /\ v.led = w.led
      /\ \A p \in Participants : p \notin batch => v.st[p] = w.st[p]
      /\ \A j \in DOMAIN Policies : j # i => v.svc[j] = w.svc[j]
  BY ReserveBatchTypes
<1>2. ASSUME NEW p \in batch  PROVE  v.st[p] = [w.st[p] EXCEPT !.attempted = @ + 1, !.inFlight = @ + 1]
  BY DEF ReserveBatch, Snapshots
<1>3. v.svc[i].generation = w.svc[i].generation
  <2>1. w.svc \in [DOMAIN Policies -> ServiceStates] /\ w.svc[i] \in ServiceStates
    BY SnapshotParts
  <2>2. v.svc[i] = [w.svc[i] EXCEPT !.inFlight = @ + Cardinality(batch), !.quiescent = FALSE]
    BY <2>1 DEF ReserveBatch, Snapshots
  <2> QED  BY <2>1, <2>2 DEF ServiceStates
<1>4. ASSUME NEW p \in batch
      PROVE  /\ v.st[p].segment = w.st[p].segment /\ v.st[p].occurrence = w.st[p].occurrence
             /\ v.st[p].retry = w.st[p].retry /\ v.st[p].attempted = w.st[p].attempted + 1
  <2>1. w.st[p] \in SchedulerStates
    BY SnapshotParts
  <2> QED  BY <1>2, <2>1 DEF SchedulerStates
<1>5. \A p \in Participants : w.st[p].attempted \in Nat
  BY SnapshotParts DEF SchedulerStates
<1> HIDE DEF v
<1>6. CarriesOn(w, v)
  <2>1. ASSUME NEW p \in Participants
        PROVE  /\ v.st[p].segment = w.st[p].segment /\ v.st[p].occurrence = w.st[p].occurrence
               /\ v.st[p].retry = w.st[p].retry /\ w.st[p].attempted <= v.st[p].attempted
               /\ Governed(p) => v.st[p].attempted = w.st[p].attempted
    <3>1. CASE p \in batch
      BY <1>4, <1>5, <3>1
    <3>2. CASE p \notin batch
      BY <1>1, <1>5, <3>2
    <3> QED  BY <3>1, <3>2
  <2> QED  BY <1>1, <1>3, <2>1, SnapshotParts DEF CarriesOn
<1> QED  BY <1>4, <1>6 DEF v

\* Settling a batch leaves what its reservation counted, and so counts each of its
\* operations.
LEMMA SettlingCarriesOn ==
    ASSUME NEW base \in Snapshots, AtRest(base), NEW i \in DOMAIN Policies,
           NEW batch \in SUBSET Participants, IsFiniteSet(batch), NEW results,
           \A p \in batch : ~Governed(p),
           NEW w, w = ReserveBatch(base, i, batch), NEW v, v = SettleBatch(w, base, i, batch, results)
    PROVE  /\ CarriesOn(w, v)
           /\ \A p \in batch : Counted(Operation(p, base.st[p]), v)
<1> DEFINE settled(p) == NextActionState(p, base.st[p], results[p] = "succeeded", results[p] = "invalid")
<1>1. w \in Snapshots /\ w.led = base.led /\ w.clock = base.clock /\ CarriesOn(base, w)
      /\ \A p \in batch : w.st[p].attempted = base.st[p].attempted + 1
  BY ReserveBatchTypes, ReservingCarriesOn
<1>2. v \in Snapshots
  BY SettledBatchIsAtRest
<1>3. /\ v.led = w.led /\ v.clock = w.clock
      /\ \A p \in Participants : v.st[p] = IF p \in batch THEN settled(p) ELSE w.st[p]
      /\ \A j \in DOMAIN Policies : v.svc[j].generation = w.svc[j].generation
  <2> DEFINE u == [w EXCEPT !.st = [p \in Participants |-> IF p \in batch THEN settled(p) ELSE w.st[p]]]
  <2>1. v = [u EXCEPT !.svc = [u.svc EXCEPT ![i] = base.svc[i]]]
    BY DEF SettleBatch, SettleService
  <2>2. /\ u.led = w.led /\ u.clock = w.clock /\ u.svc = w.svc
        /\ \A p \in Participants : u.st[p] = IF p \in batch THEN settled(p) ELSE w.st[p]
        /\ DOMAIN u = {"clock", "st", "svc", "led"}
    BY <1>1 DEF Snapshots
  <2>3. w.svc \in [DOMAIN Policies -> ServiceStates]
    BY <1>1, SnapshotParts
  <2> HIDE DEF u
  <2>4. base.svc[i].generation = w.svc[i].generation
    BY <1>1 DEF CarriesOn
  <2>5. v.led = w.led /\ v.clock = w.clock /\ v.st = u.st /\ v.svc = [w.svc EXCEPT ![i] = base.svc[i]]
    BY <2>1, <2>2
  <2> QED  BY <2>2, <2>3, <2>4, <2>5
<1>4. ASSUME NEW p \in batch
      PROVE  /\ v.st[p].segment = base.st[p].segment /\ v.st[p].occurrence = base.st[p].occurrence
             /\ v.st[p].retry = base.st[p].retry /\ v.st[p].attempted = base.st[p].attempted + 1
  <2>1. base.st[p] \in SchedulerStates /\ v.st[p] = settled(p)
    BY <1>3, SnapshotParts
  <2> QED  BY <2>1, StateMoves
<1>5. \A p \in Participants : w.st[p].attempted \in Nat /\ base.st[p].attempted \in Nat
  BY <1>1, SnapshotParts DEF SchedulerStates
<1>6. CarriesOn(w, v)
  <2>1. ASSUME NEW p \in Participants
        PROVE  /\ v.st[p].segment = w.st[p].segment /\ v.st[p].occurrence = w.st[p].occurrence
               /\ v.st[p].retry = w.st[p].retry /\ v.st[p].attempted = w.st[p].attempted
    <3>1. CASE p \in batch
      BY <1>1, <1>4, <3>1 DEF CarriesOn
    <3>2. CASE p \notin batch
      BY <1>3, <3>2
    <3> QED  BY <3>1, <3>2
  <2> QED  BY <1>1, <1>3, <1>5, <2>1, SnapshotParts DEF CarriesOn
<1>7. ASSUME NEW p \in batch  PROVE  Counted(Operation(p, base.st[p]), v)
  <2> DEFINE o == Operation(p, base.st[p])
  <2>1. /\ o \in Operations /\ o.participant = p /\ o.segment = base.st[p].segment
        /\ o.occurrence = base.st[p].attempted
    BY SnapshotParts, OperationType DEF Operation
  <2> HIDE DEF o
  <2>2. Counted(o, v)
    BY <1>2, <1>4, <1>5, <2>1, CountedParts
  <2> QED  BY <2>2 DEF o
<1> QED  BY <1>6, <1>7

LEMMA LedgerKeepsBooks ==
    ASSUME NEW w \in Snapshots, NEW l \in Ledgers(Operations), l.commits = w.led.commits, Alike(w.led, l),
           NEW v, v = [w EXCEPT !.led = l]
    PROVE  /\ Sound(w) => Sound(v)
           /\ Charged(w) => Charged(v)
           /\ \A o \in Operations : Counted(o, w) <=> Counted(o, v)
<1>1. /\ v \in Snapshots /\ v.led = l /\ v.clock = w.clock /\ v.st = w.st /\ v.svc = w.svc
  BY DEF Snapshots
<1>2. \A o \in Operations : Counted(o, w) <=> Counted(o, v)
  BY <1>1 DEF Counted, IsBlank
<1>3. \A i \in DOMAIN Policies : Policies[i].budgets \in SUBSET Budgets
  BY PoliciesAssumption
<1>4. Sound(w) => Sound(v)
  BY <1>1, <1>3 DEF Sound, Ordered, Twinned, Alike
<1>5. Charged(w) => Charged(v)
  <2>1. \A p \in Participants : Commits(v, p) = Commits(w, p)
    BY <1>1 DEF Commits
  <2>2. l.commits \in SUBSET Operations
    BY DEF Ledgers
  <2> QED  BY <1>1, <1>2, <2>1, <2>2 DEF Charged
<1> QED  BY <1>2, <1>4, <1>5

\* A commit charges the attempt that the state counts with it.
Charging(w, p, l, s) == [w EXCEPT !.led = l, !.st[p] = s]

LEMMA CommitKeepsBooks ==
    ASSUME NEW w \in Snapshots, NEW p \in Participants, Governed(p), NEW o, o = Operation(p, w.st[p]),
           NEW l \in Ledgers(Operations), Charges(w.led, l, o), Alike(w.led, l),
           NEW s \in SchedulerStates, OneFurther(w.st[p], s), NEW v, v = Charging(w, p, l, s)
    PROVE  /\ Sound(w) => Sound(v)
           /\ Charged(w) => Charged(v)
           /\ \A x \in Operations : Counted(x, w) \/ x = o => Counted(x, v)
<1>1. /\ v \in Snapshots /\ v.led = l /\ v.clock = w.clock /\ v.svc = w.svc /\ l.commits = w.led.commits \cup {o}
      /\ v.st[p] = s /\ \A q \in Participants : q # p => v.st[q] = w.st[q]
  <2> DEFINE st == [w.st EXCEPT ![p] = s]
  <2>1. st \in [Participants -> SchedulerStates] /\ st[p] = s /\ \A q \in Participants : q # p => st[q] = w.st[q]
    BY SnapshotParts
  <2>2. v = [w EXCEPT !.led = l, !.st = st]
    BY DEF Charging
  <2> HIDE DEF st
  <2> QED  BY <2>1, <2>2 DEF Snapshots, Charges
<1>2. /\ o \in Operations /\ o.participant = p /\ o.segment = w.st[p].segment
      /\ o.occurrence = w.st[p].occurrence /\ o.retry = w.st[p].retry
  BY SnapshotParts, OperationType DEF Operation
<1>3. w.st[p].segment \in Nat /\ w.st[p].occurrence \in Nat /\ w.st[p].retry \in Nat /\ w.st[p].attempted \in Nat
  BY SnapshotParts DEF SchedulerStates
<1> USE DEF OneFurther
<1>4. \A x \in Operations : Counted(x, w) \/ x = o => Counted(x, v)
  <2>1. ASSUME NEW x \in Operations, x.participant = p, Counted(x, w) \/ x = o  PROVE  Counted(x, v)
    <3>1. /\ x.segment \in Nat /\ x.occurrence \in Nat /\ x.retry \in Nat
          /\ Counted(x, w) <=> \/ x.segment < w.st[p].segment
                               \/ /\ x.segment = w.st[p].segment
                                  /\ \/ x.occurrence < w.st[p].occurrence
                                     \/ x.occurrence = w.st[p].occurrence /\ x.retry < w.st[p].retry
      BY <2>1, CountedParts
    <3>2. Counted(x, v) <=> \/ x.segment < s.segment
                            \/ /\ x.segment = s.segment
                               /\ x.occurrence < s.occurrence \/ (x.occurrence = s.occurrence /\ x.retry < s.retry)
      <4>1. v.st[x.participant] = s /\ Governed(x.participant) /\ ~IsBlank(v)
        BY <1>1, <2>1, Blanks
      <4> QED  BY <4>1 DEF Counted, Operation
    <3> QED  BY <1>2, <1>3, <2>1, <3>1, <3>2
  <2>2. ASSUME NEW x \in Operations, x.participant # p, Counted(x, w)  PROVE  Counted(x, v)
    <3>1. x.participant \in Participants
      BY DEF Operations
    <3>2. v.st[x.participant] = w.st[x.participant] /\ ~IsBlank(v)
      BY <1>1, <2>2, <3>1, Blanks
    <3> QED  BY <2>2, <3>2 DEF Counted
  <2> QED  BY <1>2, <2>1, <2>2
<1>5. ~Counted(o, w)
  BY <1>2, <1>3, CountedParts
<1>6. Sound(w) => Sound(v)
  <2>1. \A i \in DOMAIN Policies : Policies[i].budgets \in SUBSET Budgets
    BY PoliciesAssumption
  <2>2. Twinned(w) => Twinned(v)
    BY <1>1, <2>1 DEF Twinned, Alike
  <2>3. Ordered(w) => Ordered(v)
    BY <1>1 DEF Ordered
  <2> QED  BY <2>2, <2>3 DEF Sound
<1>7. ASSUME Charged(w)  PROVE  Charged(v)
  <2>1. IsFiniteSet(v.led.commits)
    <3>1. IsFiniteSet(w.led.commits)
      BY <1>7 DEF Charged
    <3>2. IsFiniteSet(w.led.commits \cup {o})
      BY Zenon, <3>1, FS_AddElement
    <3> QED  BY <1>1, <3>2
  <2>2. \A x \in v.led.commits : Counted(x, v)
    <3>1. w.led.commits \in SUBSET Operations
      BY SnapshotParts DEF Ledgers
    <3> QED  BY <1>1, <1>2, <1>4, <1>7, <3>1 DEF Charged
  <2>3. v.st[p].attempted = Cardinality(Commits(v, p))
    <3>1. Commits(v, p) = Commits(w, p) \cup {o}
      BY <1>1, <1>2 DEF Commits
    <3>2. o \notin Commits(w, p) /\ Commits(w, p) \in SUBSET w.led.commits
      BY <1>5, <1>7 DEF Commits, Charged
    <3>3. IsFiniteSet(Commits(w, p))
      BY <1>7, <3>2, FS_Subset DEF Charged
    <3>4. Cardinality(Commits(v, p)) = Cardinality(Commits(w, p)) + 1
      <4>1. Cardinality(Commits(w, p) \cup {o}) = Cardinality(Commits(w, p)) + 1
        BY <3>2, <3>3, FS_AddElement
      <4> QED  BY <3>1, <4>1
    <3> QED  BY <1>1, <1>7, <3>4 DEF Charged
  <2>4. ASSUME NEW q \in Participants, q # p, Governed(q)
        PROVE  v.st[q].attempted = Cardinality(Commits(v, q))
    <3>1. Commits(v, q) = Commits(w, q)
      BY <1>1, <1>2, <2>4 DEF Commits
    <3> QED  BY <1>1, <1>7, <2>4, <3>1 DEF Charged
  <2> QED  BY <2>1, <2>2, <2>3, <2>4 DEF Charged
<1> QED  BY <1>4, <1>6, <1>7

LEMMA InitialBooks ==
    ASSUME NEW w \in InitialSnapshots
    PROVE  Sound(w) /\ Charged(w)
<1> DEFINE clock == [state |-> "running", segment |-> 0, tick |-> 0]
<1>1. /\ w.clock = clock /\ w.led = InitialLedger /\ w.st \in StatesFrom(LAMBDA p : InitialStates(p, clock))
      /\ \A i \in DOMAIN Policies : w.svc[i].generation = 0
  <2> DEFINE svc == [i \in DOMAIN Policies |-> [life |-> "running", health |-> "healthy", generation |-> 0,
                                               inFlight |-> 0, quiescent |-> TRUE]]
  <2>1. PICK st \in StatesFrom(LAMBDA p : InitialStates(p, clock)) :
            w = [clock |-> clock, st |-> st, led |-> InitialLedger, svc |-> svc]
    BY DEF InitialSnapshots
  <2>2. \A i \in DOMAIN Policies : svc[i].generation = 0
    OBVIOUS
  <2> HIDE DEF svc, clock
  <2> QED  BY <2>1, <2>2
<1>2. \A p \in Participants : w.st[p] \in InitialStates(p, clock)
  BY <1>1 DEF StatesFrom
<1>3. \A p \in Participants : w.st[p].segment = 0 /\ w.st[p].attempted = 0 /\ w.clock.segment = 0
  BY <1>1, <1>2, StateMoves
<1>4. \A i \in DOMAIN Policies : Policies[i].budgets \in SUBSET Budgets
  BY PoliciesAssumption
<1>5. Sound(w)
  BY <1>1, <1>3, <1>4 DEF Sound, Ordered, Twinned, InitialLedger, Fresh
<1>6. w.led.commits = {}
  BY <1>1 DEF InitialLedger
<1>7. \A p \in Participants : Commits(w, p) = {}
  BY <1>6 DEF Commits
<1> QED  BY <1>3, <1>5, <1>6, <1>7, FS_EmptySet DEF Charged

\* A reset starts every participant and every account again, in a segment of its own
\* if the states before it are in earlier ones.
LEMMA ResetKeepsBooks ==
    ASSUME NEW w \in Snapshots, Sound(w), NEW v \in ResetSnapshots(w)
    PROVE  /\ Sound(v)
           /\ (\A p \in Participants : w.st[p].segment < w.clock.segment) =>
                 /\ Charged(w) => Charged(v)
                 /\ \A o \in Operations : Counted(o, w) => Counted(o, v)
<1>1. v \in Snapshots /\ v.clock = w.clock
  BY ResetSnapshotTypes
<1>2. PICK st \in StatesFrom(LAMBDA p : ResetStates(p, w.clock)) :
          v = [w EXCEPT !.st = st, !.led = ReconcileAll(w).ledger,
                        !.svc = [i \in DOMAIN Policies |-> ResetService(w.svc[i])]]
  BY DEF ResetSnapshots
<1>3. v.st = st /\ v.led = ReconcileAll(w).ledger /\ v.svc = [i \in DOMAIN Policies |-> ResetService(w.svc[i])]
  BY <1>2 DEF Snapshots
<1>4. \A p \in Participants : st[p] \in ResetStates(p, w.clock)
  BY DEF StatesFrom
<1>5. \A p \in Participants : v.st[p].segment = w.clock.segment /\ v.st[p].attempted = 0
  BY <1>3, <1>4, StateMoves
<1>6. Sound(v)
  <2>1. Ordered(v)
    BY <1>1, <1>5, SnapshotParts DEF Ordered
  <2>2. ASSUME NEW i \in DOMAIN Policies  PROVE  v.svc[i].generation = w.svc[i].generation + 1
    <3>1. w.svc[i] \in ServiceStates /\ v.svc[i] = ResetService(w.svc[i])
      BY <1>3, SnapshotParts
    <3> QED  BY <3>1 DEF ResetService, ServiceStates
  <2>3. Twinned(v)
    BY <1>3, <2>2, ReconcileAllSucceeds DEF Twinned, Sound
  <2> QED  BY <2>1, <2>3 DEF Sound
<1>7. ASSUME \A p \in Participants : w.st[p].segment < w.clock.segment
      PROVE  \A o \in Operations : Counted(o, w) => o.segment < w.clock.segment /\ Counted(o, v)
  <2> SUFFICES ASSUME NEW o \in Operations, Counted(o, w)  PROVE  o.segment < w.clock.segment /\ Counted(o, v)
    OBVIOUS
  <2>1. /\ o.participant \in Participants /\ o.segment \in Nat /\ w.st[o.participant].segment \in Nat
        /\ o.segment <= w.st[o.participant].segment
    BY CountedParts
  <2>2. w.clock.segment \in Nat
    BY SnapshotParts
  <2>3. o.segment < w.clock.segment
    BY <1>7, <2>1, <2>2
  <2> QED  BY <1>1, <1>5, <2>1, <2>3, CountedParts
<1>8. ASSUME \A p \in Participants : w.st[p].segment < w.clock.segment, Charged(w)  PROVE  Charged(v)
  <2>1. v.led.commits = w.led.commits /\ w.led.commits \in SUBSET Operations
    BY <1>3, ReconcileAllSucceeds, SnapshotParts DEF Sound, Ledgers, Events
  <2>2. \A o \in w.led.commits : o.segment < w.clock.segment /\ Counted(o, v) /\ o.segment \in Nat
    BY <1>7, <1>8, <2>1 DEF Charged, Operations
  <2>3. \A p \in Participants : Commits(v, p) = {}
    BY <1>5, <2>1, <2>2, SnapshotParts DEF Commits
  <2> QED  BY <1>5, <1>8, <2>1, <2>2, <2>3, FS_EmptySet DEF Charged
<1> QED  BY <1>6, <1>7, <1>8

-----------------------------------------------------------------------------
(* The invariant, step by step                                              *)

\* The books of a snapshot that may be absent, and may be excused
Fine(w, torn) == ~IsBlank(w) => Sound(w) /\ (torn \/ Charged(w))

LEMMA BooksParts ==
    /\ BooksInv <=> /\ Fine(snap, log.torn) /\ Fine(read, log.torn)
                    /\ ~Free => /\ Fine(pass.pred, log.torn) /\ Fine(pass.work, log.torn)
                                /\ Fine(pass.base, log.torn)
    /\ BooksInv' <=> /\ Fine(snap', log'.torn) /\ Fine(read', log'.torn)
                     /\ ~Free' => /\ Fine(pass'.pred, log'.torn) /\ Fine(pass'.work, log'.torn)
                                  /\ Fine(pass'.base, log'.torn)
<1>1. BooksInv <=> \A w \in Kept : Fine(w, log.torn)
  BY DEF BooksInv, Kept, Fine, Sound
<1>2. BooksInv' <=> \A w \in Kept' : Fine(w, log'.torn)
  BY DEF BooksInv, Kept, Fine, Sound
<1>3. (\A w \in Kept : Fine(w, log.torn)) <=>
         /\ Fine(snap, log.torn) /\ Fine(read, log.torn)
         /\ ~Free => Fine(pass.pred, log.torn) /\ Fine(pass.work, log.torn) /\ Fine(pass.base, log.torn)
  BY DEF Kept, Fine
<1>4. (\A w \in Kept' : Fine(w, log'.torn)) <=>
         /\ Fine(snap', log'.torn) /\ Fine(read', log'.torn)
         /\ ~Free' => Fine(pass'.pred, log'.torn) /\ Fine(pass'.work, log'.torn) /\ Fine(pass'.base, log'.torn)
  BY DEF Kept, Fine
<1> QED  BY <1>1, <1>2, <1>3, <1>4

LEMMA BlankIsFine == \A torn : Fine(Blank, torn)
BY Blanks DEF Fine

LEMMA FineStays ==
    ASSUME NEW w \in Snapshots, NEW v \in Snapshots, CarriesOn(w, v), NEW torn \in BOOLEAN, Fine(w, torn)
    PROVE  Fine(v, torn)
BY CarryingOn, Blanks DEF Fine

\* The pass goes on selecting, from a working snapshot that counts what was handed
\* over.
LEMMA PassKeepsAccount ==
    ASSUME FlightInv, AccountInv, pass.pc \in {"due", "flight"}, pass' \in Passes, pass'.pc = "due",
           pass'.pred = pass.pred, pass'.base \in {pass.base, Blank}, UNCHANGED <<snap, read>>,
           log'.torn = log.torn, Fine(pass'.work, log.torn),
           \A o \in log'.native \ log'.forgotten : Counted(o, pass'.work)
    PROVE  AccountInv'
<1>1. ~Free
  BY DEF Free
<1>2. BooksInv'
  BY <1>1, BooksParts, BlankIsFine DEF AccountInv
<1>3. ResetIsNew' /\ FlightHasEvent'
  BY DEF ResetIsNew, FlightHasEvent
<1>4. SubmittedIsCounted'
  <2>1. Current' = pass'.work
    BY DEF Current
  <2> QED  BY <2>1 DEF SubmittedIsCounted
<1> QED  BY <1>2, <1>3, <1>4 DEF AccountInv

\* A step that changes the course of the pass and not its snapshots.
LEMMA CourseKeepsAccount ==
    ASSUME FlightInv, AccountInv, pass.pc = "due", pass' \in Passes, pass'.pc = "due",
           pass'.pred = pass.pred, pass'.base = pass.base, pass'.work = pass.work, UNCHANGED <<snap, read, log>>
    PROVE  AccountInv'
<1>1. Fine(pass.work, log.torn)
  BY BooksParts DEF AccountInv, Free
<1>2. \A o \in log.native \ log.forgotten : Counted(o, pass.work)
  BY DEF AccountInv, SubmittedIsCounted, Current
<1> QED  BY <1>1, <1>2, PassKeepsAccount

LEMMA SelectionKeepsAccount ==
    ASSUME FlightInv, AccountInv,
           \/ EnterPolicy \/ FailBeforeDispatch \/ LeaveBatches
           \/ \E p \in Participants : SkipParticipant(p) \/ CadenceMissed(p)
    PROVE  AccountInv'
<1>1. pass.pc = "due" /\ UNCHANGED <<snap, read, log>>
  BY DEF EnterPolicy, FailBeforeDispatch, LeaveBatches, SkipParticipant, CadenceMissed, Serial, Selecting
<1>2. pass \in Passes /\ FlightInv'
  <2>1. ~Free
    BY <1>1 DEF Free
  <2>2. ASSUME FailBeforeDispatch  PROVE  FlightInv'
    BY <1>1, <2>2, PassFails, FaultTypes DEF FailBeforeDispatch, FlightInv
  <2>3. ASSUME NEW p \in Participants, CadenceMissed(p)  PROVE  FlightInv'
    BY <1>1, <2>3, PassFails DEF CadenceMissed, FlightInv, TypeOK
  <2> QED  BY <2>1, <2>2, <2>3, PassParts, EnterPolicyKeepsInv, LeaveBatchesKeepsInv, SkipKeepsInv DEF FlightInv
<1>3. /\ pass'.pc = "due" /\ pass'.pred = pass.pred /\ pass'.base = pass.base /\ pass'.work = pass.work
  BY <1>1, <1>2 DEF EnterPolicy, FailBeforeDispatch, LeaveBatches, SkipParticipant, CadenceMissed, Fail, Passes
<1>4. pass' \in Passes
  BY <1>2, <1>3, NotFree DEF FlightInv, TypeOK, NoPass
<1> QED  BY <1>1, <1>3, <1>4, CourseKeepsAccount

LEMMA NoCandidateKeepsAccount ==
    ASSUME FlightInv, AccountInv, NEW p \in Participants, NoCandidate(p)
    PROVE  AccountInv'
<1>1. Serial(p) /\ Governed(p) /\ UNCHANGED <<snap, read, log>>
  BY DEF NoCandidate
<1>2. pass.pc = "due" /\ ~Free /\ pass \in Passes /\ pass.work \in Snapshots
  BY <1>1, SerialParts
<1>3. PICK s \in EmptyActivityStates(pass.work.st[p], pass.work.clock.tick) :
          pass' = [pass EXCEPT !.work.st[p] = s, !.todo = Rest]
  BY DEF NoCandidate
<1> DEFINE v == [pass.work EXCEPT !.st[p] = s]
<1>4. v \in Snapshots /\ CarriesOn(pass.work, v)
  <2>1. pass.work.st[p] \in SchedulerStates /\ pass.work.clock.tick \in Nat
    BY <1>2, SnapshotParts
  <2>2. /\ s \in SchedulerStates /\ s.segment = pass.work.st[p].segment /\ s.attempted = pass.work.st[p].attempted
        /\ s.occurrence = pass.work.st[p].occurrence /\ s.retry = pass.work.st[p].retry
    BY <2>1, EmptyActivityTypes, StateMoves
  <2>3. pass.work.st[p].attempted <= s.attempted
    BY <2>1, <2>2 DEF SchedulerStates
  <2>4. CarriesOn(pass.work, v)
    BY <1>2, <2>2, <2>3, OneStateCarriesOn
  <2>5. [pass.work.st EXCEPT ![p] = s] \in [Participants -> SchedulerStates]
    BY <1>2, <2>2, SnapshotParts
  <2> QED  BY <1>2, <2>4, <2>5 DEF Snapshots
<1>5. pass' = [pass EXCEPT !.work = v, !.todo = Rest]
  BY <1>2, <1>3
<1> HIDE DEF v
<1>6. /\ pass'.pc = "due" /\ pass'.pred = pass.pred /\ pass'.base = pass.base /\ pass'.work = v
  BY <1>2, <1>5 DEF Passes
<1>7. pass' \in Passes
  BY <1>6, NoCandidateKeepsInv, NotFree DEF FlightInv, TypeOK, NoPass
<1>8. Fine(v, log.torn) /\ log.torn \in BOOLEAN
  <2>1. Fine(pass.work, log.torn) /\ log.torn \in BOOLEAN
    BY <1>2, BooksParts DEF AccountInv, FlightInv, TypeOK
  <2> QED  BY <1>2, <1>4, <2>1, FineStays
<1>9. \A o \in log.native \ log.forgotten : Counted(o, v)
  <2>1. log.native \in SUBSET Operations
    BY DEF FlightInv, TypeOK
  <2>2. \A o \in log.native \ log.forgotten : Counted(o, pass.work)
    BY <1>2 DEF AccountInv, SubmittedIsCounted, Current
  <2> QED  BY <1>2, <1>4, <2>1, <2>2, CarryingOn
<1> QED  BY <1>1, <1>2, <1>6, <1>7, <1>8, <1>9, PassKeepsAccount

\* What is handed over is in flight; a governed operation has its reserve event.
LEMMA SubmitKeepsAccount ==
    ASSUME FlightInv, FlightInv', AccountInv, pass.pc = "due", NEW fly, NEW work \in Snapshots, NEW todo,
           Submit(fly, work, todo), UNCHANGED <<snap, read>>, Fine(work, log.torn),
           \A o \in Operations : Counted(o, pass.work) => Counted(o, work),
           \A p \in fly : Governed(p) => Operation(p, work.st[p]) \in work.led.reserves
    PROVE  AccountInv'
<1>1. ~Free /\ pass \in Passes
  BY PassParts DEF Free, FlightInv
<1>2. /\ pass'.pc = "flight" /\ pass'.pred = pass.pred /\ pass'.base = pass.work /\ pass'.work = work
      /\ pass'.fly = fly
  BY <1>1 DEF Submit, Passes
<1> DEFINE ids == {Operation(p, pass.work.st[p]) : p \in fly}
<1>3. log'.torn = log.torn /\ log'.native = log.native \cup ids /\ log'.forgotten = log.forgotten \ ids
  <2>1. log' = [log EXCEPT !.native = @ \cup ids, !.forgotten = @ \ ids]
    BY DEF Submit
  <2> HIDE DEF ids
  <2> QED  BY <2>1 DEF FlightInv, TypeOK
<1>4. BooksInv'
  <2>1. /\ Fine(snap, log.torn) /\ Fine(read, log.torn) /\ Fine(pass.pred, log.torn) /\ Fine(pass.work, log.torn)
    BY <1>1, BooksParts DEF AccountInv
  <2> QED  BY <1>2, <1>3, <2>1, BooksParts
<1>5. ResetIsNew' /\ FlightHasEvent'
  BY <1>2 DEF ResetIsNew, FlightHasEvent
<1>6. SubmittedIsCounted'
  <2>1. Current' = work
    BY <1>2 DEF Current
  <2>2. \A o \in log.native \ log.forgotten : Counted(o, work)
    <3>1. \A o \in log.native \ log.forgotten : Counted(o, pass.work) /\ o \in Operations
      BY DEF AccountInv, SubmittedIsCounted, Current, FlightInv, TypeOK
    <3> QED  BY <3>1
  <2>3. \A o \in log'.native \ log'.forgotten : Counted(o, work) \/ o \in ids
    BY <1>3, <2>2
  <2> QED  BY <1>2, <2>1, <2>3 DEF SubmittedIsCounted
<1> QED  BY <1>4, <1>5, <1>6 DEF AccountInv

LEMMA SubmitActionKeepsAccount ==
    ASSUME FlightInv, AccountInv, NEW p \in Participants, SubmitAction(p)
    PROVE  AccountInv'
<1>1. Serial(p) /\ ~Governed(p) /\ Submit({p}, pass.work, pass.todo) /\ UNCHANGED <<snap, read>>
  BY DEF SubmitAction
<1>2. pass.pc = "due" /\ ~Free /\ pass.work \in Snapshots
  BY <1>1, SerialParts
<1>3. Fine(pass.work, log.torn)
  BY <1>2, BooksParts DEF AccountInv
<1>4. FlightInv'
  BY SubmitActionKeepsInv
<1> QED  BY <1>1, <1>2, <1>3, <1>4, SubmitKeepsAccount

LEMMA SubmitActivityKeepsAccount ==
    ASSUME FlightInv, AccountInv, NEW p \in Participants, SubmitActivity(p)
    PROVE  AccountInv'
<1> DEFINE i == pass.pol
           o == Operation(p, pass.work.st[p])
           reserved == Reserve(pass.work.led, Policies[i].budgets, o, pass.work.svc[i].generation)
           work == [pass.work EXCEPT !.led = reserved.ledger]
<1>1. /\ Serial(p) /\ UNCHANGED <<snap, read>>
      /\ \/ reserved.disposition = "ok" /\ Submit({p}, work, pass.todo)
         \/ Fail /\ log' = log
  BY DEF SubmitActivity
<1>2. pass.pc = "due" /\ ~Free /\ pass \in Passes /\ pass.work \in Snapshots /\ i \in DOMAIN Policies
  BY <1>1, SerialParts
<1>3. FlightInv'
  BY SubmitActivityKeepsInv
<1>4. CASE reserved.disposition = "ok" /\ Submit({p}, work, pass.todo)
  <2>1. /\ pass.work.led \in Ledgers(Operations) /\ pass.work.st[p] \in SchedulerStates
        /\ pass.work.svc[i].generation \in Nat /\ Policies[i].budgets \in SUBSET Budgets
    BY <1>2, SnapshotParts, PoliciesAssumption
  <2>2. o \in Operations /\ [b \in Policies[i].budgets |-> 0] \in [Policies[i].budgets -> Nat]
    BY <2>1, OperationType
  <2> DEFINE l == reserved.ledger
  <2>3. l \in Ledgers(Operations) /\ Alike(pass.work.led, l) /\ l.commits = pass.work.led.commits /\ o \in l.reserves
    <3> DEFINE B == Policies[i].budgets
               g == pass.work.svc[i].generation
               m == [b \in B |-> 0]
               d == pass.work.led
    <3>1. d \in Ledgers(Operations) /\ g \in Nat /\ B \in SUBSET Budgets /\ o \in Operations /\ m \in [B -> Nat]
      BY <2>1, <2>2
    <3>2. reserved = Reserve(d, B, o, g)
      OBVIOUS
    <3> HIDE DEF o, i, B, g, m, d, reserved
    <3>3. l \in Ledgers(Operations)
      BY <3>1, <3>2, LedgerTypes
    <3>4. Alike(d, l)
      BY <3>1, <3>2, AccountsStayAlike
    <3>5. l.commits = d.commits /\ o \in l.reserves
      BY <1>4, <3>1, <3>2, EventsOfLedger
    <3> QED  BY <3>3, <3>4, <3>5 DEF d
  <2> HIDE DEF reserved
  <2>4. work \in Snapshots /\ work.st = pass.work.st /\ work.led = l
    BY <1>2, <2>3 DEF Snapshots
  <2>5. /\ Sound(pass.work) => Sound(work)
        /\ Charged(pass.work) => Charged(work)
        /\ \A x \in Operations : Counted(x, pass.work) <=> Counted(x, work)
    BY <1>2, <2>3, LedgerKeepsBooks
  <2> HIDE DEF work
  <2>6. Fine(work, log.torn)
    BY <1>2, <2>5, BooksParts, Blanks DEF AccountInv, Fine
  <2>7. \A q \in {p} : Operation(q, work.st[q]) \in work.led.reserves
    BY <2>3, <2>4
  <2> QED  BY <1>1, <1>2, <1>3, <1>4, <2>4, <2>5, <2>6, <2>7, SubmitKeepsAccount
<1>5. CASE Fail /\ log' = log
  <2>1. /\ pass'.pc = "due" /\ pass'.pred = pass.pred /\ pass'.base = pass.base /\ pass'.work = pass.work
    BY <1>2, <1>5 DEF Fail, Passes
  <2>2. pass' \in Passes
    BY <1>3, <2>1, NotFree DEF FlightInv, TypeOK, NoPass
  <2> QED  BY <1>1, <1>2, <1>5, <2>1, <2>2, CourseKeepsAccount
<1> QED  BY <1>1, <1>4, <1>5

LEMMA SubmitBatchKeepsAccount ==
    ASSUME FlightInv, AccountInv, SubmitBatch
    PROVE  AccountInv'
<1> DEFINE chunk == First(pass.todo, BatchSize)
           fly == {Peer(k) : k \in chunk}
           work == ReserveBatch(pass.work, pass.pol, fly)
<1>1. pass.pc = "due" /\ ~Free /\ pass.batch /\ Submit(fly, work, pass.todo \ chunk) /\ UNCHANGED <<snap, read>>
  BY DEF SubmitBatch, Selecting, Free
<1>2. FlightInv'
  BY SubmitBatchKeepsInv
<1>3. /\ pass \in Passes /\ pass.work \in Snapshots /\ pass.pol \in DOMAIN Policies
      /\ Policies[pass.pol].profile = "v1"
  BY <1>1, PassParts DEF FlightInv, OnCourse
<1> HIDE DEF fly
<1>4. pass'.pc = "flight" /\ pass'.fly = fly /\ pass'.work = work
  BY <1>1, <1>3 DEF Submit, Passes
<1>5. /\ fly \in SUBSET Participants /\ IsFiniteSet(fly) /\ \A p \in fly : ~Governed(p)
  <2>1. /\ (fly \in SUBSET Participants) /\ IsFiniteSet(fly) /\ \A p \in fly : PolicyOf(p) = pass'.pol
    <3>1. (/\ pass.fly \in SUBSET Participants /\ IsFiniteSet(pass.fly)
           /\ \A p \in pass.fly : PolicyOf(p) = pass.pol)'
      <4>1. ~Free'
        BY <1>4 DEF Free
      <4>2. pass' \in Passes
        BY <1>2, <1>4, NotFree DEF FlightInv, TypeOK, NoPass
      <4>3. pass'.fly \in SUBSET Participants
        BY <4>2 DEF Passes
      <4>4. pass'.pol \in DOMAIN Policies /\ pass'.fly \subseteq ToSet(Policies[pass'.pol].participants)
            /\ IsFiniteSet(pass'.fly)
        BY <1>2, <1>4, <4>1 DEF FlightInv, OnCourse
      <4> QED  BY <4>3, <4>4, PolicyIsUnique
    <3> QED  BY <1>4, <3>1
  <2>2. pass'.pol = pass.pol
    BY <1>1, <1>3 DEF Submit, Passes
  <2> QED  BY <1>3, <2>1, <2>2 DEF Governed
<1>6. work \in Snapshots /\ CarriesOn(pass.work, work)
  BY <1>3, <1>5, ReserveBatchTypes, ReservingCarriesOn
<1> HIDE DEF work, chunk
<1>7. Fine(work, log.torn)
  <2>1. Fine(pass.work, log.torn) /\ log.torn \in BOOLEAN
    BY <1>1, BooksParts DEF AccountInv, FlightInv, TypeOK
  <2> QED  BY <1>3, <1>6, <2>1, FineStays
<1>8. \A o \in Operations : Counted(o, pass.work) => Counted(o, work)
  BY <1>3, <1>6, CarryingOn
<1> QED  BY <1>1, <1>2, <1>5, <1>6, <1>7, <1>8, SubmitKeepsAccount

\* An answer settles the flight: what was submitted before it and what it carried is
\* counted, or is forgotten.
LEMMA SettledKeepsAccount ==
    ASSUME FlightInv, FlightInv', AccountInv, pass.pc = "flight", NEW work, NEW failed, Settled(work, failed),
           UNCHANGED <<snap, read>>, log'.torn = log.torn, Fine(work, log.torn),
           \A o \in log'.native \ log'.forgotten : Counted(o, work)
    PROVE  AccountInv'
<1>1. pass \in Passes
  BY FlightParts
<1>2. pass'.pc = "due" /\ pass'.pred = pass.pred /\ pass'.base = Blank /\ pass'.work = work
  BY <1>1 DEF Settled, Passes
<1>3. pass' \in Passes
  BY <1>2, NotFree DEF FlightInv, TypeOK, NoPass
<1> QED  BY <1>2, <1>3, PassKeepsAccount

\* What a state with a flight says of it.
LEMMA FlightAccount ==
    ASSUME FlightInv, AccountInv, pass.pc = "flight"
    PROVE  /\ Fine(pass.work, log.torn) /\ log.torn \in BOOLEAN
           /\ Sound(pass.work) /\ (log.torn \/ Charged(pass.work))
           /\ log \in Logs /\ log.native \in SUBSET Operations
           /\ \A o \in log.native \ log.forgotten :
                 Counted(o, pass.work) \/ \E p \in pass.fly : o = Operation(p, pass.base.st[p])
<1>1. ~Free /\ pass.work \in Snapshots
  BY FlightParts
<1>2. log \in Logs /\ log.torn \in BOOLEAN /\ log.native \in SUBSET Operations
  BY DEF FlightInv, TypeOK, Logs
<1>3. Fine(pass.work, log.torn)
  BY <1>1, BooksParts DEF AccountInv
<1>4. Current = pass.work
  BY DEF Current
<1>5. \A o \in log.native \ log.forgotten :
         Counted(o, pass.work) \/ \E p \in pass.fly : o = Operation(p, pass.base.st[p])
  BY <1>4 DEF AccountInv, SubmittedIsCounted
<1> QED  BY <1>1, <1>2, <1>3, <1>5, Blanks DEF Fine

LEMMA SettleBatchKeepsAccount ==
    ASSUME FlightInv, AccountInv, (\E results : SettleResults(results)) \/ SettleLost
    PROVE  AccountInv'
<1>1. PICK results, failed :
         /\ Settled(SettleBatch(pass.work, pass.base, pass.pol, pass.fly, results), failed)
         /\ pass.pc = "flight" /\ pass.batch /\ UNCHANGED <<snap, read>>
         /\ log' = log \/ \E ids : log' = [log EXCEPT !.fenced = ids]
  <2>1. CASE \E results : SettleResults(results)
    BY <2>1 DEF SettleResults
  <2>2. CASE SettleLost
    BY <2>2 DEF SettleLost, SettleIndeterminate
  <2> QED  BY <2>1, <2>2
<1> DEFINE work == SettleBatch(pass.work, pass.base, pass.pol, pass.fly, results)
<1>2. FlightInv'
  BY SettleResultsKeepsInv, SettleLostKeepsInv
<1>3. /\ pass.pol \in DOMAIN Policies /\ pass.base \in Snapshots /\ AtRest(pass.base)
      /\ pass.fly \in SUBSET Participants /\ IsFiniteSet(pass.fly) /\ pass.work \in Snapshots
      /\ pass.work = ReserveBatch(pass.base, pass.pol, pass.fly)
      /\ \A p \in pass.fly : ~Governed(p)
  BY <1>1, FlightParts
<1>4. work \in Snapshots
  BY <1>3, SettledBatchIsAtRest
<1>5. CarriesOn(pass.work, work) /\ \A p \in pass.fly : Counted(Operation(p, pass.base.st[p]), work)
  BY <1>3, SettlingCarriesOn
<1> HIDE DEF work
<1>6. /\ Fine(pass.work, log.torn) /\ log.torn \in BOOLEAN /\ log \in Logs /\ log.native \in SUBSET Operations
      /\ \A o \in log.native \ log.forgotten :
            Counted(o, pass.work) \/ \E p \in pass.fly : o = Operation(p, pass.base.st[p])
  BY <1>1, FlightAccount
<1>7. Fine(work, log.torn)
  BY <1>3, <1>4, <1>5, <1>6, FineStays
<1>8. log'.torn = log.torn /\ log'.native = log.native /\ log'.forgotten = log.forgotten
  BY <1>1, <1>6 DEF Logs
<1>9. \A o \in log.native \ log.forgotten : Counted(o, work)
  BY <1>3, <1>4, <1>5, <1>6, CarryingOn
<1>10. Settled(work, failed)
  BY <1>1 DEF work
<1> QED  BY <1>1, <1>2, <1>7, <1>8, <1>9, <1>10, SettledKeepsAccount

LEMMA SettleActionKeepsAccount ==
    ASSUME FlightInv, AccountInv, NEW p \in pass.fly, NEW result, SettleAction(p, result)
    PROVE  AccountInv'
<1> DEFINE w == pass.work
           s == NextActionState(p, w.st[p], result = "succeeded", result = "invalid")
           work == [w EXCEPT !.st[p] = s]
<1>1. /\ pass.pc = "flight" /\ ~pass.batch /\ pass.fly = {p} /\ ~Governed(p)
      /\ Settled(work, Stops(pass.pol, result)) /\ UNCHANGED <<snap, read>> /\ log' = log
  BY DEF SettleAction
<1>2. FlightInv'
  BY SettleActionKeepsInv
<1>3. w \in Snapshots /\ p \in Participants /\ AtRest(w)
  BY <1>1, FlightParts
<1>4. pass.work.st = pass.base.st
  BY <1>1 DEF FlightInv, OnCourse, Free
<1>5. w.st[p] \in SchedulerStates
  BY <1>3, SnapshotParts
<1>6. /\ s \in SchedulerStates /\ s.segment = w.st[p].segment /\ s.occurrence = w.st[p].occurrence
      /\ s.retry = w.st[p].retry /\ s.attempted = w.st[p].attempted + 1 /\ w.st[p].attempted \in Nat
  <2>1. s \in SchedulerStates
    <3> DEFINE old == w.st[p]
    <3>1. old \in SchedulerStates /\ s = NextActionState(p, old, result = "succeeded", result = "invalid")
      BY <1>5
    <3> HIDE DEF old, s
    <3> QED  BY <1>3, <3>1, NextActionTypes
  <2> QED  BY <1>5, <2>1, StateMoves DEF SchedulerStates
<1> HIDE DEF s
<1>7. CarriesOn(w, work)
  BY <1>1, <1>3, <1>6, OneStateCarriesOn
<1>8. work \in Snapshots /\ work.st[p] = s
  <2>1. [w.st EXCEPT ![p] = s] \in [Participants -> SchedulerStates] /\ [w.st EXCEPT ![p] = s][p] = s
    BY <1>3, <1>6, SnapshotParts
  <2> QED  BY <1>3, <2>1 DEF Snapshots
<1> HIDE DEF work
<1>9. /\ Fine(w, log.torn) /\ log.torn \in BOOLEAN /\ log.native \in SUBSET Operations
      /\ \A o \in log.native \ log.forgotten : Counted(o, w) \/ o = Operation(p, w.st[p])
  BY <1>1, <1>4, FlightAccount
<1>10. Counted(Operation(p, w.st[p]), work)
  <2> DEFINE o == Operation(p, w.st[p])
  <2>1. o \in Operations /\ o.participant = p /\ o.segment = w.st[p].segment /\ o.occurrence = w.st[p].attempted
    BY <1>1, <1>3, <1>5, OperationType DEF Operation
  <2> HIDE DEF o
  <2>2. Counted(o, work)
    BY <1>1, <1>6, <1>8, <2>1, CountedParts
  <2> QED  BY <2>2 DEF o
<1>11. Fine(work, log.torn) /\ \A o \in log.native \ log.forgotten : Counted(o, work)
  BY <1>3, <1>7, <1>8, <1>9, <1>10, FineStays, CarryingOn
<1> QED  BY <1>1, <1>2, <1>11, SettledKeepsAccount

\* An exception ends the pass with the snapshot as it was last published.
LEMMA RaiseKeepsAccount ==
    ASSUME FlightInv, AccountInv, Raise
    PROVE  AccountInv'
<1>1. pass' = NoPass /\ pass'.pc = "free" /\ UNCHANGED <<snap, read>>
  BY PassTypes DEF Raise
<1>2. /\ log \in Logs /\ log.torn \in BOOLEAN
      /\ log' = [Forget(snap) EXCEPT !.torn = @ \/ pass.op \in {"advance", "jump"}]
  BY DEF FlightInv, TypeOK, Logs, Raise
<1>3. /\ log.torn => log'.torn
      /\ log'.native = log.native /\ log'.forgotten = log.forgotten \cup {o \in log.native : ~Counted(o, snap)}
  BY <1>2 DEF Forget, Logs
<1>4. BooksInv'
  <2>1. Fine(snap, log.torn) /\ Fine(read, log.torn)
    BY BooksParts DEF AccountInv
  <2>2. Fine(snap', log'.torn) /\ Fine(read', log'.torn)
    BY <1>1, <1>3, <2>1 DEF Fine
  <2> QED  BY <1>1, <2>2, BooksParts DEF Free
<1>5. ResetIsNew' /\ FlightHasEvent'
  BY <1>1 DEF ResetIsNew, FlightHasEvent
<1>6. SubmittedIsCounted'
  <2>1. Current' = snap
    BY <1>1 DEF Current
  <2> QED  BY <1>3, <2>1 DEF SubmittedIsCounted
<1> QED  BY <1>4, <1>5, <1>6 DEF AccountInv

LEMMA SettleUntrustedKeepsAccount ==
    ASSUME FlightInv, AccountInv, NEW p \in pass.fly, SettleUntrusted(p)
    PROVE  AccountInv'
<1> DEFINE i == pass.pol
           w == pass.work
           o == Operation(p, w.st[p])
           l == Release(w.led, Policies[i].budgets, o, w.svc[i].generation).ledger
           work == [w EXCEPT !.led = l]
<1>1. /\ pass.pc = "flight" /\ pass.fly = {p} /\ Governed(p) /\ Settled(work, TRUE)
      /\ UNCHANGED <<snap, read>> /\ log' = [log EXCEPT !.forgotten = @ \cup {o}]
  BY DEF SettleUntrusted
<1>2. FlightInv'
  BY SettleUntrustedKeepsInv
<1>3. /\ w \in Snapshots /\ p \in Participants /\ i \in DOMAIN Policies /\ w.led \in Ledgers(Operations)
      /\ w.svc[i].generation \in Nat /\ Policies[i].budgets \in SUBSET Budgets /\ o \in Operations
  BY <1>1, GovernedParts
<1>4. pass.base.st = w.st
  <2>1. ~pass.batch /\ ~Free
    BY <1>1, FlightParts
  <2> QED  BY <1>1, <2>1 DEF FlightInv, OnCourse
<1>5. l \in Ledgers(Operations) /\ Alike(w.led, l) /\ l.commits = w.led.commits
  <2> DEFINE B == Policies[i].budgets
             g == w.svc[i].generation
             m == [b \in B |-> 0]
             d == w.led
  <2>1. d \in Ledgers(Operations) /\ g \in Nat /\ B \in SUBSET Budgets /\ o \in Operations /\ m \in [B -> Nat]
    BY <1>3
  <2>2. l = Release(d, B, o, g).ledger
    OBVIOUS
  <2> HIDE DEF o, i, B, g, m, d, l
  <2>3. l \in Ledgers(Operations)
    BY <2>1, <2>2, LedgerTypes
  <2>4. Alike(d, l)
    BY <2>1, <2>2, AccountsStayAlike
  <2>5. l.commits = d.commits
    <3>1. Release(d, B, o, g).ledger.commits = d.commits
      BY <2>1, EventsOfLedger
    <3> QED  BY <2>2, <3>1
  <2> QED  BY <2>3, <2>4, <2>5 DEF d
<1> HIDE DEF l
<1>6. /\ Sound(w) => Sound(work)
      /\ Charged(w) => Charged(work)
      /\ \A x \in Operations : Counted(x, w) <=> Counted(x, work)
  BY <1>3, <1>5, LedgerKeepsBooks
<1>7. /\ Sound(w) /\ (log.torn \/ Charged(w)) /\ log \in Logs /\ log.native \in SUBSET Operations
      /\ \A x \in log.native \ log.forgotten : Counted(x, w) \/ x = o
  BY <1>1, <1>4, FlightAccount
<1> HIDE DEF work, o
<1>8. Fine(work, log.torn)
  BY <1>6, <1>7 DEF Fine
<1>9. log'.torn = log.torn /\ log'.native = log.native /\ log'.forgotten = log.forgotten \cup {o}
  BY <1>1, <1>7 DEF Logs
<1>10. \A x \in log'.native \ log'.forgotten : Counted(x, work)
  BY <1>6, <1>7, <1>9
<1> QED  BY <1>1, <1>2, <1>8, <1>9, <1>10, SettledKeepsAccount

\* A committed result is charged and counted in one step; one that is refused is
\* forgotten; one that cannot be charged ends the pass.
LEMMA SettleActivityKeepsAccount ==
    ASSUME FlightInv, AccountInv, NEW p \in pass.fly, NEW outcome, NEW extent \in {"none", "reserved", "more"},
           SettleActivity(p, outcome, extent)
    PROVE  AccountInv'
<1> DEFINE i == pass.pol
           w == pass.work
           s == w.st[p]
           o == Operation(p, s)
           tick == w.clock.tick
           budgets == Policies[i].budgets
           measured == [b \in budgets |-> CASE extent = "none" -> 0
                                             [] extent = "reserved" -> Budget[b].demand
                                             [] extent = "more" -> Budget[b].demand + 1]
           commit == Commit(w.led, budgets, o, w.svc[i].generation, measured)
<1>1. pass.pc = "flight" /\ pass.fly = {p} /\ Governed(p)
  BY DEF SettleActivity
<1>2. FlightInv'
  BY SettleActivityKeepsInv
<1>3. /\ w \in Snapshots /\ p \in Participants /\ w.led \in Ledgers(Operations) /\ s \in SchedulerStates
      /\ w.svc[i].generation \in Nat /\ tick \in Nat /\ budgets \in SUBSET Budgets /\ o \in Operations
  BY <1>1, GovernedParts
<1>4. pass.base.st = w.st
  <2>1. ~pass.batch /\ ~Free
    BY <1>1, FlightParts
  <2> QED  BY <1>1, <2>1 DEF FlightInv, OnCourse
<1>5. /\ Sound(w) /\ (log.torn \/ Charged(w)) /\ log \in Logs /\ log.native \in SUBSET Operations
      /\ Fine(w, log.torn)
      /\ \A x \in log.native \ log.forgotten : Counted(x, w) \/ x = o
  BY <1>1, <1>4, FlightAccount
<1>6. CASE commit.disposition = "ok"
  <2>1. /\ \E next \in NextActivityStates(p, s, tick, outcome) :
              Settled([w EXCEPT !.led = commit.ledger, !.st[p] = next], next.life = "failed")
        /\ UNCHANGED <<snap, read, log>>
    BY <1>6 DEF SettleActivity
  <2>2. PICK next \in NextActivityStates(p, s, tick, outcome) :
            Settled([w EXCEPT !.led = commit.ledger, !.st[p] = next], next.life = "failed")
    BY <2>1
  <2> DEFINE l == commit.ledger
             work == [w EXCEPT !.led = l, !.st[p] = next]
  <2>3. l \in Ledgers(Operations) /\ Alike(w.led, l) /\ Charges(w.led, l, o)
    <3>1. measured \in [budgets -> Nat]
      <4>1. \A b \in budgets : Budget[b].demand \in Nat /\ Budget[b].demand + 1 \in Nat
        BY <1>3, BudgetTypes
      <4>2. extent = "none" \/ extent = "reserved" \/ extent = "more"
        OBVIOUS
      <4> HIDE DEF budgets
      <4> QED  BY <4>1, <4>2
    <3> DEFINE g == w.svc[i].generation
               d == w.led
    <3>2. d \in Ledgers(Operations) /\ g \in Nat /\ budgets \in SUBSET Budgets /\ o \in Operations
      BY <1>3
    <3>3. commit = Commit(d, budgets, o, g, measured)
      OBVIOUS
    <3> HIDE DEF measured, o, budgets, i, g, d, commit
    <3>4. l \in Ledgers(Operations)
      BY <3>1, <3>2, <3>3, LedgerTypes
    <3>5. Alike(d, l)
      BY <3>1, <3>2, <3>3, AccountsStayAlike
    <3>6. Charges(d, l, o)
      <4>1. Commit(d, budgets, o, g, measured).disposition = "ok" =>
               Charges(d, Commit(d, budgets, o, g, measured).ledger, o)
        BY <3>2, EventsOfLedger
      <4> QED  BY <1>6, <3>3, <4>1
    <3> QED  BY <3>4, <3>5, <3>6 DEF d
  <2>4. next \in SchedulerStates /\ OneFurther(s, next)
    <3> HIDE DEF s, tick
    <3> QED  BY <1>3, NextActivityTypes, ActivityMoves
  <2> HIDE DEF commit
  <2>5. /\ Sound(w) => Sound(work)
        /\ Charged(w) => Charged(work)
        /\ \A x \in Operations : Counted(x, w) \/ x = o => Counted(x, work)
    <3>1. o = Operation(p, w.st[p]) /\ OneFurther(w.st[p], next)
      BY <2>4
    <3>2. work = Charging(w, p, l, next)
      BY DEF Charging
    <3>3. w \in Snapshots /\ p \in Participants /\ Governed(p) /\ next \in SchedulerStates
      BY <1>1, <1>3, <2>4
    <3> HIDE DEF w, s, o, l, work
    <3> QED  BY <2>3, <3>1, <3>2, <3>3, CommitKeepsBooks
  <2>6. Settled(work, next.life = "failed")
    BY <2>2
  <2> HIDE DEF work, o
  <2>7. Fine(work, log.torn) /\ \A x \in log.native \ log.forgotten : Counted(x, work)
    BY <1>5, <2>5 DEF Fine
  <2> QED  BY <1>1, <1>2, <2>1, <2>6, <2>7, SettledKeepsAccount
<1>7. CASE commit.disposition = "refused"
  <2>1. Settled(w, TRUE) /\ log' = [log EXCEPT !.forgotten = @ \cup {o}] /\ UNCHANGED <<snap, read>>
    BY <1>7 DEF SettleActivity
  <2> HIDE DEF o
  <2>2. log'.torn = log.torn /\ log'.native = log.native /\ log'.forgotten = log.forgotten \cup {o}
    BY <1>5, <2>1 DEF Logs
  <2>3. \A x \in log'.native \ log'.forgotten : Counted(x, w)
    BY <1>5, <2>2
  <2> QED  BY <1>1, <1>2, <1>5, <2>1, <2>2, <2>3, SettledKeepsAccount
<1>8. CASE commit.disposition = "raised"
  <2>1. Raise
    BY <1>8 DEF SettleActivity
  <2> QED  BY <2>1, RaiseKeepsAccount
<1>9. commit.disposition \in {"ok", "refused", "raised"}
  <2> HIDE DEF measured, o, budgets, i
  <2> QED  BY ResultsOfLedger
<1> QED  BY <1>6, <1>7, <1>8, <1>9

-----------------------------------------------------------------------------
(* The ends of a pass                                                       *)

\* The pass is over: what the published snapshot does not count is forgotten.
LEMMA EndKeepsAccount ==
    ASSUME pass'.pc = "free", Fine(snap', log'.torn), Fine(read', log'.torn),
           \A o \in log'.native \ log'.forgotten : Counted(o, snap')
    PROVE  AccountInv'
<1>1. BooksInv'
  BY BooksParts DEF Free
<1>2. ResetIsNew' /\ FlightHasEvent'
  BY DEF ResetIsNew, FlightHasEvent
<1>3. SubmittedIsCounted'
  BY DEF SubmittedIsCounted, Current
<1> QED  BY <1>1, <1>2, <1>3 DEF AccountInv

LEMMA PublishDueKeepsAccount ==
    ASSUME FlightInv, AccountInv, PublishDue
    PROVE  AccountInv'
<1>1. pass.pc = "due" /\ ~Free /\ snap' = pass.work /\ read' = read /\ log' = log
  BY DEF PublishDue, Free
<1>2. /\ pass \in Passes /\ Fine(pass.work, log.torn) /\ Fine(read, log.torn)
      /\ Fine(pass.pred, log.torn) /\ Fine(pass.base, log.torn)
  BY <1>1, BooksParts, PassParts DEF AccountInv, FlightInv
<1>3. \A o \in log.native \ log.forgotten : Counted(o, pass.work)
  BY <1>1 DEF AccountInv, SubmittedIsCounted, Current
<1>4. CASE pass' = NoPass
  <2>1. pass'.pc = "free"
    BY <1>4, PassTypes
  <2> QED  BY <1>1, <1>2, <1>3, <2>1, EndKeepsAccount
<1>5. CASE pass' = [pass EXCEPT !.pc = "conclude"]
  <2>1. pass'.pc = "conclude" /\ pass'.work = pass.work /\ pass'.base = pass.base /\ pass'.pred = pass.pred
    BY <1>2, <1>5 DEF Passes
  <2>2. BooksInv'
    BY <1>1, <1>2, <2>1, BooksParts
  <2>3. ResetIsNew' /\ FlightHasEvent'
    BY <2>1 DEF ResetIsNew, FlightHasEvent
  <2>4. Current' = pass.work
    BY <1>1, <2>1 DEF Current
  <2>5. SubmittedIsCounted'
    BY <1>1, <1>3, <2>4 DEF SubmittedIsCounted
  <2> QED  BY <2>2, <2>3, <2>5 DEF AccountInv
<1> QED  BY <1>4, <1>5 DEF PublishDue, Return

LEMMA ConcludeKeepsAccount ==
    ASSUME FlightInv, AccountInv, Conclude
    PROVE  AccountInv'
<1> DEFINE ok == ~pass.failed /\ ReadbackValid(snap)
<1>1. /\ pass.pc = "conclude" /\ ~Free /\ read' = read /\ pass' = NoPass /\ pass'.pc = "free"
      /\ snap' = IF ok THEN snap ELSE pass.pred
      /\ log' = IF ok THEN log ELSE Forget(pass.pred)
  BY PassTypes DEF Conclude, Free, Return
<1>2. log \in Logs /\ Fine(snap, log.torn) /\ Fine(read, log.torn) /\ Fine(pass.pred, log.torn)
  BY <1>1, BooksParts DEF AccountInv, FlightInv, TypeOK, Logs
<1> HIDE DEF ok
<1>3. CASE ok
  <2>1. \A o \in log.native \ log.forgotten : Counted(o, snap)
    BY <1>1 DEF AccountInv, SubmittedIsCounted, Current
  <2> QED  BY <1>1, <1>2, <1>3, <2>1, EndKeepsAccount
<1>4. CASE ~ok
  <2>1. /\ log'.torn = log.torn /\ log'.native = log.native
        /\ log'.forgotten = log.forgotten \cup {o \in log.native : ~Counted(o, pass.pred)}
    BY <1>1, <1>2, <1>4 DEF Forget, Logs
  <2>2. \A o \in log'.native \ log'.forgotten : Counted(o, pass.pred)
    BY <2>1
  <2> QED  BY <1>1, <1>2, <1>4, <2>1, <2>2, EndKeepsAccount
<1> QED  BY <1>3, <1>4

-----------------------------------------------------------------------------
(* Beginning and synchronising a pass                                       *)

\* A call works from the snapshot that is published, whose clock it has moved.
LEMMA BeginKeepsAccount ==
    ASSUME FlightInv, AccountInv, Free, snap \in Snapshots, NEW by, NEW op, NEW pc \in {"sync", "due"},
           pass' = Pass(by, op, pc, snap, snap), NEW clock \in Clocks, snap.clock.segment <= clock.segment,
           snap' = [snap EXCEPT !.clock = clock], UNCHANGED <<read, log>>,
           pc = "due" => clock = snap.clock,
           op = "reset" => snap.clock.segment < clock.segment
    PROVE  AccountInv'
<1>1. /\ pass'.pc = pc /\ pass'.op = op /\ pass'.pred = snap /\ pass'.work = snap /\ pass'.base = Blank
  BY DEF Pass
<1>2. snap' \in Snapshots /\ CarriesOn(snap, snap') /\ snap'.st = snap.st /\ snap'.clock = clock
  BY ClockMoves DEF Snapshots
<1>3. log \in Logs /\ log.torn \in BOOLEAN /\ log.native \in SUBSET Operations
  BY DEF FlightInv, TypeOK, Logs
<1>4. Fine(snap, log.torn) /\ Fine(read, log.torn) /\ Fine(snap', log.torn)
  <2>1. Fine(snap, log.torn) /\ Fine(read, log.torn)
    BY BooksParts DEF AccountInv
  <2> QED  BY <1>2, <1>3, <2>1, FineStays
<1>5. BooksInv'
  BY <1>1, <1>4, BooksParts, BlankIsFine
<1>6. FlightHasEvent'
  BY <1>1 DEF FlightHasEvent
<1>7. ResetIsNew'
  <2>1. \A p \in Participants : snap.st[p].segment <= snap.clock.segment /\ snap.st[p].segment \in Nat
    BY <1>4, Blanks, SnapshotParts DEF Fine, Sound, Ordered, SchedulerStates
  <2>2. snap.clock.segment \in Nat /\ clock.segment \in Nat
    BY SnapshotParts DEF Clocks
  <2>3. op = "reset" => \A p \in Participants : snap'.st[p].segment < snap'.clock.segment
    BY <1>2, <2>1, <2>2
  <2> QED  BY <1>1, <2>3 DEF ResetIsNew
<1>8. SubmittedIsCounted'
  <2>1. \A o \in log.native \ log.forgotten : Counted(o, snap)
    BY DEF AccountInv, SubmittedIsCounted, Current, Free
  <2>2. \A o \in log.native \ log.forgotten : Counted(o, snap')
    BY <1>2, <1>3, <2>1, CarryingOn
  <2>3. Current' \in {snap, snap'}
    BY <1>1 DEF Current
  <2> QED  BY <2>1, <2>2, <2>3 DEF SubmittedIsCounted
<1> QED  BY <1>5, <1>6, <1>7, <1>8 DEF AccountInv

LEMMA CallKeepsAccount ==
    ASSUME FlightInv, AccountInv,
           \/ \E ticks \in 1..MaxTick : Advance(ticks)
           \/ Pause \/ Resume \/ RunDue
           \/ \E tick \in 0..MaxTick : Jump(tick)
           \/ \E preserve \in BOOLEAN : Reset(preserve)
    PROVE  AccountInv'
<1>1. Free /\ ~IsBlank(snap)
  BY DEF Advance, Pause, Resume, RunDue, Jump, Reset, Call, IsBlank
<1>2. snap \in Snapshots
  BY <1>1, Blanks DEF FlightInv, TypeOK
<1>3. /\ snap.clock \in Clocks /\ snap.clock.segment \in Nat /\ snap.clock.tick \in Nat
  BY <1>2, SnapshotParts
<1>4. ASSUME NEW op, NEW clock \in Clocks, snap.clock.segment <= clock.segment, Begin("client", op, clock),
             op = "reset" => snap.clock.segment < clock.segment
      PROVE  AccountInv'
  BY <1>1, <1>2, <1>4, BeginKeepsAccount DEF Begin
<1>5. ASSUME NEW ticks \in 1..MaxTick, Advance(ticks)  PROVE  AccountInv'
  <2> DEFINE t == snap.clock.tick + ticks
             clock == [snap.clock EXCEPT !.tick = t]
  <2>1. t \in Nat /\ Begin("client", "advance", clock)
    BY <1>3, <1>5, BoundsAssumption DEF Advance
  <2> HIDE DEF t
  <2>2. clock \in Clocks /\ clock.segment = snap.clock.segment
    BY <1>3, <2>1 DEF Clocks
  <2> HIDE DEF clock
  <2>3. snap.clock.segment <= clock.segment
    BY <1>3, <2>2
  <2> QED  BY <1>4, <2>1, <2>2, <2>3
<1>6. ASSUME Pause \/ Resume  PROVE  AccountInv'
  <2>1. \A state \in {"running", "paused"} : /\ [snap.clock EXCEPT !.state = state] \in Clocks
                                             /\ [snap.clock EXCEPT !.state = state].segment = snap.clock.segment
    BY <1>3 DEF Clocks
  <2>2. PICK op \in {"pause", "resume"}, state \in {"running", "paused"} :
            Begin("client", op, [snap.clock EXCEPT !.state = state])
    BY <1>6 DEF Pause, Resume
  <2> DEFINE clock == [snap.clock EXCEPT !.state = state]
  <2>3. clock \in Clocks /\ snap.clock.segment <= clock.segment /\ Begin("client", op, clock)
    BY <1>3, <2>1, <2>2
  <2> HIDE DEF clock
  <2> QED  BY <1>4, <2>3
<1>7. ASSUME RunDue  PROVE  AccountInv'
  <2>1. pass' = Pass("client", "run_due", "due", snap, snap) /\ snap' = snap /\ UNCHANGED <<read, log>>
    BY <1>7 DEF RunDue
  <2>2. snap' = [snap EXCEPT !.clock = snap.clock]
    BY <1>2, <2>1 DEF Snapshots
  <2> DEFINE clock == snap.clock
             op == "run_due"
             pc == "due"
  <2>3. /\ pass' = Pass("client", op, pc, snap, snap) /\ op # "reset" /\ pc \in {"sync", "due"}
    BY <2>1
  <2>4. snap.clock.segment <= clock.segment
    BY <1>3
  <2>5. clock \in Clocks /\ clock = snap.clock /\ snap' = [snap EXCEPT !.clock = clock]
    BY <1>3, <2>2
  <2> HIDE DEF clock, op, pc
  <2> QED  BY <1>1, <1>2, <2>1, <2>3, <2>4, <2>5, BeginKeepsAccount
<1>8. ASSUME NEW tick \in 0..MaxTick, Jump(tick)  PROVE  AccountInv'
  <2> DEFINE s == snap.clock.segment + 1
             clock == [snap.clock EXCEPT !.segment = s, !.tick = tick]
  <2>1. s \in Nat /\ snap.clock.segment <= s /\ tick \in Nat
    BY <1>3, BoundsAssumption
  <2>2. Begin("client", "jump", clock)
    BY <1>8 DEF Jump
  <2> HIDE DEF s
  <2>3. clock \in Clocks /\ clock.segment = s
    BY <1>3, <2>1 DEF Clocks
  <2> QED  BY <1>4, <2>1, <2>2, <2>3
<1>9. ASSUME NEW preserve \in BOOLEAN, Reset(preserve)  PROVE  AccountInv'
  <2> DEFINE s == snap.clock.segment + 1
             t == IF preserve THEN snap.clock.tick ELSE 0
             clock == [state |-> "running", segment |-> s, tick |-> t]
  <2>1. s \in Nat /\ snap.clock.segment < s /\ snap.clock.segment <= s /\ t \in Nat /\ Begin("client", "reset", clock)
    BY <1>3, <1>9 DEF Reset
  <2> HIDE DEF s, t
  <2>2. clock \in Clocks /\ clock.segment = s
    BY <2>1 DEF Clocks
  <2> QED  BY <1>4, <2>1, <2>2
<1> QED  BY <1>5, <1>6, <1>7, <1>8, <1>9

\* The snapshot is synchronised with the clock that the call has moved.
LEMMA SyncKeepsAccount ==
    ASSUME FlightInv, AccountInv, Sync
    PROVE  AccountInv'
<1>1. pass.pc = "sync" /\ ~Free /\ UNCHANGED <<read, log>>
  BY DEF Sync, Free
<1>2. /\ pass \in Passes /\ snap \in Snapshots
      /\ log.torn \in BOOLEAN /\ log.native \in SUBSET Operations /\ log.forgotten \subseteq log.native
  BY <1>1, PassParts, Blanks DEF FlightInv, TypeOK, Populated
<1>3. /\ Fine(snap, log.torn) /\ Fine(read, log.torn) /\ Fine(pass.pred, log.torn) /\ Fine(pass.work, log.torn)
      /\ Fine(pass.base, log.torn)
  BY <1>1, BooksParts DEF AccountInv
<1>4. \A o \in log.native \ log.forgotten : Counted(o, snap)
  BY <1>1 DEF AccountInv, SubmittedIsCounted, Current
<1>5. ASSUME Fine(snap', log.torn), \A o \in log.native \ log.forgotten : Counted(o, snap'),
             pass'.pc \in {"sync", "due", "conclude"}, pass'.pc = "sync" => pass'.op # "reset",
             pass'.pred = pass.pred, pass'.base = pass.base,
             pass'.work \in {pass.work, snap'}, pass'.pc = "due" => pass'.work = snap'
      PROVE  AccountInv'
  <2>1. BooksInv'
    BY <1>1, <1>3, <1>5, BooksParts
  <2>2. ResetIsNew' /\ FlightHasEvent'
    BY <1>5 DEF ResetIsNew, FlightHasEvent
  <2>3. Current' = snap'
    BY <1>5 DEF Current
  <2>4. SubmittedIsCounted'
    BY <1>1, <1>5, <2>3 DEF SubmittedIsCounted
  <2> QED  BY <2>1, <2>2, <2>4 DEF AccountInv
<1>6. CASE pass.op \in {"advance", "jump"}
  <2>1. pass' = [pass EXCEPT !.pc = "due", !.work = snap] /\ snap' = snap
    BY <1>6 DEF Sync
  <2>2. pass'.pc = "due" /\ pass'.pred = pass.pred /\ pass'.base = pass.base /\ pass'.work = snap
    BY <1>2, <2>1 DEF Passes
  <2> QED  BY <1>3, <1>4, <1>5, <2>1, <2>2
<1>7. ASSUME NEW life \in {"running", "paused"}, snap' = ClockLifecycle(snap, life)
      PROVE  Fine(snap', log.torn) /\ \A o \in log.native \ log.forgotten : Counted(o, snap')
  <2> DEFINE v == ClockLifecycle(snap, life)
  <2>1. v \in Snapshots /\ CarriesOn(snap, v)
    <3>1. AtRest(snap)
      BY <1>2, Blanks DEF FlightInv, KeptAtRest
    <3> QED  BY <1>2, <3>1, ClockLifecycleTypes, LifecycleCarriesOn
  <2>2. snap' = v
    BY <1>7
  <2> HIDE DEF v
  <2> QED  BY <1>2, <1>3, <1>4, <2>1, <2>2, FineStays, CarryingOn
<1>8. CASE pass.op = "resume"
  <2>1. pass' = [pass EXCEPT !.op = "advance"] /\ snap' = ClockLifecycle(snap, "running")
    BY <1>8 DEF Sync
  <2>2. /\ pass'.pc = "sync" /\ pass'.op = "advance" /\ pass'.pred = pass.pred /\ pass'.base = pass.base
        /\ pass'.work = pass.work
    BY <1>1, <1>2, <2>1 DEF Passes
  <2>3. Fine(snap', log.torn) /\ \A o \in log.native \ log.forgotten : Counted(o, snap')
    BY <1>7, <2>1
  <2> QED  BY <1>5, <2>2, <2>3
<1>9. CASE pass.op = "pause"
  <2>1. pass' = [pass EXCEPT !.pc = "conclude"] /\ snap' = ClockLifecycle(snap, "paused")
    BY <1>9 DEF Sync
  <2>2. pass'.pc = "conclude" /\ pass'.pred = pass.pred /\ pass'.base = pass.base /\ pass'.work = pass.work
    BY <1>2, <2>1 DEF Passes
  <2>3. Fine(snap', log.torn) /\ \A o \in log.native \ log.forgotten : Counted(o, snap')
    BY <1>7, <2>1
  <2> QED  BY <1>5, <2>2, <2>3
<1>10. CASE pass.op = "reset"
  <2> DEFINE failed == ReconcileAll(snap).disposition # "ok"
  <2>1. pass' = [pass EXCEPT !.pc = "conclude", !.failed = failed] /\ snap' \in ResetSnapshots(snap)
    BY <1>10 DEF Sync
  <2> HIDE DEF failed
  <2>2. pass'.pc = "conclude" /\ pass'.pred = pass.pred /\ pass'.base = pass.base /\ pass'.work = pass.work
    BY <1>2, <2>1 DEF Passes
  <2>3. Sound(snap) /\ (log.torn \/ Charged(snap))
    BY <1>2, <1>3, Blanks DEF Fine
  <2>4. PICK v \in ResetSnapshots(snap) : snap' = v
    BY <2>1
  <2>5. /\ Sound(v)
        /\ (\A p \in Participants : snap.st[p].segment < snap.clock.segment) =>
              /\ Charged(snap) => Charged(v)
              /\ \A o \in Operations : Counted(o, snap) => Counted(o, v)
    BY <1>2, <2>3, ResetKeepsBooks
  <2>6. \/ \A p \in Participants : snap.st[p].segment < snap.clock.segment
        \/ log.torn /\ log.forgotten = log.native
    BY <1>1, <1>10 DEF AccountInv, ResetIsNew
  <2>7. Fine(v, log.torn)
    BY <2>3, <2>5, <2>6 DEF Fine
  <2>8. \A o \in log.native \ log.forgotten : Counted(o, v)
    BY <1>2, <1>4, <2>5, <2>6
  <2> QED  BY <1>5, <2>2, <2>4, <2>7, <2>8
<1> QED  BY <1>6, <1>8, <1>9, <1>10 DEF Sync

LEMMA PassStepKeepsAccount ==
    ASSUME FlightInv, AccountInv, PassStep
    PROVE  AccountInv'
<1>1. CASE Answer
  <2>1. ASSUME NEW p \in Flying  PROVE  p \in pass.fly
    BY DEF Flying
  <2>2. CASE NativeRaises
    BY <2>2, RaiseKeepsAccount DEF NativeRaises
  <2>3. CASE \E p \in Flying, result \in {"succeeded", "failed", "invalid"} : SettleAction(p, result)
    BY <2>1, <2>3, SettleActionKeepsAccount
  <2>4. CASE \E p \in Flying, outcome \in {"succeeded", "failed", "retryable"},
                extent \in {"none", "reserved", "more"} : SettleActivity(p, outcome, extent)
    BY <2>1, <2>4, SettleActivityKeepsAccount
  <2>5. CASE \E p \in Flying : SettleUntrusted(p)
    BY <2>1, <2>5, SettleUntrustedKeepsAccount
  <2>6. CASE (\E results : SettleResults(results)) \/ SettleLost
    BY <2>6, SettleBatchKeepsAccount
  <2> QED  BY <1>1, <2>2, <2>3, <2>4, <2>5, <2>6 DEF Answer
<1>2. CASE \E p \in Participants : BindRaises(p)
  BY <1>2, RaiseKeepsAccount DEF BindRaises
<1>3. CASE \/ EnterPolicy \/ FailBeforeDispatch \/ LeaveBatches
           \/ \E p \in Participants : SkipParticipant(p) \/ CadenceMissed(p)
  BY <1>3, SelectionKeepsAccount
<1>4. CASE \E p \in Participants : SubmitAction(p) \/ NoCandidate(p) \/ SubmitActivity(p)
  BY <1>4, SubmitActionKeepsAccount, NoCandidateKeepsAccount, SubmitActivityKeepsAccount
<1>5. CASE Sync \/ SubmitBatch \/ PublishDue \/ Conclude
  BY <1>5, SyncKeepsAccount, SubmitBatchKeepsAccount, PublishDueKeepsAccount, ConcludeKeepsAccount
<1> QED  BY <1>1, <1>2, <1>3, <1>4, <1>5 DEF PassStep

-----------------------------------------------------------------------------
(* The driver, the client and the initial state                             *)

\* A step that publishes nothing, and may read what is published.
LEMMA ReadingKeepsAccount ==
    ASSUME FlightInv, AccountInv, UNCHANGED <<snap, pass>>, read' \in {read, snap, Blank},
           log' \in {log, [log EXCEPT !.torn = TRUE]}
    PROVE  AccountInv'
<1>1. log'.native = log.native /\ log'.forgotten = log.forgotten /\ (log.torn => log'.torn)
  BY DEF FlightInv, TypeOK
<1>2. \A w : Fine(w, log.torn) => Fine(w, log'.torn)
  BY <1>1 DEF Fine
<1>3. BooksInv'
  BY <1>2, BooksParts, BlankIsFine DEF AccountInv, Free
<1>4. ResetIsNew' /\ FlightHasEvent'
  BY <1>1 DEF AccountInv, ResetIsNew, FlightHasEvent
<1>5. SubmittedIsCounted'
  BY <1>1 DEF AccountInv, SubmittedIsCounted, Current
<1> QED  BY <1>3, <1>4, <1>5 DEF AccountInv

\* The driver's record of its failure takes the place of whatever is published.
LEMMA DriverPublishesKeepsAccount ==
    ASSUME FlightInv, AccountInv, DriverPublishes
    PROVE  AccountInv'
<1> DEFINE v == PacingFailure(read)
<1>1. /\ driver = "publishing" /\ snap' = v /\ read' = Blank /\ pass' = pass
      /\ log' = IF Free THEN Forget(read) ELSE [log EXCEPT !.forgotten = log.native, !.torn = TRUE]
  BY DEF DriverPublishes
<1>2. read \in Snapshots /\ log \in Logs /\ log.torn \in BOOLEAN /\ log.native \in SUBSET Operations
  BY <1>1, Blanks DEF FlightInv, TypeOK, Populated, Logs
<1>3. v \in Snapshots /\ CarriesOn(read, v)
  <2>1. AtRest(read)
    BY <1>2, Blanks DEF FlightInv, KeptAtRest
  <2> QED  BY <1>2, <2>1, PacingFailureTypes, PacingFailureCarriesOn
<1>4. Fine(v, log.torn)
  <2>1. Fine(read, log.torn)
    BY BooksParts DEF AccountInv
  <2> QED  BY <1>2, <1>3, <2>1, FineStays
<1> HIDE DEF v
<1>5. CASE Free
  <2>1. /\ log'.torn = log.torn /\ log'.native = log.native
        /\ log'.forgotten = log.forgotten \cup {o \in log.native : ~Counted(o, read)}
    BY <1>1, <1>2, <1>5 DEF Forget, Logs
  <2>2. \A o \in log'.native \ log'.forgotten : Counted(o, v)
    BY <1>2, <1>3, <2>1, CarryingOn
  <2>3. pass'.pc = "free"
    BY <1>1, <1>5 DEF Free
  <2> QED  BY <1>1, <1>4, <2>1, <2>2, <2>3, BlankIsFine, EndKeepsAccount
<1>6. CASE ~Free
  <2>1. log'.torn /\ log'.native = log.native /\ log'.forgotten = log.native
    BY <1>1, <1>2, <1>6 DEF Logs
  <2>2. \A w : Fine(w, log.torn) => Fine(w, log'.torn)
    BY <2>1 DEF Fine
  <2>3. BooksInv'
    <3>1. Fine(pass.pred, log.torn) /\ Fine(pass.work, log.torn) /\ Fine(pass.base, log.torn)
      BY <1>6, BooksParts DEF AccountInv
    <3> QED  BY <1>1, <1>4, <2>2, <3>1, BooksParts, BlankIsFine
  <2>4. ResetIsNew' /\ FlightHasEvent'
    BY <1>1, <2>1 DEF AccountInv, ResetIsNew, FlightHasEvent
  <2>5. SubmittedIsCounted'
    BY <2>1 DEF SubmittedIsCounted
  <2> QED  BY <2>3, <2>4, <2>5 DEF AccountInv
<1> QED  BY <1>5, <1>6

LEMMA DriverStepKeepsAccount ==
    ASSUME FlightInv, AccountInv, DriverStep
    PROVE  AccountInv'
<1>1. CASE DriverObserves \/ DriverStops
  BY <1>1, ReadingKeepsAccount DEF DriverObserves, DriverStops
<1>2. CASE DriverFails
  <2>1. log' \in {log, [log EXCEPT !.torn = TRUE]}
    BY <1>2 DEF DriverFails, FlightInv, TypeOK
  <2> QED  BY <1>2, <2>1, ReadingKeepsAccount DEF DriverFails
<1>3. CASE DriverServices
  <2>1. Free /\ driver = "ready"
    BY <1>3 DEF DriverServices
  <2>2. snap \in Snapshots
    BY <2>1, Blanks DEF FlightInv, TypeOK, Populated, Alive
  <2>3. snap.clock \in Clocks /\ snap.clock.segment \in Nat
    BY <2>2, SnapshotParts
  <2>4. CASE UNCHANGED <<snap, pass, read, log>>
    BY <2>4, ReadingKeepsAccount
  <2> DEFINE op == "run_due"
             pc == "due"
             clock == snap.clock
  <2>5. CASE pass' = Pass("driver", op, pc, snap, snap) /\ UNCHANGED <<snap, read, log>>
    <3>1. op # "reset" /\ pc \in {"sync", "due"} /\ clock \in Clocks /\ clock = snap.clock
      BY <2>3
    <3>2. snap' = [snap EXCEPT !.clock = clock]
      BY <2>2, <2>5 DEF Snapshots
    <3>3. snap.clock.segment <= clock.segment
      BY <2>3
    <3> HIDE DEF op, pc, clock
    <3> QED  BY <2>1, <2>2, <2>5, <3>1, <3>2, <3>3, BeginKeepsAccount
  <2>6. CASE HasTransition /\ Begin("driver", "advance", [snap.clock EXCEPT !.tick = NextTick(snap)])
    <3> DEFINE next == [snap.clock EXCEPT !.tick = NextTick(snap)]
    <3>1. NextTick(snap) \in Nat
      BY <2>2, <2>6, NextTickType DEF HasTransition
    <3>2. next \in Clocks /\ next.segment = snap.clock.segment
      BY <2>3, <3>1 DEF Clocks
    <3>3. Begin("driver", "advance", next)
      BY <2>6
    <3> HIDE DEF next
    <3>4. snap.clock.segment <= next.segment
      BY <2>3, <3>2
    <3> QED  BY <2>1, <2>2, <3>2, <3>3, <3>4, BeginKeepsAccount DEF Begin
  <2> QED  BY <1>3, <2>4, <2>5, <2>6 DEF DriverServices
<1> QED  BY <1>1, <1>2, <1>3, DriverPublishesKeepsAccount DEF DriverStep

LEMMA ClientStepKeepsAccount ==
    ASSUME FlightInv, AccountInv, ClientStep \/ \E call \in {"apply", "destroy"} : CallStop(call)
    PROVE  AccountInv'
<1>1. CASE JoinTimesOut \/ BeginTeardown \/ \E call \in {"apply", "destroy"} : CallStop(call)
  BY <1>1, ReadingKeepsAccount DEF JoinTimesOut, BeginTeardown, CallStop
<1>2. CASE EndTeardown
  <2>1. snap' = snap /\ pass' = pass /\ read' = Blank /\ log' = log
    BY <1>2 DEF EndTeardown, FlightInv, Turns
  <2> QED  BY <2>1, ReadingKeepsAccount
<1>3. CASE Apply /\ ~IsBlank(snap)
  BY <1>3, ReadingKeepsAccount DEF Apply
<1>4. CASE Apply /\ IsBlank(snap)
  <2>1. PICK w \in InitialSnapshots : pass' = Pass("client", "apply", "due", snap, w)
    BY <1>4 DEF Apply
  <2>2. Free /\ UNCHANGED <<snap, read, log>>
    BY <1>4 DEF Apply
  <2>3. /\ pass'.pc = "due" /\ pass'.pred = snap /\ pass'.work = w /\ pass'.base = Blank
    BY <2>1 DEF Pass
  <2>4. Fine(w, log.torn)
    BY InitialBooks DEF Fine
  <2>5. BooksInv'
    <3>1. Fine(snap, log.torn) /\ Fine(read, log.torn)
      BY BooksParts DEF AccountInv
    <3> QED  BY <2>2, <2>3, <2>4, <3>1, BooksParts, BlankIsFine
  <2>6. ResetIsNew' /\ FlightHasEvent'
    BY <2>3 DEF ResetIsNew, FlightHasEvent
  <2>7. log.native \ log.forgotten = {}
    BY <1>4, <2>2 DEF AccountInv, SubmittedIsCounted, Current, Counted, Free
  <2>8. SubmittedIsCounted'
    BY <2>2, <2>7 DEF SubmittedIsCounted
  <2> QED  BY <2>5, <2>6, <2>8 DEF AccountInv
<1> QED  BY <1>1, <1>2, <1>3, <1>4 DEF ClientStep

LEMMA InitEstablishesAccount == Init => AccountInv
<1> SUFFICES ASSUME Init  PROVE  AccountInv
  OBVIOUS
<1>1. snap = Blank /\ read = Blank /\ Free /\ pass.pc = "free" /\ log.native = {}
  BY PassTypes DEF Init, Free
<1>2. BooksInv
  BY <1>1, BooksParts, BlankIsFine
<1>3. ResetIsNew /\ FlightHasEvent /\ SubmittedIsCounted
  BY <1>1 DEF ResetIsNew, FlightHasEvent, SubmittedIsCounted
<1> QED  BY <1>2, <1>3 DEF AccountInv

-----------------------------------------------------------------------------
(* The theorems                                                             *)

\* AccountInv holds initially and is kept by every step, on top of FlightInv: the
\* books of every snapshot that is kept or worked on are in order.
THEOREM AccountInvariant == Spec => []AccountInv
<1>1. FlightInv /\ AccountInv /\ [Next]_vars => AccountInv'
  <2> SUFFICES ASSUME FlightInv, AccountInv, [Next]_vars  PROVE  AccountInv'
    OBVIOUS
  <2>1. CASE ClientCall
    BY <2>1, CallKeepsAccount, ClientStepKeepsAccount DEF ClientCall
  <2>2. CASE ClientStep \/ PassStep \/ DriverStep
    BY <2>2, ClientStepKeepsAccount, PassStepKeepsAccount, DriverStepKeepsAccount
  <2>3. CASE UNCHANGED vars
    BY <2>3, ReadingKeepsAccount DEF vars
  <2> QED  BY <2>1, <2>2, <2>3 DEF Next
<1> QED  BY <1>1, InitEstablishesAccount, FlightInvariant, PTL DEF Spec

\* What was handed to the native runtime is in flight or counted as attempted, and
\* so is not handed to it again, unless its record was dropped whole.
THEOREM SubmissionsAreCounted == Spec => []SubmittedIsCounted
<1>1. AccountInv => SubmittedIsCounted
  BY DEF AccountInv
<1> QED  BY <1>1, AccountInvariant, PTL

\* The snapshot that decides what happens next is in order.
LEMMA CurrentIsFine ==
    ASSUME FlightInv, AccountInv
    PROVE  Fine(Current, log.torn)
<1>1. CASE Free
  BY <1>1, BooksParts DEF AccountInv, Current, Free
<1>2. CASE ~Free
  BY <1>2, BooksParts DEF AccountInv, Current
<1> QED  BY <1>1, <1>2

\* Both accounts of a budget are alike and carry the generation of their execution
\* service, through every reservation, commit, release, reset and rollback.
THEOREM AccountsAlwaysAgree == Spec => []AccountsAgree
<1>1. FlightInv /\ AccountInv => AccountsAgree
  BY CurrentIsFine DEF AccountsAgree, Fine, Sound
<1> QED  BY <1>1, FlightInvariant, AccountInvariant, PTL

\* A governed attempt counts as attempted exactly when its measurements have been
\* committed: no free attempts, and no charge for one that is tried again.
THEOREM AttemptsAreCharged == Spec => []AttemptedIsCharged
<1>1. FlightInv /\ AccountInv => AttemptedIsCharged
  BY CurrentIsFine DEF AttemptedIsCharged, Fine, Charged, Commits
<1> QED  BY <1>1, FlightInvariant, AccountInvariant, PTL

\* Governed work runs in the native runtime without a reservation only when the same
\* operation ran before and its reservation was released, or when a reset whose new
\* segment was taken back starts the old one again.
THEOREM UnreservedOnlyIfReleased == Spec => []UnreservedWasReleased
<1>1. FlightInv /\ AccountInv => UnreservedWasReleased
  <2> SUFFICES ASSUME FlightInv, AccountInv, pass.pc = "flight", NEW p \in pass.fly, Governed(p)
               PROVE  LET o == Operation(p, pass.work.st[p])
                      IN  \/ o \in Held(pass.work, pass.pol) \cup pass.work.led.releases
                          \/ log.torn /\ o \in pass.work.led.commits
    BY DEF UnreservedWasReleased
  <2> DEFINE o == Operation(p, pass.work.st[p])
  <2>1. o \in pass.work.led.reserves
    BY DEF AccountInv, FlightHasEvent
  <2>2. /\ o \in Operations /\ o.participant = p /\ o.segment = pass.work.st[p].segment
        /\ o.occurrence = pass.work.st[p].occurrence /\ o.retry = pass.work.st[p].retry
        /\ pass.work \in Snapshots
    BY GovernedParts DEF Operation
  <2>3. PolicyOf(p) = pass.pol
    BY FlightParts
  <2>4. log.torn \/ Charged(pass.work)
    BY FlightAccount
  <2> HIDE DEF o
  <2>5. ~Counted(o, pass.work)
    BY <2>2, CountedParts
  <2>6. log.torn \/ o \notin pass.work.led.commits
    BY <2>4, <2>5 DEF Charged
  <2>7. o \in pass.work.led.commits \/ o \in Held(pass.work, pass.pol) \cup pass.work.led.releases
    BY <2>1, <2>2, <2>3 DEF Held
  <2> QED  BY <2>6, <2>7 DEF o
<1> QED  BY <1>1, FlightInvariant, AccountInvariant, PTL
=============================================================================
