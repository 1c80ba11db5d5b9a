---------------------- MODULE ParticipantBalanceProofs ----------------------
(***************************************************************************)
(* Proofs about the reservations of ParticipantExecution: BalanceInv is    *)
(* inductive on top of FlightInv, AccountInv and StepInv.  From it follows *)
(* that a budget reserves exactly the demand of the operations that hold a *)
(* reservation, through retries of operations whose reservation was        *)
(* released, failed passes, resets and rollbacks.                          *)
(***************************************************************************)
EXTENDS ParticipantStepProofs

-----------------------------------------------------------------------------
(* What is open and what is held                                            *)

\* The record of a snapshot's reservations is in order.
Booked(w) == Recorded(w) /\ Balanced(w)

\* A snapshot whose events are those of another, and whose governed participants are
\* where they were
Stays(w, v) ==
    /\ v.led = w.led
    /\ \A p \in Participants : Governed(p) => SameCourse(w.st[p], v.st[p])

LEMMA ReservesTypes ==
    ASSUME NEW w \in Snapshots, NEW o \in w.led.reserves
    PROVE  /\ o \in Operations /\ o.participant \in Participants /\ o.segment \in Nat
           /\ PolicyOf(o.participant) \in DOMAIN Policies /\ w.st[o.participant].segment \in Nat
<1>1. o \in Operations
  BY SnapshotParts DEF Ledgers
<1>2. o.participant \in Participants /\ o.segment \in Nat
  BY <1>1 DEF Operations
<1>3. w.st[o.participant].segment \in Nat
  BY <1>2, SnapshotParts DEF SchedulerStates
<1> QED  BY <1>1, <1>2, <1>3, PolicyIsUnique

\* What holds a reservation is open and not released.
LEMMA HeldIsOpen ==
    ASSUME NEW w, NEW i
    PROVE  Held(w, i) = Open(w, i) \ w.led.releases
BY DEF Held, Open

LEMMA SameOperation ==
    ASSUME NEW p, Governed(p), NEW s, NEW t, SameCourse(s, t)
    PROVE  Operation(p, t) = Operation(p, s)
BY DEF SameCourse, Operation

\* What is open depends on the events and on where the participants are.
LEMMA SameEvents ==
    ASSUME NEW w \in Snapshots, NEW v \in Snapshots, Recorded(w), v.led = w.led,
           \A p \in Participants : Governed(p) =>
               v.st[p].segment = w.st[p].segment /\ Operation(p, v.st[p]) = Operation(p, w.st[p])
    PROVE  /\ \A i \in DOMAIN Policies : Open(v, i) = Open(w, i)
           /\ Recorded(v)
           /\ Balanced(w) => Balanced(v)
<1>1. ASSUME NEW o \in w.led.reserves
      PROVE  /\ v.st[o.participant].segment = w.st[o.participant].segment
             /\ Operation(o.participant, v.st[o.participant]) = Operation(o.participant, w.st[o.participant])
             /\ Governed(o.participant)
  BY ReservesTypes DEF Recorded
<1>2. ASSUME NEW i \in DOMAIN Policies  PROVE  Open(v, i) = Open(w, i)
  BY <1>1 DEF Open
<1>3. Recorded(v)
  <2>1. \A i \in DOMAIN Policies : \A o \in Open(v, i) : o \in w.led.reserves /\ o \in Open(w, i)
    BY <1>2 DEF Open
  <2> QED  BY <1>1, <2>1 DEF Recorded
<1>4. \A i \in DOMAIN Policies : Held(v, i) = Held(w, i)
  BY <1>2, HeldIsOpen
<1>5. Balanced(w) => Balanced(v)
  BY <1>4 DEF Balanced
<1> QED  BY <1>2, <1>3, <1>5

LEMMA StayingBooked ==
    ASSUME NEW w \in Snapshots, NEW v \in Snapshots, Stays(w, v), Recorded(w)
    PROVE  /\ \A i \in DOMAIN Policies : Open(v, i) = Open(w, i)
           /\ Recorded(v)
           /\ Balanced(w) => Balanced(v)
<1>1. v.led = w.led
  BY DEF Stays
<1>2. ASSUME NEW p \in Participants, Governed(p)
      PROVE  v.st[p].segment = w.st[p].segment /\ Operation(p, v.st[p]) = Operation(p, w.st[p])
  BY <1>2, SameOperation DEF Stays, SameCourse
<1> QED  BY <1>1, <1>2, SameEvents

\* Everyone who has a turn before another belongs to the same policy.
LEMMA TurnsInPolicy ==
    ASSUME NEW p, NEW q \in Participants, HasTurnBefore(p, q)
    PROVE  p \in Participants /\ PolicyOf(p) = PolicyOf(q) /\ (Governed(p) <=> Governed(q))
<1> DEFINE i == PolicyOf(q)
           ps == Policies[i].participants
<1>1. i \in DOMAIN Policies
  BY PolicyIsUnique
<1>2. PICK j \in DOMAIN ps : ps[j] = p
  BY DEF HasTurnBefore
<1>3. p \in ToSet(ps)
  BY <1>2 DEF ToSet
<1>4. p \in Participants /\ PolicyOf(p) = i
  BY <1>1, <1>3, PolicyIsUnique, PolicyTypes
<1> QED  BY <1>4 DEF Governed

LEMMA StayingQuiet ==
    ASSUME NEW w \in Snapshots, NEW v \in Snapshots, Stays(w, v), Recorded(w), Quiet(w),
           w.clock.tick <= v.clock.tick
    PROVE  Quiet(v)
<1>1. \A i \in DOMAIN Policies : Open(v, i) = Open(w, i)
  BY StayingBooked
<1> SUFFICES ASSUME NEW i \in DOMAIN Policies, NEW o \in Open(v, i)
             PROVE  /\ Open(v, i) = {o}
                    /\ Waits(v, o.participant) /\ v.st[o.participant].next <= v.clock.tick
                    /\ \A p \in Participants : HasTurnBefore(p, o.participant) /\ Waits(v, p) =>
                           v.st[p].next # v.st[o.participant].next
  BY DEF Quiet
<1> DEFINE q == o.participant
<1>2. o \in Open(w, i) /\ o \in w.led.reserves
  BY <1>1 DEF Open
<1>3. q \in Participants /\ Governed(q)
  BY <1>2, ReservesTypes DEF Recorded
<1>4. /\ Open(w, i) = {o} /\ Waits(w, q) /\ w.st[q].next <= w.clock.tick
      /\ \A p \in Participants : HasTurnBefore(p, q) /\ Waits(w, p) => w.st[p].next # w.st[q].next
  BY <1>2 DEF Quiet
<1>5. \A p \in Participants : Governed(p) => v.st[p].next = w.st[p].next /\ (Waits(v, p) <=> Waits(w, p))
  BY DEF Stays, SameCourse, Waits
<1>6. w.st[q].next \in Nat /\ w.clock.tick \in Nat /\ v.clock.tick \in Nat
  BY <1>3, SnapshotParts DEF SchedulerStates
<1>7. \A p \in Participants : HasTurnBefore(p, q) => Governed(p)
  BY <1>3, TurnsInPolicy
<1> HIDE DEF q
<1>8. /\ Open(v, i) = {o} /\ Waits(v, q) /\ v.st[q].next <= v.clock.tick
      /\ \A p \in Participants : HasTurnBefore(p, q) /\ Waits(v, p) => v.st[p].next # v.st[q].next
  BY <1>1, <1>3, <1>4, <1>5, <1>6, <1>7
<1> QED  BY <1>8 DEF q

-----------------------------------------------------------------------------
(* The ledger                                                               *)

LEMMA Multiples ==
    ASSUME NEW d \in Nat, NEW n \in Nat
    PROVE  d * n \in Nat /\ d * 0 = 0 /\ d * (n + 1) = d * n + d
OBVIOUS

\* The operation that a participant is at is not committed.
LEMMA OwnOperation ==
    ASSUME NEW w \in Snapshots, Charged(w), NEW p \in Participants, Governed(p), NEW o, o = Operation(p, w.st[p])
    PROVE  /\ o \in Operations /\ o.participant = p /\ o.segment = w.st[p].segment /\ o \notin w.led.commits
           /\ o.occurrence = w.st[p].occurrence /\ o.retry = w.st[p].retry
<1>1. w.st[p] \in SchedulerStates
  BY SnapshotParts
<1>2. /\ o \in Operations /\ o.participant = p /\ o.segment = w.st[p].segment
      /\ o.occurrence = w.st[p].occurrence /\ o.retry = w.st[p].retry
  BY <1>1, OperationType DEF Operation
<1>3. w.st[p].segment \in Nat /\ w.st[p].occurrence \in Nat /\ w.st[p].retry \in Nat
  BY <1>1 DEF SchedulerStates
<1>4. ~Counted(o, w)
  BY <1>2, <1>3, CountedParts
<1> QED  BY <1>2, <1>4 DEF Charged

LEMMA HeldIsFinite ==
    ASSUME NEW w, Recorded(w), NEW i
    PROVE  IsFiniteSet(Held(w, i)) /\ Cardinality(Held(w, i)) \in Nat
<1>1. Held(w, i) \in SUBSET w.led.reserves
  BY DEF Held
<1> QED  BY <1>1, FS_Subset, FS_CardinalityType DEF Recorded

\* What the transition of one policy's vector does to the books: the accounts of other
\* policies and what they hold stay.
LEMMA OtherPolicies ==
    ASSUME NEW w \in Snapshots, NEW v \in Snapshots, Balanced(w), NEW i \in DOMAIN Policies,
           \A b \in Budgets \ Policies[i].budgets : v.led.budget[b] = w.led.budget[b],
           \A j \in DOMAIN Policies \ {i} : Held(v, j) = Held(w, j),
           \A b \in Policies[i].budgets : v.led.budget[b].reserved = Budget[b].demand * Cardinality(Held(v, i))
    PROVE  Balanced(v)
<1>1. ASSUME NEW j \in DOMAIN Policies, NEW b \in Policies[j].budgets
      PROVE  v.led.budget[b].reserved = Budget[b].demand * Cardinality(Held(v, j))
  <2>1. CASE j = i
    BY <2>1
  <2>2. CASE j # i
    <3>1. b \in Budgets \ Policies[i].budgets
      BY <2>2, PoliciesAssumption
    <3>2. v.led.budget[b] = w.led.budget[b] /\ Held(v, j) = Held(w, j)
      BY <2>2, <3>1
    <3> QED  BY <3>2 DEF Balanced
  <2> QED  BY <2>1, <2>2
<1> QED  BY <1>1 DEF Balanced

\* A reservation that is granted opens its operation, unless that is open already.
LEMMA ReserveBooked ==
    ASSUME NEW w \in Snapshots, Booked(w), Charged(w), NEW p \in Participants, Governed(p),
           NEW i, i = PolicyOf(p), NEW o, o = Operation(p, w.st[p]), NEW g,
           NEW r, r = Reserve(w.led, Policies[i].budgets, o, g), r.disposition = "ok",
           NEW v \in Snapshots, v.led = r.ledger, v.st = w.st
    PROVE  /\ Booked(v)
           /\ \A j \in DOMAIN Policies : Open(v, j) = IF j = i THEN Open(w, j) \cup {o} ELSE Open(w, j)
           /\ v.led.releases = w.led.releases /\ v.led.reserves = w.led.reserves \cup {o}
<1>1. /\ o \in Operations /\ o.participant = p /\ o.segment = w.st[p].segment /\ o \notin w.led.commits
      /\ w.st[p].segment \in Nat
  BY OwnOperation, SnapshotParts DEF SchedulerStates
<1>2. Recorded(w) /\ Balanced(w) /\ i \in DOMAIN Policies
  BY PolicyIsUnique DEF Booked
<1> DEFINE B == Policies[i].budgets
           l == w.led
           m == [l EXCEPT !.budget = Reserved(l.budget, B), !.pool = Reserved(l.pool, B),
                          !.reserves = l.reserves \cup {o}]
<1>3. (o \in l.reserves /\ r.ledger = l) \/ (o \notin l.reserves /\ r.ledger = m)
  <2> HIDE DEF m
  <2>1. o \in l.reserves => r = Result("ok", l)
    BY DEF Reserve
  <2>2. o \notin l.reserves => r = Result("throttled", l) \/ r = Result("ok", m)
    BY DEF Reserve, m
  <2> QED  BY <2>1, <2>2 DEF Result
<1>4. /\ v.led.commits = l.commits /\ v.led.releases = l.releases /\ v.led.reserves = l.reserves \cup {o}
      /\ o \in l.reserves => v.led = l
      /\ o \notin l.reserves => v.led.budget = Reserved(l.budget, B)
  <2>1. l \in Ledgers(Operations)
    BY SnapshotParts
  <2>2. /\ m.commits = l.commits /\ m.releases = l.releases /\ m.reserves = l.reserves \cup {o}
        /\ m.budget = Reserved(l.budget, B)
    BY <2>1 DEF Ledgers
  <2> HIDE DEF l, m
  <2> QED  BY <1>3, <2>2
<1> HIDE DEF m
<1>5. ASSUME NEW j \in DOMAIN Policies
      PROVE  Open(v, j) = IF j = i THEN Open(w, j) \cup {o} ELSE Open(w, j)
  BY <1>1, <1>4 DEF Open
<1>6. Recorded(v)
  <2>1. IsFiniteSet(v.led.reserves)
    <3>1. IsFiniteSet(l.reserves \cup {o})
      BY <1>2, FS_AddElement DEF Recorded
    <3> QED  BY <1>4, <3>1
  <2>2. v.led.releases \subseteq v.led.reserves
    BY <1>2, <1>4 DEF Recorded
  <2>3. \A x \in v.led.reserves : Governed(x.participant) /\ x.segment <= v.st[x.participant].segment
    BY <1>1, <1>2, <1>4 DEF Recorded
  <2>4. \A j \in DOMAIN Policies : \A x \in Open(v, j) : x = Operation(x.participant, v.st[x.participant])
    BY <1>1, <1>2, <1>5 DEF Recorded
  <2> QED  BY <2>1, <2>2, <2>3, <2>4 DEF Recorded
<1>7. Balanced(v)
  <2>1. CASE o \in l.reserves
    <3>1. v.led = w.led
      BY <1>4, <2>1
    <3>2. \A j \in DOMAIN Policies : Held(v, j) = Held(w, j)
      BY <3>1 DEF Held
    <3> QED  BY <1>2, <3>1, <3>2 DEF Balanced
  <2>2. CASE o \notin l.reserves
    <3>1. o \notin l.releases
      BY <1>2, <2>2 DEF Recorded
    <3>2. /\ Held(v, i) = Held(w, i) \cup {o} /\ o \notin Held(w, i)
          /\ \A j \in DOMAIN Policies \ {i} : Held(v, j) = Held(w, j)
      <4>1. \A j \in DOMAIN Policies : Held(v, j) = Open(v, j) \ l.releases /\ Held(w, j) = Open(w, j) \ l.releases
        BY <1>4, HeldIsOpen
      <4>2. o \notin Open(w, i)
        BY <2>2 DEF Open
      <4> QED  BY <1>2, <1>5, <3>1, <4>1, <4>2
    <3>3. Cardinality(Held(v, i)) = Cardinality(Held(w, i)) + 1 /\ Cardinality(Held(w, i)) \in Nat
      <4>1. IsFiniteSet(Held(w, i)) /\ Cardinality(Held(w, i)) \in Nat
        BY <1>2, HeldIsFinite
      <4>2. Cardinality(Held(w, i) \cup {o}) = Cardinality(Held(w, i)) + 1
        BY <3>2, <4>1, FS_AddElement
      <4> QED  BY <3>2, <4>1, <4>2
    <3>4. B \in SUBSET Budgets /\ w.led.budget \in [Budgets -> Accounts]
      BY <1>2, PoliciesAssumption, SnapshotParts DEF Ledgers
    <3>5. \A b \in Budgets \ B : v.led.budget[b] = w.led.budget[b]
      BY <1>4, <2>2, <3>4 DEF Reserved
    <3>6. ASSUME NEW b \in B  PROVE  v.led.budget[b].reserved = Budget[b].demand * Cardinality(Held(v, i))
      <4>1. w.led.budget[b] \in Accounts /\ b \in Budgets
        BY <3>4
      <4>2. v.led.budget[b] = [w.led.budget[b] EXCEPT !.reserved = @ + Budget[b].demand]
        BY <1>4, <2>2, <3>4 DEF Reserved
      <4>3. v.led.budget[b].reserved = w.led.budget[b].reserved + Budget[b].demand
        BY <4>1, <4>2 DEF Accounts
      <4>4. w.led.budget[b].reserved = Budget[b].demand * Cardinality(Held(w, i))
        BY <1>2 DEF Balanced
      <4>5. Budget[b].demand \in Nat
        BY <4>1, BudgetTypes
      <4>6. Budget[b].demand * (Cardinality(Held(w, i)) + 1) = Budget[b].demand * Cardinality(Held(w, i)) + Budget[b].demand
        BY <3>3, <4>5, Multiples
      <4> QED  BY <3>3, <4>3, <4>4, <4>6
    <3> QED  BY <1>2, <3>2, <3>5, <3>6, OtherPolicies
  <2> QED  BY <2>1, <2>2
<1> QED  BY <1>4, <1>5, <1>6, <1>7 DEF Booked

\* The ledger of v is that of w after a granted reservation of p's operation o.
Granted(w, v, p, i, o) ==
    /\ i = PolicyOf(p) /\ o = Operation(p, w.st[p]) /\ v.st = w.st
    /\ \E g : LET r == Reserve(w.led, Policies[i].budgets, o, g)
              IN  r.disposition = "ok" /\ v.led = r.ledger

LEMMA GrantBooked ==
    ASSUME NEW w \in Snapshots, Booked(w), Charged(w), NEW p \in Participants, Governed(p),
           NEW i, NEW o, NEW v \in Snapshots, Granted(w, v, p, i, o)
    PROVE  /\ Booked(v)
           /\ \A j \in DOMAIN Policies : Open(v, j) = IF j = i THEN Open(w, j) \cup {o} ELSE Open(w, j)
           /\ v.led.releases = w.led.releases /\ v.led.reserves = w.led.reserves \cup {o}
<1>1. PICK g : Reserve(w.led, Policies[i].budgets, o, g).disposition = "ok" /\
               v.led = Reserve(w.led, Policies[i].budgets, o, g).ledger
  BY DEF Granted
<1>2. i = PolicyOf(p) /\ o = Operation(p, w.st[p]) /\ v.st = w.st
  BY DEF Granted
<1> DEFINE r == Reserve(w.led, Policies[i].budgets, o, g)
<1>3. r = Reserve(w.led, Policies[i].budgets, o, g) /\ r.disposition = "ok" /\ v.led = r.ledger
  BY <1>1
<1> HIDE DEF r
<1> QED  BY <1>2, <1>3, ReserveBooked

LEMMA FreedIsExact ==
    ASSUME NEW b \in Budgets, NEW a \in Accounts, NEW n \in Nat, NEW m \in Nat,
           a.reserved = Budget[b].demand * n, n = m + 1 \/ (n = 0 /\ m = 0)
    PROVE  Freed(b, a) = Budget[b].demand * m
<1> DEFINE d == Budget[b].demand
           x == d * m
<1>1. d \in Nat
  BY BudgetTypes
<1>2. d * m \in Nat /\ d * 0 = 0 /\ d * (m + 1) = d * m + d
  BY <1>1, Multiples
<1>3. CASE n = m + 1
  <2>1. a.reserved = x + d /\ x \in Nat
    BY <1>2, <1>3
  <2> HIDE DEF x
  <2>2. Freed(b, a) = x
    BY <1>1, <2>1 DEF Freed
  <2> QED  BY <2>2 DEF x
<1>4. CASE n = 0 /\ m = 0
  <2>1. a.reserved = 0 /\ d * m = 0
    BY <1>2, <1>4
  <2>2. Freed(b, a) = 0
    BY <1>1, <2>1 DEF Freed
  <2> QED  BY <2>1, <2>2
<1> QED  BY <1>3, <1>4

\* What gives back the demand of one operation: it held a reservation, or nothing of
\* its policy does and there is nothing to give back.
LEMMA FreeingBalances ==
    ASSUME NEW w \in Snapshots, NEW v \in Snapshots, Recorded(w), Balanced(w), NEW i \in DOMAIN Policies, NEW o,
           o \in Held(w, i) \/ Held(w, i) = {}, Held(v, i) = Held(w, i) \ {o},
           \A j \in DOMAIN Policies \ {i} : Held(v, j) = Held(w, j),
           \A b \in Budgets \ Policies[i].budgets : v.led.budget[b] = w.led.budget[b],
           \A b \in Policies[i].budgets : v.led.budget[b].reserved = Freed(b, w.led.budget[b])
    PROVE  Balanced(v)
<1> DEFINE n == Cardinality(Held(w, i))
           m == Cardinality(Held(v, i))
<1>1. IsFiniteSet(Held(w, i)) /\ n \in Nat
  BY HeldIsFinite
<1>2. m \in Nat /\ (n = m + 1 \/ (n = 0 /\ m = 0))
  <2>1. CASE o \in Held(w, i)
    <3>1. IsFiniteSet(Held(w, i) \ {o}) /\ Cardinality(Held(w, i) \ {o}) = n - 1
      BY <1>1, <2>1, FS_RemoveElement
    <3>2. m = n - 1 /\ m \in Nat
      BY <3>1, FS_CardinalityType
    <3> QED  BY <1>1, <3>2
  <2>2. CASE Held(w, i) = {}
    <3>1. Held(v, i) = {}
      BY <2>2
    <3> QED  BY <2>2, <3>1, FS_EmptySet
  <2> QED  BY <2>1, <2>2
<1> HIDE DEF n, m
<1>3. ASSUME NEW b \in Policies[i].budgets
      PROVE  v.led.budget[b].reserved = Budget[b].demand * m
  <2>1. b \in Budgets /\ w.led.budget[b] \in Accounts
    BY PoliciesAssumption, SnapshotParts DEF Ledgers
  <2>2. w.led.budget[b].reserved = Budget[b].demand * n
    BY DEF Balanced, n
  <2>3. Freed(b, w.led.budget[b]) = Budget[b].demand * m
    BY <1>1, <1>2, <2>1, <2>2, FreedIsExact
  <2> QED  BY <2>3
<1> QED  BY <1>3, OtherPolicies DEF m

\* The snapshot v is w after the commit of p's operation o.
Closed(w, v, p, i, o) ==
    /\ i = PolicyOf(p) /\ o = Operation(p, w.st[p]) /\ OneFurther(w.st[p], v.st[p])
    /\ \A q \in Participants \ {p} : v.st[q] = w.st[q]
    /\ \E g, measured : LET r == Commit(w.led, Policies[i].budgets, o, g, measured)
                        IN  r.disposition = "ok" /\ v.led = r.ledger

\* A commit closes the operation it charges.
LEMMA CommitBooked ==
    ASSUME NEW w \in Snapshots, Booked(w), Charged(w), NEW p \in Participants, Governed(p),
           NEW i, NEW o, NEW v \in Snapshots, Closed(w, v, p, i, o), o \in Held(w, i) \/ Held(w, i) = {}
    PROVE  /\ Booked(v)
           /\ \A j \in DOMAIN Policies : Open(v, j) = Open(w, j) \ {o}
           /\ \A j \in DOMAIN Policies : \A x \in Open(v, j) : x.participant # p
           /\ v.led.reserves = w.led.reserves
<1> PICK g, measured : /\ Commit(w.led, Policies[i].budgets, o, g, measured).disposition = "ok"
                       /\ v.led = Commit(w.led, Policies[i].budgets, o, g, measured).ledger
  BY DEF Closed
<1>a. /\ i = PolicyOf(p) /\ o = Operation(p, w.st[p]) /\ OneFurther(w.st[p], v.st[p])
      /\ \A q \in Participants \ {p} : v.st[q] = w.st[q]
  BY DEF Closed
<1> DEFINE r == Commit(w.led, Policies[i].budgets, o, g, measured)
<1>b. r = Commit(w.led, Policies[i].budgets, o, g, measured) /\ r.disposition = "ok" /\ v.led = r.ledger
  OBVIOUS
<1> HIDE DEF r
<1> USE <1>a, <1>b
<1>1. /\ o \in Operations /\ o.participant = p /\ o.segment = w.st[p].segment /\ o \notin w.led.commits
      /\ w.st[p].segment \in Nat
  BY OwnOperation, SnapshotParts DEF SchedulerStates
<1>2. Recorded(w) /\ Balanced(w) /\ i \in DOMAIN Policies
  BY PolicyIsUnique DEF Booked
<1> DEFINE B == Policies[i].budgets
           l == w.led
           m == [l EXCEPT !.budget = Committed(l.budget, B, measured), !.pool = Committed(l.pool, B, measured),
                          !.commits = l.commits \cup {o}]
<1>3. r.ledger = m
  <2> HIDE DEF m
  <2>1. r \in {Result("refused", l), Result("raised", l), Result("ok", m)}
    BY <1>1 DEF Commit, m
  <2> QED  BY <2>1 DEF Result
<1>4. /\ v.led.commits = l.commits \cup {o} /\ v.led.releases = l.releases /\ v.led.reserves = l.reserves
      /\ v.led.budget = Committed(l.budget, B, measured)
  <2>1. l \in Ledgers(Operations)
    BY SnapshotParts
  <2>2. /\ m.commits = l.commits \cup {o} /\ m.releases = l.releases /\ m.reserves = l.reserves
        /\ m.budget = Committed(l.budget, B, measured)
    BY <2>1 DEF Ledgers
  <2> HIDE DEF l, m
  <2> QED  BY <1>3, <2>2
<1> HIDE DEF m
<1>5. \A x \in l.reserves : /\ v.st[x.participant].segment = w.st[x.participant].segment
                            /\ x.participant # p => v.st[x.participant] = w.st[x.participant]
  BY ReservesTypes DEF OneFurther
<1>6. ASSUME NEW j \in DOMAIN Policies  PROVE  Open(v, j) = Open(w, j) \ {o}
  BY <1>4, <1>5 DEF Open
<1>7. ASSUME NEW j \in DOMAIN Policies, NEW x \in Open(v, j)  PROVE  x.participant # p
  <2>1. x \in Open(w, j) /\ x # o
    BY <1>6
  <2> QED  BY <1>2, <2>1 DEF Recorded
<1>8. Recorded(v)
  <2>1. IsFiniteSet(v.led.reserves) /\ v.led.releases \subseteq v.led.reserves
    BY <1>2, <1>4 DEF Recorded
  <2>2. \A x \in v.led.reserves : Governed(x.participant) /\ x.segment <= v.st[x.participant].segment
    BY <1>2, <1>4, <1>5 DEF Recorded
  <2>3. ASSUME NEW j \in DOMAIN Policies, NEW x \in Open(v, j)
        PROVE  x = Operation(x.participant, v.st[x.participant])
    <3>1. x \in Open(w, j) /\ x \in l.reserves /\ x.participant # p
      BY <1>6, <1>7 DEF Open
    <3> QED  BY <1>2, <1>5, <3>1 DEF Recorded
  <2> QED  BY <2>1, <2>2, <2>3 DEF Recorded
<1>9. Balanced(v)
  <2>1. \A j \in DOMAIN Policies : Held(v, j) = Held(w, j) \ {o}
    <3>1. \A j \in DOMAIN Policies : Held(v, j) = Open(v, j) \ l.releases /\ Held(w, j) = Open(w, j) \ l.releases
      BY <1>4, HeldIsOpen
    <3> QED  BY <1>6, <3>1
  <2>2. \A j \in DOMAIN Policies \ {i} : Held(v, j) = Held(w, j)
    <3>1. \A j \in DOMAIN Policies \ {i} : o \notin Held(w, j)
      BY <1>1 DEF Held
    <3> QED  BY <2>1, <3>1
  <2>3. B \in SUBSET Budgets /\ w.led.budget \in [Budgets -> Accounts]
    BY <1>2, PoliciesAssumption, SnapshotParts DEF Ledgers
  <2>4. \A b \in Budgets \ B : v.led.budget[b] = w.led.budget[b]
    BY <1>4, <2>3 DEF Committed
  <2>5. ASSUME NEW b \in B  PROVE  v.led.budget[b].reserved = Freed(b, w.led.budget[b])
    <3>1. w.led.budget[b] \in Accounts
      BY <2>3
    <3> DEFINE f == Freed(b, w.led.budget[b])
    <3>2. v.led.budget[b] = [w.led.budget[b] EXCEPT !.reserved = f, !.used = @ + measured[b]]
      BY <1>4, <2>3 DEF Committed
    <3> HIDE DEF f
    <3>3. v.led.budget[b].reserved = f
      BY <3>1, <3>2 DEF Accounts
    <3> QED  BY <3>3 DEF f
  <2> QED  BY <1>2, <2>1, <2>2, <2>4, <2>5, FreeingBalances
<1> QED  BY <1>4, <1>6, <1>7, <1>8, <1>9 DEF Booked

\* A release leaves its operation open.
LEMMA ReleaseBooked ==
    ASSUME NEW w \in Snapshots, Booked(w), Charged(w), NEW p \in Participants, Governed(p),
           NEW i, i = PolicyOf(p), NEW o, o = Operation(p, w.st[p]), NEW g,
           NEW v \in Snapshots, v.led = Release(w.led, Policies[i].budgets, o, g).ledger, v.st = w.st
    PROVE  Booked(v) /\ \A j \in DOMAIN Policies : Open(v, j) = Open(w, j)
<1>1. /\ o \in Operations /\ o.participant = p /\ o.segment = w.st[p].segment /\ o \notin w.led.commits
  BY OwnOperation
<1>2. Recorded(w) /\ Balanced(w) /\ i \in DOMAIN Policies
  BY PolicyIsUnique DEF Booked
<1> DEFINE B == Policies[i].budgets
           l == w.led
           m == [l EXCEPT !.budget = Released(l.budget, B), !.pool = Released(l.pool, B),
                          !.releases = l.releases \cup {o}]
<1>3. v.led = l \/ (v.led = m /\ o \in l.reserves /\ o \notin l.releases)
  BY DEF Release, Result
<1>4. CASE v.led = l
  <2>1. \A j \in DOMAIN Policies : Open(v, j) = Open(w, j) /\ Held(v, j) = Held(w, j)
    BY <1>4 DEF Open, Held
  <2> QED  BY <1>2, <1>4, <2>1 DEF Booked, Recorded, Balanced
<1>5. CASE v.led = m /\ o \in l.reserves /\ o \notin l.releases
  <2>1. /\ v.led.commits = l.commits /\ v.led.releases = l.releases \cup {o} /\ v.led.reserves = l.reserves
        /\ v.led.budget = Released(l.budget, B)
    <3>1. l \in Ledgers(Operations)
      BY SnapshotParts
    <3> QED  BY <1>5, <3>1 DEF Ledgers
  <2> HIDE DEF m
  <2>2. \A j \in DOMAIN Policies : Open(v, j) = Open(w, j)
    BY <2>1 DEF Open
  <2>3. Recorded(v)
    <3>1. l.releases \cup {o} \subseteq l.reserves
      BY <1>2, <1>5 DEF Recorded
    <3> QED  BY <1>2, <2>1, <2>2, <3>1 DEF Recorded
  <2>4. /\ o \in Held(w, i) /\ Held(v, i) = Held(w, i) \ {o}
        /\ \A j \in DOMAIN Policies \ {i} : Held(v, j) = Held(w, j)
    <3>1. o \in Held(w, i)
      BY <1>1, <1>5 DEF Held
    <3>2. Held(v, i) = Held(w, i) \ {o}
      BY <2>1 DEF Held
    <3>3. \A j \in DOMAIN Policies \ {i} : Held(v, j) = Held(w, j)
      BY <1>1, <2>1 DEF Held
    <3> QED  BY <3>1, <3>2, <3>3
  <2>5. B \in SUBSET Budgets /\ w.led.budget \in [Budgets -> Accounts]
    BY <1>2, PoliciesAssumption, SnapshotParts DEF Ledgers
  <2>6. \A b \in Budgets \ B : v.led.budget[b] = w.led.budget[b]
    BY <2>1, <2>5 DEF Released
  <2>7. ASSUME NEW b \in B  PROVE  v.led.budget[b].reserved = Freed(b, w.led.budget[b])
    <3>1. w.led.budget[b] \in Accounts
      BY <2>5
    <3> DEFINE f == Freed(b, w.led.budget[b])
    <3>2. v.led.budget[b] = [w.led.budget[b] EXCEPT !.reserved = f]
      BY <2>1, <2>5 DEF Released
    <3> HIDE DEF f
    <3>3. v.led.budget[b].reserved = f
      BY <3>1, <3>2 DEF Accounts
    <3> QED  BY <3>3 DEF f
  <2>8. Balanced(v)
    BY <1>2, <2>4, <2>6, <2>7, FreeingBalances
  <2> QED  BY <2>2, <2>3, <2>8 DEF Booked
<1> QED  BY <1>3, <1>4, <1>5

-----------------------------------------------------------------------------
(* Snapshots without open operations, and snapshots that stay               *)

LEMMA NothingOpen ==
    ASSUME NEW w, IsFiniteSet(w.led.reserves), w.led.releases \subseteq w.led.reserves,
           \A o \in w.led.reserves : Governed(o.participant) /\ o.segment <= w.st[o.participant].segment,
           \A i \in DOMAIN Policies : Open(w, i) = {},
           \A i \in DOMAIN Policies : \A b \in Policies[i].budgets : w.led.budget[b].reserved = 0
    PROVE  Booked(w) /\ Quiet(w)
<1>1. Recorded(w)
  BY DEF Recorded
<1>2. Quiet(w)
  BY DEF Quiet
<1>3. ASSUME NEW i \in DOMAIN Policies, NEW b \in Policies[i].budgets
      PROVE  w.led.budget[b].reserved = Budget[b].demand * Cardinality(Held(w, i))
  <2>1. Held(w, i) = {}
    BY HeldIsOpen
  <2>2. Cardinality(Held(w, i)) = 0
    BY <2>1, FS_EmptySet
  <2>3. Budget[b].demand \in Nat
    BY PoliciesAssumption, BudgetTypes
  <2>4. Budget[b].demand * 0 = 0
    BY <2>3, Multiples
  <2> QED  BY <2>2, <2>4
<1>4. Balanced(w)
  BY <1>3 DEF Balanced
<1> QED  BY <1>1, <1>2, <1>4 DEF Booked

LEMMA InitialBooked ==
    ASSUME NEW w \in InitialSnapshots
    PROVE  Booked(w) /\ Quiet(w) /\ \A i \in DOMAIN Policies : Open(w, i) = {}
<1>1. w.led = InitialLedger
  <2> DEFINE clock == [state |-> "running", segment |-> 0, tick |-> 0]
             svc == [i \in DOMAIN Policies |-> [life |-> "running", health |-> "healthy", generation |-> 0,
                                               inFlight |-> 0, quiescent |-> TRUE]]
  <2>1. PICK st : w = [clock |-> clock, st |-> st, led |-> InitialLedger, svc |-> svc]
    BY DEF InitialSnapshots
  <2> HIDE DEF svc, clock
  <2> QED  BY <2>1
<1>2. w.led.reserves = {} /\ w.led.releases = {} /\ \A b \in Budgets : w.led.budget[b].reserved = 0
  BY <1>1 DEF InitialLedger, Fresh
<1>3. \A i \in DOMAIN Policies : Open(w, i) = {}
  BY <1>2 DEF Open
<1>4. \A i \in DOMAIN Policies : \A b \in Policies[i].budgets : w.led.budget[b].reserved = 0
  BY <1>2, PoliciesAssumption
<1> QED  BY <1>2, <1>3, <1>4, FS_EmptySet, NothingOpen

\* A reset closes what was open, since it leaves everyone in a new segment.
LEMMA ResetBooked ==
    ASSUME NEW w \in Snapshots, Sound(w), Recorded(w), \A p \in Participants : w.st[p].segment < w.clock.segment,
           NEW v \in ResetSnapshots(w)
    PROVE  Booked(v) /\ Quiet(v)
<1>1. v \in Snapshots /\ v.clock = w.clock /\ w.clock.segment \in Nat
  BY ResetSnapshotTypes, SnapshotParts
<1>2. PICK st \in StatesFrom(LAMBDA p : ResetStates(p, w.clock)) :
          v = [w EXCEPT !.st = st, !.led = ReconcileAll(w).ledger,
                        !.svc = [i \in DOMAIN Policies |-> ResetService(w.svc[i])]]
  BY DEF ResetSnapshots
<1>3. v.st = st /\ v.led = ReconcileAll(w).ledger
  BY <1>2 DEF Snapshots
<1>4. \A p \in Participants : st[p] \in ResetStates(p, w.clock)
  BY DEF StatesFrom
<1>5. \A p \in Participants : v.st[p].segment = w.clock.segment
  BY <1>3, <1>4, StateMoves
<1>6. /\ v.led.reserves = w.led.reserves /\ v.led.releases = w.led.releases
      /\ \A i \in DOMAIN Policies : \A b \in Policies[i].budgets : v.led.budget[b].reserved = 0
  BY <1>3, ReconcileAllSucceeds DEF Sound, Events
<1>7. ASSUME NEW o \in w.led.reserves
      PROVE  /\ Governed(o.participant) /\ o.segment < v.st[o.participant].segment
             /\ o.segment \in Nat /\ v.st[o.participant].segment \in Nat
  <2>1. /\ o.participant \in Participants /\ o.segment \in Nat /\ w.st[o.participant].segment \in Nat
        /\ Governed(o.participant) /\ o.segment <= w.st[o.participant].segment
    BY ReservesTypes DEF Recorded
  <2>2. w.st[o.participant].segment < w.clock.segment /\ v.st[o.participant].segment = w.clock.segment
    BY <1>5, <2>1
  <2> QED  BY <1>1, <2>1, <2>2
<1>8. \A i \in DOMAIN Policies : Open(v, i) = {}
  BY <1>6, <1>7 DEF Open
<1>9. /\ IsFiniteSet(v.led.reserves) /\ v.led.releases \subseteq v.led.reserves
      /\ \A o \in v.led.reserves : Governed(o.participant) /\ o.segment <= v.st[o.participant].segment
  BY <1>6, <1>7 DEF Recorded
<1> QED  BY <1>6, <1>8, <1>9, NothingOpen

LEMMA SameStays ==
    ASSUME NEW w, NEW v, v.led = w.led, v.st = w.st
    PROVE  Stays(w, v)
BY DEF Stays, SameCourse

LEMMA LifecycleStays ==
    ASSUME NEW w \in Snapshots, NEW life \in {"running", "paused"}
    PROVE  /\ Stays(w, ClockLifecycle(w, life))
           /\ \A p \in Participants : SameCourse(w.st[p], ClockLifecycle(w, life).st[p])
<1> DEFINE v == ClockLifecycle(w, life)
<1>1. v.led = w.led
  BY DEF ClockLifecycle, Snapshots
<1>2. ASSUME NEW p \in Participants  PROVE  SameCourse(w.st[p], v.st[p])
  <2>1. w.st[p] \in SchedulerStates
    BY SnapshotParts
  <2>2. v.st[p] = IF w.st[p].life \notin Terminal THEN [w.st[p] EXCEPT !.life = life] ELSE w.st[p]
    BY DEF ClockLifecycle, Snapshots
  <2> HIDE DEF v
  <2>3. CASE w.st[p].life \notin Terminal
    <3>1. /\ v.st[p].segment = w.st[p].segment /\ v.st[p].occurrence = w.st[p].occurrence
          /\ v.st[p].retry = w.st[p].retry /\ v.st[p].attempted = w.st[p].attempted
          /\ v.st[p].next = w.st[p].next /\ v.st[p].life = life
      BY <2>1, <2>2, <2>3 DEF SchedulerStates
    <3>2. life \notin Terminal
      BY DEF Terminal
    <3> QED  BY <2>3, <3>1, <3>2 DEF SameCourse
  <2>4. CASE w.st[p].life \in Terminal
    BY <2>2, <2>4 DEF SameCourse
  <2> QED  BY <2>3, <2>4
<1> HIDE DEF v
<1>3. Stays(w, v)
  BY <1>1, <1>2 DEF Stays
<1> QED  BY <1>2, <1>3 DEF v

LEMMA PacingFailureStays ==
    ASSUME NEW w \in Snapshots
    PROVE  Stays(w, PacingFailure(w))
<1>1. PacingFailure(w).led = w.led /\ PacingFailure(w).st = w.st
  BY DEF PacingFailure, Snapshots
<1> QED  BY <1>1, SameStays

\* A clock that was moved and read back as agreeing with the participants has gone on
\* in their segment.
LEMMA StayingQuietInTime ==
    ASSUME NEW w \in Snapshots, NEW v \in Snapshots, Stays(w, v), Recorded(w), Quiet(w), Stepped(w),
           ReadbackValid(v), v.clock.segment = w.clock.segment => w.clock.tick <= v.clock.tick
    PROVE  Quiet(v)
<1>1. CASE \A i \in DOMAIN Policies : Open(v, i) = {}
  BY <1>1 DEF Quiet
<1>2. CASE \E i \in DOMAIN Policies : Open(v, i) # {}
  <2>1. PICK i \in DOMAIN Policies : Open(v, i) # {}
    BY <1>2
  <2> PICK o \in Open(v, i) : TRUE
    BY <2>1
  <2>2. o \in w.led.reserves
    BY DEF Open, Stays
  <2>3. o.participant \in Participants /\ Governed(o.participant)
    BY <2>2, ReservesTypes DEF Recorded
  <2>4. v.st[o.participant].segment = w.st[o.participant].segment
    BY <2>3 DEF Stays, SameCourse
  <2>5. v.clock.segment = w.clock.segment
    BY <2>3, <2>4 DEF ReadbackValid, Stepped, Agreeing
  <2> QED  BY <2>5, StayingQuiet
<1> QED  BY <1>1, <1>2

-----------------------------------------------------------------------------
(* The parts of BalanceInv, for any pass and any published snapshot         *)

Entered(w) == ~IsBlank(w) => Booked(w)

Working(x) == x.pc \in {"due", "flight"}
TurnOf(x, k) == Policies[x.pol].participants[k]
Past(x, p) ==
    \/ PolicyOf(p) < x.pol
    \/ /\ PolicyOf(p) = x.pol
       /\ Governed(p) => \A k \in x.todo : TurnOf(x, k) # p
Before(x, i) == IF IsBlank(x.pred) THEN {} ELSE Open(x.pred, i)
InFlight(x)  == {Operation(p, x.work.st[p]) : p \in IF x.pc = "flight" THEN x.fly ELSE {}} \ x.work.led.releases
Moves(x, clock) ==
    clock.segment = x.pred.clock.segment =>
        clock.tick >= x.pred.clock.tick /\ (x.op # "pause" => clock.state = "running")

Begun(x, s) ==
    x.pc = "sync" => /\ Moves(x, s.clock)
                     /\ \A p \in Participants : SameCourse(x.pred.st[p], s.st[p])
                     /\ s.led = x.pred.led
Opening(x) ==
    Working(x) /\ ~x.failed => \A i \in DOMAIN Policies : Open(x.work, i) \subseteq Before(x, i) \cup InFlight(x)
Controlling(x) == Working(x) /\ ~x.failed /\ x.op \notin {"run_due", "apply"}
Going(x) ==
    Controlling(x) =>
        /\ Moves(x, x.work.clock) /\ x.pred.led.reserves \subseteq x.work.led.reserves
        /\ \A i \in DOMAIN Policies : \A o \in Open(x.work, i) \cap Before(x, i) :
               SameCourse(x.pred.st[o.participant], x.work.st[o.participant])
        /\ \A p \in Participants :
               Governed(p) /\ (x.pol < PolicyOf(p) \/ ~Accepts(x.work, PolicyOf(p))) =>
                   SameCourse(x.pred.st[p], x.work.st[p])
Turned(x) ==
    /\ Working(x) /\ x.todo # {} => Accepts(x.work, x.pol)
    /\ Working(x) /\ ~x.failed =>
           \A p \in Participants : Past(x, p) /\ Governed(p) /\ Accepts(x.work, PolicyOf(p)) => ~Due(x.work, p)
    /\ x.pc = "flight" => \A p \in x.fly : Governed(p) =>
           x.todo # {} /\ p = TurnOf(x, Min(x.todo)) /\ Due(x.work, p)

QuietPass(x, s) ==
    /\ ~IsBlank(x.pred) => Quiet(x.pred)
    /\ x.op \in {"run_due", "apply"} => Quiet(x.work)
    /\ x.pc = "conclude" /\ ~x.failed /\ ReadbackValid(s) => Quiet(s)

Balances(x, s) ==
    x.pc # "free" =>
        /\ Entered(x.pred) /\ Entered(x.work) /\ Entered(x.base) /\ QuietPass(x, s)
        /\ Begun(x, s) /\ Opening(x) /\ Going(x) /\ Turned(x)
Resting(x, s, r, d) ==
    /\ Entered(s) /\ Entered(r)
    /\ x.pc = "free" /\ ~IsBlank(s) => Quiet(s)
    /\ d = "publishing" => Quiet(r)

LEMMA BalanceParts ==
    /\ BalanceInv <=> (~log.torn => Balances(pass, snap) /\ Resting(pass, snap, read, driver))
    /\ BalanceInv' <=> (~log'.torn => Balances(pass', snap') /\ Resting(pass', snap', read', driver'))
<1>1. /\ (\A w \in Kept : Recorded(w) /\ Balanced(w)) <=>
             /\ Entered(snap) /\ Entered(read)
             /\ ~Free => Entered(pass.pred) /\ Entered(pass.work) /\ Entered(pass.base)
      /\ (\A w \in Kept : Recorded(w) /\ Balanced(w))' <=>
             /\ Entered(snap') /\ Entered(read')
             /\ ~Free' => Entered(pass'.pred) /\ Entered(pass'.work) /\ Entered(pass'.base)
  BY DEF Kept, Entered, Booked
<1>2. /\ Free <=> pass.pc = "free"
      /\ Free' <=> pass'.pc = "free"
  BY DEF Free
<1>3. /\ KeptQuiet <=> /\ ~Free => QuietPass(pass, snap)
                       /\ Free /\ ~IsBlank(snap) => Quiet(snap)
                       /\ driver = "publishing" => Quiet(read)
      /\ KeptQuiet' <=> /\ ~Free' => QuietPass(pass', snap')
                        /\ Free' /\ ~IsBlank(snap') => Quiet(snap')
                        /\ driver' = "publishing" => Quiet(read')
  BY DEF KeptQuiet, QuietPass, Free
<1>4. /\ TimeGoesOn <=> Begun(pass, snap) /\ Opening(pass) /\ Going(pass)
      /\ TimeGoesOn' <=> Begun(pass', snap') /\ Opening(pass') /\ Going(pass')
  <2>1. /\ \A i : OpenBefore(i) = Before(pass, i)
        /\ \A i : OpenBefore(i)' = Before(pass', i)
        /\ OpenInFlight = InFlight(pass)
        /\ OpenInFlight' = InFlight(pass')
    BY DEF OpenBefore, Before, OpenInFlight, InFlight, Flying
  <2> QED  BY <2>1 DEF TimeGoesOn, Begun, Opening, Going, Controlling, Working, GoesOn, Moves
<1>5. /\ \A p : PassedBy(p) <=> Past(pass, p)
      /\ \A p : PassedBy(p)' <=> Past(pass', p)
      /\ \A k : Peer(k) = TurnOf(pass, k)
      /\ \A k : Peer(k)' = TurnOf(pass', k)
  BY DEF PassedBy, Past, Peer, TurnOf
<1>6. /\ Serviced <=> Turned(pass)
      /\ Serviced' <=> Turned(pass')
  BY <1>5 DEF Serviced, Turned, Working
<1>7. /\ ~Free \/ (Begun(pass, snap) /\ Opening(pass) /\ Going(pass) /\ Turned(pass))
      /\ ~Free' \/ (Begun(pass', snap') /\ Opening(pass') /\ Going(pass') /\ Turned(pass'))
  BY <1>2 DEF Begun, Opening, Going, Controlling, Turned, Working
<1> QED  BY <1>1, <1>2, <1>3, <1>4, <1>6, <1>7 DEF BalanceInv, Balances, Resting

-----------------------------------------------------------------------------
(* Steps of a pass that leave its snapshot alone, or its governed work      *)

LEMMA WorkKeepsBalance ==
    ASSUME BalanceInv, Working(pass), Working(pass'), pass'.op = pass.op, pass'.pred = pass.pred,
           pass'.base \in {Blank, pass.work, pass.base},
           UNCHANGED <<snap, driver, read>>, log'.torn = log.torn,
           ~log.torn => /\ Entered(pass'.work) /\ Opening(pass') /\ Going(pass') /\ Turned(pass')
                        /\ pass.op \in {"run_due", "apply"} => Quiet(pass'.work)
    PROVE  BalanceInv'
<1> SUFFICES ASSUME ~log.torn  PROVE  Balances(pass', snap') /\ Resting(pass', snap', read', driver')
  BY BalanceParts
<1>1. Balances(pass, snap) /\ Resting(pass, snap, read, driver)
  BY BalanceParts
<1>2. pass.pc \notin {"free", "sync", "conclude"} /\ pass'.pc \notin {"free", "sync", "conclude"}
  BY DEF Working
<1>3. Entered(pass.pred) /\ Entered(pass.work) /\ Entered(pass.base) /\ QuietPass(pass, snap)
  BY <1>1, <1>2 DEF Balances
<1>4. Entered(pass'.base)
  BY <1>3, Blanks DEF Entered
<1>5. QuietPass(pass', snap')
  BY <1>2, <1>3 DEF QuietPass
<1>6. Begun(pass', snap')
  BY <1>2 DEF Begun
<1>7. Balances(pass', snap')
  BY <1>3, <1>4, <1>5, <1>6 DEF Balances
<1>8. Resting(pass', snap', read', driver')
  BY <1>1, <1>2 DEF Resting
<1> QED  BY <1>7, <1>8

LEMMA WorkIsBooked ==
    ASSUME FlightInv, BalanceInv, ~log.torn, Working(pass)
    PROVE  /\ pass \in Passes /\ pass.work \in Snapshots /\ ~IsBlank(pass.work) /\ Booked(pass.work)
           /\ ~Free /\ Opening(pass) /\ Going(pass) /\ Turned(pass) /\ QuietPass(pass, snap)
           /\ Entered(pass.pred) /\ Entered(pass.base)
           /\ pass.op \in {"run_due", "apply"} => Quiet(pass.work)
<1>1. pass.pc # "free" /\ ~Free
  BY DEF Working, Free
<1>2. pass \in Passes /\ pass.work \in Snapshots /\ ~IsBlank(pass.work)
  BY <1>1, PassParts, Blanks DEF FlightInv
<1>3. Balances(pass, snap)
  BY BalanceParts
<1> QED  BY <1>1, <1>2, <1>3 DEF Balances, Entered, QuietPass

\* Steps that change what is left of a pass, but not its snapshot.
LEMMA CourseKeepsBalance ==
    ASSUME FlightInv, BalanceInv, pass.pc = "due",
           NEW pol \in Nat, NEW todo, NEW batch, NEW failed,
           pass' = [pass EXCEPT !.pol = pol, !.todo = todo, !.batch = batch, !.failed = failed],
           pass.pol <= pol, ~log.torn /\ todo # {} => Accepts(pass.work, pol),
           ~failed => /\ ~pass.failed
                      /\ ~log.torn => \A p \in Participants :
                             Past(pass', p) /\ Governed(p) /\ Accepts(pass.work, PolicyOf(p)) =>
                                 Past(pass, p) \/ ~Due(pass.work, p),
           UNCHANGED <<snap, driver, read, log>>
    PROVE  BalanceInv'
<1>1. pass \in Passes /\ pass.pol \in Nat
  BY PassParts DEF FlightInv, Free
<1>2. /\ pass'.pc = "due" /\ pass'.op = pass.op /\ pass'.pred = pass.pred /\ pass'.work = pass.work
      /\ pass'.failed = failed /\ pass'.pol = pol /\ pass'.todo = todo /\ pass'.base = pass.base
  BY <1>1 DEF Passes
<1>3. Working(pass) /\ Working(pass')
  BY <1>2 DEF Working
<1>4. ASSUME ~log.torn
      PROVE  /\ Entered(pass'.work) /\ Opening(pass') /\ Going(pass') /\ Turned(pass')
             /\ pass.op \in {"run_due", "apply"} => Quiet(pass'.work)
  <2>1. /\ Booked(pass.work) /\ Opening(pass) /\ Going(pass) /\ Turned(pass)
        /\ pass.op \in {"run_due", "apply"} => Quiet(pass.work)
    BY <1>3, <1>4, WorkIsBooked
  <2>2. Entered(pass'.work) /\ (pass.op \in {"run_due", "apply"} => Quiet(pass'.work))
    BY <1>2, <2>1 DEF Entered
  <2>3. Opening(pass')
    <3>1. \A i : Before(pass', i) = Before(pass, i)
      BY <1>2 DEF Before
    <3>2. InFlight(pass') = InFlight(pass)
      BY <1>2 DEF InFlight
    <3> QED  BY <1>2, <1>3, <2>1, <3>1, <3>2 DEF Opening
  <2>4. Going(pass')
    <3>1. \A i : Before(pass', i) = Before(pass, i)
      BY <1>2 DEF Before
    <3>2. Controlling(pass') => Controlling(pass)
      BY <1>2, <1>3 DEF Controlling
    <3>3. \A p \in Participants : pol < PolicyOf(p) => pass.pol < PolicyOf(p)
      BY <1>1, PolicyIsUnique, PolicyTypes
    <3> QED  BY <1>2, <2>1, <3>1, <3>2, <3>3 DEF Going, Moves
  <2>5. Turned(pass')
    BY <1>2, <1>3, <1>4, <2>1 DEF Turned
  <2> QED  BY <2>2, <2>3, <2>4, <2>5
<1> QED  BY <1>2, <1>3, <1>4, WorkKeepsBalance

LEMMA FailKeepsBalance ==
    ASSUME FlightInv, BalanceInv, pass.pc = "due", Fail, UNCHANGED <<snap, driver, read, log>>
    PROVE  BalanceInv'
<1>1. pass \in Passes /\ pass.pol \in Nat
  BY PassParts DEF FlightInv, Free
<1> DEFINE pol == pass.pol
           failed == TRUE
<1>2. pass' = [pass EXCEPT !.pol = pol, !.todo = pass.todo, !.batch = pass.batch, !.failed = failed]
  BY <1>1 DEF Fail, Passes
<1>3. /\ ~log.torn /\ pass.todo # {} => Accepts(pass.work, pol)
      /\ pol \in Nat /\ pass.pol <= pol /\ (~failed => FALSE)
  BY <1>1, WorkIsBooked DEF Working, Turned
<1> HIDE DEF pol, failed
<1> QED  BY <1>2, <1>3, CourseKeepsBalance

LEMMA EnterPolicyKeepsBalance ==
    ASSUME FlightInv, BalanceInv, EnterPolicy
    PROVE  BalanceInv'
<1> DEFINE i == pass.pol + 1
           due == DueParticipants(pass.work, i)
           concurrent == Policies[i].profile = "v1" /\ Cardinality(due) >= 2 /\ Policies[i].maxInFlight >= 2
           all == DOMAIN Policies[i].participants
           todo == IF concurrent THEN due ELSE all
<1>1. pass.pc = "due" /\ pass.todo = {} /\ pass.failed = FALSE /\ pass.pol < Len(Policies)
      /\ pass \in Passes /\ pass.work \in Snapshots /\ pass.pol \in Nat /\ pass.batch = FALSE
      /\ UNCHANGED <<snap, driver, read, log>>
  <2>1. pass.pc = "due" /\ ~Free /\ pass.todo = {} /\ ~pass.failed /\ ~pass.batch /\ pass.pol < Len(Policies)
        /\ UNCHANGED <<snap, driver, read, log>>
    BY DEF EnterPolicy, Selecting, Free
  <2> QED  BY <2>1, PassParts DEF FlightInv
<1>2. i \in DOMAIN Policies /\ i \in Nat /\ pass.pol <= i
  BY <1>1, PolicyTypes
<1>3. ASSUME NEW p \in Participants, PolicyOf(p) < i  PROVE  Past(pass, p)
  <2>1. PolicyOf(p) \in Nat
    BY PolicyIsUnique, PolicyTypes
  <2>2. PolicyOf(p) <= pass.pol
    BY <1>1, <1>3, <2>1
  <2> QED  BY <1>1, <2>1, <2>2 DEF Past
<1>4. ASSUME NEW p \in Participants, Past(pass', p), pass'.pol = i  PROVE  Past(pass, p) \/ PolicyOf(p) = i
  BY <1>3, <1>4 DEF Past
<1>5. \/ pass' = [pass EXCEPT !.pol = i] /\ ~Accepts(pass.work, i)
      \/ Fail
      \/ pass' = [pass EXCEPT !.pol = i, !.batch = concurrent, !.todo = todo] /\ Accepts(pass.work, i)
  BY Zenon DEF EnterPolicy
<1>6. CASE pass' = [pass EXCEPT !.pol = i] /\ ~Accepts(pass.work, i)
  <2> HIDE DEF i
  <2> DEFINE failed == FALSE
  <2>1. pass' = [pass EXCEPT !.pol = i, !.todo = pass.todo, !.batch = pass.batch, !.failed = failed] /\ pass'.pol = i
    BY <1>1, <1>6 DEF Passes
  <2>2. ASSUME NEW p \in Participants, Past(pass', p), Accepts(pass.work, PolicyOf(p))  PROVE  Past(pass, p)
    BY <1>4, <1>6, <2>1, <2>2
  <2>3. (pass.todo # {} => FALSE) /\ (failed <=> pass.failed)
    BY <1>1
  <2> HIDE DEF failed
  <2> QED  BY <1>1, <1>2, <2>1, <2>2, <2>3, CourseKeepsBalance
<1>7. CASE Fail
  BY <1>1, <1>7, FailKeepsBalance
<1>8. CASE pass' = [pass EXCEPT !.pol = i, !.batch = concurrent, !.todo = todo] /\ Accepts(pass.work, i)
  <2> HIDE DEF i, concurrent, todo
  <2> DEFINE failed == FALSE
  <2>1. pass' = [pass EXCEPT !.pol = i, !.todo = todo, !.batch = concurrent, !.failed = failed]
        /\ pass'.pol = i /\ pass'.todo = todo
    BY <1>1, <1>8 DEF Passes
  <2>2. ASSUME NEW p \in Participants, Past(pass', p), Governed(p), PolicyOf(p) = i  PROVE  FALSE
    <3>1. p \in ToSet(Policies[i].participants) /\ Policies[i].profile = "v3"
      BY <1>2, <2>2, PolicyIsUnique DEF Governed
    <3>2. todo = all
      BY <3>1 DEF todo, concurrent
    <3>3. PICK k \in all : Policies[i].participants[k] = p
      BY <3>1 DEF ToSet
    <3>4. TurnOf(pass', k) = p
      BY <2>1, <3>3 DEF TurnOf
    <3>5. ~(i < i)
      BY <1>2
    <3> QED  BY <2>1, <2>2, <3>2, <3>3, <3>4, <3>5 DEF Past
  <2>3. ASSUME NEW p \in Participants, Past(pass', p), Governed(p)  PROVE  Past(pass, p)
    BY <1>4, <2>1, <2>2, <2>3
  <2>4. failed <=> pass.failed
    BY <1>1
  <2> HIDE DEF failed
  <2>5. /\ pass.pc = "due" /\ i \in Nat /\ pass.pol <= i /\ Accepts(pass.work, i) /\ ~pass.failed
        /\ UNCHANGED <<snap, driver, read, log>>
    BY <1>1, <1>2, <1>8
  <2>6. pass' = [pass EXCEPT !.pol = i, !.todo = todo, !.batch = concurrent, !.failed = failed]
    BY <2>1
  <2> QED  BY <2>3, <2>5, <2>6, CourseKeepsBalance
<1> QED  BY <1>5, <1>6, <1>7, <1>8

LEMMA SelectionKeepsBalance ==
    ASSUME FlightInv, BalanceInv,
           FailBeforeDispatch \/ LeaveBatches \/ \E p \in Participants : CadenceMissed(p)
    PROVE  BalanceInv'
<1>1. pass.pc = "due" /\ pass \in Passes /\ ~pass.failed /\ pass.pol \in Nat /\ UNCHANGED <<snap, driver, read, log>>
  <2>1. pass.pc = "due" /\ ~Free /\ ~pass.failed /\ UNCHANGED <<snap, driver, read, log>>
    BY DEF FailBeforeDispatch, LeaveBatches, CadenceMissed, Serial, Selecting, Free
  <2> QED  BY <2>1, PassParts DEF FlightInv
<1>2. CASE LeaveBatches
  <2> DEFINE pol == pass.pol
  <2>1. pass' = [pass EXCEPT !.pol = pol, !.todo = pass.todo, !.batch = FALSE, !.failed = pass.failed]
        /\ pass'.pol = pass.pol /\ pass'.todo = pass.todo
    BY <1>1, <1>2 DEF LeaveBatches, Passes
  <2>2. ASSUME NEW p \in Participants, Past(pass', p)  PROVE  Past(pass, p)
    BY <2>1, <2>2 DEF Past, TurnOf
  <2>3. ~log.torn /\ pass.todo # {} => Accepts(pass.work, pol)
    BY <1>1, WorkIsBooked DEF Working, Turned
  <2>4. pol \in Nat /\ pass.pol <= pol
    BY <1>1
  <2> HIDE DEF pol
  <2> QED  BY <1>1, <2>1, <2>2, <2>3, <2>4, CourseKeepsBalance
<1>3. CASE Fail
  BY <1>1, <1>3, FailKeepsBalance
<1> QED  BY <1>2, <1>3 DEF FailBeforeDispatch, CadenceMissed

\* Passing one more participant by leaves the others of the policy to be serviced.
LEMMA OneIsPast ==
    ASSUME FlightInv, NEW p \in Participants, Serial(p), pass'.pol = pass.pol, pass'.todo = Rest,
           NEW q \in Participants, Past(pass', q)
    PROVE  Past(pass, q) \/ q = p
BY OneIsPassed DEF PassedBy, Past, Peer, TurnOf

LEMMA SkipKeepsBalance ==
    ASSUME FlightInv, BalanceInv, NEW p \in Participants, SkipParticipant(p)
    PROVE  BalanceInv'
<1>1. /\ Serial(p) /\ ~Due(pass.work, p) /\ pass' = [pass EXCEPT !.todo = Rest]
      /\ UNCHANGED <<snap, driver, read, log>>
  BY DEF SkipParticipant
<1>2. pass.pc = "due" /\ pass \in Passes /\ pass.failed = FALSE /\ pass.pol \in Nat /\ pass.todo # {}
  <2>1. pass.pc = "due" /\ pass \in Passes /\ pass.failed = FALSE /\ pass.pol \in DOMAIN Policies
    BY <1>1, SerialParts
  <2> QED  BY <1>1, <2>1, PolicyTypes DEF Serial
<1> DEFINE pol == pass.pol
<1>3. pass' = [pass EXCEPT !.pol = pol, !.todo = Rest, !.batch = pass.batch, !.failed = pass.failed]
      /\ pass'.pol = pass.pol /\ pass'.todo = Rest
  BY <1>1, <1>2 DEF Passes
<1>4. ASSUME NEW q \in Participants, Past(pass', q)  PROVE  Past(pass, q) \/ ~Due(pass.work, q)
  BY <1>1, <1>3, <1>4, OneIsPast
<1>5. ~log.torn => Accepts(pass.work, pol)
  BY <1>2, WorkIsBooked DEF Working, Turned
<1>6. pol \in Nat /\ pass.pol <= pol /\ pass.failed = FALSE /\ UNCHANGED <<snap, driver, read, log>>
  BY <1>1, <1>2
<1> HIDE DEF pol
<1> QED  BY <1>2, <1>3, <1>4, <1>5, <1>6, CourseKeepsBalance

\* What a v1 policy does is beside governed work and its record.
Beside(w, v) ==
    /\ v.led = w.led /\ v.clock = w.clock
    /\ \A p \in Participants : Governed(p) => v.st[p] = w.st[p]
    /\ \A i \in DOMAIN Policies : v.svc[i].life = w.svc[i].life
NoneGoverned(x) == x.pc = "flight" => \A p \in x.fly : ~Governed(p)

LEMMA AsideKeepsBalance ==
    ASSUME FlightInv, BalanceInv, Working(pass), ~pass.failed, NoneGoverned(pass),
           Working(pass'), pass'.op = pass.op, pass'.pred = pass.pred, pass'.pol = pass.pol,
           pass'.base \in {Blank, pass.work, pass.base}, pass'.work \in Snapshots, Beside(pass.work, pass'.work),
           pass'.todo # {} => pass.todo # {}, pass.pol \in DOMAIN Policies,
           \A p \in Participants : Governed(p) /\ Past(pass', p) => Past(pass, p), NoneGoverned(pass'),
           UNCHANGED <<snap, driver, read>>, log'.torn = log.torn
    PROVE  BalanceInv'
<1> DEFINE w == pass.work
           v == pass'.work
<1>1. ASSUME ~log.torn
      PROVE  /\ Entered(v) /\ Opening(pass') /\ Going(pass') /\ Turned(pass')
             /\ pass.op \in {"run_due", "apply"} => Quiet(v)
  <2>1. /\ w \in Snapshots /\ Booked(w) /\ Opening(pass) /\ Going(pass) /\ Turned(pass)
        /\ pass.op \in {"run_due", "apply"} => Quiet(w)
    BY <1>1, WorkIsBooked
  <2>2. Stays(w, v) /\ Recorded(w) /\ Balanced(w)
    BY <2>1 DEF Stays, SameCourse, Beside, Booked
  <2>3. (\A i \in DOMAIN Policies : Open(v, i) = Open(w, i)) /\ Booked(v)
    BY <2>1, <2>2, StayingBooked DEF Booked
  <2>4. Quiet(w) => Quiet(v)
    <3>1. w.clock.tick <= v.clock.tick
      BY <2>1, SnapshotParts DEF Beside
    <3> QED  BY <2>1, <2>2, <3>1, StayingQuiet
  <2>5. \A i \in DOMAIN Policies : Before(pass', i) = Before(pass, i)
    BY DEF Before
  <2>6. \A i \in DOMAIN Policies : Open(w, i) \subseteq Before(pass, i)
    <3> SUFFICES ASSUME NEW i \in DOMAIN Policies, NEW o \in Open(w, i), o \in InFlight(pass)  PROVE  FALSE
      BY <2>1 DEF Opening
    <3>1. Governed(o.participant)
      BY <2>2 DEF Open, Recorded
    <3>2. pass.pc = "flight" /\ \E p \in pass.fly : o = Operation(p, w.st[p])
      BY DEF InFlight
    <3> QED  BY <3>1, <3>2 DEF Operation, NoneGoverned
  <2>7. Opening(pass')
    BY <2>3, <2>5, <2>6 DEF Opening
  <2>8. \A i \in DOMAIN Policies : Accepts(v, i) <=> Accepts(w, i)
    BY DEF Beside, Accepts
  <2>9. Going(pass')
    <3>1. Controlling(pass') => Controlling(pass)
      BY DEF Controlling
    <3>2. \A i \in DOMAIN Policies : \A o \in Open(w, i) : v.st[o.participant] = w.st[o.participant]
      <4>1. \A i \in DOMAIN Policies : \A o \in Open(w, i) : o \in w.led.reserves
        BY DEF Open
      <4> QED  BY <2>1, <2>2, <4>1, ReservesTypes DEF Recorded, Beside
    <3>3. \A p \in Participants : Governed(p) => v.st[p] = w.st[p]
      BY DEF Beside
    <3>4. v.led = w.led /\ v.clock = w.clock
      BY DEF Beside
    <3>5. \A p \in Participants : Accepts(v, PolicyOf(p)) <=> Accepts(w, PolicyOf(p))
      BY <2>8, PolicyIsUnique
    <3> HIDE DEF w, v
    <3> QED  BY <2>1, <2>3, <2>5, <3>1, <3>2, <3>3, <3>4, <3>5 DEF Going, Moves, w, v
  <2>10. Turned(pass')
    <3>1. \A p \in Participants : Accepts(v, PolicyOf(p)) <=> Accepts(w, PolicyOf(p))
      BY <2>8, PolicyIsUnique
    <3>2. \A p \in Participants : Governed(p) => (Due(v, p) <=> Due(w, p))
      BY DEF Due, Beside
    <3>3. pass'.todo # {} => Accepts(v, pass'.pol)
      BY <2>1, <2>8 DEF Turned
    <3>4. \A p \in Participants : Past(pass', p) /\ Governed(p) /\ Accepts(v, PolicyOf(p)) => ~Due(v, p)
      BY <2>1, <3>1, <3>2 DEF Turned
    <3> QED  BY <3>3, <3>4 DEF Turned, NoneGoverned
  <2> QED  BY <2>1, <2>3, <2>4, <2>7, <2>9, <2>10 DEF Entered
<1> QED  BY <1>1, WorkKeepsBalance

LEMMA SubmitBatchKeepsBalance ==
    ASSUME FlightInv, FlightInv', BalanceInv, SubmitBatch
    PROVE  BalanceInv'
<1> DEFINE chunk == First(pass.todo, BatchSize)
           fly == {Peer(k) : k \in chunk}
           work == ReserveBatch(pass.work, pass.pol, fly)
           todo == pass.todo \ chunk
<1>1. /\ pass.pc = "due" /\ ~Free /\ ~pass.failed /\ pass.batch /\ Submit(fly, work, todo)
      /\ UNCHANGED <<snap, driver, read>>
  BY DEF SubmitBatch, Selecting, Free
<1>2. todo \subseteq pass.todo
  OBVIOUS
<1> HIDE DEF fly, todo
<1>3. pass \in Passes /\ pass.work \in Snapshots
  BY <1>1, PassParts DEF FlightInv
<1>4. /\ pass'.pc = "flight" /\ pass'.fly = fly /\ pass'.pol = pass.pol /\ pass'.op = pass.op
      /\ pass'.pred = pass.pred /\ pass'.work = work /\ pass'.base = pass.work /\ pass'.todo = todo
      /\ log'.torn = log.torn
  <2>1. log'.torn = log.torn
    BY <1>1 DEF Submit, FlightInv, TypeOK
  <2> QED  BY <1>1, <1>3, <2>1 DEF Submit, Passes
<1>5. /\ pass.pol \in DOMAIN Policies /\ Policies[pass.pol].profile = "v1"
  BY <1>1 DEF FlightInv, OnCourse
<1>6. /\ IsFiniteSet(fly) /\ fly \subseteq ToSet(Policies[pass.pol].participants)
  BY <1>4 DEF FlightInv, OnCourse, Free
<1>7. fly \in SUBSET Participants /\ \A p \in fly : ~Governed(p)
  <2>1. \A p \in fly : p \in Participants /\ PolicyOf(p) = pass.pol
    BY <1>5, <1>6, PolicyIsUnique DEF Participants
  <2> QED  BY <1>5, <2>1 DEF Governed
<1>8. work \in Snapshots /\ Beside(pass.work, work)
  <2>1. /\ work \in Snapshots /\ work.clock = pass.work.clock /\ work.led = pass.work.led
        /\ \A p \in Participants : p \notin fly => work.st[p] = pass.work.st[p]
    BY <1>3, <1>5, <1>6, <1>7, ReserveBatchTypes
  <2>2. \A i \in DOMAIN Policies : work.svc[i].life = pass.work.svc[i].life
    BY <1>3, <1>5, <1>6, <1>7, ReservingPaces DEF Paces
  <2> QED  BY <1>7, <2>1, <2>2 DEF Beside
<1> HIDE DEF work
<1>9. \A p \in Participants : Governed(p) /\ Past(pass', p) => Past(pass, p)
  BY <1>4, <1>5 DEF Past, Governed
<1>10. Working(pass) /\ Working(pass') /\ NoneGoverned(pass) /\ NoneGoverned(pass')
  BY <1>1, <1>4, <1>7 DEF Working, NoneGoverned
<1>11. pass'.todo # {} => pass.todo # {}
  BY <1>2, <1>4
<1> QED  BY <1>1, <1>4, <1>5, <1>8, <1>9, <1>10, <1>11, AsideKeepsBalance

LEMMA SubmitActionKeepsBalance ==
    ASSUME FlightInv, BalanceInv, NEW p \in Participants, SubmitAction(p)
    PROVE  BalanceInv'
<1>1. Serial(p) /\ ~Governed(p) /\ Submit({p}, pass.work, pass.todo) /\ UNCHANGED <<snap, driver, read>>
  BY DEF SubmitAction
<1>2. /\ pass.pc = "due" /\ pass \in Passes /\ pass.failed = FALSE /\ pass.work \in Snapshots
      /\ pass.pol \in DOMAIN Policies
  BY <1>1, SerialParts
<1>3. /\ pass'.pc = "flight" /\ pass'.fly = {p} /\ pass'.pol = pass.pol /\ pass'.op = pass.op
      /\ pass'.pred = pass.pred /\ pass'.work = pass.work /\ pass'.base = pass.work /\ pass'.todo = pass.todo
      /\ log'.torn = log.torn
  <2>1. log'.torn = log.torn
    BY <1>1 DEF Submit, FlightInv, TypeOK
  <2> QED  BY <1>1, <1>2, <2>1 DEF Submit, Passes
<1>4. Beside(pass.work, pass'.work)
  BY <1>3 DEF Beside
<1>5. \A q \in Participants : Past(pass', q) => Past(pass, q)
  BY <1>3 DEF Past, TurnOf
<1>6. Working(pass) /\ Working(pass') /\ NoneGoverned(pass) /\ NoneGoverned(pass')
  BY <1>1, <1>2, <1>3 DEF Working, NoneGoverned
<1> QED  BY <1>1, <1>2, <1>3, <1>4, <1>5, <1>6, AsideKeepsBalance

LEMMA SettledAsideKeepsBalance ==
    ASSUME FlightInv, StepInv, BalanceInv, pass.pc = "flight", \A p \in pass.fly : ~Governed(p),
           NEW work \in Snapshots, NEW failed, Settled(work, failed), Beside(pass.work, work),
           UNCHANGED <<snap, driver, read>>, log'.torn = log.torn
    PROVE  BalanceInv'
<1>1. pass \in Passes /\ pass.pol \in DOMAIN Policies /\ ~pass.failed
  BY FlightParts DEF StepInv, FlightIsRunning
<1>2. /\ pass'.pc = "due" /\ pass'.op = pass.op /\ pass'.pred = pass.pred /\ pass'.work = work
      /\ pass'.pol = pass.pol /\ pass'.todo = pass.todo /\ pass'.base = Blank
  BY <1>1 DEF Settled, Passes
<1>3. \A q \in Participants : Past(pass', q) => Past(pass, q)
  BY <1>2 DEF Past, TurnOf
<1>4. Working(pass) /\ Working(pass') /\ NoneGoverned(pass) /\ NoneGoverned(pass')
  BY <1>2 DEF Working, NoneGoverned
<1> QED  BY <1>1, <1>2, <1>3, <1>4, AsideKeepsBalance

LEMMA SettleBatchKeepsBalance ==
    ASSUME FlightInv, StepInv, BalanceInv, (\E results : SettleResults(results)) \/ SettleLost
    PROVE  BalanceInv'
<1>1. pass.pc = "flight" /\ pass.batch /\ UNCHANGED <<snap, driver, read>> /\ log'.torn = log.torn
  BY DEF SettleResults, SettleLost, FlightInv, TypeOK
<1>2. /\ pass.pol \in DOMAIN Policies /\ pass.base \in Snapshots /\ AtRest(pass.base)
      /\ pass.fly \in SUBSET Participants /\ IsFiniteSet(pass.fly)
      /\ pass.work = ReserveBatch(pass.base, pass.pol, pass.fly) /\ pass.work \in Snapshots
      /\ \A p \in pass.fly : ~Governed(p)
  BY <1>1, FlightParts
<1>3. PICK results, failed : Settled(SettleBatch(pass.work, pass.base, pass.pol, pass.fly, results), failed)
  BY DEF SettleResults, SettleLost, SettleIndeterminate
<1> DEFINE work == SettleBatch(pass.work, pass.base, pass.pol, pass.fly, results)
<1>4. work \in Snapshots
  BY <1>2, SettledBatchIsAtRest
<1>5. \A i \in DOMAIN Policies : work.svc[i].life = pass.work.svc[i].life
  BY <1>2, SettlingPaces DEF Paces
<1>6. /\ work.clock = pass.work.clock /\ work.led = pass.work.led
      /\ \A p \in Participants : p \notin pass.fly => work.st[p] = pass.work.st[p]
  <2> DEFINE f == [p \in Participants |->
                      IF p \in pass.fly
                      THEN NextActionState(p, pass.base.st[p], results[p] = "succeeded", results[p] = "invalid")
                      ELSE pass.work.st[p]]
             u == [pass.work EXCEPT !.st = f]
  <2>1. work = [u EXCEPT !.svc = [u.svc EXCEPT ![pass.pol] = pass.base.svc[pass.pol]]]
    BY DEF SettleBatch, SettleService
  <2>2. \A p \in Participants : p \notin pass.fly => f[p] = pass.work.st[p]
    OBVIOUS
  <2> HIDE DEF f
  <2>3. u.clock = pass.work.clock /\ u.led = pass.work.led /\ u.st = f /\ DOMAIN u = {"clock", "st", "svc", "led"}
    BY <1>2 DEF Snapshots
  <2> HIDE DEF u, work
  <2>4. work.clock = u.clock /\ work.led = u.led /\ work.st = u.st
    BY <2>1, <2>3
  <2> QED  BY <2>2, <2>3, <2>4
<1> HIDE DEF work
<1>7. Settled(work, failed) /\ Beside(pass.work, work)
  BY <1>2, <1>3, <1>5, <1>6 DEF work, Beside
<1> QED  BY <1>1, <1>2, <1>4, <1>7, SettledAsideKeepsBalance

LEMMA SettleActionKeepsBalance ==
    ASSUME FlightInv, StepInv, FlightInv', BalanceInv, NEW p \in pass.fly, NEW result, SettleAction(p, result)
    PROVE  BalanceInv'
<1> DEFINE s == NextActionState(p, pass.work.st[p], result = "succeeded", result = "invalid")
           work == [pass.work EXCEPT !.st[p] = s]
<1>1. /\ pass.pc = "flight" /\ pass.fly = {p} /\ ~Governed(p) /\ Settled(work, Stops(pass.pol, result))
      /\ UNCHANGED <<snap, driver, read, log>>
  BY DEF SettleAction
<1>2. pass \in Passes /\ pass.work \in Snapshots /\ p \in Participants
  BY <1>1, FlightParts
<1> HIDE DEF s
<1>3. /\ work.led = pass.work.led /\ work.clock = pass.work.clock /\ work.svc = pass.work.svc
      /\ \A q \in Participants : q # p => work.st[q] = pass.work.st[q]
  BY <1>2, SnapshotParts DEF Snapshots
<1> HIDE DEF work
<1>4. Beside(pass.work, work)
  BY <1>1, <1>3 DEF Beside
<1>5. work \in Snapshots
  <2>1. pass'.pc = "due" /\ pass'.work = work
    BY <1>1, <1>2 DEF Settled, Passes
  <2>2. pass' \in Passes
    BY <2>1, PassTypes DEF FlightInv, TypeOK
  <2> QED  BY <2>1, <2>2 DEF Passes
<1> QED  BY <1>1, <1>4, <1>5, SettledAsideKeepsBalance

-----------------------------------------------------------------------------
(* Whose turn it is                                                         *)

LEMMA TurnParts ==
    ASSUME FlightInv, ~Free, pass.todo # {}, NEW p, p = TurnOf(pass, Min(pass.todo))
    PROVE  /\ pass.pol \in DOMAIN Policies /\ pass.pol \in Nat
           /\ pass.todo \subseteq DOMAIN Policies[pass.pol].participants
           /\ Min(pass.todo) \in pass.todo /\ pass.todo \in SUBSET Nat
           /\ \A k \in pass.todo : Min(pass.todo) <= k
           /\ p \in Participants /\ PolicyOf(p) = pass.pol
           /\ Governed(p) => ~Past(pass, p)
<1>1. /\ pass.pol \in DOMAIN Policies /\ pass.todo \subseteq DOMAIN Policies[pass.pol].participants
      /\ pass.todo \in SUBSET Nat
  BY PassParts DEF FlightInv, OnCourse
<1>2. Min(pass.todo) \in pass.todo /\ \A k \in pass.todo : Min(pass.todo) <= k
  BY <1>1, MinIsLeast
<1>3. p \in ToSet(Policies[pass.pol].participants)
  BY <1>1, <1>2 DEF TurnOf, ToSet
<1>4. p \in Participants /\ PolicyOf(p) = pass.pol /\ pass.pol \in Nat
  BY <1>1, <1>3, PolicyTypes, PolicyIsUnique
<1> QED  BY <1>1, <1>2, <1>4 DEF Past

\* Whoever has a turn before the one whose turn it is has been passed by.
LEMMA EarlierIsPast ==
    ASSUME FlightInv, ~Free, pass.todo # {}, NEW p, p = TurnOf(pass, Min(pass.todo)),
           NEW q \in Participants, HasTurnBefore(q, p)
    PROVE  Past(pass, q)
<1> DEFINE ps == Policies[pass.pol].participants
           least == Min(pass.todo)
<1>1. /\ pass.pol \in DOMAIN Policies /\ pass.todo \subseteq DOMAIN ps /\ least \in pass.todo
      /\ pass.todo \in SUBSET Nat /\ \A k \in pass.todo : least <= k
      /\ p \in Participants /\ PolicyOf(p) = pass.pol
  BY TurnParts
<1>2. PICK k \in DOMAIN ps : ps[k] = p /\ \E j \in DOMAIN ps : j < k /\ ps[j] = q
  BY <1>1 DEF HasTurnBefore
<1>3. PICK j \in DOMAIN ps : j < k /\ ps[j] = q
  BY <1>2
<1>4. \A a, b \in DOMAIN ps : ps[a] = ps[b] => a = b
  BY <1>1, DistinctAssumption DEF IsInjective
<1>5. k = least
  BY <1>1, <1>2, <1>4 DEF TurnOf
<1>6. \A m \in pass.todo : TurnOf(pass, m) # q
  <2> SUFFICES ASSUME NEW m \in pass.todo, ps[m] = q  PROVE  FALSE
    BY DEF TurnOf
  <2>1. m = j /\ least <= m /\ m \in Nat /\ least \in Nat
    BY <1>1, <1>3, <1>4
  <2> QED  BY <1>3, <1>5, <2>1
<1>7. PolicyOf(q) = pass.pol
  BY <1>1, TurnsInPolicy
<1> QED  BY <1>6, <1>7 DEF Past

\* Someone who waits, in a snapshot that is in step with a running clock, is running,
\* and due if the clock has reached its tick and its service is open.
LEMMA WaitingIsRunning ==
    ASSUME NEW w \in Snapshots, Stepped(w), AtRest(w), w.clock.state = "running",
           NEW q \in Participants, Waits(w, q), Accepts(w, PolicyOf(q)), w.st[q].next <= w.clock.tick
    PROVE  Due(w, q) /\ w.st[q].next = w.clock.tick
<1>1. w.st[q].life = "running"
  BY DEF Stepped, Agreeing, Waits
<1>2. w.st[q].next >= w.clock.tick /\ w.st[q].next \in Nat /\ w.clock.tick \in Nat
  BY <1>1, SnapshotParts DEF Stepped, Timely, SchedulerStates
<1> QED  BY <1>1, <1>2 DEF Due, Waits, AtRest

\* In a run of due work, the only open operation of the policy is that of the one whose
\* turn it is and who is due.
LEMMA OwnIsOpen ==
    ASSUME FlightInv, StepInv, BalanceInv, ~log.torn, pass.op \in {"run_due", "apply"},
           NEW p \in Participants, Serial(p), Governed(p), Due(pass.work, p), NEW o \in Open(pass.work, pass.pol)
    PROVE  o.participant = p
<1> DEFINE w == pass.work
           q == o.participant
<1>1. pass.pc = "due" /\ Working(pass) /\ ~pass.failed /\ AtRest(w) /\ pass.todo # {} /\ p = TurnOf(pass, Min(pass.todo))
  BY SerialParts DEF Working, Serial, Peer, TurnOf
<1>2. w \in Snapshots /\ Booked(w) /\ Quiet(w) /\ Turned(pass) /\ ~Free
  BY <1>1, WorkIsBooked
<1>3. /\ pass.pol \in DOMAIN Policies /\ pass.todo \in SUBSET Nat /\ Min(pass.todo) \in pass.todo
      /\ pass.todo \subseteq DOMAIN Policies[pass.pol].participants
      /\ (\A k \in pass.todo : Min(pass.todo) <= k) /\ pass.pol \in Nat
  BY <1>1, <1>2, TurnParts
<1>4. q \in Participants /\ Governed(q) /\ PolicyOf(q) = pass.pol
  BY <1>2, ReservesTypes DEF Open, Booked, Recorded
<1>5. Stepped(w) /\ Accepts(w, pass.pol)
  BY <1>1, <1>2 DEF StepInv, DueInStep, Turned
<1>6. w.clock.state = "running" /\ Waits(w, p) /\ w.st[p].next = w.clock.tick
  BY <1>5 DEF Due, Stepped, Agreeing, Waits, Terminal
<1>7. /\ Waits(w, q) /\ w.st[q].next <= w.clock.tick
      /\ \A r \in Participants : HasTurnBefore(r, q) /\ Waits(w, r) => w.st[r].next # w.st[q].next
  BY <1>2, <1>3 DEF Quiet
<1> HIDE DEF w, q
<1>8. Due(w, q) /\ w.st[q].next = w.clock.tick
  BY <1>1, <1>2, <1>4, <1>5, <1>6, <1>7, WaitingIsRunning
<1>9. PICK k \in pass.todo : TurnOf(pass, k) = q
  <2>1. ~Past(pass, q)
    BY <1>1, <1>2, <1>4, <1>5, <1>8 DEF Turned, w
  <2> QED  BY <1>4, <2>1 DEF Past
<1>10. k \in Nat /\ Min(pass.todo) \in Nat /\ Min(pass.todo) <= k
  BY <1>3
<1>11. CASE k = Min(pass.todo)
  BY <1>1, <1>9, <1>11 DEF q
<1>12. CASE Min(pass.todo) < k
  <2>1. HasTurnBefore(p, q)
    BY <1>1, <1>3, <1>4, <1>9, <1>12 DEF HasTurnBefore, TurnOf
  <2> QED  BY <1>6, <1>7, <1>8, <2>1
<1> QED  BY <1>10, <1>11, <1>12

\* A snapshot in which one policy is quiet, and the others as in another.
QuietIn(w, i) ==
    \A o \in Open(w, i) :
        LET q == o.participant
        IN  /\ Open(w, i) = {o}
            /\ Waits(w, q) /\ w.st[q].next <= w.clock.tick
            /\ \A p \in Participants : HasTurnBefore(p, q) /\ Waits(w, p) => w.st[p].next # w.st[q].next

LEMMA OthersStayQuiet ==
    ASSUME NEW w \in Snapshots, NEW v \in Snapshots, Recorded(w), Quiet(w), v.clock = w.clock,
           NEW i \in DOMAIN Policies, NEW p \in Participants, PolicyOf(p) = i,
           \A q \in Participants \ {p} : v.st[q] = w.st[q],
           \A j \in DOMAIN Policies \ {i} : Open(v, j) = Open(w, j), QuietIn(v, i)
    PROVE  Quiet(v)
<1>1. ASSUME NEW j \in DOMAIN Policies, j # i, NEW o \in Open(v, j)
      PROVE  LET q == o.participant
             IN  /\ Open(v, j) = {o}
                 /\ Waits(v, q) /\ v.st[q].next <= v.clock.tick
                 /\ \A r \in Participants : HasTurnBefore(r, q) /\ Waits(v, r) => v.st[r].next # v.st[q].next
  <2> DEFINE q == o.participant
  <2>1. o \in Open(w, j) /\ o \in w.led.reserves /\ PolicyOf(q) = j
    BY <1>1 DEF Open
  <2>2. q \in Participants /\ q # p
    BY <1>1, <2>1, ReservesTypes
  <2>3. \A r \in Participants : HasTurnBefore(r, q) => r # p
    BY <1>1, <2>1, <2>2, TurnsInPolicy
  <2>4. /\ Open(w, j) = {o} /\ Waits(w, q) /\ w.st[q].next <= w.clock.tick
        /\ \A r \in Participants : HasTurnBefore(r, q) /\ Waits(w, r) => w.st[r].next # w.st[q].next
    BY <2>1 DEF Quiet
  <2>5. \A r \in Participants : r # p => v.st[r] = w.st[r] /\ (Waits(v, r) <=> Waits(w, r))
    BY DEF Waits
  <2> HIDE DEF q
  <2>6. /\ Open(v, j) = {o} /\ Waits(v, q) /\ v.st[q].next <= v.clock.tick
        /\ \A r \in Participants : HasTurnBefore(r, q) /\ Waits(v, r) => v.st[r].next # v.st[q].next
    BY <1>1, <2>2, <2>3, <2>4, <2>5
  <2> QED  BY <2>6 DEF q
<1> QED  BY <1>1 DEF Quiet, QuietIn

-----------------------------------------------------------------------------
(* Governed work                                                            *)

\* A reservation opens the operation of the one whose turn it is, and nothing else of
\* its policy is open in a run of due work.
LEMMA SubmissionKeepsBalance ==
    ASSUME FlightInv, AccountInv, StepInv, BalanceInv, ~log.torn, NEW p \in Participants, Serial(p), Governed(p),
           Due(pass.work, p), NEW o, o = Operation(p, pass.work.st[p]),
           NEW r, r = Reserve(pass.work.led, Policies[pass.pol].budgets, o, pass.work.svc[pass.pol].generation),
           r.disposition = "ok", NEW v \in Snapshots, v.led = r.ledger, v.st = pass.work.st,
           v.svc = pass.work.svc, v.clock = pass.work.clock,
           pass'.pc = "flight", pass'.fly = {p}, pass'.pol = pass.pol, pass'.op = pass.op, pass'.pred = pass.pred,
           pass'.work = v, pass'.todo = pass.todo, pass'.failed = pass.failed
    PROVE  /\ Entered(v) /\ Opening(pass') /\ Going(pass') /\ Turned(pass')
           /\ pass.op \in {"run_due", "apply"} => Quiet(v)
<1> DEFINE w == pass.work
           i == pass.pol
<1>1. /\ pass.pc = "due" /\ Working(pass) /\ ~pass.failed /\ AtRest(w) /\ pass.todo # {}
      /\ p = TurnOf(pass, Min(pass.todo))
  BY SerialParts DEF Working, Serial, Peer, TurnOf
<1>2. /\ w \in Snapshots /\ Booked(w) /\ Opening(pass) /\ Going(pass) /\ Turned(pass) /\ ~Free /\ ~IsBlank(w)
      /\ pass.op \in {"run_due", "apply"} => Quiet(w)
  BY <1>1, WorkIsBooked
<1>3. i \in DOMAIN Policies /\ PolicyOf(p) = i
  BY <1>1, <1>2, TurnParts
<1>4. Charged(w)
  BY <1>2, BooksParts DEF AccountInv, Fine
<1>5. /\ o \in Operations /\ o.participant = p /\ o.segment = w.st[p].segment /\ o \notin w.led.commits
  BY <1>2, <1>4, OwnOperation
<1>6. /\ Booked(v)
      /\ \A j \in DOMAIN Policies : Open(v, j) = IF j = i THEN Open(w, j) \cup {o} ELSE Open(w, j)
      /\ v.led.releases = w.led.releases /\ v.led.reserves = w.led.reserves \cup {o}
  <2>1. Granted(w, v, p, i, o)
    BY <1>3 DEF Granted
  <2> QED  BY <1>2, <1>4, <2>1, GrantBooked
<1>7. Recorded(w)
  BY <1>2 DEF Booked
<1>8. o \in w.led.reserves => o \in Open(w, i)
  BY <1>3, <1>5 DEF Open
<1>9. \A j \in DOMAIN Policies : Before(pass', j) = Before(pass, j) /\ Open(w, j) \subseteq Before(pass, j)
  <2>1. InFlight(pass) = {}
    BY <1>1 DEF InFlight
  <2>2. \A j \in DOMAIN Policies : Before(pass', j) = Before(pass, j)
    BY DEF Before
  <2> QED  BY <1>1, <1>2, <2>1, <2>2 DEF Opening
<1>10. Opening(pass')
  <2>1. InFlight(pass') = {o} \ v.led.releases
    BY DEF InFlight
  <2>2. o \in v.led.releases => o \in Open(w, i)
    BY <1>6, <1>7, <1>8 DEF Recorded
  <2>3. ASSUME NEW j \in DOMAIN Policies  PROVE  Open(v, j) \subseteq Before(pass', j) \cup InFlight(pass')
    <3>1. Open(w, j) \subseteq Before(pass', j)
      BY <1>9
    <3>2. CASE j # i
      BY <1>6, <3>1, <3>2
    <3>3. CASE j = i
      <4>1. Open(v, j) = Open(w, j) \cup {o}
        BY <1>6, <3>3
      <4>2. o \in Open(w, j) \cup InFlight(pass')
        BY <2>1, <2>2, <3>3
      <4> QED  BY <3>1, <4>1, <4>2
    <3> QED  BY <3>2, <3>3
  <2>4. \A j \in DOMAIN Policies : Open(v, j) \subseteq Before(pass', j) \cup InFlight(pass')
    BY <2>3
  <2> QED  BY <2>4 DEF Opening
<1>11. Accepts(v, i) /\ \A j : Accepts(v, j) <=> Accepts(w, j)
  BY <1>1, <1>2 DEF Accepts, Turned
<1>12. Going(pass')
  <2> SUFFICES ASSUME Controlling(pass')
               PROVE  /\ Moves(pass', v.clock) /\ pass.pred.led.reserves \subseteq v.led.reserves
                      /\ \A j \in DOMAIN Policies : \A x \in Open(v, j) \cap Before(pass', j) :
                             SameCourse(pass.pred.st[x.participant], v.st[x.participant])
                      /\ \A q \in Participants : Governed(q) /\ (i < PolicyOf(q) \/ ~Accepts(v, PolicyOf(q))) =>
                             SameCourse(pass.pred.st[q], v.st[q])
    BY DEF Going
  <2>1. Controlling(pass)
    BY <1>1 DEF Controlling
  <2>2. /\ Moves(pass, w.clock) /\ pass.pred.led.reserves \subseteq w.led.reserves
        /\ \A j \in DOMAIN Policies : \A x \in Open(w, j) \cap Before(pass, j) :
               SameCourse(pass.pred.st[x.participant], w.st[x.participant])
        /\ \A q \in Participants : Governed(q) /\ (i < PolicyOf(q) \/ ~Accepts(w, PolicyOf(q))) =>
               SameCourse(pass.pred.st[q], w.st[q])
    BY <1>2, <2>1 DEF Going
  <2>3. ASSUME NEW j \in DOMAIN Policies, NEW x \in Open(v, j), x \in Before(pass, j)  PROVE  x \in Open(w, j)
    <3>1. x \in pass.pred.led.reserves
      BY <2>3 DEF Before, Open
    <3>2. x \in w.led.reserves
      BY <2>2, <3>1
    <3> QED  BY <1>6, <1>8, <2>3, <3>2
  <2>4. Moves(pass', v.clock)
    BY <2>2 DEF Moves
  <2> QED  BY <1>6, <1>9, <1>11, <2>2, <2>3, <2>4
<1>13. Turned(pass')
  <2>1. \A q : (Past(pass', q) <=> Past(pass, q)) /\ (Due(v, q) <=> Due(w, q))
    BY DEF Past, TurnOf, Due
  <2>2. TurnOf(pass', Min(pass'.todo)) = p
    BY <1>1 DEF TurnOf
  <2>3. Working(pass') /\ ~pass'.failed
    BY <1>1 DEF Working
  <2> QED  BY <1>1, <1>2, <1>11, <2>1, <2>2, <2>3 DEF Turned
<1>14. ASSUME pass.op \in {"run_due", "apply"}  PROVE  Quiet(v)
  <2>1. Open(v, i) = {o}
    <3>1. ASSUME NEW x \in Open(w, i)  PROVE  x = o
      <4>1. x.participant = p
        BY <1>14, OwnIsOpen
      <4> QED  BY <1>3, <1>7, <4>1 DEF Recorded
    <3> QED  BY <1>3, <1>6, <3>1
  <2>2. Stepped(w)
    BY <1>2, <1>14 DEF StepInv, DueInStep
  <2>3. w.clock.state = "running" /\ Waits(w, p) /\ w.st[p].next = w.clock.tick
    BY <2>2 DEF Due, Stepped, Agreeing, Waits, Terminal
  <2>4. ASSUME NEW q \in Participants, HasTurnBefore(q, p), Waits(w, q)  PROVE  w.st[q].next # w.st[p].next
    <3>1. Past(pass, q) /\ PolicyOf(q) = i /\ Governed(q)
      BY <1>1, <1>2, <1>3, <2>4, EarlierIsPast, TurnsInPolicy
    <3>2. ~Due(w, q) /\ Accepts(w, PolicyOf(q))
      BY <1>1, <1>2, <1>11, <3>1 DEF Turned
    <3>3. w.st[q].next \in Nat /\ w.clock.tick \in Nat
      BY <1>2, SnapshotParts DEF SchedulerStates
    <3>4. w.st[q].next <= w.clock.tick => Due(w, q)
      <4> HIDE DEF w
      <4> QED  BY <1>1, <1>2, <2>2, <2>3, <2>4, <3>2, WaitingIsRunning
    <3> QED  BY <2>3, <3>2, <3>3, <3>4
  <2>5. QuietIn(v, i)
    <3>1. \A q : Waits(v, q) <=> Waits(w, q)
      BY DEF Waits
    <3>2. v.st[p].next <= v.clock.tick
      BY <1>2, <2>3, SnapshotParts
    <3> QED  BY <1>5, <2>1, <2>3, <2>4, <3>1, <3>2 DEF QuietIn
  <2>6. /\ \A q \in Participants \ {p} : v.st[q] = w.st[q]
        /\ \A j \in DOMAIN Policies \ {i} : Open(v, j) = Open(w, j)
    BY <1>6
  <2>7. w \in Snapshots /\ Quiet(w) /\ v.clock = w.clock
    BY <1>2, <1>14
  <2> HIDE DEF w, i
  <2> QED  BY <1>3, <1>7, <2>5, <2>6, <2>7, OthersStayQuiet
<1> QED  BY <1>6, <1>10, <1>12, <1>13, <1>14 DEF Entered

LEMMA SubmitActivityKeepsBalance ==
    ASSUME FlightInv, AccountInv, StepInv, FlightInv', BalanceInv, NEW p \in Participants, SubmitActivity(p)
    PROVE  BalanceInv'
<1> DEFINE o == Operation(p, pass.work.st[p])
           r == Reserve(pass.work.led, Policies[pass.pol].budgets, o, pass.work.svc[pass.pol].generation)
           v == [pass.work EXCEPT !.led = r.ledger]
<1>1. /\ Serial(p) /\ Governed(p) /\ Due(pass.work, p) /\ UNCHANGED <<snap, driver, read>>
      /\ \/ r.disposition = "ok" /\ Submit({p}, v, pass.todo)
         \/ Fail /\ log' = log
  BY DEF SubmitActivity
<1>2. pass.pc = "due" /\ pass \in Passes /\ pass.work \in Snapshots
  BY <1>1, SerialParts
<1>3. CASE r.disposition = "ok" /\ Submit({p}, v, pass.todo)
  <2> HIDE DEF r
  <2>1. v.led = r.ledger /\ v.st = pass.work.st /\ v.svc = pass.work.svc /\ v.clock = pass.work.clock
    BY <1>2 DEF Snapshots
  <2> HIDE DEF v, o
  <2>2. log'.torn = log.torn
    BY <1>3 DEF Submit, FlightInv, TypeOK
  <2>3. /\ pass'.pc = "flight" /\ pass'.fly = {p} /\ pass'.pol = pass.pol /\ pass'.op = pass.op
        /\ pass'.pred = pass.pred /\ pass'.work = v /\ pass'.todo = pass.todo /\ pass'.failed = pass.failed
        /\ pass'.base = pass.work
    BY <1>2, <1>3 DEF Submit, Passes
  <2>4. v \in Snapshots
    <3>1. pass' \in Passes
      BY <2>3, PassTypes DEF FlightInv, TypeOK
    <3> QED  BY <2>3, <3>1 DEF Passes
  <2>5. ASSUME ~log.torn
        PROVE  /\ Entered(v) /\ Opening(pass') /\ Going(pass') /\ Turned(pass')
               /\ pass.op \in {"run_due", "apply"} => Quiet(v)
    <3>1. /\ o = Operation(p, pass.work.st[p]) /\ r.disposition = "ok"
          /\ r = Reserve(pass.work.led, Policies[pass.pol].budgets, o, pass.work.svc[pass.pol].generation)
      BY <1>3 DEF o, r
    <3> QED  BY <1>1, <2>1, <2>3, <2>4, <2>5, <3>1, SubmissionKeepsBalance
  <2>6. Working(pass) /\ Working(pass')
    BY <1>2, <2>3 DEF Working
  <2> QED  BY <1>1, <2>2, <2>3, <2>5, <2>6, WorkKeepsBalance
<1>4. CASE Fail /\ log' = log
  BY <1>1, <1>2, <1>4, FailKeepsBalance
<1> QED  BY <1>1, <1>3, <1>4

\* Someone without a candidate has nothing open, and nothing of its policy is open in
\* a run of due work.
LEMMA NoCandidateKeepsBalance ==
    ASSUME FlightInv, StepInv, FlightInv', BalanceInv, NEW p \in Participants, NoCandidate(p)
    PROVE  BalanceInv'
<1> DEFINE w == pass.work
           i == pass.pol
           o == Operation(p, w.st[p])
<1>1. /\ Serial(p) /\ Due(w, p) /\ Governed(p) /\ (o \in w.led.reserves => log.torn)
      /\ UNCHANGED <<snap, driver, read, log>>
  BY DEF NoCandidate
<1>2. /\ pass.pc = "due" /\ pass \in Passes /\ w \in Snapshots /\ pass.todo # {} /\ ~Free
      /\ p = TurnOf(pass, Min(pass.todo)) /\ ~pass.failed
  BY <1>1, SerialParts DEF Serial, Peer, TurnOf
<1>3. PICK s \in EmptyActivityStates(w.st[p], w.clock.tick) :
          pass' = [pass EXCEPT !.work.st[p] = s, !.todo = Rest]
  BY DEF NoCandidate
<1> DEFINE v == [w EXCEPT !.st[p] = s]
<1>4. pass' = [pass EXCEPT !.work = v, !.todo = Rest]
  BY <1>2, <1>3
<1>5. /\ v.led = w.led /\ v.clock = w.clock /\ v.svc = w.svc /\ v.st[p] = s
      /\ \A q \in Participants \ {p} : v.st[q] = w.st[q]
  BY <1>2, SnapshotParts DEF Snapshots
<1> HIDE DEF v
<1>6. /\ pass'.pc = "due" /\ pass'.op = pass.op /\ pass'.pred = pass.pred /\ pass'.work = v
      /\ pass'.failed = pass.failed /\ pass'.pol = i /\ pass'.todo = Rest /\ pass'.base = pass.base
  BY <1>2, <1>4 DEF Passes
<1>7. v \in Snapshots /\ Working(pass) /\ Working(pass')
  <2>1. pass' \in Passes
    BY <1>6, PassTypes DEF FlightInv, TypeOK
  <2> QED  BY <1>2, <1>6, <2>1 DEF Passes, Working
<1>8. w.st[p] \in SchedulerStates /\ w.clock.tick \in Nat
  BY <1>2, SnapshotParts
<1>9. /\ s.segment = w.st[p].segment /\ Operation(p, s) = o
      /\ s.life # "running" \/ s.next # w.clock.tick
  <2>1. s.segment = w.st[p].segment /\ s.occurrence = w.st[p].occurrence /\ s.retry = w.st[p].retry
        /\ s.attempted = w.st[p].attempted
    BY <1>8, StateMoves
  <2>2. s.life # "running" \/ s.next # w.clock.tick
    <3> DEFINE t == w.st[p]
               tick == w.clock.tick
    <3>1. t \in SchedulerStates /\ tick \in Nat /\ s \in EmptyActivityStates(t, tick)
      BY <1>8
    <3> HIDE DEF t, tick
    <3>2. s.life = "completed" \/ s.next \in DrawnTicks(tick)
      BY <3>1 DEF EmptyActivityStates, SchedulerStates
    <3>3. tick \notin DrawnTicks(tick)
      BY <3>1, WindowAssumption DEF DrawnTicks
    <3> QED  BY <3>2, <3>3 DEF tick
  <2> QED  BY <2>1, <2>2 DEF Operation
<1>10. ASSUME ~log.torn
       PROVE  /\ Entered(v) /\ Opening(pass') /\ Going(pass') /\ Turned(pass')
              /\ pass.op \in {"run_due", "apply"} => Quiet(v)
  <2>1. /\ Booked(w) /\ Recorded(w) /\ Balanced(w) /\ Opening(pass) /\ Going(pass) /\ Turned(pass)
        /\ pass.op \in {"run_due", "apply"} => Quiet(w)
    BY <1>7, <1>10, WorkIsBooked DEF Booked
  <2>2. i \in DOMAIN Policies /\ PolicyOf(p) = i /\ i \in Nat /\ Accepts(w, i)
    BY <1>2, <1>7, <2>1, TurnParts DEF Turned
  <2>3. (\A j \in DOMAIN Policies : Open(v, j) = Open(w, j)) /\ Booked(v)
    <3>1. \A q \in Participants : v.st[q].segment = w.st[q].segment /\ Operation(q, v.st[q]) = Operation(q, w.st[q])
      BY <1>5, <1>9
    <3> HIDE DEF w
    <3> QED  BY <1>2, <1>5, <1>7, <2>1, <3>1, SameEvents DEF Booked
  <2>4. \A j \in DOMAIN Policies : \A x \in Open(w, j) : x.participant # p /\ x.participant \in Participants
    <3>1. o \notin w.led.reserves
      BY <1>1, <1>10
    <3>2. \A j \in DOMAIN Policies : \A x \in Open(w, j) :
              x \in w.led.reserves /\ x = Operation(x.participant, w.st[x.participant])
      BY <2>1 DEF Open, Recorded
    <3> QED  BY <1>2, <3>1, <3>2, ReservesTypes
  <2>5. Opening(pass')
    <3>1. \A j : Before(pass', j) = Before(pass, j)
      BY <1>6 DEF Before
    <3>2. InFlight(pass') = InFlight(pass)
      BY <1>2, <1>6 DEF InFlight
    <3> QED  BY <1>2, <1>6, <1>7, <2>1, <2>3, <3>1, <3>2 DEF Opening
  <2>6. Going(pass')
    <3>1. \A j : Before(pass', j) = Before(pass, j)
      BY <1>6 DEF Before
    <3>2. Controlling(pass') => Controlling(pass)
      BY <1>2, <1>6, <1>7 DEF Controlling
    <3>3. \A q \in Participants : i < PolicyOf(q) \/ ~Accepts(w, PolicyOf(q)) => q # p
      BY <2>2
    <3>4. \A j : Accepts(v, j) <=> Accepts(w, j)
      BY <1>5 DEF Accepts
    <3>5. Controlling(pass) => Moves(pass', v.clock)
      BY <1>5, <1>6, <2>1 DEF Going, Moves
    <3> HIDE DEF w, i, o
    <3> QED  BY <1>5, <1>6, <2>1, <2>3, <2>4, <3>1, <3>2, <3>3, <3>4, <3>5 DEF Going, w, i
  <2>7. Turned(pass')
    <3>1. \A j : Accepts(v, j) <=> Accepts(w, j)
      BY <1>5 DEF Accepts
    <3>2. ~Due(v, p) /\ \A q \in Participants \ {p} : Due(v, q) <=> Due(w, q)
      BY <1>5, <1>9 DEF Due
    <3>3. \A q \in Participants : Past(pass', q) => Past(pass, q) \/ q = p
      BY <1>1, <1>6, OneIsPast
    <3>4. ASSUME NEW q \in Participants, Past(pass', q), Governed(q), Accepts(v, PolicyOf(q))  PROVE  ~Due(v, q)
      BY <1>2, <1>7, <2>1, <3>1, <3>2, <3>3, <3>4 DEF Turned
    <3>5. Accepts(v, pass'.pol)
      BY <1>6, <2>2, <3>1
    <3> QED  BY <1>6, <3>4, <3>5 DEF Turned
  <2>8. ASSUME pass.op \in {"run_due", "apply"}  PROVE  Quiet(v)
    <3>1. \A x \in Open(w, i) : x.participant = p
      BY <1>1, <1>10, <2>8, OwnIsOpen
    <3>2. Open(v, i) = {}
      BY <2>2, <2>3, <2>4, <3>1
    <3>3. QuietIn(v, i)
      BY <3>2 DEF QuietIn
    <3>4. \A j \in DOMAIN Policies \ {i} : Open(v, j) = Open(w, j)
      BY <2>3
    <3>5. Quiet(w)
      BY <2>1, <2>8
    <3> HIDE DEF w, i, o
    <3> QED  BY <1>2, <1>5, <1>7, <2>1, <2>2, <3>3, <3>4, <3>5, OthersStayQuiet
  <2> QED  BY <2>3, <2>5, <2>6, <2>7, <2>8 DEF Entered
<1> QED  BY <1>1, <1>6, <1>7, <1>10, WorkKeepsBalance

\* A failed pass is only published or put back.
LEMMA FailedKeepsBalance ==
    ASSUME FlightInv, BalanceInv, pass.pc = "flight", NEW v \in Snapshots, Settled(v, TRUE),
           ~log.torn => Booked(v) /\ (pass.op \in {"run_due", "apply"} => Quiet(v)),
           v.svc = pass.work.svc, UNCHANGED <<snap, driver, read>>, log'.torn = log.torn
    PROVE  BalanceInv'
<1>1. pass \in Passes
  BY FlightParts
<1>2. /\ pass'.pc = "due" /\ pass'.op = pass.op /\ pass'.pred = pass.pred /\ pass'.work = v
      /\ pass'.pol = pass.pol /\ pass'.todo = pass.todo /\ pass'.base = Blank /\ pass'.failed = TRUE
  BY <1>1 DEF Settled, Passes
<1>3. Working(pass) /\ Working(pass')
  BY <1>2 DEF Working
<1>4. ASSUME ~log.torn  PROVE  Entered(v) /\ Opening(pass') /\ Going(pass') /\ Turned(pass')
  <2>1. Turned(pass)
    BY <1>3, <1>4, WorkIsBooked
  <2>2. pass'.todo # {} => Accepts(v, pass'.pol)
    BY <1>2, <1>3, <2>1 DEF Turned, Accepts
  <2> QED  BY <1>2, <1>4, <2>2 DEF Entered, Opening, Going, Controlling, Turned
<1> QED  BY <1>2, <1>3, <1>4, WorkKeepsBalance

LEMMA SettleUntrustedKeepsBalance ==
    ASSUME FlightInv, AccountInv, FlightInv', BalanceInv, NEW p \in pass.fly, SettleUntrusted(p)
    PROVE  BalanceInv'
<1> DEFINE w == pass.work
           i == pass.pol
           o == Operation(p, w.st[p])
           g == w.svc[i].generation
           l == Release(w.led, Policies[i].budgets, o, g).ledger
           v == [w EXCEPT !.led = l]
<1>1. /\ pass.pc = "flight" /\ Governed(p) /\ Settled(v, TRUE) /\ UNCHANGED <<snap, driver, read>>
      /\ log'.torn = log.torn
  BY DEF SettleUntrusted, FlightInv, TypeOK
<1>2. pass \in Passes /\ w \in Snapshots /\ p \in Participants /\ PolicyOf(p) = i /\ i \in DOMAIN Policies
  BY <1>1, FlightParts
<1> HIDE DEF l
<1>3. v.led = l /\ v.st = w.st /\ v.svc = w.svc /\ v.clock = w.clock
  BY <1>2 DEF Snapshots
<1> HIDE DEF v
<1>4. v \in Snapshots
  <2>1. pass'.pc = "due" /\ pass'.work = v
    BY <1>1, <1>2 DEF Settled, Passes
  <2>2. pass' \in Passes
    BY <2>1, PassTypes DEF FlightInv, TypeOK
  <2> QED  BY <2>1, <2>2 DEF Passes
<1>5. ASSUME ~log.torn  PROVE  Booked(v) /\ (pass.op \in {"run_due", "apply"} => Quiet(v))
  <2>1. Working(pass)
    BY <1>1 DEF Working
  <2>2. Booked(w) /\ ~IsBlank(w) /\ (pass.op \in {"run_due", "apply"} => Quiet(w)) /\ ~Free
    BY <1>5, <2>1, WorkIsBooked
  <2>3. Charged(w)
    BY <1>5, <2>2, BooksParts DEF AccountInv, Fine
  <2>4. Booked(v) /\ \A j \in DOMAIN Policies : Open(v, j) = Open(w, j)
    <3>1. /\ i = PolicyOf(p) /\ o = Operation(p, w.st[p]) /\ v.st = w.st
          /\ v.led = Release(w.led, Policies[i].budgets, o, g).ledger
      BY <1>2, <1>3 DEF l
    <3> HIDE DEF w, i, o, g
    <3> QED  BY <1>1, <1>2, <1>4, <2>2, <2>3, <3>1, ReleaseBooked
  <2>5. Quiet(w) => Quiet(v)
    BY <1>3, <2>4 DEF Quiet, Waits
  <2> QED  BY <2>2, <2>4, <2>5
<1> QED  BY <1>1, <1>3, <1>4, <1>5, FailedKeepsBalance

\* An exception leaves the published snapshot, which is the predecessor of a run of due
\* work; in a time control it is torn.
LEMMA RaiseKeepsBalance ==
    ASSUME FlightInv, StepInv, BalanceInv, Working(pass), Raise
    PROVE  BalanceInv'
<1>1. /\ pass'.pc = "free" /\ ~Free /\ UNCHANGED <<snap, read>> /\ pass.pc \in {"due", "flight"}
      /\ driver' = "publishing" => driver = "publishing"
      /\ log' = [Forget(snap) EXCEPT !.torn = @ \/ pass.op \in {"advance", "jump"}]
  BY PassTypes DEF Raise, Free, Working
<1>2. log'.torn = (log.torn \/ pass.op \in {"advance", "jump"})
  BY <1>1 DEF FlightInv, TypeOK, Forget
<1> SUFFICES ASSUME ~log'.torn  PROVE  Balances(pass', snap') /\ Resting(pass', snap', read', driver')
  BY BalanceParts
<1>3. ~log.torn /\ pass.op \notin {"advance", "jump"}
  BY <1>2
<1>4. Balances(pass, snap) /\ Resting(pass, snap, read, driver)
  BY <1>3, BalanceParts
<1>5. pass.op \in {"run_due", "apply"}
  <2>1. pass.op \notin {"pause", "resume", "reset"}
    BY <1>1, <1>3 DEF StepInv, PassedInTime
  <2>2. pass.op \in {"apply", "run_due", "advance", "pause", "resume", "jump", "reset"}
    BY <1>1, PassParts DEF FlightInv
  <2> QED  BY <1>3, <2>1, <2>2
<1>6. snap = pass.pred
  BY <1>1, <1>3, <1>5 DEF StepInv, DueInStep
<1>7. ~IsBlank(snap) => Quiet(snap)
  BY <1>1, <1>4, <1>6 DEF Balances, QuietPass, Free
<1>8. Balances(pass', snap')
  BY <1>1 DEF Balances
<1>9. Resting(pass', snap', read', driver')
  BY <1>1, <1>4, <1>7 DEF Resting
<1> QED  BY <1>8, <1>9

\* What a commit charges holds its reservation.  If that was released by an earlier
\* attempt, the operation was open before the pass, and nothing else of its policy is.
LEMMA ChargedIsHeld ==
    ASSUME FlightInv, AccountInv, BalanceInv, ~log.torn, pass.pc = "flight", NEW p, pass.fly = {p}, Governed(p),
           ~pass.failed, NEW o, o = Operation(p, pass.work.st[p])
    PROVE  /\ o \in Open(pass.work, pass.pol)
           /\ o \in Held(pass.work, pass.pol) \/ Held(pass.work, pass.pol) = {}
           /\ InFlight(pass) \subseteq {o}
<1> DEFINE w == pass.work
           i == pass.pol
<1>1. w \in Snapshots /\ p \in Participants /\ PolicyOf(p) = i /\ i \in DOMAIN Policies
  BY FlightParts
<1>2. Booked(w) /\ Opening(pass) /\ Working(pass) /\ QuietPass(pass, snap) /\ ~Free /\ ~IsBlank(w)
  BY WorkIsBooked DEF Working
<1>3. Charged(w)
  BY <1>2, BooksParts DEF AccountInv, Fine
<1>4. o.participant = p /\ o.segment = w.st[p].segment /\ o \notin w.led.commits
  BY <1>1, <1>3, OwnOperation
<1>5. o \in w.led.reserves
  BY DEF AccountInv, FlightHasEvent
<1>6. o \in Open(w, i)
  BY <1>1, <1>4, <1>5 DEF Open
<1>7. InFlight(pass) = {o} \ w.led.releases
  BY DEF InFlight
<1>8. CASE o \notin w.led.releases
  BY <1>6, <1>7, <1>8, HeldIsOpen
<1>9. CASE o \in w.led.releases
  <2>1. Open(w, i) \subseteq Before(pass, i)
    BY <1>1, <1>2, <1>7, <1>9 DEF Opening
  <2>2. ~IsBlank(pass.pred) /\ o \in Open(pass.pred, i) /\ Before(pass, i) = Open(pass.pred, i)
    BY <1>6, <2>1 DEF Before
  <2>3. Open(pass.pred, i) = {o}
    BY <1>1, <1>2, <2>2 DEF QuietPass, Quiet
  <2>4. Held(w, i) = {}
    BY <1>9, <2>1, <2>2, <2>3, HeldIsOpen
  <2> QED  BY <1>6, <1>7, <2>4
<1> QED  BY <1>8, <1>9

\* A commit closes what is in flight.
LEMMA CommitKeepsBalance ==
    ASSUME FlightInv, AccountInv, StepInv, BalanceInv, ~log.torn, pass.pc = "flight", NEW p, pass.fly = {p},
           Governed(p), NEW o, NEW v \in Snapshots, Closed(pass.work, v, p, pass.pol, o),
           v.clock = pass.work.clock, v.svc = pass.work.svc,
           pass'.pc = "due", pass'.op = pass.op, pass'.pred = pass.pred, pass'.work = v,
           pass'.pol = pass.pol, pass'.todo = pass.todo
    PROVE  /\ Entered(v) /\ Opening(pass') /\ Going(pass') /\ Turned(pass')
           /\ pass.op \in {"run_due", "apply"} => Quiet(v)
<1> DEFINE w == pass.work
           i == pass.pol
<1>1. w \in Snapshots /\ p \in Participants /\ PolicyOf(p) = i /\ i \in DOMAIN Policies /\ ~Free /\ ~pass.failed
  BY FlightParts DEF StepInv, FlightIsRunning
<1>2. /\ Booked(w) /\ Recorded(w) /\ Opening(pass) /\ Going(pass) /\ Turned(pass) /\ Working(pass) /\ ~IsBlank(w)
      /\ pass.op \in {"run_due", "apply"} => Quiet(w)
  BY WorkIsBooked DEF Working, Booked
<1>3. Charged(w)
  BY <1>1, <1>2, BooksParts DEF AccountInv, Fine
<1>4. /\ o = Operation(p, w.st[p]) /\ o.participant = p
      /\ \A q \in Participants \ {p} : v.st[q] = w.st[q]
  BY DEF Closed, Operation
<1>5. o \in Open(w, i) /\ (o \in Held(w, i) \/ Held(w, i) = {}) /\ InFlight(pass) \subseteq {o}
  BY <1>1, <1>4, ChargedIsHeld
<1>6. /\ Booked(v)
      /\ \A j \in DOMAIN Policies : Open(v, j) = Open(w, j) \ {o}
      /\ \A j \in DOMAIN Policies : \A x \in Open(v, j) : x.participant # p
      /\ v.led.reserves = w.led.reserves
  BY <1>1, <1>2, <1>3, <1>5, CommitBooked
<1>7. \A j \in DOMAIN Policies : Before(pass', j) = Before(pass, j) /\ Open(v, j) \subseteq Before(pass, j)
  <2>1. \A j \in DOMAIN Policies : Before(pass', j) = Before(pass, j)
    BY DEF Before
  <2>2. \A j \in DOMAIN Policies : Open(w, j) \subseteq Before(pass, j) \cup InFlight(pass)
    BY <1>1, <1>2 DEF Opening
  <2> QED  BY <1>5, <1>6, <2>1, <2>2
<1>8. Opening(pass')
  BY <1>7 DEF Opening
<1>9. /\ pass.todo # {} /\ p = TurnOf(pass, Min(pass.todo)) /\ Accepts(w, i)
      /\ \A j : Accepts(v, j) <=> Accepts(w, j)
  BY <1>2 DEF Turned, Accepts
<1>10. Going(pass')
  <2> SUFFICES ASSUME Controlling(pass')
               PROVE  /\ Moves(pass', v.clock) /\ pass.pred.led.reserves \subseteq v.led.reserves
                      /\ \A j \in DOMAIN Policies : \A x \in Open(v, j) \cap Before(pass', j) :
                             SameCourse(pass.pred.st[x.participant], v.st[x.participant])
                      /\ \A q \in Participants : Governed(q) /\ (i < PolicyOf(q) \/ ~Accepts(v, PolicyOf(q))) =>
                             SameCourse(pass.pred.st[q], v.st[q])
    BY DEF Going
  <2>1. Controlling(pass)
    BY <1>1, <1>2 DEF Controlling
  <2>2. /\ Moves(pass, w.clock) /\ pass.pred.led.reserves \subseteq w.led.reserves
        /\ \A j \in DOMAIN Policies : \A x \in Open(w, j) \cap Before(pass, j) :
               SameCourse(pass.pred.st[x.participant], w.st[x.participant])
        /\ \A q \in Participants : Governed(q) /\ (i < PolicyOf(q) \/ ~Accepts(w, PolicyOf(q))) =>
               SameCourse(pass.pred.st[q], w.st[q])
    BY <1>2, <2>1 DEF Going
  <2>3. \A j \in DOMAIN Policies : \A x \in Open(v, j) :
            x \in Open(w, j) /\ v.st[x.participant] = w.st[x.participant]
    <3>1. \A j \in DOMAIN Policies : \A x \in Open(v, j) : x \in Open(w, j) /\ x \in w.led.reserves
      BY <1>6 DEF Open
    <3> QED  BY <1>1, <1>4, <1>6, <3>1, ReservesTypes
  <2>4. Moves(pass', v.clock)
    BY <2>2 DEF Moves
  <2>5. ~(i < i)
    BY <1>1, PolicyTypes
  <2>6. \A q \in Participants : i < PolicyOf(q) \/ ~Accepts(v, PolicyOf(q)) => v.st[q] = w.st[q]
    BY <1>1, <1>4, <1>9, <2>5
  <2> QED  BY <1>6, <1>7, <1>9, <2>2, <2>3, <2>4, <2>6
<1>11. Turned(pass')
  <2>1. \A q : Past(pass', q) <=> Past(pass, q)
    BY DEF Past, TurnOf
  <2>2. ~Past(pass, p)
    BY <1>1, <1>9, TurnParts
  <2>3. \A q \in Participants \ {p} : Due(v, q) <=> Due(w, q)
    BY <1>4 DEF Due
  <2>4. \A q \in Participants : Past(pass', q) /\ Governed(q) /\ Accepts(v, PolicyOf(q)) => ~Due(v, q)
    BY <1>1, <1>2, <1>9, <2>1, <2>2, <2>3 DEF Turned
  <2> QED  BY <1>9, <2>4 DEF Turned
<1>12. ASSUME pass.op \in {"run_due", "apply"}  PROVE  Quiet(v)
  <2>1. Open(w, i) = {o} /\ Quiet(w)
    BY <1>1, <1>2, <1>5, <1>12 DEF Quiet
  <2>2. QuietIn(v, i)
    BY <1>1, <1>6, <2>1 DEF QuietIn
  <2>3. \A j \in DOMAIN Policies \ {i} : Open(v, j) = Open(w, j)
    <3>1. \A j \in DOMAIN Policies \ {i} : o \notin Open(w, j)
      BY <1>1, <1>4 DEF Open
    <3> QED  BY <1>6, <3>1
  <2>4. v.clock = w.clock
    OBVIOUS
  <2> HIDE DEF w, i
  <2> QED  BY <1>1, <1>2, <1>4, <2>1, <2>2, <2>3, <2>4, OthersStayQuiet
<1> QED  BY <1>6, <1>8, <1>10, <1>11, <1>12 DEF Entered

LEMMA SettleActivityKeepsBalance ==
    ASSUME FlightInv, AccountInv, StepInv, FlightInv', BalanceInv, NEW p \in pass.fly, NEW outcome, NEW extent,
           SettleActivity(p, outcome, extent)
    PROVE  BalanceInv'
<1> DEFINE w == pass.work
           i == pass.pol
           s == w.st[p]
           o == Operation(p, s)
           tick == w.clock.tick
           budgets == Policies[i].budgets
           measured == [b \in budgets |-> CASE extent = "none" -> 0
                                             [] extent = "reserved" -> Budget[b].demand
                                             [] extent = "more" -> Budget[b].demand + 1]
           g == w.svc[i].generation
           commit == Commit(w.led, budgets, o, g, measured)
<1>1. pass.pc = "flight" /\ pass.fly = {p} /\ Governed(p)
  BY DEF SettleActivity
<1>2. /\ pass \in Passes /\ w \in Snapshots /\ p \in Participants /\ PolicyOf(p) = i /\ s \in SchedulerStates
      /\ tick \in Nat
  BY <1>1, FlightParts, GovernedParts
<1>3. commit.disposition \in {"ok", "refused", "raised"}
  <2> HIDE DEF measured, budgets
  <2> QED  BY ResultsOfLedger
<1>4. CASE commit.disposition = "ok"
  <2>1. /\ \E next \in NextActivityStates(p, s, tick, outcome) :
              Settled([w EXCEPT !.led = commit.ledger, !.st[p] = next], next.life = "failed")
        /\ UNCHANGED <<snap, driver, read, log>>
    BY <1>4 DEF SettleActivity
  <2>2. PICK next \in NextActivityStates(p, s, tick, outcome) :
            Settled([w EXCEPT !.led = commit.ledger, !.st[p] = next], next.life = "failed")
    BY <2>1
  <2> DEFINE l == commit.ledger
             v == [w EXCEPT !.led = l, !.st[p] = next]
             failed == next.life = "failed"
  <2>3. Settled(v, failed)
    BY <2>2
  <2>4. OneFurther(s, next)
    <3> HIDE DEF s, tick
    <3> QED  BY <1>2, ActivityMoves
  <2>5. commit = Commit(w.led, budgets, o, g, measured) /\ o = Operation(p, w.st[p])
    OBVIOUS
  <2> HIDE DEF commit, o, measured, g
  <2>6. /\ v.led = commit.ledger /\ v.clock = w.clock /\ v.svc = w.svc /\ v.st[p] = next
        /\ \A q \in Participants \ {p} : v.st[q] = w.st[q]
    BY <1>2, SnapshotParts DEF Snapshots
  <2> HIDE DEF v, failed, l
  <2>7. Closed(w, v, p, i, o)
    <3>1. Commit(w.led, Policies[i].budgets, o, g, measured).disposition = "ok"
          /\ v.led = Commit(w.led, Policies[i].budgets, o, g, measured).ledger
      BY <1>4, <2>5, <2>6
    <3>2. OneFurther(w.st[p], v.st[p])
      BY <2>4, <2>6
    <3> HIDE DEF w, i, s
    <3> QED  BY <1>2, <2>5, <2>6, <3>1, <3>2 DEF Closed
  <2>8. /\ pass'.pc = "due" /\ pass'.op = pass.op /\ pass'.pred = pass.pred /\ pass'.work = v
        /\ pass'.pol = pass.pol /\ pass'.todo = pass.todo /\ pass'.base = Blank
    BY <1>2, <2>3 DEF Settled, Passes
  <2>9. v \in Snapshots
    <3>1. pass' \in Passes
      BY <2>8, PassTypes DEF FlightInv, TypeOK
    <3> QED  BY <2>8, <3>1 DEF Passes
  <2>10. ASSUME ~log.torn
         PROVE  /\ Entered(v) /\ Opening(pass') /\ Going(pass') /\ Turned(pass')
                /\ pass.op \in {"run_due", "apply"} => Quiet(v)
    BY <1>1, <2>6, <2>7, <2>8, <2>9, <2>10, CommitKeepsBalance
  <2>11. Working(pass) /\ Working(pass')
    BY <1>1, <2>8 DEF Working
  <2> QED  BY <2>1, <2>8, <2>10, <2>11, WorkKeepsBalance
<1>5. CASE commit.disposition = "refused"
  <2>1. Settled(w, TRUE) /\ log' = [log EXCEPT !.forgotten = @ \cup {o}] /\ UNCHANGED <<snap, driver, read>>
    BY <1>5 DEF SettleActivity
  <2>2. log'.torn = log.torn
    BY <2>1 DEF FlightInv, TypeOK
  <2>3. ~log.torn => Booked(w) /\ (pass.op \in {"run_due", "apply"} => Quiet(w))
    BY <1>1, WorkIsBooked DEF Working
  <2> QED  BY <1>1, <1>2, <2>1, <2>2, <2>3, FailedKeepsBalance
<1>6. CASE commit.disposition = "raised"
  <2>1. Raise
    BY <1>6 DEF SettleActivity
  <2> QED  BY <1>1, <2>1, RaiseKeepsBalance DEF Working
<1> QED  BY <1>3, <1>4, <1>5, <1>6

-----------------------------------------------------------------------------
(* The end of a pass                                                        *)

LEMMA EndKeepsBalance ==
    ASSUME BalanceInv, pass'.pc = "free", log'.torn = log.torn, read' = read,
           driver' = "publishing" => driver = "publishing",
           ~log.torn => Entered(snap') /\ (~IsBlank(snap') => Quiet(snap'))
    PROVE  BalanceInv'
<1> SUFFICES ASSUME ~log.torn  PROVE  Balances(pass', snap') /\ Resting(pass', snap', read', driver')
  BY BalanceParts
<1>1. Resting(pass, snap, read, driver)
  BY BalanceParts
<1>2. Balances(pass', snap')
  BY DEF Balances
<1>3. Resting(pass', snap', read', driver')
  BY <1>1 DEF Resting
<1> QED  BY <1>2, <1>3

\* A time control that has serviced everybody and is read back as agreeing with the
\* clock leaves open only what was open before it, in services that accept nothing.
LEMMA ControlEndsQuiet ==
    ASSUME FlightInv, StepInv, BalanceInv, ~log.torn, pass.pc = "due", pass.op \notin {"run_due", "apply"},
           ~pass.failed, pass.todo = {}, pass.pol = Len(Policies), ReadbackValid(pass.work)
    PROVE  Quiet(pass.work)
<1> DEFINE w == pass.work
           v == pass.pred
<1>1. Working(pass) /\ ~Free /\ Controlling(pass)
  BY DEF Working, Free, Controlling
<1>2. /\ pass \in Passes /\ w \in Snapshots /\ Booked(w) /\ Opening(pass) /\ Going(pass) /\ Turned(pass)
      /\ QuietPass(pass, snap) /\ Entered(v)
  BY <1>1, WorkIsBooked
<1>3. v \in Snapshots /\ ~IsBlank(v)
  BY <1>1, <1>2, Blanks, PassParts DEF FlightInv, Populated
<1>4. Recorded(v) /\ Quiet(v) /\ Stepped(v)
  BY <1>1, <1>2, <1>3 DEF Entered, Booked, QuietPass, StepInv, KeptInStep
<1>5. \A p \in Participants : w.st[p].inFlight = 0
  BY <1>1 DEF FlightInv, KeptAtRest, AtRest
<1>6. \A p \in Participants : Past(pass, p) /\ Timely(w, p)
  <2> TAKE p \in Participants
  <2>1. PolicyOf(p) \in 1..Len(Policies) /\ Len(Policies) \in Nat
    BY PolicyIsUnique, PolicyTypes
  <2>2. Past(pass, p) /\ PassedBy(p)
    BY <2>1 DEF Past, PassedBy
  <2> QED  BY <2>2 DEF StepInv, PassedInTime
<1>7. pass.op # "pause"
  BY DEF StepInv, PassedInTime
<1>8. \A i \in DOMAIN Policies : Open(w, i) \subseteq Open(v, i)
  BY <1>1, <1>2, <1>3 DEF Opening, Before, InFlight
<1>9. ASSUME NEW i \in DOMAIN Policies, NEW o \in Open(w, i)
      PROVE  /\ Open(w, i) = {o}
             /\ Waits(w, o.participant) /\ w.st[o.participant].next <= w.clock.tick
             /\ \A p \in Participants : HasTurnBefore(p, o.participant) /\ Waits(w, p) =>
                    w.st[p].next # w.st[o.participant].next
  <2> DEFINE q == o.participant
  <2>1. o \in Open(v, i)
    BY <1>8
  <2>2. q \in Participants /\ Governed(q) /\ PolicyOf(q) = i
    BY <1>3, <1>4, <2>1, ReservesTypes DEF Open, Recorded
  <2>3. SameCourse(v.st[q], w.st[q])
    BY <1>1, <1>2, <1>3, <2>1 DEF Going, Before
  <2>4. /\ Open(v, i) = {o} /\ Waits(v, q) /\ v.st[q].next <= v.clock.tick
        /\ \A p \in Participants : HasTurnBefore(p, q) /\ Waits(v, p) => v.st[p].next # v.st[q].next
    BY <1>4, <2>1 DEF Quiet
  <2>5. Open(w, i) = {o}
    BY <1>8, <2>4
  <2>6. Waits(w, q) /\ w.st[q].next = v.st[q].next
    BY <2>3, <2>4 DEF SameCourse, Waits
  <2>7. v.clock.segment = w.clock.segment
    BY <1>4, <2>2, <2>3 DEF ReadbackValid, Stepped, Agreeing, SameCourse
  <2>8. v.clock.tick <= w.clock.tick /\ w.clock.state = "running"
    <3>1. Moves(pass, w.clock)
      BY <1>1, <1>2 DEF Going
    <3>2. w.clock.tick >= v.clock.tick /\ w.clock.state = "running"
      BY <1>7, <2>7, <3>1 DEF Moves
    <3> QED  BY <1>2, <1>3, <3>2, SnapshotParts
  <2>9. /\ w.st[q].next \in Nat /\ w.clock.tick \in Nat /\ v.clock.tick \in Nat
    BY <1>2, <1>3, <2>2, SnapshotParts DEF SchedulerStates
  <2>10. w.st[q].next <= w.clock.tick
    BY <2>4, <2>6, <2>8, <2>9
  <2>11. ~Accepts(w, i)
    <3> SUFFICES ASSUME Accepts(w, i)  PROVE  FALSE
      OBVIOUS
    <3>1. w.st[q].life = "running"
      BY <2>2, <2>6, <2>8 DEF ReadbackValid, Waits
    <3>2. w.st[q].next >= w.clock.tick
      BY <1>6, <2>2, <3>1 DEF Timely
    <3>3. w.st[q].next = w.clock.tick
      BY <2>9, <2>10, <3>2
    <3>4. Due(w, q)
      BY <1>5, <2>2, <2>6, <3>1, <3>3 DEF Due, Waits
    <3> QED  BY <1>1, <1>2, <1>6, <2>2, <3>4 DEF Turned
  <2>12. ASSUME NEW p \in Participants, HasTurnBefore(p, q), Waits(w, p)
         PROVE  w.st[p].next # w.st[q].next
    <3>1. Governed(p) /\ PolicyOf(p) = i
      BY <2>2, <2>12, TurnsInPolicy
    <3>2. SameCourse(v.st[p], w.st[p])
      BY <1>1, <1>2, <2>11, <3>1 DEF Going
    <3>3. Waits(v, p) /\ w.st[p].next = v.st[p].next
      BY <2>12, <3>2 DEF SameCourse, Waits
    <3> QED  BY <2>4, <2>6, <2>12, <3>3
  <2> QED  BY <2>5, <2>6, <2>10, <2>12
<1> QED  BY <1>9 DEF Quiet

LEMMA PublishDueKeepsBalance ==
    ASSUME FlightInv, StepInv, BalanceInv, PublishDue
    PROVE  BalanceInv'
<1>1. /\ pass.pc = "due" /\ ~Free /\ snap' = pass.work /\ read' = read /\ log' = log
      /\ pass.failed \/ (pass.todo = {} /\ pass.pol = Len(Policies))
  BY DEF PublishDue, Free
<1>2. Working(pass) /\ pass \in Passes /\ pass.work \in Snapshots
  BY <1>1, PassParts DEF FlightInv, Working
<1>3. ~log.torn => /\ Booked(pass.work) /\ Balances(pass, snap) /\ Resting(pass, snap, read, driver)
                   /\ pass.op \in {"run_due", "apply"} => Quiet(pass.work)
  BY <1>2, WorkIsBooked, BalanceParts
<1>4. ~log.torn => Entered(snap')
  BY <1>1, <1>3 DEF Entered
<1>5. CASE pass.op \in {"apply", "run_due"}
  <2>1. driver' # "publishing" \/ driver' = driver
    BY <1>5 DEF PublishDue, Return
  <2>2. pass'.pc = "free"
    BY <1>5, PassTypes DEF PublishDue, Return
  <2>3. ~log.torn => Quiet(snap')
    BY <1>1, <1>3, <1>5
  <2> QED  BY <1>1, <1>4, <2>1, <2>2, <2>3, EndKeepsBalance
<1>6. CASE pass.op \in {"advance", "jump"}
  <2>1. pass' = [pass EXCEPT !.pc = "conclude"] /\ driver' = driver
    BY <1>6 DEF PublishDue
  <2>2. /\ pass'.pc = "conclude" /\ pass'.pred = pass.pred /\ pass'.op = pass.op /\ pass'.failed = pass.failed
        /\ pass'.work = pass.work /\ pass'.base = pass.base
    BY <1>2, <2>1 DEF Passes
  <2> SUFFICES ASSUME ~log.torn  PROVE  Balances(pass', snap') /\ Resting(pass', snap', read', driver')
    BY <1>1, BalanceParts
  <2>3. QuietPass(pass', snap')
    <3>1. ~IsBlank(pass.pred) => Quiet(pass.pred)
      BY <1>1, <1>3 DEF Balances, QuietPass, Free
    <3>2. ~pass.failed /\ ReadbackValid(pass.work) => Quiet(pass.work)
      BY <1>1, <1>6, ControlEndsQuiet
    <3> QED  BY <1>1, <1>6, <2>2, <3>1, <3>2 DEF QuietPass
  <2>4. Balances(pass', snap')
    <3>1. Entered(pass'.pred) /\ Entered(pass'.work) /\ Entered(pass'.base)
      BY <1>1, <1>3, <2>2 DEF Balances, Free
    <3>2. Begun(pass', snap') /\ Opening(pass') /\ Going(pass') /\ Turned(pass')
      BY <2>2 DEF Begun, Opening, Going, Controlling, Turned, Working
    <3> QED  BY <2>3, <3>1, <3>2 DEF Balances
  <2>5. Resting(pass', snap', read', driver')
    BY <1>1, <1>3, <1>4, <2>1, <2>2 DEF Resting
  <2> QED  BY <2>4, <2>5
<1> QED  BY <1>5, <1>6 DEF PublishDue

LEMMA ConcludeKeepsBalance ==
    ASSUME FlightInv, BalanceInv, Conclude
    PROVE  BalanceInv'
<1> DEFINE ok == ~pass.failed /\ ReadbackValid(snap)
<1>1. /\ pass.pc = "conclude" /\ ~Free /\ read' = read /\ pass'.pc = "free"
      /\ snap' = IF ok THEN snap ELSE pass.pred
      /\ log' = IF ok THEN log ELSE Forget(pass.pred)
      /\ driver' = "publishing" => driver = "publishing"
  BY PassTypes DEF Conclude, Free, Return
<1>2. log'.torn = log.torn
  BY <1>1 DEF FlightInv, TypeOK, Forget
<1>3. ASSUME ~log.torn
      PROVE  /\ Entered(snap) /\ Entered(pass.pred) /\ (ok => Quiet(snap))
             /\ ~IsBlank(pass.pred) => Quiet(pass.pred)
  BY <1>1, <1>3, BalanceParts DEF Balances, Resting, QuietPass, Free
<1> HIDE DEF ok
<1>4. ~log.torn => Entered(snap') /\ (~IsBlank(snap') => Quiet(snap'))
  BY <1>1, <1>3
<1> QED  BY <1>1, <1>2, <1>4, EndKeepsBalance

-----------------------------------------------------------------------------
(* The beginning of a pass                                                  *)

LEMMA NobodyIsPast ==
    ASSUME NEW x, x.pol = 0, NEW p \in Participants
    PROVE  ~Past(x, p)
<1>1. PolicyOf(p) \in 1..Len(Policies)
  BY PolicyIsUnique, PolicyTypes
<1> QED  BY <1>1 DEF Past

LEMMA ServiceKeepsBalance ==
    ASSUME BalanceInv, Free, NEW by, NEW op \in {"run_due", "apply"}, NEW w,
           pass' = Pass(by, op, "due", snap, w), UNCHANGED <<snap, read, log>>,
           driver' = "publishing" => driver = "publishing",
           ~log.torn => /\ Entered(w) /\ Quiet(w)
                        /\ \A i \in DOMAIN Policies : Open(w, i) \subseteq IF IsBlank(snap) THEN {} ELSE Open(snap, i)
    PROVE  BalanceInv'
<1>1. /\ pass'.pc = "due" /\ pass'.op = op /\ pass'.pred = snap /\ pass'.work = w /\ pass'.pol = 0
      /\ pass'.todo = {} /\ pass'.base = Blank
  BY DEF Pass
<1> SUFFICES ASSUME ~log.torn  PROVE  Balances(pass', snap') /\ Resting(pass', snap', read', driver')
  BY BalanceParts
<1>2. Resting(pass, snap, read, driver) /\ pass.pc = "free"
  BY BalanceParts DEF Free
<1>3. Entered(snap) /\ (~IsBlank(snap) => Quiet(snap))
  BY <1>2 DEF Resting
<1>4. Entered(pass'.pred) /\ Entered(pass'.work) /\ Entered(pass'.base)
  BY <1>1, <1>3, Blanks DEF Entered
<1>5. QuietPass(pass', snap') /\ Begun(pass', snap') /\ Going(pass')
  BY <1>1, <1>3 DEF QuietPass, Begun, Going, Controlling
<1>6. Opening(pass')
  BY <1>1 DEF Opening, Before
<1>7. Turned(pass')
  BY <1>1, NobodyIsPast DEF Turned
<1>8. Balances(pass', snap')
  BY <1>4, <1>5, <1>6, <1>7 DEF Balances
<1>9. Resting(pass', snap', read', driver')
  BY <1>1, <1>2 DEF Resting
<1> QED  BY <1>8, <1>9

LEMMA BeginKeepsBalance ==
    ASSUME FlightInv, BalanceInv, Free, ~IsBlank(snap), NEW by, NEW op, op \notin {"run_due", "apply"},
           NEW clock \in Clocks, Begin(by, op, clock),
           clock.segment = snap.clock.segment =>
               clock.tick >= snap.clock.tick /\ (op # "pause" => clock.state = "running"),
           driver' = "publishing" => driver = "publishing"
    PROVE  BalanceInv'
<1>1. /\ pass'.pc = "sync" /\ pass'.op = op /\ pass'.pred = snap /\ pass'.work = snap /\ pass'.base = Blank
      /\ snap' = [snap EXCEPT !.clock = clock] /\ UNCHANGED <<read, log>>
  BY DEF Begin, Pass
<1>2. snap \in Snapshots
  BY Blanks DEF FlightInv, TypeOK
<1>3. snap' \in Snapshots /\ snap'.st = snap.st /\ snap'.led = snap.led /\ snap'.clock = clock
  BY <1>1, <1>2 DEF Snapshots
<1> SUFFICES ASSUME ~log.torn  PROVE  Balances(pass', snap') /\ Resting(pass', snap', read', driver')
  BY <1>1, BalanceParts
<1>4. Resting(pass, snap, read, driver) /\ pass.pc = "free"
  BY BalanceParts DEF Free
<1>5. Entered(snap) /\ Quiet(snap) /\ Booked(snap)
  BY <1>4 DEF Resting, Entered
<1>6. Entered(snap')
  <2>1. Stays(snap, snap')
    BY <1>3, SameStays
  <2> QED  BY <1>2, <1>3, <1>5, <2>1, StayingBooked DEF Booked, Entered
<1>7. Entered(pass'.pred) /\ Entered(pass'.work) /\ Entered(pass'.base)
  BY <1>1, <1>5, Blanks DEF Entered
<1>8. Begun(pass', snap')
  BY <1>1, <1>3 DEF Begun, Moves, SameCourse
<1>9. QuietPass(pass', snap') /\ Opening(pass') /\ Going(pass') /\ Turned(pass')
  BY <1>1, <1>5 DEF QuietPass, Opening, Going, Controlling, Turned, Working
<1>10. Balances(pass', snap')
  BY <1>7, <1>8, <1>9 DEF Balances
<1>11. Resting(pass', snap', read', driver')
  BY <1>1, <1>4, <1>6 DEF Resting
<1> QED  BY <1>10, <1>11

LEMMA CallKeepsBalance ==
    ASSUME FlightInv, BalanceInv,
           \/ \E ticks \in 1..MaxTick : Advance(ticks)
           \/ Pause \/ Resume \/ RunDue
           \/ \E tick \in 0..MaxTick : Jump(tick)
           \/ \E preserve \in BOOLEAN : Reset(preserve)
    PROVE  BalanceInv'
<1>1. Free /\ ~IsBlank(snap) /\ driver' = driver
  BY DEF Advance, Pause, Resume, RunDue, Jump, Reset, Call, IsBlank
<1>2. snap \in Snapshots
  BY <1>1, Blanks DEF FlightInv, TypeOK
<1>3. /\ snap.clock \in Clocks /\ snap.clock.segment \in Nat /\ snap.clock.tick \in Nat
  BY <1>2, SnapshotParts
<1>4. ASSUME NEW op, op \notin {"run_due", "apply"}, NEW clock \in Clocks, Begin("client", op, clock),
             clock.segment = snap.clock.segment =>
                 clock.tick >= snap.clock.tick /\ (op # "pause" => clock.state = "running")
      PROVE  BalanceInv'
  <2> DEFINE by == "client"
  <2>1. Begin(by, op, clock)
    BY <1>4
  <2> HIDE DEF by
  <2> QED  BY <1>1, <1>4, <2>1, BeginKeepsBalance
<1>5. ASSUME NEW ticks \in 1..MaxTick, Advance(ticks)  PROVE  BalanceInv'
  <2> DEFINE t == snap.clock.tick + ticks
             clock == [snap.clock EXCEPT !.tick = t]
  <2>1. t \in Nat /\ t >= snap.clock.tick /\ snap.clock.state = "running" /\ Begin("client", "advance", clock)
    BY <1>3, <1>5, BoundsAssumption DEF Advance
  <2> HIDE DEF t
  <2>2. clock \in Clocks /\ clock.tick = t /\ clock.state = snap.clock.state
    BY <1>3, <2>1 DEF Clocks
  <2> HIDE DEF clock
  <2> QED  BY <1>4, <2>1, <2>2
<1>6. ASSUME Pause  PROVE  BalanceInv'
  <2> DEFINE clock == [snap.clock EXCEPT !.state = "paused"]
  <2>1. Begin("client", "pause", clock)
    BY <1>6 DEF Pause
  <2>2. clock \in Clocks /\ clock.tick = snap.clock.tick
    BY <1>3 DEF Clocks
  <2>3. clock.tick >= snap.clock.tick
    BY <1>3, <2>2
  <2> HIDE DEF clock
  <2> QED  BY <1>4, <2>1, <2>2, <2>3
<1>7. ASSUME Resume  PROVE  BalanceInv'
  <2> DEFINE clock == [snap.clock EXCEPT !.state = "running"]
  <2>1. Begin("client", "resume", clock)
    BY <1>7 DEF Resume
  <2>2. clock \in Clocks /\ clock.tick = snap.clock.tick /\ clock.state = "running"
    BY <1>3 DEF Clocks
  <2>3. clock.tick >= snap.clock.tick
    BY <1>3, <2>2
  <2> HIDE DEF clock
  <2> QED  BY <1>4, <2>1, <2>2, <2>3
<1>8. ASSUME RunDue  PROVE  BalanceInv'
  <2>1. pass' = Pass("client", "run_due", "due", snap, snap) /\ UNCHANGED <<snap, read, log>>
    BY <1>8 DEF RunDue
  <2>2. ~log.torn => Entered(snap) /\ Quiet(snap)
    BY <1>1, BalanceParts DEF Resting, Free
  <2> DEFINE by == "client"
             op == "run_due"
  <2>3. pass' = Pass(by, op, "due", snap, snap) /\ op \in {"run_due", "apply"}
    BY <2>1
  <2> HIDE DEF by, op
  <2> QED  BY <1>1, <2>1, <2>2, <2>3, ServiceKeepsBalance
<1>9. ASSUME NEW tick \in 0..MaxTick, Jump(tick)  PROVE  BalanceInv'
  <2> DEFINE s == snap.clock.segment + 1
             clock == [snap.clock EXCEPT !.segment = s, !.tick = tick]
  <2>1. s \in Nat /\ s # snap.clock.segment /\ tick \in Nat
    BY <1>3, BoundsAssumption
  <2>2. Begin("client", "jump", clock)
    BY <1>9 DEF Jump
  <2> HIDE DEF s
  <2>3. clock \in Clocks /\ clock.segment = s
    BY <1>3, <2>1 DEF Clocks
  <2> HIDE DEF clock
  <2> QED  BY <1>4, <2>1, <2>2, <2>3
<1>10. ASSUME NEW preserve \in BOOLEAN, Reset(preserve)  PROVE  BalanceInv'
  <2> DEFINE s == snap.clock.segment + 1
             t == IF preserve THEN snap.clock.tick ELSE 0
             clock == [state |-> "running", segment |-> s, tick |-> t]
  <2>1. s \in Nat /\ s # snap.clock.segment /\ t \in Nat /\ Begin("client", "reset", clock)
    BY <1>3, <1>10 DEF Reset
  <2> HIDE DEF s, t
  <2>2. clock \in Clocks /\ clock.segment = s
    BY <2>1 DEF Clocks
  <2> HIDE DEF clock
  <2> QED  BY <1>4, <2>1, <2>2
<1> QED  BY <1>5, <1>6, <1>7, <1>8, <1>9, <1>10

\* A time control that services what is due goes on from its predecessor: the clock has
\* moved, and participants were resumed, but everybody is where they were.
LEMMA SyncKeepsBalance ==
    ASSUME FlightInv, AccountInv, StepInv, BalanceInv, Sync
    PROVE  BalanceInv'
<1>1. pass.pc = "sync" /\ ~Free /\ UNCHANGED <<driver, read, log>>
  BY DEF Sync, Free
<1>2. /\ pass \in Passes /\ pass.op \notin {"apply", "run_due"} /\ snap \in Snapshots
      /\ pass.pred \in Snapshots /\ ~IsBlank(pass.pred)
  BY <1>1, PassParts, Blanks DEF FlightInv, TypeOK, Populated
<1> SUFFICES ASSUME ~log.torn  PROVE  Balances(pass', snap') /\ Resting(pass', snap', read', driver')
  BY <1>1, BalanceParts
<1>3. Balances(pass, snap) /\ Resting(pass, snap, read, driver)
  BY BalanceParts
<1>4. /\ Booked(pass.pred) /\ Quiet(pass.pred) /\ Stepped(pass.pred) /\ Moves(pass, snap.clock)
      /\ \A p \in Participants : SameCourse(pass.pred.st[p], snap.st[p])
      /\ snap.led = pass.pred.led /\ Entered(pass.work) /\ Entered(pass.base) /\ Booked(snap)
  BY <1>1, <1>2, <1>3, Blanks DEF Balances, Resting, Entered, QuietPass, Begun, StepInv, KeptInStep
<1>5. pass.pol = 0 /\ pass.todo = {}
  <2>1. pass.pol = 0
    BY <1>1 DEF StepInv, PassedInTime
  <2>2. pass.todo # {} => pass.pol \in DOMAIN Policies
    BY <1>1 DEF FlightInv, OnCourse
  <2> QED  BY <2>1, <2>2, PolicyTypes
<1>6. ASSUME NEW v \in Snapshots, v.clock = snap.clock, v.led = snap.led,
             \A p \in Participants : SameCourse(snap.st[p], v.st[p])
      PROVE  /\ Stays(pass.pred, v) /\ Booked(v)
             /\ \A i \in DOMAIN Policies : Open(v, i) = Open(pass.pred, i)
             /\ \A p \in Participants : SameCourse(pass.pred.st[p], v.st[p])
  <2>1. \A p \in Participants : SameCourse(pass.pred.st[p], v.st[p])
    BY <1>4, <1>6 DEF SameCourse
  <2>2. Stays(pass.pred, v)
    BY <1>4, <1>6, <2>1 DEF Stays
  <2> QED  BY <1>2, <1>4, <2>1, <2>2, StayingBooked DEF Booked
<1>7. ASSUME pass.op \in {"advance", "jump"}, NEW v \in Snapshots, v.clock = snap.clock, v.led = snap.led,
             \A p \in Participants : SameCourse(snap.st[p], v.st[p]),
             pass' = [pass EXCEPT !.pc = "due", !.work = v], snap' = v
      PROVE  Balances(pass', snap') /\ Resting(pass', snap', read', driver')
  <2>1. /\ pass'.pc = "due" /\ pass'.pred = pass.pred /\ pass'.op = pass.op /\ pass'.pol = 0
        /\ pass'.todo = {} /\ pass'.base = pass.base /\ pass'.work = v
    BY <1>2, <1>5, <1>7 DEF Passes
  <2>2. /\ Booked(v) /\ \A i \in DOMAIN Policies : Open(v, i) = Open(pass.pred, i)
        /\ \A p \in Participants : SameCourse(pass.pred.st[p], v.st[p])
    BY <1>6, <1>7
  <2>3. Entered(pass'.pred) /\ Entered(pass'.work) /\ Entered(pass'.base)
    BY <1>4, <2>1, <2>2 DEF Entered
  <2>4. QuietPass(pass', snap') /\ Begun(pass', snap')
    BY <1>4, <1>7, <2>1 DEF QuietPass, Begun
  <2>5. Opening(pass')
    BY <1>2, <2>1, <2>2 DEF Opening, Before
  <2>6. Turned(pass')
    BY <2>1, NobodyIsPast DEF Turned
  <2>7. Going(pass')
    <3>1. Moves(pass', v.clock)
      BY <1>4, <1>7, <2>1 DEF Moves
    <3>2. pass.pred.led.reserves \subseteq v.led.reserves
      BY <1>4, <1>7
    <3>3. \A i \in DOMAIN Policies : \A o \in Open(v, i) : o.participant \in Participants
      BY <1>7, ReservesTypes DEF Open
    <3> QED  BY <2>1, <2>2, <3>1, <3>2, <3>3 DEF Going
  <2>8. Balances(pass', snap')
    BY <2>3, <2>4, <2>5, <2>6, <2>7 DEF Balances
  <2>9. Resting(pass', snap', read', driver')
    BY <1>1, <1>3, <1>7, <2>1, <2>2 DEF Resting, Entered
  <2> QED  BY <2>8, <2>9
<1>8. ASSUME NEW failed, pass' = [pass EXCEPT !.pc = "conclude", !.failed = failed],
             Booked(snap'), ReadbackValid(snap') => Quiet(snap')
      PROVE  Balances(pass', snap') /\ Resting(pass', snap', read', driver')
  <2>1. /\ pass'.pc = "conclude" /\ pass'.pred = pass.pred /\ pass'.op = pass.op
        /\ pass'.base = pass.base /\ pass'.work = pass.work
    BY <1>2, <1>8 DEF Passes
  <2>2. Entered(pass'.pred) /\ Entered(pass'.work) /\ Entered(pass'.base)
    BY <1>4, <2>1 DEF Entered
  <2>3. QuietPass(pass', snap')
    BY <1>2, <1>4, <1>8, <2>1 DEF QuietPass
  <2>4. Begun(pass', snap') /\ Opening(pass') /\ Going(pass') /\ Turned(pass')
    BY <2>1 DEF Begun, Opening, Going, Controlling, Turned, Working
  <2>5. Balances(pass', snap')
    BY <2>2, <2>3, <2>4 DEF Balances
  <2>6. Resting(pass', snap', read', driver')
    BY <1>1, <1>3, <1>8, <2>1 DEF Resting, Entered
  <2> QED  BY <2>5, <2>6
<1>9. CASE pass.op \in {"advance", "jump"}
  <2>1. pass' = [pass EXCEPT !.pc = "due", !.work = snap] /\ snap' = snap
    BY <1>9 DEF Sync
  <2>2. \A p \in Participants : SameCourse(snap.st[p], snap.st[p])
    BY DEF SameCourse
  <2> QED  BY <1>2, <1>7, <1>9, <2>1, <2>2
<1>10. ASSUME NEW life \in {"running", "paused"}
       PROVE  LET v == ClockLifecycle(snap, life)
              IN  /\ v \in Snapshots /\ v.clock = snap.clock /\ v.led = snap.led
                  /\ \A p \in Participants : SameCourse(snap.st[p], v.st[p])
  BY <1>2, ClockLifecycleTypes, LifecycleStays DEF Stays
<1>11. CASE pass.op = "resume"
  <2> DEFINE v == ClockLifecycle(snap, "running")
  <2>1. pass' = [pass EXCEPT !.op = "advance"] /\ snap' = v
    BY <1>11 DEF Sync
  <2>2. /\ v \in Snapshots /\ v.clock = snap.clock /\ v.led = snap.led
        /\ \A p \in Participants : SameCourse(snap.st[p], v.st[p])
    BY <1>10
  <2> HIDE DEF v
  <2>3. Booked(v) /\ \A p \in Participants : SameCourse(pass.pred.st[p], v.st[p])
    BY <1>6, <2>2
  <2>4. /\ pass'.pc = "sync" /\ pass'.pred = pass.pred /\ pass'.op = "advance"
        /\ pass'.base = pass.base /\ pass'.work = pass.work
    BY <1>1, <1>2, <2>1 DEF Passes
  <2>5. Entered(pass'.pred) /\ Entered(pass'.work) /\ Entered(pass'.base) /\ Entered(snap')
    BY <1>4, <2>1, <2>3, <2>4 DEF Entered
  <2>6. QuietPass(pass', snap') /\ Opening(pass') /\ Going(pass') /\ Turned(pass')
    BY <1>4, <2>4 DEF QuietPass, Opening, Going, Controlling, Turned, Working
  <2>7. Begun(pass', snap')
    BY <1>4, <1>11, <2>1, <2>2, <2>3, <2>4 DEF Begun, Moves
  <2>8. Balances(pass', snap')
    BY <2>5, <2>6, <2>7 DEF Balances
  <2>9. Resting(pass', snap', read', driver')
    BY <1>1, <1>3, <2>4, <2>5 DEF Resting
  <2> QED  BY <2>8, <2>9
<1>12. CASE pass.op = "pause"
  <2> DEFINE v == ClockLifecycle(snap, "paused")
  <2>1. pass' = [pass EXCEPT !.pc = "conclude"] /\ snap' = v
    BY <1>12 DEF Sync
  <2>2. /\ v \in Snapshots /\ v.clock = snap.clock /\ v.led = snap.led
        /\ \A p \in Participants : SameCourse(snap.st[p], v.st[p])
    BY <1>10
  <2> HIDE DEF v
  <2>3. pass' = [pass EXCEPT !.pc = "conclude", !.failed = pass.failed]
    BY <1>2, <2>1 DEF Passes
  <2>4. Stays(pass.pred, v) /\ Booked(v)
    BY <1>6, <2>2
  <2>5. v.clock.segment = pass.pred.clock.segment => pass.pred.clock.tick <= v.clock.tick
    <3>1. v.clock.tick \in Nat /\ pass.pred.clock.tick \in Nat
      BY <1>2, <2>2, SnapshotParts
    <3> QED  BY <1>4, <2>2, <3>1 DEF Moves
  <2>6. ReadbackValid(v) => Quiet(v)
    BY <1>2, <1>4, <2>2, <2>4, <2>5, StayingQuietInTime DEF Booked
  <2> QED  BY <1>8, <2>1, <2>3, <2>4, <2>6
<1>13. CASE pass.op = "reset"
  <2> DEFINE failed == ReconcileAll(snap).disposition # "ok"
  <2>1. pass' = [pass EXCEPT !.pc = "conclude", !.failed = failed] /\ snap' \in ResetSnapshots(snap)
    BY <1>13 DEF Sync
  <2> HIDE DEF failed
  <2>2. PICK v \in ResetSnapshots(snap) : snap' = v
    BY <2>1
  <2>3. Sound(snap)
    BY <1>2, Blanks, BooksParts DEF AccountInv, Fine
  <2>4. \A p \in Participants : snap.st[p].segment < snap.clock.segment
    BY <1>1, <1>13 DEF AccountInv, ResetIsNew
  <2>5. Booked(v) /\ Quiet(v)
    BY <1>2, <1>4, <2>3, <2>4, ResetBooked DEF Booked
  <2> QED  BY <1>8, <2>1, <2>2, <2>5
<1> QED  BY <1>9, <1>11, <1>12, <1>13 DEF Sync

LEMMA AnswerKeepsBalance ==
    ASSUME FlightInv, AccountInv, StepInv, FlightInv', BalanceInv, Answer
    PROVE  BalanceInv'
<1>1. ASSUME NEW p \in Flying  PROVE  p \in pass.fly
  BY DEF Flying
<1>2. CASE NativeRaises
  BY <1>2, RaiseKeepsBalance DEF NativeRaises, Working
<1>3. CASE \E p \in Flying, result \in {"succeeded", "failed", "invalid"} : SettleAction(p, result)
  BY <1>1, <1>3, SettleActionKeepsBalance
<1>4. CASE \E p \in Flying, outcome \in {"succeeded", "failed", "retryable"},
              extent \in {"none", "reserved", "more"} : SettleActivity(p, outcome, extent)
  BY <1>1, <1>4, SettleActivityKeepsBalance
<1>5. CASE \E p \in Flying : SettleUntrusted(p)
  BY <1>1, <1>5, SettleUntrustedKeepsBalance
<1>6. CASE (\E results : SettleResults(results)) \/ SettleLost
  BY <1>6, SettleBatchKeepsBalance
<1> QED  BY <1>2, <1>3, <1>4, <1>5, <1>6 DEF Answer

LEMMA PassStepKeepsBalance ==
    ASSUME FlightInv, AccountInv, StepInv, FlightInv', BalanceInv, PassStep
    PROVE  BalanceInv'
<1>1. CASE Answer
  BY <1>1, AnswerKeepsBalance
<1>2. CASE \E p \in Participants : BindRaises(p)
  BY <1>2, RaiseKeepsBalance DEF BindRaises, Serial, Selecting, Working
<1>3. CASE \/ FailBeforeDispatch \/ LeaveBatches \/ EnterPolicy
           \/ \E p \in Participants : SkipParticipant(p) \/ CadenceMissed(p)
  BY <1>3, SelectionKeepsBalance, EnterPolicyKeepsBalance, SkipKeepsBalance
<1>4. CASE \E p \in Participants : SubmitAction(p) \/ NoCandidate(p) \/ SubmitActivity(p)
  BY <1>4, SubmitActionKeepsBalance, NoCandidateKeepsBalance, SubmitActivityKeepsBalance
<1>5. CASE Sync \/ SubmitBatch
  BY <1>5, SyncKeepsBalance, SubmitBatchKeepsBalance
<1>6. CASE PublishDue \/ Conclude
  BY <1>6, PublishDueKeepsBalance, ConcludeKeepsBalance
<1> QED  BY <1>1, <1>2, <1>3, <1>4, <1>5, <1>6 DEF PassStep

-----------------------------------------------------------------------------
(* The driver, the client and the initial state                             *)

\* A step that publishes nothing; what is read to be published later is quiet.
LEMMA ReadingKeepsBalance ==
    ASSUME BalanceInv, UNCHANGED <<snap, pass>>, log'.torn = log.torn, read' \in {read, snap, Blank},
           driver' = "publishing" => \/ driver = "publishing" /\ read' = read
                                     \/ Free /\ ~IsBlank(snap) /\ read' = snap
    PROVE  BalanceInv'
<1> SUFFICES ASSUME ~log.torn  PROVE  Balances(pass', snap') /\ Resting(pass', snap', read', driver')
  BY BalanceParts
<1>1. Balances(pass, snap) /\ Resting(pass, snap, read, driver)
  BY BalanceParts
<1>2. Entered(read')
  BY <1>1, Blanks DEF Resting, Entered
<1>3. Resting(pass', snap', read', driver')
  BY <1>1, <1>2 DEF Resting, Free
<1> QED  BY <1>1, <1>3

LEMMA TornKeepsBalance ==
    ASSUME log'.torn
    PROVE  BalanceInv'
BY BalanceParts

LEMMA DriverStepKeepsBalance ==
    ASSUME FlightInv, BalanceInv, DriverStep
    PROVE  BalanceInv'
<1>1. CASE DriverObserves \/ DriverStops
  BY <1>1, ReadingKeepsBalance DEF DriverObserves, DriverStops
<1>2. CASE DriverFails
  <2>1. /\ driver = "failing" /\ read' = snap /\ UNCHANGED <<snap, pass>>
        /\ log' = [log EXCEPT !.torn = @ \/ ~Free]
    BY <1>2 DEF DriverFails
  <2>2. log'.torn = (log.torn \/ ~Free) /\ log.torn \in BOOLEAN
    BY <2>1 DEF FlightInv, TypeOK
  <2>3. ~IsBlank(snap)
    BY <2>1 DEF FlightInv, Populated, Alive
  <2>4. CASE Free
    BY <2>1, <2>2, <2>3, <2>4, ReadingKeepsBalance
  <2>5. CASE ~Free
    BY <2>2, <2>5, TornKeepsBalance
  <2> QED  BY <2>4, <2>5
<1>3. CASE DriverServices
  <2>1. Free /\ driver = "ready" /\ driver' # "publishing"
    BY <1>3 DEF DriverServices
  <2>2. ~IsBlank(snap) /\ snap \in Snapshots
    BY <2>1, Blanks DEF FlightInv, TypeOK, Populated, Alive
  <2>3. CASE UNCHANGED <<snap, pass, read, log>>
    BY <2>1, <2>3, ReadingKeepsBalance
  <2>4. CASE pass' = Pass("driver", "run_due", "due", snap, snap) /\ UNCHANGED <<snap, read, log>>
    <3>1. ~log.torn => Entered(snap) /\ Quiet(snap)
      BY <2>1, <2>2, BalanceParts DEF Resting, Free
    <3> DEFINE by == "driver"
               op == "run_due"
    <3>2. pass' = Pass(by, op, "due", snap, snap) /\ op \in {"run_due", "apply"}
      BY <2>4
    <3> HIDE DEF by, op
    <3> QED  BY <2>1, <2>2, <2>4, <3>1, <3>2, ServiceKeepsBalance
  <2>5. CASE /\ HasTransition /\ NextTick(snap) > snap.clock.tick
             /\ Begin("driver", "advance", [snap.clock EXCEPT !.tick = NextTick(snap)])
    <3> DEFINE t == NextTick(snap)
               clock == [snap.clock EXCEPT !.tick = t]
               by == "driver"
               op == "advance"
    <3>1. t \in Nat /\ snap.clock \in Clocks /\ snap.clock.tick \in Nat /\ snap.clock.state = "running"
      BY <2>2, <2>5, NextTickType, SnapshotParts DEF HasTransition
    <3>2. Begin(by, op, clock) /\ op \notin {"run_due", "apply"} /\ t > snap.clock.tick
      BY <2>5
    <3> HIDE DEF t, by, op
    <3>3. clock \in Clocks /\ clock.tick = t /\ clock.state = "running"
      BY <3>1 DEF Clocks
    <3> HIDE DEF clock
    <3>4. clock.tick >= snap.clock.tick
      BY <3>1, <3>2, <3>3
    <3> QED  BY <2>1, <2>2, <3>2, <3>3, <3>4, BeginKeepsBalance
  <2> QED  BY <1>3, <2>3, <2>4, <2>5 DEF DriverServices
<1>4. CASE DriverPublishes
  <2> DEFINE v == PacingFailure(read)
  <2>1. /\ driver = "publishing" /\ driver' = "ended" /\ snap' = v /\ pass' = pass /\ read' = Blank
        /\ log' = IF Free THEN Forget(read) ELSE [log EXCEPT !.forgotten = log.native, !.torn = TRUE]
    BY <1>4 DEF DriverPublishes
  <2>2. read \in Snapshots /\ ~IsBlank(read)
    BY <2>1, Blanks DEF FlightInv, TypeOK, Populated
  <2>3. CASE Free
    <3>1. log'.torn = log.torn /\ pass.pc = "free"
      BY <2>1, <2>3 DEF FlightInv, TypeOK, Forget, Free
    <3> SUFFICES ASSUME ~log.torn  PROVE  Balances(pass', snap') /\ Resting(pass', snap', read', driver')
      BY <3>1, BalanceParts
    <3>2. Booked(read) /\ Quiet(read)
      BY <2>1, <2>2, BalanceParts DEF Resting, Entered
    <3>3. v \in Snapshots /\ v.clock = read.clock /\ Stays(read, v)
      BY <2>2, PacingFailureTypes, PacingFailureStays DEF PacingFailure, Snapshots
    <3> HIDE DEF v
    <3>4. read.clock.tick <= v.clock.tick
      BY <2>2, <3>3, SnapshotParts
    <3>5. Booked(v) /\ Quiet(v)
      BY <2>2, <3>2, <3>3, <3>4, StayingBooked, StayingQuiet DEF Booked
    <3>6. Resting(pass', snap', read', driver')
      BY <2>1, <3>5, Blanks DEF Resting, Entered
    <3> QED  BY <2>1, <3>1, <3>6 DEF Balances
  <2>4. CASE ~Free
    <3>1. log'.torn
      BY <2>1, <2>4 DEF FlightInv, TypeOK
    <3> QED  BY <3>1, TornKeepsBalance
  <2> QED  BY <2>3, <2>4
<1> QED  BY <1>1, <1>2, <1>3, <1>4 DEF DriverStep

LEMMA ClientStepKeepsBalance ==
    ASSUME FlightInv, BalanceInv, ClientStep \/ \E call \in {"apply", "destroy"} : CallStop(call)
    PROVE  BalanceInv'
<1>1. CASE JoinTimesOut \/ BeginTeardown \/ \E call \in {"apply", "destroy"} : CallStop(call)
  BY <1>1, ReadingKeepsBalance DEF JoinTimesOut, BeginTeardown, CallStop
<1>2. CASE EndTeardown
  <2>1. snap' = snap /\ pass' = pass /\ log' = log /\ driver' = "off" /\ read' = Blank
    BY <1>2 DEF EndTeardown, FlightInv, Turns
  <2> QED  BY <2>1, ReadingKeepsBalance
<1>3. CASE Apply
  <2>1. Free /\ driver' = "off" /\ UNCHANGED <<snap, read, log>>
    BY <1>3 DEF Apply
  <2>2. CASE pass' = pass
    BY <2>1, <2>2, ReadingKeepsBalance
  <2>3. CASE \E w \in InitialSnapshots : pass' = Pass("client", "apply", "due", snap, w)
    <3>1. PICK w \in InitialSnapshots : pass' = Pass("client", "apply", "due", snap, w)
      BY <2>3
    <3>2. Entered(w) /\ Quiet(w) /\ \A i \in DOMAIN Policies : Open(w, i) = {}
      BY InitialBooked DEF Entered
    <3> DEFINE by == "client"
               op == "apply"
    <3>3. pass' = Pass(by, op, "due", snap, w) /\ op \in {"run_due", "apply"}
      BY <3>1
    <3> HIDE DEF by, op
    <3> QED  BY <2>1, <3>2, <3>3, ServiceKeepsBalance
  <2> QED  BY <1>3, <2>2, <2>3 DEF Apply
<1> QED  BY <1>1, <1>2, <1>3 DEF ClientStep

LEMMA InitEstablishesBalance == Init => BalanceInv
<1> SUFFICES ASSUME Init  PROVE  BalanceInv
  OBVIOUS
<1>1. IsBlank(snap) /\ IsBlank(read) /\ pass.pc = "free" /\ driver = "off"
  BY PassTypes, Blanks DEF Init
<1>2. Balances(pass, snap) /\ Resting(pass, snap, read, driver)
  BY <1>1 DEF Balances, Resting, Entered
<1> QED  BY <1>2, BalanceParts

-----------------------------------------------------------------------------
(* The theorems                                                             *)

\* BalanceInv holds initially and is kept by every step, on top of FlightInv, AccountInv
\* and StepInv: outside a time control at most one operation of a policy is reserved and
\* not committed, its participant has its turn first or is found missed, and a time
\* control opens nothing that it does not commit until it fails.
THEOREM BalanceInvariant == Spec => []BalanceInv
<1>1. FlightInv /\ FlightInv' /\ AccountInv /\ StepInv /\ BalanceInv /\ [Next]_vars => BalanceInv'
  <2> SUFFICES ASSUME FlightInv, FlightInv', AccountInv, StepInv, BalanceInv, [Next]_vars
               PROVE  BalanceInv'
    OBVIOUS
  <2>1. CASE ClientCall
    BY <2>1, CallKeepsBalance, ClientStepKeepsBalance DEF ClientCall
  <2>2. CASE ClientStep \/ PassStep \/ DriverStep
    BY <2>2, ClientStepKeepsBalance, PassStepKeepsBalance, DriverStepKeepsBalance
  <2>3. CASE UNCHANGED vars
    BY <2>3, ReadingKeepsBalance DEF vars
  <2> QED  BY <2>1, <2>2, <2>3 DEF Next
<1> QED  BY <1>1, InitEstablishesBalance, FlightInvariant, AccountInvariant, StepInvariant, PTL DEF Spec

\* A budget reserves exactly the demand of the operations that hold a reservation, on
\* the working snapshot of a pass and on the published one, unless a time control was
\* left between its two publications: nothing is freed twice, not even by the commit of
\* an operation whose reservation was released by an untrusted attempt before.
THEOREM BudgetsHoldWhatIsReserved == Spec => []ReservedIsHeld
<1>1. BalanceInv => ReservedIsHeld
  <2> SUFFICES ASSUME BalanceInv, ~IsBlank(Current), ~log.torn  PROVE  Balanced(Current)
    BY DEF ReservedIsHeld
  <2>1. Balances(pass, snap) /\ Resting(pass, snap, read, driver)
    BY BalanceParts
  <2>2. Entered(Current)
    <3>1. CASE pass.pc \in {"due", "flight"}
      BY <2>1, <3>1 DEF Current, Balances
    <3>2. CASE pass.pc \notin {"due", "flight"}
      BY <2>1, <3>2 DEF Current, Resting
    <3> QED  BY <3>1, <3>2
  <2> QED  BY <2>2 DEF Entered, Booked
<1> QED  BY <1>1, BalanceInvariant, PTL
=============================================================================
