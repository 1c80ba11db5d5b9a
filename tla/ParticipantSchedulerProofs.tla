--------------------- MODULE ParticipantSchedulerProofs ---------------------
(***************************************************************************)
(* What the operators of ResourceLedger and ParticipantScheduler return:   *)
(* ledgers, scheduler states and snapshots of the right form, with the     *)
(* counters and accounts that ParticipantExecutionProofs relies on.        *)
(***************************************************************************)
EXTENDS ParticipantScheduler, FiniteSetTheorems, WellFoundedInduction, TLAPS

-----------------------------------------------------------------------------
(* Numbers                                                                  *)

\* The least-number principle, by which the proofs below argue where they would
\* use induction.
LEMMA LeastNatural ==
    ASSUME NEW S \in SUBSET Nat, S # {}
    PROVE  \E n \in S : \A m \in S : n <= m
<1> DEFINE R == OpToRel(<, Nat)
<1>1. IsWellFoundedOn(R, Nat)
  BY NatLessThanWellFounded
<1>2. \A m, n \in Nat : m < n => <<m, n>> \in R
  BY DEF OpToRel
<1> HIDE DEF R
<1>3. PICK n \in S : \A m \in S : ~(<<m, n>> \in R)
  BY <1>1, WFMin
<1>4. ASSUME NEW m \in S  PROVE  n <= m
  <2>1. m \in Nat /\ n \in Nat /\ ~(m < n)
    BY <1>2, <1>3
  <2> QED  BY <2>1
<1> QED  BY <1>4

LEMMA MinIsLeast ==
    ASSUME NEW S \in SUBSET Nat, S # {}
    PROVE  Min(S) \in S /\ \A m \in S : Min(S) <= m
BY LeastNatural DEF Min

LEMMA MaxIsGreatest ==
    ASSUME NEW S \in SUBSET Nat, S # {}, NEW b \in Nat, \A n \in S : n <= b
    PROVE  Max(S) \in S /\ \A m \in S : m <= Max(S)
<1> DEFINE T == {b - n : n \in S}
<1>1. T \in SUBSET Nat /\ T # {}
  <2>1. \A n \in S : b - n \in Nat
    OBVIOUS
  <2>2. PICK s \in S : TRUE
    OBVIOUS
  <2>3. b - s \in T
    OBVIOUS
  <2> QED  BY <2>1, <2>3
<1>2. PICK t \in T : \A u \in T : t <= u
  BY <1>1, LeastNatural
<1>3. PICK n \in S : t = b - n
  BY <1>2
<1>4. \A m \in S : m <= n
  <2> SUFFICES ASSUME NEW m \in S  PROVE  m <= n
    OBVIOUS
  <2>1. b - m \in T
    OBVIOUS
  <2>2. b - n <= b - m
    BY <1>2, <1>3, <2>1
  <2> QED  BY <2>2
<1>5. \E x \in S : \A y \in S : x >= y
  BY <1>4
<1>6. Max(S) \in S /\ \A y \in S : Max(S) >= y
  BY <1>5 DEF Max
<1> QED  BY <1>6

-----------------------------------------------------------------------------
(* The policies                                                             *)

LEMMA PolicyTypes ==
    /\ DOMAIN Policies = 1..Len(Policies) /\ Len(Policies) \in Nat
    /\ \A i \in DOMAIN Policies :
          /\ DOMAIN Policies[i].participants = 1..Len(Policies[i].participants)
          /\ Len(Policies[i].participants) \in Nat
          /\ ToSet(Policies[i].participants) \subseteq Participants
<1>1. DOMAIN Policies = 1..Len(Policies) /\ Len(Policies) \in Nat
  BY PoliciesAssumption
<1>2. \A i \in DOMAIN Policies :
          /\ DOMAIN Policies[i].participants = 1..Len(Policies[i].participants)
          /\ Len(Policies[i].participants) \in Nat
  BY PoliciesAssumption
<1>3. \A i \in DOMAIN Policies : ToSet(Policies[i].participants) \subseteq Participants
  BY DEF Participants
<1> QED  BY <1>1, <1>2, <1>3

\* A participant belongs to exactly one policy.
LEMMA PolicyIsUnique ==
    /\ \A p \in Participants : PolicyOf(p) \in DOMAIN Policies /\ p \in ToSet(Policies[PolicyOf(p)].participants)
    /\ \A i \in DOMAIN Policies : \A p \in ToSet(Policies[i].participants) : PolicyOf(p) = i
<1>1. ASSUME NEW p \in Participants
      PROVE  PolicyOf(p) \in DOMAIN Policies /\ p \in ToSet(Policies[PolicyOf(p)].participants)
  BY DEF Participants, PolicyOf
<1>2. ASSUME NEW i \in DOMAIN Policies, NEW p \in ToSet(Policies[i].participants)
      PROVE  PolicyOf(p) = i
  <2>1. p \in Participants
    BY PolicyTypes
  <2>2. PolicyOf(p) \in DOMAIN Policies /\ p \in ToSet(Policies[PolicyOf(p)].participants)
    BY <1>1, <2>1
  <2>3. \A j \in DOMAIN Policies \ {i} : ToSet(Policies[i].participants) \cap ToSet(Policies[j].participants) = {}
    BY PoliciesAssumption
  <2> QED  BY <2>2, <2>3
<1> QED  BY <1>1, <1>2

-----------------------------------------------------------------------------
(* The ledger                                                               *)

LEMMA BudgetTypes ==
    \A b \in Budgets : Budget[b].demand \in Nat /\ Budget[b].segmental \in BOOLEAN
BY BudgetsAssumption

LEMMA FreedType ==
    ASSUME NEW b \in Budgets, NEW a \in Accounts
    PROVE  Freed(b, a) \in Nat
BY BudgetTypes DEF Freed, Accounts

LEMMA AccountTypes ==
    ASSUME NEW accounts \in [Budgets -> Accounts], NEW budgets \in SUBSET Budgets, NEW measured \in [budgets -> Nat]
    PROVE  /\ Reserved(accounts, budgets) \in [Budgets -> Accounts]
           /\ Committed(accounts, budgets, measured) \in [Budgets -> Accounts]
           /\ Released(accounts, budgets) \in [Budgets -> Accounts]
<1>1. Reserved(accounts, budgets) \in [Budgets -> Accounts]
  BY BudgetTypes DEF Reserved, Accounts
<1>2. Committed(accounts, budgets, measured) \in [Budgets -> Accounts]
  <2>1. ASSUME NEW b \in budgets
        PROVE  [accounts[b] EXCEPT !.reserved = Freed(b, accounts[b]), !.used = @ + measured[b]] \in Accounts
    <3>1. Freed(b, accounts[b]) \in Nat /\ measured[b] \in Nat /\ accounts[b] \in Accounts
      BY FreedType
    <3>2. \A a \in Accounts : \A r, m \in Nat : [a EXCEPT !.reserved = r, !.used = m] \in Accounts
      BY DEF Accounts
    <3>3. accounts[b].used + measured[b] \in Nat
      BY <3>1 DEF Accounts
    <3> QED  BY <3>1, <3>2, <3>3
  <2> QED  BY <2>1 DEF Committed
<1>3. Released(accounts, budgets) \in [Budgets -> Accounts]
  BY FreedType DEF Released, Accounts
<1> QED  BY <1>1, <1>2, <1>3

LEMMA ReconcileTypes ==
    ASSUME NEW ops, NEW l \in Ledgers(ops), NEW budgets \in SUBSET Budgets, NEW generation \in Nat
    PROVE  Reconcile(l, budgets, generation).ledger \in Ledgers(ops)
<1>1. l.budget \in [Budgets -> Accounts] /\ l.pool \in [Budgets -> Accounts]
  BY DEF Ledgers
<1>2. \A accounts \in [Budgets -> Accounts] : Reconciled(accounts, budgets, generation) \in [Budgets -> Accounts]
  BY BudgetTypes DEF Reconciled, Accounts
<1> QED  BY <1>1, <1>2 DEF Reconcile, Result, Ledgers

LEMMA LedgerTypes ==
    ASSUME NEW ops, NEW l \in Ledgers(ops), NEW budgets \in SUBSET Budgets, NEW o \in ops, NEW generation \in Nat,
           NEW measured \in [budgets -> Nat]
    PROVE  /\ Reserve(l, budgets, o, generation).ledger \in Ledgers(ops)
           /\ Commit(l, budgets, o, generation, measured).ledger \in Ledgers(ops)
           /\ Release(l, budgets, o, generation).ledger \in Ledgers(ops)
<1>1. l.budget \in [Budgets -> Accounts] /\ l.pool \in [Budgets -> Accounts]
  BY DEF Ledgers
<1>2. Reserve(l, budgets, o, generation).ledger \in Ledgers(ops)
  BY <1>1, AccountTypes DEF Reserve, Result, Ledgers
<1>3. Commit(l, budgets, o, generation, measured).ledger \in Ledgers(ops)
  BY <1>1, AccountTypes DEF Commit, Result, Ledgers
<1>4. Release(l, budgets, o, generation).ledger \in Ledgers(ops)
  BY <1>1, AccountTypes DEF Release, Result, Ledgers
<1> QED  BY <1>2, <1>3, <1>4

LEMMA ResultsOfLedger ==
    ASSUME NEW l, NEW budgets, NEW o, NEW generation, NEW measured
    PROVE  /\ Commit(l, budgets, o, generation, measured).disposition \in {"ok", "refused", "raised"}
           /\ Commit(l, budgets, o, generation, measured).disposition # "ok"
              => Commit(l, budgets, o, generation, measured).ledger = l
BY DEF Commit, Result

-----------------------------------------------------------------------------
(* Scheduler states                                                         *)

LEMMA PolicyNumbers ==
    ASSUME NEW p \in Participants
    PROVE  LET policy == Policies[PolicyOf(p)]
           IN  /\ policy.start \in Nat /\ policy.maxRetries \in Nat
               /\ policy.cadence \in Nat \ {0} /\ policy.maxAttempts \in Nat \ {0} /\ policy.maxOccurrences \in Nat \ {0}
BY PolicyIsUnique, PoliciesAssumption

\* A cadence that is aligned to a later tick starts at a natural number.
LEMMA FirstTickType ==
    ASSUME NEW p \in Participants, NEW tick \in Nat
    PROVE  FirstTick(Policies[PolicyOf(p)], tick) \in Nat
<1> DEFINE policy == Policies[PolicyOf(p)]
           start == policy.start
           cadence == policy.cadence
<1>1. start \in Nat /\ cadence \in Nat /\ cadence > 0
  BY PolicyNumbers
<1>2. CASE start >= tick
  BY <1>1, <1>2 DEF FirstTick
<1>3. CASE ~(start >= tick)
  <2> DEFINE q == (tick - start + cadence - 1) \div cadence
  <2>1. FirstTick(Policies[PolicyOf(p)], tick) = start + q * cadence
    BY <1>3 DEF FirstTick
  <2>2. tick - start + cadence - 1 \in Nat
    BY <1>1, <1>3
  <2>3. q \in Nat
    BY <1>1, <2>2
  <2> HIDE DEF q
  <2>4. q * cadence \in Nat
    BY <1>1, <2>3
  <2> QED  BY <1>1, <2>1, <2>4
<1> QED  BY <1>2, <1>3

\* A new or reset participant has attempted nothing.
LEMMA FreshStates ==
    ASSUME NEW clock \in Clocks, NEW p \in Participants, NEW s \in InitialStates(p, clock) \cup ResetStates(p, clock)
    PROVE  s \in SchedulerStates /\ s.inFlight = 0 /\ s.attempted = 0 /\ s.succeeded = 0 /\ s.failed = 0
<1>1. \A t \in DrawnTicks(clock.tick) : t \in Nat
  BY WindowAssumption DEF DrawnTicks, Clocks
<1>2. clock.tick \in Nat /\ clock.segment \in Nat
  BY DEF Clocks
<1>3. Policies[PolicyOf(p)].start \in Nat /\ FirstTick(Policies[PolicyOf(p)], clock.tick) \in Nat
  BY <1>2, PolicyNumbers, FirstTickType
<1>4. PICK life \in {"running", "completed"}, t \in Nat : s = InitialState(clock, life, t)
  BY <1>1, <1>2, <1>3 DEF InitialStates, ResetStates
<1> QED  BY <1>2, <1>4 DEF InitialState, SchedulerStates, Terminal

\* Counting one attempt, as succeeded or as failed.
LEMMA CountedTypes ==
    ASSUME NEW s \in SchedulerStates, NEW ok \in BOOLEAN
    PROVE  LET counted == [s EXCEPT !.attempted = @ + 1, !.succeeded = IF ok THEN @ + 1 ELSE @,
                                    !.failed = IF ok THEN @ ELSE @ + 1]
           IN  /\ counted \in SchedulerStates /\ counted.inFlight = s.inFlight
               /\ s.attempted = s.succeeded + s.failed => counted.attempted = counted.succeeded + counted.failed
<1> DEFINE a == s.attempted + 1
           b == IF ok THEN s.succeeded + 1 ELSE s.succeeded
           c == IF ok THEN s.failed ELSE s.failed + 1
           counted == [s EXCEPT !.attempted = a, !.succeeded = b, !.failed = c]
<1>1. /\ a \in Nat /\ b \in Nat /\ c \in Nat
      /\ s.attempted = s.succeeded + s.failed => a = b + c
  BY DEF SchedulerStates
<1>2. /\ counted = [s EXCEPT !.attempted = @ + 1, !.succeeded = IF ok THEN @ + 1 ELSE @,
                             !.failed = IF ok THEN @ ELSE @ + 1]
  OBVIOUS
<1> HIDE DEF a, b, c
<1>3. /\ counted \in SchedulerStates /\ counted.inFlight = s.inFlight
      /\ counted.attempted = a /\ counted.succeeded = b /\ counted.failed = c
  BY <1>1 DEF SchedulerStates
<1> HIDE DEF counted
<1>4. /\ counted \in SchedulerStates /\ counted.inFlight = s.inFlight
      /\ s.attempted = s.succeeded + s.failed => counted.attempted = counted.succeeded + counted.failed
  BY <1>1, <1>3
<1> QED  BY <1>2, <1>4

LEMMA NextActionTypes ==
    ASSUME NEW p \in Participants, NEW s \in SchedulerStates, NEW ok \in BOOLEAN, NEW broken \in BOOLEAN
    PROVE  LET t == NextActionState(p, s, ok, broken)
           IN  /\ t \in SchedulerStates /\ t.inFlight = s.inFlight
               /\ s.attempted = s.succeeded + s.failed => t.attempted = t.succeeded + t.failed
<1> DEFINE t == NextActionState(p, s, ok, broken)
           counted == [s EXCEPT !.attempted = @ + 1, !.succeeded = IF ok THEN @ + 1 ELSE @,
                                !.failed = IF ok THEN @ ELSE @ + 1]
<1>1. /\ counted \in SchedulerStates /\ counted.inFlight = s.inFlight
      /\ s.attempted = s.succeeded + s.failed => counted.attempted = counted.succeeded + counted.failed
  BY CountedTypes
<1>2. s.next + Policies[PolicyOf(p)].cadence \in Nat
  BY PolicyNumbers DEF SchedulerStates
<1>3. PICK life \in {"running", "paused"} \cup Terminal, next \in Nat :
          t = [counted EXCEPT !.next = next, !.life = life]
  <2>1. s.life \in {"running", "paused"} \cup Terminal
    BY DEF SchedulerStates
  <2>2. \E life \in {"running", "paused"} \cup Terminal :
           t = [counted EXCEPT !.next = s.next + Policies[PolicyOf(p)].cadence, !.life = life]
    <3>1. CASE broken \/ (~ok /\ Policies[PolicyOf(p)].failurePolicy = "stop")
      <4>1. t = [counted EXCEPT !.next = s.next + Policies[PolicyOf(p)].cadence, !.life = "failed"]
        BY <3>1 DEF NextActionState, SchedulerStates
      <4> QED  BY <4>1 DEF Terminal
    <3>2. CASE /\ ~(broken \/ (~ok /\ Policies[PolicyOf(p)].failurePolicy = "stop"))
               /\ s.attempted + 1 >= Policies[PolicyOf(p)].maxAttempts
      <4>1. t = [counted EXCEPT !.next = s.next + Policies[PolicyOf(p)].cadence, !.life = "completed"]
        BY <3>2 DEF NextActionState, SchedulerStates
      <4> QED  BY <4>1 DEF Terminal
    <3>3. CASE /\ ~(broken \/ (~ok /\ Policies[PolicyOf(p)].failurePolicy = "stop"))
               /\ ~(s.attempted + 1 >= Policies[PolicyOf(p)].maxAttempts)
      <4>1. t = [counted EXCEPT !.next = s.next + Policies[PolicyOf(p)].cadence, !.life = s.life]
        BY <3>3 DEF NextActionState, SchedulerStates
      <4> QED  BY <2>1, <4>1
    <3> QED  BY <3>1, <3>2, <3>3
  <2> QED  BY <1>2, <2>2
<1> HIDE DEF counted, t
<1>4. /\ t \in SchedulerStates /\ t.inFlight = counted.inFlight
      /\ t.attempted = counted.attempted /\ t.succeeded = counted.succeeded /\ t.failed = counted.failed
  BY <1>1, <1>3 DEF SchedulerStates
<1>5. t \in SchedulerStates /\ t.inFlight = s.inFlight
      /\ (s.attempted = s.succeeded + s.failed => t.attempted = t.succeeded + t.failed)
  BY <1>1, <1>4
<1> QED  BY <1>5 DEF t

LEMMA NextActivityTypes ==
    ASSUME NEW p \in Participants, NEW s \in SchedulerStates, NEW tick \in Nat, NEW outcome,
           NEW t \in NextActivityStates(p, s, tick, outcome)
    PROVE  /\ t \in SchedulerStates /\ t.inFlight = s.inFlight
           /\ s.attempted = s.succeeded + s.failed => t.attempted = t.succeeded + t.failed
<1>1. \A u \in DrawnTicks(tick) : u \in Nat
  BY WindowAssumption DEF DrawnTicks
<1> DEFINE ok == outcome = "succeeded"
           counted == [s EXCEPT !.attempted = @ + 1, !.succeeded = IF ok THEN @ + 1 ELSE @,
                                !.failed = IF ok THEN @ ELSE @ + 1]
<1>2. /\ counted \in SchedulerStates /\ counted.inFlight = s.inFlight
      /\ s.attempted = s.succeeded + s.failed => counted.attempted = counted.succeeded + counted.failed
  BY CountedTypes
<1>3. counted.retry + 1 \in Nat /\ counted.occurrence + 1 \in Nat /\ counted.retry \in Nat /\ counted.occurrence \in Nat
      /\ counted.life \in {"running", "paused"} \cup Terminal
  BY <1>2 DEF SchedulerStates
<1>4. \E o, r, n \in Nat, life \in {"running", "paused"} \cup Terminal :
          t = [counted EXCEPT !.occurrence = o, !.retry = r, !.life = life, !.next = n]
  <2> DEFINE ended(life) == [counted EXCEPT !.occurrence = @ + 1, !.retry = 0, !.life = life, !.next = tick]
  <2>1. \/ t = [counted EXCEPT !.retry = @ + 1, !.next = tick]
        \/ t = ended("failed") \/ t = ended("completed")
        \/ \E n \in {tick} \cup DrawnTicks(tick) : t = [ended("running") EXCEPT !.next = n]
    BY Zenon DEF NextActivityStates
  <2> HIDE DEF counted
  <2>2. CASE t = [counted EXCEPT !.retry = @ + 1, !.next = tick]
    <3>1. t = [counted EXCEPT !.occurrence = counted.occurrence, !.retry = counted.retry + 1,
                              !.life = counted.life, !.next = tick]
      BY <1>2, <2>2 DEF SchedulerStates
    <3> QED  BY <1>3, <3>1
  <2>3. CASE t = ended("failed") \/ t = ended("completed")
    BY <1>3, <2>3 DEF Terminal
  <2>4. ASSUME NEW n \in {tick} \cup DrawnTicks(tick), t = [ended("running") EXCEPT !.next = n]
        PROVE  t = [counted EXCEPT !.occurrence = counted.occurrence + 1, !.retry = 0, !.life = "running", !.next = n]
    BY <1>2, <2>4 DEF SchedulerStates
  <2>5. CASE \E n \in {tick} \cup DrawnTicks(tick) : t = [ended("running") EXCEPT !.next = n]
    <3>1. PICK n \in {tick} \cup DrawnTicks(tick) : t = [ended("running") EXCEPT !.next = n]
      BY <2>5
    <3>2. t = [counted EXCEPT !.occurrence = counted.occurrence + 1, !.retry = 0, !.life = "running", !.next = n]
      BY <2>4, <3>1
    <3>3. n \in Nat
      BY <1>1
    <3> QED  BY <1>3, <3>2, <3>3
  <2> QED  BY <2>1, <2>2, <2>3, <2>5
<1> HIDE DEF counted
<1>5. /\ t \in SchedulerStates /\ t.inFlight = counted.inFlight
      /\ t.attempted = counted.attempted /\ t.succeeded = counted.succeeded /\ t.failed = counted.failed
  BY <1>2, <1>4 DEF SchedulerStates
<1> QED  BY <1>2, <1>5

LEMMA EmptyActivityTypes ==
    ASSUME NEW s \in SchedulerStates, NEW tick \in Nat, NEW t \in EmptyActivityStates(s, tick)
    PROVE  /\ t \in SchedulerStates /\ t.inFlight = s.inFlight
           /\ t.attempted = s.attempted /\ t.succeeded = s.succeeded /\ t.failed = s.failed
<1>1. \A u \in DrawnTicks(tick) : u \in Nat
  BY WindowAssumption DEF DrawnTicks
<1> QED  BY <1>1 DEF EmptyActivityStates, SchedulerStates, Terminal

LEMMA OperationType ==
    ASSUME NEW p \in Participants, NEW s \in SchedulerStates
    PROVE  Operation(p, s) \in Operations
BY DEF Operation, Operations, SchedulerStates

-----------------------------------------------------------------------------
(* Snapshots                                                                *)

LEMMA SnapshotParts ==
    ASSUME NEW w \in Snapshots
    PROVE  /\ w.clock \in Clocks /\ w.led \in Ledgers(Operations)
           /\ w.st \in [Participants -> SchedulerStates] /\ w.svc \in [DOMAIN Policies -> ServiceStates]
           /\ \A p \in Participants : w.st[p] \in SchedulerStates
           /\ \A i \in DOMAIN Policies : w.svc[i] \in ServiceStates /\ w.svc[i].generation \in Nat
           /\ w.clock.tick \in Nat /\ w.clock.segment \in Nat /\ w.clock.state \in {"running", "paused"}
<1>1. /\ w.clock \in Clocks /\ w.led \in Ledgers(Operations)
      /\ w.st \in [Participants -> SchedulerStates] /\ w.svc \in [DOMAIN Policies -> ServiceStates]
  BY DEF Snapshots
<1> QED  BY <1>1 DEF Clocks, ServiceStates

LEMMA InitialLedgerType == InitialLedger \in Ledgers(Operations)
BY DEF InitialLedger, Ledgers, Fresh, Accounts

LEMMA InitialSnapshotTypes ==
    ASSUME NEW w \in InitialSnapshots
    PROVE  w \in Snapshots /\ AtRest(w)
<1> DEFINE clock == [state |-> "running", segment |-> 0, tick |-> 0]
           svc == [i \in DOMAIN Policies |-> [life |-> "running", health |-> "healthy", generation |-> 0,
                                              inFlight |-> 0, quiescent |-> TRUE]]
<1>1. PICK st \in StatesFrom(LAMBDA p : InitialStates(p, clock)) :
          w = [clock |-> clock, st |-> st, led |-> InitialLedger, svc |-> svc]
  BY DEF InitialSnapshots
<1>2. DOMAIN st = Participants /\ \A p \in Participants : st[p] \in InitialStates(p, clock)
  BY DEF StatesFrom
<1>3. st = [p \in Participants |-> st[p]]
  BY DEF StatesFrom
<1>4. clock \in Clocks
  BY DEF Clocks
<1>5. svc \in [DOMAIN Policies -> ServiceStates]
  BY DEF ServiceStates
<1>6. \A p \in Participants : /\ st[p] \in SchedulerStates /\ st[p].inFlight = 0 /\ st[p].attempted = 0
                              /\ st[p].succeeded = 0 /\ st[p].failed = 0
  BY <1>2, <1>4, FreshStates
<1>7. \A i \in DOMAIN Policies : svc[i].inFlight = 0 /\ svc[i].quiescent
  OBVIOUS
<1> HIDE DEF clock, svc
<1>8. st \in [Participants -> SchedulerStates]
  BY <1>3, <1>6
<1>9. w \in Snapshots
  BY <1>1, <1>4, <1>5, <1>8, InitialLedgerType DEF Snapshots
<1> QED  BY <1>1, <1>6, <1>7, <1>9 DEF AtRest

LEMMA ClockLifecycleTypes ==
    ASSUME NEW w \in Snapshots, NEW life \in {"running", "paused"}
    PROVE  /\ ClockLifecycle(w, life) \in Snapshots
           /\ ClockLifecycle(w, life).clock = w.clock
           /\ AtRest(w) => AtRest(ClockLifecycle(w, life))
<1> DEFINE v == ClockLifecycle(w, life)
           active == {p \in Participants : w.st[p].life \notin Terminal}
           st == [p \in Participants |-> IF p \in active THEN [w.st[p] EXCEPT !.life = life] ELSE w.st[p]]
           svc == [i \in DOMAIN Policies |->
                      IF \E p \in active : PolicyOf(p) = i THEN [w.svc[i] EXCEPT !.life = life] ELSE w.svc[i]]
<1>1. v = [w EXCEPT !.st = st, !.svc = svc]
  BY DEF ClockLifecycle
<1>2. /\ \A p \in Participants : /\ st[p] \in SchedulerStates /\ st[p].inFlight = w.st[p].inFlight
                                 /\ st[p].attempted = w.st[p].attempted
                                 /\ st[p].succeeded = w.st[p].succeeded /\ st[p].failed = w.st[p].failed
      /\ st \in [Participants -> SchedulerStates]
  BY SnapshotParts DEF SchedulerStates
<1>3. /\ \A i \in DOMAIN Policies : /\ svc[i] \in ServiceStates /\ svc[i].inFlight = w.svc[i].inFlight
                                    /\ svc[i].quiescent = w.svc[i].quiescent
      /\ svc \in [DOMAIN Policies -> ServiceStates]
  BY SnapshotParts DEF ServiceStates
<1> HIDE DEF st, svc, v
<1>4. v \in Snapshots /\ v.clock = w.clock /\ v.st = st /\ v.svc = svc
  BY <1>1, <1>2, <1>3 DEF Snapshots
<1>5. AtRest(w) => AtRest(v)
  BY <1>2, <1>3, <1>4 DEF AtRest
<1> QED  BY <1>4, <1>5 DEF v

LEMMA PacingFailureTypes ==
    ASSUME NEW w \in Snapshots
    PROVE  /\ PacingFailure(w) \in Snapshots
           /\ PacingFailure(w).clock = w.clock
           /\ AtRest(w) => AtRest(PacingFailure(w))
<1> DEFINE v == PacingFailure(w)
           svc == [i \in DOMAIN Policies |-> [w.svc[i] EXCEPT !.life = "paused", !.health = "degraded"]]
<1>1. v = [w EXCEPT !.svc = svc]
  BY DEF PacingFailure
<1>2. /\ \A i \in DOMAIN Policies : /\ svc[i] \in ServiceStates /\ svc[i].inFlight = w.svc[i].inFlight
                                    /\ svc[i].quiescent = w.svc[i].quiescent
      /\ svc \in [DOMAIN Policies -> ServiceStates]
  <2>1. \A x \in ServiceStates :
            LET y == [x EXCEPT !.life = "paused", !.health = "degraded"]
            IN  y \in ServiceStates /\ y.inFlight = x.inFlight /\ y.quiescent = x.quiescent
    BY DEF ServiceStates
  <2> QED  BY <2>1, SnapshotParts
<1> HIDE DEF svc, v
<1>3. v \in Snapshots /\ v.clock = w.clock /\ v.st = w.st /\ v.svc = svc
  BY <1>1, <1>2 DEF Snapshots
<1>4. AtRest(w) => AtRest(v)
  BY <1>2, <1>3 DEF AtRest
<1> QED  BY <1>3, <1>4 DEF v

LEMMA NextTickType ==
    ASSUME NEW w \in Snapshots, RunningParticipants(w) # {}
    PROVE  NextTick(w) \in Nat
<1> DEFINE S == {w.st[p].next : p \in RunningParticipants(w)}
<1>1. S \in SUBSET Nat
  BY SnapshotParts DEF RunningParticipants, SchedulerStates
<1>2. S # {}
  OBVIOUS
<1> HIDE DEF S
<1>3. Min(S) \in Nat
  BY <1>1, <1>2, MinIsLeast
<1> QED  BY <1>3 DEF S, NextTick

\* The reconciliations of a reset in the order of the policies: the recursion of
\* ReconcileAll defines a function, and what it leaves is a ledger.
Walks(f, w) ==
    /\ f[0] = Result("ok", w.led)
    /\ \A i \in 1..Len(Policies) :
           f[i] = IF Policies[i].profile # "v3" \/ f[i - 1].disposition # "ok" THEN f[i - 1]
                  ELSE Reconcile(f[i - 1].ledger, Policies[i].budgets, w.svc[i].generation)
    /\ ReconcileAll(w) = f[Len(Policies)]

LEMMA ReconcileAllSteps ==
    ASSUME NEW w
    PROVE  \E f : Walks(f, w)
<1> DEFINE D(f, i) == IF i = 0 THEN Result("ok", w.led)
                      ELSE IF Policies[i].profile # "v3" \/ f[i - 1].disposition # "ok" THEN f[i - 1]
                      ELSE Reconcile(f[i - 1].ledger, Policies[i].budgets, w.svc[i].generation)
           Defined(n) == \E f : f = [i \in 0..n |-> D(f, i)]
<1>1. Defined(0)
  <2> DEFINE f == [i \in 0..0 |-> Result("ok", w.led)]
  <2>1. f = [i \in 0..0 |-> D(f, i)]
    OBVIOUS
  <2> QED  BY <2>1
<1>2. ASSUME NEW n \in Nat, n # 0, Defined(n - 1)  PROVE  Defined(n)
  <2>1. PICK f : f = [i \in 0..(n - 1) |-> D(f, i)]
    BY <1>2
  <2> DEFINE g == [i \in 0..n |-> IF i = n THEN D(f, n) ELSE f[i]]
  <2>2. ASSUME NEW i \in 0..n  PROVE  g[i] = D(g, i)
    <3>1. CASE i = 0
      <4>1. i \in 0..(n - 1) /\ g[i] = f[i]
        BY <1>2, <3>1
      <4>2. f[i] = D(f, i)
        BY <2>1, <4>1
      <4> QED  BY <3>1, <4>1, <4>2
    <3>2. CASE i # 0
      <4>1. i - 1 \in 0..(n - 1) /\ i - 1 # n /\ i - 1 \in 0..n
        BY <1>2, <3>2
      <4>2. g[i - 1] = f[i - 1]
        BY <4>1
      <4>3. g[i] = D(f, i)
        <5>1. CASE i = n
          BY <5>1
        <5>2. CASE i # n
          <6>1. i \in 0..(n - 1) /\ g[i] = f[i]
            BY <1>2, <5>2
          <6> QED  BY <2>1, <6>1
        <5> QED  BY <5>1, <5>2
      <4> HIDE DEF g
      <4> QED  BY <4>2, <4>3
    <3> QED  BY <3>1, <3>2
  <2>3. g = [i \in 0..n |-> g[i]]
    OBVIOUS
  <2> HIDE DEF g
  <2>4. g = [i \in 0..n |-> D(g, i)]
    BY <2>2, <2>3
  <2> QED  BY <2>4
<1>3. \A n \in Nat : Defined(n)
  <2> DEFINE S == {n \in Nat : ~Defined(n)}
  <2> HIDE DEF Defined
  <2> SUFFICES ASSUME S # {}  PROVE  FALSE
    OBVIOUS
  <2>1. PICK n \in S : \A m \in S : n <= m
    BY LeastNatural
  <2>2. n \in Nat /\ ~Defined(n) /\ n # 0
    BY <1>1
  <2>3. n - 1 \in Nat /\ ~(n <= n - 1)
    BY <2>2
  <2>4. Defined(n - 1)
    BY <2>1, <2>3
  <2> QED  BY <1>2, <2>2, <2>4
<1> DEFINE F == CHOOSE f : f = [i \in 0..Len(Policies) |-> D(f, i)]
<1>4. F = [i \in 0..Len(Policies) |-> D(F, i)]
  BY <1>3, PolicyTypes
<1>5. ReconcileAll(w) = F[Len(Policies)]
  BY DEF ReconcileAll
<1> HIDE DEF F
<1>6. F[0] = Result("ok", w.led)
  BY <1>4, PolicyTypes
<1>7. ASSUME NEW i \in 1..Len(Policies)
      PROVE  F[i] = IF Policies[i].profile # "v3" \/ F[i - 1].disposition # "ok" THEN F[i - 1]
                    ELSE Reconcile(F[i - 1].ledger, Policies[i].budgets, w.svc[i].generation)
  <2>1. i \in 0..Len(Policies) /\ i # 0
    BY PolicyTypes
  <2> QED  BY <1>4, <2>1
<1>8. Walks(F, w)
  BY <1>5, <1>6, <1>7 DEF Walks
<1> QED  BY <1>8

LEMMA ReconcileAllTypes ==
    ASSUME NEW w \in Snapshots
    PROVE  ReconcileAll(w).ledger \in Ledgers(Operations)
<1>1. PICK F : Walks(F, w)
  BY ReconcileAllSteps
<1>2. \A i \in 0..Len(Policies) : F[i].ledger \in Ledgers(Operations)
  <2> DEFINE S == {i \in 0..Len(Policies) : F[i].ledger \notin Ledgers(Operations)}
  <2> SUFFICES ASSUME S # {}  PROVE  FALSE
    OBVIOUS
  <2>1. S \in SUBSET Nat
    BY PolicyTypes
  <2>2. PICK i \in S : \A j \in S : i <= j
    BY <2>1, LeastNatural
  <2>3. i # 0
    BY <1>1, SnapshotParts DEF Result, Walks
  <2>4. i \in 1..Len(Policies) /\ i - 1 \in 0..Len(Policies) /\ ~(i <= i - 1)
    BY <2>3, PolicyTypes
  <2>5. F[i - 1].ledger \in Ledgers(Operations)
    BY <2>2, <2>4
  <2>6. /\ i \in DOMAIN Policies /\ Policies[i].budgets \in SUBSET Budgets /\ w.svc[i].generation \in Nat
    BY <2>4, PolicyTypes, PoliciesAssumption, SnapshotParts
  <2>7. Reconcile(F[i - 1].ledger, Policies[i].budgets, w.svc[i].generation).ledger \in Ledgers(Operations)
    BY <2>5, <2>6, ReconcileTypes
  <2> QED  BY <1>1, <2>4, <2>5, <2>7 DEF Walks
<1> QED  BY <1>1, <1>2, PolicyTypes DEF Walks

LEMMA ResetSnapshotTypes ==
    ASSUME NEW w \in Snapshots, NEW v \in ResetSnapshots(w)
    PROVE  v \in Snapshots /\ v.clock = w.clock /\ AtRest(v)
<1> DEFINE svc == [i \in DOMAIN Policies |-> ResetService(w.svc[i])]
           led == ReconcileAll(w).ledger
<1>1. PICK st \in StatesFrom(LAMBDA p : ResetStates(p, w.clock)) : v = [w EXCEPT !.st = st, !.led = led, !.svc = svc]
  BY DEF ResetSnapshots
<1>2. DOMAIN st = Participants /\ \A p \in Participants : st[p] \in ResetStates(p, w.clock)
  BY DEF StatesFrom
<1>3. st = [p \in Participants |-> st[p]]
  BY DEF StatesFrom
<1>4. \A p \in Participants : /\ st[p] \in SchedulerStates /\ st[p].inFlight = 0 /\ st[p].attempted = 0
                              /\ st[p].succeeded = 0 /\ st[p].failed = 0
  BY <1>2, FreshStates, SnapshotParts
<1>5. st \in [Participants -> SchedulerStates]
  BY <1>3, <1>4
<1>6. ASSUME NEW i \in DOMAIN Policies
      PROVE  svc[i] \in ServiceStates /\ svc[i].inFlight = 0 /\ svc[i].quiescent
  <2> DEFINE x == w.svc[i]
             g == w.svc[i].generation + 1
             y == [x EXCEPT !.life = "running", !.generation = g, !.inFlight = 0, !.quiescent = TRUE]
  <2>1. x \in ServiceStates /\ g \in Nat
    BY SnapshotParts
  <2>2. svc[i] = y
    BY DEF ResetService
  <2> HIDE DEF x, g
  <2>3. y \in ServiceStates /\ y.inFlight = 0 /\ y.quiescent = TRUE
    BY <2>1 DEF ServiceStates
  <2> QED  BY <2>2, <2>3
<1>7. svc \in [DOMAIN Policies -> ServiceStates]
  BY <1>6
<1>8. led \in Ledgers(Operations)
  BY ReconcileAllTypes
<1> HIDE DEF svc, led
<1>9. v \in Snapshots /\ v.clock = w.clock /\ v.st = st /\ v.svc = svc
  BY <1>1, <1>5, <1>7, <1>8 DEF Snapshots
<1> QED  BY <1>4, <1>6, <1>9 DEF AtRest

-----------------------------------------------------------------------------
(* Batches                                                                  *)

LEMMA PairIsTwo ==
    ASSUME NEW j, NEW k, j # k
    PROVE  IsFiniteSet({j, k}) /\ Cardinality({j, k}) = 2
<1>1. IsFiniteSet({j}) /\ Cardinality({j}) = 1
  BY FS_Singleton
<1>2. {j, k} = {j} \cup {k}
  OBVIOUS
<1> QED  BY <1>1, <1>2, FS_AddElement

\* The first n positions are positions, no more than n of them.
LEMMA FirstIsBounded ==
    ASSUME NEW L \in Nat, NEW positions \in SUBSET (1..L), NEW n \in Nat
    PROVE  /\ First(positions, n) \subseteq positions
           /\ IsFiniteSet(First(positions, n)) /\ Cardinality(First(positions, n)) <= n
<1> DEFINE S == First(positions, n)
<1>1. IsFiniteSet(positions)
  <2>1. IsFiniteSet(1..L)
    BY FS_Interval
  <2> QED  BY <2>1, FS_Subset
<1>2. S \subseteq positions /\ IsFiniteSet(S)
  BY <1>1, FS_Subset DEF First
<1>3. CASE S = {}
  BY <1>2, <1>3, FS_EmptySet
<1>4. CASE S # {}
  <2>1. S \in SUBSET Nat /\ \A k \in S : k <= L
    <3>1. \A k \in S : k \in 1..L
      BY <1>2
    <3> QED  BY <3>1
  <2>2. PICK k \in S : \A j \in S : j <= k
    BY <1>4, <2>1, MaxIsGreatest
  <2> DEFINE T == {j \in positions : j <= k}
  <2>3. S \subseteq T /\ IsFiniteSet(T)
    BY <1>1, <1>2, <2>2, FS_Subset
  <2>4. Cardinality(T) <= n
    BY <2>2 DEF First
  <2>5. Cardinality(S) <= Cardinality(T) /\ Cardinality(S) \in Nat /\ Cardinality(T) \in Nat
    BY <1>2, <2>3, FS_Subset, FS_CardinalityType
  <2> QED  BY <1>2, <2>4, <2>5
<1> QED  BY <1>3, <1>4

\* A batch that is taken together is within the limit, and no two positions of it
\* hold conflicting participants.
LEMMA PrefixIsIndependent ==
    ASSUME NEW L \in Nat, NEW positions \in SUBSET (1..L), Cardinality(positions) >= 2,
           NEW limit \in Nat, limit >= 2, NEW ps, NEW size, size = IndependentPrefix(ps, positions, limit)
    PROVE  /\ size \in Nat /\ size >= 1 /\ size <= limit
           /\ \A j, k \in First(positions, size) : j # k => {ps[j], ps[k]} \notin Conflicts
<1> DEFINE c == Cardinality(positions)
           m == Min({c, limit})
           N == {n \in 1..m : \A j, k \in First(positions, n) : j # k => {ps[j], ps[k]} \notin Conflicts}
<1>1. IsFiniteSet(positions) /\ c \in Nat
  <2>1. IsFiniteSet(1..L)
    BY FS_Interval
  <2> QED  BY <2>1, FS_Subset, FS_CardinalityType
<1>2. m \in {c, limit} /\ m <= limit /\ m >= 2 /\ m \in Nat
  <2>1. {c, limit} \in SUBSET Nat /\ {c, limit} # {}
    BY <1>1
  <2> QED  BY <2>1, MinIsLeast
<1>3. N \in SUBSET Nat /\ \A n \in N : n <= m
  BY <1>2
<1>4. 1 \in N
  <2>1. ASSUME NEW j \in First(positions, 1), NEW k \in First(positions, 1), j # k  PROVE  FALSE
    <3>1. IsFiniteSet(First(positions, 1)) /\ Cardinality(First(positions, 1)) <= 1
      BY FirstIsBounded
    <3>2. Cardinality({j, k}) = 2 /\ IsFiniteSet({j, k})
      BY <2>1, PairIsTwo
    <3>3. Cardinality({j, k}) <= Cardinality(First(positions, 1)) /\ Cardinality(First(positions, 1)) \in Nat
      BY <3>1, FS_Subset, FS_CardinalityType
    <3> QED  BY <3>1, <3>2, <3>3
  <2> QED  BY <1>2, <2>1
<1>5. size = Max(N)
  BY DEF IndependentPrefix
<1>6. Max(N) \in N
  BY <1>2, <1>3, <1>4, MaxIsGreatest
<1>7. size \in N
  BY <1>5, <1>6
<1> QED  BY <1>2, <1>7

LEMMA ReserveBatchTypes ==
    ASSUME NEW w \in Snapshots, NEW i \in DOMAIN Policies, NEW batch \in SUBSET Participants, IsFiniteSet(batch),
           NEW v, v = ReserveBatch(w, i, batch)
    PROVE  /\ v \in Snapshots /\ v.clock = w.clock /\ v.led = w.led
           /\ \A p \in Participants : p \notin batch => v.st[p] = w.st[p]
           /\ \A j \in DOMAIN Policies : j # i => v.svc[j] = w.svc[j]
           /\ v.svc[i].inFlight = w.svc[i].inFlight + Cardinality(batch)
<1> DEFINE state(p) == [w.st[p] EXCEPT !.attempted = @ + 1, !.inFlight = @ + 1]
           st == [p \in Participants |-> IF p \in batch THEN state(p) ELSE w.st[p]]
           f == w.svc[i].inFlight + Cardinality(batch)
           service == [w.svc[i] EXCEPT !.inFlight = f, !.quiescent = FALSE]
           svc == [w.svc EXCEPT ![i] = service]
<1>1. v = [w EXCEPT !.st = st, !.svc = svc]
  BY DEF ReserveBatch
<1>2. ASSUME NEW p \in Participants  PROVE  state(p) \in SchedulerStates
  <2> DEFINE a == w.st[p].attempted + 1
             g == w.st[p].inFlight + 1
  <2>1. a \in Nat /\ g \in Nat /\ w.st[p] \in SchedulerStates
    BY SnapshotParts DEF SchedulerStates
  <2> HIDE DEF a, g
  <2>2. [w.st[p] EXCEPT !.attempted = a, !.inFlight = g] \in SchedulerStates
    BY <2>1 DEF SchedulerStates
  <2> QED  BY <2>2 DEF a, g
<1> HIDE DEF state
<1>3. /\ st \in [Participants -> SchedulerStates]
      /\ \A p \in Participants : p \notin batch => st[p] = w.st[p]
  BY <1>2, SnapshotParts
<1>4. f \in Nat /\ w.svc[i] \in ServiceStates /\ w.svc \in [DOMAIN Policies -> ServiceStates]
  BY SnapshotParts, FS_CardinalityType DEF ServiceStates
<1> HIDE DEF f
<1>5. service \in ServiceStates /\ service.inFlight = f
  BY <1>4 DEF ServiceStates
<1> HIDE DEF service
<1>6. /\ svc \in [DOMAIN Policies -> ServiceStates] /\ svc[i].inFlight = f
      /\ \A j \in DOMAIN Policies : j # i => svc[j] = w.svc[j]
  BY <1>4, <1>5
<1> HIDE DEF st, svc
<1>7. v \in Snapshots /\ v.clock = w.clock /\ v.led = w.led /\ v.st = st /\ v.svc = svc
  BY <1>1, <1>3, <1>6 DEF Snapshots
<1> QED  BY <1>3, <1>6, <1>7 DEF f

\* Whatever is answered for a batch, settling it leaves its predecessor's counters
\* with one more attempt that succeeded or failed for each participant of it.
LEMMA SettledBatchIsAtRest ==
    ASSUME NEW base \in Snapshots, AtRest(base), NEW i \in DOMAIN Policies,
           NEW batch \in SUBSET Participants, IsFiniteSet(batch), NEW results
    PROVE  LET v == SettleBatch(ReserveBatch(base, i, batch), base, i, batch, results)
           IN  v \in Snapshots /\ v.clock = base.clock /\ AtRest(v)
<1> DEFINE w == ReserveBatch(base, i, batch)
           settled(p) == NextActionState(p, base.st[p], results[p] = "succeeded", results[p] = "invalid")
           st == [p \in Participants |-> IF p \in batch THEN settled(p) ELSE w.st[p]]
           u == [w EXCEPT !.st = st]
           v == SettleBatch(w, base, i, batch, results)
           svc == [u.svc EXCEPT ![i] = base.svc[i]]
<1>1. /\ w \in Snapshots /\ w.clock = base.clock
      /\ \A p \in Participants : p \notin batch => w.st[p] = base.st[p]
      /\ \A j \in DOMAIN Policies : j # i => w.svc[j] = base.svc[j]
  BY ReserveBatchTypes
<1>2. v = [u EXCEPT !.svc = svc]
  BY DEF SettleBatch, SettleService
<1> HIDE DEF w, v
<1>3. ASSUME NEW p \in Participants
      PROVE  st[p] \in SchedulerStates /\ st[p].inFlight = 0 /\ st[p].attempted = st[p].succeeded + st[p].failed
  <2>1. /\ base.st[p] \in SchedulerStates /\ base.st[p].inFlight = 0
        /\ base.st[p].attempted = base.st[p].succeeded + base.st[p].failed
    BY SnapshotParts DEF AtRest
  <2>2. /\ settled(p) \in SchedulerStates /\ settled(p).inFlight = base.st[p].inFlight
        /\ settled(p).attempted = settled(p).succeeded + settled(p).failed
    BY <2>1, NextActionTypes
  <2>3. st[p] = IF p \in batch THEN settled(p) ELSE w.st[p]
    OBVIOUS
  <2> HIDE DEF st, settled
  <2> QED  BY <1>1, <2>1, <2>2, <2>3
<1>4. st \in [Participants -> SchedulerStates]
  BY <1>3
<1> HIDE DEF st
<1>5. u \in Snapshots /\ u.st = st /\ u.svc = w.svc /\ u.clock = w.clock
  BY <1>1, <1>4 DEF Snapshots
<1>6. base.svc[i] \in ServiceStates /\ base.svc \in [DOMAIN Policies -> ServiceStates]
  BY SnapshotParts
<1> HIDE DEF u
<1>7. /\ svc \in [DOMAIN Policies -> ServiceStates]
      /\ \A j \in DOMAIN Policies : svc[j].inFlight = 0 /\ svc[j].quiescent
  <2>1. w.svc \in [DOMAIN Policies -> ServiceStates]
    BY <1>1, SnapshotParts
  <2>2. svc = [w.svc EXCEPT ![i] = base.svc[i]]
    BY <1>5
  <2> HIDE DEF svc
  <2>3. svc \in [DOMAIN Policies -> ServiceStates]
    BY <1>6, <2>1, <2>2
  <2>4. ASSUME NEW j \in DOMAIN Policies  PROVE  svc[j] = base.svc[j]
    BY <1>1, <2>1, <2>2
  <2> QED  BY <2>3, <2>4 DEF AtRest
<1> HIDE DEF svc
<1>8. v \in Snapshots /\ v.st = st /\ v.svc = svc /\ v.clock = base.clock
  BY <1>1, <1>2, <1>5, <1>7 DEF Snapshots
<1>9. AtRest(v)
  BY <1>3, <1>7, <1>8 DEF AtRest
<1> QED  BY <1>8, <1>9 DEF v, w
=============================================================================
