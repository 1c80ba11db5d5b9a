--------------------------- MODULE ResourceLedger ---------------------------
(***************************************************************************)
(* Resource accounting of governed (v3) participant policies: the budgets  *)
(* of a policy and the physical pools they draw on, as part of a runtime   *)
(* snapshot.  Every operator takes a ledger and returns the ledger of the  *)
(* snapshot that the code returns, with its disposition.                   *)
(*                                                                         *)
(* A budget appears twice: as its own state and as an allocation of its    *)
(* pool.  An operation's vector of budgets is reserved, committed and      *)
(* released as a whole, so one event per operation and transition stands   *)
(* for the events of the vector.  current_use is never written by this     *)
(* code and is 0.  Throttle events and counters, which nothing reads, are  *)
(* left out.                                                               *)
(***************************************************************************)
EXTENDS Integers, FiniteSets, FiniteSetsExt

CONSTANTS
    Budgets,   \* budget state refs
    Budget,    \* per budget: its demand, limit, pool, accounting and reset mode
    Pools,     \* exact physical pools
    Pool       \* per pool: capacity and the part protected allocations keep

ASSUME PoolsAssumption ==
    Pool \in [Pools -> [capacity : Nat, protected : Nat]]
ASSUME BudgetsAssumption ==
    Budget \in [Budgets -> [demand : Nat, limit : Nat, pool : Pools, gauge : BOOLEAN,
                            protected : BOOLEAN, segmental : BOOLEAN]]

\* ParticipantResourceBudgetStateModel and ParticipantResourcePoolAllocationModel
Accounts == [generation : Nat, reserved : Nat, used : Nat]
Fresh    == [generation |-> 0, reserved |-> 0, used |-> 0]

\* initialize_participant_resource_budgets
InitialLedger == [budget   |-> [b \in Budgets |-> Fresh],
                  pool     |-> [b \in Budgets |-> Fresh],
                  reserves |-> {}, commits |-> {}, releases |-> {}]

Ledgers(operations) == [budget : [Budgets -> Accounts], pool : [Budgets -> Accounts],
                        reserves : SUBSET operations, commits : SUBSET operations,
                        releases : SUBSET operations]

\* _used_capacity, _allocation_use: a gauge or a lease counts what it holds now
Load(b, account) == account.reserved + (IF Budget[b].gauge THEN 0 ELSE account.used)

\* pool_allocated_total, over some of a pool's allocations
PoolLoad(l, budgets) == MapThenSumSet(LAMBDA b : Load(b, l.pool[b]), budgets)

Allocations(pool) == {b \in Budgets : Budget[b].pool = pool}

\* can_reserve
PoolCanReserve(l, b) ==
    LET pool   == Budget[b].pool
        amount == Budget[b].demand
    IN  /\ PoolLoad(l, Allocations(pool)) + amount <= Pool[pool].capacity
        /\ \/ Budget[b].protected
           \/ PoolLoad(l, {x \in Allocations(pool) : ~Budget[x].protected}) + amount
                 <= Pool[pool].capacity - Pool[pool].protected

\* ParticipantResourcePoolStateModel: with_entries refuses a pool over its capacity
PoolsValid(l) == \A p \in Pools : PoolLoad(l, Allocations(p)) <= Pool[p].capacity

Result(disposition, l) == [disposition |-> disposition, ledger |-> l]

-----------------------------------------------------------------------------
\* _check_reservation for every demand of the vector
CanReserve(l, budgets, generation) ==
    \A b \in budgets :
        /\ l.budget[b].generation = generation
        /\ Load(b, l.budget[b]) + Budget[b].demand <= Budget[b].limit
        /\ PoolCanReserve(l, b)

\* _apply_reservation and reserve, for the accounts of a vector
Reserved(accounts, budgets) ==
    [b \in Budgets |-> IF b \notin budgets THEN accounts[b]
                       ELSE [accounts[b] EXCEPT !.reserved = @ + Budget[b].demand]]

\* Mutant: the reservation is answered before the accounts are looked at.
ReserveUnchecked(l, budgets, operation, generation) ==
    IF operation \in l.reserves \/ ~CanReserve(l, budgets, generation) THEN Result("ok", l)
    ELSE Result("ok", [l EXCEPT !.budget = Reserved(@, budgets), !.pool = Reserved(@, budgets),
                                !.reserves = @ \cup {operation}])

\* reserve_participant_resources: an operation whose reserve event is recorded
\* is answered without another look at the accounts.
Reserve(l, budgets, operation, generation) ==
    IF operation \in l.reserves THEN Result("ok", l)
    ELSE IF ~CanReserve(l, budgets, generation) THEN Result("throttled", l)
    ELSE Result("ok", [l EXCEPT !.budget = Reserved(@, budgets), !.pool = Reserved(@, budgets),
                                !.reserves = @ \cup {operation}])

\* Mutant: what is given back is not capped by what is reserved.
FreedUncapped(b, account) == account.reserved - Budget[b].demand

Freed(b, account) == IF account.reserved >= Budget[b].demand THEN account.reserved - Budget[b].demand ELSE 0

\* Mutant: a commit gives back what was measured, not what was reserved.
CommittedByMeasure(accounts, budgets, measured) ==
    [b \in Budgets |-> IF b \notin budgets THEN accounts[b]
                       ELSE [accounts[b] EXCEPT !.reserved = @ - measured[b], !.used = @ + measured[b]]]

\* _commit_reservation and commit
Committed(accounts, budgets, measured) ==
    [b \in Budgets |-> IF b \notin budgets THEN accounts[b]
                       ELSE [accounts[b] EXCEPT !.reserved = Freed(b, accounts[b]), !.used = @ + measured[b]]]

\* commit_participant_resource_reservation, for a trusted vector of measurements
Commit(l, budgets, operation, generation, measured) ==
    LET next == [l EXCEPT !.budget = Committed(@, budgets, measured), !.pool = Committed(@, budgets, measured),
                          !.commits = @ \cup {operation}]
    IN  IF \/ operation \notin l.reserves
           \/ \E b \in budgets : measured[b] > Budget[b].demand
        THEN Result("refused", l)
        ELSE IF operation \in l.commits THEN Result("ok", l)
        ELSE IF \E b \in budgets : l.budget[b].generation # generation THEN Result("refused", l)
        ELSE IF ~PoolsValid(next) THEN Result("raised", l)
        ELSE Result("ok", next)

\* What a release does to the accounts of a vector
Released(accounts, budgets) ==
    [b \in Budgets |-> IF b \notin budgets THEN accounts[b]
                       ELSE [accounts[b] EXCEPT !.reserved = Freed(b, accounts[b])]]

\* release_participant_resource_reservation
Release(l, budgets, operation, generation) ==
    IF operation \notin l.reserves \/ operation \in l.releases THEN Result("ok", l)
    ELSE IF \E b \in budgets : l.budget[b].generation # generation THEN Result("refused", l)
    ELSE Result("ok", [l EXCEPT !.budget = Released(@, budgets), !.pool = Released(@, budgets),
                                !.releases = @ \cup {operation}])

\* ... and what a new segment does
Reconciled(accounts, budgets, generation) ==
    [b \in Budgets |-> IF b \notin budgets THEN accounts[b]
                       ELSE [generation |-> generation + 1, reserved |-> 0,
                             used |-> IF Budget[b].segmental THEN 0 ELSE accounts[b].used]]

\* reconcile_participant_resource_budgets, at the boundary of a time segment
Reconcile(l, budgets, generation) ==
    IF \E b \in budgets : l.budget[b].generation # generation THEN Result("refused", l)
    ELSE Result("ok", [l EXCEPT !.budget = Reconciled(@, budgets, generation),
                                !.pool = Reconciled(@, budgets, generation)])
=============================================================================
