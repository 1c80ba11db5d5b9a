-------------------------- MODULE MutationAuthority --------------------------
(***************************************************************************)
(* The in-process mutation authority of the runtime control plane          *)
(* (raes_runtime/control_plane_mutation.py) with the two kinds of callers  *)
(* it serves: threads that call the control plane directly, and HTTP       *)
(* requests whose work the bounded executor of control_plane_api/          *)
(* _offload.py moves off the event loop.                                   *)
(*                                                                         *)
(* Every action is one critical section of the authority's condition, or   *)
(* one uninterrupted step of an event-loop task.  The state of a future is *)
(* changed by the event loop WITHOUT the condition's lock, which is why    *)
(* cancelling an awaited future and running the handler of that            *)
(* cancellation are two actions that other callers interleave with.        *)
(***************************************************************************)
EXTENDS Naturals, FiniteSets, Sequences, SequencesExt

CONSTANTS Threads,     \* direct (synchronous) callers
          Requests,    \* HTTP mutation requests, each an event-loop task
          None,        \* no owner, no reservation
          MaxPending,  \* max_pending_mutations of the executor
          MaxDepth     \* bound on re-entrant nesting

ASSUME CallersAssumption ==
    /\ None \notin Threads
    /\ None \notin Requests
    /\ Threads \cap Requests = {}
ASSUME FiniteAssumption == IsFiniteSet(Threads) /\ IsFiniteSet(Requests)
ASSUME BoundsAssumption == MaxPending \in Nat \ {0} /\ MaxDepth \in Nat \ {0}

VARIABLES
    owner,        \* _owner_thread
    depth,        \* _depth
    reservation,  \* _reservation, named by the request it was made for
    waiters,      \* _async_waiters
    granted,      \* the requests whose waiter has granted = True
    future,       \* waiter.future of each request
    tpc,          \* control state of each thread
    rpc,          \* control state of each request's task
    mustCancel,   \* tasks whose cancellation is delivered when they resume
    worker,       \* the shielded worker a request dispatched
    pending       \* _pending_mutations of the executor

permitVars  == <<owner, depth, reservation>>
waitVars    == <<waiters, granted, future>>
requestVars == <<rpc, mustCancel, worker, pending>>
vars == <<permitVars, waitVars, tpc, requestVars>>

FutureStates == {"none", "pending", "done", "cancelled"}
ThreadStates == {"idle", "asleep", "woken", "mutating", "external"}
Finished     == {"idle", "refused", "ok", "cancelled", "error"}
InFlightPcs  == {"probing", "awaiting", "dispatched", "settling"}
WorkerStates == {"none", "running", "mutating", "external", "committing", "finished"}

InFlight == {r \in Requests : rpc[r] \in InFlightPcs}

\* A worker or a thread between the entry of its state cut and its exit.
ThreadInCut(t)  == tpc[t] \in {"mutating", "external"}
RequestInCut(r) == worker[r] \in {"mutating", "external", "committing"}
InCut == {t \in Threads : ThreadInCut(t)} \cup {r \in Requests : RequestInCut(r)}

TypeOK ==
    /\ owner \in Threads \cup {None}
    /\ depth \in 0..MaxDepth
    /\ reservation \in Requests \cup {None}
    /\ waiters \in Seq(Requests)
    /\ granted \in SUBSET Requests
    /\ future \in [Requests -> FutureStates]
    /\ tpc \in [Threads -> ThreadStates]
    /\ rpc \in [Requests -> Finished \cup InFlightPcs]
    /\ mustCancel \in SUBSET Requests
    /\ worker \in [Requests -> WorkerStates]
    /\ pending \in Nat

Init ==
    /\ owner = None /\ depth = 0 /\ reservation = None
    /\ waiters = <<>> /\ granted = {}
    /\ future = [r \in Requests |-> "none"]
    /\ tpc = [t \in Threads |-> "idle"]
    /\ rpc = [r \in Requests |-> "idle"]
    /\ mustCancel = {}
    /\ worker = [r \in Requests |-> "none"]
    /\ pending = 0

-----------------------------------------------------------------------------
(* The permit                                                              *)

\* Mutant: a reservation may be made beside an owning thread.
PermitIsFreeOfReservations == reservation = None

PermitIsFree == owner = None /\ reservation = None

SyncPermitAvailable == PermitIsFree /\ waiters = <<>>

\* Waiters whose future is not cancelled, by their place in the deque.
LivePlaces == {i \in DOMAIN waiters : future[waiters[i]] # "cancelled"}

\* Mutant: the newest waiter is served first.
GrantNewestWaiter(i) ==
    /\ i \in LivePlaces
    /\ \A j \in LivePlaces : i >= j
    /\ reservation' = waiters[i]
    /\ granted' = (granted \ {reservation}) \cup {waiters[i]}
    /\ waiters' = RemoveAt(waiters, i)

\* Mutant: the grant is not recorded on the waiter, so its callback never runs.
GrantUnrecorded(i) ==
    /\ i \in LivePlaces
    /\ \A j \in LivePlaces : i <= j
    /\ reservation' = waiters[i]
    /\ granted' = granted \ {reservation}
    /\ waiters' = SubSeq(waiters, i + 1, Len(waiters))

\* The loop of _grant_next_waiter_locked pops cancelled waiters until it meets
\* a live one, which gets the permit ...
GrantWaiter(i) ==
    /\ i \in LivePlaces
    /\ \A j \in LivePlaces : i <= j
    /\ reservation' = waiters[i]
    /\ granted' = (granted \ {reservation}) \cup {waiters[i]}
    /\ waiters' = SubSeq(waiters, i + 1, Len(waiters))

\* Mutant: nobody is notified when the deque is found empty.
NotifyNobody(threads) ==
    /\ LivePlaces = {}
    /\ reservation' = None
    /\ granted' = granted \ {reservation}
    /\ waiters' = <<>>
    /\ tpc' = threads

\* ... or until the deque is empty, and then every sleeping thread is notified.
NotifyAll(threads) ==
    /\ LivePlaces = {}
    /\ reservation' = None
    /\ granted' = granted \ {reservation}
    /\ waiters' = <<>>
    /\ tpc' = [t \in Threads |-> IF threads[t] = "asleep" THEN "woken" ELSE threads[t]]

\* The permit is given up; threads is the control state the callers are left in.
GrantNextWaiter(threads) ==
    \/ (\E i \in DOMAIN waiters : GrantWaiter(i)) /\ tpc' = threads
    \/ NotifyAll(threads)

-----------------------------------------------------------------------------
(* Threads: RuntimeMutationAuthority.mutation outside an async reservation *)

\* wait_for evaluates its predicate under the lock: the thread owns the permit
\* or sleeps until it is notified.
Enter(t) ==
    /\ tpc[t] \in {"idle", "woken"}
    /\ \/ /\ SyncPermitAvailable
          /\ owner' = t /\ depth' = 1
          /\ tpc' = [tpc EXCEPT ![t] = "mutating"]
       \/ /\ ~SyncPermitAvailable
          /\ tpc' = [tpc EXCEPT ![t] = "asleep"]
          /\ UNCHANGED <<owner, depth>>
    /\ UNCHANGED <<reservation, waitVars, requestVars>>

\* Re-entry by the owner.  During external work re-entry is refused before the
\* condition is even taken, so a thread in "external" has no such step.
Nest(t) ==
    /\ tpc[t] = "mutating" /\ owner = t
    /\ depth < MaxDepth
    /\ depth' = depth + 1
    /\ UNCHANGED <<owner, reservation, waitVars, tpc, requestVars>>

\* Mutant: an exit forgets to tell the outermost level from a nested one.
ExitAnyLevel(t) ==
    /\ tpc[t] = "mutating" /\ owner = t
    /\ depth' = depth - 1
    /\ UNCHANGED <<owner, reservation, waitVars, tpc, requestVars>>

ExitNested(t) ==
    /\ tpc[t] = "mutating" /\ owner = t /\ depth > 1
    /\ depth' = depth - 1
    /\ UNCHANGED <<owner, reservation, waitVars, tpc, requestVars>>

ExitOuter(t) ==
    /\ tpc[t] = "mutating" /\ owner = t /\ depth = 1
    /\ owner' = None /\ depth' = 0
    /\ GrantNextWaiter([tpc EXCEPT ![t] = "idle"])
    /\ UNCHANGED <<future, requestVars>>

\* external_call: the permit stays owned while extension code runs.
CallExternal(t) ==
    /\ tpc[t] = "mutating" /\ owner = t
    /\ tpc' = [tpc EXCEPT ![t] = "external"]
    /\ UNCHANGED <<permitVars, waitVars, requestVars>>

ReturnExternal(t) ==
    /\ tpc[t] = "external"
    /\ tpc' = [tpc EXCEPT ![t] = "mutating"]
    /\ UNCHANGED <<permitVars, waitVars, requestVars>>

-----------------------------------------------------------------------------
(* Requests: _ControlPlaneCallExecutor.mutate and its reservation          *)

\* The end of mutate: whatever the outcome, its finally clause runs.
Finish(r, outcome) ==
    /\ rpc' = [rpc EXCEPT ![r] = outcome]
    /\ pending' = pending - 1
    /\ future' = [future EXCEPT ![r] = "none"]
    /\ mustCancel' = mustCancel \ {r}
    /\ worker' = [worker EXCEPT ![r] = "none"]

Dispatch(r) ==
    /\ rpc' = [rpc EXCEPT ![r] = "dispatched"]
    /\ worker' = [worker EXCEPT ![r] = "running"]

\* Mutant: the admission bound is off by one.
SubmitOneTooMany(r) ==
    /\ rpc[r] \in Finished
    /\ pending <= MaxPending
    /\ rpc' = [rpc EXCEPT ![r] = "probing"]
    /\ pending' = pending + 1
    /\ UNCHANGED <<permitVars, waitVars, tpc, mustCancel, worker>>

Submit(r) ==
    /\ rpc[r] \in Finished
    /\ \/ /\ pending >= MaxPending
          /\ rpc' = [rpc EXCEPT ![r] = "refused"]
          /\ UNCHANGED pending
       \/ /\ pending < MaxPending
          /\ rpc' = [rpc EXCEPT ![r] = "probing"]
          /\ pending' = pending + 1
    /\ UNCHANGED <<permitVars, waitVars, tpc, mustCancel, worker>>

\* The probe ended before the first mutation boundary: a replayed receipt, a
\* rejection or an exception; or the request was cancelled while it ran.
ProbeEnds(r) ==
    /\ rpc[r] = "probing"
    /\ \E outcome \in {"ok", "cancelled"} : Finish(r, outcome)
    /\ UNCHANGED <<permitVars, waiters, granted, tpc>>

\* The probe raised MutationReservationRequired and reserve() runs, up to its
\* first suspension: the reservation is made at once, or the waiter is queued.
Reserve(r) ==
    /\ rpc[r] = "probing"
    /\ \/ /\ PermitIsFree /\ waiters = <<>>
          /\ reservation' = r
          /\ granted' = granted \cup {r}
          /\ Dispatch(r)
          /\ UNCHANGED <<waiters, future>>
       \/ /\ ~(PermitIsFree /\ waiters = <<>>)
          /\ waiters' = Append(waiters, r)
          /\ future' = [future EXCEPT ![r] = "pending"]
          /\ rpc' = [rpc EXCEPT ![r] = "awaiting"]
          /\ UNCHANGED <<reservation, granted, worker>>
    /\ UNCHANGED <<owner, depth, tpc, mustCancel, pending>>

\* The call_soon_threadsafe callback of a grant: _complete_waiter.
CompleteWaiter(r) ==
    /\ rpc[r] = "awaiting" /\ r \in granted
    /\ future[r] = "pending"
    /\ future' = [future EXCEPT ![r] = "done"]
    /\ UNCHANGED <<permitVars, waiters, granted, tpc, requestVars>>

\* Cancelling a task that awaits its future cancels the future; when the future
\* is done already the cancellation is delivered when the task resumes.
CancelAwaiting(r) ==
    /\ rpc[r] = "awaiting"
    /\ \/ /\ future[r] = "pending"
          /\ future' = [future EXCEPT ![r] = "cancelled"]
          /\ UNCHANGED mustCancel
       \/ /\ future[r] = "done"
          /\ mustCancel' = mustCancel \cup {r}
          /\ UNCHANGED future
    /\ UNCHANGED <<permitVars, waiters, granted, tpc, rpc, worker, pending>>

ResumeAwaiting(r) ==
    /\ rpc[r] = "awaiting" /\ future[r] = "done" /\ r \notin mustCancel
    /\ Dispatch(r)
    /\ UNCHANGED <<permitVars, waitVars, tpc, mustCancel, pending>>

CancellationDelivered(r) ==
    /\ rpc[r] = "awaiting"
    /\ future[r] = "cancelled" \/ r \in mustCancel

\* Mutant: a cancelled request forgets the permit it was granted meanwhile.
CancelGrantedKeepsPermit(r) ==
    /\ CancellationDelivered(r)
    /\ r \in granted
    /\ Finish(r, "cancelled")
    /\ granted' = granted \ {r}
    /\ UNCHANGED <<permitVars, waiters, tpc>>

\* reserve's except clause, for a waiter that was granted in the meantime.
CancelGranted(r) ==
    /\ CancellationDelivered(r)
    /\ r \in granted
    /\ reservation = r
    /\ GrantNextWaiter(tpc)
    /\ Finish(r, "cancelled")
    /\ UNCHANGED <<owner, depth>>

\* reserve's except clause, for a waiter that was not granted: it is removed
\* from the deque.  deque.remove raises ValueError when the grant loop of
\* another caller has popped the cancelled waiter already.
CancelQueued(r) ==
    /\ CancellationDelivered(r)
    /\ r \notin granted
    /\ \/ /\ \E i \in DOMAIN waiters : waiters[i] = r /\ waiters' = RemoveAt(waiters, i)
          /\ Finish(r, "cancelled")
       \/ /\ \A i \in DOMAIN waiters : waiters[i] # r
          /\ Finish(r, "error")
          /\ UNCHANGED waiters
    /\ UNCHANGED <<permitVars, granted, tpc>>

\* _run_reserved: cancellation while the shielded worker runs starts settling;
\* _settle_worker absorbs any further one.
CancelDispatched(r) ==
    /\ rpc[r] = "dispatched"
    /\ rpc' = [rpc EXCEPT ![r] = "settling"]
    /\ UNCHANGED <<permitVars, waitVars, tpc, mustCancel, worker, pending>>

\* Mutant: a cancelled request releases without settling its worker.
LeaveWithoutSettling(r) ==
    /\ rpc[r] \in {"dispatched", "settling"}
    /\ rpc[r] = "settling" \/ worker[r] = "finished"
    /\ reservation = r
    /\ GrantNextWaiter(tpc)
    /\ rpc' = [rpc EXCEPT ![r] = "cancelled"]
    /\ pending' = pending - 1
    /\ UNCHANGED <<owner, depth, future, mustCancel, worker>>

\* The task leaves reserve(): its finally clause releases the reservation.
LeaveReservation(r) ==
    /\ rpc[r] \in {"dispatched", "settling"}
    /\ worker[r] = "finished"
    /\ reservation = r
    /\ GrantNextWaiter(tpc)
    /\ Finish(r, IF rpc[r] = "dispatched" THEN "ok" ELSE "cancelled")
    /\ UNCHANGED <<owner, depth>>

-----------------------------------------------------------------------------
(* The worker of a dispatched request                                      *)

WorkerMoves(r, from, to) ==
    /\ worker[r] = from
    /\ worker' = [worker EXCEPT ![r] = to]
    /\ UNCHANGED <<permitVars, waitVars, tpc, rpc, mustCancel, pending>>

\* mutation() under an active reservation changes neither owner nor depth.
WorkerEnters(r)   == reservation = r /\ WorkerMoves(r, "running", "mutating")
WorkerCalls(r)    == reservation = r /\ WorkerMoves(r, "mutating", "external")
WorkerReturns(r)  == WorkerMoves(r, "external", "committing")
WorkerFinishes(r) == \E s \in {"running", "mutating", "committing"} :
                        WorkerMoves(r, s, "finished")

-----------------------------------------------------------------------------
ThreadNext(t) == \/ Enter(t) \/ Nest(t) \/ ExitNested(t) \/ ExitOuter(t)
                 \/ CallExternal(t) \/ ReturnExternal(t)

RequestNext(r) == \/ Submit(r) \/ ProbeEnds(r) \/ Reserve(r) \/ CompleteWaiter(r)
                  \/ CancelAwaiting(r) \/ ResumeAwaiting(r) \/ CancelGranted(r)
                  \/ CancelQueued(r) \/ CancelDispatched(r) \/ LeaveReservation(r)

WorkerNext(r) == \/ WorkerEnters(r) \/ WorkerCalls(r)
                 \/ WorkerReturns(r) \/ WorkerFinishes(r)

Next == \/ \E t \in Threads : ThreadNext(t)
        \/ \E r \in Requests : RequestNext(r) \/ WorkerNext(r)

Spec == Init /\ [][Next]_vars

(***************************************************************************)
(* Fairness.  Threads and the event loop are scheduled (weak fairness of   *)
(* each step that is not a new call or a cancellation by a client), and    *)
(* the code inside a state cut, extension code included, ends: strong      *)
(* fairness of the exits, because a body may nest and call out repeatedly  *)
(* before it ends.                                                         *)
(***************************************************************************)
Fairness ==
    /\ \A t \in Threads :
          /\ WF_vars(ReturnExternal(t))
          /\ SF_vars(ExitNested(t)) /\ SF_vars(ExitOuter(t))
    /\ \A r \in Requests :
          /\ WF_vars(ProbeEnds(r) \/ Reserve(r))
          /\ WF_vars(CompleteWaiter(r))
          /\ WF_vars(ResumeAwaiting(r) \/ CancelGranted(r) \/ CancelQueued(r))
          /\ WF_vars(LeaveReservation(r))
          /\ WF_vars(WorkerReturns(r)) /\ WF_vars(WorkerFinishes(r))

FairSpec == Spec /\ Fairness

-----------------------------------------------------------------------------
(* Properties                                                              *)

\* No step of _grant_next_waiter_locked loses the permit or a wake-up: while the
\* permit is free no request is queued for it and no thread sleeps on the
\* condition, whichever of releases, cancellations and arrivals came last.
NoLostWakeup ==
    PermitIsFree => /\ waiters = <<>>
                    /\ \A t \in Threads : tpc[t] # "asleep"

\* The permit always belongs to a caller that will release it: a thread inside
\* its state cut, or a request whose task still runs.  Cancelling a request
\* never orphans the permit granted to it (reserve, _settle_worker).
PermitHolderIsLive ==
    /\ owner # None => ThreadInCut(owner)
    /\ reservation # None => /\ rpc[reservation] \in {"awaiting", "dispatched", "settling"}
                             /\ reservation \in granted

\* A worker never outlives the reservation that covers it: as long as it has not
\* finished, even after its request was cancelled, the permit is reserved for
\* its request (_run_reserved, _settle_worker).
WorkerIsCovered ==
    \A r \in Requests : worker[r] # "none" => reservation = r

\* Work inside a mutation state cut is never concurrent with other such work.
MutualExclusion == \A a, b \in InCut : a = b

\* The executor's counter is exactly the number of mutation requests it has in
\* flight, through every refusal, cancellation and error, and stays in bounds.
PendingIsExact == pending = Cardinality(InFlight) /\ pending <= MaxPending

\* Every admitted mutation request ends, cancelled or not: the deque is FIFO and
\* no holder can keep the permit for ever.
EveryRequestEnds ==
    \A r \in Requests : rpc[r] \in InFlightPcs ~> rpc[r] \in Finished

\* A cancelled queued request ends as cancelled; it is never answered with the
\* ValueError of deque.remove.
CancellationIsReported == \A r \in Requests : rpc[r] # "error"

(***************************************************************************)
(* The inductive strengthening behind the safety properties: who may hold  *)
(* the permit in which control state, and what a queued waiter looks like. *)
(***************************************************************************)
HolderInv ==
    /\ owner = None \/ reservation = None
    /\ \A t \in Threads : ThreadInCut(t) <=> owner = t
    /\ \A r \in Requests :
          /\ r \in granted <=> reservation = r
          /\ rpc[r] \in {"dispatched", "settling"} => reservation = r
          /\ reservation = r => rpc[r] \in {"awaiting", "dispatched", "settling"}
          /\ worker[r] # "none" => rpc[r] \in {"dispatched", "settling"}

QueueInv ==
    /\ \A i \in DOMAIN waiters : rpc[waiters[i]] = "awaiting" /\ waiters[i] \notin granted
    /\ \A i, j \in DOMAIN waiters : waiters[i] = waiters[j] => i = j

FutureInv ==
    \A r \in Requests :
        /\ rpc[r] = "awaiting" /\ future[r] = "done" => r \in granted
        /\ r \in mustCancel => rpc[r] = "awaiting" /\ future[r] = "done"

Inv == TypeOK /\ HolderInv /\ QueueInv /\ FutureInv /\ NoLostWakeup /\ PendingIsExact

Holder == IF owner # None THEN owner ELSE reservation

\* The waiters that are still to be served, and the order of their places
LiveWaiters  == {r \in Requests : \E i \in LivePlaces : waiters[i] = r}
Ahead(q, r)  == \E i, j \in LivePlaces : i < j /\ waiters[i] = q /\ waiters[j] = r
ArrivalOrder == {pair \in Requests \X Requests : Ahead(pair[1], pair[2])}

\* The authority implements the FIFO permit.  A cancelled waiter leaves the
\* abstract queue when its future is cancelled, whoever pops it from the deque.
Permit == INSTANCE FifoPermit WITH
            Actors <- Threads \cup Requests,
            holder <- Holder,
            queued <- LiveWaiters,
            before <- ArrivalOrder,
            inside <- InCut

\* RuntimeMutationAuthority is a FIFO permit: queued requests get it in order,
\* threads only when no request is queued, and state cuts happen under it.
ImplementsFifoPermit == Permit!Spec
=============================================================================
