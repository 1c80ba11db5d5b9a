----------------------- MODULE MutationAuthorityProofs -----------------------
(***************************************************************************)
(* Machine-checked proofs about the mutation authority, for any number of  *)
(* threads and requests and any bounds: Inv is inductive, and each safety  *)
(* property of the authority follows from it.                              *)
(***************************************************************************)
EXTENDS MutationAuthority, FiniteSetTheorems, SequenceTheorems, TLAPS

-----------------------------------------------------------------------------
(* Sequences and counters                                                  *)

\* The deque after a grant, _grant_next_waiter_locked: what followed the i-th
\* waiter, in the same order.
LEMMA TailOfQueue ==
    ASSUME NEW S, NEW s \in Seq(S), NEW i \in DOMAIN s
    PROVE  LET t == SubSeq(s, i + 1, Len(s)) IN
           /\ t \in Seq(S)
           /\ Len(t) = Len(s) - i
           /\ \A j \in DOMAIN t : i + j \in DOMAIN s /\ t[j] = s[i + j]
<1> DEFINE t == SubSeq(s, i + 1, Len(s))
<1>1. Len(s) \in Nat /\ DOMAIN s = 1..Len(s) /\ i \in 1..Len(s)
  BY LenProperties
<1>2. \A j \in (i + 1)..Len(s) : s[j] \in S
  BY <1>1, ElementOfSeq
<1>3. /\ t \in Seq(S)
      /\ Len(t) = IF i + 1 <= Len(s) THEN Len(s) - (i + 1) + 1 ELSE 0
      /\ \A j \in 1..(Len(s) - (i + 1) + 1) : t[j] = s[i + 1 + j - 1]
  BY <1>1, <1>2, SubSeqProperties
<1>4. DOMAIN t = 1..Len(t)
  BY <1>3, LenProperties
<1>5. Len(t) = Len(s) - i
  BY <1>1, <1>3
<1>6. ASSUME NEW j \in DOMAIN t
      PROVE  i + j \in DOMAIN s /\ t[j] = s[i + j]
  <2>1. j \in 1..(Len(s) - i)
    BY <1>4, <1>5
  <2>2. t[j] = s[i + 1 + j - 1]
    BY <2>1, <1>1, <1>3
  <2> QED
    BY <1>1, <2>1, <2>2
<1> QED
  BY <1>3, <1>5, <1>6

\* The deque after deque.remove in reserve: every other waiter, once.
LEMMA RemovedFromQueue ==
    ASSUME NEW S, NEW s \in Seq(S), NEW i \in DOMAIN s
    PROVE  LET t == RemoveAt(s, i) IN
           /\ t \in Seq(S)
           /\ \A j \in DOMAIN t : LET k == IF j < i THEN j ELSE j + 1 IN
                 j \in Nat /\ k \in DOMAIN s /\ t[j] = s[k]
<1> DEFINE a == SubSeq(s, 1, i - 1)
           b == SubSeq(s, i + 1, Len(s))
           t == RemoveAt(s, i)
<1>1. Len(s) \in Nat /\ DOMAIN s = 1..Len(s) /\ i \in 1..Len(s)
  BY LenProperties
<1>2. \A j \in 1..Len(s) : s[j] \in S
  BY ElementOfSeq
<1>3. \A j \in 1..(i - 1) : s[j] \in S
  BY <1>1, <1>2
<1>4. /\ a \in Seq(S)
      /\ Len(a) = IF 1 <= i - 1 THEN i - 1 - 1 + 1 ELSE 0
      /\ \A j \in 1..(i - 1 - 1 + 1) : a[j] = s[1 + j - 1]
  BY <1>1, <1>3, SubSeqProperties
<1>5. Len(a) = i - 1 /\ \A j \in 1..(i - 1) : a[j] = s[j]
  BY <1>1, <1>4
<1>6. b \in Seq(S) /\ Len(b) = Len(s) - i /\ \A j \in DOMAIN b : b[j] = s[i + j]
  BY TailOfQueue
<1>7. DOMAIN b = 1..(Len(s) - i)
  BY <1>6, LenProperties
<1>8. t = a \o b
  BY DEF RemoveAt
<1>9. /\ t \in Seq(S)
      /\ Len(t) = Len(a) + Len(b)
      /\ \A j \in 1..(Len(a) + Len(b)) : t[j] = IF j <= Len(a) THEN a[j] ELSE b[j - Len(a)]
  <2>1. a \in Seq(S) /\ b \in Seq(S)
    BY <1>4, <1>6
  <2> HIDE DEF a, b, t
  <2> QED  BY <1>8, <2>1, ConcatProperties
<1>10. DOMAIN t = 1..(Len(s) - 1)
  BY <1>1, <1>5, <1>6, <1>9, LenProperties
<1> HIDE DEF a, b, t
<1>11. ASSUME NEW j \in DOMAIN t
       PROVE  LET k == IF j < i THEN j ELSE j + 1 IN
                 j \in Nat /\ k \in DOMAIN s /\ t[j] = s[k]
  <2>1. CASE j < i
    <3>1. t[j] = a[j] /\ a[j] = s[j]
      BY <2>1, <1>1, <1>5, <1>6, <1>9, <1>10
    <3> QED
      BY <2>1, <3>1, <1>1, <1>10
  <2>2. CASE ~(j < i)
    <3>1. j - (i - 1) \in DOMAIN b
      BY <2>2, <1>1, <1>7, <1>10
    <3>2. b[j - (i - 1)] = s[i + (j - (i - 1))]
      BY <3>1, <1>6
    <3>3. t[j] = b[j - (i - 1)]
      BY <2>2, <1>1, <1>5, <1>6, <1>9, <1>10
    <3> QED
      BY <2>2, <3>2, <3>3, <1>1, <1>10
  <2> QED
    BY <2>1, <2>2
<1> QED
  BY <1>9, <1>11 DEF t

\* It is shorter by one.
LEMMA RemovedLength ==
    ASSUME NEW S, NEW s \in Seq(S), NEW i \in DOMAIN s
    PROVE  LET t == RemoveAt(s, i) IN Len(t) = Len(s) - 1 /\ DOMAIN t = 1..(Len(s) - 1)
<1> DEFINE a == SubSeq(s, 1, i - 1)
           b == SubSeq(s, i + 1, Len(s))
           t == RemoveAt(s, i)
<1>1. Len(s) \in Nat /\ DOMAIN s = 1..Len(s) /\ i \in 1..Len(s)
  BY LenProperties
<1>2. \A j \in 1..(i - 1) : s[j] \in S
  BY <1>1, ElementOfSeq
<1>3. a \in Seq(S) /\ Len(a) = IF 1 <= i - 1 THEN i - 1 - 1 + 1 ELSE 0
  BY <1>1, <1>2, SubSeqProperties
<1>4. b \in Seq(S) /\ Len(b) = Len(s) - i
  BY TailOfQueue
<1>5. t = a \o b
  BY DEF RemoveAt
<1> HIDE DEF a, b, t
<1>6. t \in Seq(S) /\ Len(t) = Len(a) + Len(b)
  BY <1>3, <1>4, <1>5, ConcatProperties
<1>7. Len(t) = Len(s) - 1 /\ DOMAIN t = 1..(Len(s) - 1)
  BY <1>1, <1>3, <1>4, <1>6, LenProperties
<1> QED  BY <1>7 DEF t

\* _pending_mutations counts one request less when mutate() ends for one that was
\* in flight, and one more when it admits one that was not.
LEMMA CountOfInFlight ==
    ASSUME Inv, NEW r \in Requests, NEW pc \in Finished \cup InFlightPcs,
           rpc' = [rpc EXCEPT ![r] = pc]
    PROVE  /\ rpc[r] \in InFlightPcs /\ pc \in Finished
                 => Cardinality(InFlight') = pending - 1 /\ pending > 0
           /\ rpc[r] \in Finished /\ pc \in InFlightPcs
                 => Cardinality(InFlight') = pending + 1
           /\ rpc[r] \in InFlightPcs /\ pc \in InFlightPcs
                 => Cardinality(InFlight') = pending
           /\ rpc[r] \in Finished /\ pc \in Finished
                 => Cardinality(InFlight') = pending
<1>1. IsFiniteSet(InFlight) /\ pending = Cardinality(InFlight)
  BY FiniteAssumption, FS_Subset DEF Inv, PendingIsExact, InFlight
<1>2. rpc \in [Requests -> Finished \cup InFlightPcs] /\ pending \in Nat
  BY DEF Inv, TypeOK
<1>3. CASE rpc[r] \in InFlightPcs /\ pc \in Finished
  <2>1. InFlight' = InFlight \ {r} /\ r \in InFlight
    BY <1>2, <1>3 DEF InFlight, InFlightPcs, Finished
  <2>2. Cardinality(InFlight) # 0
    BY <1>1, <2>1, FS_EmptySet
  <2>3. Cardinality(InFlight \ {r}) = Cardinality(InFlight) - 1
    BY <1>1, <2>1, FS_RemoveElement
  <2> QED
    BY <1>1, <1>2, <1>3, <2>1, <2>2, <2>3 DEF InFlightPcs, Finished
<1>4. CASE rpc[r] \in Finished /\ pc \in InFlightPcs
  <2>1. InFlight' = InFlight \cup {r} /\ r \notin InFlight
    BY <1>2, <1>4 DEF InFlight, InFlightPcs, Finished
  <2>2. Cardinality(InFlight \cup {r}) = Cardinality(InFlight) + 1
    BY <1>1, <2>1, FS_AddElement
  <2> QED
    BY <1>1, <1>4, <2>1, <2>2 DEF InFlightPcs, Finished
<1>5. CASE rpc[r] \in InFlightPcs /\ pc \in InFlightPcs
  <2>1. InFlight' = InFlight
    BY <1>2, <1>5 DEF InFlight, InFlightPcs
  <2> QED
    BY <1>1, <1>5, <2>1 DEF InFlightPcs, Finished
<1>6. CASE rpc[r] \in Finished /\ pc \in Finished
  <2>1. InFlight' = InFlight
    BY <1>2, <1>6 DEF InFlight, InFlightPcs, Finished
  <2> QED
    BY <1>1, <1>6, <2>1 DEF InFlightPcs, Finished
<1> QED
  BY <1>3, <1>4, <1>5, <1>6

-----------------------------------------------------------------------------
(* Giving the permit up                                                    *)

\* _release_reservation_locked and _grant_next_waiter_locked: the permit goes to
\* a queued request, the deque keeps distinct other waiters, or the deque is
\* empty, nobody has the permit and no thread is left asleep.
LEMMA GrantNext ==
    ASSUME TypeOK, QueueInv, NEW threads \in [Threads -> ThreadStates],
           GrantNextWaiter(threads)
    PROVE  /\ tpc' \in [Threads -> ThreadStates]
           /\ \A t \in Threads : tpc'[t] \in {"mutating", "external"}
                                   <=> threads[t] \in {"mutating", "external"}
           /\ waiters' \in Seq(Requests)
           /\ \A j \in DOMAIN waiters' :
                 /\ \E k \in DOMAIN waiters : waiters'[j] = waiters[k]
                 /\ waiters'[j] # reservation'
           /\ \A i, j \in DOMAIN waiters' : waiters'[i] = waiters'[j] => i = j
           /\ granted' = (granted \ {reservation})
                            \cup (IF reservation' = None THEN {} ELSE {reservation'})
           /\ \/ \E k \in DOMAIN waiters : reservation' = waiters[k]
              \/ /\ reservation' = None /\ waiters' = <<>>
                 /\ \A t \in Threads : tpc'[t] # "asleep"
<1>1. /\ waiters \in Seq(Requests) /\ Len(waiters) \in Nat
      /\ DOMAIN waiters = 1..Len(waiters)
  BY LenProperties DEF TypeOK
<1>2. ASSUME NEW i \in DOMAIN waiters, GrantWaiter(i), tpc' = threads
      PROVE  /\ waiters' \in Seq(Requests)
             /\ reservation' = waiters[i] /\ reservation' # None
             /\ \A j \in DOMAIN waiters' :
                   /\ i + j \in DOMAIN waiters /\ waiters'[j] = waiters[i + j]
                   /\ j \in Nat \ {0}
  <2>1. waiters' = SubSeq(waiters, i + 1, Len(waiters)) /\ reservation' = waiters[i]
    BY <1>2 DEF GrantWaiter
  <2>2. /\ waiters' \in Seq(Requests)
        /\ \A j \in DOMAIN waiters' : i + j \in DOMAIN waiters /\ waiters'[j] = waiters[i + j]
    BY <1>1, <2>1, TailOfQueue
  <2>3. DOMAIN waiters' = 1..Len(waiters') /\ Len(waiters') \in Nat
    BY <2>2, LenProperties
  <2>4. waiters[i] \in Requests
    BY <1>1, ElementOfSeq
  <2> QED
    BY <2>1, <2>2, <2>3, <2>4, CallersAssumption
<1>3. CASE \E i \in DOMAIN waiters : GrantWaiter(i) /\ tpc' = threads
  <2> PICK i \in DOMAIN waiters : GrantWaiter(i) /\ tpc' = threads
    BY <1>3
  <2>1. /\ waiters' \in Seq(Requests)
        /\ reservation' = waiters[i] /\ reservation' # None
        /\ \A j \in DOMAIN waiters' :
              /\ i + j \in DOMAIN waiters /\ waiters'[j] = waiters[i + j]
              /\ j \in Nat \ {0}
    BY <1>2
  <2>2. ASSUME NEW j \in DOMAIN waiters'
        PROVE  /\ \E k \in DOMAIN waiters : waiters'[j] = waiters[k]
               /\ waiters'[j] # reservation'
    BY <1>1, <2>1 DEF QueueInv
  <2>3. ASSUME NEW j \in DOMAIN waiters', NEW k \in DOMAIN waiters', waiters'[j] = waiters'[k]
        PROVE  j = k
    <3>1. i + j = i + k
      BY <2>1, <2>3 DEF QueueInv
    <3> QED
      BY <1>1, <2>1, <3>1
  <2>4. granted' = (granted \ {reservation}) \cup {reservation'}
    BY DEF GrantWaiter
  <2> QED
    BY <2>1, <2>2, <2>3, <2>4
<1>4. CASE NotifyAll(threads)
  <2>1. /\ reservation' = None /\ waiters' = <<>> /\ granted' = granted \ {reservation}
        /\ tpc' = [t \in Threads |-> IF threads[t] = "asleep" THEN "woken" ELSE threads[t]]
    BY <1>4 DEF NotifyAll
  <2>2. /\ tpc' \in [Threads -> ThreadStates]
        /\ \A t \in Threads : /\ tpc'[t] # "asleep"
                               /\ tpc'[t] \in {"mutating", "external"}
                                     <=> threads[t] \in {"mutating", "external"}
    BY <2>1 DEF ThreadStates
  <2>3. waiters' \in Seq(Requests) /\ DOMAIN waiters' = {}
    BY <2>1, EmptySeq
  <2> QED
    BY <2>1, <2>2, <2>3
<1> QED
  BY <1>3, <1>4 DEF GrantNextWaiter

-----------------------------------------------------------------------------
(* Steps of threads                                                        *)

\* A step that leaves the requests alone leaves their invariants alone.
LEMMA RequestsUntouched ==
    ASSUME Inv, UNCHANGED <<requestVars, future>>
    PROVE  PendingIsExact'
BY DEF Inv, requestVars, PendingIsExact, InFlight

\* RuntimeMutationAuthority.mutation and external_call, other than the release.
LEMMA ThreadKeepsInv ==
    ASSUME Inv, NEW t \in Threads,
           Enter(t) \/ Nest(t) \/ ExitNested(t) \/ CallExternal(t) \/ ReturnExternal(t)
    PROVE  Inv'
<1> USE DEF Inv, ThreadInCut, PermitIsFree
<1>0. UNCHANGED <<reservation, waitVars, requestVars>>
  BY DEF Enter, Nest, ExitNested, CallExternal, ReturnExternal, permitVars
<1>1. PendingIsExact'
  BY <1>0, RequestsUntouched DEF waitVars
<1>2. QueueInv' /\ FutureInv'
  BY <1>0 DEF QueueInv, FutureInv, waitVars, requestVars
<1>3. CASE Enter(t)
  <2>1. TypeOK'
    BY <1>0, <1>3, BoundsAssumption DEF Enter, TypeOK, ThreadStates, waitVars, requestVars
  <2>2. HolderInv'
    BY <1>0, <1>3, CallersAssumption
    DEF Enter, TypeOK, HolderInv, SyncPermitAvailable, waitVars, requestVars
  <2>3. NoLostWakeup'
    BY <1>0, <1>3, CallersAssumption
    DEF Enter, TypeOK, NoLostWakeup, SyncPermitAvailable, waitVars, requestVars
  <2> QED
    BY <1>1, <1>2, <2>1, <2>2, <2>3
<1>4. CASE Nest(t) \/ ExitNested(t)
  <2>1. TypeOK'
    BY <1>0, <1>4, BoundsAssumption DEF Nest, ExitNested, TypeOK, waitVars, requestVars
  <2> QED
    BY <1>0, <1>1, <1>2, <1>4, <2>1
    DEF Nest, ExitNested, HolderInv, NoLostWakeup, waitVars, requestVars
<1>5. CASE CallExternal(t) \/ ReturnExternal(t)
  <2>1. TypeOK'
    BY <1>0, <1>5
    DEF CallExternal, ReturnExternal, TypeOK, ThreadStates, waitVars, requestVars, permitVars
  <2>2. HolderInv'
    BY <1>0, <1>5
    DEF CallExternal, ReturnExternal, TypeOK, HolderInv, waitVars, requestVars, permitVars
  <2>3. NoLostWakeup'
    BY <1>0, <1>5
    DEF CallExternal, ReturnExternal, TypeOK, NoLostWakeup, waitVars, requestVars, permitVars
  <2> QED
    BY <1>1, <1>2, <2>1, <2>2, <2>3
<1> QED
  BY <1>3, <1>4, <1>5

\* The outermost exit of mutation(), with the grant it makes.
LEMMA ExitOuterKeepsInv ==
    ASSUME Inv, NEW t \in Threads, ExitOuter(t)
    PROVE  Inv'
<1> USE DEF Inv, ThreadInCut
<1> DEFINE threads == [tpc EXCEPT ![t] = "idle"]
<1>1. /\ owner = t /\ owner' = None /\ depth' = 0 /\ reservation = None
      /\ GrantNextWaiter(threads)
      /\ UNCHANGED <<future, requestVars>>
  BY CallersAssumption DEF ExitOuter, HolderInv, TypeOK
<1>2. /\ threads \in [Threads -> ThreadStates]
      /\ \A u \in Threads : threads[u] \notin {"mutating", "external"}
  BY <1>1 DEF TypeOK, ThreadStates, HolderInv
<1> HIDE DEF threads
<1>3. /\ tpc' \in [Threads -> ThreadStates]
      /\ \A u \in Threads : tpc'[u] \in {"mutating", "external"}
                             <=> threads[u] \in {"mutating", "external"}
      /\ waiters' \in Seq(Requests)
      /\ \A j \in DOMAIN waiters' :
            /\ \E k \in DOMAIN waiters : waiters'[j] = waiters[k]
            /\ waiters'[j] # reservation'
      /\ \A i, j \in DOMAIN waiters' : waiters'[i] = waiters'[j] => i = j
      /\ granted' = (granted \ {reservation})
                       \cup (IF reservation' = None THEN {} ELSE {reservation'})
      /\ \/ \E k \in DOMAIN waiters : reservation' = waiters[k]
         \/ /\ reservation' = None /\ waiters' = <<>>
            /\ \A u \in Threads : tpc'[u] # "asleep"
  BY <1>1, <1>2, GrantNext
<1>4. PendingIsExact'
  BY <1>1, RequestsUntouched
<1>5. \A k \in DOMAIN waiters : waiters[k] \in Requests
  BY ElementOfSeq, LenProperties DEF TypeOK
<1>6. TypeOK'
  BY <1>1, <1>3, <1>5, BoundsAssumption DEF TypeOK, requestVars
<1>7. HolderInv'
  BY <1>1, <1>2, <1>3, <1>5, CallersAssumption DEF HolderInv, QueueInv, TypeOK, requestVars
<1>8. QueueInv'
  BY <1>1, <1>3, CallersAssumption DEF QueueInv, TypeOK, requestVars
<1>9. FutureInv'
  BY <1>1, <1>3, CallersAssumption DEF FutureInv, TypeOK, HolderInv, requestVars
<1>10. NoLostWakeup'
  BY <1>1, <1>3, <1>5, CallersAssumption DEF NoLostWakeup, PermitIsFree
<1> QED
  BY <1>4, <1>6, <1>7, <1>8, <1>9, <1>10

-----------------------------------------------------------------------------
(* Steps of requests                                                       *)

\* A step of a request that stays in flight and neither queues nor releases:
\* the grant callback, a cancellation, the dispatch, and the worker's own steps.
LEMMA InFlightKeepsInv ==
    ASSUME Inv, NEW r \in Requests,
           \/ CompleteWaiter(r) \/ CancelAwaiting(r) \/ ResumeAwaiting(r) \/ CancelDispatched(r)
           \/ WorkerNext(r)
    PROVE  Inv'
<1> USE DEF Inv, ThreadInCut
<1> USE DEF permitVars, waitVars, requestVars
<1>1. CASE CompleteWaiter(r) \/ CancelAwaiting(r)
  <2>1. UNCHANGED <<owner, depth, reservation, waiters, granted, tpc, rpc, worker, pending>>
    BY <1>1 DEF CompleteWaiter, CancelAwaiting
  <2>2. TypeOK'
    BY <1>1, <2>1 DEF CompleteWaiter, CancelAwaiting, TypeOK, FutureStates
  <2>3. FutureInv'
    BY <1>1, <2>1 DEF CompleteWaiter, CancelAwaiting, FutureInv, TypeOK
  <2>4. HolderInv' /\ QueueInv' /\ NoLostWakeup' /\ PendingIsExact'
    BY <2>1 DEF HolderInv, QueueInv, NoLostWakeup, PermitIsFree, PendingIsExact, InFlight
  <2> QED
    BY <2>2, <2>3, <2>4
<1>2. CASE ResumeAwaiting(r)
  <2>1. /\ rpc[r] = "awaiting" /\ future[r] = "done" /\ r \notin mustCancel
        /\ rpc' = [rpc EXCEPT ![r] = "dispatched"]
        /\ worker' = [worker EXCEPT ![r] = "running"]
        /\ UNCHANGED <<owner, depth, reservation, waiters, granted, future, tpc, mustCancel, pending>>
    BY <1>2 DEF ResumeAwaiting, Dispatch
  <2>2. r \in granted /\ reservation = r
    BY <2>1 DEF FutureInv, HolderInv
  <2>3. TypeOK'
    BY <2>1 DEF TypeOK, InFlightPcs, WorkerStates
  <2>4. HolderInv'
    BY <2>1, <2>2 DEF HolderInv, TypeOK
  <2>5. QueueInv'
    BY <2>1, <2>2 DEF QueueInv, TypeOK
  <2>6. FutureInv' /\ NoLostWakeup'
    BY <2>1 DEF FutureInv, NoLostWakeup, PermitIsFree, TypeOK
  <2>7. PendingIsExact'
    <3>1. Cardinality(InFlight') = pending
      BY <2>1, CountOfInFlight DEF InFlightPcs
    <3> QED
      BY <2>1, <3>1 DEF PendingIsExact
  <2> QED
    BY <2>3, <2>4, <2>5, <2>6, <2>7
<1>3. CASE CancelDispatched(r)
  <2>1. /\ rpc[r] = "dispatched"
        /\ rpc' = [rpc EXCEPT ![r] = "settling"]
        /\ UNCHANGED <<owner, depth, reservation, waiters, granted, future, tpc, mustCancel,
                       worker, pending>>
    BY <1>3 DEF CancelDispatched
  <2>2. TypeOK'
    BY <2>1 DEF TypeOK, InFlightPcs
  <2>3. HolderInv' /\ QueueInv' /\ FutureInv' /\ NoLostWakeup'
    BY <2>1 DEF HolderInv, QueueInv, FutureInv, NoLostWakeup, PermitIsFree, TypeOK
  <2>4. PendingIsExact'
    <3>1. Cardinality(InFlight') = pending
      BY <2>1, CountOfInFlight DEF InFlightPcs
    <3> QED
      BY <2>1, <3>1 DEF PendingIsExact
  <2> QED
    BY <2>2, <2>3, <2>4
<1>4. CASE WorkerNext(r)
  <2>1. PICK from \in {"running", "mutating", "external", "committing"}, to \in WorkerStates :
           WorkerMoves(r, from, to)
    BY <1>4 DEF WorkerNext, WorkerEnters, WorkerCalls, WorkerReturns, WorkerFinishes, WorkerStates
  <2>2. /\ worker[r] # "none"
        /\ worker' = [worker EXCEPT ![r] = to]
        /\ UNCHANGED <<owner, depth, reservation, waiters, granted, future, tpc, rpc, mustCancel,
                       pending>>
    BY <2>1 DEF WorkerMoves
  <2>3. TypeOK'
    BY <2>2 DEF TypeOK
  <2>4. HolderInv'
    BY <2>2 DEF HolderInv, TypeOK
  <2>5. QueueInv' /\ FutureInv' /\ NoLostWakeup' /\ PendingIsExact'
    BY <2>2 DEF QueueInv, FutureInv, NoLostWakeup, PermitIsFree, PendingIsExact, InFlight
  <2> QED
    BY <2>3, <2>4, <2>5
<1> QED
  BY <1>1, <1>2, <1>3, <1>4

\* The admission of mutate(), refusals included.
LEMMA SubmitKeepsInv ==
    ASSUME Inv, NEW r \in Requests, Submit(r)
    PROVE  Inv'
<1> USE DEF Inv, ThreadInCut
<1>1. PICK pc \in {"refused", "probing"} :
         /\ rpc[r] \in Finished
         /\ rpc' = [rpc EXCEPT ![r] = pc]
         /\ pc = "refused" => pending' = pending
         /\ pc = "probing" => pending < MaxPending /\ pending' = pending + 1
         /\ UNCHANGED <<owner, depth, reservation, waiters, granted, future, tpc, mustCancel,
                        worker>>
  BY DEF Submit, permitVars, waitVars
<1>2. TypeOK'
  BY <1>1 DEF TypeOK, Finished, InFlightPcs
<1>3. HolderInv' /\ FutureInv' /\ NoLostWakeup'
  BY <1>1 DEF HolderInv, FutureInv, NoLostWakeup, PermitIsFree, TypeOK, Finished
<1>4. QueueInv'
  BY <1>1 DEF QueueInv, TypeOK, Finished
<1>5. PendingIsExact'
  <2>1. Cardinality(InFlight') = pending'
    BY <1>1, CountOfInFlight DEF Finished, InFlightPcs
  <2> QED
    BY <1>1, <2>1, BoundsAssumption DEF PendingIsExact, TypeOK
<1> QED
  BY <1>2, <1>3, <1>4, <1>5

\* reserve(), up to its first suspension.
LEMMA ReserveKeepsInv ==
    ASSUME Inv, NEW r \in Requests, Reserve(r)
    PROVE  Inv'
<1> USE DEF Inv, ThreadInCut
<1>1. rpc[r] = "probing" /\ UNCHANGED <<owner, depth, tpc, mustCancel, pending>>
  BY DEF Reserve
<1>2. CASE PermitIsFree /\ waiters = <<>>
  <2>1. /\ reservation = None /\ owner = None
        /\ reservation' = r /\ granted' = granted \cup {r}
        /\ rpc' = [rpc EXCEPT ![r] = "dispatched"]
        /\ worker' = [worker EXCEPT ![r] = "running"]
        /\ UNCHANGED <<waiters, future>>
    BY <1>2 DEF Reserve, Dispatch, PermitIsFree
  <2>2. TypeOK'
    BY <1>1, <2>1 DEF TypeOK, InFlightPcs, WorkerStates
  <2>3. HolderInv'
    BY <1>1, <2>1, CallersAssumption DEF HolderInv, TypeOK
  <2>4. QueueInv'
    <3>1. waiters' = <<>>
      BY <1>2, <2>1
    <3>2. DOMAIN waiters' = {}
      BY <3>1
    <3> QED
      BY <3>2 DEF QueueInv
  <2>5. FutureInv' /\ NoLostWakeup'
    BY <1>1, <2>1, CallersAssumption DEF FutureInv, NoLostWakeup, PermitIsFree, TypeOK
  <2>6. PendingIsExact'
    <3>1. Cardinality(InFlight') = pending
      BY <1>1, <2>1, CountOfInFlight DEF InFlightPcs
    <3> QED
      BY <1>1, <3>1 DEF PendingIsExact
  <2> QED
    BY <2>2, <2>3, <2>4, <2>5, <2>6
<1>3. CASE ~(PermitIsFree /\ waiters = <<>>)
  <2>1. /\ waiters' = Append(waiters, r)
        /\ future' = [future EXCEPT ![r] = "pending"]
        /\ rpc' = [rpc EXCEPT ![r] = "awaiting"]
        /\ UNCHANGED <<reservation, granted, worker>>
    BY <1>3 DEF Reserve
  <2>2. ~PermitIsFree
    BY <1>3 DEF NoLostWakeup
  <2>3. /\ waiters' \in Seq(Requests)
        /\ Len(waiters') = Len(waiters) + 1 /\ Len(waiters) \in Nat
        /\ \A i \in 1..Len(waiters) : waiters'[i] = waiters[i]
        /\ waiters'[Len(waiters) + 1] = r
        /\ DOMAIN waiters = 1..Len(waiters)
    BY <2>1, AppendProperties, LenProperties DEF TypeOK
  <2>4. DOMAIN waiters' = 1..(Len(waiters) + 1)
    BY <2>3, LenProperties
  <2>5. TypeOK'
    BY <1>1, <2>1, <2>3 DEF TypeOK, InFlightPcs, FutureStates
  <2>6. r \notin granted
    BY <1>1 DEF HolderInv
  <2>7. HolderInv' /\ FutureInv'
    BY <1>1, <2>1 DEF HolderInv, FutureInv, TypeOK
  <2>8. \A i \in DOMAIN waiters : waiters[i] # r /\ waiters[i] \in Requests
    BY <1>1, <2>3, ElementOfSeq DEF QueueInv, TypeOK
  <2>9. QueueInv'
    <3>1. ASSUME NEW i \in DOMAIN waiters'
          PROVE  rpc'[waiters'[i]] = "awaiting" /\ waiters'[i] \notin granted'
      BY <2>1, <2>3, <2>4, <2>6, <2>8 DEF QueueInv, TypeOK
    <3>2. ASSUME NEW i \in DOMAIN waiters', NEW j \in DOMAIN waiters', waiters'[i] = waiters'[j]
          PROVE  i = j
      BY <2>3, <2>4, <2>8, <3>2 DEF QueueInv
    <3> QED
      BY <3>1, <3>2 DEF QueueInv
  <2>10. NoLostWakeup'
    BY <1>1, <2>1, <2>2 DEF NoLostWakeup, PermitIsFree
  <2>11. PendingIsExact'
    <3>1. Cardinality(InFlight') = pending
      BY <1>1, <2>1, CountOfInFlight DEF InFlightPcs
    <3> QED
      BY <1>1, <3>1 DEF PendingIsExact
  <2> QED
    BY <2>5, <2>7, <2>9, <2>10, <2>11
<1> QED
  BY <1>2, <1>3

\* The finally clause of mutate() keeps the executor's counter exact.
LEMMA FinishCounts ==
    ASSUME Inv, NEW r \in Requests, rpc[r] \in InFlightPcs,
           NEW outcome \in Finished, Finish(r, outcome)
    PROVE  PendingIsExact' /\ pending' \in Nat
<1>1. Cardinality(InFlight') = pending - 1 /\ pending > 0
  BY CountOfInFlight DEF Finish
<1>2. pending' = pending - 1 /\ pending \in Nat /\ pending <= MaxPending
  BY DEF Finish, Inv, TypeOK, PendingIsExact
<1> QED
  BY <1>1, <1>2, BoundsAssumption DEF PendingIsExact

\* A request that does not hold the permit ends: in its probe, or cancelled in
\* the queue, where the except clause of reserve() takes it out of the deque
\* unless a grant loop has popped it before.
LEMMA QueuedEndKeepsInv ==
    ASSUME Inv, NEW r \in Requests, ProbeEnds(r) \/ CancelQueued(r)
    PROVE  Inv'
<1> USE DEF Inv, ThreadInCut
<1>1. PICK outcome \in Finished :
         /\ rpc[r] \in {"probing", "awaiting"} /\ r \notin granted
         /\ Finish(r, outcome)
         /\ UNCHANGED <<owner, depth, reservation, granted, tpc>>
  BY DEF ProbeEnds, CancelQueued, CancellationDelivered, Finished, HolderInv, permitVars
<1>2. /\ rpc' = [rpc EXCEPT ![r] = outcome]
      /\ future' = [future EXCEPT ![r] = "none"]
      /\ mustCancel' = mustCancel \ {r}
      /\ worker' = [worker EXCEPT ![r] = "none"]
  BY <1>1 DEF Finish
<1>3. reservation # r
  BY <1>1 DEF HolderInv
<1>4. PendingIsExact' /\ pending' \in Nat
  BY <1>1, FinishCounts DEF InFlightPcs
<1>5. \A i \in DOMAIN waiters : waiters[i] \in Requests
  BY ElementOfSeq, LenProperties DEF TypeOK
<1>6. /\ waiters' \in Seq(Requests)
      /\ \A i \in DOMAIN waiters' : /\ \E k \in DOMAIN waiters : waiters'[i] = waiters[k]
                                     /\ waiters'[i] # r
      /\ \A i, j \in DOMAIN waiters' : waiters'[i] = waiters'[j] => i = j
      /\ waiters = <<>> => waiters' = <<>>
  <2>1. CASE /\ waiters' = waiters
             /\ \A i \in DOMAIN waiters : waiters[i] # r
    BY <2>1 DEF QueueInv, TypeOK
  <2>2. CASE \E n \in DOMAIN waiters : waiters[n] = r /\ waiters' = RemoveAt(waiters, n)
    <3> PICK n \in DOMAIN waiters : waiters[n] = r /\ waiters' = RemoveAt(waiters, n)
      BY <2>2
    <3>1. waiters \in Seq(Requests)
      BY DEF TypeOK
    <3>2. /\ waiters' \in Seq(Requests)
          /\ \A j \in DOMAIN waiters' : LET k == IF j < n THEN j ELSE j + 1 IN
                j \in Nat /\ k \in DOMAIN waiters /\ waiters'[j] = waiters[k]
      BY <3>1, RemovedFromQueue
    <3>3. n \in Nat /\ waiters # <<>>
      BY <3>1, LenProperties
    <3>4. ASSUME NEW i \in DOMAIN waiters'
          PROVE  /\ \E k \in DOMAIN waiters : waiters'[i] = waiters[k]
                 /\ waiters'[i] # r
      BY <3>2, <3>3 DEF QueueInv
    <3>5. ASSUME NEW i \in DOMAIN waiters', NEW j \in DOMAIN waiters', waiters'[i] = waiters'[j]
          PROVE  i = j
      BY <3>2, <3>3, <3>5 DEF QueueInv
    <3> QED
      BY <3>2, <3>3, <3>4, <3>5
  <2>3. CASE ProbeEnds(r)
    <3>1. waiters' = waiters /\ rpc[r] = "probing"
      BY <2>3 DEF ProbeEnds
    <3> QED
      BY <2>1, <3>1 DEF QueueInv
  <2> QED
    BY <2>1, <2>2, <2>3 DEF CancelQueued
<1>7. TypeOK'
  BY <1>1, <1>2, <1>4, <1>6 DEF TypeOK, FutureStates, WorkerStates
<1>8. HolderInv'
  BY <1>1, <1>2, <1>3 DEF HolderInv, TypeOK, Finished
<1>9. QueueInv'
  BY <1>1, <1>2, <1>5, <1>6 DEF QueueInv, TypeOK
<1>10. FutureInv'
  BY <1>1, <1>2 DEF FutureInv, TypeOK, Finished
<1>11. NoLostWakeup'
  BY <1>1, <1>6 DEF NoLostWakeup, PermitIsFree
<1> QED
  BY <1>4, <1>7, <1>8, <1>9, <1>10, <1>11

\* A request that holds the permit ends and gives it up: cancelled after it was
\* granted, or after its worker has finished (reserve, _run_reserved).
LEMMA HolderEndKeepsInv ==
    ASSUME Inv, NEW r \in Requests, CancelGranted(r) \/ LeaveReservation(r)
    PROVE  Inv'
<1> USE DEF Inv, ThreadInCut
<1>1. PICK outcome \in Finished :
         /\ reservation = r
         /\ rpc[r] \in {"awaiting", "dispatched", "settling"}
         /\ GrantNextWaiter(tpc) /\ Finish(r, outcome)
         /\ UNCHANGED <<owner, depth>>
  BY DEF CancelGranted, LeaveReservation, CancellationDelivered, Finished
<1>2. /\ rpc' = [rpc EXCEPT ![r] = outcome]
      /\ future' = [future EXCEPT ![r] = "none"]
      /\ mustCancel' = mustCancel \ {r}
      /\ worker' = [worker EXCEPT ![r] = "none"]
  BY <1>1 DEF Finish
<1>3. owner = None /\ owner' = None /\ r \in granted
  BY <1>1, CallersAssumption DEF HolderInv
<1>4. PendingIsExact' /\ pending' \in Nat
  BY <1>1, FinishCounts DEF InFlightPcs
<1>5. tpc \in [Threads -> ThreadStates]
  BY DEF TypeOK
<1>6. /\ tpc' \in [Threads -> ThreadStates]
      /\ \A u \in Threads : tpc'[u] \in {"mutating", "external"}
                             <=> tpc[u] \in {"mutating", "external"}
      /\ waiters' \in Seq(Requests)
      /\ \A j \in DOMAIN waiters' :
            /\ \E k \in DOMAIN waiters : waiters'[j] = waiters[k]
            /\ waiters'[j] # reservation'
      /\ \A i, j \in DOMAIN waiters' : waiters'[i] = waiters'[j] => i = j
      /\ granted' = (granted \ {reservation})
                       \cup (IF reservation' = None THEN {} ELSE {reservation'})
      /\ \/ \E k \in DOMAIN waiters : reservation' = waiters[k]
         \/ /\ reservation' = None /\ waiters' = <<>>
            /\ \A u \in Threads : tpc'[u] # "asleep"
  BY <1>1, <1>5, GrantNext
<1>7. \A k \in DOMAIN waiters : /\ waiters[k] \in Requests /\ waiters[k] # r
                                 /\ rpc[waiters[k]] = "awaiting"
  BY <1>3, ElementOfSeq, LenProperties DEF TypeOK, QueueInv
<1>8. TypeOK'
  BY <1>1, <1>2, <1>4, <1>6, <1>7 DEF TypeOK, FutureStates, WorkerStates
<1>9. HolderInv'
  <2>1. ASSUME NEW q \in Requests
        PROVE  /\ q \in granted' <=> reservation' = q
               /\ rpc'[q] \in {"dispatched", "settling"} => reservation' = q
               /\ reservation' = q => rpc'[q] \in {"awaiting", "dispatched", "settling"}
               /\ worker'[q] # "none" => rpc'[q] \in {"dispatched", "settling"}
    BY <1>1, <1>2, <1>3, <1>6, <1>7, CallersAssumption DEF HolderInv, TypeOK, Finished
  <2> QED
    BY <1>3, <1>6, <2>1, CallersAssumption DEF HolderInv
<1>10. QueueInv'
  BY <1>1, <1>2, <1>3, <1>6, <1>7, CallersAssumption DEF QueueInv, TypeOK
<1>11. FutureInv'
  BY <1>1, <1>2, <1>3, <1>6, <1>7 DEF FutureInv, HolderInv, TypeOK, Finished
<1>12. NoLostWakeup'
  BY <1>3, <1>6, <1>7, CallersAssumption DEF NoLostWakeup, PermitIsFree
<1> QED
  BY <1>4, <1>8, <1>9, <1>10, <1>11, <1>12

-----------------------------------------------------------------------------
(* The theorems                                                            *)

\* Inv holds of a new authority.
LEMMA InitInv == Init => Inv
<1> SUFFICES ASSUME Init PROVE Inv
  OBVIOUS
<1> USE DEF Init
<1>1. InFlight = {}
  BY DEF InFlight, InFlightPcs
<1>2. PendingIsExact
  BY <1>1, FS_EmptySet, BoundsAssumption DEF PendingIsExact
<1>3. waiters \in Seq(Requests) /\ DOMAIN waiters = {}
  BY EmptySeq
<1>4. TypeOK
  BY <1>3, BoundsAssumption DEF TypeOK, FutureStates, ThreadStates, Finished, WorkerStates
<1>5. HolderInv
  BY CallersAssumption DEF HolderInv, ThreadInCut
<1>6. QueueInv /\ FutureInv /\ NoLostWakeup
  BY <1>3 DEF QueueInv, FutureInv, NoLostWakeup
<1> QED
  BY <1>2, <1>4, <1>5, <1>6 DEF Inv

\* Every step of every caller preserves Inv.
LEMMA StepInv == Inv /\ [Next]_vars => Inv'
<1> SUFFICES ASSUME Inv, [Next]_vars PROVE Inv'
  OBVIOUS
<1>1. CASE UNCHANGED vars
  BY <1>1 DEF vars, permitVars, waitVars, requestVars, Inv, TypeOK, HolderInv, QueueInv, FutureInv,
     NoLostWakeup, PendingIsExact, InFlight, PermitIsFree, ThreadInCut
<1>2. ASSUME NEW t \in Threads, ThreadNext(t) PROVE Inv'
  BY <1>2, ThreadKeepsInv, ExitOuterKeepsInv DEF ThreadNext
<1>3. ASSUME NEW r \in Requests, RequestNext(r) PROVE Inv'
  BY <1>3, SubmitKeepsInv, ReserveKeepsInv, InFlightKeepsInv, QueuedEndKeepsInv,
     HolderEndKeepsInv DEF RequestNext
<1>4. ASSUME NEW r \in Requests, WorkerNext(r) PROVE Inv'
  BY <1>4, InFlightKeepsInv
<1> QED
  BY <1>1, <1>2, <1>3, <1>4 DEF Next

\* Inv is an invariant of the authority.
LEMMA InvHolds == Spec => []Inv
BY InitInv, StepInv, PTL DEF Spec

\* The authority's variables keep their types: in particular _depth stays within
\* its nesting and _pending_mutations never becomes negative.
THEOREM TypeCorrect == Spec => []TypeOK
<1>1. Inv => TypeOK
  BY DEF Inv
<1> QED
  BY <1>1, InvHolds, PTL

\* At most one caller is inside a mutation state cut of RuntimeMutationAuthority,
\* be it a thread in mutation() or the worker of a reserved request.
THEOREM MutualExclusionHolds == Spec => []MutualExclusion
<1>1. Inv => MutualExclusion
  <2> SUFFICES ASSUME Inv, NEW a \in InCut, NEW b \in InCut
               PROVE  a = b
    BY DEF MutualExclusion
  <2>1. ASSUME NEW c \in InCut
        PROVE  (owner = c /\ c \in Threads) \/ (reservation = c /\ c \in Requests)
    BY DEF InCut, RequestInCut, Inv, HolderInv, TypeOK, WorkerStates
  <2> QED
    BY <2>1, CallersAssumption DEF Inv, HolderInv
<1> QED
  BY <1>1, InvHolds, PTL

\* Cancelling a request never orphans the permit (reserve): whoever holds it is a
\* thread in its state cut or a request whose task still runs.
THEOREM PermitIsNeverOrphaned == Spec => []PermitHolderIsLive
<1>1. Inv => PermitHolderIsLive
  BY DEF Inv, PermitHolderIsLive, HolderInv, TypeOK
<1> QED
  BY <1>1, InvHolds, PTL

\* A worker never outlives the reservation that covers it (_settle_worker).
THEOREM WorkersAreCovered == Spec => []WorkerIsCovered
<1>1. Inv => WorkerIsCovered
  BY DEF Inv, WorkerIsCovered, HolderInv, TypeOK
<1> QED
  BY <1>1, InvHolds, PTL

\* No release, cancellation or arrival loses the permit or a wake-up
\* (_grant_next_waiter_locked): a free permit has nobody waiting for it.
THEOREM WakeupsAreNotLost == Spec => []NoLostWakeup
<1>1. Inv => NoLostWakeup
  BY DEF Inv
<1> QED
  BY <1>1, InvHolds, PTL

\* _pending_mutations is exact and within max_pending_mutations.
THEOREM PendingCountIsExact == Spec => []PendingIsExact
<1>1. Inv => PendingIsExact
  BY DEF Inv
<1> QED
  BY <1>1, InvHolds, PTL

-----------------------------------------------------------------------------
(* The authority implements the FIFO permit                                *)

\* The queue in terms of its places.
LEMMA QueueTypes ==
    ASSUME Inv
    PROVE  /\ waiters \in Seq(Requests) /\ Len(waiters) \in Nat /\ DOMAIN waiters = 1..Len(waiters)
           /\ \A i \in DOMAIN waiters : waiters[i] \in Requests
           /\ \A i, j \in DOMAIN waiters : waiters[i] = waiters[j] => i = j
           /\ \A i \in DOMAIN waiters : rpc[waiters[i]] = "awaiting" /\ waiters[i] \notin granted
<1>1. /\ waiters \in Seq(Requests) /\ Len(waiters) \in Nat /\ DOMAIN waiters = 1..Len(waiters)
  BY LenProperties DEF Inv, TypeOK
<1> QED  BY <1>1, ElementOfSeq DEF Inv, QueueInv

\* Two queues with the same relation between live waiters are the same abstract queue.
LEMMA SameOrder ==
    ASSUME \A q, r \in Requests : Ahead(q, r)' <=> Ahead(q, r)
    PROVE  ArrivalOrder' = ArrivalOrder
BY DEF ArrivalOrder

\* Steps that leave the deque alone, and the live waiters in it alive.
LEMMA SameQueue ==
    ASSUME UNCHANGED waiters,
           \A i \in DOMAIN waiters : future'[waiters[i]] = "cancelled" <=> future[waiters[i]] = "cancelled"
    PROVE  LiveWaiters' = LiveWaiters /\ ArrivalOrder' = ArrivalOrder
<1>1. LivePlaces' = LivePlaces
  BY DEF LivePlaces
<1>2. LiveWaiters' = LiveWaiters
  BY <1>1 DEF LiveWaiters
<1>3. \A q, r \in Requests : Ahead(q, r)' <=> Ahead(q, r)
  BY <1>1 DEF Ahead
<1> QED  BY <1>2, <1>3, SameOrder

\* _grant_next_waiter_locked serves the oldest live waiter: every other one has a later
\* place, and those left keep their order.
LEMMA GrantServesOldest ==
    ASSUME Inv, NEW threads, GrantNextWaiter(threads),
           \A i \in DOMAIN waiters : future'[waiters[i]] = future[waiters[i]]
    PROVE  \/ /\ LiveWaiters = {} /\ reservation' = None
              /\ LiveWaiters' = LiveWaiters /\ ArrivalOrder' = ArrivalOrder
           \/ /\ reservation' \in LiveWaiters
              /\ \A c \in LiveWaiters \ {reservation'} : <<reservation', c>> \in ArrivalOrder
              /\ LiveWaiters' = LiveWaiters \ {reservation'}
              /\ ArrivalOrder' = {pair \in ArrivalOrder : pair[1] # reservation' /\ pair[2] # reservation'}
<1>1. CASE \E i \in DOMAIN waiters : GrantWaiter(i)
  <2>1. PICK i \in DOMAIN waiters : GrantWaiter(i)
    BY <1>1
  <2>2. /\ i \in LivePlaces /\ \A j \in LivePlaces : i <= j
        /\ reservation' = waiters[i] /\ waiters' = SubSeq(waiters, i + 1, Len(waiters))
    BY <2>1 DEF GrantWaiter
  <2> DEFINE b == waiters[i]
  <2>3. /\ waiters' \in Seq(Requests) /\ Len(waiters') = Len(waiters) - i
        /\ \A j \in DOMAIN waiters' : i + j \in DOMAIN waiters /\ waiters'[j] = waiters[i + j]
    BY <2>2, QueueTypes, TailOfQueue
  <2>4. DOMAIN waiters' = 1..(Len(waiters) - i)
    BY <2>3, LenProperties
  <2>5. ASSUME NEW j  PROVE  j \in LivePlaces' <=> j \in Nat \ {0} /\ i + j \in LivePlaces
    BY <2>3, <2>4, QueueTypes DEF LivePlaces
  <2>6. \A k \in LivePlaces : k = i \/ \E j \in LivePlaces' : k = i + j
    <3> SUFFICES ASSUME NEW k \in LivePlaces, k # i  PROVE  \E j \in LivePlaces' : k = i + j
      OBVIOUS
    <3>1. k \in Nat /\ i \in Nat /\ i < k
      BY <2>2, QueueTypes DEF LivePlaces
    <3>2. k - i \in Nat \ {0} /\ i + (k - i) = k
      BY <3>1
    <3>3. k - i \in LivePlaces'
      BY <2>5, <3>2
    <3> QED  BY <3>2, <3>3
  <2>7. \A j \in LivePlaces' : /\ j \in Nat \ {0} /\ i + j \in LivePlaces /\ waiters'[j] = waiters[i + j]
                               /\ waiters[i + j] # b
    <3> SUFFICES ASSUME NEW j \in LivePlaces'
                 PROVE  /\ j \in Nat \ {0} /\ i + j \in LivePlaces /\ waiters'[j] = waiters[i + j]
                        /\ waiters[i + j] # b
      OBVIOUS
    <3>1. j \in Nat \ {0} /\ i + j \in LivePlaces
      BY <2>5
    <3>2. i \in Nat /\ j \in DOMAIN waiters' /\ i + j # i
      BY <3>1, QueueTypes DEF LivePlaces
    <3>3. waiters[i + j] # b
      BY <3>1, <3>2, QueueTypes DEF LivePlaces
    <3> QED  BY <2>3, <3>1, <3>2, <3>3
  <2>8. b \in LiveWaiters
    BY <2>2, QueueTypes DEF LiveWaiters
  <2>9. ASSUME NEW c \in LiveWaiters \ {b}  PROVE  <<b, c>> \in ArrivalOrder
    <3>1. PICK k \in LivePlaces : waiters[k] = c
      BY DEF LiveWaiters
    <3>2. i < k
      BY <2>2, <3>1, QueueTypes DEF LivePlaces
    <3>3. Ahead(b, c)
      BY <2>2, <3>1, <3>2 DEF Ahead
    <3>4. b \in Requests /\ c \in Requests
      BY <2>8 DEF LiveWaiters
    <3> QED  BY <3>3, <3>4 DEF ArrivalOrder
  <2>10. LiveWaiters' = LiveWaiters \ {b}
    <3>1. ASSUME NEW r \in Requests, NEW j \in LivePlaces', waiters'[j] = r
          PROVE  r \in LiveWaiters \ {b}
      BY <2>7, <3>1 DEF LiveWaiters
    <3>2. ASSUME NEW r \in LiveWaiters \ {b}  PROVE  r \in Requests /\ \E j \in LivePlaces' : waiters'[j] = r
      BY <2>6, <2>7 DEF LiveWaiters
    <3> QED  BY <3>1, <3>2 DEF LiveWaiters
  <2>11. ASSUME NEW q \in Requests, NEW r \in Requests
         PROVE  Ahead(q, r)' <=> Ahead(q, r) /\ q # b /\ r # b
    <3>1. ASSUME Ahead(q, r)'  PROVE  Ahead(q, r) /\ q # b /\ r # b
      <4>1. PICK j \in LivePlaces', k \in LivePlaces' : j < k /\ waiters'[j] = q /\ waiters'[k] = r
        BY <3>1 DEF Ahead
      <4>2. i \in Nat
        BY QueueTypes
      <4>3. i + j < i + k /\ waiters[i + j] = q /\ waiters[i + k] = r
        BY <2>7, <4>1, <4>2
      <4> QED  BY <2>7, <4>1, <4>3 DEF Ahead
    <3>2. ASSUME Ahead(q, r), q # b, r # b  PROVE  Ahead(q, r)'
      <4>1. PICK m \in LivePlaces, n \in LivePlaces : m < n /\ waiters[m] = q /\ waiters[n] = r
        BY <3>2 DEF Ahead
      <4>2. PICK j \in LivePlaces', k \in LivePlaces' : m = i + j /\ n = i + k
        BY <2>6, <3>2, <4>1
      <4>3. j < k /\ waiters'[j] = q /\ waiters'[k] = r
        BY <2>7, <4>1, <4>2, QueueTypes
      <4> QED  BY <4>3 DEF Ahead
    <3> QED  BY <3>1, <3>2
  <2>12. ArrivalOrder' = {pair \in ArrivalOrder : pair[1] # b /\ pair[2] # b}
    BY <2>11 DEF ArrivalOrder
  <2> QED  BY <2>2, <2>8, <2>9, <2>10, <2>12
<1>2. CASE NotifyAll(threads)
  <2>1. LivePlaces = {} /\ reservation' = None /\ waiters' = <<>>
    BY <1>2 DEF NotifyAll
  <2>2. LivePlaces' = {}
    BY <2>1, EmptySeq DEF LivePlaces
  <2>3. \A q, r \in Requests : Ahead(q, r)' <=> Ahead(q, r)
    BY <2>1, <2>2 DEF Ahead
  <2> QED  BY <2>1, <2>2, <2>3, SameOrder DEF LiveWaiters
<1> QED  BY <1>1, <1>2 DEF GrantNextWaiter

\* Only the holder of the permit is inside a state cut, a thread always is.
LEMMA InsideIsHolder ==
    ASSUME Inv
    PROVE  /\ owner # None => owner \in Threads /\ reservation = None /\ InCut = {owner}
           /\ owner = None => InCut = {r \in Requests : r = reservation /\ RequestInCut(r)}
BY CallersAssumption DEF Inv, TypeOK, HolderInv, InCut, RequestInCut

LEMMA InsideIsHolderNext ==
    ASSUME Inv'
    PROVE  /\ owner' # None => owner' \in Threads /\ reservation' = None /\ InCut' = {owner'}
           /\ owner' = None => InCut' = {r \in Requests : r = reservation' /\ RequestInCut(r)'}
BY CallersAssumption DEF Inv, TypeOK, HolderInv, InCut, RequestInCut

\* mutation() and external_call take the permit, give it up, or do nothing to it.
LEMMA ThreadImplements ==
    ASSUME Inv, Inv', NEW t \in Threads, ThreadNext(t)
    PROVE  Permit!Next \/ UNCHANGED Permit!vars
<1>1. t # None
  BY CallersAssumption
<1>2. ASSUME ~ExitOuter(t)
      PROVE  LiveWaiters' = LiveWaiters /\ ArrivalOrder' = ArrivalOrder
  <2>1. UNCHANGED <<waiters, future>>
    BY <1>2 DEF ThreadNext, Enter, Nest, ExitNested, CallExternal, ReturnExternal, waitVars
  <2> QED  BY <2>1, SameQueue
<1>3. CASE Enter(t) /\ SyncPermitAvailable
  <2>1. /\ owner = None /\ reservation = None /\ waiters = <<>>
        /\ owner' = t /\ UNCHANGED <<reservation, waiters, future>>
    BY <1>3 DEF Enter, SyncPermitAvailable, PermitIsFree, waitVars
  <2>2. LiveWaiters' = LiveWaiters /\ ArrivalOrder' = ArrivalOrder
    BY <2>1, SameQueue
  <2>3. LiveWaiters = {}
    BY <2>1, EmptySeq DEF LiveWaiters, LivePlaces
  <2>4. Holder = None /\ Holder' = t /\ InCut' = {t}
    BY <1>1, <2>1, InsideIsHolderNext DEF Holder
  <2>5. Permit!Acquire(t)
    BY <2>2, <2>3, <2>4 DEF Permit!Acquire
  <2> QED  BY <2>5 DEF Permit!Next
<1>4. CASE (Enter(t) /\ ~SyncPermitAvailable) \/ Nest(t) \/ ExitNested(t) \/ CallExternal(t) \/ ReturnExternal(t)
  <2>1. UNCHANGED <<owner, reservation, worker, waiters, future>>
    BY <1>4 DEF Enter, Nest, ExitNested, CallExternal, ReturnExternal, permitVars, waitVars, requestVars
  <2>2. InCut' = InCut /\ Holder' = Holder
    BY <2>1, InsideIsHolder, InsideIsHolderNext DEF Holder, RequestInCut
  <2>3. LiveWaiters' = LiveWaiters /\ ArrivalOrder' = ArrivalOrder
    BY <2>1, SameQueue
  <2> QED  BY <2>2, <2>3 DEF Permit!vars
<1>5. CASE ExitOuter(t)
  <2>1. /\ owner = t /\ owner' = None /\ GrantNextWaiter([tpc EXCEPT ![t] = "idle"])
        /\ UNCHANGED <<future, worker>>
    BY <1>5 DEF ExitOuter, requestVars
  <2>2. reservation = None
    BY <1>1, <2>1, InsideIsHolder
  <2>3. \A r \in Requests : worker[r] = "none"
    BY <2>2, CallersAssumption DEF Inv, HolderInv
  <2>4. Holder = t /\ Holder' = reservation' /\ InCut' = {}
    BY <1>1, <2>1, <2>3, InsideIsHolderNext DEF Holder, RequestInCut
  <2>5. \/ /\ LiveWaiters = {} /\ reservation' = None
           /\ LiveWaiters' = LiveWaiters /\ ArrivalOrder' = ArrivalOrder
        \/ /\ reservation' \in LiveWaiters
           /\ \A c \in LiveWaiters \ {reservation'} : <<reservation', c>> \in ArrivalOrder
           /\ LiveWaiters' = LiveWaiters \ {reservation'}
           /\ ArrivalOrder' = {pair \in ArrivalOrder : pair[1] # reservation' /\ pair[2] # reservation'}
    BY <2>1, GrantServesOldest
  <2>6. Permit!Release(t)
    BY <2>4, <2>5 DEF Permit!Release, Permit!Dequeue
  <2> QED  BY <2>6 DEF Permit!Next
<1> QED  BY <1>3, <1>4, <1>5 DEF ThreadNext

\* reserve(), up to its first suspension: the permit at once, or a place in the queue.
LEMMA ReserveImplements ==
    ASSUME Inv, Inv', NEW r \in Requests, Reserve(r)
    PROVE  Permit!Next
<1>1. rpc[r] = "probing" /\ UNCHANGED owner /\ r # None
  BY CallersAssumption DEF Reserve
<1>2. CASE PermitIsFree /\ waiters = <<>>
  <2>1. /\ owner = None /\ reservation = None /\ reservation' = r /\ worker'[r] = "running"
        /\ UNCHANGED <<waiters, future>>
    BY <1>2 DEF Reserve, PermitIsFree, Dispatch, Inv, TypeOK
  <2>2. LiveWaiters' = LiveWaiters /\ ArrivalOrder' = ArrivalOrder
    BY <2>1, SameQueue
  <2>3. LiveWaiters = {}
    BY <1>2, EmptySeq DEF LiveWaiters, LivePlaces
  <2>4. Holder = None /\ Holder' = r /\ InCut' = {}
    BY <1>1, <2>1, InsideIsHolderNext DEF Holder, RequestInCut
  <2>5. Permit!Acquire(r)
    BY <2>2, <2>3, <2>4 DEF Permit!Acquire
  <2> QED  BY <2>5 DEF Permit!Next
<1>3. CASE ~(PermitIsFree /\ waiters = <<>>)
  <2>1. /\ waiters' = Append(waiters, r) /\ future' = [future EXCEPT ![r] = "pending"]
        /\ UNCHANGED <<reservation, worker>>
    BY <1>3 DEF Reserve
  <2>2. Holder # None /\ UNCHANGED Holder
    BY <1>1, <1>3, <2>1 DEF Inv, NoLostWakeup, PermitIsFree, Holder
  <2>3. InCut' = InCut
    BY <1>1, <2>1, InsideIsHolder, InsideIsHolderNext DEF RequestInCut
  <2> DEFINE n == Len(waiters) + 1
  <2>4. /\ n \in Nat \ {0} /\ DOMAIN waiters = 1..Len(waiters) /\ Len(waiters) \in Nat
        /\ DOMAIN waiters' = 1..n /\ waiters'[n] = r
        /\ \A i \in DOMAIN waiters : waiters'[i] = waiters[i] /\ waiters[i] # r /\ waiters[i] \in Requests
    BY <1>1, <2>1, QueueTypes, AppendProperties, LenProperties
  <2> HIDE DEF n
  <2>5. \A i : i \in LivePlaces' <=> i \in LivePlaces \/ i = n
    <3>1. \A i \in DOMAIN waiters : i \in LivePlaces' <=> i \in LivePlaces
      BY <2>1, <2>4 DEF LivePlaces, Inv, TypeOK, n
    <3>2. n \in LivePlaces'
      BY <2>1, <2>4 DEF LivePlaces, Inv, TypeOK
    <3>3. \A i \in LivePlaces' : i = n \/ i \in DOMAIN waiters
      BY <2>4 DEF LivePlaces, n
    <3> QED  BY <3>1, <3>2, <3>3 DEF LivePlaces
  <2>6. \A i \in LivePlaces : i \in DOMAIN waiters /\ i < n /\ waiters'[i] = waiters[i] /\ waiters[i] # r
    BY <2>4 DEF LivePlaces, n
  <2>7. r \notin LiveWaiters /\ LiveWaiters' = LiveWaiters \cup {r}
    BY <2>4, <2>5, <2>6 DEF LiveWaiters
  <2>8. ASSUME NEW q \in Requests, NEW s \in Requests
        PROVE  Ahead(q, s)' <=> Ahead(q, s) \/ (q \in LiveWaiters /\ s = r)
    <3>1. ASSUME Ahead(q, s)'  PROVE  Ahead(q, s) \/ (q \in LiveWaiters /\ s = r)
      <4>1. PICK i \in LivePlaces', j \in LivePlaces' : i < j /\ waiters'[i] = q /\ waiters'[j] = s
        BY <3>1 DEF Ahead
      <4>2. i \in LivePlaces
        <5>1. i # n
          BY <2>4, <2>5, <2>6, <4>1
        <5> QED  BY <2>5, <5>1
      <4> QED  BY <2>4, <2>5, <2>6, <4>1, <4>2 DEF Ahead, LiveWaiters
    <3>2. ASSUME Ahead(q, s)  PROVE  Ahead(q, s)'
      BY <2>5, <2>6, <3>2 DEF Ahead
    <3>3. ASSUME q \in LiveWaiters, s = r  PROVE  Ahead(q, s)'
      BY <2>4, <2>5, <2>6, <3>3 DEF Ahead, LiveWaiters
    <3> QED  BY <3>1, <3>2, <3>3
  <2>9. ArrivalOrder' = ArrivalOrder \cup (LiveWaiters \X {r})
    <3>1. LiveWaiters \subseteq Requests
      BY DEF LiveWaiters
    <3> QED  BY <2>8, <3>1 DEF ArrivalOrder
  <2>10. Permit!Queue(r)
    BY <2>2, <2>3, <2>7, <2>9 DEF Permit!Queue
  <2> QED  BY <2>10 DEF Permit!Next
<1> QED  BY <1>2, <1>3

\* A waiter whose future is cancelled gives its place up at once, if it still has one.
LEMMA CancelImplements ==
    ASSUME Inv, Inv', NEW r \in Requests, CancelAwaiting(r)
    PROVE  Permit!Next \/ UNCHANGED Permit!vars
<1>1. UNCHANGED <<owner, reservation, worker, waiters>>
  BY DEF CancelAwaiting, permitVars
<1>2. InCut' = InCut /\ Holder' = Holder
  BY <1>1, InsideIsHolder, InsideIsHolderNext DEF Holder, RequestInCut
<1>3. CASE future' = future \/ \A i \in DOMAIN waiters : waiters[i] # r
  <2>1. \A i \in DOMAIN waiters : future'[waiters[i]] = future[waiters[i]]
    BY <1>3, QueueTypes DEF CancelAwaiting, Inv, TypeOK
  <2> QED  BY <1>1, <1>2, <2>1, SameQueue DEF Permit!vars
<1>4. CASE future' # future /\ \E n \in DOMAIN waiters : waiters[n] = r
  <2>1. PICK n \in DOMAIN waiters : waiters[n] = r
    BY <1>4
  <2>2. future[r] = "pending" /\ future' = [future EXCEPT ![r] = "cancelled"]
    BY <1>4 DEF CancelAwaiting
  <2>3. n \in LivePlaces /\ LivePlaces' = LivePlaces \ {n}
    BY <1>1, <2>1, <2>2, QueueTypes DEF LivePlaces, Inv, TypeOK
  <2>4. \A i \in LivePlaces : waiters'[i] = waiters[i] /\ (waiters[i] = r <=> i = n)
    BY <1>1, <2>1, QueueTypes DEF LivePlaces
  <2>5. r \in LiveWaiters /\ LiveWaiters' = LiveWaiters \ {r}
    BY <2>3, <2>4 DEF LiveWaiters
  <2>6. \A q, s \in Requests : Ahead(q, s)' <=> Ahead(q, s) /\ q # r /\ s # r
    BY <2>3, <2>4 DEF Ahead
  <2>7. ArrivalOrder' = {pair \in ArrivalOrder : pair[1] # r /\ pair[2] # r}
    BY <2>6 DEF ArrivalOrder
  <2>8. Permit!Abandon(r)
    BY <1>2, <2>5, <2>7 DEF Permit!Abandon, Permit!Dequeue
  <2> QED  BY <2>8 DEF Permit!Next
<1> QED  BY <1>3, <1>4

\* deque.remove of a cancelled waiter changes nothing for the live ones.
LEMMA RemovalImplements ==
    ASSUME Inv, Inv', NEW r \in Requests, CancelQueued(r)
    PROVE  UNCHANGED Permit!vars
<1>1. /\ rpc[r] = "awaiting" /\ r \notin granted /\ future[r] = "cancelled"
      /\ future' = [future EXCEPT ![r] = "none"]
      /\ worker' = [worker EXCEPT ![r] = "none"] /\ UNCHANGED <<owner, reservation>>
  BY DEF CancelQueued, CancellationDelivered, Finish, permitVars, Inv, FutureInv
<1>2. \A q \in Requests : RequestInCut(q)' <=> RequestInCut(q)
  BY <1>1 DEF RequestInCut, Inv, HolderInv, TypeOK
<1>3. InCut' = InCut /\ Holder' = Holder
  BY <1>1, <1>2, InsideIsHolder, InsideIsHolderNext DEF Holder
<1>4. CASE waiters' = waiters /\ \A i \in DOMAIN waiters : waiters[i] # r
  <2>1. \A i \in DOMAIN waiters : future'[waiters[i]] = future[waiters[i]]
    BY <1>1, <1>4, QueueTypes DEF Inv, TypeOK
  <2> QED  BY <1>3, <1>4, <2>1, SameQueue DEF Permit!vars
<1>5. CASE \E n \in DOMAIN waiters : waiters[n] = r /\ waiters' = RemoveAt(waiters, n)
  <2>1. PICK n \in DOMAIN waiters : waiters[n] = r /\ waiters' = RemoveAt(waiters, n)
    BY <1>5
  <2> DEFINE At(j) == IF j < n THEN j ELSE j + 1
             To(i) == IF i < n THEN i ELSE i - 1
  <2>2. /\ waiters' \in Seq(Requests)
        /\ \A j \in DOMAIN waiters' : j \in Nat /\ At(j) \in DOMAIN waiters /\ waiters'[j] = waiters[At(j)]
    BY <2>1, QueueTypes, RemovedFromQueue
  <2>3. Len(waiters') = Len(waiters) - 1 /\ DOMAIN waiters' = 1..(Len(waiters) - 1)
    BY <2>1, QueueTypes, RemovedLength
  <2>4. ASSUME NEW j \in LivePlaces'  PROVE  j \in Nat /\ At(j) \in LivePlaces /\ waiters'[j] = waiters[At(j)]
    <3>1. j \in DOMAIN waiters' /\ future'[waiters'[j]] # "cancelled"
      BY DEF LivePlaces
    <3>2. j \in Nat /\ At(j) \in DOMAIN waiters /\ waiters'[j] = waiters[At(j)]
      BY <2>2, <3>1
    <3>3. At(j) # n
      BY <2>1, <3>2, QueueTypes
    <3>4. waiters[At(j)] # r
      BY <2>1, <3>2, <3>3, QueueTypes
    <3>5. future'[waiters'[j]] = future[waiters[At(j)]]
      BY <1>1, <3>2, <3>4, QueueTypes DEF Inv, TypeOK
    <3> QED  BY <3>1, <3>2, <3>5 DEF LivePlaces
  <2>5. ASSUME NEW i \in LivePlaces  PROVE  i \in Nat /\ To(i) \in LivePlaces' /\ waiters'[To(i)] = waiters[i]
    <3>1. i \in DOMAIN waiters /\ future[waiters[i]] # "cancelled" /\ i \in Nat /\ n \in Nat /\ n > 0
      BY QueueTypes DEF LivePlaces
    <3>2. waiters[i] # r /\ i # n
      BY <1>1, <2>1, <3>1
    <3>3. To(i) \in DOMAIN waiters' /\ At(To(i)) = i
      BY <2>1, <2>3, <3>1, <3>2, QueueTypes
    <3>4. waiters'[To(i)] = waiters[i]
      BY <2>2, <3>3
    <3>5. future'[waiters'[To(i)]] = future[waiters[i]]
      BY <1>1, <3>1, <3>2, <3>4, QueueTypes DEF Inv, TypeOK
    <3> QED  BY <3>1, <3>3, <3>4, <3>5 DEF LivePlaces
  <2>6. LiveWaiters' = LiveWaiters
    BY <2>4, <2>5 DEF LiveWaiters
  <2>7. ASSUME NEW q \in Requests, NEW s \in Requests  PROVE  Ahead(q, s)' <=> Ahead(q, s)
    <3>1. ASSUME Ahead(q, s)'  PROVE  Ahead(q, s)
      <4>1. PICK i \in LivePlaces', j \in LivePlaces' : i < j /\ waiters'[i] = q /\ waiters'[j] = s
        BY <3>1 DEF Ahead
      <4>2. At(i) < At(j) /\ waiters[At(i)] = q /\ waiters[At(j)] = s
        BY <2>4, <4>1, QueueTypes
      <4> QED  BY <2>4, <4>2 DEF Ahead
    <3>2. ASSUME Ahead(q, s)  PROVE  Ahead(q, s)'
      <4>1. PICK i \in LivePlaces, j \in LivePlaces : i < j /\ waiters[i] = q /\ waiters[j] = s
        BY <3>2 DEF Ahead
      <4>2. i # n /\ j # n
        BY <1>1, <2>1 DEF LivePlaces
      <4>3. To(i) < To(j) /\ waiters'[To(i)] = q /\ waiters'[To(j)] = s
        BY <2>5, <4>1, <4>2, QueueTypes
      <4> QED  BY <2>5, <4>3 DEF Ahead
    <3> QED  BY <3>1, <3>2
  <2> QED  BY <1>3, <2>6, <2>7, SameOrder DEF Permit!vars
<1> QED  BY <1>4, <1>5 DEF CancelQueued

\* A reservation ends: its request was cancelled after the grant, or its worker is done.
LEMMA EndImplements ==
    ASSUME Inv, Inv', NEW r \in Requests, CancelGranted(r) \/ LeaveReservation(r)
    PROVE  Permit!Next
<1>1. /\ reservation = r /\ GrantNextWaiter(tpc) /\ UNCHANGED owner
      /\ future' = [future EXCEPT ![r] = "none"] /\ worker' = [worker EXCEPT ![r] = "none"]
  BY DEF CancelGranted, LeaveReservation, Finish
<1>2. owner = None /\ r \in granted /\ r # None
  BY <1>1, CallersAssumption, InsideIsHolder DEF Inv, HolderInv
<1>3. \A i \in DOMAIN waiters : future'[waiters[i]] = future[waiters[i]]
  BY <1>1, <1>2, QueueTypes DEF Inv, TypeOK
<1>4. \A q \in Requests : worker'[q] = "none"
  BY <1>1 DEF Inv, HolderInv, TypeOK
<1>5. Holder = r /\ Holder' = reservation' /\ InCut' = {}
  BY <1>1, <1>2, <1>4, InsideIsHolderNext DEF Holder, RequestInCut
<1>6. \/ /\ LiveWaiters = {} /\ reservation' = None
         /\ LiveWaiters' = LiveWaiters /\ ArrivalOrder' = ArrivalOrder
      \/ /\ reservation' \in LiveWaiters
         /\ \A c \in LiveWaiters \ {reservation'} : <<reservation', c>> \in ArrivalOrder
         /\ LiveWaiters' = LiveWaiters \ {reservation'}
         /\ ArrivalOrder' = {pair \in ArrivalOrder : pair[1] # reservation' /\ pair[2] # reservation'}
  BY <1>1, <1>3, GrantServesOldest
<1>7. Permit!Release(r)
  BY <1>5, <1>6 DEF Permit!Release, Permit!Dequeue
<1> QED  BY <1>7 DEF Permit!Next

\* The other steps of a request's task do not touch the permit.
LEMMA TaskImplements ==
    ASSUME Inv, Inv', NEW r \in Requests,
           Submit(r) \/ ProbeEnds(r) \/ CompleteWaiter(r) \/ ResumeAwaiting(r) \/ CancelDispatched(r)
    PROVE  UNCHANGED Permit!vars
<1>1. UNCHANGED <<owner, reservation, waiters>>
  BY DEF Submit, ProbeEnds, CompleteWaiter, ResumeAwaiting, CancelDispatched, permitVars, waitVars
<1>2. \A q \in Requests : RequestInCut(q)' <=> RequestInCut(q)
  BY DEF Submit, ProbeEnds, CompleteWaiter, ResumeAwaiting, CancelDispatched, Dispatch, Finish, requestVars,
     RequestInCut, Inv, HolderInv, TypeOK
<1>3. InCut' = InCut /\ Holder' = Holder
  BY <1>1, <1>2, InsideIsHolder, InsideIsHolderNext DEF Holder
<1>4. \A i \in DOMAIN waiters : future'[waiters[i]] = "cancelled" <=> future[waiters[i]] = "cancelled"
  BY QueueTypes
  DEF Submit, ProbeEnds, CompleteWaiter, ResumeAwaiting, CancelDispatched, Finish, waitVars, Inv, TypeOK
<1> QED  BY <1>1, <1>3, <1>4, SameQueue DEF Permit!vars

\* The worker of a reserved request enters and leaves its state cut under the permit.
LEMMA WorkerImplements ==
    ASSUME Inv, Inv', NEW r \in Requests, WorkerNext(r)
    PROVE  Permit!Next \/ UNCHANGED Permit!vars
<1>1. PICK from \in {"running", "mutating", "external", "committing"}, to \in WorkerStates :
         worker[r] = from /\ WorkerMoves(r, from, to)
  BY DEF WorkerNext, WorkerEnters, WorkerCalls, WorkerReturns, WorkerFinishes, WorkerStates, WorkerMoves
<1>2. /\ worker' = [worker EXCEPT ![r] = to] /\ UNCHANGED <<owner, reservation, waiters, future>>
      /\ reservation = r /\ r # None /\ owner = None
  BY <1>1, CallersAssumption, InsideIsHolder DEF WorkerMoves, permitVars, waitVars, Inv, HolderInv
<1>3. LiveWaiters' = LiveWaiters /\ ArrivalOrder' = ArrivalOrder /\ Holder = r /\ Holder' = r
  BY <1>2, SameQueue DEF Holder
<1>4. /\ InCut = IF RequestInCut(r) THEN {r} ELSE {}
      /\ InCut' = IF RequestInCut(r)' THEN {r} ELSE {}
  BY <1>2, InsideIsHolder, InsideIsHolderNext
<1>5. CASE RequestInCut(r)'
  <2>1. Permit!Enter(r)
    BY <1>3, <1>4, <1>5 DEF Permit!Enter
  <2> QED  BY <2>1 DEF Permit!Next
<1>6. CASE ~RequestInCut(r)' /\ RequestInCut(r)
  <2>1. Permit!Leave(r)
    BY <1>3, <1>4, <1>6 DEF Permit!Leave
  <2> QED  BY <2>1 DEF Permit!Next
<1>7. CASE ~RequestInCut(r)' /\ ~RequestInCut(r)
  BY <1>3, <1>4, <1>7 DEF Permit!vars
<1> QED  BY <1>5, <1>6, <1>7

\* Every step of the authority is a step of the FIFO permit or leaves it alone.
LEMMA StepImplements == Inv /\ Inv' /\ [Next]_vars => [Permit!Next]_(Permit!vars)
<1> SUFFICES ASSUME Inv, Inv', [Next]_vars  PROVE  Permit!Next \/ UNCHANGED Permit!vars
  OBVIOUS
<1>1. CASE UNCHANGED vars
  <2>1. UNCHANGED <<owner, reservation, worker, waiters, future, tpc>>
    BY <1>1 DEF vars, permitVars, waitVars, requestVars
  <2>2. Holder' = Holder /\ InCut' = InCut
    BY <2>1 DEF Holder, InCut, ThreadInCut, RequestInCut
  <2> QED  BY <2>1, <2>2, SameQueue DEF Permit!vars
<1>2. ASSUME NEW t \in Threads, ThreadNext(t)  PROVE  Permit!Next \/ UNCHANGED Permit!vars
  BY <1>2, ThreadImplements
<1>3. ASSUME NEW r \in Requests, RequestNext(r)  PROVE  Permit!Next \/ UNCHANGED Permit!vars
  BY <1>3, ReserveImplements, CancelImplements, RemovalImplements, EndImplements, TaskImplements
  DEF RequestNext
<1>4. ASSUME NEW r \in Requests, WorkerNext(r)  PROVE  Permit!Next \/ UNCHANGED Permit!vars
  BY <1>4, WorkerImplements
<1> QED  BY <1>1, <1>2, <1>3, <1>4 DEF Next

\* RuntimeMutationAuthority implements the FIFO permit: whatever cancellations, grants
\* and releases interleave, requests are served in the order of their arrival, a caller
\* that does not queue gets the permit only when no live request is queued, and work in
\* a state cut is done by the holder, which keeps the permit until that work is over.
THEOREM AuthorityIsFifoPermit == Spec => ImplementsFifoPermit
<1>1. Init => Permit!Init
  <2> SUFFICES ASSUME Init  PROVE  Permit!Init
    OBVIOUS
  <2>1. owner = None /\ reservation = None /\ LivePlaces = {}
    BY EmptySeq DEF Init, LivePlaces
  <2>2. LiveWaiters = {} /\ Holder = None
    BY <2>1 DEF LiveWaiters, Holder
  <2>3. ArrivalOrder = {}
    BY <2>1 DEF ArrivalOrder, Ahead
  <2>4. InCut = {}
    BY DEF Init, InCut, ThreadInCut, RequestInCut
  <2> QED  BY <2>2, <2>3, <2>4 DEF Permit!Init
<1> QED  BY <1>1, StepImplements, InvHolds, PTL DEF Spec, ImplementsFifoPermit, Permit!Spec
=============================================================================
