----------------------------- MODULE FifoPermit -----------------------------
(***************************************************************************)
(* What RuntimeMutationAuthority promises its callers, without saying how: *)
(* one logical permit; callers that queue get it in arrival order; callers *)
(* that do not queue get it only when nobody is queued; a queued caller    *)
(* may give up; and work done inside a mutation state cut is done by the   *)
(* caller that holds the permit, which keeps it until that work is over.   *)
(***************************************************************************)
CONSTANTS Actors,   \* everyone who may hold the permit
          None      \* nobody holds it

VARIABLES holder,   \* the actor that holds the permit, or None
          queued,   \* the actors queued for it
          before,   \* their arrival order: pairs of an earlier and a later one
          inside    \* the actors executing inside a mutation state cut

vars == <<holder, queued, before, inside>>

Init == holder = None /\ queued = {} /\ before = {} /\ inside = {}

\* a leaves the queue; the others keep their order.
Dequeue(a) ==
    /\ a \in queued /\ queued' = queued \ {a}
    /\ before' = {pair \in before : pair[1] # a /\ pair[2] # a}

\* The permit is free and nobody is queued: the caller takes it at once, and
\* may already be inside its state cut when the acquisition returns.
Acquire(a) ==
    /\ holder = None /\ queued = {}
    /\ holder' = a
    /\ inside' \in {{}, {a}}
    /\ UNCHANGED <<queued, before>>

Queue(a) ==
    /\ holder # None
    /\ a \notin queued
    /\ queued' = queued \cup {a}
    /\ before' = before \cup (queued \X {a})
    /\ UNCHANGED <<holder, inside>>

Abandon(a) ==
    /\ Dequeue(a)
    /\ UNCHANGED <<holder, inside>>

Enter(a) ==
    /\ holder = a /\ inside' = {a}
    /\ UNCHANGED <<holder, queued, before>>

Leave(a) ==
    /\ holder = a /\ inside = {a} /\ inside' = {}
    /\ UNCHANGED <<holder, queued, before>>

\* The holder gives the permit up: directly to the oldest queued actor, or to
\* nobody when the queue is empty.
Release(a) ==
    /\ holder = a
    /\ inside' = {}
    /\ \/ queued = {} /\ holder' = None /\ UNCHANGED <<queued, before>>
       \/ \E b \in queued : /\ \A c \in queued \ {b} : <<b, c>> \in before
                            /\ holder' = b /\ Dequeue(b)

Next == \E a \in Actors : \/ Acquire(a) \/ Queue(a) \/ Abandon(a)
                          \/ Enter(a) \/ Leave(a) \/ Release(a)

Spec == Init /\ [][Next]_vars
=============================================================================
