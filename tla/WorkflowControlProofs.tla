----------------------- MODULE WorkflowControlProofs -----------------------
(***************************************************************************)
(* The safety properties of WorkflowControl, for every set of workflows    *)
(* and steps, every contract, every bound on the clock and on the events.  *)
(*                                                                         *)
(* First what the operators that write a compensation compute: the order   *)
(* is a permutation of the completed steps, newest first, and the record   *)
(* holds three events for each of them.  Then what an ended run is left    *)
(* with, and last one lemma per kind of step and part of Inv.              *)
(***************************************************************************)
EXTENDS WorkflowControl, FiniteSetTheorems, SequenceTheorems, TLAPS

-----------------------------------------------------------------------------
(* The order of compensation                                               *)

\* The text of two instants is ordered the same only if they are the same
\* instant, and never against the order of their seconds.
LEMMA TextOrders ==
    ASSUME NEW t \in Nat, NEW u \in Nat
    PROVE  /\ TextOrder(t) \in Nat
           /\ TextOrder(t) = TextOrder(u) => t = u
           /\ TextOrder(t) >= TextOrder(u) => Second(t) >= Second(u)
BY DEF TextOrder, Second

\* Positions of a history are finitely many.
LEMMA PositionsFinite ==
    ASSUME NEW h \in Seq(Events), NEW events \in SUBSET DOMAIN h
    PROVE  /\ IsFiniteSet(events)
           /\ Cardinality(events) \in Nat
           /\ events \subseteq 1..Len(h)
           /\ \A i \in events : h[i] \in Events /\ i \in Nat
<1>1. IsFiniteSet(1..Len(h)) /\ events \subseteq 1..Len(h)
  BY FS_Interval
<1>2. IsFiniteSet(events)
  BY <1>1, FS_Subset
<1> QED  BY <1>1, <1>2, FS_CardinalityType

LEMMA EventTimes == \A e \in Events : e.at \in Nat
BY LimitsAssumption DEF Events, Times

\* Of two completed steps, the one that is compensated first has fewer before it.
LEMMA UpToNested ==
    ASSUME NEW h \in Seq(Events), NEW events \in SUBSET DOMAIN h,
           NEW i \in events, NEW j \in events, i # j,
           \/ TextOrder(h[i].at) > TextOrder(h[j].at)
           \/ h[i].at = h[j].at /\ i < j
    PROVE  Cardinality(UpTo(h, events, i)) < Cardinality(UpTo(h, events, j))
<1>1. \A k \in events : h[k].at \in Nat /\ TextOrder(h[k].at) \in Nat /\ k \in Nat
  BY PositionsFinite, EventTimes, TextOrders
<1>2. UpTo(h, events, i) \subseteq UpTo(h, events, j)
  BY <1>1 DEF UpTo
<1>3. j \in UpTo(h, events, j) /\ j \notin UpTo(h, events, i)
  BY <1>1 DEF UpTo
<1>4. IsFiniteSet(UpTo(h, events, j))
  BY PositionsFinite, FS_Subset DEF UpTo
<1>5. /\ Cardinality(UpTo(h, events, i)) <= Cardinality(UpTo(h, events, j))
      /\ Cardinality(UpTo(h, events, j)) # Cardinality(UpTo(h, events, i))
      /\ IsFiniteSet(UpTo(h, events, i))
  BY <1>2, <1>3, <1>4, FS_Subset
<1> QED  BY <1>4, <1>5, FS_CardinalityType

LEMMA UpToBounds ==
    ASSUME NEW h \in Seq(Events), NEW events \in SUBSET DOMAIN h, NEW i \in events
    PROVE  Cardinality(UpTo(h, events, i)) \in 1..Cardinality(events)
<1>1. i \in UpTo(h, events, i)
  BY PositionsFinite, EventTimes, TextOrders DEF UpTo
<1>2. UpTo(h, events, i) \in SUBSET events
  BY DEF UpTo
<1>3. /\ IsFiniteSet(UpTo(h, events, i))
      /\ Cardinality(UpTo(h, events, i)) <= Cardinality(events)
  BY <1>2, PositionsFinite, FS_Subset
<1>4. Cardinality(UpTo(h, events, i)) # 0
  BY <1>1, <1>3, FS_EmptySet
<1> QED  BY <1>3, <1>4, FS_CardinalityType, PositionsFinite

\* Compensation takes every completed step once, and never one whose timestamp
\* is later in the order of texts after one that is earlier.
LEMMA SortedIsPermutation ==
    ASSUME NEW h \in Seq(Events), NEW events \in SUBSET DOMAIN h
    PROVE  LET ordered == SortedNewestFirst(h, events)
               N       == Cardinality(events)
           IN  /\ N \in Nat
               /\ ordered \in [1..N -> events]
               /\ ordered \in Seq(events) /\ Len(ordered) = N
               /\ \A i \in events : \E n \in 1..N : ordered[n] = i
               /\ \A m, n \in 1..N : ordered[m] = ordered[n] => m = n
               /\ \A m, n \in 1..N : m < n => TextOrder(h[ordered[m]].at) >= TextOrder(h[ordered[n]].at)
<1> DEFINE N == Cardinality(events)
           ordered == SortedNewestFirst(h, events)
           place == [i \in events |-> Cardinality(UpTo(h, events, i))]
<1>1. N \in Nat /\ IsFiniteSet(events)
  BY PositionsFinite
<1>2. \A i, j \in events : place[i] = place[j] => i = j
  <2> SUFFICES ASSUME NEW i \in events, NEW j \in events, i # j
               PROVE  place[i] # place[j]
    OBVIOUS
  <2>1. /\ i \in Nat /\ j \in Nat /\ h[i].at \in Nat /\ h[j].at \in Nat
        /\ TextOrder(h[i].at) \in Nat /\ TextOrder(h[j].at) \in Nat
        /\ TextOrder(h[i].at) = TextOrder(h[j].at) => h[i].at = h[j].at
    BY PositionsFinite, EventTimes, TextOrders
  <2>2. \A k \in events : Cardinality(UpTo(h, events, k)) \in Nat
    BY <1>1, UpToBounds
  <2>3. CASE TextOrder(h[i].at) > TextOrder(h[j].at) \/ (h[i].at = h[j].at /\ i < j)
    BY <2>2, <2>3, UpToNested
  <2>4. CASE TextOrder(h[j].at) > TextOrder(h[i].at) \/ (h[j].at = h[i].at /\ j < i)
    BY <2>2, <2>4, UpToNested
  <2> QED  BY <2>1, <2>3, <2>4
<1>3. place \in [events -> 1..N]
  BY UpToBounds
<1>4. place \in Injection(events, 1..N)
  BY <1>2, <1>3 DEF Injection, IsInjective
<1>5. IsFiniteSet(1..N) /\ Cardinality(1..N) = N
  BY <1>1, FS_Interval
<1>6. place \in Surjection(events, 1..N)
  BY <1>4, <1>5, FS_Injection
<1>7. \A n \in 1..N : \E i \in events : place[i] = n
  BY <1>6 DEF Surjection
<1>8. \A n \in 1..N : ordered[n] \in events /\ place[ordered[n]] = n
  BY <1>7 DEF SortedNewestFirst
<1>9. ordered = [n \in 1..N |-> ordered[n]]
  BY DEF SortedNewestFirst
<1>10. ordered \in [1..N -> events]
  BY <1>8, <1>9
<1>11. ordered \in Seq(events) /\ Len(ordered) = N
  BY <1>1, <1>10
<1>12. \A i \in events : \E n \in 1..N : ordered[n] = i
  BY <1>2, <1>3, <1>8
<1>13. \A m, n \in 1..N : ordered[m] = ordered[n] => m = n
  BY <1>8
<1>14. ASSUME NEW m \in 1..N, NEW n \in 1..N, m < n
       PROVE  TextOrder(h[ordered[m]].at) >= TextOrder(h[ordered[n]].at)
  <2>1. /\ ordered[m] \in events /\ ordered[n] \in events
        /\ Cardinality(UpTo(h, events, ordered[m])) = m
        /\ Cardinality(UpTo(h, events, ordered[n])) = n
    BY <1>8
  <2>2. TextOrder(h[ordered[m]].at) \in Nat /\ TextOrder(h[ordered[n]].at) \in Nat
    BY <2>1, PositionsFinite, EventTimes, TextOrders
  <2>3. ordered[m] # ordered[n]
    BY <1>1, <1>13, <1>14
  <2>4. ~(TextOrder(h[ordered[n]].at) > TextOrder(h[ordered[m]].at))
    <3> HIDE DEF ordered
    <3> SUFFICES ASSUME TextOrder(h[ordered[n]].at) > TextOrder(h[ordered[m]].at)
                 PROVE  FALSE
      OBVIOUS
    <3>1. Cardinality(UpTo(h, events, ordered[n])) < Cardinality(UpTo(h, events, ordered[m]))
      BY <2>1, <2>3, UpToNested
    <3> QED  BY <1>1, <1>14, <2>1, <3>1
  <2> QED  BY <2>2, <2>4
<1> HIDE DEF ordered
<1> QED  BY <1>1, <1>10, <1>11, <1>12, <1>13, <1>14 DEF ordered

-----------------------------------------------------------------------------
(* The record of a compensation, and what an ended run is left with         *)

\* A history that goes on: its two parts keep their places.
LEMMA Joined ==
    ASSUME NEW g \in Seq(Events), NEW h \in Seq(Events)
    PROVE  /\ g \o h \in Seq(Events)
           /\ Len(g \o h) = Len(g) + Len(h)
           /\ \A i \in 1..Len(g) : (g \o h)[i] = g[i]
           /\ \A i \in 1..Len(h) : (g \o h)[Len(g) + i] = h[i]
BY ConcatProperties

\* The names of events: what tells one kind from another
LEMMA EventNames ==
    /\ \A s \in TerminalStatuses : TerminalEvent[s] \in TerminalEvents
    /\ TerminalEvents = {"workflow_completed", "workflow_failed", "workflow_cancelled", "workflow_timed_out"}
    /\ TerminalEvents \cap CompensationEvents = {}
    /\ \A s, t \in TerminalStatuses : TerminalEvent[s] = TerminalEvent[t] => s = t
    /\ TerminalEvents \subseteq EventTypes /\ CompensationEvents \subseteq EventTypes
<1>1. TerminalEvents = {"workflow_completed", "workflow_failed", "workflow_cancelled", "workflow_timed_out"}
  BY DEF TerminalEvents, TerminalEvent, TerminalStatuses
<1> QED  BY <1>1 DEF TerminalEvents, TerminalEvent, TerminalStatuses, CompensationEvents, EventTypes

\* A step's compensation is registered, started and completed; the record opens
\* and closes around them.
LEMMA RecordShape ==
    ASSUME NEW h \in Seq(Events), NEW ordered \in Seq(DOMAIN h), NEW at \in Times
    PROVE  LET record == CompensationRecord(h, ordered, at)
               N      == Len(ordered)
           IN  /\ record \in Seq(Events)
               /\ Len(record) = 3 * N + 2
               /\ record[3 * N + 2].type = "compensation_completed"
               /\ \A i \in 1..Len(record) : record[i].type \in CompensationEvents /\ record[i].at = at
               /\ \A i \in 1..Len(record) :
                      record[i].type = "compensation_workflow_started" => \E m \in 1..N : i = 3 * m
               /\ \A m \in 1..N : /\ record[3 * m].type = "compensation_workflow_started"
                                  /\ record[3 * m].step = h[ordered[m]].step
<1> DEFINE N == Len(ordered)
           first == <<Event("compensation_started", at, NoStep)>>
           middle == [k \in 1..(3 * N) |->
                         Event(StepCompensation[1 + ((k - 1) % 3)], at, h[ordered[1 + ((k - 1) \div 3)]].step)]
           last == <<Event("compensation_completed", at, NoStep)>>
           record == CompensationRecord(h, ordered, at)
<1>1. N \in Nat
  OBVIOUS
<1>2. \A k \in 1..(3 * N) : /\ 1 + ((k - 1) % 3) \in 1..3
                            /\ 1 + ((k - 1) \div 3) \in 1..N
  BY <1>1
<1>3. \A m \in 1..N : ordered[m] \in DOMAIN h /\ h[ordered[m]].step \in Steps \cup {NoStep}
  <2> SUFFICES ASSUME NEW m \in 1..N
               PROVE  ordered[m] \in DOMAIN h /\ h[ordered[m]].step \in Steps \cup {NoStep}
    OBVIOUS
  <2>1. ordered[m] \in DOMAIN h
    BY ElementOfSeq
  <2>2. h[ordered[m]] \in Events
    BY <2>1
  <2> QED  BY <2>1, <2>2 DEF Events
<1>4. \A k \in 1..3 : StepCompensation[k] \in CompensationEvents
  BY DEF StepCompensation, CompensationEvents
<1>5. \A type \in CompensationEvents, step \in Steps \cup {NoStep} : Event(type, at, step) \in Events
  BY EventNames DEF Event, Events
<1>6. \A k \in 1..(3 * N) : /\ middle[k] \in Events /\ middle[k].at = at
                            /\ middle[k].type = StepCompensation[1 + ((k - 1) % 3)]
                            /\ middle[k].type \in CompensationEvents
                            /\ middle[k].step = h[ordered[1 + ((k - 1) \div 3)]].step
  <2> SUFFICES ASSUME NEW k \in 1..(3 * N)
               PROVE  /\ middle[k] \in Events /\ middle[k].at = at
                      /\ middle[k].type = StepCompensation[1 + ((k - 1) % 3)]
                      /\ middle[k].type \in CompensationEvents
                      /\ middle[k].step = h[ordered[1 + ((k - 1) \div 3)]].step
    OBVIOUS
  <2>1. middle[k] = Event(StepCompensation[1 + ((k - 1) % 3)], at, h[ordered[1 + ((k - 1) \div 3)]].step)
    OBVIOUS
  <2>2. /\ StepCompensation[1 + ((k - 1) % 3)] \in CompensationEvents
        /\ h[ordered[1 + ((k - 1) \div 3)]].step \in Steps \cup {NoStep}
    BY <1>2, <1>3, <1>4
  <2>3. middle[k] \in Events
    BY <1>5, <2>1, <2>2
  <2> QED  BY <2>1, <2>2, <2>3 DEF Event
<1>7. middle \in Seq(Events) /\ Len(middle) = 3 * N
  <2>1. middle \in [1..(3 * N) -> Events]
    BY <1>6
  <2>2. 3 * N \in Nat /\ DOMAIN middle = 1..(3 * N)
    BY <1>1
  <2> HIDE DEF middle, N
  <2> QED  BY <2>1, <2>2, LenProperties, SeqDef
<1>8. /\ first \in Seq(Events) /\ Len(first) = 1 /\ first[1].type = "compensation_started" /\ first[1].at = at
      /\ last \in Seq(Events) /\ Len(last) = 1 /\ last[1].type = "compensation_completed" /\ last[1].at = at
  <2>1. /\ Event("compensation_started", at, NoStep) \in Events
        /\ Event("compensation_completed", at, NoStep) \in Events
    BY <1>5 DEF CompensationEvents
  <2> QED  BY <2>1 DEF Event
<1>9. record = first \o middle \o last
  BY DEF CompensationRecord
<1> HIDE DEF first, middle, last, record, N
<1>10. /\ record \in Seq(Events) /\ Len(record) = 3 * N + 2
       /\ record[1] = first[1] /\ record[3 * N + 2] = last[1]
       /\ \A k \in 1..(3 * N) : record[k + 1] = middle[k]
  <2> DEFINE front == first \o middle
  <2>1. /\ front \in Seq(Events) /\ Len(front) = Len(first) + Len(middle)
        /\ \A i \in 1..Len(first) : front[i] = first[i]
        /\ \A i \in 1..Len(middle) : front[Len(first) + i] = middle[i]
    BY <1>7, <1>8, Joined
  <2>2. record = front \o last
    BY <1>9
  <2> HIDE DEF front
  <2>3. /\ record \in Seq(Events) /\ Len(record) = Len(front) + Len(last)
        /\ \A i \in 1..Len(front) : record[i] = front[i]
        /\ \A i \in 1..Len(last) : record[Len(front) + i] = last[i]
    <3>1. last \in Seq(Events) /\ front \in Seq(Events)
      BY <1>8, <2>1
    <3>2. /\ front \o last \in Seq(Events) /\ Len(front \o last) = Len(front) + Len(last)
          /\ \A i \in 1..Len(front) : (front \o last)[i] = front[i]
          /\ \A i \in 1..Len(last) : (front \o last)[Len(front) + i] = last[i]
      BY <3>1, Joined
    <3> QED  BY <2>2, <3>2
  <2>4. Len(front) = 3 * N + 1 /\ Len(record) = 3 * N + 2
    BY <1>1, <1>7, <1>8, <2>1, <2>3
  <2>5. record[1] = first[1] /\ record[3 * N + 2] = last[1]
    <3>1. record[1] = front[1] /\ front[1] = first[1]
      BY <1>1, <1>8, <2>1, <2>3, <2>4
    <3>2. record[Len(front) + 1] = last[1]
      BY <1>8, <2>3
    <3>3. Len(front) + 1 = 3 * N + 2
      BY <1>1, <2>4
    <3> QED  BY <3>1, <3>2, <3>3
  <2>6. ASSUME NEW k \in 1..(3 * N)  PROVE  record[k + 1] = middle[k]
    <3>1. front[1 + k] = middle[k] /\ 1 + k = k + 1 /\ k + 1 \in 1..Len(front)
      BY <1>1, <1>7, <1>8, <2>1, <2>4
    <3> QED  BY <2>3, <3>1
  <2> QED  BY <2>3, <2>4, <2>5, <2>6
<1>11. ASSUME NEW i \in 1..Len(record)
       PROVE  \/ i = 1 \/ i = 3 * N + 2
              \/ i - 1 \in 1..(3 * N) /\ record[i] = middle[i - 1]
  <2>1. i - 1 \in 1..(3 * N) => record[(i - 1) + 1] = middle[i - 1]
    BY <1>10
  <2> QED  BY <1>1, <1>10, <2>1
<1>12. ASSUME NEW i \in 1..Len(record)
       PROVE  record[i].type \in CompensationEvents /\ record[i].at = at
  <2>1. /\ record[1].type \in CompensationEvents /\ record[1].at = at
        /\ record[3 * N + 2].type \in CompensationEvents /\ record[3 * N + 2].at = at
    BY <1>8, <1>10 DEF CompensationEvents
  <2>2. CASE i - 1 \in 1..(3 * N) /\ record[i] = middle[i - 1]
    <3>1. middle[i - 1].type \in CompensationEvents /\ middle[i - 1].at = at
      BY <1>6, <2>2
    <3> QED  BY <2>2, <3>1
  <2> QED  BY <1>11, <2>1, <2>2
<1>13. ASSUME NEW i \in 1..Len(record), record[i].type = "compensation_workflow_started"
       PROVE  \E m \in 1..N : i = 3 * m
  <2>1. i - 1 \in 1..(3 * N) /\ StepCompensation[1 + ((i - 2) % 3)] = "compensation_workflow_started"
    <3>1. i # 1 /\ i # 3 * N + 2
      BY <1>8, <1>10, <1>13
    <3>2. i - 1 \in 1..(3 * N) /\ record[i] = middle[i - 1]
      BY <1>11, <3>1
    <3>3. middle[i - 1].type = StepCompensation[1 + (((i - 1) - 1) % 3)]
      BY <1>6, <3>2
    <3>4. (i - 1) - 1 = i - 2
      BY <1>10
    <3> QED  BY <1>13, <3>2, <3>3, <3>4
  <2>2. 1 + ((i - 2) % 3) = 2
    <3>1. 1 + ((i - 2) % 3) \in 1..3
      BY <1>10, <2>1
    <3>2. StepCompensation[1] # "compensation_workflow_started" /\ StepCompensation[3] # "compensation_workflow_started"
      BY DEF StepCompensation
    <3> QED  BY <2>1, <3>1, <3>2
  <2>3. (i \div 3) \in 1..N /\ i = 3 * (i \div 3)
    <3>1. i \in Nat /\ 2 <= i /\ i <= 3 * N + 1 /\ (i - 2) % 3 = 1
      BY <1>1, <1>10, <2>1, <2>2
    <3> QED  BY <1>1, <3>1
  <2> QED  BY <2>3
<1>14. ASSUME NEW m \in 1..N
       PROVE  record[3 * m].type = "compensation_workflow_started" /\ record[3 * m].step = h[ordered[m]].step
  <2> DEFINE k == 3 * m - 1
  <2>1. /\ k \in 1..(3 * N) /\ k + 1 = 3 * m
        /\ 1 + ((k - 1) % 3) = 2 /\ 1 + ((k - 1) \div 3) = m
    BY <1>1
  <2> HIDE DEF k
  <2>2. record[3 * m] = middle[k]
    BY <1>10, <2>1
  <2>3. middle[k].type = StepCompensation[2] /\ middle[k].step = h[ordered[m]].step
    BY <1>6, <2>1
  <2> QED  BY <2>2, <2>3 DEF StepCompensation
<1> QED  BY <1>8, <1>10, <1>12, <1>13, <1>14 DEF record, N

\* What the runtime makes of a history h when it ends the run: the terminal event,
\* and the compensation of the completed steps when it is due.
Ending(w, h, status, at, e) ==
    /\ e \in Seq(Events) /\ Len(h) < Len(e)
    /\ \A i \in 1..Len(h) : e[i] = h[i]
    /\ e[Len(h) + 1] = Event(TerminalEvent[status], at, NoStep)
    /\ \A i \in 1..Len(e) : i > Len(h) + 1 =>
          e[i].type \in CompensationEvents /\ e[i].at = at /\ CompensationDue(w, status, h)
    /\ CompensationDue(w, status, h) =>
          Len(h) + 1 < Len(e) /\ e[Len(e)].type = "compensation_completed"

\* Its compensations, one for each completed step in the order given.
Compensating(h, ordered, e) ==
    /\ \A i \in 1..Len(e) : i > Len(h) + 1 /\ e[i].type = "compensation_workflow_started" =>
          \E m \in 1..Len(ordered) : i = Len(h) + 1 + 3 * m
    /\ \A m \in 1..Len(ordered) :
          /\ Len(h) + 1 + 3 * m \in 1..Len(e)
          /\ e[Len(h) + 1 + 3 * m].type = "compensation_workflow_started"
          /\ e[Len(h) + 1 + 3 * m].step = h[ordered[m]].step

LEMMA EndedShape ==
    ASSUME NEW w \in Workflows, history[w] \in Seq(Events),
           NEW status \in TerminalStatuses, NEW at \in Times
    PROVE  LET h == history[w]
               e == EndedHistory(w, status, at)
           IN  /\ Ending(w, h, status, at, e)
               /\ CompensationDue(w, status, h) => Compensating(h, SortedNewestFirst(h, Compensable(w, h)), e)
<1> DEFINE h == history[w]
           e == EndedHistory(w, status, at)
           terminal == Event(TerminalEvent[status], at, NoStep)
           closed == Append(h, terminal)
           due == Compensable(w, h)
           ordered == SortedNewestFirst(h, due)
           record == CompensationRecord(h, ordered, at)
           N == Len(ordered)
<1>1. terminal \in Events
  BY EventNames DEF Event, Events
<1>2. /\ closed \in Seq(Events) /\ Len(closed) = Len(h) + 1 /\ closed[Len(h) + 1] = terminal
      /\ \A i \in 1..Len(h) : closed[i] = h[i]
  BY <1>1, AppendProperties
<1>3. due \in SUBSET DOMAIN h
  BY DEF Compensable
<1>4. ordered \in Seq(due) /\ N \in Nat
  BY <1>3, SortedIsPermutation
<1>5. ordered \in Seq(DOMAIN h)
  <2>1. \A n \in 1..N : ordered[n] \in due
    BY <1>4
  <2> HIDE DEF ordered, due, h, e, record, closed
  <2> QED  BY <1>3, <1>4
<1>6. /\ record \in Seq(Events)
      /\ Len(record) = 3 * N + 2
      /\ record[3 * N + 2].type = "compensation_completed"
      /\ \A i \in 1..Len(record) : record[i].type \in CompensationEvents /\ record[i].at = at
      /\ \A i \in 1..Len(record) :
             record[i].type = "compensation_workflow_started" => \E m \in 1..N : i = 3 * m
      /\ \A m \in 1..N : /\ record[3 * m].type = "compensation_workflow_started"
                         /\ record[3 * m].step = h[ordered[m]].step
  BY <1>5, RecordShape
<1>7. Len(h) \in Nat
  OBVIOUS
<1>8. CASE ~CompensationDue(w, status, h)
  <2>1. e = closed \o <<>>
    BY <1>8 DEF EndedHistory
  <2>2. e = closed
    BY <1>2, <2>1
  <2> HIDE DEF e, h, closed, terminal
  <2>3. Ending(w, h, status, at, e)
    BY <1>2, <1>7, <1>8, <2>2 DEF Ending, terminal
  <2> QED  BY <1>8, <2>3 DEF e, h
<1>9. CASE CompensationDue(w, status, h)
  <2>1. e = closed \o record
    BY <1>9 DEF EndedHistory
  <2> HIDE DEF e, h, closed, terminal, record, ordered, due, N
  <2>2. /\ closed \o record \in Seq(Events)
        /\ Len(closed \o record) = Len(closed) + Len(record)
        /\ \A i \in 1..Len(closed) : (closed \o record)[i] = closed[i]
        /\ \A i \in 1..Len(record) : (closed \o record)[Len(closed) + i] = record[i]
    BY <1>2, <1>6, Joined
  <2>3. /\ e \in Seq(Events) /\ Len(e) = Len(h) + 1 + (3 * N + 2)
        /\ \A i \in 1..(Len(h) + 1) : e[i] = closed[i]
        /\ \A i \in 1..(3 * N + 2) : e[Len(h) + 1 + i] = record[i]
    BY <1>2, <1>6, <1>7, <2>1, <2>2
  <2>4. ASSUME NEW i \in 1..Len(e), i > Len(h) + 1
        PROVE  i - (Len(h) + 1) \in 1..(3 * N + 2) /\ e[i] = record[i - (Len(h) + 1)]
    <3>1. i - (Len(h) + 1) \in 1..(3 * N + 2)
      BY <1>4, <1>7, <2>3, <2>4
    <3>2. e[Len(h) + 1 + (i - (Len(h) + 1))] = record[i - (Len(h) + 1)]
      BY <2>3, <3>1
    <3>3. Len(h) + 1 + (i - (Len(h) + 1)) = i
      BY <1>7
    <3> QED  BY <3>1, <3>2, <3>3
  <2>5. e[Len(e)] = record[3 * N + 2] /\ Len(h) + 1 < Len(e)
    <3>1. 3 * N + 2 \in 1..(3 * N + 2) /\ Len(h) + 1 < Len(e)
      BY <1>4, <1>7, <2>3
    <3>2. e[Len(h) + 1 + (3 * N + 2)] = record[3 * N + 2]
      BY <2>3, <3>1
    <3> QED  BY <2>3, <3>1, <3>2
  <2>6. Ending(w, h, status, at, e)
    <3>1. \A i \in 1..Len(h) : e[i] = h[i]
      BY <1>2, <1>7, <2>3
    <3>2. e[Len(h) + 1] = terminal
      BY <1>2, <1>7, <2>3
    <3>3. \A i \in 1..Len(e) : i > Len(h) + 1 => e[i].type \in CompensationEvents /\ e[i].at = at
      BY <1>6, <2>4
    <3> QED  BY <1>6, <1>7, <1>9, <2>3, <2>5, <3>1, <3>2, <3>3 DEF Ending, terminal
  <2>7. ASSUME NEW i \in 1..Len(e), i > Len(h) + 1, e[i].type = "compensation_workflow_started"
        PROVE  \E m \in 1..N : i = Len(h) + 1 + 3 * m
    <3>1. PICK m \in 1..N : i - (Len(h) + 1) = 3 * m
      BY <1>6, <2>4, <2>7
    <3> QED  BY <1>4, <1>7, <3>1
  <2>8. ASSUME NEW m \in 1..N
        PROVE  /\ Len(h) + 1 + 3 * m \in 1..Len(e)
               /\ e[Len(h) + 1 + 3 * m].type = "compensation_workflow_started"
               /\ e[Len(h) + 1 + 3 * m].step = h[ordered[m]].step
    <3>1. 3 * m \in 1..(3 * N + 2) /\ Len(h) + 1 + 3 * m \in 1..Len(e)
      BY <1>4, <1>7, <2>3
    <3>2. e[Len(h) + 1 + 3 * m] = record[3 * m]
      BY <2>3, <3>1
    <3> QED  BY <1>6, <3>1, <3>2
  <2>9. Compensating(h, ordered, e)
    BY <2>7, <2>8 DEF Compensating, N
  <2> QED  BY <2>6, <2>9 DEF e, h, ordered, due
<1> QED  BY <1>8, <1>9

-----------------------------------------------------------------------------
(* What a step does to one workflow                                         *)

Kept(w) == results'[w] = results[w] /\ history'[w] = history[w]

Gone(w) == results'[w] = Absent /\ history'[w] = <<>>

NewRun(w) ==
    \E run \in Runs, status \in ActiveStatuses :
        /\ results'[w] = [status |-> status, run |-> run, started |-> clock, updated |-> clock,
                          compensation |-> "not_required", done |-> {}]
        /\ history'[w] = <<Event("workflow_started", clock, NoStep)>>

Begins(w) ==
    /\ results[w].status = "pending"
    /\ results'[w] = [results[w] EXCEPT !.status = "running", !.updated = clock]
    /\ history'[w] = history[w]

StepEnds(w) ==
    \E s \in Steps, type \in {"step_completed", "step_failed"}, recorded \in {TRUE, ~Unrecorded} :
        /\ IsRunning(w)
        /\ results'[w] = [results[w] EXCEPT !.updated = clock,
                             !.done = IF type = "step_completed" THEN @ \cup {s} ELSE @]
        /\ history'[w] = IF recorded THEN Append(history[w], Event(type, clock, s)) ELSE history[w]

RunEnds(w) ==
    \E status \in {"succeeded", "failed"},
       comp \in {<<>>, <<Event("compensation_started", clock, NoStep),
                         Event("compensation_completed", clock, NoStep)>>} :
        /\ IsRunning(w)
        /\ results'[w] = [results[w] EXCEPT !.status = status, !.updated = clock,
                             !.compensation = IF comp = <<>> THEN "not_required" ELSE "succeeded"]
        /\ history'[w] = Append(history[w], Event(TerminalEvent[status], clock, NoStep)) \o comp

\* The runtime ends the run: an operator's cancellation, or a timeout whose instant
\* is not before what is persisted of the run.
Ended(w) ==
    \E status \in {"cancelled", "timed_out"}, at \in Times :
        /\ Present(w) /\ ~IsTerminal(results[w])
        /\ results'[w] = EndedState(w, status, at)
        /\ history'[w] = EndedHistory(w, status, at)
        /\ status = "cancelled" => at \in UtcNow
        /\ status = "timed_out" => results[w].updated <= at

Reported(w) ==
    /\ NewRun(w) \/ Begins(w) \/ StepEnds(w) \/ RunEnds(w)
    /\ ResultContract(w, results'[w], history'[w])

LEMMA StepKinds ==
    ASSUME TypeOK, [Next]_vars, NEW w \in Workflows
    PROVE  /\ Kept(w) \/ Gone(w) \/ Reported(w) \/ Ended(w)
           /\ clock' \in {clock, clock + 1} /\ clock' \in Times
           /\ results' = [v \in Workflows |-> results'[v]]
           /\ history' = [v \in Workflows |-> history'[v]]
<1>1. /\ results = [v \in Workflows |-> results[v]] /\ history = [v \in Workflows |-> history[v]]
      /\ clock \in Times /\ clock \in Nat /\ MaxTime \in Nat
  BY LimitsAssumption DEF TypeOK, Times
<1> DEFINE Goal == /\ Kept(w) \/ Gone(w) \/ Reported(w) \/ Ended(w)
                   /\ clock' \in {clock, clock + 1} /\ clock' \in Times
                   /\ results' = [v \in Workflows |-> results'[v]]
                   /\ history' = [v \in Workflows |-> history'[v]]
<1>2. CASE UNCHANGED vars
  BY <1>1, <1>2 DEF vars, Kept
<1>3. CASE Tick
  BY <1>1, <1>3 DEF Tick, Kept, Times
<1>4. ASSUME NEW v \in Workflows, NEW r, NEW h, Update(v, r, h), UNCHANGED clock
      PROVE  /\ results'[v] = r /\ history'[v] = h
             /\ v # w => Kept(w)
             /\ clock' \in {clock, clock + 1} /\ clock' \in Times
             /\ results' = [u \in Workflows |-> results'[u]]
             /\ history' = [u \in Workflows |-> history'[u]]
  BY <1>1, <1>4 DEF Update, Kept
<1>5. ASSUME NEW v \in Workflows, NEW run \in Runs, NEW status \in ActiveStatuses, Start(v, run, status)
      PROVE  Goal
  <2> DEFINE r == [status |-> status, run |-> run, started |-> clock, updated |-> clock,
                   compensation |-> "not_required", done |-> {}]
             h == <<Event("workflow_started", clock, NoStep)>>
  <2>1. Update(v, r, h) /\ UNCHANGED clock /\ ResultContract(v, r, h)
    BY <1>5 DEF Start, BackendReports
  <2>2. results'[v] = r /\ history'[v] = h
    BY <1>4, <2>1
  <2>3. v = w => Reported(w)
    BY <2>1, <2>2 DEF Reported, NewRun
  <2> QED  BY <1>4, <2>1, <2>3
<1>6. ASSUME NEW v \in Workflows, Begin(v)
      PROVE  Goal
  <2> DEFINE r == [results[v] EXCEPT !.status = "running", !.updated = clock]
             h == history[v]
  <2>1. Update(v, r, h) /\ UNCHANGED clock /\ ResultContract(v, r, h) /\ results[v].status = "pending"
    BY <1>6 DEF Begin, BackendReports
  <2>2. results'[v] = r /\ history'[v] = h
    BY <1>4, <2>1
  <2>3. v = w => Reported(w)
    BY <2>1, <2>2 DEF Reported, Begins
  <2> QED  BY <1>4, <2>1, <2>3
<1>7. ASSUME NEW v \in Workflows, Delete(v)
      PROVE  Goal
  <2>1. Update(v, Absent, <<>>) /\ UNCHANGED clock
    BY <1>7 DEF Delete
  <2>2. v = w => Gone(w)
    BY <1>4, <2>1 DEF Gone
  <2> QED  BY <1>4, <2>1, <2>2
<1>8. ASSUME NEW v \in Workflows, NEW s \in Steps, NEW type \in {"step_completed", "step_failed"},
             EndStep(v, s, type)
      PROVE  Goal
  <2>1. PICK recorded \in {TRUE, ~Unrecorded} :
           BackendReports(v,
             [results[v] EXCEPT !.updated = clock,
                                !.done = IF type = "step_completed" THEN @ \cup {s} ELSE @],
             IF recorded THEN Append(history[v], Event(type, clock, s)) ELSE history[v])
    BY <1>8 DEF EndStep
  <2> DEFINE r == [results[v] EXCEPT !.updated = clock,
                                     !.done = IF type = "step_completed" THEN @ \cup {s} ELSE @]
             h == IF recorded THEN Append(history[v], Event(type, clock, s)) ELSE history[v]
  <2>2. Update(v, r, h) /\ UNCHANGED clock /\ ResultContract(v, r, h) /\ IsRunning(v)
    BY <1>8, <2>1 DEF EndStep, BackendReports
  <2>3. results'[v] = r /\ history'[v] = h
    BY <1>4, <2>2
  <2>4. v = w => Reported(w)
    BY <2>2, <2>3 DEF Reported, StepEnds
  <2> QED  BY <1>4, <2>2, <2>4
<1>9. ASSUME NEW v \in Workflows, NEW status \in {"succeeded", "failed"}, EndRun(v, status)
      PROVE  Goal
  <2>1. PICK comp \in {<<>>, <<Event("compensation_started", clock, NoStep),
                              Event("compensation_completed", clock, NoStep)>>} :
           BackendReports(v,
             [results[v] EXCEPT !.status = status, !.updated = clock,
                !.compensation = IF comp = <<>> THEN "not_required" ELSE "succeeded"],
             Append(history[v], Event(TerminalEvent[status], clock, NoStep)) \o comp)
    BY <1>9 DEF EndRun
  <2> DEFINE r == [results[v] EXCEPT !.status = status, !.updated = clock,
                      !.compensation = IF comp = <<>> THEN "not_required" ELSE "succeeded"]
             h == Append(history[v], Event(TerminalEvent[status], clock, NoStep)) \o comp
  <2>2. Update(v, r, h) /\ UNCHANGED clock /\ ResultContract(v, r, h) /\ IsRunning(v)
    BY <1>9, <2>1 DEF EndRun, BackendReports
  <2>3. results'[v] = r /\ history'[v] = h
    BY <1>4, <2>2
  <2>4. v = w => Reported(w)
    BY <2>2, <2>3 DEF Reported, RunEnds
  <2> QED  BY <1>4, <2>2, <2>4
<1>10. ASSUME NEW v \in Workflows, NEW run \in Runs \cup {AnyRun}, Cancel(v, run)
       PROVE  Goal
  <2>1. PICK at \in UtcNow :
           Update(v, EndedState(v, "cancelled", at), EndedHistory(v, "cancelled", at))
    BY <1>10 DEF Cancel
  <2>2. at \in Times
    BY <1>1 DEF UtcNow, Times
  <2>3. UNCHANGED clock /\ Present(v) /\ ~IsTerminal(results[v])
    BY <1>10 DEF Cancel
  <2>4. results'[v] = EndedState(v, "cancelled", at) /\ history'[v] = EndedHistory(v, "cancelled", at)
    BY <1>4, <2>1, <2>3
  <2>5. v = w => Ended(w)
    BY <2>2, <2>3, <2>4 DEF Ended
  <2> QED  BY <1>4, <2>1, <2>3, <2>5
<1>11. ASSUME NEW now \in Times, Reconcile(now)
       PROVE  Goal
  <2>1. /\ results' = [u \in Workflows |-> IF u \in Overdue(now) THEN EndedState(u, "timed_out", now)
                                                                 ELSE results[u]]
        /\ history' = [u \in Workflows |-> IF u \in Overdue(now) THEN EndedHistory(u, "timed_out", now)
                                                                 ELSE history[u]]
        /\ UNCHANGED clock
    BY <1>11 DEF Reconcile
  <2>2. w \notin Overdue(now) => Kept(w)
    BY <2>1 DEF Kept
  <2>3. ASSUME w \in Overdue(now)  PROVE  Ended(w)
    <3>1. IsRunning(w) /\ results[w].updated <= now
      BY <1>11, <2>3 DEF Reconcile, ClockAdmitted, Overdue, Eligible
    <3>2. Present(w) /\ ~IsTerminal(results[w])
      BY <3>1 DEF IsRunning, Present, IsTerminal, TerminalStatuses
    <3> QED  BY <2>1, <2>3, <3>1, <3>2 DEF Ended
  <2>4. DOMAIN results' = Workflows /\ DOMAIN history' = Workflows
    BY <2>1
  <2> QED  BY <1>1, <2>1, <2>2, <2>3, <2>4
<1> HIDE DEF Goal
<1>12. Goal
  BY <1>2, <1>3, <1>5, <1>6, <1>7, <1>8, <1>9, <1>10, <1>11 DEF Goal, Next
<1> QED  BY <1>12 DEF Goal

-----------------------------------------------------------------------------
(* Type correctness                                                         *)

\* A workflow that is present, running or pending has a result of the right form.
LEMMA PresentTypes ==
    ASSUME TypeOK, NEW w \in Workflows
    PROVE  /\ history[w] \in Seq(Events)
           /\ Present(w) => results[w] \in States
           /\ ~Present(w) => results[w] = Absent
           /\ results[w].status \in ActiveStatuses <=> Present(w) /\ ~IsTerminal(results[w])
           /\ IsRunning(w) => results[w].status \in ActiveStatuses
BY DEF TypeOK, Present, States, Absent, IsTerminal, IsRunning, ActiveStatuses, TerminalStatuses

\* The histories a backend reports.
LEMMA ReportedHistory ==
    ASSUME TypeOK, NEW w \in Workflows
    PROVE  /\ NewRun(w) => history'[w] \in Seq(Events) /\ Len(history'[w]) = 1
                            /\ history'[w][1] = Event("workflow_started", clock, NoStep)
           /\ \A e \in Events : /\ Append(history[w], e) \in Seq(Events)
                                /\ Len(Append(history[w], e)) = Len(history[w]) + 1
                                /\ Append(history[w], e)[Len(history[w]) + 1] = e
                                /\ \A i \in 1..Len(history[w]) : Append(history[w], e)[i] = history[w][i]
           /\ \A s \in Steps, type \in {"step_completed", "step_failed"} : Event(type, clock, s) \in Events
           /\ \A status \in TerminalStatuses : Event(TerminalEvent[status], clock, NoStep) \in Events
           /\ Event("compensation_started", clock, NoStep) \in Events
           /\ Event("compensation_completed", clock, NoStep) \in Events
<1>1. history[w] \in Seq(Events) /\ clock \in Times
  BY DEF TypeOK
<1>2. \A type \in EventTypes, s \in Steps \cup {NoStep} : Event(type, clock, s) \in Events
  BY <1>1 DEF Event, Events
<1>3. /\ "workflow_started" \in EventTypes /\ {"step_completed", "step_failed"} \subseteq EventTypes
      /\ "compensation_started" \in EventTypes /\ "compensation_completed" \in EventTypes
      /\ \A status \in TerminalStatuses : TerminalEvent[status] \in EventTypes
  BY EventNames DEF EventTypes, CompensationEvents
<1>4. Event("workflow_started", clock, NoStep) \in Events
  BY <1>2, <1>3
<1>5. NewRun(w) => history'[w] \in Seq(Events) /\ Len(history'[w]) = 1
                    /\ history'[w][1] = Event("workflow_started", clock, NoStep)
  BY <1>4 DEF NewRun
<1>6. \A e \in Events : /\ Append(history[w], e) \in Seq(Events)
                        /\ Len(Append(history[w], e)) = Len(history[w]) + 1
                        /\ Append(history[w], e)[Len(history[w]) + 1] = e
                        /\ \A i \in 1..Len(history[w]) : Append(history[w], e)[i] = history[w][i]
  BY <1>1, AppendProperties
<1> QED  BY <1>2, <1>3, <1>5, <1>6

LEMMA InitialTypes == Init => TypeOK
<1> SUFFICES ASSUME Init PROVE TypeOK
  OBVIOUS
<1>1. <<>> \in Seq(Events)
  OBVIOUS
<1>2. clock \in Times
  BY LimitsAssumption DEF Init, Times
<1> QED  BY <1>1, <1>2 DEF Init, TypeOK

\* The end of a run in numbers: a backend's own ending.
LEMMA RunEndsShape ==
    ASSUME TypeOK, NEW w \in Workflows, RunEnds(w)
    PROVE  /\ results'[w] \in States /\ results'[w].status \in {"succeeded", "failed"}
           /\ history'[w] \in Seq(Events) /\ Len(history[w]) < Len(history'[w])
           /\ \A i \in 1..Len(history[w]) : history'[w][i] = history[w][i]
           /\ history'[w][Len(history[w]) + 1].type = TerminalEvent[results'[w].status]
           /\ \A i \in 1..Len(history'[w]) :
                 i > Len(history[w]) + 1 => history'[w][i].type \in CompensationEvents
<1> DEFINE h == history[w]
<1>1. PICK status \in {"succeeded", "failed"},
           comp \in {<<>>, <<Event("compensation_started", clock, NoStep),
                             Event("compensation_completed", clock, NoStep)>>} :
        /\ IsRunning(w)
        /\ results'[w] = [results[w] EXCEPT !.status = status, !.updated = clock,
                             !.compensation = IF comp = <<>> THEN "not_required" ELSE "succeeded"]
        /\ history'[w] = Append(history[w], Event(TerminalEvent[status], clock, NoStep)) \o comp
  BY DEF RunEnds
<1> DEFINE terminal == Event(TerminalEvent[status], clock, NoStep)
           closed == Append(h, terminal)
<1>2. results[w] \in States
  BY <1>1, PresentTypes
<1>3. results'[w] \in States /\ results'[w].status = status
  BY <1>1, <1>2 DEF States, TypeOK, TerminalStatuses
<1>4. terminal \in Events /\ status \in TerminalStatuses
  BY ReportedHistory DEF TerminalStatuses
<1>5. /\ closed \in Seq(Events) /\ Len(closed) = Len(h) + 1 /\ closed[Len(h) + 1] = terminal
      /\ \A i \in 1..Len(h) : closed[i] = h[i]
  BY <1>4, ReportedHistory
<1>6. comp \in Seq(Events) /\ \A i \in 1..Len(comp) : comp[i].type \in CompensationEvents
  <2> DEFINE opened == Event("compensation_started", clock, NoStep)
             completed == Event("compensation_completed", clock, NoStep)
  <2>1. opened \in Events /\ completed \in Events
    BY ReportedHistory
  <2>2. opened.type \in CompensationEvents /\ completed.type \in CompensationEvents
    BY DEF CompensationEvents, Event
  <2>3. comp = <<>> \/ comp = <<opened, completed>>
    OBVIOUS
  <2> HIDE DEF opened, completed
  <2>4. CASE comp = <<>>
    BY <2>4
  <2>5. CASE comp = <<opened, completed>>
    BY <2>1, <2>2, <2>5
  <2> QED  BY <2>3, <2>4, <2>5
<1>7. history'[w] = closed \o comp /\ Len(h) \in Nat /\ Len(comp) \in Nat
  BY <1>1, <1>6, PresentTypes
<1> HIDE DEF closed, h
<1>8. /\ closed \o comp \in Seq(Events) /\ Len(closed \o comp) = Len(closed) + Len(comp)
      /\ \A i \in 1..Len(closed) : (closed \o comp)[i] = closed[i]
      /\ \A i \in 1..Len(comp) : (closed \o comp)[Len(closed) + i] = comp[i]
  BY <1>5, <1>6, Joined
<1>9. /\ history'[w] \in Seq(Events) /\ Len(history'[w]) = Len(h) + 1 + Len(comp)
      /\ \A i \in 1..(Len(h) + 1) : history'[w][i] = closed[i]
      /\ \A i \in 1..Len(comp) : history'[w][Len(h) + 1 + i] = comp[i]
  BY <1>5, <1>7, <1>8
<1>10. ASSUME NEW i \in 1..Len(history'[w]), i > Len(h) + 1
       PROVE  history'[w][i].type \in CompensationEvents
  <2>1. i - (Len(h) + 1) \in 1..Len(comp) /\ Len(h) + 1 + (i - (Len(h) + 1)) = i
    BY <1>7, <1>9, <1>10
  <2>2. history'[w][Len(h) + 1 + (i - (Len(h) + 1))] = comp[i - (Len(h) + 1)]
    BY <1>9, <2>1
  <2> QED  BY <1>6, <2>1, <2>2
<1>11. history'[w][Len(h) + 1] = terminal /\ \A i \in 1..Len(h) : history'[w][i] = h[i]
  BY <1>5, <1>7, <1>9
<1>12. terminal.type = TerminalEvent[status]
  BY DEF Event
<1>13. Len(h) < Len(history'[w])
  BY <1>7, <1>9
<1>14. history'[w][Len(h) + 1].type = TerminalEvent[results'[w].status]
  BY <1>3, <1>11, <1>12
<1>15. \A i \in 1..Len(history'[w]) : i > Len(h) + 1 => history'[w][i].type \in CompensationEvents
  BY <1>10
<1>16. history'[w] \in Seq(Events) /\ \A i \in 1..Len(h) : history'[w][i] = h[i]
  BY <1>9, <1>11
<1> HIDE DEF terminal
<1> QED  BY Zenon, <1>3, <1>13, <1>14, <1>15, <1>16 DEF h

\* What the runtime leaves a run it ended with.
LEMMA EndedResult ==
    ASSUME TypeOK, NEW w \in Workflows, Ended(w)
    PROVE  \E status \in {"cancelled", "timed_out"}, at \in Times :
              /\ Present(w) /\ ~IsTerminal(results[w])
              /\ results'[w] \in States
              /\ results'[w].status = status /\ results'[w].done = results[w].done
              /\ results'[w].updated = at
              /\ results'[w].compensation =
                    IF CompensationDue(w, status, history[w]) THEN "succeeded" ELSE "not_required"
              /\ Ending(w, history[w], status, at, history'[w])
              /\ CompensationDue(w, status, history[w]) =>
                    Compensating(history[w], SortedNewestFirst(history[w], Compensable(w, history[w])), history'[w])
              /\ status = "cancelled" => at \in UtcNow
              /\ status = "timed_out" => results[w].updated <= at
<1>1. PICK status \in {"cancelled", "timed_out"}, at \in Times :
        /\ Present(w) /\ ~IsTerminal(results[w])
        /\ results'[w] = EndedState(w, status, at)
        /\ history'[w] = EndedHistory(w, status, at)
        /\ status = "cancelled" => at \in UtcNow
        /\ status = "timed_out" => results[w].updated <= at
  BY DEF Ended
<1>2. results[w] \in States /\ history[w] \in Seq(Events) /\ status \in TerminalStatuses
  BY <1>1, PresentTypes DEF TerminalStatuses
<1>3. /\ results'[w] \in States
      /\ results'[w].status = status /\ results'[w].done = results[w].done
      /\ results'[w].updated = at
      /\ results'[w].compensation =
            IF CompensationDue(w, status, history[w]) THEN "succeeded" ELSE "not_required"
  BY <1>1, <1>2 DEF EndedState, States
<1>4. /\ Ending(w, history[w], status, at, history'[w])
      /\ CompensationDue(w, status, history[w]) =>
            Compensating(history[w], SortedNewestFirst(history[w], Compensable(w, history[w])), history'[w])
  BY <1>1, <1>2, EndedShape
<1> QED  BY <1>1, <1>3, <1>4

LEMMA StepKeepsTypes == TypeOK /\ [Next]_vars => TypeOK'
<1> SUFFICES ASSUME TypeOK, [Next]_vars PROVE TypeOK'
  OBVIOUS
<1>1. ASSUME NEW w \in Workflows
      PROVE  results'[w] \in States \cup {Absent} /\ history'[w] \in Seq(Events)
  <2>1. CASE Kept(w)
    BY <2>1 DEF Kept, TypeOK
  <2>2. CASE Gone(w)
    BY <2>2 DEF Gone
  <2>3. CASE NewRun(w)
    <3>1. clock \in Times
      BY DEF TypeOK
    <3>2. results'[w] \in States
      BY <2>3, <3>1 DEF NewRun, States
    <3> QED  BY <2>3, <3>2, ReportedHistory
  <2>4. CASE Begins(w)
    <3>1. results[w] \in States /\ clock \in Times
      BY <2>4, PresentTypes DEF Begins, TypeOK, ActiveStatuses
    <3> QED  BY <2>4, <3>1, PresentTypes DEF Begins, States, ActiveStatuses
  <2>5. CASE StepEnds(w)
    <3>1. PICK s \in Steps, type \in {"step_completed", "step_failed"}, recorded \in {TRUE, ~Unrecorded} :
            /\ IsRunning(w)
            /\ results'[w] = [results[w] EXCEPT !.updated = clock,
                                 !.done = IF type = "step_completed" THEN @ \cup {s} ELSE @]
            /\ history'[w] = IF recorded THEN Append(history[w], Event(type, clock, s)) ELSE history[w]
      BY <2>5 DEF StepEnds
    <3>2. results[w] \in States /\ clock \in Times
      BY <3>1, PresentTypes DEF TypeOK
    <3>3. results'[w] \in States
      <4> DEFINE done == IF type = "step_completed" THEN results[w].done \cup {s} ELSE results[w].done
      <4>1. done \in SUBSET Steps
        BY <3>2 DEF States
      <4>2. results'[w] = [results[w] EXCEPT !.updated = clock, !.done = done]
        BY <3>1
      <4> HIDE DEF done
      <4> QED  BY <3>2, <4>1, <4>2 DEF States
    <3>4. history'[w] \in Seq(Events)
      BY <3>1, ReportedHistory, PresentTypes
    <3> QED  BY <3>3, <3>4
  <2>6. CASE RunEnds(w)
    BY <2>6, RunEndsShape
  <2>7. CASE Ended(w)
    BY <2>7, EndedResult DEF Ending
  <2> QED  BY <2>1, <2>2, <2>3, <2>4, <2>5, <2>6, <2>7, StepKinds DEF Reported
<1>2. CASE Workflows = {}
  <2>1. Next => Tick \/ \E now \in Times : Reconcile(now)
    BY <1>2 DEF Next
  <2>2. clock' \in Times
    BY <2>1, LimitsAssumption DEF Tick, Reconcile, Times, TypeOK, vars
  <2>4. \A now \in Times : ~Reconcile(now)
    BY <1>2 DEF Reconcile, Overdue, Eligible
  <2>5. results' = results /\ history' = history
    BY <2>1, <2>4 DEF Tick, vars
  <2> QED  BY <2>2, <2>5 DEF TypeOK
<1>3. CASE Workflows # {}
  <2>1. /\ clock' \in Times
        /\ results' = [v \in Workflows |-> results'[v]]
        /\ history' = [v \in Workflows |-> history'[v]]
    BY <1>3, StepKinds
  <2>2. results' \in [Workflows -> States \cup {Absent}]
    BY <1>1, <2>1
  <2>3. history' \in [Workflows -> Seq(Events)]
    BY <1>1, <2>1
  <2> QED  BY <2>1, <2>2, <2>3 DEF TypeOK
<1> QED  BY <1>2, <1>3

-----------------------------------------------------------------------------
(* The histories: Begun, OpenHistory and EndedOnce                          *)

OpenEvents == {"workflow_started", "step_completed", "step_failed"}

\* The run stays open, with a history that goes on, or it is closed by one
\* terminal event that only compensation follows.
StaysOpen(w) ==
    /\ results'[w] \in States /\ results'[w].status \in ActiveStatuses
    /\ history'[w] # <<>> /\ history'[w][1].type = "workflow_started"
    /\ \A i \in 1..Len(history'[w]) : history'[w][i].type \in OpenEvents

Closes(w) ==
    /\ results[w].status \in ActiveStatuses
    /\ results'[w] \in States /\ results'[w].status \in TerminalStatuses
    /\ Len(history[w]) < Len(history'[w])
    /\ \A i \in 1..Len(history[w]) : history'[w][i] = history[w][i]
    /\ history'[w][Len(history[w]) + 1].type = TerminalEvent[results'[w].status]
    /\ \A i \in 1..Len(history'[w]) : i > Len(history[w]) + 1 => history'[w][i].type \in CompensationEvents

LEMMA OpenOrClosed ==
    ASSUME TypeOK, Begun, OpenHistory, [Next]_vars, NEW w \in Workflows
    PROVE  Kept(w) \/ Gone(w) \/ StaysOpen(w) \/ Closes(w)
<1>1. TypeOK'
  BY StepKeepsTypes
<1>2. history'[w] \in Seq(Events) /\ history[w] \in Seq(Events) /\ Len(history[w]) \in Nat
  BY <1>1 DEF TypeOK
<1>3. results[w].status \in ActiveStatuses =>
         /\ history[w] # <<>> /\ history[w][1].type = "workflow_started"
         /\ \A i \in 1..Len(history[w]) : history[w][i].type \in OpenEvents
  BY <1>2, PresentTypes DEF Begun, OpenHistory, OpenEvents
<1>4. CASE NewRun(w)
  <2>1. results'[w] \in States /\ results'[w].status \in ActiveStatuses
    BY <1>4 DEF NewRun, States, TypeOK
  <2>2. /\ Len(history'[w]) = 1 /\ history'[w][1].type = "workflow_started"
    BY <1>4, ReportedHistory DEF Event
  <2> QED  BY <1>2, <2>1, <2>2 DEF StaysOpen, OpenEvents
<1>5. CASE Begins(w)
  <2>1. results[w].status \in ActiveStatuses
    BY <1>5 DEF Begins, ActiveStatuses
  <2>2. results'[w] \in States /\ results'[w].status \in ActiveStatuses
    BY <1>5, <2>1, PresentTypes DEF Begins, States, TypeOK, ActiveStatuses
  <2> QED  BY <1>3, <1>5, <2>1, <2>2 DEF StaysOpen, Begins
<1>6. CASE StepEnds(w)
  <2>1. PICK s \in Steps, type \in {"step_completed", "step_failed"}, recorded \in {TRUE, ~Unrecorded} :
          /\ IsRunning(w)
          /\ results'[w] = [results[w] EXCEPT !.updated = clock,
                               !.done = IF type = "step_completed" THEN @ \cup {s} ELSE @]
          /\ history'[w] = IF recorded THEN Append(history[w], Event(type, clock, s)) ELSE history[w]
    BY <1>6 DEF StepEnds
  <2>2. results[w] \in States /\ results[w].status \in ActiveStatuses
    BY <2>1, PresentTypes
  <2>3. results'[w].status = results[w].status /\ results'[w] \in States
    <3>1. results'[w].status = results[w].status
      BY <2>1, <2>2 DEF States
    <3>2. results'[w] \in States \cup {Absent}
      BY <1>1 DEF TypeOK
    <3> QED  BY <2>2, <3>1, <3>2 DEF Absent, ActiveStatuses
  <2>4. Event(type, clock, s) \in Events /\ Event(type, clock, s).type \in OpenEvents
    BY ReportedHistory DEF Event, OpenEvents
  <2>5. CASE recorded
    <3> DEFINE e == Event(type, clock, s)
               g == Append(history[w], e)
    <3>1. /\ Len(g) = Len(history[w]) + 1 /\ g[Len(history[w]) + 1] = e
          /\ \A i \in 1..Len(history[w]) : g[i] = history[w][i]
      BY <2>4, ReportedHistory
    <3>2. history'[w] = g
      BY <2>1, <2>5
    <3>3. 1 \in 1..Len(history[w])
      BY <1>2, <1>3, <2>2
    <3> HIDE DEF e, g
    <3>4. \A i \in 1..Len(g) : i \in 1..Len(history[w]) \/ i = Len(history[w]) + 1
      BY <1>2, <3>1
    <3>5. \A i \in 1..Len(g) : g[i].type \in OpenEvents
      BY <1>3, <2>2, <2>4, <3>1, <3>4 DEF e
    <3> QED  BY <1>2, <1>3, <2>2, <2>3, <3>1, <3>2, <3>3, <3>5 DEF StaysOpen
  <2>6. CASE ~recorded
    BY <1>3, <2>1, <2>2, <2>3, <2>6 DEF StaysOpen
  <2> QED  BY <2>5, <2>6
<1>7. CASE RunEnds(w)
  <2>1. results[w].status \in ActiveStatuses
    BY <1>7, PresentTypes DEF RunEnds
  <2> QED  BY <1>7, <2>1, RunEndsShape DEF Closes, TerminalStatuses
<1>8. CASE Ended(w)
  <2>1. PICK status \in {"cancelled", "timed_out"}, at \in Times :
              /\ Present(w) /\ ~IsTerminal(results[w])
              /\ results'[w] \in States
              /\ results'[w].status = status
              /\ Ending(w, history[w], status, at, history'[w])
    BY <1>8, EndedResult
  <2>2. results[w].status \in ActiveStatuses
    BY <2>1, PresentTypes
  <2> QED  BY <2>1, <2>2 DEF Closes, Ending, Event, TerminalStatuses
<1> QED  BY <1>4, <1>5, <1>6, <1>7, <1>8, StepKinds DEF Reported

LEMMA HistoriesKept ==
    TypeOK /\ Begun /\ OpenHistory /\ EndedOnce /\ [Next]_vars => Begun' /\ OpenHistory' /\ EndedOnce'
<1> SUFFICES ASSUME TypeOK, Begun, OpenHistory, EndedOnce, [Next]_vars
             PROVE  Begun' /\ OpenHistory' /\ EndedOnce'
  OBVIOUS
<1> DEFINE Open(w)  == history'[w] # <<>> /\ history'[w][1].type = "workflow_started"
           Kinds(w) == ~(IsTerminal(results[w])') =>
                          \A i \in DOMAIN history'[w] : history'[w][i].type \in OpenEvents
           ends(w)  == Indexes(history'[w], TerminalEvents)
           Once(w)  == /\ {history'[w][i].type : i \in ends(w)} =
                             IF IsTerminal(results[w])' THEN {TerminalEvent[results'[w].status]} ELSE {}
                       /\ Cardinality(ends(w)) <= 1
<1>1. TypeOK'
  BY StepKeepsTypes
<1>2. ASSUME NEW w \in Workflows, Present(w)'
      PROVE  Open(w) /\ Kinds(w) /\ Once(w)
  <2>1. /\ history'[w] \in Seq(Events) /\ history[w] \in Seq(Events)
        /\ Len(history[w]) \in Nat /\ DOMAIN history'[w] = 1..Len(history'[w])
    BY <1>1 DEF TypeOK
  <2>2. CASE Kept(w)
    <3>1. /\ results'[w] = results[w] /\ history'[w] = history[w]
          /\ Present(w) /\ (IsTerminal(results[w])' <=> IsTerminal(results[w]))
      BY <1>2, <2>2 DEF Kept, Present, IsTerminal
    <3>2. Open(w)
      BY <3>1 DEF Begun
    <3>3. Kinds(w)
      BY <3>1 DEF OpenHistory, OpenEvents
    <3>4. Once(w)
      <4>1. /\ {history[w][i].type : i \in Indexes(history[w], TerminalEvents)}
                  = IF IsTerminal(results[w]) THEN {TerminalEvent[results[w].status]} ELSE {}
            /\ Cardinality(Indexes(history[w], TerminalEvents)) <= 1
        BY <3>1 DEF EndedOnce
      <4> QED  BY <3>1, <4>1
    <3> QED  BY <3>2, <3>3, <3>4
  <2>3. CASE Gone(w)
    BY <1>2, <2>3 DEF Gone, Present, Absent
  <2>4. CASE StaysOpen(w)
    <3>1. ~(IsTerminal(results[w])')
      BY <2>4 DEF StaysOpen, IsTerminal, ActiveStatuses, TerminalStatuses
    <3>2. ends(w) = {}
      BY <2>1, <2>4, EventNames DEF StaysOpen, Indexes, OpenEvents
    <3>3. Once(w)
      BY <3>1, <3>2, FS_EmptySet
    <3> QED  BY <2>1, <2>4, <3>3 DEF StaysOpen
  <2>5. CASE Closes(w)
    <3> DEFINE L == Len(history[w])
    <3>1. IsTerminal(results[w])' /\ results'[w].status \in TerminalStatuses
      BY <2>5 DEF Closes, IsTerminal
    <3>2. history'[w][L + 1].type = TerminalEvent[results'[w].status] /\ L + 1 \in 1..Len(history'[w])
      BY <2>1, <2>5 DEF Closes
    <3>3. ASSUME NEW i \in 1..Len(history'[w]), i # L + 1
          PROVE  history'[w][i].type \notin TerminalEvents
      <4>1. CASE i <= L
        <5>1. i \in DOMAIN history[w] /\ history'[w][i] = history[w][i]
          BY <2>1, <2>5, <4>1 DEF Closes
        <5>2. history[w][i].type \in OpenEvents
          BY <2>5, <5>1, PresentTypes DEF Closes, OpenHistory, OpenEvents
        <5> QED  BY <5>1, <5>2, EventNames DEF OpenEvents
      <4>2. CASE i > L + 1
        BY <2>5, <4>2, EventNames DEF Closes
      <4> QED  BY <2>1, <3>3, <4>1, <4>2
    <3>4. ends(w) = {L + 1}
      BY <2>1, <3>1, <3>2, <3>3, EventNames DEF Indexes
    <3>5. Once(w)
      <4>1. Cardinality(ends(w)) = 1
        BY <3>4, FS_Singleton
      <4>2. {history'[w][i].type : i \in ends(w)} = {TerminalEvent[results'[w].status]}
        <5> HIDE DEF ends
        <5> QED  BY <3>2, <3>4
      <4> HIDE DEF ends
      <4> QED  BY <3>1, <4>1, <4>2
    <3>6. Open(w)
      <4>1. history[w] # <<>> /\ history[w][1].type = "workflow_started" /\ 1 \in 1..L
        BY <2>1, <2>5, PresentTypes DEF Closes, Begun
      <4> QED  BY <2>1, <2>5, <4>1 DEF Closes
    <3> QED  BY <3>1, <3>5, <3>6
  <2> QED  BY <2>2, <2>3, <2>4, <2>5, OpenOrClosed
<1>3. Begun'
  BY <1>2 DEF Begun
<1>4. OpenHistory'
  BY <1>2 DEF OpenHistory, OpenEvents
<1>5. EndedOnce'
  BY <1>2 DEF EndedOnce
<1> QED  BY <1>3, <1>4, <1>5

-----------------------------------------------------------------------------
(* The result contract, with one clock and a backend that records every      *)
(* completion: Recorded and ContractHolds                                    *)

LEMMA RecordedKept ==
    ASSUME ~Unrecorded, TypeOK, Begun, OpenHistory, Recorded, [Next]_vars
    PROVE  Recorded'
<1> DEFINE Goal(w) ==
        /\ results'[w].updated <= clock'
        /\ \A i \in 1..Len(history'[w]) : history'[w][i].at <= results'[w].updated
        /\ \A s \in results'[w].done : \E i \in 1..Len(history'[w]) :
              history'[w][i].type = "step_completed" /\ history'[w][i].step = s
<1>1. TypeOK'
  BY StepKeepsTypes
<1>2. ASSUME NEW w \in Workflows, Present(w)', ~(IsTerminal(results[w])')
      PROVE  Goal(w)
  <2>1. /\ history[w] \in Seq(Events) /\ history'[w] \in Seq(Events) /\ Len(history[w]) \in Nat
        /\ clock \in Times /\ clock \in Nat /\ clock' \in Nat /\ clock <= clock'
    BY <1>1, StepKinds, LimitsAssumption DEF TypeOK, Times
  <2>2. results[w].status \in ActiveStatuses =>
           /\ results[w].updated \in Nat
           /\ results[w].updated <= clock
           /\ \A i \in 1..Len(history[w]) : history[w][i].at \in Nat /\ history[w][i].at <= results[w].updated
           /\ \A s \in results[w].done : \E i \in 1..Len(history[w]) :
                 history[w][i].type = "step_completed" /\ history[w][i].step = s
    <3> HAVE results[w].status \in ActiveStatuses
    <3>1. Present(w) /\ ~IsTerminal(results[w]) /\ results[w] \in States
      BY PresentTypes
    <3>2. results[w].updated \in Nat
      BY <3>1, LimitsAssumption DEF States, Times
    <3>3. \A i \in 1..Len(history[w]) : history[w][i].at \in Nat
      BY <2>1, EventTimes
    <3> QED  BY <2>1, <3>1, <3>2, <3>3 DEF Recorded
  <2>3. CASE Kept(w)
    <3>1. results[w].status \in ActiveStatuses /\ results'[w] = results[w] /\ history'[w] = history[w]
      BY <1>2, <2>3, PresentTypes DEF Kept, Present, IsTerminal
    <3>2. results[w].updated <= clock'
      BY <2>1, <2>2, <3>1
    <3> QED  BY <2>1, <2>2, <3>1, <3>2
  <2>4. CASE Gone(w)
    BY <1>2, <2>4 DEF Gone, Present, Absent
  <2>5. CASE NewRun(w)
    <3>1. results'[w].updated = clock /\ results'[w].done = {}
      BY <2>5 DEF NewRun
    <3>2. Len(history'[w]) = 1 /\ history'[w][1].at = clock
      BY <2>5, ReportedHistory DEF Event
    <3> QED  BY <2>1, <3>1, <3>2
  <2>6. CASE Begins(w)
    <3>1. /\ results[w].status \in ActiveStatuses /\ results[w] \in States
          /\ results'[w] = [results[w] EXCEPT !.status = "running", !.updated = clock]
          /\ history'[w] = history[w]
      BY <2>6, PresentTypes DEF Begins, ActiveStatuses
    <3>2. results'[w].updated = clock /\ results'[w].done = results[w].done
      BY <3>1 DEF States
    <3> QED  BY <2>1, <2>2, <3>1, <3>2
  <2>7. CASE StepEnds(w)
    <3>1. PICK s \in Steps, type \in {"step_completed", "step_failed"} :
            /\ IsRunning(w)
            /\ results'[w] = [results[w] EXCEPT !.updated = clock,
                                 !.done = IF type = "step_completed" THEN @ \cup {s} ELSE @]
            /\ history'[w] = Append(history[w], Event(type, clock, s))
      BY <2>7 DEF StepEnds
    <3> DEFINE e == Event(type, clock, s)
               L == Len(history[w])
    <3>2. /\ Len(history'[w]) = L + 1 /\ history'[w][L + 1] = e
          /\ \A i \in 1..L : history'[w][i] = history[w][i]
      BY <3>1, ReportedHistory
    <3>3. e.at = clock /\ e.type = type /\ e.step = s
      BY DEF Event
    <3>4. results[w].status \in ActiveStatuses /\ results[w] \in States
      BY <3>1, PresentTypes
    <3>5. /\ results'[w].updated = clock
          /\ results'[w].done = IF type = "step_completed" THEN results[w].done \cup {s} ELSE results[w].done
      BY <3>1, <3>4 DEF States
    <3> HIDE DEF e
    <3>6. ASSUME NEW i \in 1..Len(history'[w])  PROVE  history'[w][i].at <= clock
      <4>1. i \in 1..L \/ i = L + 1
        BY <2>1, <3>2
      <4>2. i \in 1..L => history[w][i].at <= clock
        BY <2>1, <2>2, <3>4
      <4> QED  BY <2>1, <3>2, <3>3, <4>1, <4>2
    <3>7. ASSUME NEW t \in results'[w].done
          PROVE  \E i \in 1..Len(history'[w]) :
                    history'[w][i].type = "step_completed" /\ history'[w][i].step = t
      <4>1. CASE t \in results[w].done
        <5>1. PICK i \in 1..L : history[w][i].type = "step_completed" /\ history[w][i].step = t
          BY <2>2, <3>4, <4>1
        <5>2. i \in 1..Len(history'[w])
          BY <2>1, <3>2
        <5> QED  BY <3>2, <5>1, <5>2
      <4>2. CASE t = s /\ type = "step_completed"
        <5>1. L + 1 \in 1..Len(history'[w])
          BY <2>1, <3>2
        <5> QED  BY <3>2, <3>3, <4>2, <5>1
      <4> QED  BY <3>5, <3>7, <4>1, <4>2
    <3> QED  BY <2>1, <3>5, <3>6, <3>7
  <2>8. CASE RunEnds(w)
    BY <1>2, <2>8, RunEndsShape DEF IsTerminal, TerminalStatuses
  <2>9. CASE Ended(w)
    BY <1>2, <2>9, EndedResult DEF IsTerminal, TerminalStatuses
  <2> QED  BY <2>3, <2>4, <2>5, <2>6, <2>7, <2>8, <2>9, StepKinds DEF Reported
<1>3. \A w \in Workflows : DOMAIN history'[w] = 1..Len(history'[w])
  BY <1>1 DEF TypeOK
<1> QED  BY <1>2, <1>3 DEF Recorded

\* A run that the runtime itself ends meets the contract it holds backends to.
LEMMA EndedMeetsContract ==
    ASSUME ~SkewedClock, TypeOK, Begun, OpenHistory, Recorded, ContractHolds,
           NEW w \in Workflows, Ended(w)
    PROVE  ResultContract(w, results'[w], history'[w])
<1> DEFINE h == history[w]
           e == history'[w]
           r == results'[w]
           L == Len(h)
<1>1. PICK status \in {"cancelled", "timed_out"}, at \in Times :
              /\ Present(w) /\ ~IsTerminal(results[w])
              /\ results'[w] \in States
              /\ results'[w].status = status /\ results'[w].done = results[w].done
              /\ results'[w].compensation =
                    IF CompensationDue(w, status, history[w]) THEN "succeeded" ELSE "not_required"
              /\ Ending(w, history[w], status, at, history'[w])
              /\ status = "cancelled" => at \in UtcNow
              /\ status = "timed_out" => results[w].updated <= at
  BY EndedResult
<1>2. /\ h \in Seq(Events) /\ L \in Nat /\ DOMAIN h = 1..L /\ results[w] \in States
      /\ e \in Seq(Events) /\ DOMAIN e = 1..Len(e) /\ L < Len(e) /\ Len(e) \in Nat
      /\ status \in TerminalStatuses /\ at \in Nat
  BY <1>1, PresentTypes, LimitsAssumption DEF Ending, TerminalStatuses, Times
<1>3. /\ \A i \in 1..L : e[i] = h[i] /\ h[i].type \in OpenEvents
      /\ e[L + 1].type = TerminalEvent[status] /\ e[L + 1].at = at
      /\ \A i \in 1..Len(e) : i > L + 1 => e[i].type \in CompensationEvents /\ e[i].at = at
  BY <1>1, <1>2 DEF Ending, Event, OpenHistory, OpenEvents
<1>4. results[w].updated \in Nat /\ results[w].updated <= at
  <2>1. results[w].updated \in Nat
    BY <1>2, LimitsAssumption DEF States, Times
  <2>2. status = "cancelled" => at = clock
    BY <1>1 DEF UtcNow
  <2> QED  BY <1>1, <2>1, <2>2 DEF Recorded
<1>5. \A i \in 1..L : h[i].at \in Nat /\ h[i].at <= at
  <2>1. \A i \in 1..L : h[i].at \in Nat /\ h[i].at <= results[w].updated
    BY <1>1, <1>2, EventTimes DEF Recorded
  <2> HIDE DEF h, L
  <2> QED  BY <1>2, <1>4, <2>1
<1>6. Monotonic(e)
  <2>1. \A i, j \in 1..L : i < j => h[i].at <= h[j].at
    BY <1>1, <1>2 DEF ContractHolds, ResultContract, Monotonic
  <2> HIDE DEF h, e, L
  <2>2. \A i \in 1..Len(e) : /\ i \in 1..L => e[i].at = h[i].at
                             /\ i \notin 1..L => e[i].at = at
    BY <1>2, <1>3
  <2>3. ASSUME NEW i \in 1..Len(e), NEW j \in 1..Len(e), i < j
        PROVE  e[i].at <= e[j].at
    <3>1. CASE j \in 1..L
      <4>1. i \in 1..L
        BY <1>2, <2>3, <3>1
      <4> QED  BY <2>1, <2>2, <2>3, <3>1, <4>1
    <3>2. CASE j \notin 1..L
      BY <1>2, <1>5, <2>2, <3>2
    <3> QED  BY <3>1, <3>2
  <2> QED  BY <1>2, <2>3 DEF Monotonic
<1>7. CompensationReported(w, r)
  <2>1. IsTerminal(r)
    BY <1>1, <1>2 DEF IsTerminal
  <2>2. ASSUME status \in Triggers[w], results[w].done \cap Targets[w] # {}
        PROVE  r.compensation = "succeeded"
    <3>1. PICK s \in results[w].done : s \in Targets[w]
      BY <2>2
    <3>2. PICK i \in DOMAIN h : h[i].type = "step_completed" /\ h[i].step = s
      BY <1>1 DEF Recorded
    <3>3. i \in Compensable(w, h)
      BY <3>1, <3>2 DEF Compensable
    <3>4. CompensationDue(w, status, h)
      BY <2>2, <3>3 DEF CompensationDue
    <3> QED  BY <1>1, <3>4
  <2> QED  BY <1>1, <2>1, <2>2 DEF CompensationReported
<1>8. e # <<>> /\ e[1].type = "workflow_started"
  <2>1. h # <<>> /\ h[1].type = "workflow_started"
    BY <1>1 DEF Begun
  <2>2. 1 \in 1..L
    BY <1>2, <2>1
  <2> QED  BY <1>2, <1>3, <2>1, <2>2
<1>9. \A i \in 1..Len(e) : e[i].type \in CompensationEvents => i > L + 1
  <2> SUFFICES ASSUME NEW i \in 1..Len(e), e[i].type \in CompensationEvents, ~(i > L + 1)
               PROVE  FALSE
    OBVIOUS
  <2>1. CASE i \in 1..L
    BY <1>3, <2>1 DEF OpenEvents, CompensationEvents
  <2>2. CASE i = L + 1
    BY <1>2, <1>3, <2>2, EventNames
  <2> QED  BY <1>2, <2>1, <2>2
<1>10. TerminalHistory(r, e)
  <2>1. L + 1 \in Indexes(e, {TerminalEvent[r.status]})
    BY <1>1, <1>2, <1>3 DEF Indexes
  <2>2. ASSUME NEW j \in Indexes(e, {TerminalEvent[r.status]})
        PROVE  j = L + 1
    <3>1. j \in 1..Len(e) /\ e[j].type \in TerminalEvents
      BY <1>1, <1>2, EventNames DEF Indexes
    <3>2. j \notin 1..L
      BY <1>3, <3>1, EventNames DEF OpenEvents
    <3>3. ~(j > L + 1)
      BY <1>3, <3>1, EventNames
    <3> QED  BY <1>2, <3>1, <3>2, <3>3
  <2>3. \A i \in Indexes(e, CompensationEvents) : i > L + 1 /\ i \in Nat
    BY <1>2, <1>9 DEF Indexes
  <2>4. r.status # "running"
    BY <1>1
  <2> HIDE DEF r, e, h, L
  <2> QED  BY <1>2, <2>1, <2>2, <2>3, <2>4 DEF TerminalHistory
<1>11. CompensationHistory(r, e)
  <2>1. ASSUME ~CompensationDue(w, status, h)
        PROVE  Indexes(e, CompensationEvents) = {}
    BY <1>1, <1>2, <1>9, <2>1 DEF Ending, Indexes
  <2>2. ASSUME CompensationDue(w, status, h), NEW i \in Indexes(e, CompensationEvents),
               \A j \in Indexes(e, CompensationEvents) : j <= i
        PROVE  e[i].type = "compensation_completed"
    <3>1. e[Len(e)].type = "compensation_completed"
      BY <1>1, <2>2 DEF Ending
    <3>2. Len(e) \in Indexes(e, CompensationEvents)
      BY <1>2, <3>1 DEF Indexes, CompensationEvents
    <3>3. i = Len(e)
      BY <1>2, <2>2, <3>2 DEF Indexes
    <3> QED  BY <3>1, <3>3
  <2> HIDE DEF e, h, L
  <2> QED  BY <1>1, <2>1, <2>2 DEF CompensationHistory, h
<1> QED  BY <1>6, <1>7, <1>8, <1>10, <1>11 DEF ResultContract

LEMMA ContractKept ==
    ASSUME ~SkewedClock, TypeOK, Begun, OpenHistory, Recorded, ContractHolds, [Next]_vars
    PROVE  ContractHolds'
<1> SUFFICES ASSUME NEW w \in Workflows, Present(w)'
             PROVE  ResultContract(w, results'[w], history'[w])
  BY DEF ContractHolds
<1>1. CASE Kept(w)
  BY <1>1 DEF Kept, Present, ContractHolds
<1>2. CASE Gone(w)
  BY <1>2 DEF Gone, Present, Absent
<1>3. CASE Reported(w)
  BY <1>3 DEF Reported
<1>4. CASE Ended(w)
  BY <1>4, EndedMeetsContract
<1> QED  BY <1>1, <1>2, <1>3, <1>4, StepKinds

-----------------------------------------------------------------------------
(* Compensation: CompensatedExactly                                         *)

\* What CompensatedExactly says of one history, for the status of its result.
Exactly(w, status, h) ==
    LET comps == Compensations(h)
        due == IF status \in Triggers[w] THEN Compensable(w, h) ELSE {}
    IN  /\ \A s \in Steps :
              Cardinality({i \in comps : h[i].step = s}) = Cardinality({d \in due : h[d].step = s})
        /\ \A i, j \in comps : i < j =>
              \E d, e \in due : /\ h[d].step = h[i].step /\ h[e].step = h[j].step
                                /\ Second(h[d].at) >= Second(h[e].at)

LEMMA EndedIsCompensated ==
    ASSUME TypeOK, OpenHistory, NEW w \in Workflows, Ended(w)
    PROVE  Exactly(w, results'[w].status, history'[w])
<1> DEFINE h == history[w]
           e == history'[w]
           L == Len(h)
           events == Compensable(w, h)
           ordered == SortedNewestFirst(h, events)
           N == Cardinality(events)
           comps == Compensations(e)
<1>1. PICK status \in {"cancelled", "timed_out"}, at \in Times :
              /\ Present(w) /\ ~IsTerminal(results[w])
              /\ results'[w].status = status
              /\ Ending(w, h, status, at, e)
              /\ CompensationDue(w, status, h) => Compensating(h, ordered, e)
  BY EndedResult
<1>2. /\ h \in Seq(Events) /\ L \in Nat /\ DOMAIN h = 1..L
      /\ e \in Seq(Events) /\ DOMAIN e = 1..Len(e) /\ L < Len(e) /\ Len(e) \in Nat
      /\ status \in TerminalStatuses
  BY <1>1, PresentTypes DEF Ending, TerminalStatuses
<1>3. /\ \A i \in 1..L : e[i] = h[i] /\ h[i].type \in OpenEvents
      /\ e[L + 1].type \in TerminalEvents
      /\ \A i \in 1..Len(e) :
            i > L + 1 => e[i].type \in CompensationEvents /\ CompensationDue(w, status, h)
  BY <1>1, <1>2, EventNames DEF Ending, Event, OpenHistory, OpenEvents
<1>4. Compensable(w, e) = events
  <2>1. \A i \in 1..Len(e) : e[i].type = "step_completed" => i \in 1..L
    <3> SUFFICES ASSUME NEW i \in 1..Len(e), i \notin 1..L
                 PROVE  e[i].type # "step_completed"
      OBVIOUS
    <3>1. i = L + 1 \/ i > L + 1
      BY <1>2
    <3> QED  BY <1>3, <3>1, EventNames DEF CompensationEvents
  <2>2. \A i \in 1..L : i \in 1..Len(e) /\ e[i] = h[i]
    BY <1>2, <1>3
  <2> HIDE DEF h, e, L
  <2> QED  BY <1>2, <2>1, <2>2 DEF Compensable
<1>5. \A i \in comps : i \in 1..Len(e) /\ i > L + 1 /\ CompensationDue(w, status, h)
                         /\ e[i].type = "compensation_workflow_started"
  <2> SUFFICES ASSUME NEW i \in comps
               PROVE  i \in 1..Len(e) /\ i > L + 1 /\ CompensationDue(w, status, h)
                         /\ e[i].type = "compensation_workflow_started"
    OBVIOUS
  <2>1. i \in 1..Len(e) /\ e[i].type = "compensation_workflow_started"
    BY <1>2 DEF Compensations, Indexes
  <2>2. i \notin 1..L
    BY <1>3, <2>1 DEF OpenEvents
  <2>3. i # L + 1
    BY <1>3, <2>1, EventNames
  <2> QED  BY <1>2, <1>3, <2>1, <2>2, <2>3
<1>6. CASE ~CompensationDue(w, status, h)
  <2>1. comps = {}
    BY <1>5, <1>6
  <2>2. (IF status \in Triggers[w] THEN Compensable(w, e) ELSE {}) = {}
    BY <1>4, <1>6 DEF CompensationDue
  <2> QED  BY <1>1, <2>1, <2>2 DEF Exactly
<1>7. CASE CompensationDue(w, status, h)
  <2>1. (IF status \in Triggers[w] THEN Compensable(w, e) ELSE {}) = events
    BY <1>4, <1>7 DEF CompensationDue
  <2>2. events \in SUBSET DOMAIN h
    BY DEF Compensable
  <2>3. /\ N \in Nat /\ Len(ordered) = N
        /\ \A n \in 1..N : ordered[n] \in events
        /\ \A i \in events : \E n \in 1..N : ordered[n] = i
        /\ \A m, n \in 1..N : ordered[m] = ordered[n] => m = n
        /\ \A m, n \in 1..N : m < n => TextOrder(h[ordered[m]].at) >= TextOrder(h[ordered[n]].at)
    <3>1. /\ N \in Nat /\ Len(ordered) = N /\ ordered \in [1..N -> events]
          /\ \A i \in events : \E n \in 1..N : ordered[n] = i
          /\ \A m, n \in 1..N : ordered[m] = ordered[n] => m = n
          /\ \A m, n \in 1..N : m < n => TextOrder(h[ordered[m]].at) >= TextOrder(h[ordered[n]].at)
      BY <1>2, <2>2, SortedIsPermutation
    <3> HIDE DEF ordered, events, h, N
    <3> QED  BY <3>1
  <2>4. Compensating(h, ordered, e)
    BY <1>1, <1>7
  <2>5. \A d \in events : d \in 1..L /\ e[d] = h[d] /\ h[d].at \in Nat
    BY <1>2, <1>3, <2>2, EventTimes
  <2> HIDE DEF h, e, L, events, ordered, N, comps
  <2>6. \A i \in comps : \E m \in 1..N : i = L + 1 + 3 * m
    BY <1>5, <2>3, <2>4 DEF Compensating, L
  <2>7. \A m \in 1..N : /\ L + 1 + 3 * m \in comps
                        /\ e[L + 1 + 3 * m].step = h[ordered[m]].step
    BY <1>2, <2>3, <2>4 DEF Compensating, L, comps, Compensations, Indexes
  <2>8. ASSUME NEW s \in Steps
        PROVE  Cardinality({i \in comps : e[i].step = s}) = Cardinality({d \in events : e[d].step = s})
    <3> DEFINE A == {i \in comps : e[i].step = s}
               B == {d \in events : e[d].step = s}
               place(i) == (i - (L + 1)) \div 3
               g == [i \in A |-> ordered[place(i)]]
    <3>1. \A m \in 1..N : place(L + 1 + 3 * m) = m
      BY <1>2, <2>3
    <3> HIDE DEF place
    <3>2. \A i \in A : place(i) \in 1..N /\ i = L + 1 + 3 * place(i)
      BY <2>6, <3>1
    <3>3. \A i \in A : ordered[place(i)] \in B
      <4> SUFFICES ASSUME NEW i \in A  PROVE  ordered[place(i)] \in B
        OBVIOUS
      <4>1. place(i) \in 1..N /\ i = L + 1 + 3 * place(i) /\ e[i].step = s
        BY <3>2
      <4>2. h[ordered[place(i)]].step = s /\ ordered[place(i)] \in events
        BY <2>3, <2>7, <4>1
      <4> QED  BY <2>5, <4>2
    <3>4. \A i, j \in A : ordered[place(i)] = ordered[place(j)] => i = j
      BY <2>3, <3>2
    <3>5. \A d \in B : \E i \in A : ordered[place(i)] = d
      <4> SUFFICES ASSUME NEW d \in B  PROVE  \E i \in A : ordered[place(i)] = d
        OBVIOUS
      <4>1. PICK n \in 1..N : ordered[n] = d
        BY <2>3
      <4>2. L + 1 + 3 * n \in comps /\ e[L + 1 + 3 * n].step = h[d].step
        BY <2>7, <4>1
      <4>3. h[d].step = s
        BY <2>5
      <4>4. L + 1 + 3 * n \in A /\ ordered[place(L + 1 + 3 * n)] = d
        BY <3>1, <4>1, <4>2, <4>3
      <4> QED  BY <4>4
    <3> HIDE DEF A, B
    <3>6. g \in [A -> B]
      BY <3>3
    <3>7. g \in Injection(A, B)
      BY <3>4, <3>6 DEF Injection, IsInjective
    <3>8. g \in Surjection(A, B)
      BY <3>5, <3>6 DEF Surjection
    <3>9. ExistsBijection(A, B)
      BY <3>7, <3>8 DEF ExistsBijection, Bijection
    <3>10. IsFiniteSet(A)
      <4>1. A \subseteq 1..Len(e)
        BY <1>5 DEF A
      <4>2. IsFiniteSet(1..Len(e))
        BY <1>2, FS_Interval
      <4> QED  BY <4>1, <4>2, FS_Subset
    <3> QED  BY <3>9, <3>10, FS_Bijection DEF A, B
  <2>9. ASSUME NEW i \in comps, NEW j \in comps, i < j
        PROVE  \E c, d \in events : /\ e[c].step = e[i].step /\ e[d].step = e[j].step
                                    /\ Second(e[c].at) >= Second(e[d].at)
    <3>1. PICK m \in 1..N : i = L + 1 + 3 * m
      BY <2>6
    <3>2. PICK n \in 1..N : j = L + 1 + 3 * n
      BY <2>6
    <3>3. m < n
      BY <1>2, <2>3, <2>9, <3>1, <3>2
    <3> DEFINE c == ordered[m]
               d == ordered[n]
    <3>4. c \in events /\ d \in events /\ TextOrder(h[c].at) >= TextOrder(h[d].at)
      BY <2>3, <3>3
    <3>5. e[i].step = h[c].step /\ e[j].step = h[d].step
      BY <2>7, <3>1, <3>2
    <3> HIDE DEF c, d
    <3>6. h[c].at \in Nat /\ h[d].at \in Nat /\ e[c] = h[c] /\ e[d] = h[d]
      BY <2>5, <3>4
    <3>7. Second(h[c].at) >= Second(h[d].at)
      BY <3>4, <3>6, TextOrders
    <3> QED  BY <3>4, <3>5, <3>6, <3>7
  <2>10. Exactly(w, status, e)
    BY <2>1, <2>8, <2>9 DEF Exactly, comps
  <2> QED  BY <1>1, <2>10 DEF e
<1> QED  BY <1>6, <1>7

LEMMA CompensationKept ==
    ASSUME TypeOK, Begun, OpenHistory, CompensatedExactly, [Next]_vars
    PROVE  CompensatedExactly'
<1> SUFFICES ASSUME NEW w \in Workflows, EndedByRuntime(w)'
             PROVE  Exactly(w, results'[w].status, history'[w])
  BY DEF CompensatedExactly, Exactly
<1>1. results'[w].status \in {"cancelled", "timed_out"}
  BY DEF EndedByRuntime
<1>2. CASE Kept(w)
  <2>1. EndedByRuntime(w) /\ results'[w] = results[w] /\ history'[w] = history[w]
    BY <1>2 DEF Kept, EndedByRuntime, Present
  <2> QED  BY <2>1 DEF CompensatedExactly, Exactly
<1>3. CASE Gone(w)
  BY <1>1, <1>3 DEF Gone, Absent
<1>4. CASE RunEnds(w)
  BY <1>1, <1>4, RunEndsShape
<1>5. CASE Ended(w)
  BY <1>5, EndedIsCompensated
<1>6. CASE NewRun(w)
  BY <1>1, <1>6 DEF NewRun, ActiveStatuses
<1>7. CASE Begins(w) \/ StepEnds(w)
  <2>1. results[w] \in States /\ results[w].status \in ActiveStatuses
    BY <1>7, PresentTypes DEF Begins, StepEnds, ActiveStatuses
  <2>2. results'[w].status \in {"running", results[w].status}
    BY <1>7, <2>1 DEF Begins, StepEnds, States
  <2> QED  BY <1>1, <2>1, <2>2 DEF ActiveStatuses
<1> QED  BY <1>2, <1>3, <1>4, <1>5, <1>6, <1>7, StepKinds DEF Reported

-----------------------------------------------------------------------------
(* The steps: EndedIsFinal and ReconciledExactly                            *)

LEMMA EndedStays ==
    ASSUME TypeOK, [Next]_vars, NEW w \in Workflows,
           Present(w), IsTerminal(results[w]), results'[w] # Absent
    PROVE  \/ results'[w] = results[w] /\ history'[w] = history[w]
           \/ results'[w].status \in ActiveStatuses /\ Len(history'[w]) = 1
<1>1. CASE Kept(w)
  BY <1>1 DEF Kept
<1>2. CASE Gone(w)
  BY <1>2 DEF Gone
<1>3. CASE NewRun(w)
  BY <1>3, ReportedHistory DEF NewRun
<1>4. CASE Begins(w) \/ StepEnds(w) \/ RunEnds(w) \/ Ended(w)
  BY <1>4, PresentTypes DEF Begins, StepEnds, RunEnds, Ended, ActiveStatuses
<1> QED  BY <1>1, <1>2, <1>3, <1>4, StepKinds DEF Reported

\* Only a reconciliation times a run out.
LEMMA TimedOutByReconcile ==
    ASSUME TypeOK, [Next]_vars, NEW w \in Workflows, IsRunning(w), results'[w].status = "timed_out"
    PROVE  \E now \in Times : Reconcile(now)
<1>1. results[w] \in States /\ results[w].status = "running" /\ DOMAIN results = Workflows
  BY PresentTypes DEF IsRunning, TypeOK
<1>2. ASSUME NEW v \in Workflows, NEW r, NEW h, Update(v, r, h)
      PROVE  v = w /\ r.status = "timed_out"
  BY <1>1, <1>2 DEF Update
<1>3. ASSUME NEW v \in Workflows, v = w,
             \/ \E run \in Runs, status \in ActiveStatuses : Start(v, run, status)
             \/ Begin(v)
             \/ Delete(v)
             \/ \E s \in Steps, type \in {"step_completed", "step_failed"} : EndStep(v, s, type)
             \/ \E status \in {"succeeded", "failed"} : EndRun(v, status)
             \/ \E run \in Runs \cup {AnyRun} : Cancel(v, run)
      PROVE  FALSE
  <2>1. ASSUME NEW run \in Runs, NEW status \in ActiveStatuses, Start(v, run, status)
        PROVE  FALSE
    BY <1>2, <2>1 DEF Start, BackendReports, ActiveStatuses
  <2>2. ~Begin(v)
    BY <1>1, <1>3 DEF Begin
  <2>3. ~Delete(v)
    BY <1>2 DEF Delete, Absent
  <2>4. ASSUME NEW s \in Steps, NEW type \in {"step_completed", "step_failed"}, EndStep(v, s, type)
        PROVE  FALSE
    <3> DEFINE r == [results[v] EXCEPT !.updated = clock,
                                       !.done = IF type = "step_completed" THEN @ \cup {s} ELSE @]
    <3>1. \E h : Update(v, r, h)
      BY <2>4 DEF EndStep, BackendReports
    <3>2. r.status = "running"
      BY <1>1, <1>3 DEF States
    <3> HIDE DEF r
    <3> QED  BY <1>2, <3>1, <3>2
  <2>5. ASSUME NEW status \in {"succeeded", "failed"}, EndRun(v, status)
        PROVE  FALSE
    <3>1. PICK comp \in {<<>>, <<Event("compensation_started", clock, NoStep),
                                Event("compensation_completed", clock, NoStep)>>} :
             BackendReports(v,
               [results[v] EXCEPT !.status = status, !.updated = clock,
                  !.compensation = IF comp = <<>> THEN "not_required" ELSE "succeeded"],
               Append(history[v], Event(TerminalEvent[status], clock, NoStep)) \o comp)
      BY <2>5 DEF EndRun
    <3> DEFINE r == [results[v] EXCEPT !.status = status, !.updated = clock,
                        !.compensation = IF comp = <<>> THEN "not_required" ELSE "succeeded"]
    <3>2. \E h : Update(v, r, h)
      BY <3>1 DEF BackendReports
    <3>3. r.status = status
      BY <1>1, <1>3 DEF States
    <3> HIDE DEF r
    <3> QED  BY <1>2, <3>2, <3>3
  <2>6. ASSUME NEW run \in Runs \cup {AnyRun}, Cancel(v, run)
        PROVE  FALSE
    <3>1. PICK at : Update(v, EndedState(v, "cancelled", at), EndedHistory(v, "cancelled", at))
      BY <2>6 DEF Cancel
    <3>2. EndedState(v, "cancelled", at).status = "cancelled"
      BY <1>1, <1>3 DEF EndedState, States
    <3> QED  BY <1>2, <3>1, <3>2
  <2> QED  BY <1>3, <2>1, <2>2, <2>3, <2>4, <2>5, <2>6
<1>4. ASSUME NEW v \in Workflows, v # w,
             \/ \E run \in Runs, status \in ActiveStatuses : Start(v, run, status)
             \/ Begin(v)
             \/ Delete(v)
             \/ \E s \in Steps, type \in {"step_completed", "step_failed"} : EndStep(v, s, type)
             \/ \E status \in {"succeeded", "failed"} : EndRun(v, status)
             \/ \E run \in Runs \cup {AnyRun} : Cancel(v, run)
      PROVE  FALSE
  <2>1. \E r, h : Update(v, r, h)
    BY <1>4 DEF Start, Begin, Delete, EndStep, EndRun, Cancel, BackendReports
  <2> QED  BY <1>2, <1>4, <2>1
<1>5. ~(UNCHANGED vars) /\ ~Tick
  BY <1>1 DEF vars, Tick
<1> QED  BY <1>3, <1>4, <1>5 DEF Next

\* A reconciliation ends the runs that are overdue, at its instant.
LEMMA ReconcileEnds ==
    ASSUME TypeOK, NEW now \in Times, Reconcile(now), NEW v \in Workflows
    PROVE  /\ IsRunning(v) /\ results'[v].status = "timed_out" <=>
                 IsRunning(v) /\ Timeout[v] > 0 /\ results[v].started + 2 * Timeout[v] <= now
           /\ IsRunning(v) /\ results'[v].status = "timed_out" =>
                 results'[v].updated = now /\ now >= results[v].updated
<1>1. results'[v] = IF v \in Overdue(now) THEN EndedState(v, "timed_out", now) ELSE results[v]
  BY DEF Reconcile
<1>2. IsRunning(v) => results[v] \in States
  BY PresentTypes
<1>3. v \in Overdue(now) => IsRunning(v)
  BY DEF Overdue, Eligible
<1>4. v \in Overdue(now) => results'[v].status = "timed_out" /\ results'[v].updated = now
  BY <1>1, <1>2, <1>3 DEF EndedState, States
<1>5. IsRunning(v) /\ v \notin Overdue(now) => results'[v].status # "timed_out"
  BY <1>1 DEF IsRunning
<1>6. ASSUME IsRunning(v), Timeout[v] > 0
      PROVE  /\ v \in Overdue(now) <=> results[v].started + 2 * Timeout[v] <= now
             /\ results[v].updated <= now
  <2>1. results[v].started \in Nat /\ now \in Nat /\ Timeout[v] \in Nat
    BY <1>2, <1>6, ContractsAssumption, LimitsAssumption DEF States, Times
  <2>2. v \in Eligible
    BY <1>6 DEF Eligible
  <2>3. results[v].started <= now /\ results[v].updated <= now
    BY <2>2 DEF Reconcile, ClockAdmitted
  <2>4. (now - results[v].started) \div 2 >= Timeout[v] <=> results[v].started + 2 * Timeout[v] <= now
    BY <2>1, <2>3
  <2> QED  BY <2>2, <2>3, <2>4 DEF Overdue, Second
<1>7. v \in Overdue(now) => Timeout[v] > 0
  BY DEF Overdue, Eligible
<1>8. v \in Overdue(now) => now >= results[v].updated
  <2>1. IsRunning(v) => results[v].updated \in Nat
    BY <1>2, LimitsAssumption DEF States, Times
  <2>2. now \in Nat
    BY LimitsAssumption DEF Times
  <2> QED  BY <1>3, <1>6, <1>7, <2>1, <2>2
<1> QED  BY <1>3, <1>4, <1>5, <1>6, <1>7, <1>8

-----------------------------------------------------------------------------
(* Inv is inductive                                                         *)

LEMMA InitialInv == Init => Inv
<1> SUFFICES ASSUME Init PROVE Inv
  OBVIOUS
<1>1. TypeOK
  BY InitialTypes
<1>2. \A w \in Workflows : ~Present(w)
  BY DEF Init, Present, Absent
<1> QED  BY <1>1, <1>2 DEF Inv, Begun, OpenHistory, EndedOnce, CompensatedExactly, EndedByRuntime, Recorded, ContractHolds

LEMMA InvHolds == Spec => []Inv
<1>1. Inv /\ [Next]_vars => Inv'
  <2> SUFFICES ASSUME Inv, [Next]_vars PROVE Inv'
    OBVIOUS
  <2>1. TypeOK'
    BY StepKeepsTypes DEF Inv
  <2>2. Begun' /\ OpenHistory' /\ EndedOnce'
    BY HistoriesKept DEF Inv
  <2>3. CompensatedExactly'
    BY CompensationKept DEF Inv
  <2>4. ~SkewedClock /\ ~Unrecorded => Recorded' /\ ContractHolds'
    BY RecordedKept, ContractKept DEF Inv
  <2> QED  BY <2>1, <2>2, <2>3, <2>4 DEF Inv
<1> QED  BY <1>1, InitialInv, PTL DEF Spec

\* Results and histories stay of the form the runtime's models give them, also the
\* record that a compensation writes.
THEOREM TypeCorrect == Spec => []TypeOK
<1>1. Inv => TypeOK
  BY DEF Inv
<1> QED  BY <1>1, InvHolds, PTL

\* However backend, operator and timeout interleave, an ended run has exactly one
\* terminal event, that of its status, and a run that goes on has none.
THEOREM RunsEndOnce == Spec => []EndedOnce
<1>1. Inv => EndedOnce
  BY DEF Inv
<1> QED  BY <1>1, InvHolds, PTL

\* A run that the runtime ended is compensated exactly as far as it came, for any
\* number of completions and retries, and no later second after an earlier one.
THEOREM EveryCompletionCompensatedOnce == Spec => []CompensatedExactly
<1>1. Inv => CompensatedExactly
  BY DEF Inv
<1> QED  BY <1>1, InvHolds, PTL

\* With one clock, and a backend that records every completion it reports, what the
\* runtime writes meets the contract it holds backends to.
THEOREM RuntimeMeetsContract ==
    ASSUME ~SkewedClock, ~Unrecorded
    PROVE  Spec => []ContractHolds
<1>1. Inv => ContractHolds
  BY DEF Inv
<1> QED  BY <1>1, InvHolds, PTL

\* An ended run never changes: only a new run, or its deletion, replaces it.
THEOREM EndedRunsStay == Spec => EndedIsFinal
<1> DEFINE Final == \A w \in Workflows : Present(w) /\ IsTerminal(results[w]) /\ results'[w] # Absent =>
          \/ results'[w] = results[w] /\ history'[w] = history[w]
          \/ results'[w].status \in ActiveStatuses /\ Len(history'[w]) = 1
<1>1. TypeOK /\ [Next]_vars => [Final]_vars
  BY EndedStays
<1>2. Spec => [][Final]_vars
  BY <1>1, TypeCorrect, PTL DEF Spec
<1> QED  BY <1>2 DEF EndedIsFinal

\* A reconciliation ends exactly the runs whose whole timeout has passed, all in one
\* step, with the division by whole seconds that the code makes.
THEOREM TimeoutsAreExact == Spec => ReconciledExactly
<1> DEFINE Exact ==
       LET ended == {w \in Workflows : IsRunning(w) /\ results'[w].status = "timed_out"} IN
       \A w \in ended :
          LET now == results'[w].updated IN
          /\ now >= results[w].updated
          /\ \A v \in Workflows :
                v \in ended <=> /\ IsRunning(v) /\ Timeout[v] > 0
                                /\ results[v].started + 2 * Timeout[v] <= now
<1>1. TypeOK /\ [Next]_vars => [Exact]_vars
  <2> SUFFICES ASSUME TypeOK, [Next]_vars,
                      NEW w \in Workflows, IsRunning(w), results'[w].status = "timed_out"
               PROVE  /\ results'[w].updated >= results[w].updated
                      /\ \A v \in Workflows :
                            IsRunning(v) /\ results'[v].status = "timed_out" <=>
                               /\ IsRunning(v) /\ Timeout[v] > 0
                               /\ results[v].started + 2 * Timeout[v] <= results'[w].updated
    OBVIOUS
  <2>1. PICK now \in Times : Reconcile(now)
    BY TimedOutByReconcile
  <2>2. results'[w].updated = now /\ now >= results[w].updated
    BY <2>1, ReconcileEnds
  <2> QED  BY <2>1, <2>2, ReconcileEnds
<1>2. Spec => [][Exact]_vars
  BY <1>1, TypeCorrect, PTL DEF Spec
<1> QED  BY <1>2, PTL DEF ReconciledExactly
=============================================================================
