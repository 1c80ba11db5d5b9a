--------------------------- MODULE WorkflowControl ---------------------------
(***************************************************************************)
(* Workflow runs in the runtime snapshot: what orchestration backends      *)
(* report, the result contract the runtime holds every report to, operator *)
(* cancellation, timeout reconciliation, and the compensation that both    *)
(* trigger.                                                                *)
(*                                                                         *)
(* Every action is one operation that holds the mutation permit from its   *)
(* reading of the snapshot to its commit (ControlPlane models that), so    *)
(* here it is one step.  An operation that is rejected, or that raises     *)
(* before its commit, leaves this state as it is and has no action.        *)
(*                                                                         *)
(* Instants are half seconds: the even ones are whole seconds.             *)
(***************************************************************************)
EXTENDS Naturals, Sequences, FiniteSets

CONSTANTS
    Workflows,    \* workflow addresses
    Steps,        \* step names
    NoStep,       \* an event that is not about a step
    Runs,         \* run identifiers
    AnyRun,       \* a cancellation that does not name a run
    Timeout,      \* timeout_seconds per workflow, 0 when none is configured
    Triggers,     \* compensation_triggers per workflow, {} when not automatic
    Declared,     \* the observable steps of each workflow
    Targets,      \* those with a compensation target
    MaxTime,      \* bound on the clocks
    MaxEvents,    \* bound on the step events of a run, per workflow
    SkewedClock,  \* the control plane's clock may lag the backend's
    Unrecorded    \* backends may report a completed step without its event

ASSUME NamesAssumption == NoStep \notin Steps /\ AnyRun \notin Runs
ASSUME ContractsAssumption ==
    /\ Timeout \in [Workflows -> Nat]
    /\ Triggers \in [Workflows -> SUBSET {"failed", "cancelled", "timed_out"}]
    /\ Declared \in [Workflows -> SUBSET Steps]
    /\ Targets \in [Workflows -> SUBSET Steps]
ASSUME LimitsAssumption ==
    /\ MaxTime \in Nat /\ MaxEvents \in [Workflows -> Nat]
    /\ SkewedClock \in BOOLEAN /\ Unrecorded \in BOOLEAN

VARIABLES results,   \* orchestration_results
          history,   \* orchestration_history
          clock      \* the backend's clock

vars == <<results, history, clock>>

Times            == 0..MaxTime
ActiveStatuses   == {"pending", "running"}
TerminalStatuses == {"succeeded", "failed", "cancelled", "timed_out"}
\* _TERMINAL_EVENT_TYPES
TerminalEvent == [succeeded |-> "workflow_completed", failed |-> "workflow_failed",
                  cancelled |-> "workflow_cancelled", timed_out |-> "workflow_timed_out"]
TerminalEvents     == {TerminalEvent[s] : s \in TerminalStatuses}
CompensationEvents == {"compensation_started", "compensation_registered",
                       "compensation_workflow_started", "compensation_workflow_completed",
                       "compensation_completed"}
EventTypes == {"workflow_started", "step_completed", "step_failed"}
              \cup TerminalEvents \cup CompensationEvents

Event(type, at, step) == [type |-> type, at |-> at, step |-> step]
Events == [type : EventTypes, at : Times, step : Steps \cup {NoStep}]

\* WorkflowExecutionState; done holds the steps reported completed and succeeded.
States == [status : ActiveStatuses \cup TerminalStatuses, run : Runs, started : Times,
           updated : Times, compensation : {"not_required", "succeeded"}, done : SUBSET Steps]
Absent == [status |-> "absent"]

TypeOK ==
    /\ results \in [Workflows -> States \cup {Absent}]
    /\ history \in [Workflows -> Seq(Events)]
    /\ clock \in Times

Init == /\ results = [w \in Workflows |-> Absent]
        /\ history = [w \in Workflows |-> <<>>]
        /\ clock = 0

Present(w)       == results[w].status # "absent"
IsTerminal(r)    == r.status \in TerminalStatuses
IsRunning(w)     == results[w].status = "running"
Update(w, r, h)  == /\ results' = [results EXCEPT ![w] = r]
                    /\ history' = [history EXCEPT ![w] = h]

-----------------------------------------------------------------------------
(* workflow_result_contract_diagnostics: what the runtime demands of the   *)
(* workflows in every snapshot a backend returns                           *)

\* _timestamp_diagnostics
Monotonic(h) == \A i, j \in DOMAIN h : i < j => h[i].at <= h[j].at

\* _workflow_compensation_requirement_diagnostics
CompensationReported(w, r) ==
    /\ ~IsTerminal(r) => r.compensation = "not_required"
    /\ r.status \in Triggers[w] /\ r.done \cap Targets[w] # {}
          => r.compensation # "not_required"

Indexes(h, types) == {i \in DOMAIN h : h[i].type \in types}

\* _terminal_history_diagnostics, _running_history_diagnostics
TerminalHistory(r, h) ==
    /\ IsTerminal(r) =>
          LET ends == Indexes(h, {TerminalEvent[r.status]}) IN
          /\ ends # {}
          /\ \A i \in Indexes(h, CompensationEvents) : \A j \in ends : j < i
    /\ r.status = "running" => h[Len(h)].type \notin TerminalEvents

\* compensation_history_diagnostics
CompensationHistory(r, h) ==
    LET comp == Indexes(h, CompensationEvents) IN
    /\ r.compensation = "not_required" => comp = {}
    /\ r.compensation = "succeeded" =>
          \A i \in comp : (\A j \in comp : j <= i) => h[i].type = "compensation_completed"

\* The checks of the history are skipped when there is none.
ResultContract(w, r, h) ==
    /\ Monotonic(h)
    /\ CompensationReported(w, r)
    /\ h # <<>> => /\ h[1].type = "workflow_started"
                   /\ TerminalHistory(r, h)
                   /\ CompensationHistory(r, h)

-----------------------------------------------------------------------------
(* Orchestration backends                                                  *)

Tick == /\ clock < MaxTime
        /\ clock' = clock + 1
        /\ UNCHANGED <<results, history>>

\* A backend's result is committed only if every workflow in it, not only the
\* one it changes, meets the contract.
BackendReports(w, r, h) ==
    /\ ResultContract(w, r, h)
    /\ \A v \in Workflows \ {w} : Present(v) => ResultContract(v, results[v], history[v])
    /\ Update(w, r, h)
    /\ UNCHANGED clock

\* A create or an update of the workflow resource starts a new run, which may
\* have to wait before it runs.
Start(w, run, status) ==
    BackendReports(w, [status |-> status, run |-> run, started |-> clock, updated |-> clock,
                       compensation |-> "not_required", done |-> {}],
                   <<Event("workflow_started", clock, NoStep)>>)

Begin(w) ==
    /\ results[w].status = "pending"
    /\ BackendReports(w, [results[w] EXCEPT !.status = "running", !.updated = clock], history[w])

Delete(w) ==
    /\ Present(w)
    /\ \A v \in Workflows \ {w} : Present(v) => ResultContract(v, results[v], history[v])
    /\ Update(w, Absent, <<>>)
    /\ UNCHANGED clock

StepEvents(h) == Indexes(h, {"step_completed", "step_failed"})

\* A step ends; retries may complete it more than once.  A backend that keeps
\* no event of it is believed all the same.
EndStep(w, s, type) ==
    /\ IsRunning(w)
    /\ s \in Declared[w]
    /\ Cardinality(StepEvents(history[w])) < MaxEvents[w]
    /\ \E recorded \in {TRUE, ~Unrecorded} :
          BackendReports(w,
             [results[w] EXCEPT !.updated = clock,
                                !.done = IF type = "step_completed" THEN @ \cup {s} ELSE @],
             IF recorded THEN Append(history[w], Event(type, clock, s)) ELSE history[w])

\* The workflow ends by itself; a backend compensates a failure as it sees fit.
EndRun(w, status) ==
    /\ IsRunning(w)
    /\ \E comp \in {<<>>, <<Event("compensation_started", clock, NoStep),
                            Event("compensation_completed", clock, NoStep)>>} :
          BackendReports(w,
             [results[w] EXCEPT !.status = status, !.updated = clock,
                !.compensation = IF comp = <<>> THEN "not_required" ELSE "succeeded"],
             Append(history[w], Event(TerminalEvent[status], clock, NoStep)) \o comp)

-----------------------------------------------------------------------------
(* Compensation: maybe_apply_compensation                                  *)

Second(t) == t \div 2

\* The order of timestamps as text, which is what the compensations are sorted
\* by: a whole second is written without a fraction, "...:05Z", and that sorts
\* after "...:05.500000Z".
TextOrder(t) == 2 * Second(t) + 1 - (t % 2)

\* _completed_compensable_events: where they are in the history
Compensable(w, h) == {i \in DOMAIN h : h[i].type = "step_completed" /\ h[i].step \in Targets[w]}

\* Mutant: oldest first.
OldestFirst(h, events) ==
    LET place(i) == Cardinality({j \in events : \/ TextOrder(h[j].at) < TextOrder(h[i].at)
                                                \/ h[j].at = h[i].at /\ j <= i})
    IN  [n \in 1..Cardinality(events) |-> CHOOSE i \in events : place(i) = n]

\* The events up to i in the order they are compensated in.  sorted(..., reverse=True)
\* is stable: events with equal timestamps keep the order they completed in.
UpTo(h, events, i) == {j \in events : \/ TextOrder(h[j].at) > TextOrder(h[i].at)
                                      \/ h[j].at = h[i].at /\ j <= i}

SortedNewestFirst(h, events) ==
    [n \in 1..Cardinality(events) |-> CHOOSE i \in events : Cardinality(UpTo(h, events, i)) = n]

\* _append_step_compensation_history
StepCompensation == <<"compensation_registered", "compensation_workflow_started",
                      "compensation_workflow_completed">>

\* _append_compensation_history, for the steps of the events in that order
CompensationRecord(h, ordered, at) ==
    <<Event("compensation_started", at, NoStep)>>
    \o [k \in 1..(3 * Len(ordered)) |->
           Event(StepCompensation[1 + ((k - 1) % 3)], at, h[ordered[1 + ((k - 1) \div 3)]].step)]
    \o <<Event("compensation_completed", at, NoStep)>>

\* _compensation_required, and at least one step to compensate.
CompensationDue(w, status, h) == status \in Triggers[w] /\ Compensable(w, h) # {}

\* Mutant: the result does not say that its compensation ran.
EndedSilently(w, status, at) ==
    [results[w] EXCEPT !.status = status, !.updated = at, !.compensation = "not_required"]

\* Mutant: the name of the terminal event is stored as the status.
EndedWithEventName(w, status, at) ==
    [results[w] EXCEPT !.status = TerminalEvent[status], !.updated = at]

\* The state a cancelled or timed-out workflow is left in, and its history.
EndedState(w, status, at) ==
    [results[w] EXCEPT !.status = status, !.updated = at,
        !.compensation = IF CompensationDue(w, status, history[w]) THEN "succeeded"
                                                                   ELSE "not_required"]

EndedHistory(w, status, at) ==
    Append(history[w], Event(TerminalEvent[status], at, NoStep))
    \o IF CompensationDue(w, status, history[w])
         THEN CompensationRecord(history[w], SortedNewestFirst(history[w], Compensable(w, history[w])), at)
         ELSE <<>>

-----------------------------------------------------------------------------
(* cancel_workflow                                                         *)

\* _utc_now() of the control plane.
UtcNow == IF SkewedClock THEN 0..clock ELSE {clock}

\* Mutant: a workflow that ended already is cancelled as well.
CancelAny(w, run) ==
    /\ Present(w)
    /\ run \in {AnyRun, results[w].run}
    /\ \E at \in UtcNow :
          Update(w, EndedState(w, "cancelled", at), EndedHistory(w, "cancelled", at))
    /\ UNCHANGED clock

\* An unknown workflow or another run is rejected; a workflow that has ended
\* stays as it is and only the operation is recorded.
Cancel(w, run) ==
    /\ Present(w)
    /\ run \in {AnyRun, results[w].run}
    /\ ~IsTerminal(results[w])
    /\ \E at \in UtcNow :
          Update(w, EndedState(w, "cancelled", at), EndedHistory(w, "cancelled", at))
    /\ UNCHANGED clock

-----------------------------------------------------------------------------
(* reconcile_workflow_timeouts                                             *)

\* The workflows whose timeout is looked at.
Eligible == {w \in Workflows : Timeout[w] > 0 /\ IsRunning(w)}

\* _workflow_has_timed_out raises for a clock behind a persisted one, before
\* anything is written: one such workflow stops the whole reconciliation.
ClockAdmitted(now) ==
    \A w \in Eligible : /\ results[w].started <= results[w].updated
                        /\ results[w].started <= now /\ results[w].updated <= now

\* Mutant: elapsed time is rounded up to whole seconds.
OverdueRounded(now) == {w \in Eligible : Second(now - results[w].started + 1) >= Timeout[w]}

\* Elapsed time counts in whole seconds.
Overdue(now) == {w \in Eligible : Second(now - results[w].started) >= Timeout[w]}

\* now is the caller's, whatever the clocks say.  Without an overdue workflow
\* only the operation is recorded.
Reconcile(now) ==
    /\ ClockAdmitted(now)
    /\ Overdue(now) # {}
    /\ results' = [w \in Workflows |-> IF w \in Overdue(now) THEN EndedState(w, "timed_out", now)
                                                             ELSE results[w]]
    /\ history' = [w \in Workflows |-> IF w \in Overdue(now) THEN EndedHistory(w, "timed_out", now)
                                                             ELSE history[w]]
    /\ UNCHANGED clock

-----------------------------------------------------------------------------
Next ==
    \/ Tick
    \/ \E w \in Workflows :
          \/ \E run \in Runs, status \in ActiveStatuses : Start(w, run, status)
          \/ Begin(w)
          \/ Delete(w)
          \/ \E s \in Steps, type \in {"step_completed", "step_failed"} : EndStep(w, s, type)
          \/ \E status \in {"succeeded", "failed"} : EndRun(w, status)
          \/ \E run \in Runs \cup {AnyRun} : Cancel(w, run)
    \/ \E now \in Times : Reconcile(now)

Spec == Init /\ [][Next]_vars

-----------------------------------------------------------------------------
(* Properties                                                              *)

\* What the control plane writes itself it would accept from a backend: after a
\* cancellation or a timeout every workflow still meets the result contract, so
\* that no later backend result is refused because of it.
ContractHolds ==
    \A w \in Workflows : Present(w) => ResultContract(w, results[w], history[w])

\* An ended run is ended once: its history has one terminal event, the one of its
\* status, whichever of backend, operator and timeout came second.
EndedOnce ==
    \A w \in Workflows : Present(w) =>
        LET ends == {history[w][i].type : i \in Indexes(history[w], TerminalEvents)} IN
        /\ ends = IF IsTerminal(results[w]) THEN {TerminalEvent[results[w].status]} ELSE {}
        /\ Cardinality(Indexes(history[w], TerminalEvents)) <= 1

\* An ended run never changes again: only a new run of the workflow replaces it.
EndedIsFinal ==
    [][\A w \in Workflows : Present(w) /\ IsTerminal(results[w]) /\ results'[w] # Absent =>
          \/ results'[w] = results[w] /\ history'[w] = history[w]
          \/ results'[w].status \in ActiveStatuses /\ Len(history'[w]) = 1]_vars

Compensations(h) == Indexes(h, {"compensation_workflow_started"})
EndedByRuntime(w) == Present(w) /\ results[w].status \in {"cancelled", "timed_out"}

\* A run that the runtime ended is compensated exactly as far as it came: each
\* successful completion of a step with a target once, nothing when the contract
\* does not ask for it, and never a step of a later second after an earlier one.
CompensatedExactly ==
    \A w \in Workflows : EndedByRuntime(w) =>
        LET h == history[w]
            comps == Compensations(h)
            due == IF results[w].status \in Triggers[w] THEN Compensable(w, h) ELSE {}
        IN  /\ \A s \in Steps :
                  Cardinality({i \in comps : h[i].step = s}) = Cardinality({d \in due : h[d].step = s})
            /\ \A i, j \in comps : i < j =>
                  \E d, e \in due : /\ h[d].step = h[i].step /\ h[e].step = h[j].step
                                   /\ Second(h[d].at) >= Second(h[e].at)

\* A reconciliation times out exactly the runs that are overdue at its instant,
\* all of them, and never with a clock behind what is persisted of a run.
ReconciledExactly ==
    [][LET ended == {w \in Workflows : IsRunning(w) /\ results'[w].status = "timed_out"} IN
       \A w \in ended :
          LET now == results'[w].updated IN
          /\ now >= results[w].updated
          /\ \A v \in Workflows :
                v \in ended <=> /\ IsRunning(v) /\ Timeout[v] > 0
                                /\ results[v].started + 2 * Timeout[v] <= now]_vars

\* Compensation happens in strict reverse completion order: when no two steps were
\* completed at the same instant, the n-th compensation from the end is that of the
\* n-th completed step.
StrictReverseCompletion ==
    \A w \in Workflows : EndedByRuntime(w) /\ results[w].compensation = "succeeded" =>
        LET h == history[w]
            comps == Compensations(h)
            due == Compensable(w, h)
        IN  (\A d, e \in due : d # e => h[d].at # h[e].at) =>
            \A i \in comps, d \in due :
               Cardinality({j \in comps : j > i}) = Cardinality({e \in due : e < d}) => h[i].step = h[d].step

-----------------------------------------------------------------------------
(* The inductive invariant                                                 *)

\* A run that is present has its start as the first event of its history.
Begun ==
    \A w \in Workflows : Present(w) => history[w] # <<>> /\ history[w][1].type = "workflow_started"

\* Until a run ends its history holds only its start and the ends of its steps.
OpenHistory ==
    \A w \in Workflows : Present(w) /\ ~IsTerminal(results[w]) =>
        \A i \in DOMAIN history[w] : history[w][i].type \in {"workflow_started", "step_completed", "step_failed"}

\* With one clock and a backend that records every completion, what is known of a
\* run that has not ended is in its history, and in the past.
Recorded ==
    \A w \in Workflows : Present(w) /\ ~IsTerminal(results[w]) =>
        /\ results[w].updated <= clock
        /\ \A i \in DOMAIN history[w] : history[w][i].at <= results[w].updated
        /\ \A s \in results[w].done :
              \E i \in DOMAIN history[w] : history[w][i].type = "step_completed" /\ history[w][i].step = s

Inv ==
    /\ TypeOK /\ Begun /\ OpenHistory /\ EndedOnce /\ CompensatedExactly
    /\ ~SkewedClock /\ ~Unrecorded => Recorded /\ ContractHolds
=============================================================================
