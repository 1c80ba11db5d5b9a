-------------------------- MODULE ControlPlaneProofs --------------------------
(***************************************************************************)
(* Machine-checked proofs about control planes over one operation store,   *)
(* for any calls, planes, keys and bodies, and whichever of the leases,    *)
(* store errors and interrupts the store and the backend have: Inv is      *)
(* inductive, and each safety property follows from it.                    *)
(***************************************************************************)
EXTENDS ControlPlane, TLAPS

-----------------------------------------------------------------------------
(* Types                                                                   *)

LEMMA InitialTypes == Init => TypeOK
BY RevisionAssumption
DEF Init, TypeOK, StoreInit, StoreTypeOK, Lives, Caches, EmptyCut, NoResult, Results, Modes,
    States, Active, Outcomes

\* _run_runtime_call on its way out: every outcome leaves a well-formed call.
LEMMA ReturnTypes ==
    ASSUME TypeOK, NEW c \in Calls, NEW outcome \in Outcomes, Return(c, outcome)
    PROVE  /\ permit' \in [Planes -> Calls \cup {None}]
           /\ pc' \in [Calls -> {"idle"} \cup Active \cup Outcomes]
           /\ base' \in [Calls -> SUBSET Calls]
           /\ result' \in [Calls -> Results]
           /\ committed' \in [Calls -> Caches]
           /\ pc'[c] = outcome
           /\ \A d \in Calls \ {c} : pc'[d] = pc[d]
<1>1. NoResult \in Results /\ EmptyCut \in Caches
  BY RevisionAssumption DEF NoResult, Results, Modes, EmptyCut, Caches
<1> QED
  BY <1>1 DEF Return, TypeOK

\* claim_record and commit_terminal_operation write well-formed rows, and the
\* revision stays in its range.
LEMMA StoreTypes ==
    ASSUME TypeOK, NEW c \in Calls,
           \/ \E k \in Keys \cup {NoKey} : ClaimRecord(c, k)
           \/ \E n : CommitTerminalOperation(c, result[c], n)
    PROVE  StoreTypeOK'
<1> USE DEF TypeOK, StoreTypeOK, States, NonTerminal, Terminal
<1>1. CASE \E k \in Keys \cup {NoKey} : ClaimRecord(c, k)
  BY <1>1 DEF ClaimRecord
<1>2. CASE \E n : CommitTerminalOperation(c, result[c], n)
  <2>1. result[c] \in Results
    OBVIOUS
  <2>2. result[c].content \in SUBSET Calls /\ result[c].status \in {"succeeded", "failed"}
    BY <2>1 DEF Results
  <2>3. snapshot' \in SUBSET Calls /\ revision' \in 0..MaxRevision
    BY <1>2, <2>2, RevisionAssumption DEF CommitTerminalOperation, CommitInvalid
  <2> QED
    BY <1>2, <2>2, <2>3 DEF CommitTerminalOperation
<1> QED
  BY <1>1, <1>2

\* The cache of a plane is filled from the store.
LEMMA ReloadTypes ==
    ASSUME TypeOK, NEW p \in Planes
    PROVE  Reloaded(p) \in [Planes -> Caches]
BY DEF TypeOK, StoreTypeOK, Reloaded, Caches

LEMMA PlaneKeepsTypes ==
    ASSUME TypeOK, NEW p \in Planes, PlaneNext(p)
    PROVE  TypeOK'
<1> USE DEF TypeOK, Lives
<1>1. EmptyCut \in Caches /\ NoResult \in Results /\ Reloaded(p) \in [Planes -> Caches]
  BY ReloadTypes, RevisionAssumption DEF EmptyCut, Caches, NoResult, Results, Modes
<1>2. CASE Open(p)
  BY <1>1, <1>2 DEF Open, storeVars, callVars, workVars, StoreTypeOK
<1>3. CASE BeginClose(p) \/ CloseInterrupted(p)
  BY <1>3 DEF BeginClose, CloseInterrupted, storeVars, callVars, workVars, StoreTypeOK
<1>4. CASE FinishClose(p)
  BY <1>1, <1>4 DEF FinishClose, Forget, storeVars, callVars, workVars, StoreTypeOK
<1>5. CASE Crash(p)
  <2>1. pc' \in [Calls -> {"idle"} \cup Active \cup Outcomes]
    BY <1>5 DEF Crash, Outcomes
  <2>2. \A c \in Calls : pc'[c] # "idle" => pc[c] # "idle"
    BY <1>5 DEF Crash, ActiveCalls, Active
  <2> QED
    BY <1>1, <1>5, <2>1, <2>2 DEF Crash, Forget, storeVars, StoreTypeOK
<1>6. CASE Read(p)
  BY <1>1, <1>6 DEF Read, storeVars, planeVars, callVars, workVars, StoreTypeOK
<1> QED
  BY <1>2, <1>3, <1>4, <1>5, <1>6 DEF PlaneNext

LEMMA SubmitKeepsTypes ==
    ASSUME TypeOK, NEW c \in Calls, NEW p \in Planes, NEW k \in Keys \cup {NoKey},
           NEW b \in Bodies, NEW kind \in Kinds, Submit(c, p, k, b, kind)
    PROVE  TypeOK'
<1> USE DEF TypeOK
<1>1. pc' \in [Calls -> {"idle"} \cup Active \cup Outcomes]
  BY DEF Submit, Active, Outcomes
<1>2. /\ call' \in [Calls -> Submissions \cup {None}]
      /\ \A d \in Calls : pc'[d] # "idle" => call'[d] # None
  <2>1. PICK given \in {None, snapshot} :
           call' = [call EXCEPT ![c] = [plane |-> p, key |-> k, body |-> b,
                                        kind |-> kind, base |-> given]]
    BY DEF Submit
  <2>2. call'[c] \in Submissions /\ None \notin Submissions
    BY <2>1, SubmissionsAssumption DEF Submissions, StoreTypeOK
  <2> QED
    BY <2>1, <2>2 DEF Submit
<1> QED
  BY <1>1, <1>2 DEF Submit, storeVars, planeVars, workVars, StoreTypeOK

LEMMA Submitted ==
    ASSUME TypeOK, NEW c \in Calls, pc[c] # "idle"
    PROVE  /\ call[c].plane \in Planes /\ call[c].key \in Keys \cup {NoKey}
           /\ call[c].body \in Bodies /\ call[c].kind \in Kinds
BY DEF TypeOK, Submissions

\* The two passes over the admission checks.
LEMMA AdmissionKeepsTypes ==
    ASSUME TypeOK, NEW c \in Calls, Precheck(c) \/ Recheck(c)
    PROVE  TypeOK'
<1> USE DEF TypeOK
<1>1. pc[c] # "idle" /\ pc[c] \in Active /\ Reloaded(call[c].plane) \in [Planes -> Caches]
  BY Submitted, ReloadTypes DEF Precheck, Recheck, Active
<1>2. CASE AdmissionEnds(c)
  <2>1. receipt' \in [Calls -> Calls \cup {None}]
    BY <1>2 DEF AdmissionEnds, Replay, Recorded
  <2>2. PICK outcome \in Outcomes : Return(c, outcome)
    BY <1>2 DEF AdmissionEnds, Replay, Outcomes
  <2>3. /\ permit' \in [Planes -> Calls \cup {None}]
        /\ pc' \in [Calls -> {"idle"} \cup Active \cup Outcomes]
        /\ base' \in [Calls -> SUBSET Calls] /\ result' \in [Calls -> Results]
        /\ committed' \in [Calls -> Caches]
        /\ \A d \in Calls \ {c} : pc'[d] = pc[d]
    BY <2>2, ReturnTypes
  <2> QED
    BY <1>1, <2>1, <2>3 DEF Precheck, Recheck, storeVars, planeVars, StoreTypeOK
<1>3. CASE AdmissionPasses(c)
           /\ pc' \in {[pc EXCEPT ![c] = "waiting"], [pc EXCEPT ![c] = "admissible"]}
           /\ base' \in {base, [base EXCEPT ![c] = snapshot]}
  BY <1>1, <1>3
  DEF Precheck, Recheck, AdmissionPasses, storeVars, planeVars, StoreTypeOK, Active
<1> QED
  BY <1>2, <1>3 DEF Precheck, Recheck

LEMMA CallKeepsTypes ==
    ASSUME TypeOK, NEW c \in Calls, CallNext(c)
    PROVE  TypeOK'
<1> USE DEF TypeOK
<1>1. /\ pc[c] # "idle" /\ Reloaded(call[c].plane) \in [Planes -> Caches]
      /\ \A s \in Active : [pc EXCEPT ![c] = s] \in [Calls -> {"idle"} \cup Active \cup Outcomes]
  <2>1. pc[c] # "idle"
    BY DEF CallNext, Precheck, Acquire, Recheck, ClaimWon, ClaimLost, ClaimFails, Validate,
       Apply, ApplyReturns, BackendInterrupted, WorkflowControl, CommitSucceeds,
       CommitConflicts, CommitRejected, CommitFails, Publish
  <2> QED
    BY <2>1, Submitted, ReloadTypes
<1>2. call[c].plane \in Planes /\ call[c].key \in Keys \cup {NoKey}
  BY <1>1, Submitted
<1>3. ASSUME NEW outcome \in Outcomes, Return(c, outcome)
      PROVE  /\ permit' \in [Planes -> Calls \cup {None}]
             /\ pc' \in [Calls -> {"idle"} \cup Active \cup Outcomes]
             /\ base' \in [Calls -> SUBSET Calls] /\ result' \in [Calls -> Results]
             /\ committed' \in [Calls -> Caches]
             /\ \A d \in Calls : pc'[d] # "idle" => pc[d] # "idle"
  BY <1>1, <1>3, ReturnTypes
<1>4. CASE Precheck(c) \/ Recheck(c)
  BY <1>4, AdmissionKeepsTypes
<1>5. CASE Acquire(c)
  BY <1>1, <1>2, <1>3, <1>5
  DEF Acquire, storeVars, planeVars, workVars, StoreTypeOK, Active, Outcomes
<1>6. CASE ClaimWon(c)
  <2>1. StoreTypeOK'
    BY <1>2, <1>6, StoreTypes DEF ClaimWon
  <2> QED
    BY <1>1, <1>6, <2>1 DEF ClaimWon, planeVars, workVars, Active
<1>7. CASE ClaimLost(c)
  <2>1. receipt' \in [Calls -> Calls \cup {None}]
    BY <1>7 DEF ClaimLost, Replay, Recorded
  <2>2. PICK outcome \in Outcomes : Return(c, outcome)
    BY <1>7 DEF ClaimLost, Replay, Outcomes
  <2> QED
    BY <1>3, <1>7, <2>1, <2>2 DEF ClaimLost, storeVars, planeVars, StoreTypeOK
<1>8. CASE ClaimFails(c)
  <2>1. StoreTypeOK'
    BY <1>2, <1>8, StoreTypes DEF ClaimFails, storeVars, StoreTypeOK
  <2> QED
    BY <1>3, <1>8, <2>1 DEF ClaimFails, planeVars, Outcomes
<1>9. CASE Validate(c) \/ ApplyReturns(c) \/ WorkflowControl(c)
  <2>1. /\ base[c] \in SUBSET Calls /\ base[c] \cup {c} \in SUBSET Calls
        /\ cache[call[c].plane].content \in SUBSET Calls
    BY <1>2 DEF Caches
  <2>2. \/ pc' = [pc EXCEPT ![c] = "validated"] /\ UNCHANGED result
        \/ \E status \in {"succeeded", "failed"}, mode \in Modes, content \in SUBSET Calls :
              ToCommit(c, status, mode, content)
    BY <1>9, <2>1 DEF Validate, ApplyReturns, WorkflowControl, Modes
  <2>3. result' \in [Calls -> Results] /\ \E s \in Active : pc' = [pc EXCEPT ![c] = s]
    BY <2>2 DEF ToCommit, Results, Active
  <2> QED
    BY <1>1, <1>9, <2>3
    DEF Validate, ApplyReturns, WorkflowControl, storeVars, planeVars, StoreTypeOK
<1>10. CASE Apply(c)
  <2>1. cache[call[c].plane].content \in SUBSET Calls
    BY <1>2 DEF Caches
  <2>2. base' \in [Calls -> SUBSET Calls]
    BY <1>10, <2>1 DEF Apply
  <2>3. invoked' \in SUBSET Calls /\ pc' \in [Calls -> {"idle"} \cup Active \cup Outcomes]
    BY <1>1, <1>10 DEF Apply, Active
  <2>4. \A d \in Calls : pc'[d] # "idle" => pc[d] # "idle"
    BY <1>1, <1>10 DEF Apply
  <2> QED
    BY <1>10, <2>2, <2>3, <2>4 DEF Apply, storeVars, planeVars, StoreTypeOK
<1>11. CASE BackendInterrupted(c)
  BY <1>3, <1>11 DEF BackendInterrupted, storeVars, planeVars, StoreTypeOK, Outcomes
<1>12. CASE CommitSucceeds(c)
  <2>1. StoreTypeOK'
    BY <1>12, StoreTypes DEF CommitSucceeds
  <2> QED
    BY <1>1, <1>12, <2>1 DEF CommitSucceeds, planeVars, StoreTypeOK, Caches, Active
<1>13. CASE CommitConflicts(c)
  BY <1>1, <1>3, <1>13 DEF CommitConflicts, storeVars, planeVars, StoreTypeOK, Outcomes
<1>14. CASE CommitRejected(c) \/ CommitFails(c)
  <2>1. StoreTypeOK'
    BY <1>14, StoreTypes DEF CommitRejected, CommitFails, storeVars, StoreTypeOK
  <2>2. /\ Return(c, "error")
        /\ poisoned' \in {poisoned, poisoned \cup {call[c].plane}}
        /\ cache' \in {cache, [cache EXCEPT ![call[c].plane] =
                                  [content |-> snapshot', revision |-> revision']]}
    BY <1>14 DEF CommitRejected, CommitFails, Resynchronize
  <2>3. [content |-> snapshot', revision |-> revision'] \in Caches
    BY <2>1 DEF StoreTypeOK, Caches
  <2>4. poisoned' \in SUBSET Planes /\ cache' \in [Planes -> Caches]
    BY <1>2, <2>2, <2>3
  <2> QED
    BY <1>3, <1>14, <2>1, <2>2, <2>4 DEF CommitRejected, CommitFails, Outcomes
<1>15. CASE Publish(c)
  <2>1. \E outcome \in Outcomes : Return(c, outcome)
    BY <1>15 DEF Publish, Outcomes
  <2> QED
    BY <1>2, <1>3, <1>15, <2>1 DEF Publish, storeVars, planeVars, StoreTypeOK
<1> QED
  BY <1>4, <1>5, <1>6, <1>7, <1>8, <1>9, <1>10, <1>11, <1>12, <1>13, <1>14, <1>15 DEF CallNext

LEMMA StepKeepsTypes == TypeOK /\ [Next]_vars => TypeOK'
<1>1. CASE TypeOK /\ UNCHANGED vars
  BY <1>1 DEF vars, storeVars, planeVars, callVars, workVars, TypeOK, StoreTypeOK
<1> QED
  BY <1>1, PlaneKeepsTypes, SubmitKeepsTypes, CallKeepsTypes DEF Next

\* Every plane, call and record has one of its states, and the revision stays
\* within the store's range, whatever fails.
THEOREM TypeCorrect == Spec => []TypeOK
BY InitialTypes, StepKeepsTypes, PTL DEF Spec

-----------------------------------------------------------------------------
(* How a step moves the calls and the store                                *)

\* The order of the stages of a call.
Flow ==
    ({"idle"} \X {"admitted", "waiting", "refused"})
    \cup (Active \X {"error", "lost"})
    \cup ({"admitted", "owned", "admissible"} \X {"replayed", "conflict", "rejected"})
    \cup {<<"admitted", "waiting">>, <<"waiting", "owned">>, <<"owned", "admissible">>,
          <<"claimed", "validated">>, <<"claimed", "applying">>, <<"validated", "applying">>,
          <<"claimed", "committing">>, <<"applying", "committing">>, <<"publishing", "ok">>}

\* A step that writes no record, or the claim or the commit of one call.
Unwritten ==
    /\ UNCHANGED storeVars
    /\ \A d \in Calls : pc'[d] # pc[d] => <<pc[d], pc'[d]>> \in Flow
Claims(c) ==
    /\ pc[c] = "admissible" /\ ClaimRecord(c, call[c].key)
    /\ pc' \in {[pc EXCEPT ![c] = "claimed"], [pc EXCEPT ![c] = "error"]}
    /\ UNCHANGED <<call, invoked, receipt>>
Commits(c) ==
    /\ pc[c] = "committing" /\ CommitTerminalOperation(c, result[c], ExpectedRevision(c))
    /\ pc' \in {[pc EXCEPT ![c] = "publishing"], [pc EXCEPT ![c] = "error"]}
    /\ UNCHANGED <<call, invoked, receipt>>

\* Every step is of one of these kinds; only a submission writes a call, only a
\* backend call adds to invoked.
LEMMA StepKinds ==
    ASSUME TypeOK, [Next]_vars
    PROVE  /\ Unwritten \/ (\E c \in Calls : Claims(c) \/ Commits(c))
           /\ \A d \in Calls : pc[d] # "idle" => call'[d] = call[d]
           /\ \A d \in invoked' \ invoked : d \in Calls /\ pc[d] \in {"claimed", "validated"}
<1> USE DEF TypeOK
<1>1. CASE UNCHANGED vars
  BY <1>1 DEF vars, callVars, Unwritten
<1>2. CASE \E p \in Planes : PlaneNext(p)
  <2> PICK p \in Planes : PlaneNext(p)
    BY <1>2
  <2>1. UNCHANGED <<storeVars, call, invoked>> /\ (Crash(p) \/ UNCHANGED pc)
    BY DEF PlaneNext, Open, BeginClose, CloseInterrupted, FinishClose, Crash, Read, callVars
  <2>2. \A d \in Calls : pc'[d] # pc[d] => pc[d] \in Active /\ pc'[d] = "lost"
    BY <2>1 DEF Crash, ActiveCalls
  <2> QED
    BY <2>1, <2>2 DEF Unwritten, Flow
<1>3. ASSUME NEW c \in Calls, NEW p \in Planes, NEW k \in Keys \cup {NoKey}, NEW b \in Bodies,
             NEW kind \in Kinds, Submit(c, p, k, b, kind)
      PROVE  Unwritten /\ (\A d \in Calls : pc[d] # "idle" => call'[d] = call[d])
             /\ invoked' = invoked
  BY <1>3 DEF Submit, Unwritten, Flow
<1>4. ASSUME NEW c \in Calls, CallNext(c)
      PROVE  /\ Unwritten \/ Claims(c) \/ Commits(c)
             /\ call' = call
             /\ invoked' # invoked => /\ invoked' = invoked \cup {c}
                                      /\ pc[c] \in {"claimed", "validated"}
  <2>1. CASE Precheck(c) \/ Recheck(c)
    BY <2>1 DEF Precheck, Recheck, AdmissionEnds, AdmissionPasses, Replay, Return, Unwritten,
       Flow, Active
  <2>2. CASE Acquire(c) \/ ClaimLost(c)
    BY <2>2 DEF Acquire, ClaimLost, Replay, Return, Unwritten, Flow, Active
  <2>3. CASE ClaimWon(c)
    BY <2>3 DEF ClaimWon, Claims
  <2>4. CASE ClaimFails(c)
    BY <2>4 DEF ClaimFails, Claims, Return, Unwritten, Flow, Active
  <2>5. CASE Validate(c) \/ ApplyReturns(c) \/ WorkflowControl(c)
    BY <2>5 DEF Validate, ApplyReturns, WorkflowControl, ToCommit, Unwritten, Flow, Active
  <2>6. CASE Apply(c) \/ BackendInterrupted(c)
    BY <2>6 DEF Apply, BackendInterrupted, Return, Unwritten, Flow, Active
  <2>7. CASE CommitSucceeds(c)
    BY <2>7 DEF CommitSucceeds, Commits
  <2>8. CASE CommitConflicts(c) \/ CommitRejected(c)
    BY <2>8 DEF CommitConflicts, CommitRejected, Resynchronize, Return, Unwritten, Flow, Active
  <2>9. CASE CommitFails(c)
    BY <2>9 DEF CommitFails, Commits, Resynchronize, Return, Unwritten, Flow, Active
  <2>10. CASE Publish(c)
    BY <2>10 DEF Publish, Return, Unwritten, Flow, Active
  <2> QED
    BY <1>4, <2>1, <2>2, <2>3, <2>4, <2>5, <2>6, <2>7, <2>8, <2>9,
       <2>10 DEF CallNext
<1> QED
  BY <1>1, <1>2, <1>3, <1>4 DEF Next

-----------------------------------------------------------------------------
(* Records, keys and audits                                                *)

\* The record of an operation follows its call, from the claim to the commit.
LEMMA RecordsKept ==
    ASSUME TypeOK, RecordInv, [Next]_vars
    PROVE  RecordInv'
<1>1. \A d \in Calls : pc[d] # "idle" => call'[d] = call[d]
  BY StepKinds
<1>2. CASE Unwritten
  <2> SUFFICES ASSUME NEW d \in Calls
               PROVE  RecordInv!(d)'
    BY DEF RecordInv
  <2>1. pc'[d] = pc[d] \/ <<pc[d], pc'[d]>> \in Flow
    BY <1>2 DEF Unwritten
  <2>2. state'[d] = state[d] /\ recordKey'[d] = recordKey[d]
    BY <1>2 DEF Unwritten, storeVars
  <2> QED
    BY <1>1, <2>1, <2>2 DEF RecordInv, Flow, Active
<1>3. ASSUME NEW c \in Calls, Claims(c)
      PROVE  RecordInv'
  BY <1>3 DEF Claims, ClaimRecord, RecordInv, TypeOK, StoreTypeOK, Terminal, LegalTransitions
<1>4. ASSUME NEW c \in Calls, Commits(c)
      PROVE  RecordInv'
  <2>1. result[c].status \in {"succeeded", "failed"}
    BY DEF TypeOK, Results
  <2> QED
    BY <1>4, <2>1 DEF Commits, CommitTerminalOperation, RecordInv, TypeOK, StoreTypeOK, Terminal
<1> QED
  BY <1>2, <1>3, <1>4, StepKinds

\* claim_record finds the key inside its transaction, so no key gets a second
\* record.
LEMMA KeysKept ==
    ASSUME TypeOK, KeyInv, [Next]_vars
    PROVE  KeyInv'
<1>1. CASE Unwritten
  BY <1>1 DEF Unwritten, storeVars, KeyInv
<1>2. ASSUME NEW c \in Calls, Claims(c)
      PROVE  KeyInv'
  <2> DEFINE k == call[c].key
  <2>1. /\ \A o \in Calls : k # NoKey /\ state[o] # "none" => recordKey[o] # k
        /\ state' = [state EXCEPT ![c] = "running"]
        /\ recordKey' = [recordKey EXCEPT ![c] = k]
    BY <1>2 DEF Claims, ClaimRecord, Recorded
  <2> QED
    BY <2>1 DEF KeyInv, TypeOK, StoreTypeOK
<1>3. ASSUME NEW c \in Calls, Commits(c)
      PROVE  KeyInv'
  <2>1. state[c] # "none" /\ recordKey' = recordKey
        /\ \A d \in Calls : d # c => state'[d] = state[d]
    BY <1>3 DEF Commits, CommitTerminalOperation, LegalTransitions, TypeOK, StoreTypeOK, Results
  <2> QED
    BY <2>1 DEF KeyInv, TypeOK, StoreTypeOK
<1> QED
  BY <1>1, <1>2, <1>3, StepKinds

\* A backend is called by a call whose record is running.
LEMMA EffectsKept ==
    ASSUME TypeOK, RecordInv, ClaimPrecedesEffect, [Next]_vars
    PROVE  ClaimPrecedesEffect'
<1>1. \A d \in invoked' : d \in Calls /\ state[d] # "none"
  BY StepKinds DEF ClaimPrecedesEffect, RecordInv, TypeOK
<1>2. \A d \in Calls : state[d] # "none" => state'[d] # "none"
  <2>1. ASSUME NEW c \in Calls, Commits(c)
        PROVE  state'[c] # "none" /\ \A d \in Calls : d # c => state'[d] = state[d]
    BY <2>1 DEF Commits, CommitTerminalOperation, TypeOK, StoreTypeOK, Results
  <2>2. ASSUME NEW c \in Calls, Claims(c)
        PROVE  state'[c] # "none" /\ \A d \in Calls : d # c => state'[d] = state[d]
    BY <2>2 DEF Claims, ClaimRecord, TypeOK, StoreTypeOK
  <2> QED
    BY <2>1, <2>2, StepKinds DEF Unwritten, storeVars
<1> QED
  BY <1>1, <1>2 DEF ClaimPrecedesEffect

\* The audit event is written with the terminal record, once.
LEMMA AuditsKept ==
    ASSUME TypeOK, RecordInv, TerminalIsAudited, [Next]_vars
    PROVE  TerminalIsAudited'
<1>1. \A d \in Calls : pc'[d] = "ok" => state'[d] \in Terminal
  BY RecordsKept DEF RecordInv
<1>2. \A d \in Calls : audits[d] = IF state[d] \in Terminal THEN 1 ELSE 0
  BY DEF TerminalIsAudited
<1>3. CASE Unwritten
  BY <1>1, <1>2, <1>3 DEF Unwritten, storeVars, TerminalIsAudited
<1>4. ASSUME NEW c \in Calls, Claims(c)
      PROVE  \A d \in Calls : audits'[d] = IF state'[d] \in Terminal THEN 1 ELSE 0
  BY <1>2, <1>4 DEF Claims, ClaimRecord, LegalTransitions, TypeOK, StoreTypeOK, Terminal
<1>5. ASSUME NEW c \in Calls, Commits(c)
      PROVE  \A d \in Calls : audits'[d] = IF state'[d] \in Terminal THEN 1 ELSE 0
  <2>1. state[c] = "running" /\ audits[c] = 0
    BY <1>2, <1>5 DEF Commits, RecordInv, Terminal
  <2>2. result[c].status \in {"succeeded", "failed"}
    BY DEF TypeOK, Results
  <2> QED
    BY <1>2, <1>5, <2>1, <2>2
    DEF Commits, CommitTerminalOperation, TypeOK, StoreTypeOK, Terminal
<1> QED
  BY <1>1, <1>3, <1>4, <1>5, StepKinds DEF TerminalIsAudited

\* A receipt is the call's own once its commit is published, or the recorded one
\* that its request matches.
LEMMA ReceiptSteps ==
    ASSUME TypeOK, [Next]_vars, NEW d \in Calls, receipt'[d] # receipt[d]
    PROVE  \/ pc[d] = "publishing" /\ pc'[d] = "ok" /\ receipt'[d] = d
           \/ /\ pc[d] # "idle" /\ pc'[d] = "replayed"
              /\ \E o \in Recorded(call[d].key) : MatchesRecord(d, o) /\ receipt'[d] = o
<1> USE DEF TypeOK
<1>1. PICK c \in Calls : CallNext(c)
  <2>1. ~(UNCHANGED vars)
    BY DEF vars, callVars
  <2>2. ASSUME NEW p \in Planes, PlaneNext(p)
        PROVE  receipt' = receipt
    BY <2>2 DEF PlaneNext, Open, BeginClose, CloseInterrupted, FinishClose, Crash, Read, callVars
  <2> QED
    BY <2>1, <2>2 DEF Next, Submit
<1>2. Precheck(c) \/ Recheck(c) \/ ClaimLost(c) \/ Publish(c)
  BY <1>1 DEF CallNext, Acquire, ClaimWon, ClaimFails, Validate, Apply, ApplyReturns,
     BackendInterrupted, WorkflowControl, CommitSucceeds, CommitConflicts, CommitRejected,
     CommitFails
<1>3. CASE Publish(c)
  BY <1>3 DEF Publish, Return
<1>4. CASE Precheck(c) \/ Recheck(c) \/ ClaimLost(c)
  <2>1. pc[c] # "idle" /\ \E o \in Recorded(call[c].key) : Replay(c, o)
    BY <1>4 DEF Precheck, Recheck, ClaimLost, AdmissionEnds, AdmissionPasses
  <2> QED
    BY <2>1 DEF Replay, Return
<1> QED
  BY <1>2, <1>3, <1>4

LEMMA ReceiptsKept ==
    ASSUME TypeOK, ReceiptInv, [Next]_vars
    PROVE  ReceiptInv'
<1> SUFFICES ASSUME NEW d \in Calls, receipt'[d] # None
             PROVE  pc'[d] \in {"replayed", "ok"}
  BY DEF ReceiptInv
<1>1. CASE receipt'[d] # receipt[d]
  BY <1>1, ReceiptSteps
<1>2. CASE receipt'[d] = receipt[d]
  <2>1. pc[d] \in {"replayed", "ok"}
    BY <1>2 DEF ReceiptInv
  <2>2. pc'[d] = pc[d]
    BY <2>1, StepKinds DEF Unwritten, Claims, Commits, Flow, Active, TypeOK
  <2> QED
    BY <2>1, <2>2
<1> QED
  BY <1>1, <1>2

-----------------------------------------------------------------------------
(* Snapshot, revision and the pairs in memory                              *)

\* What commit_terminal_operation does to the durable cut.
LEMMA CutSteps ==
    ASSUME TypeOK, [Next]_vars
    PROVE  \/ UNCHANGED <<snapshot, revision>>
           \/ /\ revision' = revision + 1
              /\ \E c \in Calls : /\ pc[c] = "committing" /\ pc'[c] \in {"publishing", "error"}
                                  /\ snapshot' = result[c].content
BY StepKinds
DEF Unwritten, storeVars, Claims, ClaimRecord, Commits, CommitTerminalOperation, TypeOK

\* Where the cached pair of a plane comes from: the store as this step leaves it,
\* the pair of a commit, or nowhere once the plane has ended.
LEMMA CacheSteps ==
    ASSUME TypeOK, [Next]_vars, NEW p \in Planes, cache'[p] # cache[p]
    PROVE  \/ cache'[p] = [content |-> snapshot', revision |-> revision']
           \/ cache'[p] = EmptyCut /\ plane'[p] \notin {"open", "closing"}
           \/ \E c \in Calls : pc[c] = "publishing" /\ call[c].plane = p /\ cache'[p] = committed[c]
<1> USE DEF TypeOK
<1>1. ~(UNCHANGED vars)
  BY DEF vars
<1>2. ASSUME NEW q \in Planes, PlaneNext(q)
      PROVE  \/ cache'[p] = [content |-> snapshot', revision |-> revision']
             \/ cache'[p] = EmptyCut /\ plane'[p] \notin {"open", "closing"}
  BY <1>2 DEF PlaneNext, Open, BeginClose, CloseInterrupted, FinishClose, Crash, Read, Forget,
     Reloaded, storeVars
<1>3. ASSUME NEW c \in Calls, CallNext(c)
      PROVE  \/ cache'[p] = [content |-> snapshot', revision |-> revision']
             \/ pc[c] = "publishing" /\ call[c].plane = p /\ cache'[p] = committed[c]
  <2>1. \/ Precheck(c) \/ Recheck(c) \/ CommitConflicts(c) \/ Publish(c)
        \/ CommitRejected(c) \/ CommitFails(c)
    BY <1>3 DEF CallNext, Acquire, ClaimWon, ClaimLost, ClaimFails, Validate, Apply,
       ApplyReturns, BackendInterrupted, WorkflowControl, CommitSucceeds
  <2>2. CASE Precheck(c) \/ Recheck(c) \/ CommitConflicts(c)
    BY <2>2 DEF Precheck, Recheck, CommitConflicts, Reloaded, storeVars
  <2>3. CASE CommitRejected(c) \/ CommitFails(c)
    BY <2>3 DEF CommitRejected, CommitFails, Resynchronize
  <2>4. CASE Publish(c)
    BY <2>4 DEF Publish
  <2> QED
    BY <2>1, <2>2, <2>3, <2>4
<1> QED
  BY <1>1, <1>2, <1>3 DEF Next, Submit

\* The pair that _publish_committed_state gets is the one its commit returned.
LEMMA CommittedSteps ==
    ASSUME TypeOK, [Next]_vars, NEW d \in Calls, pc'[d] = "publishing"
    PROVE  \/ pc[d] = "publishing" /\ committed'[d] = committed[d]
           \/ committed'[d] = [content |-> snapshot', revision |-> revision']
<1> USE DEF TypeOK
<1>1. CASE UNCHANGED vars
  BY <1>1 DEF vars, callVars, workVars
<1>2. ASSUME NEW q \in Planes, PlaneNext(q)
      PROVE  pc[d] = "publishing" /\ committed'[d] = committed[d]
  <2>1. CASE Crash(q)
    BY <2>1 DEF Crash, ActiveCalls
  <2> QED
    BY <1>2, <2>1
    DEF PlaneNext, Open, BeginClose, CloseInterrupted, FinishClose, Read, callVars, workVars
<1>3. ASSUME NEW c \in Calls, CallNext(c)
      PROVE  \/ pc[d] = "publishing" /\ committed'[d] = committed[d]
             \/ committed'[d] = [content |-> snapshot', revision |-> revision']
  <2>1. CASE CommitSucceeds(c)
    BY <2>1 DEF CommitSucceeds
  <2>2. CASE UNCHANGED committed /\ c # d /\ \A e \in Calls \ {c} : pc'[e] = pc[e]
    BY <2>2
  <2>3. CASE Return(c, "error") \/ Return(c, "ok")
    BY <2>3 DEF Return
  <2>4. CASE Precheck(c) \/ Recheck(c) \/ ClaimLost(c)
    BY <2>4 DEF Precheck, Recheck, ClaimLost, AdmissionEnds, AdmissionPasses, Replay, Return
  <2> QED
    BY <1>3, <2>1, <2>2, <2>3, <2>4
    DEF CallNext, Acquire, ClaimWon, ClaimFails, Validate, Apply, ApplyReturns, ToCommit,
        BackendInterrupted, WorkflowControl, CommitConflicts, CommitRejected, CommitFails,
        Resynchronize, Publish, workVars
<1> QED
  BY <1>1, <1>2, <1>3 DEF Next, Submit, workVars

LEMMA CutKept ==
    ASSUME TypeOK, CutInv, [Next]_vars
    PROVE  CutInv'
<1>1. /\ revision \in Nat /\ revision' \in Nat
      /\ UNCHANGED <<snapshot, revision>> \/ revision' = revision + 1
  BY CutSteps, StepKeepsTypes, RevisionAssumption DEF TypeOK, StoreTypeOK
<1> DEFINE PairedNow(cut) ==
      cut.revision <= revision' /\ (cut.revision = revision' => cut.content = snapshot')
<1>2. \A cut \in Caches : Paired(cut) => PairedNow(cut)
  BY <1>1 DEF Paired, Caches
<1>3. revision' = 0 => snapshot' = {}
  BY <1>1 DEF CutInv
<1>4. PairedNow([content |-> snapshot', revision |-> revision']) /\ PairedNow(EmptyCut)
  BY <1>1, <1>3 DEF EmptyCut
<1> HIDE DEF PairedNow
<1>5. ASSUME NEW p \in Planes
      PROVE  PairedNow(cache'[p])
  BY <1>2, <1>4, CacheSteps DEF CutInv, TypeOK
<1>6. ASSUME NEW c \in Calls, pc'[c] = "publishing"
      PROVE  PairedNow(committed'[c])
  BY <1>2, <1>4, <1>6, CommittedSteps DEF CutInv, TypeOK
<1> QED
  BY <1>3, <1>5, <1>6 DEF CutInv, Paired, PairedNow

-----------------------------------------------------------------------------
(* Ownership of the store and of the permit                                *)

\* A step of a call is the step of a call under way: it returns, or acquires the
\* permit, or goes on with or without it.  Only a returning commit poisons.
LEMMA CallShapes ==
    ASSUME TypeOK, NEW c \in Calls, CallNext(c)
    PROVE  /\ pc[c] \in Active /\ UNCHANGED <<call, plane, lease>>
           /\ \/ \E outcome \in Outcomes : Return(c, outcome)
              \/ /\ pc[c] = "waiting" /\ permit[call[c].plane] = None
                 /\ call[c].plane \notin poisoned
                 /\ pc' = [pc EXCEPT ![c] = "owned"]
                 /\ permit' = [permit EXCEPT ![call[c].plane] = c]
              \/ /\ \E s \in Active : pc' = [pc EXCEPT ![c] = s] /\ (s \in Holding <=> pc[c] \in Holding)
                 /\ UNCHANGED permit
           /\ \/ UNCHANGED poisoned
              \/ /\ poisoned' = poisoned \cup {call[c].plane}
                 /\ pc[c] = "committing" /\ Return(c, "error")
<1> USE DEF Active, Holding, Outcomes
<1>1. CASE Precheck(c) \/ Recheck(c) \/ ClaimLost(c)
  BY <1>1 DEF Precheck, Recheck, ClaimLost, AdmissionEnds, AdmissionPasses, Replay, planeVars
<1>2. CASE Acquire(c) \/ ClaimWon(c) \/ ClaimFails(c) \/ BackendInterrupted(c)
  BY <1>2 DEF Acquire, ClaimWon, ClaimFails, BackendInterrupted, planeVars
<1>3. CASE Validate(c) \/ Apply(c) \/ ApplyReturns(c) \/ WorkflowControl(c)
  BY <1>3 DEF Validate, Apply, ApplyReturns, WorkflowControl, ToCommit, planeVars
<1>4. CASE CommitSucceeds(c) \/ CommitConflicts(c) \/ Publish(c)
  BY <1>4 DEF CommitSucceeds, CommitConflicts, Publish, planeVars
<1>5. CASE CommitRejected(c) \/ CommitFails(c)
  BY <1>5 DEF CommitRejected, CommitFails, Resynchronize
<1> QED
  BY <1>1, <1>2, <1>3, <1>4, <1>5 DEF CallNext

\* A plane lets go of the store only after its last call has returned or died
\* with it, and a call is admitted only by an open plane.
LEMMA LifeKept ==
    ASSUME TypeOK, LifeInv, [Next]_vars
    PROVE  LifeInv'
<1> USE BodiesAssumption DEF TypeOK
<1>1. CASE UNCHANGED vars
  BY <1>1 DEF vars, planeVars, callVars, LifeInv, ActiveCalls
<1>2. ASSUME NEW p \in Planes, PlaneNext(p)
      PROVE  LifeInv'
  <2>1. CASE Open(p)
    BY <2>1 DEF Open, LifeInv, ActiveCalls, callVars
  <2>2. CASE BeginClose(p) \/ CloseInterrupted(p)
    BY <2>2 DEF BeginClose, CloseInterrupted, LifeInv, ActiveCalls, callVars
  <2>3. CASE FinishClose(p)
    BY <2>3 DEF FinishClose, LifeInv, ActiveCalls, callVars
  <2>4. CASE Crash(p)
    <3>1. \A q \in Planes : ActiveCalls(q)' = IF q = p THEN {} ELSE ActiveCalls(q)
      BY <2>4 DEF Crash, ActiveCalls, Active
    <3> QED
      BY <2>4, <3>1 DEF Crash, LifeInv
  <2>5. CASE Read(p)
    BY <2>5 DEF Read, LifeInv, ActiveCalls, callVars, planeVars
  <2> QED
    BY <1>2, <2>1, <2>2, <2>3, <2>4, <2>5 DEF PlaneNext
<1>3. ASSUME NEW c \in Calls, NEW p \in Planes, NEW k \in Keys \cup {NoKey}, NEW b \in Bodies,
             NEW kind \in Kinds, Submit(c, p, k, b, kind)
      PROVE  LifeInv'
  <2>1. \A q \in Planes : plane[q] # "open" => ActiveCalls(q)' \subseteq ActiveCalls(q)
    BY <1>3 DEF Submit, ActiveCalls, Active, RuntimeCallAdmitted
  <2> QED
    BY <1>3, <2>1 DEF Submit, LifeInv, planeVars
<1>4. ASSUME NEW c \in Calls, CallNext(c)
      PROVE  LifeInv'
  <2>1. \A d \in Calls : pc'[d] \in Active => pc[d] \in Active
    BY <1>4, CallShapes DEF Return
  <2>2. \A q \in Planes : ActiveCalls(q)' \subseteq ActiveCalls(q)
    BY <1>4, <2>1, CallShapes DEF ActiveCalls
  <2> QED
    BY <1>4, <2>2, CallShapes DEF LifeInv
<1> QED
  BY <1>1, <1>2, <1>3, <1>4 DEF Next

\* The permit passes from call to call: nobody is past the wait without it, and
\* the call that poisons its plane gives it up in the same step.
LEMMA PermitKept ==
    ASSUME TypeOK, PermitInv, [Next]_vars
    PROVE  PermitInv'
<1> USE BodiesAssumption DEF TypeOK
<1>1. CASE UNCHANGED vars
  BY <1>1 DEF vars, planeVars, callVars, PermitInv
<1>2. ASSUME NEW p \in Planes, PlaneNext(p)
      PROVE  PermitInv'
  <2>1. CASE Crash(p)
    <3>1. \A c \in Calls : pc'[c] \in Holding => pc'[c] = pc[c] /\ call[c].plane # p
      BY <2>1 DEF Crash, ActiveCalls, Active, Holding
    <3>2. \A c \in Calls : pc[c] \in Holding /\ call[c].plane # p => pc'[c] = pc[c]
      BY <2>1 DEF Crash, ActiveCalls
    <3> QED
      BY <2>1, <3>1, <3>2 DEF Crash, PermitInv
  <2>2. CASE UNCHANGED <<permit, poisoned, pc, call>>
    BY <2>2 DEF PermitInv
  <2> QED
    BY <1>2, <2>1, <2>2
    DEF PlaneNext, Open, BeginClose, CloseInterrupted, FinishClose, Read, callVars, planeVars
<1>3. ASSUME NEW c \in Calls, NEW p \in Planes, NEW k \in Keys \cup {NoKey}, NEW b \in Bodies,
             NEW kind \in Kinds, Submit(c, p, k, b, kind)
      PROVE  PermitInv'
  BY <1>3 DEF Submit, PermitInv, planeVars, Holding
<1>4. ASSUME NEW c \in Calls, CallNext(c)
      PROVE  PermitInv'
  <2>1. call[c].plane \in Planes /\ call' = call /\ pc[c] \in Active
    BY <1>4, Submitted, CallShapes DEF Active
  <2>2. CASE \E outcome \in Outcomes : Return(c, outcome)
    <3>1. pc'[c] \notin Holding /\ \A d \in Calls : d # c => pc'[d] = pc[d]
      BY <2>2 DEF Return, Outcomes, Holding
    <3>2. \A p \in Planes : permit'[p] = IF permit[p] = c THEN None ELSE permit[p]
      BY <2>2 DEF Return
    <3>3. \A p \in Planes : permit[p] = c => p = call[c].plane
      BY DEF PermitInv
    <3>4. \A p \in poisoned' : permit'[p] = None
      <4>1. poisoned' # poisoned => permit'[call[c].plane] = None
        BY <1>4, <2>1, <3>2, CallShapes DEF PermitInv, Holding
      <4> QED
        BY <1>4, <2>1, <3>2, <4>1, CallShapes DEF PermitInv
    <3>5. \A d \in Calls : pc'[d] \in Holding => permit'[call[d].plane] = d
      <4>1. \A d \in Calls : pc[d] \in Holding => call[d].plane \in Planes
        BY Submitted DEF Holding
      <4> QED
        BY <3>1, <3>2, <4>1 DEF PermitInv
    <3> QED
      BY <2>1, <3>1, <3>2, <3>4, <3>5 DEF PermitInv
  <2>3. CASE /\ pc[c] = "waiting" /\ permit[call[c].plane] = None
             /\ call[c].plane \notin poisoned
             /\ pc' = [pc EXCEPT ![c] = "owned"]
             /\ permit' = [permit EXCEPT ![call[c].plane] = c]
    <3>1. poisoned' = poisoned
      BY <1>4, <2>3, CallShapes DEF Return
    <3> QED
      BY <2>1, <2>3, <3>1 DEF PermitInv, Holding
  <2>4. CASE /\ \E s \in Active : pc' = [pc EXCEPT ![c] = s] /\ (s \in Holding <=> pc[c] \in Holding)
             /\ UNCHANGED permit
    <3>1. CASE UNCHANGED poisoned
      BY <2>1, <2>4, <3>1 DEF PermitInv
    <3>2. CASE Return(c, "error")
      BY <2>2, <3>2 DEF Outcomes
    <3> QED
      BY <1>4, <3>1, <3>2, CallShapes
  <2> QED
    BY <1>4, <2>2, <2>3, <2>4, CallShapes
<1> QED
  BY <1>1, <1>2, <1>3, <1>4 DEF Next

-----------------------------------------------------------------------------
(* The base of a call on a leased store                                    *)

\* The calls that have captured the snapshot they start from.
Based == {"admissible", "claimed", "validated", "applying", "committing"}

\* What a call's work is derived from: the snapshot at the recheck, or the cached
\* one at the backend call, and a result from either.
LEMMA WorkSteps ==
    ASSUME TypeOK, [Next]_vars, NEW d \in Calls, pc'[d] \in Based
    PROVE  \/ /\ pc[d] = "owned" /\ pc'[d] = "admissible"
              /\ UNCHANGED <<call, snapshot, revision>>
              /\ base'[d] = snapshot
              /\ cache'[call[d].plane] = [content |-> snapshot, revision |-> revision]
           \/ /\ pc[d] \in Based /\ call'[d] = call[d]
              /\ base'[d] \in {base[d], cache[call[d].plane].content}
              /\ pc'[d] = "committing" =>
                    \/ pc[d] = "committing" /\ result'[d] = result[d]
                    \/ result'[d].content \in {base[d], base[d] \cup {d}, cache[call[d].plane].content}
<1> USE DEF TypeOK, Based
<1> DEFINE Stays == /\ pc[d] \in Based /\ call'[d] = call[d] /\ base'[d] = base[d]
                    /\ pc'[d] = pc[d] /\ result'[d] = result[d]
<1>1. CASE UNCHANGED vars
  BY <1>1 DEF vars, callVars, workVars
<1>2. ASSUME NEW q \in Planes, PlaneNext(q)
      PROVE  Stays
  <2>1. CASE Crash(q)
    BY <2>1 DEF Crash, ActiveCalls
  <2> QED
    BY <1>2, <2>1
    DEF PlaneNext, Open, BeginClose, CloseInterrupted, FinishClose, Read, callVars, workVars
<1>3. ASSUME NEW c \in Calls, NEW p \in Planes, NEW k \in Keys \cup {NoKey}, NEW b \in Bodies,
             NEW kind \in Kinds, Submit(c, p, k, b, kind)
      PROVE  Stays
  BY <1>3 DEF Submit, workVars
<1>4. ASSUME NEW c \in Calls, CallNext(c), c # d
      PROVE  Stays
  <2>1. /\ call' = call /\ pc'[d] = pc[d]
    BY <1>4, CallShapes DEF Return
  <2>2. base'[d] = base[d] /\ result'[d] = result[d]
    <3>1. CASE \E outcome \in Outcomes : Return(c, outcome)
      BY <1>4, <3>1 DEF Return
    <3>2. CASE Precheck(c) \/ Recheck(c) \/ ClaimLost(c) \/ Acquire(c)
      BY <1>4, <3>2 DEF Precheck, Recheck, ClaimLost, Acquire, AdmissionEnds, AdmissionPasses,
         Replay, Return, workVars
    <3>3. CASE Validate(c) \/ Apply(c) \/ ApplyReturns(c) \/ WorkflowControl(c)
      BY <1>4, <3>3 DEF Validate, Apply, ApplyReturns, WorkflowControl, ToCommit
    <3> QED
      BY <1>4, <3>1, <3>2, <3>3
      DEF CallNext, ClaimWon, ClaimFails, BackendInterrupted, CommitSucceeds, CommitConflicts,
          CommitRejected, CommitFails, Resynchronize, Publish, workVars, Outcomes
  <2> QED
    BY <2>1, <2>2
<1>5. CASE CallNext(d)
  <2>1. ~\E outcome \in Outcomes : Return(d, outcome)
    BY DEF Return, Outcomes
  <2>2. CASE Recheck(d)
    <3>1. ~AdmissionEnds(d) /\ call[d].plane \in Planes
      BY <2>1, <2>2, Submitted DEF AdmissionEnds, Replay, Outcomes, Recheck
    <3> QED
      BY <2>2, <3>1 DEF Recheck, Reloaded, storeVars
  <2>3. CASE ClaimWon(d)
    BY <2>3 DEF ClaimWon, workVars
  <2>4. CASE Validate(d) \/ ApplyReturns(d) \/ WorkflowControl(d)
    BY <2>4 DEF Validate, ApplyReturns, WorkflowControl, ToCommit
  <2>5. CASE Apply(d)
    BY <2>5 DEF Apply
  <2>6. Recheck(d) \/ ClaimWon(d) \/ Validate(d) \/ ApplyReturns(d) \/ WorkflowControl(d) \/ Apply(d)
    BY <1>5, <2>1 DEF CallNext, Precheck, Acquire, AdmissionEnds, Replay, ClaimLost, ClaimFails,
       BackendInterrupted, CommitSucceeds, CommitConflicts, CommitRejected, CommitFails,
       Resynchronize, Publish, Outcomes
  <2> QED
    BY <2>2, <2>3, <2>4, <2>5, <2>6
<1> QED
  BY <1>1, <1>2, <1>3, <1>4, <1>5 DEF Next

\* The runtime lease and the permit leave one call past the wait in the whole
\* system.
LEMMA OneHolder ==
    ASSUME TypeOK, LifeInv, PermitInv, LeasedStore, NEW c \in Calls, NEW d \in Calls,
           pc[c] \in Holding, pc[d] \in Holding
    PROVE  c = d
<1>1. call[c].plane \in Planes /\ call[d].plane \in Planes
  BY Submitted DEF Holding
<1>2. pc[c] \in Active /\ pc[d] \in Active
  BY DEF Holding, Active
<1>3. lease = call[c].plane /\ lease = call[d].plane
  BY <1>1, <1>2 DEF LifeInv, ActiveCalls
<1>4. permit[call[c].plane] = c /\ permit[call[d].plane] = d
  BY DEF PermitInv
<1> QED
  BY <1>3, <1>4

LEMMA BaseKept ==
    ASSUME TypeOK, LifeInv, PermitInv, BaseInv, [Next]_vars
    PROVE  BaseInv'
<1> USE DEF TypeOK
<1> SUFFICES ASSUME LeasedStore, NEW d \in Calls, pc'[d] \in Based
             PROVE  /\ base'[d] = snapshot'
                    /\ cache'[call'[d].plane] = [content |-> snapshot', revision |-> revision']
                    /\ pc'[d] = "committing" => snapshot' \subseteq result'[d].content
  <2>1. Based = Holding \ {"owned", "publishing"}
    BY DEF Based, Holding
  <2> QED
    BY <2>1 DEF BaseInv, Based
<1>1. CASE /\ pc[d] = "owned" /\ pc'[d] = "admissible"
           /\ UNCHANGED <<call, snapshot, revision>>
           /\ base'[d] = snapshot
           /\ cache'[call[d].plane] = [content |-> snapshot, revision |-> revision]
  BY <1>1
<1>2. CASE /\ pc[d] \in Based /\ call'[d] = call[d]
           /\ base'[d] \in {base[d], cache[call[d].plane].content}
           /\ pc'[d] = "committing" =>
                 \/ pc[d] = "committing" /\ result'[d] = result[d]
                 \/ result'[d].content \in {base[d], base[d] \cup {d}, cache[call[d].plane].content}
  <2>1. /\ base[d] = snapshot
        /\ cache[call[d].plane] = [content |-> snapshot, revision |-> revision]
        /\ pc[d] = "committing" => snapshot \subseteq result[d].content
    BY <1>2 DEF BaseInv, Based, Holding
  <2>2. \A c \in Calls : pc[c] \in Holding => c = d
    BY <1>2, OneHolder DEF Based, Holding
  <2>3. UNCHANGED <<snapshot, revision>>
    BY <2>2, CutSteps DEF Based, Holding
  <2>4. call[d].plane \in Planes /\ plane'[call[d].plane] \in {"open", "closing"}
    <3>1. call[d].plane \in Planes /\ pc'[d] \in Active
      BY <1>2, Submitted DEF Based, Active
    <3> QED
      BY <1>2, <3>1, LifeKept DEF LifeInv, ActiveCalls
  <2>5. cache'[call[d].plane] = [content |-> snapshot', revision |-> revision']
    <3>1. \A c \in Calls : pc[c] # "publishing"
      BY <1>2, <2>2 DEF Based, Holding
    <3> QED
      BY <2>1, <2>3, <2>4, <3>1, CacheSteps
  <2> QED
    BY <1>2, <2>1, <2>3, <2>5
<1> QED
  BY <1>1, <1>2, WorkSteps

-----------------------------------------------------------------------------
(* Retry proofs                                                            *)

\* A record is never dropped, and neither its key nor the request behind it
\* changes.
LEMMA RecordsStay ==
    ASSUME TypeOK, RecordInv, [Next]_vars, NEW o \in Calls, state[o] # "none"
    PROVE  state'[o] # "none" /\ recordKey'[o] = recordKey[o] /\ call'[o] = call[o]
<1>1. pc[o] # "idle" /\ call'[o] = call[o]
  BY StepKinds DEF RecordInv
<1>2. CASE Unwritten
  BY <1>1, <1>2 DEF Unwritten, storeVars
<1>3. ASSUME NEW c \in Calls, Claims(c)
      PROVE  state'[o] # "none" /\ recordKey'[o] = recordKey[o]
  BY <1>3 DEF Claims, ClaimRecord, RecordInv, TypeOK, StoreTypeOK
<1>4. ASSUME NEW c \in Calls, Commits(c)
      PROVE  state'[o] # "none" /\ recordKey'[o] = recordKey[o]
  BY <1>4 DEF Commits, CommitTerminalOperation, TypeOK, StoreTypeOK, Results
<1> QED
  BY <1>1, <1>2, <1>3, <1>4, StepKinds

\* The plane of the winning claim remembers its proof; the end of a plane forgets
\* every one.
LEMMA ProofSteps ==
    ASSUME TypeOK, [Next]_vars, proofs' # proofs
    PROVE  \/ \E p \in Planes : proofs' = [proofs EXCEPT ![p] = [k \in Keys |-> None]]
           \/ \E c \in Calls :
                 /\ Claims(c) /\ pc[c] = "admissible" /\ call[c].key # NoKey
                 /\ proofs' = [proofs EXCEPT ![call[c].plane][call[c].key] = Secret[call[c].body]]
<1>1. ~(UNCHANGED vars)
  BY DEF vars
<1>2. ASSUME NEW p \in Planes, PlaneNext(p)
      PROVE  proofs' = [proofs EXCEPT ![p] = [k \in Keys |-> None]]
  BY <1>2 DEF PlaneNext, Open, BeginClose, CloseInterrupted, FinishClose, Crash, Read, Forget
<1>3. ASSUME NEW c \in Calls, CallNext(c)
      PROVE  /\ Claims(c) /\ pc[c] = "admissible" /\ call[c].key # NoKey
             /\ proofs' = [proofs EXCEPT ![call[c].plane][call[c].key] = Secret[call[c].body]]
  <2>1. ClaimWon(c)
    BY <1>3 DEF CallNext, Precheck, Recheck, Acquire, ClaimLost, ClaimFails, Validate, Apply,
       ApplyReturns, BackendInterrupted, WorkflowControl, CommitSucceeds, CommitConflicts,
       CommitRejected, CommitFails, Publish
  <2> QED
    BY <2>1 DEF ClaimWon, Claims
<1> QED
  BY <1>1, <1>2, <1>3 DEF Next, Submit

LEMMA ProofsKept ==
    ASSUME TypeOK, RecordInv, ProofInv, [Next]_vars
    PROVE  ProofInv'
<1> DEFINE Secrets == {Secret[b] : b \in Bodies} \cup {None}
           Backed(p, k) == proofs'[p][k] # None =>
              \E o \in Calls : /\ k # NoKey /\ state'[o] # "none" /\ recordKey'[o] = k
                               /\ Secret[call'[o].body] = proofs'[p][k]
<1>1. ASSUME NEW p \in Planes, NEW k \in Keys, proofs'[p][k] = proofs[p][k]
      PROVE  Backed(p, k)
  <2> SUFFICES ASSUME proofs[p][k] # None
               PROVE  Backed(p, k)
    BY <1>1
  <2>1. PICK o \in Recorded(k) : Secret[call[o].body] = proofs[p][k]
    BY DEF ProofInv
  <2>2. o \in Calls /\ k # NoKey /\ state[o] # "none" /\ recordKey[o] = k
    BY DEF Recorded
  <2>3. state'[o] # "none" /\ recordKey'[o] = k /\ call'[o] = call[o]
    BY <2>2, RecordsStay
  <2> QED
    BY <1>1, <2>1, <2>2, <2>3
<1>2. /\ proofs' \in [Planes -> [Keys -> Secrets]]
      /\ \A p \in Planes, k \in Keys : Backed(p, k)
  <2>1. CASE proofs' = proofs
    BY <1>1, <2>1 DEF ProofInv
  <2>2. CASE \E p \in Planes : proofs' = [proofs EXCEPT ![p] = [k \in Keys |-> None]]
    <3> PICK p \in Planes : proofs' = [proofs EXCEPT ![p] = [k \in Keys |-> None]]
      BY <2>2
    <3>1. proofs' \in [Planes -> [Keys -> Secrets]]
      BY DEF ProofInv
    <3>2. \A q \in Planes, k \in Keys : proofs'[q][k] = proofs[q][k] \/ proofs'[q][k] = None
      BY DEF ProofInv
    <3> QED
      BY <1>1, <3>1, <3>2
  <2>3. ASSUME NEW c \in Calls, Claims(c), call[c].key # NoKey,
               proofs' = [proofs EXCEPT ![call[c].plane][call[c].key] = Secret[call[c].body]]
        PROVE  /\ proofs' \in [Planes -> [Keys -> Secrets]]
               /\ \A p \in Planes, k \in Keys : Backed(p, k)
    <3>1. /\ call[c].plane \in Planes /\ call[c].key \in Keys /\ call[c].body \in Bodies
      BY <2>3, Submitted DEF Claims
    <3>2. proofs' \in [Planes -> [Keys -> Secrets]]
      BY <2>3, <3>1 DEF ProofInv
    <3>3. \A p \in Planes, k \in Keys :
             \/ proofs'[p][k] = proofs[p][k]
             \/ p = call[c].plane /\ k = call[c].key /\ proofs'[p][k] = Secret[call[c].body]
      BY <2>3, <3>1 DEF ProofInv
    <3>4. state'[c] # "none" /\ recordKey'[c] = call[c].key /\ call'[c] = call[c]
      BY <2>3 DEF Claims, ClaimRecord, TypeOK, StoreTypeOK
    <3> QED
      BY <1>1, <2>3, <3>2, <3>3, <3>4
  <2> QED
    BY <2>1, <2>2, <2>3, ProofSteps
<1> QED
  BY <1>2 DEF ProofInv, Recorded

-----------------------------------------------------------------------------
(* The inductive invariant and what follows from it                        *)

LEMMA InvHolds == Spec => []Inv
<1>1. Init => Inv
  <2> SUFFICES ASSUME Init
               PROVE  Inv
    OBVIOUS
  <2>1. TypeOK
    BY InitialTypes
  <2>2. RecordInv /\ KeyInv /\ ClaimPrecedesEffect /\ TerminalIsAudited
    BY DEF Init, StoreInit, RecordInv, KeyInv, ClaimPrecedesEffect, TerminalIsAudited, Terminal
  <2>3. CutInv
    BY RevisionAssumption DEF Init, StoreInit, CutInv, Paired, EmptyCut
  <2>4. LifeInv /\ PermitInv
    BY BodiesAssumption DEF Init, LifeInv, PermitInv, ActiveCalls, Active, Holding
  <2>5. BaseInv /\ ReceiptInv
    BY DEF Init, BaseInv, ReceiptInv, Holding
  <2>6. ProofInv
    BY DEF Init, ProofInv
  <2> QED
    BY <2>1, <2>2, <2>3, <2>4, <2>5, <2>6 DEF Inv
<1>2. Inv /\ [Next]_vars => Inv'
  BY StepKeepsTypes, RecordsKept, KeysKept, EffectsKept, AuditsKept, CutKept, LifeKept,
     PermitKept, BaseKept, ProofsKept, ReceiptsKept DEF Inv
<1> QED
  BY <1>1, <1>2, PTL DEF Spec

\* However calls are retried, duplicated, cut short by a store error or moved to
\* another plane by a crash, the backend is invoked for one operation per key.
THEOREM OneEffectPerKey == Spec => []EffectAtMostOnce
<1>1. Inv => EffectAtMostOnce
  BY DEF Inv, TypeOK, RecordInv, KeyInv, ClaimPrecedesEffect, EffectAtMostOnce
<1> QED
  BY <1>1, InvHolds, PTL

\* The claim is durable before the backend is called, for every operation.
THEOREM ClaimBeforeEffect == Spec => []ClaimPrecedesEffect
<1>1. Inv => ClaimPrecedesEffect
  BY DEF Inv
<1> QED
  BY <1>1, InvHolds, PTL

\* Terminal record and audit event are one transaction: neither is ever there
\* without the other, and the audit never twice.
THEOREM TerminalAudit == Spec => []TerminalIsAudited
<1>1. Inv => TerminalIsAudited
  BY DEF Inv
<1> QED
  BY <1>1, InvHolds, PTL

\* No plane ever caches content and revision that were not the store's together.
THEOREM CachedPairs == Spec => []CacheIsPaired
<1>1. Inv => CacheIsPaired
  BY DEF Inv, CutInv, Paired, CacheIsPaired
<1> QED
  BY <1>1, InvHolds, PTL

\* Only the plane with the runtime lease has calls under way.
THEOREM OwnedStore == Spec => []OwnerOnly
<1>1. Inv => OwnerOnly
  BY DEF Inv, LifeInv, OwnerOnly
<1> QED
  BY <1>1, InvHolds, PTL

\* A terminal record is final, and the snapshot changes only with the next
\* revision.
THEOREM StoreGrows == Spec => StoreOnlyGrows
<1>1. ASSUME Inv, [Next]_vars
      PROVE  /\ \A c \in Calls : state[c] \in Terminal => state'[c] = state[c]
             /\ revision' \in {revision, revision + 1}
             /\ revision' = revision => snapshot' = snapshot
  <2> USE <1>1 DEF Inv
  <2>1. \A c \in Calls : state[c] \in Terminal => state'[c] = state[c]
    <3>1. CASE Unwritten
      BY <3>1 DEF Unwritten, storeVars
    <3>2. ASSUME NEW d \in Calls, Claims(d)
          PROVE  state[d] = "none" /\ state' = [state EXCEPT ![d] = "running"]
      BY <3>2 DEF Claims, ClaimRecord, RecordInv
    <3>3. ASSUME NEW d \in Calls, Commits(d)
          PROVE  state[d] = "running" /\ state' = [state EXCEPT ![d] = result[d].status]
      BY <3>3 DEF Commits, CommitTerminalOperation, RecordInv
    <3> QED
      BY <3>1, <3>2, <3>3, StepKinds DEF Terminal, TypeOK, StoreTypeOK
  <2>2. revision \in Nat
    BY RevisionAssumption DEF TypeOK, StoreTypeOK
  <2> QED
    BY <2>1, <2>2, CutSteps
<1>2. Inv /\ [Next]_vars => [/\ \A c \in Calls : state[c] \in Terminal => state'[c] = state[c]
                             /\ revision' \in {revision, revision + 1}
                             /\ revision' = revision => snapshot' = snapshot]_storeVars
  BY <1>1
<1> QED
  BY <1>2, InvHolds, PTL DEF Spec, StoreOnlyGrows

\* A plane whose durability is in doubt does nothing more: also the calls that
\* were admitted, or were waiting for the permit, before it was poisoned.
THEOREM PoisonedStaysQuiet == Spec => PoisonedIsQuiet
<1> DEFINE Quiet == \A p \in poisoned, c \in Calls :
             pc[c] \in Active /\ call[c].plane = p
                => state'[c] = state[c] /\ (c \in invoked' => c \in invoked)
<1>1. ASSUME Inv, [Next]_vars
      PROVE  Quiet
  <2> SUFFICES ASSUME NEW p \in poisoned, NEW c \in Calls, pc[c] \in Active, call[c].plane = p
               PROVE  state'[c] = state[c] /\ (c \in invoked' => c \in invoked)
    OBVIOUS
  <2> USE <1>1 DEF Inv
  <2>1. pc[c] \notin Holding
    BY BodiesAssumption DEF PermitInv
  <2>2. ASSUME NEW d \in Calls, Claims(d) \/ Commits(d)
        PROVE  state'[c] = state[c]
    <3>1. d # c
      BY <2>1, <2>2 DEF Claims, Commits, Holding
    <3> QED
      BY <2>2, <3>1
      DEF Claims, Commits, ClaimRecord, CommitTerminalOperation, TypeOK, StoreTypeOK
  <2>3. state'[c] = state[c]
    BY <2>2, StepKinds DEF Unwritten, storeVars
  <2>4. c \in invoked' => c \in invoked
    BY <2>1, StepKinds DEF Holding
  <2> QED
    BY <2>3, <2>4
<1>2. Inv /\ [Next]_vars => [Quiet]_vars
  BY <1>1
<1> QED
  BY <1>2, InvHolds, PTL DEF Spec, PoisonedIsQuiet

\* On a store with an exclusive runtime lease no commit overwrites another one's
\* changes: the owner's permit keeps the base of every candidate current.  (Two
\* planes that share a store without a lease do lose updates, see the run
\* plane_stale.)
THEOREM LeasedStoreKeepsUpdates ==
    ASSUME LeasedStore
    PROVE  Spec => NoLostUpdate
<1>1. Inv /\ [Next]_vars => [snapshot \subseteq snapshot']_storeVars
  BY CutSteps DEF Inv, BaseInv, Holding
<1> QED
  BY <1>1, InvHolds, PTL DEF Spec, NoLostUpdate

\* A request is told apart by its value-free commitment, together with its exact
\* proof if it has one: no request without secrets is the value-free projection
\* of one that has some.
ExactRequests ==
    \A a, b \in Bodies :
        Commitment[a] = Commitment[b] /\ (Secret[a] # None => Secret[a] = Secret[b]) => a = b

\* Everyone who gets a receipt under a key gets the one of the request they made,
\* because the only proof a plane remembers is that of the recorded request.
THEOREM OneReceiptPerRequest ==
    ASSUME ExactRequests
    PROVE  Spec => []ReceiptsAgree
<1>1. Init => ReceiptsAgree
  BY DEF Init, ReceiptsAgree
<1>2. ASSUME Inv, ReceiptsAgree, [Next]_vars, Inv'
      PROVE  ReceiptsAgree'
  <2> USE <1>2 DEF Inv
  <2> SUFFICES ASSUME NEW d \in Calls, receipt'[d] # None
               PROVE  /\ state'[receipt'[d]] # "none"
                      /\ call'[receipt'[d]].body = call'[d].body
                      /\ call'[receipt'[d]].kind = call'[d].kind
                      /\ call'[receipt'[d]].base = call'[d].base
                      /\ receipt'[d] # d => /\ call'[receipt'[d]].key = call'[d].key
                                            /\ call'[d].key # NoKey
    BY DEF ReceiptsAgree
  <2>1. CASE receipt'[d] = receipt[d]
    <3>1. receipt[d] \in Calls /\ state[receipt[d]] # "none" /\ call'[d] = call[d]
      BY <2>1, StepKinds DEF ReceiptsAgree, ReceiptInv, TypeOK
    <3> QED
      BY <2>1, <3>1, RecordsStay DEF ReceiptsAgree
  <2>2. CASE pc[d] = "publishing" /\ pc'[d] = "ok" /\ receipt'[d] = d
    BY <2>2 DEF RecordInv, Terminal
  <2>3. ASSUME pc[d] # "idle", NEW o \in Recorded(call[d].key), MatchesRecord(d, o), receipt'[d] = o
        PROVE  /\ state'[o] # "none" /\ call'[o].body = call'[d].body
               /\ call'[o].kind = call'[d].kind /\ call'[o].base = call'[d].base
               /\ call'[o].key = call'[d].key /\ call'[d].key # NoKey
    <3>1. /\ o \in Calls /\ state[o] # "none" /\ recordKey[o] = call[d].key
          /\ call[d].key # NoKey /\ call[o].key = call[d].key /\ pc[o] # "idle"
      BY DEF Recorded, RecordInv
    <3>2. /\ call[d].body \in Bodies /\ call[o].body \in Bodies
          /\ call[d].plane \in Planes /\ call[d].key \in Keys
      BY <2>3, <3>1, Submitted
    <3>3. Secret[call[d].body] # None => Secret[call[d].body] = Secret[call[o].body]
      <4> SUFFICES ASSUME Secret[call[d].body] # None
                   PROVE  Secret[call[d].body] = Secret[call[o].body]
        OBVIOUS
      <4>1. proofs[call[d].plane][call[d].key] = Secret[call[d].body]
        BY <2>3 DEF MatchesRecord
      <4>2. PICK w \in Recorded(call[d].key) :
               Secret[call[w].body] = proofs[call[d].plane][call[d].key]
        BY <3>2, <4>1 DEF ProofInv
      <4>3. w = o
        BY <3>1 DEF Recorded, KeyInv
      <4> QED
        BY <4>1, <4>2, <4>3
    <3>4. /\ call[o].body = call[d].body
          /\ call[o].kind = call[d].kind /\ call[o].base = call[d].base
      BY <2>3, <3>2, <3>3 DEF ExactRequests, MatchesRecord, Context
    <3>5. state'[o] # "none" /\ call'[o] = call[o] /\ call'[d] = call[d]
      BY <2>3, <3>1, RecordsStay, StepKinds
    <3> QED
      BY <3>1, <3>4, <3>5
  <2> QED
    BY <2>1, <2>2, <2>3, ReceiptSteps
<1>3. Inv /\ Inv' /\ ReceiptsAgree /\ [Next]_vars => ReceiptsAgree'
  BY <1>2
<1> QED
  BY <1>1, <1>3, InvHolds, PTL DEF Spec
=============================================================================
