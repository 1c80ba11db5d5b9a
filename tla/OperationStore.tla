--------------------------- MODULE OperationStore ---------------------------
(***************************************************************************)
(* The control-plane store (raes_runtime/control_plane_store.py and its    *)
(* in-memory and SQLite implementations): the runtime snapshot with its    *)
(* revision, the operation records with their idempotency keys, and the    *)
(* audit log.  Each operator below is one transaction of the store.        *)
(*                                                                         *)
(* An operation is named by the submission that created it (its uuid4).    *)
(* The snapshot is abstracted to the set of operations whose changes it    *)
(* carries, the audit log to the number of terminal events per operation.  *)
(***************************************************************************)
EXTENDS Naturals

CONSTANTS Calls,        \* submissions, and the operations they create
          Keys,         \* idempotency keys
          NoKey,        \* the empty idempotency key
          MaxRevision   \* _MAX_SNAPSHOT_REVISION

ASSUME KeysAssumption == NoKey \notin Keys
ASSUME RevisionAssumption == MaxRevision \in Nat

VARIABLES snapshot,   \* operations whose changes the durable snapshot carries
          revision,   \* its logical revision
          state,      \* OperationState of every operation, "none" if unknown
          recordKey,  \* idempotency_key of every durable record
          audits      \* terminal audit events in the log, per operation

storeVars == <<snapshot, revision, state, recordKey, audits>>

NonTerminal == {"accepted", "running"}
Terminal    == {"succeeded", "failed", "cancelled", "indeterminate"}
States      == {"none"} \cup NonTerminal \cup Terminal

\* LEGAL_OPERATION_TRANSITIONS; "none" is an operation without a record.
LegalTransitions ==
    {<<"none", "accepted">>, <<"none", "running">>,
     <<"accepted", "running">>, <<"accepted", "cancelled">>}
    \cup ({"running"} \X Terminal)

StoreTypeOK ==
    /\ snapshot \in SUBSET Calls
    /\ revision \in 0..MaxRevision
    /\ state \in [Calls -> States]
    /\ recordKey \in [Calls -> Keys \cup {NoKey}]
    /\ audits \in [Calls -> Nat]

StoreInit ==
    /\ snapshot = {} /\ revision = 0
    /\ state = [c \in Calls |-> "none"]
    /\ recordKey = [c \in Calls |-> NoKey]
    /\ audits = [c \in Calls |-> 0]

\* Mutant: a claim that an interrupted runtime left running is not found.
RecordedTerminal(k) == {o \in Calls : k # NoKey /\ state[o] \in Terminal /\ recordKey[o] = k}

\* find_by_idempotency: the operations recorded under a key.
Recorded(k) == {o \in Calls : k # NoKey /\ state[o] # "none" /\ recordKey[o] = k}

\* Mutant: the claim does not look for the key inside its transaction.
ClaimUnchecked(c, k) ==
    /\ <<state[c], "running">> \in LegalTransitions
    /\ state' = [state EXCEPT ![c] = "running"]
    /\ recordKey' = [recordKey EXCEPT ![c] = k]
    /\ UNCHANGED <<snapshot, revision, audits>>

\* claim_record, when the key is free: the record is inserted as running.
\* (When it is not, the existing record is returned and nothing is written.)
ClaimRecord(c, k) ==
    /\ Recorded(k) = {}
    /\ <<state[c], "running">> \in LegalTransitions
    /\ state' = [state EXCEPT ![c] = "running"]
    /\ recordKey' = [recordKey EXCEPT ![c] = k]
    /\ UNCHANGED <<snapshot, revision, audits>>

\* What commit_terminal_operation is asked to write for an operation.
Modes   == {"snapshot_bearing", "operation_only"}
Results == [status : {"succeeded", "failed"}, mode : Modes, content : SUBSET Calls]

\* commit_terminal_operation raises SnapshotRevisionConflict.
RevisionConflict(expected) == revision # expected

\* Mutant: the end of the revision range is not checked.
CommitInvalidInAnyRange(result) ==
    result.mode = "operation_only" /\ result.content # snapshot

\* It raises ValueError: an operation-only commit that would change the
\* snapshot, or a revision that cannot be advanced.
CommitInvalid(result) ==
    \/ result.mode = "operation_only" /\ result.content # snapshot
    \/ result.mode = "snapshot_bearing" /\ revision = MaxRevision

\* Mutant: an operation-only commit writes no audit event.
CommitUnaudited(c, result, expected) ==
    /\ <<state[c], result.status>> \in LegalTransitions
    /\ ~RevisionConflict(expected)
    /\ ~CommitInvalid(result)
    /\ \/ /\ result.mode = "operation_only"
          /\ UNCHANGED <<snapshot, revision, audits>>
       \/ /\ result.mode = "snapshot_bearing"
          /\ snapshot' = result.content
          /\ revision' = revision + 1
          /\ audits' = [audits EXCEPT ![c] = @ + 1]
    /\ state' = [state EXCEPT ![c] = result.status]
    /\ UNCHANGED recordKey

\* Mutant: the snapshot is written without advancing its revision.
CommitUnrevised(c, result, expected) ==
    /\ <<state[c], result.status>> \in LegalTransitions
    /\ ~RevisionConflict(expected)
    /\ snapshot' = result.content
    /\ state' = [state EXCEPT ![c] = result.status]
    /\ audits' = [audits EXCEPT ![c] = @ + 1]
    /\ UNCHANGED <<revision, recordKey>>

\* Otherwise snapshot, revision, record and audit are written together.
CommitTerminalOperation(c, result, expected) ==
    /\ <<state[c], result.status>> \in LegalTransitions
    /\ ~RevisionConflict(expected)
    /\ ~CommitInvalid(result)
    /\ \/ /\ result.mode = "operation_only"
          /\ UNCHANGED <<snapshot, revision>>
       \/ /\ result.mode = "snapshot_bearing"
          /\ snapshot' = result.content
          /\ revision' = revision + 1
    /\ state' = [state EXCEPT ![c] = result.status]
    /\ audits' = [audits EXCEPT ![c] = @ + 1]
    /\ UNCHANGED recordKey
=============================================================================
