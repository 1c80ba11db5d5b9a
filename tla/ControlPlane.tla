---------------------------- MODULE ControlPlane ----------------------------
(***************************************************************************)
(* Runtime control planes over one operation store: admission, idempotent  *)
(* replay, the durable claim, the backend call, the terminal commit and    *)
(* its publication, store errors and poisoning, ownership of the store,    *)
(* draining close, crash and restart.                                      *)
(*                                                                         *)
(* A plane is one RuntimeControlPlane instance; a restart is the opening   *)
(* of another one.  Inside a plane the mutation permit is what             *)
(* MutationAuthority implements: at most one call holds it.  A call is one *)
(* submission on one thread; the control plane's short cache lock makes a  *)
(* reload of the cache one step.                                           *)
(***************************************************************************)
EXTENDS OperationStore, FiniteSets

CONSTANTS Planes,        \* control-plane instances
          None,          \* no plane, no call, no base snapshot, no secret
          Bodies,        \* request bodies
          Commitment,    \* Commitment[b]: the value-free request commitment
          Secret,        \* Secret[b]: the exact-retry fingerprint, or None
          Kinds,         \* operation families, a subset of AllKinds
          ExplicitBase,  \* callers may pass the base snapshot they have read
          LeasedStore,   \* the store grants an exclusive runtime lease
          StoreErrors,   \* store transactions may fail
          Interrupts     \* a BaseException may leave extension code

AllKinds == {"plan", "action", "workflow"}

ASSUME KindsAssumption == Kinds \subseteq AllKinds
ASSUME BodiesAssumption == None \notin Calls /\ None \notin Planes
ASSUME SwitchesAssumption ==
    /\ ExplicitBase \in BOOLEAN /\ LeasedStore \in BOOLEAN
    /\ StoreErrors \in BOOLEAN /\ Interrupts \in BOOLEAN

VARIABLES
    plane,      \* life cycle of each plane
    poisoned,   \* the planes with _durability_poisoned
    lease,      \* the plane that holds the runtime-owner lease, or None
    permit,     \* per plane, the call that holds the mutation permit, or None
    cache,      \* per plane, _snapshot_state: [content, revision]
    proofs,     \* per plane and key, _ephemeral_idempotency_fingerprints
    pc,         \* control state or outcome of each call
    call,       \* what each call submitted, and to which plane
    base,       \* the snapshot content a call's backend starts from
    result,     \* the terminal result a call is about to commit
    committed,  \* the pair a successful commit returned, until it is published
    receipt,    \* the operation named by the receipt a call returned
    invoked     \* the operations whose backend apply has been invoked

planeVars == <<plane, poisoned, lease>>
workVars  == <<base, result, committed>>
callVars  == <<pc, call, workVars, receipt, invoked>>
vars == <<storeVars, planeVars, permit, cache, proofs, callVars>>

Active   == {"admitted", "waiting", "owned", "admissible", "claimed",
             "validated", "applying", "committing", "publishing"}
Outcomes == {"refused", "replayed", "conflict", "rejected", "ok", "error", "lost"}
Lives    == {"new", "open", "closing", "closed", "crashed"}

NoResult    == [status |-> "failed", mode |-> "operation_only", content |-> {}]
EmptyCut    == [content |-> {}, revision |-> 0]
Caches      == [content : SUBSET Calls, revision : 0..MaxRevision]
Submissions == [plane : Planes, key : Keys \cup {NoKey}, body : Bodies, kind : Kinds,
                base : (SUBSET Calls) \cup {None}]

ASSUME SubmissionsAssumption == None \notin Submissions

TypeOK ==
    /\ StoreTypeOK
    /\ plane \in [Planes -> Lives]
    /\ poisoned \in SUBSET Planes
    /\ lease \in Planes \cup {None}
    /\ permit \in [Planes -> Calls \cup {None}]
    /\ cache \in [Planes -> Caches]
    /\ pc \in [Calls -> {"idle"} \cup Active \cup Outcomes]
    /\ call \in [Calls -> Submissions \cup {None}]
    /\ base \in [Calls -> SUBSET Calls]
    /\ result \in [Calls -> Results]
    /\ committed \in [Calls -> Caches]
    /\ receipt \in [Calls -> Calls \cup {None}]
    /\ invoked \in SUBSET Calls
    /\ \A c \in Calls : pc[c] # "idle" => call[c] # None

Init ==
    /\ StoreInit
    /\ plane = [p \in Planes |-> "new"] /\ poisoned = {} /\ lease = None
    /\ permit = [p \in Planes |-> None]
    /\ cache = [p \in Planes |-> EmptyCut]
    /\ proofs = [p \in Planes |-> [k \in Keys |-> None]]
    /\ pc = [c \in Calls |-> "idle"]
    /\ call = [c \in Calls |-> None]
    /\ base = [c \in Calls |-> {}]
    /\ committed = [c \in Calls |-> EmptyCut]
    /\ result = [c \in Calls |-> NoResult]
    /\ receipt = [c \in Calls |-> None]
    /\ invoked = {}

\* Mutant: a call is counted before its admission is refused.
CountedCalls(p) == {c \in Calls : pc[c] \in Active \cup {"refused"} /\ call[c].plane = p}

ActiveCalls(p) == {c \in Calls : pc[c] \in Active /\ call[c].plane = p}

\* _reload_derived_state
Reloaded(p) == [cache EXCEPT ![p] = [content |-> snapshot, revision |-> revision]]

-----------------------------------------------------------------------------
(* Life cycle of a plane                                                   *)

\* The constructor: the lease first, then the derived state.  Records that an
\* earlier runtime left running are loaded as they are.
Open(p) ==
    /\ plane[p] = "new"
    /\ \/ ~LeasedStore /\ UNCHANGED lease
       \/ LeasedStore /\ lease = None /\ lease' = p
    /\ plane' = [plane EXCEPT ![p] = "open"]
    /\ cache' = Reloaded(p)
    /\ UNCHANGED <<storeVars, poisoned, permit, proofs, callVars>>

BeginClose(p) ==
    /\ plane[p] = "open"
    /\ plane' = [plane EXCEPT ![p] = "closing"]
    /\ UNCHANGED <<storeVars, poisoned, lease, permit, cache, proofs, callVars>>

\* A BaseException in the wait of close() reopens the plane.
CloseInterrupted(p) ==
    /\ Interrupts
    /\ plane[p] = "closing"
    /\ plane' = [plane EXCEPT ![p] = "open"]
    /\ UNCHANGED <<storeVars, poisoned, lease, permit, cache, proofs, callVars>>

\* The derived state and the retry proofs of a plane live in memory only.
Forget(p) ==
    /\ cache' = [cache EXCEPT ![p] = EmptyCut]
    /\ proofs' = [proofs EXCEPT ![p] = [k \in Keys |-> None]]

\* Mutant: close does not wait for the calls it has admitted.
CloseUndrained(p) ==
    /\ plane[p] = "closing"
    /\ plane' = [plane EXCEPT ![p] = "closed"]
    /\ lease' = IF lease = p THEN None ELSE lease
    /\ UNCHANGED <<storeVars, poisoned, permit, cache, proofs, callVars>>

FinishClose(p) ==
    /\ plane[p] = "closing"
    /\ ActiveCalls(p) = {}
    /\ plane' = [plane EXCEPT ![p] = "closed"]
    /\ lease' = IF lease = p THEN None ELSE lease
    /\ Forget(p)
    /\ UNCHANGED <<storeVars, poisoned, permit, callVars>>

\* The process of a durable store dies: the operating system drops the lease.
Crash(p) ==
    /\ LeasedStore
    /\ plane[p] \in {"open", "closing"}
    /\ plane' = [plane EXCEPT ![p] = "crashed"]
    /\ lease' = IF lease = p THEN None ELSE lease
    /\ Forget(p)
    /\ permit' = [permit EXCEPT ![p] = None]
    /\ pc' = [c \in Calls |-> IF c \in ActiveCalls(p) THEN "lost" ELSE pc[c]]
    /\ base' = [c \in Calls |-> IF c \in ActiveCalls(p) THEN {} ELSE base[c]]
    /\ result' = [c \in Calls |-> IF c \in ActiveCalls(p) THEN NoResult ELSE result[c]]
    /\ committed' = [c \in Calls |-> IF c \in ActiveCalls(p) THEN EmptyCut ELSE committed[c]]
    /\ UNCHANGED <<storeVars, poisoned, call, receipt, invoked>>

\* The admission guard of _runtime_call.
RuntimeCallAdmitted(p) ==
    /\ p \notin poisoned
    /\ plane[p] = "open"
    /\ LeasedStore => lease = p

\* A public read (snapshot, get_snapshot, ...) refreshes the cache whatever
\* other calls are doing.
Read(p) ==
    /\ RuntimeCallAdmitted(p)
    /\ cache' = Reloaded(p)
    /\ UNCHANGED <<storeVars, planeVars, permit, proofs, callVars>>

-----------------------------------------------------------------------------
(* Submission and admission                                                *)

\* Mutant: a failing call leaves with the permit.
ReturnKeepingPermit(c, outcome) ==
    /\ pc' = [pc EXCEPT ![c] = outcome]
    /\ base' = [base EXCEPT ![c] = {}]
    /\ result' = [result EXCEPT ![c] = NoResult]
    /\ committed' = [committed EXCEPT ![c] = EmptyCut]
    /\ permit' = [p \in Planes |-> IF permit[p] = c /\ outcome # "error" THEN None ELSE permit[p]]

\* The call ends; if it holds the permit it gives it up.
Return(c, outcome) ==
    /\ pc' = [pc EXCEPT ![c] = outcome]
    /\ base' = [base EXCEPT ![c] = {}]
    /\ result' = [result EXCEPT ![c] = NoResult]
    /\ committed' = [committed EXCEPT ![c] = EmptyCut]
    /\ permit' = [p \in Planes |-> IF permit[p] = c THEN None ELSE permit[p]]

\* Only a plan has a part that its commitment leaves out; the value-free payload of
\* any other request is the request.
Submit(c, p, k, b, kind) ==
    /\ pc[c] = "idle"
    /\ Secret[b] # None => kind = "plan"
    /\ plane[p] \in {"open", "closing", "closed"}
    /\ \E given \in {None, snapshot} :
          /\ given # None => ExplicitBase /\ kind = "plan"
          /\ call' = [call EXCEPT ![c] = [plane |-> p, key |-> k, body |-> b,
                                          kind |-> kind, base |-> given]]
    /\ pc' = [pc EXCEPT ![c] = IF RuntimeCallAdmitted(p)
                                 THEN IF kind = "action" THEN "waiting" ELSE "admitted"
                                 ELSE "refused"]
    /\ UNCHANGED <<storeVars, planeVars, permit, cache, proofs, workVars, receipt, invoked>>

\* The admission context of a request: its kind, the value-free commitment of its
\* body, and the base snapshot it was given (operation_admission_context)
Context(c) == <<call[c].kind, Commitment[call[c].body], call[c].base>>

\* Mutant: only the value-free context is compared.
MatchesContext(c, o) == Context(c) = Context(o)

\* The request of c is the one recorded as operation o: _idempotent_receipt
\* and _claim_record compare the value-free contexts, and for a request with
\* secrets the exact proof this plane remembers.
MatchesRecord(c, o) ==
    /\ Context(c) = Context(o)
    /\ Secret[call[c].body] # None =>
          proofs[call[c].plane][call[c].key] = Secret[call[c].body]

Replay(c, o) ==
    \/ /\ MatchesRecord(c, o)
       /\ receipt' = [receipt EXCEPT ![c] = o]
       /\ Return(c, "replayed")
    \/ /\ ~MatchesRecord(c, o)
       /\ Return(c, "conflict")
       /\ UNCHANGED receipt

\* One pass over the admission checks against the reloaded cache: a recorded
\* key is replayed, a stale explicit base snapshot is a conflict, and a plan
\* that is not admissible is rejected with an audit record and no operation
\* (recording that denial is itself refused by a poisoned runtime).
AdmissionEnds(c) ==
    \/ \E o \in Recorded(call[c].key) : Replay(c, o)
    \/ /\ Recorded(call[c].key) = {}
       /\ UNCHANGED receipt
       /\ \/ /\ call[c].base \notin {None, snapshot}
             /\ Return(c, "conflict")
          \/ /\ call[c].base \in {None, snapshot} /\ call[c].kind # "action"
             /\ Return(c, IF call[c].plane \in poisoned THEN "error" ELSE "rejected")

AdmissionPasses(c) ==
    /\ Recorded(call[c].key) = {}
    /\ call[c].base \in {None, snapshot}
    /\ UNCHANGED <<permit, receipt, result, committed>>

\* Before the permit: submit_*, cancel_workflow and the timeout reconciliation.
Precheck(c) ==
    /\ pc[c] = "admitted"
    /\ cache' = Reloaded(call[c].plane)
    /\ \/ AdmissionEnds(c)
       \/ /\ AdmissionPasses(c)
          /\ pc' = [pc EXCEPT ![c] = "waiting"]
          /\ UNCHANGED base
    /\ UNCHANGED <<storeVars, planeVars, proofs, call, invoked>>

\* Mutant: a call that waited does not look at the durability health again.
AcquireUnchecked(c) ==
    /\ pc[c] = "waiting"
    /\ permit[call[c].plane] = None
    /\ pc' = [pc EXCEPT ![c] = "owned"]
    /\ permit' = [permit EXCEPT ![call[c].plane] = c]
    /\ UNCHANGED <<storeVars, planeVars, cache, proofs, call, workVars, receipt, invoked>>

\* Mutant: two calls may hold the permit together.
AcquireShared(c) ==
    /\ pc[c] = "waiting"
    /\ call[c].plane \notin poisoned
    /\ pc' = [pc EXCEPT ![c] = "owned"]
    /\ permit' = [permit EXCEPT ![call[c].plane] = c]
    /\ UNCHANGED <<storeVars, planeVars, cache, proofs, call, workVars, receipt, invoked>>

\* control_plane_mutation: durability health and ownership are checked again
\* once the permit is held.
Acquire(c) ==
    /\ pc[c] = "waiting"
    /\ permit[call[c].plane] = None
    /\ \/ /\ call[c].plane \in poisoned
          /\ Return(c, "error")
       \/ /\ call[c].plane \notin poisoned
          /\ pc' = [pc EXCEPT ![c] = "owned"]
          /\ permit' = [permit EXCEPT ![call[c].plane] = c]
          /\ UNCHANGED workVars
    /\ UNCHANGED <<storeVars, planeVars, cache, proofs, call, receipt, invoked>>

\* After the permit.  The snapshot the operation starts from is captured here.
Recheck(c) ==
    /\ pc[c] = "owned"
    /\ cache' = Reloaded(call[c].plane)
    /\ \/ AdmissionEnds(c)
       \/ /\ AdmissionPasses(c)
          /\ pc' = [pc EXCEPT ![c] = "admissible"]
          /\ base' = [base EXCEPT ![c] = snapshot]
    /\ UNCHANGED <<storeVars, planeVars, proofs, call, invoked>>

-----------------------------------------------------------------------------
(* The durable claim                                                       *)

ClaimWon(c) ==
    LET p == call[c].plane
        k == call[c].key
        s == Secret[call[c].body]
    IN
    /\ pc[c] = "admissible"
    /\ ClaimRecord(c, k)
    /\ proofs' = IF s # None /\ k # NoKey THEN [proofs EXCEPT ![p][k] = s] ELSE proofs
    /\ pc' = [pc EXCEPT ![c] = "claimed"]
    /\ UNCHANGED <<planeVars, permit, cache, call, workVars, receipt, invoked>>

\* Another plane recorded the key since the last check: its operation is the
\* one the caller is told about.
ClaimLost(c) ==
    /\ pc[c] = "admissible"
    /\ \E o \in Recorded(call[c].key) : Replay(c, o)
    /\ UNCHANGED <<storeVars, planeVars, cache, proofs, call, invoked>>

\* Mutant: the operation runs on although its claim failed.
ClaimFailsUnnoticed(c) ==
    /\ StoreErrors
    /\ pc[c] = "admissible"
    /\ pc' = [pc EXCEPT ![c] = "claimed"]
    /\ UNCHANGED <<storeVars, planeVars, permit, cache, proofs, call, workVars, receipt, invoked>>

\* The claim transaction raises, before or after it became durable.
ClaimFails(c) ==
    /\ StoreErrors
    /\ pc[c] = "admissible"
    /\ \/ ClaimRecord(c, call[c].key)
       \/ UNCHANGED storeVars
    /\ Return(c, "error")
    /\ UNCHANGED <<planeVars, cache, proofs, call, receipt, invoked>>

-----------------------------------------------------------------------------
(* Backend work, done by the permit holder after its claim                 *)

ToCommit(c, status, mode, content) ==
    /\ result' = [result EXCEPT ![c] = [status |-> status, mode |-> mode, content |-> content]]
    /\ pc' = [pc EXCEPT ![c] = "committing"]

\* Only plans are validated by the backend; a failed validation is committed
\* as a failure that leaves the snapshot alone.
Validate(c) ==
    /\ pc[c] = "claimed" /\ call[c].kind = "plan"
    /\ \/ pc' = [pc EXCEPT ![c] = "validated"] /\ UNCHANGED result
       \/ ToCommit(c, "failed", "operation_only", base[c])
    /\ UNCHANGED <<storeVars, planeVars, permit, cache, proofs, call, base, committed, receipt, invoked>>

\* A participant action reads the cached snapshot only now.
Apply(c) ==
    /\ \/ pc[c] = "validated" /\ UNCHANGED base
       \/ /\ pc[c] = "claimed" /\ call[c].kind = "action"
          /\ base' = [base EXCEPT ![c] = cache[call[c].plane].content]
    /\ invoked' = invoked \cup {c}
    /\ pc' = [pc EXCEPT ![c] = "applying"]
    /\ UNCHANGED <<storeVars, planeVars, permit, cache, proofs, call, result, committed, receipt>>

\* Every Exception of the backend becomes a failed result with the baseline
\* snapshot; a failed result may also carry partial changes.
ApplyReturns(c) ==
    /\ pc[c] = "applying"
    /\ \/ ToCommit(c, "succeeded", "snapshot_bearing", base[c] \cup {c})
       \/ \E content \in {base[c], base[c] \cup {c}} :
             ToCommit(c, "failed", "snapshot_bearing", content)
    /\ UNCHANGED <<storeVars, planeVars, permit, cache, proofs, call, base, committed, receipt, invoked>>

\* A BaseException is not caught: the permit is released and the claim stays.
BackendInterrupted(c) ==
    /\ Interrupts
    /\ pc[c] = "applying"
    /\ Return(c, "error")
    /\ UNCHANGED <<storeVars, planeVars, cache, proofs, call, receipt, invoked>>

\* Workflow control computes its snapshot itself.  A reconciliation that finds
\* nothing overdue, and the cancellation of a workflow that has ended, commit the
\* operation only: the one with the snapshot it computed on, the other with the
\* one that is in the cache by then.
WorkflowControl(c) ==
    /\ pc[c] = "claimed" /\ call[c].kind = "workflow"
    /\ \/ ToCommit(c, "succeeded", "snapshot_bearing", base[c] \cup {c})
       \/ \E content \in {base[c], cache[call[c].plane].content} :
             ToCommit(c, "succeeded", "operation_only", content)
    /\ UNCHANGED <<storeVars, planeVars, permit, cache, proofs, call, base, committed, receipt, invoked>>

-----------------------------------------------------------------------------
(* _commit_terminal_operation                                              *)

\* The expected revision is the one in the cache when the commit is made.
ExpectedRevision(c) == cache[call[c].plane].revision

CommitSucceeds(c) ==
    /\ pc[c] = "committing"
    /\ CommitTerminalOperation(c, result[c], ExpectedRevision(c))
    /\ pc' = [pc EXCEPT ![c] = "publishing"]
    /\ committed' = [committed EXCEPT ![c] = [content |-> snapshot', revision |-> revision']]
    /\ UNCHANGED <<planeVars, permit, cache, proofs, call, base, result, receipt, invoked>>

CommitConflicts(c) ==
    /\ pc[c] = "committing"
    /\ RevisionConflict(ExpectedRevision(c))
    /\ cache' = Reloaded(call[c].plane)
    /\ Return(c, "error")
    /\ UNCHANGED <<storeVars, planeVars, proofs, call, receipt, invoked>>

\* _resynchronize_after_store_error, once the transaction is (nowDurable) or is
\* not durable: the plane is poisoned unless it can read back a terminal cut.
Resynchronize(c, nowDurable) ==
    LET p == call[c].plane IN
    /\ Return(c, "error")
    /\ \/ /\ ~nowDurable \/ StoreErrors
          /\ poisoned' = poisoned \cup {p}
          /\ UNCHANGED cache
       \/ /\ nowDurable
          /\ cache' = [cache EXCEPT ![p] = [content |-> snapshot', revision |-> revision']]
          /\ UNCHANGED poisoned

CommitRejected(c) ==
    /\ pc[c] = "committing"
    /\ ~RevisionConflict(ExpectedRevision(c))
    /\ CommitInvalid(result[c])
    /\ Resynchronize(c, FALSE)
    /\ UNCHANGED <<storeVars, plane, lease, proofs, call, receipt, invoked>>

CommitFails(c) ==
    /\ StoreErrors
    /\ pc[c] = "committing"
    /\ \/ CommitTerminalOperation(c, result[c], ExpectedRevision(c)) /\ Resynchronize(c, TRUE)
       \/ UNCHANGED storeVars /\ Resynchronize(c, FALSE)
    /\ UNCHANGED <<plane, lease, proofs, call, receipt, invoked>>

\* Mutant: the new revision is published with the old content.
PublishRevisionOnly(c) ==
    /\ pc[c] = "publishing"
    /\ receipt' = [receipt EXCEPT ![c] = c]
    /\ Return(c, "ok")
    /\ cache' = [cache EXCEPT ![call[c].plane].revision = committed[c].revision]
    /\ UNCHANGED <<storeVars, planeVars, proofs, call, invoked>>

\* _publish_committed_state, with the pair the commit returned.  It reads the
\* records first: when that fails the call fails and the cache stays behind.
Publish(c) ==
    /\ pc[c] = "publishing"
    /\ \/ /\ receipt' = [receipt EXCEPT ![c] = c]
          /\ Return(c, "ok")
          /\ cache' = [cache EXCEPT ![call[c].plane] = committed[c]]
       \/ /\ StoreErrors
          /\ Return(c, "error")
          /\ UNCHANGED <<cache, receipt>>
    /\ UNCHANGED <<storeVars, planeVars, proofs, call, invoked>>

-----------------------------------------------------------------------------
PlaneNext(p) == \/ Open(p) \/ BeginClose(p) \/ CloseInterrupted(p)
                \/ FinishClose(p) \/ Crash(p) \/ Read(p)

CallNext(c) == \/ Precheck(c) \/ Acquire(c) \/ Recheck(c)
               \/ ClaimWon(c) \/ ClaimLost(c) \/ ClaimFails(c)
               \/ Validate(c) \/ Apply(c) \/ ApplyReturns(c) \/ BackendInterrupted(c)
               \/ WorkflowControl(c)
               \/ CommitSucceeds(c) \/ CommitConflicts(c) \/ CommitRejected(c)
               \/ CommitFails(c) \/ Publish(c)

Next == \/ \E p \in Planes : PlaneNext(p)
        \/ \E c \in Calls, p \in Planes, k \in Keys \cup {NoKey}, b \in Bodies, kind \in Kinds :
              Submit(c, p, k, b, kind)
        \/ \E c \in Calls : CallNext(c)

Spec == Init /\ [][Next]_vars

(***************************************************************************)
(* Fairness: threads run, extension code and store transactions end (a     *)
(* waiting call is passed over only by the finitely many other calls), and *)
(* close() runs on once its wait is over.                                  *)
(***************************************************************************)
Fairness == /\ \A c \in Calls : WF_vars(CallNext(c))
            /\ \A p \in Planes : WF_vars(FinishClose(p))

FairSpec == Spec /\ Fairness

-----------------------------------------------------------------------------
(* Properties                                                              *)

\* The backend is never invoked for two operations with one idempotency key:
\* not by a retry, a concurrent duplicate, another plane or a restart, and
\* whatever store error or crash cut the first attempt short.
EffectAtMostOnce ==
    \A a, b \in invoked : call[a].key = call[b].key /\ call[a].key # NoKey => a = b

\* A backend is invoked only for an operation whose running claim is durable.
ClaimPrecedesEffect == \A c \in invoked : state[c] # "none"

\* Everyone who gets a receipt under one idempotency key gets the same one, for
\* the request they made: its kind, its base snapshot, and its body with the secrets
\* that the store never sees.
ReceiptsAgree ==
    \A c \in Calls : receipt[c] # None =>
        /\ state[receipt[c]] # "none"
        /\ call[receipt[c]].body = call[c].body /\ call[receipt[c]].kind = call[c].kind
        /\ call[receipt[c]].base = call[c].base
        /\ receipt[c] # c => call[receipt[c]].key = call[c].key /\ call[c].key # NoKey

\* A terminal operation has exactly one terminal audit, any other one none, and
\* a call that returned its own receipt left its operation terminal.
TerminalIsAudited ==
    \A c \in Calls : /\ audits[c] = IF state[c] \in Terminal THEN 1 ELSE 0
                     /\ pc[c] = "ok" => state[c] \in Terminal

\* No commit overwrites another one's changes: what the durable snapshot carries
\* it keeps, because every candidate is derived from the state it replaces.
NoLostUpdate == [][snapshot \subseteq snapshot']_storeVars

\* The cached pair is one the store had: at the store's revision, its content.
CacheIsPaired ==
    \A p \in Planes : /\ cache[p].revision <= revision
                      /\ cache[p].revision = revision => cache[p].content = snapshot

\* The store's owner drains before it lets go: a plane that is not the owner of a
\* leased store has no call left that could still write to it.
OwnerOnly ==
    LeasedStore => \A p \in Planes : lease # p => ActiveCalls(p) = {}

\* Once a plane is poisoned, none of its calls, waiting ones included, claims an
\* operation, invokes a backend or commits.
PoisonedIsQuiet ==
    [][\A p \in poisoned, c \in Calls :
          pc[c] \in Active /\ call[c].plane = p => state'[c] = state[c] /\ (c \in invoked' => c \in invoked)]_vars

\* Terminal records are never rewritten and the revision advances one by one.
StoreOnlyGrows ==
    [][/\ \A c \in Calls : state[c] \in Terminal => state'[c] = state[c]
       /\ revision' \in {revision, revision + 1}
       /\ revision' = revision => snapshot' = snapshot]_storeVars

\* An operation whose backend was invoked and whose call failed without a durable
\* outcome.
Unresolved(p) == {c \in invoked : /\ call[c].plane = p
                                  /\ pc[c] = "error" /\ state[c] = "running"}

\* No successor is admitted from an unresolved cut: while a backend effect has no
\* authoritative outcome, its plane claims no further operation.
UnresolvedFailsClosed ==
    [][\A p \in Planes, c \in Calls :
          Unresolved(p) # {} /\ state[c] = "none" /\ pc[c] \in Active /\ call[c].plane = p
              => state'[c] = "none"]_vars

\* Every admitted call returns, with a receipt or an error: none waits for a
\* permit for ever, whatever failed before it.
EveryCallReturns == \A c \in Calls : pc[c] \in Active ~> pc[c] \in Outcomes

\* close() ends, or is interrupted: the calls it waits for all return, and it
\* admits no new ones meanwhile.
CloseCompletes == \A p \in Planes : plane[p] = "closing" ~> plane[p] # "closing"

-----------------------------------------------------------------------------
(* The inductive invariant from which the safety properties follow, with   *)
(* one part per idea.                                                      *)

\* The calls between the acquisition and the release of their plane's permit.
Holding == {"owned", "admissible", "claimed", "validated", "applying", "committing",
            "publishing"}

\* Before its claim an operation has no record, from then on a running one, and
\* after its commit a terminal one; the record carries the key of the call.
RecordInv ==
    \A c \in Calls :
        /\ pc[c] \notin {"claimed", "validated", "applying", "committing", "publishing",
                         "ok", "error", "lost"} => state[c] = "none"
        /\ pc[c] \in {"claimed", "validated", "applying", "committing"} => state[c] = "running"
        /\ pc[c] \in {"publishing", "ok"} => state[c] \in Terminal
        /\ state[c] # "none" => recordKey[c] = call[c].key

\* An idempotency key has one record.
KeyInv ==
    \A a, b \in Calls : /\ state[a] # "none" /\ state[b] # "none"
                        /\ recordKey[a] = recordKey[b] /\ recordKey[a] # NoKey
                        => a = b

\* A pair of content and revision that the store has or had.
Paired(cut) == cut.revision <= revision /\ (cut.revision = revision => cut.content = snapshot)

\* Every pair in memory is one, the one of a commit that is not published yet and
\* the empty one of a plane that is not open included.
CutInv ==
    /\ revision = 0 => snapshot = {}
    /\ \A p \in Planes : Paired(cache[p])
    /\ \A c \in Calls : pc[c] = "publishing" => Paired(committed[c])

\* The lease is with the plane that is alive, and only a plane that is alive has
\* calls under way.
LifeInv ==
    \A p \in Planes :
        /\ LeasedStore => (lease = p <=> plane[p] \in {"open", "closing"})
        /\ plane[p] \notin {"open", "closing"} => ActiveCalls(p) = {}

\* The permit is with the one call of its plane that is past the wait, and is
\* free in a poisoned plane.
PermitInv ==
    /\ \A c \in Calls : pc[c] \in Holding => permit[call[c].plane] = c
    /\ \A p \in Planes : permit[p] # None =>
          pc[permit[p]] \in Holding /\ call[permit[p]].plane = p
    /\ \A p \in poisoned : permit[p] = None

\* On a leased store nothing moves under the call that holds the permit: the base
\* it captured, the cached pair and the durable cut are one, and its result is
\* that base with at most its own changes.
BaseInv ==
    LeasedStore => \A c \in Calls :
        /\ pc[c] \in Holding \ {"owned", "publishing"} =>
              /\ base[c] = snapshot
              /\ cache[call[c].plane] = [content |-> snapshot, revision |-> revision]
        /\ pc[c] = "committing" => snapshot \subseteq result[c].content

\* The exact proof a plane remembers for a key is that of the recorded request.
ProofInv ==
    /\ proofs \in [Planes -> [Keys -> {Secret[b] : b \in Bodies} \cup {None}]]
    /\ \A p \in Planes, k \in Keys : proofs[p][k] # None =>
          \E o \in Recorded(k) : Secret[call[o].body] = proofs[p][k]

\* Only calls that have returned have receipts.
ReceiptInv == \A c \in Calls : receipt[c] # None => pc[c] \in {"replayed", "ok"}

Inv == /\ TypeOK /\ RecordInv /\ KeyInv /\ ClaimPrecedesEffect /\ TerminalIsAudited
       /\ CutInv /\ LifeInv /\ PermitInv /\ BaseInv /\ ProofInv /\ ReceiptInv
=============================================================================
