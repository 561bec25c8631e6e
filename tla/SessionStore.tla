---------------------------- MODULE SessionStore ----------------------------
(***************************************************************************)
(* The durable rows of one voice session in PostgreSQL and the transactions*)
(* of sessions.PostgresRepository on them.  Each transaction locks the     *)
(* session row (or is a single statement on the intent row), so it is one  *)
(* atomic action here.  Next lets ANY actor call ANY transaction at any    *)
(* moment: whatever holds of Spec holds for every number of API processes  *)
(* and every order of their calls, without the in-process lock.            *)
(*                                                                         *)
(* A transaction that returns an error commits nothing; such calls are the *)
(* stuttering steps of Spec.  SessionLifecycle says what callers then do.  *)
(***************************************************************************)
EXTENDS SessionActors

VARIABLES
    status,     \* voice_sessions.status
    opStatus,   \* voice_session_start_operations.status by key; "none": no row
    opClaim,    \* compensation_claim_id by key
    intent,     \* voice_session_end_intents: "none" no row, "open", "done"
    owner,      \* recovery_owner
    lease       \* recovery_lease_expires_at: "none" NULL, "live", "expired"

storeVars == <<status, opStatus, opClaim, intent, owner, lease>>

Statuses   == {"created", "active", "ended", "failed"}
Terminal   == {"ended", "failed"}
OpStatuses == {"none", "pending", "compensating", "completed",
               "compensated", "compensation_failed"}

\* The statuses of the partial unique index one_unfinished_per_session.
UnfinishedStatuses == {"pending", "compensating", "compensation_failed"}

Unresolved(k)  == opStatus[k] \in UnfinishedStatuses
StartUnresolved == \E k \in Keys : Unresolved(k)

StoreTypeOK ==
    /\ status \in Statuses
    /\ opStatus \in [Keys -> OpStatuses]
    /\ opClaim \in [Keys -> Actors \cup {None}]
    /\ intent \in {"none", "open", "done"}
    /\ owner \in Actors \cup {None}
    /\ lease \in {"none", "live", "expired"}

StoreInit ==
    /\ status = "created"
    /\ opStatus = [k \in Keys |-> "none"]
    /\ opClaim = [k \in Keys |-> None]
    /\ intent = "none"
    /\ owner = None
    /\ lease = "none"

-----------------------------------------------------------------------------
\* Start side.

\* Variants named X_... are wrong on purpose: each stands for a bug that could
\* be made in X, and shows that some property below notices it.

\* Bug: the unique index covers a key, not the session.
BeginStartOperation_NoIndex(k) ==
    /\ intent # "open"
    /\ opStatus[k] = "none"
    /\ status = "created"
    /\ opStatus' = [opStatus EXCEPT ![k] = "pending"]
    /\ UNCHANGED <<status, opClaim, intent, owner, lease>>

\* BeginStartOperation, the path that inserts a pending row.
BeginStartOperation(k) ==
    /\ intent # "open"
    /\ opStatus[k] = "none"
    /\ status = "created"
    /\ ~StartUnresolved
    /\ opStatus' = [opStatus EXCEPT ![k] = "pending"]
    /\ UNCHANGED <<status, opClaim, intent, owner, lease>>

\* TransitionToActive: the session and its operation move together.
TransitionToActive(k) ==
    /\ opStatus[k] = "pending"
    /\ status = "created"
    /\ status' = "active"
    /\ opStatus' = [opStatus EXCEPT ![k] = "completed"]
    /\ UNCHANGED <<opClaim, intent, owner, lease>>

\* ClaimStartCompensation of a pending operation.  Re-entry with the same
\* claim changes nothing: see ClaimReentered.
ClaimStartCompensation(k, c) ==
    /\ status = "created"
    /\ opStatus[k] = "pending"
    /\ opStatus' = [opStatus EXCEPT ![k] = "compensating"]
    /\ opClaim' = [opClaim EXCEPT ![k] = c]
    /\ UNCHANGED <<status, intent, owner, lease>>

ClaimReentered(k, c) ==
    /\ status = "created"
    /\ opStatus[k] = "compensating"
    /\ opClaim[k] = c

\* The rows finishStartCompensation accepts: the claim still holds a row in
\* one of the statuses `from' of a session nobody activated or ended.
ClaimHolds(k, c, from) ==
    /\ status = "created"
    /\ opClaim[k] = c
    /\ opStatus[k] \in from

Completable == {"compensating", "compensation_failed", "compensated"}
Failable    == {"compensating", "compensation_failed"}

\* finishStartCompensation(complete = true).
CompleteStartCompensation(k, c) ==
    /\ ClaimHolds(k, c, Completable)
    /\ opStatus' = [opStatus EXCEPT ![k] = "compensated"]
    /\ UNCHANGED <<status, opClaim, intent, owner, lease>>

\* finishStartCompensation(complete = false).
FailStartCompensation(k, c) ==
    /\ ClaimHolds(k, c, Failable)
    /\ opStatus' = [opStatus EXCEPT ![k] = "compensation_failed"]
    /\ UNCHANGED <<status, opClaim, intent, owner, lease>>

-----------------------------------------------------------------------------
\* End side.  All End requests replay one intent: a second reason or key for
\* the same session is refused with ErrIdempotencyKeyConflict.

\* Bug: unresolved start operations are not looked for.
SaveEndIntent_NoInterlock(a) ==
    /\ \/ intent = "none"
       \/ intent = "open" /\ lease # "live"
    /\ intent' = "open"
    /\ owner' = a
    /\ lease' = "live"
    /\ UNCHANGED <<status, opStatus, opClaim>>

\* SaveEndIntent: insert the intent, or lease an open one nobody is driving.
SaveEndIntent(a) ==
    /\ ~StartUnresolved
    /\ \/ intent = "none"
       \/ intent = "open" /\ lease # "live"
    /\ intent' = "open"
    /\ owner' = a
    /\ lease' = "live"
    /\ UNCHANGED <<status, opStatus, opClaim>>

\* ClaimPendingEndIntent by the recovery worker of a process.
ClaimPendingEndIntent(a) ==
    /\ intent = "open" /\ lease # "live"
    /\ owner' = a
    /\ lease' = "live"
    /\ UNCHANGED <<status, opStatus, opClaim, intent>>

\* RetryClaimedEndIntent: fenced by the owner and its live lease.
RetryClaimedEndIntent(a) ==
    /\ intent = "open" /\ owner = a /\ lease = "live"
    /\ owner' = None
    /\ lease' = "none"
    /\ UNCHANGED <<status, opStatus, opClaim, intent>>

\* CompleteEndIntent, the request path: not fenced by the owner.
CompleteEndIntent ==
    /\ status \in Terminal
    /\ intent = "open"
    /\ intent' = "done"
    /\ owner' = None
    /\ lease' = "none"
    /\ UNCHANGED <<status, opStatus, opClaim>>

\* CompleteClaimedEndIntent, the recovery path: fenced.
CompleteClaimedEndIntent(a) ==
    /\ status \in Terminal
    /\ intent = "open" /\ owner = a /\ lease = "live"
    /\ intent' = "done"
    /\ owner' = None
    /\ lease' = "none"
    /\ UNCHANGED <<status, opStatus, opClaim>>

\* Bug: the update is not conditional on the expected status.
TransitionToEnded_AnyStatus(expected) ==
    /\ expected \in {"created", "active"}
    /\ status' = "ended"
    /\ UNCHANGED <<opStatus, opClaim, intent, owner, lease>>

\* TransitionToEnded: a conditional update, it does not read the intent.
TransitionToEnded(expected) ==
    /\ expected \in {"created", "active"}
    /\ status = expected
    /\ status' = "ended"
    /\ UNCHANGED <<opStatus, opClaim, intent, owner, lease>>

\* TransitionToFailed, called by ConsumeRuntimeFailure.
TransitionToFailed ==
    /\ status = "active"
    /\ status' = "failed"
    /\ UNCHANGED <<opStatus, opClaim, intent, owner, lease>>

\* clock_timestamp() passes recovery_lease_expires_at.
LeaseExpires ==
    /\ lease = "live"
    /\ lease' = "expired"
    /\ UNCHANGED <<status, opStatus, opClaim, intent, owner>>

-----------------------------------------------------------------------------
StoreNext ==
    \/ \E k \in Keys :
        \/ BeginStartOperation(k)
        \/ TransitionToActive(k)
        \/ \E c \in Actors :
            \/ ClaimStartCompensation(k, c)
            \/ CompleteStartCompensation(k, c)
            \/ FailStartCompensation(k, c)
    \/ \E a \in Actors :
        \/ SaveEndIntent(a)
        \/ ClaimPendingEndIntent(a)
        \/ RetryClaimedEndIntent(a)
        \/ CompleteClaimedEndIntent(a)
    \/ CompleteEndIntent
    \/ \E expected \in {"created", "active"} : TransitionToEnded(expected)
    \/ TransitionToFailed
    \/ LeaseExpires

StoreSpec == StoreInit /\ [][StoreNext]_storeVars

-----------------------------------------------------------------------------
\* Start and End exclude each other: an open end intent and an unresolved
\* start operation never exist together, although two transactions that lock
\* different rows establish it (BeginStartOperation reads the intent,
\* SaveEndIntent reads the operations).
Interlock == ~ (StartUnresolved /\ intent = "open")

\* At most one start operation of the session is unresolved, so at most one
\* request may ever own a compensation or an activation.
OneUnresolved ==
    \A j, k \in Keys : Unresolved(j) /\ Unresolved(k) => j = k

\* An active session was activated by exactly one operation, and a completed
\* operation never belongs to a session that could be started again.
ActiveOwnership ==
    /\ \A j, k \in Keys :
        opStatus[j] = "completed" /\ opStatus[k] = "completed" => j = k
    /\ status = "active" => \E k \in Keys : opStatus[k] = "completed"
    /\ status = "created" => \A k \in Keys : opStatus[k] # "completed"

\* A completed end intent belongs to a terminal session, whichever of the two
\* completions (request or recovery, fenced or not) wrote it.
CompletedIntentTerminal == intent = "done" => status \in Terminal

\* A lease exists only on an open intent and always names its holder; a
\* completion or retry by one actor never leaves another one's lease behind.
LeaseOwned == lease # "none" => intent = "open" /\ owner # None

\* The CHECK constraint voice_session_start_operations_state_valid: a claim
\* stays on exactly the rows that were ever compensated.  A transaction that
\* broke it would fail in the database at run time.
OperationStateValid ==
    \A k \in Keys :
        opClaim[k] # None <=>
            opStatus[k] \in {"compensating", "compensated", "compensation_failed"}

\* What is settled stays settled: terminal sessions, completed and compensated
\* operations, completed intents and the holder of a compensation claim.
Settled ==
    [][ /\ status \in Terminal => status' = status
        /\ intent = "done" => intent' = "done"
        /\ \A k \in Keys :
            /\ opStatus[k] \in {"completed", "compensated"} =>
                opStatus'[k] = opStatus[k]
            /\ opClaim[k] # None => opClaim'[k] = opClaim[k]
      ]_storeVars
=============================================================================
