-------------------------- MODULE SessionLifecycle --------------------------
(***************************************************************************)
(* Start, End, end recovery and failure consumption of one voice session,  *)
(* across several API processes: the threads of sessions.Service and of    *)
(* EndRecoveryWorker between the rows of SessionStore and the runtime of   *)
(* RealtimeControl.                                                        *)
(*                                                                         *)
(* Every database transaction, every call sent and every answer received   *)
(* is a step, so other threads, other processes, crashes and late calls    *)
(* come between any two of them.  Inside one process a keyed lock          *)
(* serializes the threads; between processes only the transactions do.     *)
(***************************************************************************)
EXTENDS SessionStore, RealtimeControl, Naturals

CONSTANTS
    MaxFaults,         \* bound on crashes, timeouts and failing dependencies
    RealtimeRestarts   \* TRUE: the realtime process may restart (costs a fault)

ASSUME BoundsAssumption == MaxFaults \in Nat /\ RealtimeRestarts \in BOOLEAN

VARIABLES
    pc,      \* where each thread is; see StartLabels, EndLabels, WorkerLabels
    key,     \* idempotency key of a start request, chosen when it arrives
    claim,   \* claim id a start request compensates with
    seen,    \* status an end request read before it saved its intent
    lock,    \* holder of the session's keyed lock in each process
    faults   \* faults so far

threadVars == <<pc, key, claim, seen, lock>>
vars == <<status, opStatus, opClaim, intent, owner, lease,
          rt, rtOp, media, calls, exec, startReplay, stopReplay,
          pc, key, claim, seen, lock, faults>>

StartLabels == {"new", "replay", "find", "begin", "send_start", "await_start",
                "reconcile", "activate", "claim", "send_comp_stop",
                "await_comp_stop", "complete_comp", "fail_comp",
                "acked", "returned"}
EndLabels == {"new", "save_intent", "end_created", "send_stop", "await_stop",
              "end_active", "complete", "retry", "acked", "returned"}
WorkerLabels == {"idle", "lock", "end_created", "send_stop", "await_stop",
                 "end_active", "reconcile_end", "complete", "retry"}

\* A thread that holds or waits for nothing.
Resting == {"new", "idle", "acked", "returned"}

\* A driver inside its leased attempt: endAttemptContext, AttemptTimeout.
Attempting == {"lock", "end_created", "send_stop", "await_stop", "end_active",
               "reconcile_end", "complete"}

TypeOK ==
    /\ StoreTypeOK
    /\ RealtimeTypeOK
    /\ pc \in [Actors -> StartLabels \cup EndLabels \cup WorkerLabels]
    /\ \A r \in StartRequests : pc[r] \in StartLabels
    /\ \A e \in EndRequests : pc[e] \in EndLabels
    /\ \A i \in Instances : pc[i] \in WorkerLabels
    /\ key \in [StartRequests -> Keys \cup {None}]
    /\ claim \in [StartRequests -> Actors \cup {None}]
    /\ seen \in [EndRequests -> Statuses]
    /\ lock \in [Instances -> Actors \cup {None}]
    /\ faults \in 0 .. MaxFaults

Init ==
    /\ StoreInit
    /\ RealtimeInit
    /\ pc = [t \in Actors |-> IF t \in Instances THEN "idle" ELSE "new"]
    /\ key = [r \in StartRequests |-> None]
    /\ claim = [r \in StartRequests |-> None]
    /\ seen = [e \in EndRequests |-> "created"]
    /\ lock = [i \in Instances |-> None]
    /\ faults = 0

-----------------------------------------------------------------------------
\* Threads.

\* A request unlocks when it returns, a worker when recoverClaimed returns,
\* which is before it records its retry.
Unlocks(t, l) == l \in Resting \/ (t \in Instances /\ l = "retry")

Unlocked(t) == [i \in Instances |-> IF lock[i] = t THEN None ELSE lock[i]]

Move(t, l) ==
    /\ pc' = [pc EXCEPT ![t] = l]
    /\ lock' = IF Unlocks(t, l) THEN Unlocked(t) ELSE lock

Fault == faults < MaxFaults /\ faults' = faults + 1
NoFault == UNCHANGED faults

\* Where a thread waits for an answer, and where the answer takes it.
Awaits(m) ==
    IF m.kind = "start" THEN "await_start"
    ELSE IF m.by \in StartRequests THEN "await_comp_stop" ELSE "await_stop"

Waiting == {"await_start", "await_comp_stop", "await_stop"}

OnOk    == [await_start |-> "activate", await_comp_stop |-> "complete_comp",
            await_stop |-> "end_active"]
\* Variants named X_... are wrong on purpose: each stands for a bug that could
\* be made in X, and shows that some property below notices it.

\* Bug: a failed Stop is taken for a finished one.
OnError_EndsAnyway == [await_start |-> "reconcile", await_comp_stop |-> "fail_comp",
                       await_stop |-> "end_active"]

OnError == [await_start |-> "reconcile", await_comp_stop |-> "fail_comp",
            await_stop |-> "retry"]

\* The callers in ms that still wait go on; a caller that timed out or died
\* does not hear the answer.
Answer(ms, next) ==
    LET heard == {m.by : m \in {n \in ms : pc[n.by] = Awaits(n)}}
    IN  /\ pc' = [t \in Actors |-> IF t \in heard THEN next[pc[t]] ELSE pc[t]]
        /\ lock' = [i \in Instances |->
                      IF \E t \in heard : lock[i] = t /\ Unlocks(t, next[pc[t]])
                      THEN None ELSE lock[i]]

-----------------------------------------------------------------------------
\* Service.Start.

StartReadLabel == CASE status = "active"  -> "replay"
                    [] status = "created" -> "find"
                    [] OTHER              -> "returned"

\* Lock the session in process i, then GetOwned.
StartRead(r, i, k) ==
    /\ pc[r] = "new" /\ lock[i] = None
    /\ key' = [key EXCEPT ![r] = k]
    /\ pc' = [pc EXCEPT ![r] = StartReadLabel]
    /\ lock' = IF StartReadLabel = "returned" THEN lock ELSE [lock EXCEPT ![i] = r]
    /\ NoFault /\ UNCHANGED <<storeVars, rtVars, claim, seen>>

\* Bug: an active session answers a start under any key.
Replay_AnyKey(r) ==
    /\ pc[r] = "replay"
    /\ Move(r, IF intent # "open" THEN "acked" ELSE "returned")
    /\ NoFault /\ UNCHANGED <<storeVars, rtVars, key, claim, seen>>

\* replayCompletedStart: the session was active when it was read.
Replay(r) ==
    /\ pc[r] = "replay"
    /\ Move(r, IF intent # "open" /\ opStatus[key[r]] = "completed"
               THEN "acked" ELSE "returned")
    /\ NoFault /\ UNCHANGED <<storeVars, rtVars, key, claim, seen>>

\* What an existing operation row makes of the request: continueStartOperation.
\* A compensation is resumed with the persisted claim, whoever holds it.
Continue(r) ==
    LET k == key[r] IN
    /\ claim' = IF opStatus[k] = "compensating"
                THEN [claim EXCEPT ![r] = opClaim[k]] ELSE claim
    /\ Move(r, CASE opStatus[k] = "pending"      -> "send_start"
                 [] opStatus[k] = "compensating" -> "claim"
                 [] opStatus[k] = "completed" /\ status = "active" -> "acked"
                 [] OTHER -> "returned")

\* findStartOperation: GetStartOperation hides compensated rows and refuses a
\* request while another key is unresolved.
Find(r) ==
    /\ pc[r] = "find"
    /\ \/ /\ opStatus[key[r]] \notin {"none", "compensated"}
          /\ Continue(r)
       \/ /\ opStatus[key[r]] = "none" /\ StartUnresolved
          /\ Move(r, "returned") /\ UNCHANGED claim
       \/ /\ \/ opStatus[key[r]] = "compensated"
             \/ opStatus[key[r]] = "none" /\ ~StartUnresolved
          /\ Move(r, "begin") /\ UNCHANGED claim
    /\ NoFault /\ UNCHANGED <<storeVars, rtVars, key, seen>>

CanBegin(k) ==
    intent # "open" /\ opStatus[k] = "none" /\ status = "created" /\ ~StartUnresolved

\* beginStartOperation: insert, or the row another process inserted meanwhile.
Begin(r) ==
    /\ pc[r] = "begin"
    /\ \/ /\ BeginStartOperation(key[r])
          /\ \/ Move(r, "send_start") /\ NoFault
             \/ Move(r, "returned") /\ Fault       \* commit answered by an error
          /\ UNCHANGED claim
       \/ /\ ~CanBegin(key[r])
          /\ IF intent = "open" THEN Move(r, "returned") /\ UNCHANGED claim
                                ELSE Continue(r)
          /\ NoFault /\ UNCHANGED storeVars
    /\ UNCHANGED <<rtVars, key, seen>>

\* Realtime.Start and Realtime.Stop leave the process.
Call(t, from, m) ==
    /\ pc[t] = from
    /\ Send(m)
    /\ Move(t, Awaits(m))
    /\ NoFault /\ UNCHANGED <<storeVars, key, claim, seen>>

SendStart(r) == Call(r, "send_start", StartCall(key[r], r))
SendCompensatingStop(r) == Call(r, "send_comp_stop", StopCall(OperatorCancelled, r))

\* reconcileUncertainStart and continueOwnedStartRuntime: one GetRuntimeState.
Reconcile(r) ==
    /\ pc[r] = "reconcile"
    /\ Move(r, IF rt = "running" /\ rtOp = key[r] THEN "activate" ELSE "returned")
    /\ NoFault /\ UNCHANGED <<storeVars, rtVars, key, claim, seen>>

\* Bug: compensation stops the runtime without claiming the operation first.
Activate_Unclaimed(r) ==
    LET k == key[r] IN
    /\ pc[r] = "activate"
    /\ \/ TransitionToActive(k) /\ Move(r, "acked") /\ NoFault
       \/ /\ Fault /\ (UNCHANGED storeVars \/ TransitionToActive(k))
          /\ Move(r, "send_comp_stop")
    /\ claim' = [claim EXCEPT ![r] = r]
    /\ UNCHANGED <<rtVars, key, seen>>

\* activateOwnedStartRuntime: any error, also one that hides a commit, turns
\* to compensation under the request's own trace id.
Activate(r) ==
    LET k == key[r] IN
    /\ pc[r] = "activate"
    /\ \/ TransitionToActive(k) /\ Move(r, "acked") /\ NoFault /\ UNCHANGED claim
       \/ /\ opStatus[k] = "completed" /\ status = "active"
          /\ Move(r, "acked") /\ NoFault /\ UNCHANGED <<storeVars, claim>>
       \/ /\ \/ /\ opStatus[k] # "pending" \/ status # "created"
                /\ ~ (opStatus[k] = "completed" /\ status = "active")
                /\ NoFault /\ UNCHANGED storeVars
             \/ Fault /\ (UNCHANGED storeVars \/ TransitionToActive(k))
          /\ Move(r, "claim") /\ claim' = [claim EXCEPT ![r] = r]
    /\ UNCHANGED <<rtVars, key, seen>>

\* compensateStartedOperation up to the Stop it may or may not send.
Claim(r) ==
    LET k == key[r] IN
    /\ pc[r] = "claim"
    /\ \/ /\ ClaimStartCompensation(k, claim[r])
          /\ \/ Move(r, "send_comp_stop") /\ NoFault
             \/ Move(r, "returned") /\ Fault
       \/ /\ ClaimReentered(k, claim[r])
          /\ Move(r, "send_comp_stop") /\ NoFault /\ UNCHANGED storeVars
       \/ /\ status # "created" \/ opStatus[k] # "pending"
          /\ ~ClaimReentered(k, claim[r])
          /\ Move(r, IF status = "active" /\ intent # "open" /\ opStatus[k] = "completed"
                     THEN "acked" ELSE "returned")
          /\ NoFault /\ UNCHANGED storeVars
    /\ UNCHANGED <<rtVars, key, claim, seen>>

\* completeStartCompensation and failStartCompensation: the request returns
\* an error whether or not the write succeeds.
FinishCompensation(r) ==
    LET k == key[r] IN
    /\ \/ /\ pc[r] = "complete_comp"
          /\ \/ CompleteStartCompensation(k, claim[r])
             \/ ~ClaimHolds(k, claim[r], Completable) /\ UNCHANGED storeVars
       \/ /\ pc[r] = "fail_comp"
          /\ \/ FailStartCompensation(k, claim[r])
             \/ ~ClaimHolds(k, claim[r], Failable) /\ UNCHANGED storeVars
    /\ Move(r, "returned")
    /\ NoFault /\ UNCHANGED <<rtVars, key, claim, seen>>

\* A step of Start fails before it changes anything: readiness, the client's
\* cancellation, a database or realtime read.
Abandon(r) ==
    /\ pc[r] \in {"replay", "find", "begin", "reconcile", "claim",
                  "complete_comp", "fail_comp"}
    /\ Move(r, "returned")
    /\ Fault /\ UNCHANGED <<storeVars, rtVars, key, claim, seen>>

-----------------------------------------------------------------------------
\* Service.End.

\* Bug: a session that never started is left to somebody else.
Dispatch_CreatedLater(s) == CASE s = "created" -> "retry"
                              [] s = "active"  -> "send_stop"
                              [] OTHER         -> "complete"


\* Where a driver goes with the status it read.
Dispatch(s) == CASE s = "created" -> "end_created"
                 [] s = "active"  -> "send_stop"
                 [] OTHER         -> "complete"

\* Lock the session in process i, then GetOwned: the status acted on below is
\* older than the intent.
EndRead(e, i) ==
    /\ pc[e] = "new" /\ lock[i] = None
    /\ seen' = [seen EXCEPT ![e] = status]
    /\ lock' = [lock EXCEPT ![i] = e]
    /\ pc' = [pc EXCEPT ![e] = "save_intent"]
    /\ NoFault /\ UNCHANGED <<storeVars, rtVars, key, claim>>

SaveIntent(e) ==
    /\ pc[e] = "save_intent"
    /\ \/ /\ SaveEndIntent(e)
          /\ \/ Move(e, Dispatch(seen[e])) /\ NoFault
             \/ Move(e, "returned") /\ Fault      \* commit answered by an error
       \/ /\ \/ StartUnresolved
             \/ intent = "open" /\ lease = "live"
          /\ Move(e, "returned") /\ NoFault /\ UNCHANGED storeVars
       \/ /\ ~StartUnresolved /\ intent = "done"
          /\ Move(e, "acked") /\ NoFault /\ UNCHANGED storeVars
    /\ UNCHANGED <<rtVars, key, claim, seen>>

-----------------------------------------------------------------------------
\* EndRecoveryWorker.

\* ProcessNext claims without the keyed lock.
WorkerClaim(i) ==
    /\ pc[i] = "idle"
    /\ ClaimPendingEndIntent(i)
    /\ Move(i, "lock")
    /\ NoFault /\ UNCHANGED <<rtVars, key, claim, seen>>

\* recoverClaimed locks the session and reads it.
WorkerRead(i) ==
    /\ pc[i] = "lock" /\ lock[i] = None
    /\ lock' = [lock EXCEPT ![i] = i]
    /\ pc' = [pc EXCEPT ![i] = Dispatch(status)]
    /\ NoFault /\ UNCHANGED <<storeVars, rtVars, key, claim, seen>>

\* reconcileTransition: the transition lost a race; was it to another end?
ReconcileEnd(i) ==
    /\ pc[i] = "reconcile_end"
    /\ Move(i, IF status \in Terminal THEN "complete" ELSE "retry")
    /\ NoFault /\ UNCHANGED <<storeVars, rtVars, key, claim, seen>>

-----------------------------------------------------------------------------
\* Steps that requests and workers share.

\* TransitionToEnded as both paths call it: done, lost to another transition,
\* or failed by the database before or after its commit.
EndTransition(t, from, expected) ==
    /\ pc[t] = from
    /\ \/ TransitionToEnded(expected) /\ Move(t, "complete") /\ NoFault
       \/ /\ status # expected
          /\ Move(t, IF t \in Instances THEN "reconcile_end" ELSE "retry")
          /\ NoFault /\ UNCHANGED storeVars
       \/ /\ TransitionToEnded(expected) \/ UNCHANGED storeVars
          /\ Move(t, "retry") /\ Fault
    /\ UNCHANGED <<rtVars, key, claim, seen>>

\* endCreated and the created case of recoverClaimed: no Stop.
EndCreated(t) == EndTransition(t, "end_created", "created")

\* stopAndTransitionActive: Stop, then the transition on a stopped answer.
SendStop(t) == Call(t, "send_stop", StopCall(EndReason, t))
EndActive(t) == EndTransition(t, "end_active", "active")

CompletedAlready == status \in Terminal /\ intent = "done"

\* completeEndIntent and completeClaimed.
Complete(t) ==
    LET Finish == IF t \in Instances THEN CompleteClaimedEndIntent(t)
                                     ELSE CompleteEndIntent
        mayFinish == /\ status \in Terminal /\ intent = "open"
                     /\ t \in Instances => owner = t /\ lease = "live"
    IN  /\ pc[t] = "complete"
        /\ \/ /\ Finish \/ (CompletedAlready /\ UNCHANGED storeVars)
              /\ Move(t, IF t \in Instances THEN "idle" ELSE "acked") /\ NoFault
           \/ /\ ~mayFinish /\ ~CompletedAlready
              /\ Move(t, "retry") /\ NoFault /\ UNCHANGED storeVars
           \/ /\ Finish \/ UNCHANGED storeVars
              /\ Move(t, "retry") /\ Fault
        /\ UNCHANGED <<rtVars, key, claim, seen>>

\* The deferred retry of a request, ProcessNext's retry of a worker; one that
\* lost its lease changes nothing, a failed write leaves the lease to expire.
Retry(t) ==
    /\ pc[t] = "retry"
    /\ \/ RetryClaimedEndIntent(t) /\ NoFault
       \/ /\ ~ (intent = "open" /\ owner = t /\ lease = "live")
          /\ NoFault /\ UNCHANGED storeVars
       \/ Fault /\ UNCHANGED storeVars
    /\ Move(t, IF t \in Instances THEN "idle" ELSE "returned")
    /\ UNCHANGED <<rtVars, key, claim, seen>>

\* A worker's attempt ends while it waits for the keyed lock.
LockTimeout(i) ==
    /\ pc[i] = "lock"
    /\ Move(i, "retry")
    /\ Fault /\ UNCHANGED <<storeVars, rtVars, key, claim, seen>>

\* Bug: an attempt may take longer than its lease.
LeaseExpiry_DuringAttempt ==
    /\ LeaseExpires
    /\ NoFault /\ UNCHANGED <<rtVars, threadVars>>

\* Attempt timeouts are shorter than leases: a lease outlives its attempt.
LeaseExpiry ==
    /\ owner # None => pc[owner] \notin Attempting
    /\ LeaseExpires
    /\ NoFault /\ UNCHANGED <<rtVars, threadVars>>

\* ConsumeRuntimeFailure in process i.  Its transport is not in the source:
\* realtime is taken at its word that the failed runtime is cleaned up.
RuntimeFailure(i) ==
    /\ lock[i] = None
    /\ rt = "failed" /\ media = None
    /\ TransitionToFailed
    /\ NoFault /\ UNCHANGED <<rtVars, threadVars>>

-----------------------------------------------------------------------------
\* The realtime side: each step of RealtimeControl with the answer it gives.

\* Start reads the business session from PostgreSQL when it is accepted.  A
\* request sends one Start, so its own answer is never replayed to it.
Serve(m) ==
    /\ \/ StartConflict(m)                      /\ Answer({m}, OnError)
       \/ StartRefused(m, status = "created")   /\ Answer({m}, OnError)
       \/ StartCurrent(m)                       /\ Answer({m}, OnOk)
       \/ StartBegins(m, status = "created")    /\ UNCHANGED <<pc, lock>>
       \/ StopReplayed(m)                       /\ Answer({m}, OnOk)
       \/ StopNothing(m)                        /\ Answer({m}, OnOk)
       \/ StopBegins(m)                         /\ UNCHANGED <<pc, lock>>
    /\ NoFault /\ UNCHANGED <<storeVars, key, claim, seen>>

Execute ==
    /\ \/ StartListens /\ UNCHANGED <<pc, lock>> /\ NoFault
       \/ StartSucceeds /\ Answer({exec}, OnOk) /\ NoFault
       \/ /\ StartFails /\ Answer({exec}, OnError)
          /\ IF Retained THEN NoFault ELSE Fault
       \/ StopSucceeds /\ Answer({exec}, OnOk) /\ NoFault
       \/ \E joined \in SUBSET Joinable :
            StopFails(joined) /\ Answer({exec} \cup joined, OnError) /\ Fault
    /\ UNCHANGED <<storeVars, key, claim, seen>>

\* The caller gives up; its call is lost, or still on its way.
Timeout(t) ==
    /\ pc[t] \in Waiting
    /\ \/ UNCHANGED rtVars
       \/ \E m \in calls : m.by = t /\ Awaits(m) = pc[t] /\ Lose(m)
    /\ Move(t, OnError[pc[t]])
    /\ Fault /\ UNCHANGED <<storeVars, key, claim, seen>>

\* A call nobody waits for any more reaches the handler already cancelled.
Cancel(m) ==
    /\ m \in calls /\ pc[m.by] # Awaits(m)
    /\ Lose(m)
    /\ NoFault /\ UNCHANGED <<storeVars, threadVars>>

RuntimeBreaks ==
    /\ PipelineDies
    /\ Fault /\ UNCHANGED <<storeVars, threadVars>>

RuntimeReports ==
    /\ RuntimeFails
    /\ NoFault /\ UNCHANGED <<storeVars, threadVars>>

\* Callers of a realtime process that dies see their connections break.
RealtimeRestart ==
    /\ RealtimeRestarts
    /\ Restart
    /\ Answer(calls \cup ({exec} \ {None}), OnError)
    /\ Fault /\ UNCHANGED <<storeVars, key, claim, seen>>

\* Ten minutes pass without a request or a call of the session.
ReplayTTL ==
    /\ \A t \in Actors : pc[t] \in Resting
    /\ ReplayExpires
    /\ NoFault /\ UNCHANGED <<storeVars, threadVars>>

\* A process dies with the threads it hosts; a new one takes its place.  Its
\* calls stay in flight.
Crash(i) ==
    /\ pc[i] # "idle" \/ lock[i] # None
    /\ pc' = [t \in Actors |-> IF t = i THEN "idle"
                               ELSE IF t = lock[i] THEN "returned" ELSE pc[t]]
    /\ lock' = [lock EXCEPT ![i] = None]
    /\ Fault /\ UNCHANGED <<storeVars, rtVars, key, claim, seen>>

-----------------------------------------------------------------------------
StartStep(r) ==
    \/ Replay(r) \/ Find(r) \/ Begin(r)
    \/ SendStart(r) \/ Reconcile(r) \/ Activate(r)
    \/ Claim(r) \/ SendCompensatingStop(r) \/ FinishCompensation(r)

EndStep(t) ==
    \/ EndCreated(t) \/ SendStop(t) \/ EndActive(t)
    \/ Complete(t) \/ Retry(t)

WorkerStep(i) == WorkerClaim(i) \/ WorkerRead(i) \/ ReconcileEnd(i) \/ EndStep(i)

RealtimeStep == (\E m \in calls : Serve(m)) \/ Execute

Next ==
    \/ \E r \in StartRequests :
        \/ \E i \in Instances, k \in Keys : StartRead(r, i, k)
        \/ StartStep(r)
        \/ Abandon(r)
    \/ \E e \in EndRequests :
        \/ \E i \in Instances : EndRead(e, i)
        \/ SaveIntent(e)
        \/ EndStep(e)
    \/ \E i \in Instances :
        \/ WorkerStep(i)
        \/ LockTimeout(i)
        \/ RuntimeFailure(i)
        \/ Crash(i)
    \/ \E t \in Actors : Timeout(t)
    \/ \E m \in calls : Cancel(m)
    \/ RealtimeStep
    \/ LeaseExpiry
    \/ RuntimeBreaks \/ RuntimeReports \/ RealtimeRestart \/ ReplayTTL

Spec == Init /\ [][Next]_vars

\* Go schedules every runnable goroutine, worker Run loops forever, handlers
\* return, and clocks advance; clients owe nothing.
Fairness ==
    /\ \A r \in StartRequests : WF_vars(StartStep(r))
    /\ \A e \in EndRequests : WF_vars(SaveIntent(e) \/ EndStep(e))
    /\ \A i \in Instances : WF_vars(WorkerStep(i))
    /\ WF_vars(RealtimeStep)
    /\ WF_vars(LeaseExpiry)

FairSpec == Spec /\ Fairness

-----------------------------------------------------------------------------
\* An unresolved start keeps the session created and free of end intents: no
\* path, not even an end attempt that read the session before the start began,
\* may end or fail a session somebody is still starting or compensating.
UnresolvedFreezes == StartUnresolved => status = "created" /\ intent = "none"

\* Two threads never drive the end of the session at once, whatever expires,
\* crashes or retries: the intent's lease is the only thing between them.
SingleEndDriver ==
    \A s, t \in EndDrivers : pc[s] \in Attempting /\ pc[t] \in Attempting => s = t

\* An attempt in progress owns the live lease of the open intent (until some
\* completion closes the intent under it).
DriverHoldsLease ==
    \A t \in EndDrivers : pc[t] \in Attempting =>
        \/ intent = "open" /\ owner = t /\ lease = "live"
        \/ intent = "done" /\ status \in Terminal

\* A success a client saw is true and stays true: its start operation is the
\* completed one; its end intent is done and the session terminal.
AckTruthful ==
    /\ \A r \in StartRequests : pc[r] = "acked" => opStatus[key[r]] = "completed"
    /\ \A e \in EndRequests : pc[e] = "acked" => CompletedAlready

\* A compensating Stop, in flight or executing, never belongs to an operation
\* that activated the session: activation and compensation exclude each other
\* across processes.
CompensatingStops == {m \in calls \cup {exec} :
                        m # None /\ m.kind = "stop" /\ m.by \in StartRequests}
NoStopOfActivated ==
    \A m \in CompensatingStops : opStatus[key[m.by]] # "completed"

\* Media of one operation never runs under a session another one activated.
ActiveMediaOwned ==
    status = "active" /\ media # None => opStatus[media] = "completed"

\* End moves an active session to ended only with its media released: "Only a
\* valid RuntimeStopped snapshot permits active -> ended".
ActiveEndReleased ==
    [][ status = "active" /\ status' = "ended" => media' = None ]_vars

\* sessions/README.md: in `compensating', "one request owns cleanup and every
\* other request is forbidden from stopping realtime".  The code grants the
\* persisted claim to every request that resumes it.
Compensating == {"send_comp_stop", "await_comp_stop", "complete_comp", "fail_comp"}
OneCompensator ==
    \A r, s \in StartRequests :
        pc[r] \in Compensating /\ pc[s] \in Compensating => r = s

\* Which protocol owns the session, read from the rows.
Gate == IF StartUnresolved THEN "starting"
        ELSE CASE intent = "none" -> "free"
               [] intent = "open" -> "ending"
               [] intent = "done" -> "closed"

Contract == INSTANCE SessionContract WITH gate <- Gate
ContractRefined == Contract!SafeSpec
ContractFulfilled == Contract!Spec

\* An accepted end is carried out, if it takes the recovery worker of another
\* process: "Every failure after SaveEndIntent remains recoverable".
EndCompletes == intent = "open" ~> intent = "done"
=============================================================================
