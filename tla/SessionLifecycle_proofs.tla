---------------------- MODULE SessionLifecycle_proofs ----------------------
(***************************************************************************)
(* What the whole control plane guarantees for every number of requests,   *)
(* processes and keys, whatever crashes, times out, is lost or retried:    *)
(* the threads use the store and the runtime only as their own modules     *)
(* allow, so the invariants proved there hold of the system; an unresolved *)
(* start freezes the session; and the system implements SessionContract.   *)
(***************************************************************************)
EXTENDS SessionLifecycle, SessionStore_proofs, RealtimeControl_proofs

ThreadTypeOK ==
    /\ pc \in [Actors -> StartLabels \cup EndLabels \cup WorkerLabels]
    /\ \A r \in StartRequests : pc[r] \in StartLabels
    /\ \A e \in EndRequests : pc[e] \in EndLabels
    /\ \A i \in Instances : pc[i] \in WorkerLabels
    /\ key \in [StartRequests -> Keys \cup {None}]
    /\ claim \in [StartRequests -> Actors \cup {None}]
    /\ seen \in [EndRequests -> Statuses]
    /\ lock \in [Instances -> Actors \cup {None}]
    /\ faults \in 0 .. MaxFaults

\* A start request between its arrival and its answer has a key.
Keyed == \A r \in StartRequests : pc[r] \notin {"new", "returned"} => key[r] \in Keys

\* A request that compensates has a claim id: its own or the persisted one.
Claimed ==
    \A r \in StartRequests : pc[r] \in {"claim"} \cup Compensating => claim[r] \in Actors

\* Whoever drives an end has saved or claimed its intent, and no transaction
\* deletes one.  This is what keeps TransitionToEnded off a starting session.
DriversIntended ==
    \A t \in EndDrivers : pc[t] \in Attempting => intent # "none"

\* A process's lock is held by a request or by its own worker.
Hosted ==
    \A i \in Instances : lock[i] \in StartRequests \cup EndRequests \cup {i, None}

ThreadInv == ThreadTypeOK /\ Keyed /\ Claimed /\ DriversIntended /\ Hosted

\* The inductive invariant of the system.
LifecycleInv ==
    /\ StoreInv
    /\ RealtimeInv
    /\ ThreadInv
    /\ UnresolvedFreezes

\* Every initial state satisfies the lifecycle invariant.
LEMMA LifecycleInitInv == Init => LifecycleInv
<1> SUFFICES ASSUME Init PROVE LifecycleInv
  OBVIOUS
<1>1. StoreInv /\ RealtimeInv
  BY StoreInitInv, RealtimeInitInv DEF Init
<1>2. ThreadInv
  <2> USE ThreadsAssumption, BoundsAssumption DEF Init, StoreInit, Actors, EndDrivers
  <2>1. ThreadTypeOK
    BY DEF ThreadTypeOK, StartLabels, EndLabels, WorkerLabels, Statuses
  <2>2. \A t \in Actors : pc[t] \in {"new", "idle"}
    OBVIOUS
  <2>3. \A r \in StartRequests : pc[r] = "new"
    OBVIOUS
  <2>4. Keyed /\ Claimed
    BY <2>3 DEF Keyed, Claimed, Compensating
  <2>5. DriversIntended
    BY <2>2 DEF DriversIntended, Attempting
  <2>6. Hosted
    BY DEF Hosted
  <2> QED BY <2>1, <2>4, <2>5, <2>6 DEF ThreadInv
<1>3. UnresolvedFreezes
  BY DEF Init, StoreInit, UnresolvedFreezes
<1> QED BY <1>1, <1>2, <1>3 DEF LifecycleInv

-----------------------------------------------------------------------------
\* What the steps of Next do to the rows.

\* Every change of the rows is a transaction of SessionStore, and a session is
\* ended only under an end intent.
StoreMoves ==
    /\ [StoreNext]_storeVars
    /\ status' = "ended" => status = "ended" \/ intent # "none"

\* Steps that leave the store's variables alone stutter in the store.
LEMMA StoreUntouched == UNCHANGED storeVars => StoreMoves
  BY DEF StoreMoves, storeVars

\* Steps of a start request use the store by its operations.
LEMMA StartRequestMoves ==
  ASSUME LifecycleInv, NEW r \in StartRequests,
         Begin(r) \/ Activate(r) \/ Claim(r) \/ FinishCompensation(r)
  PROVE  StoreMoves
<1> DEFINE k == key[r]
<1>1. ASSUME pc[r] \notin {"new", "returned"}
      PROVE  k \in Keys
  BY <1>1 DEF LifecycleInv, ThreadInv, Keyed
<1>2. ASSUME pc[r] \in {"claim"} \cup Compensating
      PROVE  k \in Keys /\ claim[r] \in Actors
  BY <1>2 DEF LifecycleInv, ThreadInv, Keyed, Claimed, Compensating
<1>3. CASE Begin(r)
  <2>1. k \in Keys
    BY <1>1, <1>3 DEF Begin
  <2>2. BeginStartOperation(k) \/ UNCHANGED storeVars
    BY <1>3 DEF Begin
  <2> QED BY <2>1, <2>2, StoreUntouched DEF StoreMoves, StoreNext, BeginStartOperation
<1>4. CASE Activate(r)
  <2>1. k \in Keys
    BY <1>1, <1>4 DEF Activate
  <2>2. TransitionToActive(k) \/ UNCHANGED storeVars
    BY <1>4 DEF Activate
  <2> QED BY <2>1, <2>2, StoreUntouched DEF StoreMoves, StoreNext, TransitionToActive
<1>5. CASE Claim(r)
  <2>1. k \in Keys /\ claim[r] \in Actors
    BY <1>2, <1>5 DEF Claim
  <2>2. ClaimStartCompensation(k, claim[r]) \/ UNCHANGED storeVars
    BY <1>5 DEF Claim
  <2> QED BY <2>1, <2>2, StoreUntouched DEF StoreMoves, StoreNext, ClaimStartCompensation
<1>6. CASE FinishCompensation(r)
  <2>1. k \in Keys /\ claim[r] \in Actors
    BY <1>2, <1>6 DEF FinishCompensation, Compensating
  <2>2. \/ CompleteStartCompensation(k, claim[r])
        \/ FailStartCompensation(k, claim[r])
        \/ UNCHANGED storeVars
    BY <1>6 DEF FinishCompensation
  <2> QED BY <2>1, <2>2, StoreUntouched
          DEF StoreMoves, StoreNext, CompleteStartCompensation, FailStartCompensation
<1> QED BY <1>3, <1>4, <1>5, <1>6

\* Only an attempt ends a session, and an attempt has an intent.
LEMMA EndTransitionMoves ==
  ASSUME LifecycleInv, NEW t \in EndDrivers, EndCreated(t) \/ EndActive(t)
  PROVE  StoreMoves
<1>1. intent # "none"
  BY DEF LifecycleInv, ThreadInv, DriversIntended, Attempting, EndCreated, EndActive,
     EndTransition
<1>2. \/ UNCHANGED storeVars
      \/ \E expected \in {"created", "active"} : TransitionToEnded(expected)
  BY DEF EndCreated, EndActive, EndTransition
<1> QED BY <1>1, <1>2, StoreUntouched DEF StoreMoves, StoreNext

\* Completing or retrying an attempt uses the store by its operations.
LEMMA EndDriverMoves ==
  ASSUME LifecycleInv, NEW t \in EndDrivers, Complete(t) \/ Retry(t)
  PROVE  StoreMoves
<1>1. t \in Actors
  BY DEF EndDrivers, Actors
<1>2. \/ CompleteEndIntent
      \/ CompleteClaimedEndIntent(t)
      \/ RetryClaimedEndIntent(t)
      \/ UNCHANGED storeVars
  BY DEF Complete, Retry
<1> QED BY <1>1, <1>2, StoreUntouched
        DEF StoreMoves, StoreNext, CompleteEndIntent, CompleteClaimedEndIntent,
            RetryClaimedEndIntent

\* Saving and claiming an intent, and an expiring lease, use the store by its operations.
LEMMA IntentMoves ==
  ASSUME LifecycleInv,
         \/ \E e \in EndRequests : SaveIntent(e)
         \/ \E i \in Instances : WorkerClaim(i) \/ RuntimeFailure(i)
         \/ LeaseExpiry
  PROVE  StoreMoves
<1>1. ASSUME NEW e \in EndRequests, SaveIntent(e)
      PROVE  StoreMoves
  <2>1. SaveEndIntent(e) \/ UNCHANGED storeVars
    BY <1>1 DEF SaveIntent
  <2> QED BY <2>1, StoreUntouched DEF StoreMoves, StoreNext, SaveEndIntent, Actors
<1>2. ASSUME NEW i \in Instances, WorkerClaim(i)
      PROVE  StoreMoves
  BY <1>2 DEF WorkerClaim, StoreMoves, StoreNext, ClaimPendingEndIntent, Actors
<1>3. ASSUME NEW i \in Instances, RuntimeFailure(i)
      PROVE  StoreMoves
  BY <1>3 DEF RuntimeFailure, StoreMoves, StoreNext, TransitionToFailed
<1>4. CASE LeaseExpiry
  BY <1>4 DEF LeaseExpiry, StoreMoves, StoreNext, LeaseExpires
<1> QED BY <1>1, <1>2, <1>3, <1>4

\* Every step of the lifecycle is a step of the store or leaves it alone.
LEMMA StoreUsed == LifecycleInv /\ [Next]_vars => StoreMoves
<1> SUFFICES ASSUME LifecycleInv, [Next]_vars PROVE StoreMoves
  OBVIOUS
<1>1. ASSUME NEW r \in StartRequests,
             \/ \E i \in Instances, k \in Keys : StartRead(r, i, k)
             \/ Replay(r) \/ Find(r) \/ SendStart(r) \/ Reconcile(r)
             \/ SendCompensatingStop(r) \/ Abandon(r)
      PROVE  UNCHANGED storeVars
  BY <1>1 DEF StartRead, Replay, Find, SendStart, Reconcile, SendCompensatingStop, Abandon, Call
<1>2. ASSUME NEW t \in EndDrivers, SendStop(t)
      PROVE  UNCHANGED storeVars
  BY <1>2 DEF SendStop, Call
<1>3. ASSUME NEW e \in EndRequests, NEW i \in Instances, EndRead(e, i)
      PROVE  UNCHANGED storeVars
  BY <1>3 DEF EndRead
<1>4. ASSUME NEW i \in Instances,
             WorkerRead(i) \/ ReconcileEnd(i) \/ LockTimeout(i) \/ Crash(i)
      PROVE  UNCHANGED storeVars
  BY <1>4 DEF WorkerRead, ReconcileEnd, LockTimeout, Crash
<1>5. ASSUME \/ \E t \in Actors : Timeout(t)
             \/ \E m \in calls : Cancel(m)
             \/ RealtimeStep
      PROVE  UNCHANGED storeVars
  BY <1>5 DEF Timeout, Cancel, RealtimeStep, Serve, Execute
<1>6. ASSUME RuntimeBreaks \/ RuntimeReports \/ RealtimeRestart \/ ReplayTTL
      PROVE  UNCHANGED storeVars
  BY <1>6 DEF RuntimeBreaks, RuntimeReports, RealtimeRestart, ReplayTTL
<1>7. CASE UNCHANGED vars
  BY <1>7, StoreUntouched DEF vars, storeVars
<1>8. EndRequests \subseteq EndDrivers /\ Instances \subseteq EndDrivers
  BY DEF EndDrivers
<1>9. ASSUME NEW r \in StartRequests,
             \/ \E i \in Instances, k \in Keys : StartRead(r, i, k)
             \/ StartStep(r) \/ Abandon(r)
      PROVE  StoreMoves
  BY <1>1, <1>9, StoreUntouched, StartRequestMoves DEF StartStep
<1>10. ASSUME NEW t \in EndDrivers, EndStep(t)
       PROVE  StoreMoves
  BY <1>2, <1>10, StoreUntouched, EndTransitionMoves, EndDriverMoves DEF EndStep
<1>11. ASSUME NEW e \in EndRequests,
              (\E i \in Instances : EndRead(e, i)) \/ SaveIntent(e) \/ EndStep(e)
       PROVE  StoreMoves
  BY <1>3, <1>8, <1>10, <1>11, StoreUntouched, IntentMoves
<1>12. ASSUME NEW i \in Instances,
              WorkerStep(i) \/ LockTimeout(i) \/ RuntimeFailure(i) \/ Crash(i)
       PROVE  StoreMoves
  BY <1>4, <1>8, <1>10, <1>12, StoreUntouched, IntentMoves DEF WorkerStep
<1>13. CASE LeaseExpiry
  BY <1>13, IntentMoves
<1> QED
  BY <1>5, <1>6, <1>7, <1>9, <1>11, <1>12, <1>13, StoreUntouched DEF Next

\* Transactions keep a starting session created: an activation resolves the
\* only unresolved operation, and an end needs an intent that the interlock
\* excludes.
LEMMA FreezeStep ==
  ASSUME StoreInv, UnresolvedFreezes, StoreMoves
  PROVE  UnresolvedFreezes'
<1> USE DEF StoreInv, StoreTypeOK, UnresolvedFreezes, StartUnresolved, Unresolved,
        UnfinishedStatuses
<1>1. CASE UNCHANGED storeVars
  BY <1>1 DEF storeVars
<1>2. ASSUME NEW k \in Keys, BeginStartOperation(k)
      PROVE  UnresolvedFreezes'
  BY <1>2 DEF BeginStartOperation, CompletedIntentTerminal, Terminal
<1>3. ASSUME NEW k \in Keys, TransitionToActive(k)
      PROVE  UnresolvedFreezes'
  BY <1>3 DEF TransitionToActive, OneUnresolved
<1>4. ASSUME NEW k \in Keys, NEW c \in Actors,
             \/ ClaimStartCompensation(k, c)
             \/ CompleteStartCompensation(k, c)
             \/ FailStartCompensation(k, c)
      PROVE  UnresolvedFreezes'
  BY <1>4 DEF ClaimStartCompensation, CompleteStartCompensation, FailStartCompensation,
     ClaimHolds, Completable, Failable
<1>5. ASSUME NEW a \in Actors,
             \/ SaveEndIntent(a) \/ ClaimPendingEndIntent(a)
             \/ RetryClaimedEndIntent(a) \/ CompleteClaimedEndIntent(a)
      PROVE  UnresolvedFreezes'
  BY <1>5 DEF SaveEndIntent, ClaimPendingEndIntent, RetryClaimedEndIntent,
     CompleteClaimedEndIntent
<1>6. CASE CompleteEndIntent
  BY <1>6 DEF CompleteEndIntent
<1>7. ASSUME NEW expected \in {"created", "active"}, TransitionToEnded(expected)
      PROVE  UnresolvedFreezes'
  BY <1>7 DEF TransitionToEnded, StoreMoves
<1>8. CASE TransitionToFailed
  BY <1>8 DEF TransitionToFailed
<1>9. CASE LeaseExpires
  BY <1>9 DEF LeaseExpires
<1> QED
  BY <1>1, <1>2, <1>3, <1>4, <1>5, <1>6, <1>7, <1>8, <1>9 DEF StoreMoves, StoreNext

-----------------------------------------------------------------------------
\* What the steps of Next do to the runtime.

\* Every step of the lifecycle is a step of the control plane or leaves it
\* alone.
LEMMA RuntimeUsed == LifecycleInv /\ [Next]_vars => [RealtimeNext]_rtVars
<1> SUFFICES ASSUME LifecycleInv, [Next]_vars PROVE [RealtimeNext]_rtVars
  OBVIOUS
<1>1. ASSUME NEW r \in StartRequests,
             \/ \E i \in Instances, k \in Keys : StartRead(r, i, k)
             \/ Replay(r) \/ Find(r) \/ Begin(r) \/ Reconcile(r) \/ Activate(r)
             \/ Claim(r) \/ FinishCompensation(r) \/ Abandon(r)
      PROVE  UNCHANGED rtVars
  BY <1>1 DEF StartRead, Replay, Find, Begin, Reconcile, Activate, Claim, FinishCompensation,
     Abandon
<1>2. ASSUME NEW r \in StartRequests, SendStart(r) \/ SendCompensatingStop(r)
      PROVE  RealtimeNext
  <2>1. r \in Actors
    BY DEF Actors
  <2>2. CASE SendStart(r)
    <3>1. key[r] \in Keys
      BY <2>2 DEF SendStart, Call, LifecycleInv, ThreadInv, Keyed
    <3> QED BY <2>1, <2>2, <3>1 DEF SendStart, Call, RealtimeNext
  <2>3. CASE SendCompensatingStop(r)
    BY <2>1, <2>3 DEF SendCompensatingStop, Call, RealtimeNext, Reasons
  <2> QED BY <1>2, <2>2, <2>3
<1>3. ASSUME NEW t \in EndDrivers, EndStep(t)
      PROVE  [RealtimeNext]_rtVars
  <2>1. t \in Actors
    BY DEF Actors, EndDrivers
  <2>2. CASE SendStop(t)
    BY <2>1, <2>2 DEF SendStop, Call, RealtimeNext, Reasons
  <2>3. CASE EndCreated(t) \/ EndActive(t) \/ Complete(t) \/ Retry(t)
    BY <2>3 DEF EndCreated, EndActive, EndTransition, Complete, Retry
  <2> QED BY <1>3, <2>2, <2>3 DEF EndStep
<1>4. ASSUME NEW e \in EndRequests,
             (\E i \in Instances : EndRead(e, i)) \/ SaveIntent(e)
      PROVE  UNCHANGED rtVars
  BY <1>4 DEF EndRead, SaveIntent
<1>5. ASSUME NEW i \in Instances,
             \/ WorkerClaim(i) \/ WorkerRead(i) \/ ReconcileEnd(i)
             \/ LockTimeout(i) \/ RuntimeFailure(i) \/ Crash(i)
      PROVE  UNCHANGED rtVars
  BY <1>5 DEF WorkerClaim, WorkerRead, ReconcileEnd, LockTimeout, RuntimeFailure, Crash
<1>6. ASSUME NEW t \in Actors, Timeout(t)
      PROVE  [RealtimeNext]_rtVars
  BY <1>6 DEF Timeout, RealtimeNext
<1>7. ASSUME NEW m \in calls, Cancel(m) \/ Serve(m)
      PROVE  RealtimeNext
  <2>1. (status = "created") \in BOOLEAN
    OBVIOUS
  <2>2. CASE Cancel(m)
    BY <2>2 DEF Cancel, RealtimeNext
  <2>3. CASE Serve(m)
    <3>1. \/ StartConflict(m) \/ StartCurrent(m)
          \/ StartRefused(m, status = "created") \/ StartBegins(m, status = "created")
          \/ StopReplayed(m) \/ StopNothing(m) \/ StopBegins(m)
      BY <2>3 DEF Serve
    <3> QED BY <2>1, <3>1 DEF RealtimeNext
  <2> QED BY <1>7, <2>2, <2>3
<1>8. CASE Execute
  BY <1>8 DEF Execute, RealtimeNext
<1>9. CASE LeaseExpiry
  BY <1>9 DEF LeaseExpiry
<1>10. CASE RuntimeBreaks \/ RuntimeReports \/ RealtimeRestart \/ ReplayTTL
  BY <1>10 DEF RuntimeBreaks, RuntimeReports, RealtimeRestart, ReplayTTL, RealtimeNext
<1>11. CASE UNCHANGED vars
  BY <1>11 DEF vars, rtVars
<1>12. EndRequests \subseteq EndDrivers /\ Instances \subseteq EndDrivers
  BY DEF EndDrivers
<1> QED
  BY <1>1, <1>2, <1>3, <1>4, <1>5, <1>6, <1>7, <1>8, <1>9, <1>10, <1>11, <1>12
     DEF Next, StartStep, WorkerStep, RealtimeStep

-----------------------------------------------------------------------------
\* What the steps of Next do to the threads.

\* No step takes more faults than there are.
LEMMA FaultBound ==
  ASSUME ThreadTypeOK, Fault \/ NoFault
  PROVE  faults' \in 0 .. MaxFaults
  BY BoundsAssumption DEF ThreadTypeOK, Fault, NoFault

\* No transaction deletes an end intent.
LEMMA IntentKept ==
  ASSUME StoreMoves
  PROVE  intent # "none" => intent' # "none"
  BY DEF StoreMoves, StoreNext, storeVars, BeginStartOperation, TransitionToActive,
     ClaimStartCompensation, CompleteStartCompensation, FailStartCompensation, SaveEndIntent,
     ClaimPendingEndIntent, RetryClaimedEndIntent, CompleteEndIntent, CompleteClaimedEndIntent,
     TransitionToEnded, TransitionToFailed, LeaseExpires

\* Threads keep their types when they move.
LEMMA MoveTypes ==
  ASSUME ThreadInv, NEW t \in Actors, NEW l, Move(t, l),
         l \in StartLabels \cup EndLabels \cup WorkerLabels,
         t \in StartRequests => l \in StartLabels,
         t \in EndRequests => l \in EndLabels,
         t \in Instances => l \in WorkerLabels
  PROVE  /\ pc' \in [Actors -> StartLabels \cup EndLabels \cup WorkerLabels]
         /\ \A r \in StartRequests : pc'[r] \in StartLabels
         /\ \A e \in EndRequests : pc'[e] \in EndLabels
         /\ \A i \in Instances : pc'[i] \in WorkerLabels
         /\ lock' \in [Instances -> Actors \cup {None}] /\ Hosted'
         /\ pc'[t] = l
         /\ \A s \in Actors \ {t} : pc'[s] = pc[s]
<1>1. /\ pc' = [pc EXCEPT ![t] = l]
      /\ pc \in [Actors -> StartLabels \cup EndLabels \cup WorkerLabels]
  BY DEF Move, ThreadInv, ThreadTypeOK
<1>2. pc' \in [Actors -> StartLabels \cup EndLabels \cup WorkerLabels]
  BY <1>1
<1>3. pc'[t] = l /\ \A s \in Actors \ {t} : pc'[s] = pc[s]
  BY <1>1
<1>4. /\ \A r \in StartRequests : pc'[r] \in StartLabels
      /\ \A e \in EndRequests : pc'[e] \in EndLabels
      /\ \A i \in Instances : pc'[i] \in WorkerLabels
  BY <1>3 DEF ThreadInv, ThreadTypeOK, Actors
<1>5. lock' \in [Instances -> Actors \cup {None}] /\ Hosted'
  BY DEF Move, Unlocked, ThreadInv, ThreadTypeOK, Hosted
<1> QED BY <1>2, <1>3, <1>4, <1>5

\* A start request moves on with its key and, to compensate, with a claim.
LEMMA StartMove ==
  ASSUME ThreadInv, NEW r \in StartRequests, NEW l \in StartLabels, Move(r, l),
         faults' \in 0 .. MaxFaults, intent # "none" => intent' # "none",
         UNCHANGED <<key, seen>>,
         claim' \in [StartRequests -> Actors \cup {None}],
         \A s \in StartRequests \ {r} : claim'[s] = claim[s],
         l \notin {"new", "returned"} => key[r] \in Keys,
         l \in {"claim"} \cup Compensating => claim'[r] \in Actors
  PROVE  ThreadInv'
<1>1. r \in Actors /\ r \notin EndDrivers
  BY ThreadsAssumption DEF Actors, EndDrivers
<1>2. /\ pc' \in [Actors -> StartLabels \cup EndLabels \cup WorkerLabels]
      /\ \A s \in StartRequests : pc'[s] \in StartLabels
      /\ \A e \in EndRequests : pc'[e] \in EndLabels
      /\ \A i \in Instances : pc'[i] \in WorkerLabels
      /\ lock' \in [Instances -> Actors \cup {None}] /\ Hosted'
      /\ pc'[r] = l
      /\ \A s \in Actors \ {r} : pc'[s] = pc[s]
  BY <1>1, MoveTypes, ThreadsAssumption
<1>3. ThreadTypeOK'
  BY <1>2 DEF ThreadInv, ThreadTypeOK
<1>4. Keyed' /\ Claimed'
  BY <1>2 DEF ThreadInv, Keyed, Claimed, Actors
<1>5. DriversIntended'
  BY <1>1, <1>2 DEF ThreadInv, DriversIntended, Actors, EndDrivers
<1> QED BY <1>2, <1>3, <1>4, <1>5 DEF ThreadInv

\* A driver of an end enters or continues an attempt under an intent.
LEMMA DriverMove ==
  ASSUME ThreadInv, NEW t \in EndDrivers, NEW l, Move(t, l),
         t \in EndRequests => l \in EndLabels,
         t \in Instances => l \in WorkerLabels,
         faults' \in 0 .. MaxFaults, intent # "none" => intent' # "none",
         UNCHANGED <<key, claim, seen>>,
         l \in Attempting => intent' # "none"
  PROVE  ThreadInv'
<1>1. t \in Actors /\ t \notin StartRequests
  BY ThreadsAssumption DEF Actors, EndDrivers
<1>2. /\ pc' \in [Actors -> StartLabels \cup EndLabels \cup WorkerLabels]
      /\ \A s \in StartRequests : pc'[s] \in StartLabels
      /\ \A e \in EndRequests : pc'[e] \in EndLabels
      /\ \A i \in Instances : pc'[i] \in WorkerLabels
      /\ lock' \in [Instances -> Actors \cup {None}] /\ Hosted'
      /\ pc'[t] = l
      /\ \A s \in Actors \ {t} : pc'[s] = pc[s]
  BY <1>1, MoveTypes DEF EndDrivers
<1>3. ThreadTypeOK'
  BY <1>2 DEF ThreadInv, ThreadTypeOK
<1>4. Keyed' /\ Claimed'
  BY <1>1, <1>2 DEF ThreadInv, Keyed, Claimed, Actors
<1>5. DriversIntended'
  BY <1>1, <1>2 DEF ThreadInv, DriversIntended, Actors, EndDrivers
<1> QED BY <1>2, <1>3, <1>4, <1>5 DEF ThreadInv

\* An operation row that is being compensated names its claimant.
LEMMA ContinueClaims ==
  ASSUME LifecycleInv, NEW r \in StartRequests, key[r] \in Keys, Continue(r)
  PROVE  \E l \in StartLabels :
            /\ Move(r, l)
            /\ claim' \in [StartRequests -> Actors \cup {None}]
            /\ \A s \in StartRequests \ {r} : claim'[s] = claim[s]
            /\ l \in {"claim"} \cup Compensating => claim'[r] \in Actors
<1> DEFINE k == key[r]
           l == CASE opStatus[k] = "pending"      -> "send_start"
                  [] opStatus[k] = "compensating" -> "claim"
                  [] opStatus[k] = "completed" /\ status = "active" -> "acked"
                  [] OTHER -> "returned"
<1>1. /\ claim \in [StartRequests -> Actors \cup {None}]
      /\ opStatus[k] = "compensating" => opClaim[k] \in Actors
  BY DEF LifecycleInv, StoreInv, StoreTypeOK, OperationStateValid, ThreadInv, ThreadTypeOK
<1>2. claim' = IF opStatus[k] = "compensating"
               THEN [claim EXCEPT ![r] = opClaim[k]] ELSE claim
  BY DEF Continue
<1>3. l \in StartLabels /\ (l \in {"claim"} \cup Compensating => opStatus[k] = "compensating")
  BY DEF StartLabels, Compensating
<1>4. Move(r, l)
  BY DEF Continue
<1> QED BY <1>1, <1>2, <1>3, <1>4

\* Steps of start requests keep the invariant of the threads.
LEMMA StartThreads ==
  ASSUME LifecycleInv, StoreMoves, NEW r \in StartRequests,
         StartStep(r) \/ Abandon(r)
  PROVE  ThreadInv'
<1> DEFINE Moved(l) == /\ l \in StartLabels /\ Move(r, l)
                       /\ Fault \/ NoFault
                       /\ UNCHANGED <<key, seen>>
                       /\ claim' \in [StartRequests -> Actors \cup {None}]
                       /\ \A s \in StartRequests \ {r} : claim'[s] = claim[s]
                       /\ l \in {"claim"} \cup Compensating => claim'[r] \in Actors
<1>1. /\ ThreadInv /\ ThreadTypeOK
      /\ claim \in [StartRequests -> Actors \cup {None}]
      /\ r \in Actors
  BY DEF LifecycleInv, ThreadInv, ThreadTypeOK, Actors
<1>2. pc[r] \notin {"new", "returned"} /\ key[r] \in Keys
  BY <1>1 DEF ThreadInv, Keyed, StartStep, Replay, Find, Begin, SendStart, Reconcile, Activate,
     Claim, SendCompensatingStop, Call, FinishCompensation, Abandon
<1>3. pc[r] \in {"claim"} \cup Compensating => claim[r] \in Actors
  BY <1>1 DEF ThreadInv, Claimed
<1>4. SUFFICES \E l : Moved(l)
  <2>1. ASSUME NEW l, Moved(l)
        PROVE  ThreadInv'
    BY <1>1, <1>2, <2>1, FaultBound, IntentKept, StartMove
  <2> QED BY <2>1
<1> USE DEF StartLabels, Compensating
<1>5. CASE Replay(r) \/ Reconcile(r) \/ Abandon(r)
  <2>1. \E l \in {"acked", "returned", "activate"} :
            Move(r, l) /\ (Fault \/ NoFault) /\ UNCHANGED <<key, claim, seen>>
    BY <1>5 DEF Replay, Reconcile, Abandon
  <2> QED BY <1>1, <2>1
<1>6. CASE Find(r)
  <2>1. CASE Continue(r)
    BY <1>2, <1>6, <2>1, ContinueClaims DEF Find
  <2>2. CASE (Move(r, "returned") \/ Move(r, "begin")) /\ UNCHANGED claim
    BY <1>1, <1>6, <2>2 DEF Find
  <2> QED BY <1>6, <2>1, <2>2 DEF Find
<1>7. CASE Begin(r)
  <2>1. CASE Continue(r)
    BY <1>2, <1>7, <2>1, ContinueClaims DEF Begin
  <2>2. CASE (Move(r, "returned") \/ Move(r, "send_start")) /\ UNCHANGED claim
    BY <1>1, <1>7, <2>2 DEF Begin
  <2> QED BY <1>7, <2>1, <2>2 DEF Begin
<1>8. CASE SendStart(r)
  <2>1. Move(r, "await_start") /\ NoFault /\ UNCHANGED <<key, claim, seen>>
    BY <1>8 DEF SendStart, Call, StartCall, Awaits
  <2> QED BY <1>1, <2>1
<1>9. CASE Activate(r)
  <2>1. CASE Move(r, "acked") /\ UNCHANGED claim
    BY <1>1, <1>9, <2>1 DEF Activate
  <2>2. CASE Move(r, "claim") /\ claim' = [claim EXCEPT ![r] = r]
    BY <1>1, <1>9, <2>2 DEF Activate
  <2> QED BY <1>9, <2>1, <2>2 DEF Activate
<1>10. CASE Claim(r)
  <2>1. claim[r] \in Actors
    BY <1>3, <1>10 DEF Claim
  <2>2. \E l \in {"send_comp_stop", "acked", "returned"} : Move(r, l)
    BY <1>10 DEF Claim
  <2>3. (Fault \/ NoFault) /\ UNCHANGED <<key, claim, seen>>
    BY <1>10 DEF Claim
  <2> QED BY <1>1, <2>1, <2>2, <2>3
<1>11. CASE SendCompensatingStop(r)
  <2>1. claim[r] \in Actors
    BY <1>3, <1>11 DEF SendCompensatingStop, Call
  <2>2. Move(r, "await_comp_stop") /\ NoFault /\ UNCHANGED <<key, claim, seen>>
    BY <1>11 DEF SendCompensatingStop, Call, StopCall, Awaits
  <2> QED BY <1>1, <2>1, <2>2
<1>12. CASE FinishCompensation(r)
  <2>1. Move(r, "returned") /\ NoFault /\ UNCHANGED <<key, claim, seen>>
    BY <1>12 DEF FinishCompensation
  <2> QED BY <1>1, <2>1
<1> QED
  BY <1>5, <1>6, <1>7, <1>8, <1>9, <1>10, <1>11, <1>12 DEF StartStep

\* A start request arrives with its key; an end request reads the session.
LEMMA ArrivalThreads ==
  ASSUME LifecycleInv, NEW i \in Instances,
         \/ \E r \in StartRequests, k \in Keys : StartRead(r, i, k)
         \/ \E e \in EndRequests : EndRead(e, i)
  PROVE  ThreadInv'
<1> USE ThreadsAssumption
<1>1. ThreadInv /\ ThreadTypeOK /\ status \in Statuses
  BY DEF LifecycleInv, ThreadInv, StoreInv, StoreTypeOK
<1>2. ASSUME NEW r \in StartRequests, NEW k \in Keys, StartRead(r, i, k)
      PROVE  ThreadInv'
  <2>1. /\ pc' = [pc EXCEPT ![r] = StartReadLabel]
        /\ key' = [key EXCEPT ![r] = k]
        /\ UNCHANGED <<claim, seen, faults, intent>>
        /\ lock' \in [Instances -> Actors \cup {None}] /\ Hosted'
    BY <1>1, <1>2 DEF StartRead, NoFault, storeVars, ThreadInv, ThreadTypeOK, Actors, Hosted
  <2>2. StartReadLabel \in {"replay", "find", "returned"}
    BY DEF StartReadLabel
  <2>3. ThreadTypeOK'
    BY <1>1, <2>1, <2>2 DEF ThreadTypeOK, StartLabels, Actors
  <2>4. Keyed' /\ Claimed' /\ DriversIntended'
    BY <1>1, <2>1, <2>2 DEF ThreadInv, ThreadTypeOK, Keyed, Claimed, Compensating,
       DriversIntended, Actors, EndDrivers
  <2> QED BY <2>1, <2>3, <2>4 DEF ThreadInv
<1>3. ASSUME NEW e \in EndRequests, EndRead(e, i)
      PROVE  ThreadInv'
  <2>1. /\ pc' = [pc EXCEPT ![e] = "save_intent"]
        /\ seen' = [seen EXCEPT ![e] = status]
        /\ UNCHANGED <<key, claim, faults, intent>>
        /\ lock' \in [Instances -> Actors \cup {None}] /\ Hosted'
    BY <1>1, <1>3 DEF EndRead, NoFault, storeVars, ThreadInv, ThreadTypeOK, Actors, Hosted
  <2>2. ThreadTypeOK'
    BY <1>1, <2>1 DEF ThreadTypeOK, EndLabels, Actors
  <2>3. Keyed' /\ Claimed' /\ DriversIntended'
    BY <1>1, <2>1 DEF ThreadInv, ThreadTypeOK, Keyed, Claimed, DriversIntended, Attempting,
       Actors, EndDrivers
  <2> QED BY <2>1, <2>2, <2>3 DEF ThreadInv
<1> QED BY <1>2, <1>3

\* An attempt begins by saving or claiming the intent.
LEMMA EndThreads ==
  ASSUME LifecycleInv, StoreMoves, NEW t \in EndDrivers,
         \/ EndStep(t)
         \/ t \in EndRequests /\ SaveIntent(t)
         \/ t \in Instances /\ (WorkerClaim(t) \/ ReconcileEnd(t) \/ LockTimeout(t))
  PROVE  ThreadInv'
<1> DEFINE Moved(l) == /\ Move(t, l)
                       /\ t \in EndRequests => l \in EndLabels
                       /\ t \in Instances => l \in WorkerLabels
                       /\ Fault \/ NoFault
                       /\ UNCHANGED <<key, claim, seen>>
                       /\ l \in Attempting => intent' # "none"
<1>1. /\ ThreadInv /\ ThreadTypeOK
      /\ pc[t] \in Attempting => intent # "none"
      /\ intent # "none" => intent' # "none"
      /\ t \notin StartRequests
      /\ ~(t \in EndRequests /\ t \in Instances)
      /\ t \in EndRequests \/ t \in Instances
  BY IntentKept, ThreadsAssumption DEF LifecycleInv, ThreadInv, DriversIntended, EndDrivers
<1>2. SUFFICES \E l : Moved(l)
  <2>1. ASSUME NEW l, Moved(l)
        PROVE  ThreadInv'
    BY <1>1, <2>1, FaultBound, DriverMove
  <2> QED BY <2>1
<1> USE DEF EndLabels, WorkerLabels, Attempting
<1>3. CASE EndCreated(t) \/ EndActive(t)
  <2>1. intent # "none"
    BY <1>1, <1>3 DEF EndCreated, EndActive, EndTransition
  <2>2. \/ Move(t, "complete") \/ Move(t, "retry")
        \/ t \in Instances /\ Move(t, "reconcile_end")
    BY <1>1, <1>3 DEF EndCreated, EndActive, EndTransition
  <2>3. (Fault \/ NoFault) /\ UNCHANGED <<key, claim, seen>>
    BY <1>3 DEF EndCreated, EndActive, EndTransition
  <2> QED BY <1>1, <2>1, <2>2, <2>3
<1>4. CASE SendStop(t)
  <2>1. /\ Move(t, "await_stop") /\ NoFault /\ UNCHANGED <<key, claim, seen>>
        /\ pc[t] = "send_stop"
    BY <1>1, <1>4 DEF SendStop, Call, StopCall, Awaits
  <2> QED BY <1>1, <2>1
<1>5. CASE Complete(t)
  <2>1. \/ Move(t, "retry")
        \/ Move(t, IF t \in Instances THEN "idle" ELSE "acked")
    BY <1>5 DEF Complete
  <2>2. (Fault \/ NoFault) /\ UNCHANGED <<key, claim, seen>>
    BY <1>5 DEF Complete
  <2> QED BY <1>1, <2>1, <2>2
<1>6. CASE Retry(t)
  <2>1. /\ Move(t, IF t \in Instances THEN "idle" ELSE "returned")
        /\ Fault \/ NoFault
        /\ UNCHANGED <<key, claim, seen>>
    BY <1>6 DEF Retry
  <2> QED BY <1>1, <2>1
<1>7. CASE t \in EndRequests /\ SaveIntent(t)
  <2>1. CASE SaveEndIntent(t) /\ Move(t, Dispatch(seen[t]))
    <3>1. Dispatch(seen[t]) \in {"end_created", "send_stop", "complete"}
      BY DEF Dispatch
    <3>2. intent' # "none"
      BY <2>1 DEF SaveEndIntent
    <3> QED BY <1>1, <1>7, <2>1, <3>1, <3>2 DEF SaveIntent
  <2>2. CASE Move(t, "returned") \/ Move(t, "acked")
    BY <1>1, <1>7, <2>2 DEF SaveIntent
  <2> QED BY <1>7, <2>1, <2>2 DEF SaveIntent
<1>8. CASE t \in Instances /\ WorkerClaim(t)
  <2>1. intent' # "none"
    BY <1>8 DEF WorkerClaim, ClaimPendingEndIntent
  <2> QED BY <1>1, <1>8, <2>1 DEF WorkerClaim
<1>9. CASE t \in Instances /\ (ReconcileEnd(t) \/ LockTimeout(t))
  <2>1. intent # "none"
    BY <1>1, <1>9 DEF ReconcileEnd, LockTimeout
  <2>2. Move(t, "complete") \/ Move(t, "retry")
    BY <1>9 DEF ReconcileEnd, LockTimeout
  <2>3. (Fault \/ NoFault) /\ UNCHANGED <<key, claim, seen>>
    BY <1>9 DEF ReconcileEnd, LockTimeout
  <2> QED BY <1>1, <1>9, <2>1, <2>2, <2>3
<1> QED
  BY <1>3, <1>4, <1>5, <1>6, <1>7, <1>8, <1>9 DEF EndStep

\* Every step that leaves the threads alone, whatever it does to the rows.
LEMMA IdleThreads ==
  ASSUME LifecycleInv, StoreMoves, UNCHANGED threadVars, Fault \/ NoFault
  PROVE  ThreadInv'
<1>1. faults' \in 0 .. MaxFaults /\ (intent # "none" => intent' # "none")
  BY FaultBound, IntentKept DEF LifecycleInv, ThreadInv
<1>2. ThreadTypeOK' /\ Keyed' /\ Claimed' /\ DriversIntended' /\ Hosted'
  BY <1>1 DEF LifecycleInv, ThreadInv, threadVars, ThreadTypeOK, Keyed, Claimed,
     DriversIntended, Hosted
<1> QED BY <1>2 DEF ThreadInv

\* The worker that locks the session goes on under the intent it claimed; a
\* process that dies leaves its threads idle or returned.
LEMMA ProcessThreads ==
  ASSUME LifecycleInv, StoreMoves, NEW i \in Instances, WorkerRead(i) \/ Crash(i)
  PROVE  ThreadInv'
<1> USE ThreadsAssumption
<1>1. /\ ThreadInv /\ ThreadTypeOK
      /\ intent # "none" => intent' # "none"
      /\ i \in EndDrivers /\ i \in Actors
  BY IntentKept DEF LifecycleInv, ThreadInv, EndDrivers, Actors
<1>2. CASE WorkerRead(i)
  <2>1. /\ pc[i] = "lock" /\ pc' = [pc EXCEPT ![i] = Dispatch(status)]
        /\ lock' \in [Instances -> Actors \cup {None}] /\ Hosted'
        /\ UNCHANGED <<key, claim, seen, faults>>
    BY <1>1, <1>2 DEF WorkerRead, NoFault, ThreadInv, ThreadTypeOK, Hosted
  <2>2. Dispatch(status) \in {"end_created", "send_stop", "complete"}
    BY DEF Dispatch
  <2>3. ThreadTypeOK'
    BY <1>1, <2>1, <2>2 DEF ThreadTypeOK, WorkerLabels, Actors
  <2>4. Keyed' /\ Claimed'
    BY <1>1, <2>1 DEF ThreadInv, ThreadTypeOK, Keyed, Claimed, Actors
  <2>5. DriversIntended'
    BY <1>1, <2>1 DEF ThreadInv, ThreadTypeOK, DriversIntended, Attempting, EndDrivers, Actors
  <2> QED BY <2>1, <2>3, <2>4, <2>5 DEF ThreadInv
<1>3. CASE Crash(i)
  <2>1. /\ \A t \in Actors : pc'[t] \in {pc[t], "idle", "returned"}
        /\ \A t \in StartRequests \cup EndRequests : pc'[t] \in {pc[t], "returned"}
        /\ \A j \in Instances : pc'[j] \in {pc[j], "idle"}
        /\ lock' \in [Instances -> Actors \cup {None}] /\ Hosted'
    <3>1. \A t \in Actors : pc'[t] = IF t = i THEN "idle"
                                     ELSE IF t = lock[i] THEN "returned" ELSE pc[t]
      BY <1>3 DEF Crash
    <3>2. \A j \in Instances : j # i => j # lock[i]
      BY <1>1, NoneAssumption DEF ThreadInv, Hosted, Actors
    <3>3. \A t \in StartRequests \cup EndRequests : t # i
      OBVIOUS
    <3>4. lock' \in [Instances -> Actors \cup {None}] /\ Hosted'
      BY <1>1, <1>3 DEF Crash, ThreadInv, ThreadTypeOK, Hosted
    <3> QED BY <3>1, <3>2, <3>3, <3>4 DEF Actors
  <2>2. faults' \in 0 .. MaxFaults /\ UNCHANGED <<key, claim, seen>>
    BY <1>1, <1>3, FaultBound DEF Crash
  <2>3. pc' \in [Actors -> StartLabels \cup EndLabels \cup WorkerLabels]
    BY <1>1, <1>3 DEF Crash, ThreadTypeOK, StartLabels, WorkerLabels
  <2>4. ThreadTypeOK'
    BY <1>1, <2>1, <2>2, <2>3 DEF ThreadTypeOK, StartLabels, EndLabels, WorkerLabels
  <2>5. Keyed' /\ Claimed'
    BY <1>1, <2>1, <2>2 DEF ThreadInv, Keyed, Claimed, Compensating
  <2>6. DriversIntended'
    BY <1>1, <2>1 DEF ThreadInv, DriversIntended, Attempting, EndDrivers, Actors
  <2> QED BY <2>1, <2>4, <2>5, <2>6 DEF ThreadInv
<1> QED BY <1>2, <1>3

\* Where an answer takes a waiting thread, and that it stays in its role.
Heard(t, next) == next[pc[t]]

\* A thread that waits for an answer waits at one of the calling labels.
LEMMA AnswerLabels ==
  ASSUME ThreadInv, NEW t \in Actors, pc[t] \in Waiting, NEW next \in {OnOk, OnError}
  PROVE  /\ t \in StartRequests =>
              /\ Heard(t, next) \in StartLabels
              /\ Heard(t, next) \in {"claim"} \cup Compensating => pc[t] \in Compensating
              /\ pc[t] \notin {"new", "returned"}
         /\ t \in EndRequests => Heard(t, next) \in EndLabels
         /\ t \in Instances => Heard(t, next) \in WorkerLabels
         /\ Heard(t, next) \in StartLabels \cup EndLabels \cup WorkerLabels
         /\ t \in EndDrivers => pc[t] \in Attempting
<1>1. /\ t \in StartRequests => pc[t] \in {"await_start", "await_comp_stop"}
      /\ t \in EndDrivers => pc[t] = "await_stop"
      /\ t \in EndRequests \cup Instances => t \in EndDrivers
      /\ t \in StartRequests \cup EndRequests \cup Instances
  BY DEF Waiting, ThreadInv, ThreadTypeOK, StartLabels, EndLabels, WorkerLabels, EndDrivers,
     Actors
<1>2. /\ Heard(t, next) \in {"activate", "reconcile", "complete_comp", "fail_comp",
                             "end_active", "retry"}
      /\ pc[t] = "await_start" => Heard(t, next) \in {"activate", "reconcile"}
      /\ pc[t] = "await_comp_stop" => Heard(t, next) \in {"complete_comp", "fail_comp"}
      /\ pc[t] = "await_stop" => Heard(t, next) \in {"end_active", "retry"}
  BY DEF Waiting, OnOk, OnError, Heard
<1> QED
  BY <1>1, <1>2 DEF StartLabels, EndLabels, WorkerLabels, Compensating, Attempting

\* Answers of the control plane keep the invariant of the threads.
LEMMA AnswerThreads ==
  ASSUME LifecycleInv, StoreMoves, NEW ms \in SUBSET (StartCalls \cup StopCalls),
         NEW next \in {OnOk, OnError}, Answer(ms, next),
         Fault \/ NoFault, UNCHANGED <<key, claim, seen>>
  PROVE  ThreadInv'
<1> DEFINE heard == {m.by : m \in {n \in ms : pc[n.by] = Awaits(n)}}
<1>1. /\ ThreadInv /\ ThreadTypeOK /\ Hosted
      /\ faults' \in 0 .. MaxFaults /\ (intent # "none" => intent' # "none")
  BY FaultBound, IntentKept DEF LifecycleInv, ThreadInv
<1>2. \A t \in heard : t \in Actors /\ pc[t] \in Waiting
  BY DEF StartCalls, StopCalls, Awaits, Waiting
<1>3. /\ pc' = [t \in Actors |-> IF t \in heard THEN Heard(t, next) ELSE pc[t]]
      /\ lock' \in [Instances -> Actors \cup {None}] /\ Hosted'
  BY <1>1 DEF Answer, Heard, ThreadTypeOK, Hosted
<1>4. \A t \in Actors : pc[t] \in Waiting =>
         /\ t \in StartRequests =>
              /\ Heard(t, next) \in StartLabels
              /\ Heard(t, next) \in {"claim"} \cup Compensating => pc[t] \in Compensating
              /\ pc[t] \notin {"new", "returned"}
         /\ t \in EndRequests => Heard(t, next) \in EndLabels
         /\ t \in Instances => Heard(t, next) \in WorkerLabels
         /\ Heard(t, next) \in StartLabels \cup EndLabels \cup WorkerLabels
         /\ t \in EndDrivers => pc[t] \in Attempting
  BY <1>1, AnswerLabels
<1> HIDE DEF heard
<1>5. ThreadTypeOK'
  BY <1>1, <1>2, <1>3, <1>4 DEF ThreadTypeOK, Actors
<1>6. Keyed' /\ Claimed'
  BY <1>1, <1>2, <1>3, <1>4 DEF ThreadInv, Keyed, Claimed, Actors
<1>7. DriversIntended'
  BY <1>1, <1>2, <1>3, <1>4 DEF ThreadInv, DriversIntended, Actors, EndDrivers
<1> QED BY <1>3, <1>5, <1>6, <1>7 DEF ThreadInv

\* A caller that gives up goes where an error would take it.
LEMMA TimeoutThreads ==
  ASSUME LifecycleInv, StoreMoves, NEW t \in Actors, Timeout(t)
  PROVE  ThreadInv'
<1>1. /\ pc[t] \in Waiting /\ Move(t, Heard(t, OnError))
      /\ Fault /\ UNCHANGED <<key, claim, seen>>
  BY DEF Timeout, Heard
<1>2. /\ ThreadInv /\ claim \in [StartRequests -> Actors \cup {None}]
      /\ faults' \in 0 .. MaxFaults /\ (intent # "none" => intent' # "none")
  BY <1>1, FaultBound, IntentKept DEF LifecycleInv, ThreadInv, ThreadTypeOK
<1>3. /\ t \in StartRequests =>
           /\ Heard(t, OnError) \in StartLabels
           /\ Heard(t, OnError) \in {"claim"} \cup Compensating => pc[t] \in Compensating
           /\ pc[t] \notin {"new", "returned"}
      /\ t \in EndRequests => Heard(t, OnError) \in EndLabels
      /\ t \in Instances => Heard(t, OnError) \in WorkerLabels
      /\ t \in EndDrivers => pc[t] \in Attempting
  BY <1>1, <1>2, AnswerLabels
<1>4. CASE t \in StartRequests
  <2>1. key[t] \in Keys /\ (pc[t] \in Compensating => claim[t] \in Actors)
    BY <1>2, <1>3, <1>4 DEF ThreadInv, Keyed, Claimed
  <2> QED BY <1>1, <1>2, <1>3, <1>4, <2>1, StartMove
<1>5. CASE t \in EndDrivers
  <2>1. intent' # "none"
    BY <1>2, <1>3, <1>5 DEF ThreadInv, DriversIntended
  <2> QED BY <1>1, <1>2, <1>3, <1>5, <2>1, DriverMove
<1> QED BY <1>4, <1>5 DEF Actors, EndDrivers

\* Steps of realtime keep the invariant of the threads.
LEMMA RealtimeThreads ==
  ASSUME LifecycleInv, StoreMoves,
         (\E m \in calls : Serve(m)) \/ Execute \/ RealtimeRestart
  PROVE  ThreadInv'
<1>1. /\ calls \subseteq StartCalls \cup StopCalls
      /\ exec # None => exec \in StartCalls \cup StopCalls
  BY DEF LifecycleInv, RealtimeInv, RealtimeTypeOK
<1>2. ASSUME NEW m \in calls, Serve(m)
      PROVE  ThreadInv'
  <2>1. NoFault /\ UNCHANGED <<key, claim, seen>>
    BY <1>2 DEF Serve
  <2>2. UNCHANGED <<pc, lock>> \/ Answer({m}, OnOk) \/ Answer({m}, OnError)
    BY <1>2 DEF Serve
  <2>3. CASE UNCHANGED <<pc, lock>>
    BY <2>1, <2>3, IdleThreads DEF threadVars
  <2>4. CASE Answer({m}, OnOk) \/ Answer({m}, OnError)
    BY <1>1, <2>1, <2>4, AnswerThreads
  <2> QED BY <2>2, <2>3, <2>4
<1>3. CASE Execute
  <2>1. (Fault \/ NoFault) /\ UNCHANGED <<key, claim, seen>>
    BY <1>3 DEF Execute
  <2>2. \/ UNCHANGED <<pc, lock>>
        \/ exec # None /\ (Answer({exec}, OnOk) \/ Answer({exec}, OnError))
        \/ exec # None /\ \E joined \in SUBSET Joinable : Answer({exec} \cup joined, OnError)
    BY <1>3 DEF Execute, StartSucceeds, StartFails, StopSucceeds, StopFails
  <2>3. Joinable \subseteq calls
    BY DEF Joinable
  <2>4. CASE exec # None /\ (Answer({exec}, OnOk) \/ Answer({exec}, OnError))
    BY <1>1, <2>1, <2>4, AnswerThreads
  <2>5. ASSUME exec # None, NEW joined \in SUBSET Joinable, Answer({exec} \cup joined, OnError)
        PROVE  ThreadInv'
    <3>1. {exec} \cup joined \in SUBSET (StartCalls \cup StopCalls)
      BY <1>1, <2>3, <2>5
    <3> QED BY <2>1, <2>5, <3>1, AnswerThreads
  <2>6. CASE UNCHANGED <<pc, lock>>
    BY <2>1, <2>6, IdleThreads DEF threadVars
  <2> QED BY <2>2, <2>4, <2>5, <2>6
<1>4. CASE RealtimeRestart
  <2>1. calls \cup ({exec} \ {None}) \in SUBSET (StartCalls \cup StopCalls)
    BY <1>1
  <2> QED BY <1>4, <2>1, AnswerThreads DEF RealtimeRestart
<1> QED BY <1>2, <1>3, <1>4

\* Every step keeps the invariant of the threads.
LEMMA ThreadsKept == LifecycleInv /\ [Next]_vars => ThreadInv'
<1> SUFFICES ASSUME LifecycleInv, [Next]_vars PROVE ThreadInv'
  OBVIOUS
<1>1. StoreMoves
  BY StoreUsed
<1>2. ASSUME NEW r \in StartRequests,
             \/ \E i \in Instances, k \in Keys : StartRead(r, i, k)
             \/ StartStep(r) \/ Abandon(r)
      PROVE  ThreadInv'
  BY <1>1, <1>2, ArrivalThreads, StartThreads
<1>3. ASSUME NEW e \in EndRequests,
             (\E i \in Instances : EndRead(e, i)) \/ SaveIntent(e) \/ EndStep(e)
      PROVE  ThreadInv'
  <2>1. e \in EndDrivers
    BY DEF EndDrivers
  <2> QED BY <1>1, <1>3, <2>1, ArrivalThreads, EndThreads
<1>4. ASSUME NEW i \in Instances,
             WorkerStep(i) \/ LockTimeout(i) \/ RuntimeFailure(i) \/ Crash(i)
      PROVE  ThreadInv'
  <2>1. i \in EndDrivers
    BY DEF EndDrivers
  <2>2. CASE RuntimeFailure(i)
    BY <1>1, <2>2, IdleThreads DEF RuntimeFailure
  <2>3. CASE WorkerStep(i) \/ LockTimeout(i) \/ Crash(i)
    BY <1>1, <2>1, <2>3, EndThreads, ProcessThreads DEF WorkerStep
  <2> QED BY <1>4, <2>2, <2>3
<1>5. CASE LeaseExpiry \/ RuntimeBreaks \/ RuntimeReports \/ ReplayTTL
  <2>1. UNCHANGED threadVars /\ (Fault \/ NoFault)
    BY <1>5 DEF LeaseExpiry, RuntimeBreaks, RuntimeReports, ReplayTTL
  <2> QED BY <1>1, <2>1, IdleThreads
<1>6. CASE \E m \in calls : Cancel(m)
  BY <1>1, <1>6, IdleThreads DEF Cancel
<1>7. CASE (\E t \in Actors : Timeout(t)) \/ RealtimeStep \/ RealtimeRestart
  BY <1>1, <1>7, TimeoutThreads, RealtimeThreads DEF RealtimeStep
<1>8. CASE UNCHANGED vars
  BY <1>1, <1>8, IdleThreads DEF vars, threadVars, NoFault
<1> QED
  BY <1>2, <1>3, <1>4, <1>5, <1>6, <1>7, <1>8 DEF Next

-----------------------------------------------------------------------------
\* Every step keeps the lifecycle invariant.
LEMMA LifecycleStep == LifecycleInv /\ [Next]_vars => LifecycleInv'
<1> SUFFICES ASSUME LifecycleInv, [Next]_vars PROVE LifecycleInv'
  OBVIOUS
<1>1. StoreInv' /\ UnresolvedFreezes'
  BY StoreUsed, StoreStep, FreezeStep DEF LifecycleInv, StoreMoves
<1>2. RealtimeInv'
  BY RuntimeUsed, RealtimeStepInv DEF LifecycleInv
<1>3. ThreadInv'
  BY ThreadsKept
<1> QED BY <1>1, <1>2, <1>3 DEF LifecycleInv

\* The lifecycle invariant is inductive.
LEMMA LifecycleInvariant == Spec => []LifecycleInv
  BY LifecycleInitInv, LifecycleStep, PTL DEF Spec

\* The threads, the rows and the runtime keep their types in every execution.
THEOREM SystemTypeCorrect == Spec => []TypeOK
<1>1. LifecycleInv => TypeOK
  BY DEF LifecycleInv, StoreInv, RealtimeInv, ThreadInv, ThreadTypeOK, TypeOK
<1> QED BY <1>1, LifecycleInvariant, PTL

\* While a start is unresolved the session stays created and free of end
\* intents, however many processes start, end, recover and crash.
THEOREM UnresolvedFreezesHolds == Spec => []UnresolvedFreezes
  BY LifecycleInvariant, PTL DEF LifecycleInv

\* Every execution of the system is one of the store and of the runtime, so
\* what is proved of any caller holds of these callers.
THEOREM StoreImplemented == Spec => StoreSpec
<1>1. Init => StoreInit
  BY DEF Init
<1>2. LifecycleInv /\ [Next]_vars => [StoreNext]_storeVars
  BY StoreUsed DEF StoreMoves
<1> QED BY <1>1, <1>2, LifecycleInvariant, PTL DEF Spec, StoreSpec

\* The lifecycle uses the control plane as its own module allows.
THEOREM RuntimeImplemented == Spec => RealtimeSpec
<1>1. Init => RealtimeInit
  BY DEF Init
<1> QED BY <1>1, RuntimeUsed, LifecycleInvariant, PTL DEF Spec, RealtimeSpec

-----------------------------------------------------------------------------
\* The refinement of SessionContract: what a client may observe.

\* Initial states are initial states of the contract.
LEMMA ContractInit == Init => Contract!Init
  BY DEF Init, StoreInit, Contract!Init, Gate, StartUnresolved, Unresolved, UnfinishedStatuses

\* With a start unresolved the gate is its; otherwise the intent decides.
LEMMA GateValue ==
  ASSUME StoreTypeOK
  PROVE  /\ StartUnresolved => Gate = "starting"
         /\ ~StartUnresolved => /\ intent = "none" => Gate = "free"
                                /\ intent = "open" => Gate = "ending"
                                /\ intent = "done" => Gate = "closed"
  BY DEF Gate

\* What a step does to the gate the contract sees.
LEMMA GateValueNext ==
  ASSUME StoreTypeOK'
  PROVE  /\ StartUnresolved' => Gate' = "starting"
         /\ ~StartUnresolved' => /\ intent' = "none" => Gate' = "free"
                                 /\ intent' = "open" => Gate' = "ending"
                                 /\ intent' = "done" => Gate' = "closed"
  BY DEF Gate

\* Every step is a step of the contract or a stutter.
LEMMA ContractStep ==
  ASSUME LifecycleInv, LifecycleInv', StoreMoves
  PROVE  [Contract!Next]_Contract!vars
<1> USE DEF Contract!Next, Contract!vars, Contract!Terminal
<1>1. /\ StoreInv /\ StoreTypeOK /\ Interlock /\ OneUnresolved /\ UnresolvedFreezes
      /\ CompletedIntentTerminal
      /\ StoreTypeOK' /\ Interlock' /\ UnresolvedFreezes'
  BY DEF LifecycleInv, StoreInv
<1>2. /\ StartUnresolved => Gate = "starting"
      /\ ~StartUnresolved => /\ intent = "none" => Gate = "free"
                             /\ intent = "open" => Gate = "ending"
                             /\ intent = "done" => Gate = "closed"
  BY <1>1, GateValue
<1>3. /\ StartUnresolved' => Gate' = "starting"
      /\ ~StartUnresolved' => /\ intent' = "none" => Gate' = "free"
                              /\ intent' = "open" => Gate' = "ending"
                              /\ intent' = "done" => Gate' = "closed"
  BY <1>1, GateValueNext
<1>4. UNCHANGED opStatus => (StartUnresolved' <=> StartUnresolved)
  BY DEF StartUnresolved, Unresolved
<1>5. CASE UNCHANGED storeVars
  <2>1. UNCHANGED <<status, Gate>>
    BY <1>5 DEF storeVars, Gate, StartUnresolved, Unresolved
  <2> QED BY <2>1
<1>6. ASSUME NEW k \in Keys, BeginStartOperation(k)
      PROVE  Contract!BeginStart
  <2>1. /\ status = "created" /\ UNCHANGED status
        /\ ~StartUnresolved /\ intent = "none"
    BY <1>1, <1>6 DEF BeginStartOperation, StoreTypeOK, CompletedIntentTerminal, Terminal
  <2>2. StartUnresolved'
    BY <1>1, <1>6 DEF BeginStartOperation, StoreTypeOK, StartUnresolved, Unresolved,
       UnfinishedStatuses
  <2> QED BY <1>2, <1>3, <2>1, <2>2 DEF Contract!BeginStart
<1>7. ASSUME NEW k \in Keys, TransitionToActive(k)
      PROVE  Contract!Activate
  <2>1. /\ status = "created" /\ status' = "active"
        /\ StartUnresolved /\ intent' = "none"
    BY <1>1, <1>7 DEF TransitionToActive, UnresolvedFreezes, StartUnresolved, Unresolved,
       UnfinishedStatuses
  <2>2. ~StartUnresolved'
    BY <1>1, <1>7 DEF TransitionToActive, StoreTypeOK, OneUnresolved, StartUnresolved,
       Unresolved, UnfinishedStatuses
  <2> QED BY <1>2, <1>3, <2>1, <2>2 DEF Contract!Activate
<1>8. ASSUME NEW k \in Keys, NEW c \in Actors,
             \/ ClaimStartCompensation(k, c)
             \/ CompleteStartCompensation(k, c)
             \/ FailStartCompensation(k, c)
      PROVE  [Contract!Next]_Contract!vars
  <2>1. UNCHANGED <<status, intent>> /\ status = "created"
    BY <1>8 DEF ClaimStartCompensation, CompleteStartCompensation, FailStartCompensation,
       ClaimHolds
  <2>2. StartUnresolved' => StartUnresolved
    BY <1>1, <1>8 DEF ClaimStartCompensation, CompleteStartCompensation,
       FailStartCompensation, ClaimHolds, Completable, Failable, StoreTypeOK,
       StartUnresolved, Unresolved, UnfinishedStatuses
  <2>3. CASE StartUnresolved /\ ~StartUnresolved'
    <3>1. intent = "none"
      BY <1>1, <2>3 DEF UnresolvedFreezes
    <3> QED BY <1>2, <1>3, <2>1, <2>3, <3>1 DEF Contract!Compensate
  <2>4. CASE StartUnresolved' <=> StartUnresolved
    <3>1. UNCHANGED <<status, Gate>>
      BY <1>1, <1>2, <1>3, <2>1, <2>4 DEF StoreTypeOK
    <3> QED BY <3>1
  <2> QED BY <2>2, <2>3, <2>4
<1>9. ASSUME NEW a \in Actors, SaveEndIntent(a)
      PROVE  [Contract!Next]_Contract!vars
  <2>1. UNCHANGED <<status, opStatus>> /\ ~StartUnresolved /\ intent' = "open"
        /\ intent \in {"none", "open"}
    BY <1>9 DEF SaveEndIntent
  <2> QED BY <1>2, <1>3, <1>4, <2>1 DEF Contract!RequestEnd
<1>10. ASSUME NEW a \in Actors, ClaimPendingEndIntent(a) \/ RetryClaimedEndIntent(a)
       PROVE  UNCHANGED <<status, Gate>>
  <2>1. UNCHANGED <<status, opStatus, intent>>
    BY <1>10 DEF ClaimPendingEndIntent, RetryClaimedEndIntent
  <2> QED BY <2>1 DEF Gate, StartUnresolved, Unresolved
<1>11. ASSUME CompleteEndIntent \/ \E a \in Actors : CompleteClaimedEndIntent(a)
       PROVE  Contract!CompleteEnd
  <2>1. /\ UNCHANGED <<status, opStatus>> /\ status \in Terminal
        /\ intent = "open" /\ intent' = "done"
    BY <1>11 DEF CompleteEndIntent, CompleteClaimedEndIntent
  <2>2. ~StartUnresolved
    BY <1>1, <2>1 DEF Interlock
  <2> QED BY <1>2, <1>3, <1>4, <2>1, <2>2 DEF Contract!CompleteEnd, Terminal
<1>12. ASSUME NEW expected \in {"created", "active"}, TransitionToEnded(expected)
       PROVE  Contract!End
  <2>1. /\ status \in {"created", "active"} /\ status' = "ended"
        /\ UNCHANGED <<opStatus, intent>>
    BY <1>12 DEF TransitionToEnded
  <2>2. intent = "open" /\ ~StartUnresolved
    BY <1>1, <2>1 DEF StoreMoves, StoreTypeOK, CompletedIntentTerminal, Terminal, Interlock
  <2> QED BY <1>2, <1>3, <1>4, <2>1, <2>2 DEF Contract!End
<1>13. CASE TransitionToFailed
  <2>1. /\ status = "active" /\ status' = "failed" /\ UNCHANGED Gate
    BY <1>13 DEF TransitionToFailed, Gate, StartUnresolved, Unresolved
  <2> QED BY <2>1 DEF Contract!Fail
<1>14. CASE LeaseExpires
  <2>1. UNCHANGED <<status, Gate>>
    BY <1>14 DEF LeaseExpires, Gate, StartUnresolved, Unresolved
  <2> QED BY <2>1
<1> QED
  BY <1>5, <1>6, <1>7, <1>8, <1>9, <1>10, <1>11, <1>12, <1>13, <1>14
     DEF StoreMoves, StoreNext

\* The control plane implements its contract: one gate, held by a start or by
\* an end, a session that is ended only through an open end intent and closed
\* only when terminal.
THEOREM ContractHolds == Spec => ContractRefined
<1>1. Init => Contract!Init
  BY ContractInit
<1>2. LifecycleInv /\ LifecycleInv' /\ [Next]_vars => [Contract!Next]_Contract!vars
  BY StoreUsed, ContractStep
<1> QED
  BY <1>1, <1>2, LifecycleInvariant, PTL DEF Spec, ContractRefined, Contract!SafeSpec

-----------------------------------------------------------------------------
(* What a client was told stays true, and nobody stops the runtime of an     *)
(* operation that activated its session: both rest on the rows a thread has  *)
(* read or written being settled for good.                                   *)

\* The statuses a claim leads to; activation is impossible from all of them.
GivenUp == {"compensating", "compensated", "compensation_failed"}

\* A request that stops the runtime, and every Stop it has sent, is covered by
\* an operation that was given up.
StopsCovered ==
    /\ \A r \in StartRequests : pc[r] \in Compensating => opStatus[key[r]] \in GivenUp
    /\ \A m \in CompensatingStops :
        /\ pc[m.by] # "new" /\ key[m.by] \in Keys
        /\ opStatus[key[m.by]] \in GivenUp

AnswerInv == AckTruthful /\ StopsCovered

\* What every step keeps to.
Arrived == \A r \in StartRequests :
    pc[r] # "new" => pc'[r] # "new" /\ key'[r] = key[r]

Covered == \A r \in StartRequests :
    pc'[r] \in Compensating =>
        \/ pc[r] \in Compensating
        \/ pc[r] # "new" /\ opStatus'[key[r]] \in GivenUp

Earned ==
    /\ \A r \in StartRequests : pc'[r] = "acked" =>
        \/ pc[r] = "acked"
        \/ pc[r] # "new" /\ opStatus'[key[r]] = "completed"
    /\ \A e \in EndRequests : pc'[e] = "acked" => pc[e] = "acked" \/ CompletedAlready'

Sent == \A m \in CompensatingStops' :
    m \in CompensatingStops \/ (m.by \in StartRequests /\ pc[m.by] = "send_comp_stop")

AnswerMoves == Arrived /\ Covered /\ Earned /\ Sent

\* The rows keep what answers and Stops rely on.
LEMMA RowsSettled ==
  ASSUME LifecycleInv, StoreMoves
  PROVE  /\ \A k \in Keys : opStatus[k] \in GivenUp => opStatus'[k] \in GivenUp
         /\ \A k \in Keys : opStatus[k] = "completed" => opStatus'[k] = "completed"
         /\ CompletedAlready => CompletedAlready'
<1>1. StoreInv /\ [SettledAction]_storeVars /\ StoreTypeOK
  BY SettledStep DEF LifecycleInv, StoreMoves, StoreInv
<1>2. CASE UNCHANGED storeVars
  BY <1>2 DEF storeVars, CompletedAlready
<1>3. CASE SettledAction /\ StoreNext
  <2>1. ASSUME NEW k \in Keys, opStatus[k] \in GivenUp
        PROVE  opStatus'[k] \in GivenUp
    <3> USE <1>1, <2>1 DEF GivenUp, StoreTypeOK
    <3>1. ASSUME NEW j \in Keys,
                 \/ BeginStartOperation(j) \/ TransitionToActive(j)
                 \/ \E c \in Actors : \/ ClaimStartCompensation(j, c)
                                      \/ CompleteStartCompensation(j, c)
                                      \/ FailStartCompensation(j, c)
          PROVE  opStatus'[k] \in GivenUp
      BY <3>1 DEF BeginStartOperation, TransitionToActive, ClaimStartCompensation,
         CompleteStartCompensation, FailStartCompensation
    <3>2. CASE UNCHANGED opStatus
      BY <3>2
    <3> QED
      BY <1>3, <3>1, <3>2 DEF StoreNext, SaveEndIntent, ClaimPendingEndIntent,
         RetryClaimedEndIntent, CompleteClaimedEndIntent, CompleteEndIntent,
         TransitionToEnded, TransitionToFailed, LeaseExpires
  <2> QED BY <1>3, <2>1 DEF SettledAction, CompletedAlready
<1> QED BY <1>1, <1>2, <1>3 DEF StoreMoves

\* A step that is one of the answer moves keeps the answer invariant.
LEMMA AnswerStep ==
  ASSUME LifecycleInv, LifecycleInv', StoreMoves, AnswerInv, AnswerMoves
  PROVE  AnswerInv'
<1> USE DEF AnswerInv, AnswerMoves
<1>1. /\ \A k \in Keys : opStatus[k] \in GivenUp => opStatus'[k] \in GivenUp
      /\ \A k \in Keys : opStatus[k] = "completed" => opStatus'[k] = "completed"
      /\ CompletedAlready => CompletedAlready'
  BY RowsSettled
<1>2. \A r \in StartRequests : pc[r] \in {"acked"} \cup Compensating =>
        key[r] \in Keys /\ pc[r] # "new"
  BY DEF LifecycleInv, ThreadInv, Keyed, Compensating
<1>3. AckTruthful'
  BY <1>1, <1>2 DEF AckTruthful, Arrived, Earned
<1>4. \A r \in StartRequests : pc'[r] \in Compensating => opStatus'[key'[r]] \in GivenUp
  BY <1>1, <1>2 DEF StopsCovered, Arrived, Covered
<1>5. ASSUME NEW m \in CompensatingStops'
      PROVE  /\ pc'[m.by] # "new" /\ key'[m.by] \in Keys
             /\ opStatus'[key'[m.by]] \in GivenUp
  <2>1. m.by \in StartRequests
    BY <1>5 DEF CompensatingStops
  <2>2. /\ pc[m.by] # "new" /\ key[m.by] \in Keys
        /\ opStatus[key[m.by]] \in GivenUp
    BY <1>2, <1>5, <2>1 DEF Sent, StopsCovered, Compensating
  <2> QED BY <1>1, <2>1, <2>2 DEF Arrived
<1>6. StopsCovered'
  BY <1>4, <1>5 DEF StopsCovered
<1> QED BY <1>3, <1>6

-----------------------------------------------------------------------------
\* A step that leaves calls and exec alone sends nothing.
LEMMA NothingSent ==
  ASSUME UNCHANGED <<calls, exec>>
  PROVE  Sent
  BY DEF Sent, CompensatingStops

\* A start request r moves to l; the other threads stay.
LEMMA StartMoves ==
  ASSUME LifecycleInv, NEW r \in StartRequests, NEW l, pc' = [pc EXCEPT ![r] = l],
         pc[r] # "new" => l # "new" /\ key'[r] = key[r],
         \A s \in StartRequests \ {r} : key'[s] = key[s],
         l \in Compensating =>
            pc[r] \in Compensating \/ (pc[r] # "new" /\ opStatus'[key[r]] \in GivenUp),
         l = "acked" => pc[r] # "new" /\ opStatus'[key[r]] = "completed"
  PROVE  Arrived /\ Covered /\ Earned
<1>1. /\ pc \in [Actors -> StartLabels \cup EndLabels \cup WorkerLabels]
      /\ r \in Actors /\ r \notin EndRequests
      /\ StartRequests \subseteq Actors /\ EndRequests \subseteq Actors
  BY ThreadsAssumption DEF LifecycleInv, ThreadInv, ThreadTypeOK, Actors
<1>2. pc'[r] = l /\ \A t \in Actors \ {r} : pc'[t] = pc[t]
  BY <1>1
<1>3. \A e \in EndRequests : pc'[e] = pc[e]
  BY <1>1, <1>2
<1> QED BY <1>1, <1>2, <1>3 DEF Arrived, Covered, Earned

\* Start requests that read the session are answer moves.
LEMMA StartReadMoves ==
  ASSUME LifecycleInv, NEW r \in StartRequests, NEW i \in Instances, NEW k \in Keys,
         StartRead(r, i, k)
  PROVE  AnswerMoves
<1>1. PICK l \in {"replay", "find", "returned"} : pc' = [pc EXCEPT ![r] = l]
  BY DEF StartRead, StartReadLabel
<1>2. /\ l \notin {"acked"} \cup Compensating /\ pc[r] = "new"
      /\ \A s \in StartRequests \ {r} : key'[s] = key[s]
  BY <1>1 DEF StartRead, Compensating, LifecycleInv, ThreadInv, ThreadTypeOK
<1>3. Arrived /\ Covered /\ Earned
  BY <1>1, <1>2, StartMoves
<1>4. Sent
  BY NothingSent DEF StartRead, rtVars
<1> QED BY <1>3, <1>4 DEF AnswerMoves

\* What a start request does on the database.
LEMMA StartRowMoves ==
  ASSUME LifecycleInv, NEW r \in StartRequests,
         \/ Replay(r) \/ Find(r) \/ Begin(r) \/ Reconcile(r) \/ Activate(r)
         \/ Claim(r) \/ FinishCompensation(r) \/ Abandon(r)
  PROVE  AnswerMoves
<1>1. pc[r] # "new" /\ UNCHANGED key /\ UNCHANGED <<calls, exec>>
  BY DEF Replay, Find, Begin, Reconcile, Activate, Claim, FinishCompensation, Abandon, rtVars
<1>2. opStatus \in [Keys -> OpStatuses] /\ key[r] \in Keys \cup {None}
  BY DEF LifecycleInv, StoreInv, StoreTypeOK, ThreadInv, ThreadTypeOK
<1>3. pc[r] # "returned" => key[r] \in Keys
  BY <1>1 DEF LifecycleInv, ThreadInv, Keyed
<1>4. ASSUME NEW l, Move(r, l),
             l \in {"find", "begin", "send_start", "reconcile", "activate", "claim", "returned"}
      PROVE  AnswerMoves
  <2>1. l \notin {"new", "acked"} \cup Compensating
    BY <1>4 DEF Compensating
  <2> QED BY <1>1, <1>4, <2>1, StartMoves, NothingSent DEF AnswerMoves, Move
<1>5. ASSUME Move(r, "acked"), opStatus'[key[r]] = "completed"
      PROVE  AnswerMoves
  BY <1>1, <1>5, StartMoves, NothingSent DEF AnswerMoves, Move, Compensating
<1>6. ASSUME Move(r, "send_comp_stop"), opStatus'[key[r]] \in GivenUp
      PROVE  AnswerMoves
  BY <1>1, <1>6, StartMoves, NothingSent DEF AnswerMoves, Move
<1>7. ASSUME Continue(r), UNCHANGED storeVars
      PROVE  AnswerMoves
  <2>1. PICK l \in {"send_start", "claim", "acked", "returned"} :
          /\ Move(r, l)
          /\ l = "acked" => opStatus[key[r]] = "completed"
    BY <1>7 DEF Continue
  <2>2. opStatus' = opStatus
    BY <1>7 DEF storeVars
  <2> QED BY <1>4, <1>5, <2>1, <2>2
<1>8. CASE Replay(r)
  <2>1. opStatus' = opStatus
    BY <1>8 DEF Replay, storeVars
  <2> QED BY <1>4, <1>5, <1>8, <2>1 DEF Replay
<1>9. CASE Find(r)
  BY <1>4, <1>7, <1>9 DEF Find
<1>10. CASE Begin(r)
  BY <1>4, <1>7, <1>10 DEF Begin
<1>11. CASE Activate(r)
  <2>1. key[r] \in Keys
    BY <1>3, <1>11 DEF Activate
  <2>2. TransitionToActive(key[r]) => opStatus'[key[r]] = "completed"
    BY <1>2, <2>1 DEF TransitionToActive
  <2>3. UNCHANGED storeVars => opStatus' = opStatus
    BY DEF storeVars
  <2> QED BY <1>4, <1>5, <1>11, <2>2, <2>3 DEF Activate
<1>12. CASE Claim(r)
  <2>1. key[r] \in Keys
    BY <1>3, <1>12 DEF Claim
  <2>2. ClaimStartCompensation(key[r], claim[r]) => opStatus'[key[r]] \in GivenUp
    BY <1>2, <2>1 DEF ClaimStartCompensation, GivenUp
  <2>3. ClaimReentered(key[r], claim[r]) /\ UNCHANGED storeVars
           => opStatus'[key[r]] \in GivenUp
    BY DEF ClaimReentered, GivenUp, storeVars
  <2>4. UNCHANGED storeVars => opStatus' = opStatus
    BY DEF storeVars
  <2> QED BY <1>4, <1>5, <1>6, <1>12, <2>2, <2>3, <2>4 DEF Claim
<1>13. CASE Reconcile(r) \/ FinishCompensation(r) \/ Abandon(r)
  BY <1>4, <1>13 DEF Reconcile, FinishCompensation, Abandon
<1> QED BY <1>8, <1>9, <1>10, <1>11, <1>12, <1>13

\* Sending a Stop is itself a step of a request that may send it.
LEMMA StartCallMoves ==
  ASSUME LifecycleInv, NEW r \in StartRequests, SendStart(r) \/ SendCompensatingStop(r)
  PROVE  AnswerMoves
<1>1. CASE SendStart(r)
  <2>1. /\ pc[r] = "send_start" /\ pc' = [pc EXCEPT ![r] = "await_start"]
        /\ UNCHANGED <<key, exec>> /\ calls' = calls \cup {StartCall(key[r], r)}
    BY <1>1 DEF SendStart, Call, Send, StartCall, Awaits, Move
  <2>2. Arrived /\ Covered /\ Earned
    BY <2>1, StartMoves DEF Compensating
  <2>3. Sent
    BY <2>1 DEF Sent, CompensatingStops, StartCall
  <2> QED BY <2>2, <2>3 DEF AnswerMoves
<1>2. CASE SendCompensatingStop(r)
  <2>1. /\ pc[r] = "send_comp_stop" /\ pc' = [pc EXCEPT ![r] = "await_comp_stop"]
        /\ UNCHANGED <<key, exec>> /\ calls' = calls \cup {StopCall(OperatorCancelled, r)}
    BY <1>2 DEF SendCompensatingStop, Call, Send, StopCall, Awaits, Move
  <2>2. Arrived /\ Covered /\ Earned
    BY <2>1, StartMoves DEF Compensating
  <2>3. Sent
    BY <2>1 DEF Sent, CompensatingStops, StopCall
  <2> QED BY <2>2, <2>3 DEF AnswerMoves
<1> QED BY <1>1, <1>2

-----------------------------------------------------------------------------
\* A step that moves no start request, and acknowledges an end only when it is
\* carried out.
LEMMA OthersMove ==
  ASSUME UNCHANGED key, \A r \in StartRequests : pc'[r] = pc[r],
         \A e \in EndRequests : pc'[e] = "acked" => pc[e] = "acked" \/ CompletedAlready',
         Sent
  PROVE  AnswerMoves
  BY DEF AnswerMoves, Arrived, Covered, Earned

\* Steps of whoever drives an end are answer moves.
LEMMA DriverMoves ==
  ASSUME LifecycleInv, NEW t \in EndDrivers, NEW l, pc' = [pc EXCEPT ![t] = l],
         l = "acked" => CompletedAlready', UNCHANGED key, Sent
  PROVE  AnswerMoves
<1>1. /\ pc \in [Actors -> StartLabels \cup EndLabels \cup WorkerLabels]
      /\ t \notin StartRequests
      /\ StartRequests \subseteq Actors /\ EndRequests \subseteq Actors /\ t \in Actors
  BY ThreadsAssumption DEF LifecycleInv, ThreadInv, ThreadTypeOK, Actors, EndDrivers
<1>2. /\ \A r \in StartRequests : pc'[r] = pc[r]
      /\ \A e \in EndRequests : pc'[e] = "acked" => pc[e] = "acked" \/ CompletedAlready'
  BY <1>1
<1> QED BY <1>2, OthersMove

\* Steps of end requests are answer moves.
LEMMA EndMoves ==
  ASSUME LifecycleInv, NEW t \in EndDrivers, EndStep(t)
  PROVE  AnswerMoves
<1>1. UNCHANGED key
  BY DEF EndStep, EndCreated, SendStop, EndActive, EndTransition, Complete, Retry, Call
<1>2. CASE SendStop(t)
  <2>1. /\ t \in Actors /\ t \notin StartRequests
        /\ pc' = [pc EXCEPT ![t] = "await_stop"]
        /\ UNCHANGED exec /\ calls' = calls \cup {StopCall(EndReason, t)}
    BY <1>2, ThreadsAssumption DEF SendStop, Call, Send, StopCall, Awaits, Move, EndDrivers, Actors
  <2>2. Sent
    BY <2>1 DEF Sent, CompensatingStops, StopCall
  <2> QED BY <1>1, <2>1, <2>2, DriverMoves
<1>3. CASE EndCreated(t) \/ EndActive(t) \/ Retry(t)
  <2>1. \E l : pc' = [pc EXCEPT ![t] = l] /\ l # "acked"
    BY <1>3 DEF EndCreated, EndActive, EndTransition, Retry, Move
  <2>2. Sent
    BY <1>3, NothingSent DEF EndCreated, EndActive, EndTransition, Retry, rtVars
  <2> QED BY <1>1, <2>1, <2>2, DriverMoves
<1>4. CASE Complete(t)
  <2>1. \/ Move(t, "idle") \/ Move(t, "retry")
        \/ Move(t, "acked") /\ CompleteEndIntent
        \/ Move(t, "acked") /\ CompletedAlready /\ UNCHANGED storeVars
    BY <1>4 DEF Complete
  <2>2. \E l : pc' = [pc EXCEPT ![t] = l] /\ (l = "acked" => CompletedAlready')
    BY <2>1 DEF Move, CompleteEndIntent, CompletedAlready, storeVars
  <2>3. Sent
    BY <1>4, NothingSent DEF Complete, rtVars
  <2> QED BY <1>1, <2>2, <2>3, DriverMoves
<1> QED BY <1>2, <1>3, <1>4 DEF EndStep

\* Requests that arrive are answer moves.
LEMMA ArrivalMoves ==
  ASSUME LifecycleInv, NEW e \in EndRequests,
         (\E i \in Instances : EndRead(e, i)) \/ SaveIntent(e)
  PROVE  AnswerMoves
<1>1. e \in EndDrivers /\ UNCHANGED key
  BY DEF EndDrivers, EndRead, SaveIntent
<1>2. Sent
  BY NothingSent DEF EndRead, SaveIntent, rtVars
<1>3. CASE \E i \in Instances : EndRead(e, i)
  BY <1>1, <1>2, <1>3, DriverMoves DEF EndRead
<1>4. CASE SaveIntent(e)
  <2>1. \/ Move(e, "returned") \/ Move(e, Dispatch(seen[e]))
        \/ Move(e, "acked") /\ intent = "done" /\ UNCHANGED storeVars
    BY <1>4 DEF SaveIntent
  <2>2. Dispatch(seen[e]) # "acked"
    BY DEF Dispatch
  <2>3. intent = "done" /\ UNCHANGED storeVars => CompletedAlready'
    BY DEF LifecycleInv, StoreInv, CompletedIntentTerminal, CompletedAlready, storeVars
  <2>4. \E l : pc' = [pc EXCEPT ![e] = l] /\ (l = "acked" => CompletedAlready')
    BY <2>1, <2>2, <2>3 DEF Move
  <2> QED BY <1>1, <1>2, <2>4, DriverMoves
<1> QED BY <1>3, <1>4

\* Steps of requests and recovery passes are answer moves.
LEMMA ProcessMoves ==
  ASSUME LifecycleInv, NEW i \in Instances,
         \/ WorkerClaim(i) \/ WorkerRead(i) \/ ReconcileEnd(i) \/ LockTimeout(i)
         \/ RuntimeFailure(i)
  PROVE  AnswerMoves
<1>1. i \in EndDrivers /\ UNCHANGED key
  BY DEF EndDrivers, WorkerClaim, WorkerRead, ReconcileEnd, LockTimeout, RuntimeFailure,
     threadVars
<1>2. Sent
  BY NothingSent DEF WorkerClaim, WorkerRead, ReconcileEnd, LockTimeout, RuntimeFailure, rtVars
<1>3. CASE RuntimeFailure(i)
  BY <1>1, <1>2, <1>3, OthersMove DEF RuntimeFailure, threadVars
<1>4. CASE WorkerClaim(i) \/ WorkerRead(i) \/ ReconcileEnd(i) \/ LockTimeout(i)
  <2>1. Dispatch(status) # "acked"
    BY DEF Dispatch
  <2>2. \E l : pc' = [pc EXCEPT ![i] = l] /\ l # "acked"
    BY <1>4, <2>1 DEF WorkerClaim, WorkerRead, ReconcileEnd, LockTimeout, Move
  <2> QED BY <1>1, <1>2, <2>2, DriverMoves
<1> QED BY <1>3, <1>4

\* A crash returns a request without an answer.
LEMMA CrashMoves ==
  ASSUME LifecycleInv, NEW i \in Instances, Crash(i)
  PROVE  AnswerMoves
<1>1. \A t \in StartRequests \cup EndRequests : pc'[t] = pc[t] \/ pc'[t] = "returned"
  BY ThreadsAssumption DEF Crash, Actors
<1>2. UNCHANGED key /\ Sent
  BY NothingSent DEF Crash, rtVars
<1> QED BY <1>1, <1>2 DEF AnswerMoves, Arrived, Covered, Earned, Compensating

\* An answer acknowledges nothing by itself, and only callers of a compensating
\* Stop go on compensating.
LEMMA HeardMoves ==
  ASSUME LifecycleInv, NEW ms, NEW next \in {OnOk, OnError}, Answer(ms, next),
         UNCHANGED key, Sent
  PROVE  AnswerMoves
<1>1. /\ next["await_start"] \in {"activate", "reconcile"}
      /\ next["await_comp_stop"] \in {"complete_comp", "fail_comp"}
      /\ next["await_stop"] \in {"end_active", "retry"}
  BY DEF OnOk, OnError
<1>2. \A m : Awaits(m) \in Waiting
  BY DEF Awaits, Waiting
<1>3. \A t \in Actors :
        \/ pc'[t] = pc[t]
        \/ pc[t] \in Waiting /\ pc'[t] = next[pc[t]]
  BY <1>2 DEF Answer
<1>4. \A t \in Actors :
        \/ pc'[t] = pc[t]
        \/ /\ pc[t] # "new" /\ pc'[t] \notin {"new", "acked"}
           /\ pc'[t] \in Compensating => pc[t] \in Compensating
  BY <1>1, <1>3 DEF Waiting, Compensating
<1> QED BY <1>4 DEF AnswerMoves, Arrived, Covered, Earned, Actors

\* The realtime process executes calls, it does not invent them.
LEMMA NothingInvented ==
  ASSUME \A m : m # None /\ m \in calls' \cup {exec'} => m \in calls \cup {exec}
  PROVE  Sent
  BY DEF Sent, CompensatingStops

\* What realtime does with a request is an answer move.
LEMMA RealtimeMoves ==
  ASSUME LifecycleInv, (\E m \in calls : Serve(m)) \/ Execute \/ RealtimeRestart
  PROVE  AnswerMoves
<1>1. ASSUME UNCHANGED <<pc, key>>, Sent
      PROVE  AnswerMoves
  BY <1>1, OthersMove
<1>2. ASSUME NEW m \in calls, Serve(m)
      PROVE  AnswerMoves
  <2>1. Sent
    <3>1. \A n : n # None /\ n \in calls' \cup {exec'} => n \in calls \cup {exec}
      BY <1>2 DEF Serve, StartConflict, StartRefused, StartCurrent, StartBegins,
         StopReplayed, StopNothing, StopBegins
    <3> QED BY <3>1, NothingInvented
  <2>2. UNCHANGED key
    BY <1>2 DEF Serve
  <2>3. UNCHANGED pc \/ Answer({m}, OnOk) \/ Answer({m}, OnError)
    BY <1>2 DEF Serve
  <2> QED BY <1>1, <2>1, <2>2, <2>3, HeardMoves
<1>3. ASSUME Execute
      PROVE  AnswerMoves
  <2>1. Sent
    <3>1. \A n : n # None /\ n \in calls' \cup {exec'} => n \in calls \cup {exec}
      BY <1>3 DEF Execute, StartListens, StartSucceeds, StartFails, StopSucceeds, StopFails
    <3> QED BY <3>1, NothingInvented
  <2>2. UNCHANGED key
    BY <1>3 DEF Execute
  <2>3. \/ UNCHANGED pc
        \/ Answer({exec}, OnOk) \/ Answer({exec}, OnError)
        \/ \E joined \in SUBSET Joinable : Answer({exec} \cup joined, OnError)
    BY <1>3 DEF Execute
  <2> QED BY <1>1, <2>1, <2>2, <2>3, HeardMoves
<1>4. ASSUME RealtimeRestart
      PROVE  AnswerMoves
  <2>1. Sent
    <3>1. \A n : n # None /\ n \in calls' \cup {exec'} => n \in calls \cup {exec}
      BY <1>4 DEF RealtimeRestart, Restart
    <3> QED BY <3>1, NothingInvented
  <2> QED BY <1>4, <2>1, HeardMoves DEF RealtimeRestart
<1> QED BY <1>2, <1>3, <1>4

\* A call that times out is an answer move.
LEMMA TimeoutMoves ==
  ASSUME LifecycleInv, (\E t \in Actors : Timeout(t)) \/ (\E m \in calls : Cancel(m))
  PROVE  AnswerMoves
<1>1. ASSUME NEW t \in Actors, Timeout(t)
      PROVE  AnswerMoves
  <2>1. /\ UNCHANGED key /\ pc[t] \in Waiting
        /\ pc' = [pc EXCEPT ![t] = OnError[pc[t]]]
    BY <1>1 DEF Timeout, Move
  <2>2. Sent
    <3>1. \A n : n # None /\ n \in calls' \cup {exec'} => n \in calls \cup {exec}
      BY <1>1 DEF Timeout, Lose, rtVars
    <3> QED BY <3>1, NothingInvented
  <2>3. /\ OnError[pc[t]] \notin {"new", "acked"} /\ pc[t] # "new"
        /\ OnError[pc[t]] \in Compensating => pc[t] \in Compensating
    BY <2>1 DEF Waiting, OnError, Compensating
  <2>4. CASE t \in StartRequests
    BY <2>1, <2>2, <2>3, <2>4, StartMoves DEF AnswerMoves
  <2>5. CASE t \in EndDrivers
    BY <2>1, <2>2, <2>3, <2>5, DriverMoves
  <2> QED BY <2>4, <2>5 DEF Actors, EndDrivers
<1>2. ASSUME NEW m \in calls, Cancel(m)
      PROVE  AnswerMoves
  <2>1. Sent
    <3>1. \A n : n # None /\ n \in calls' \cup {exec'} => n \in calls \cup {exec}
      BY <1>2 DEF Cancel, Lose
    <3> QED BY <3>1, NothingInvented
  <2> QED BY <1>2, <2>1, OthersMove DEF Cancel, threadVars
<1> QED BY <1>1, <1>2

\* Every step of the lifecycle is an answer move.
LEMMA AnswersUsed == LifecycleInv /\ [Next]_vars => AnswerMoves
<1> SUFFICES ASSUME LifecycleInv, [Next]_vars PROVE AnswerMoves
  OBVIOUS
<1>1. ASSUME NEW r \in StartRequests,
             \/ \E i \in Instances, k \in Keys : StartRead(r, i, k)
             \/ StartStep(r) \/ Abandon(r)
      PROVE  AnswerMoves
  BY <1>1, StartReadMoves, StartRowMoves, StartCallMoves DEF StartStep
<1>2. ASSUME NEW e \in EndRequests,
             (\E i \in Instances : EndRead(e, i)) \/ SaveIntent(e) \/ EndStep(e)
      PROVE  AnswerMoves
  <2>1. e \in EndDrivers
    BY DEF EndDrivers
  <2> QED BY <1>2, <2>1, ArrivalMoves, EndMoves
<1>3. ASSUME NEW i \in Instances,
             WorkerStep(i) \/ LockTimeout(i) \/ RuntimeFailure(i) \/ Crash(i)
      PROVE  AnswerMoves
  <2>1. i \in EndDrivers
    BY DEF EndDrivers
  <2> QED BY <1>3, <2>1, ProcessMoves, CrashMoves, EndMoves DEF WorkerStep
<1>4. CASE LeaseExpiry \/ RuntimeBreaks \/ RuntimeReports \/ ReplayTTL \/ UNCHANGED vars
  <2>1. UNCHANGED <<pc, key, calls, exec>>
    BY <1>4 DEF LeaseExpiry, RuntimeBreaks, RuntimeReports, ReplayTTL, PipelineDies,
       RuntimeFails, ReplayExpires, vars, threadVars, rtVars
  <2> QED BY <2>1, NothingSent, OthersMove
<1>5. CASE \/ \E t \in Actors : Timeout(t)
           \/ \E m \in calls : Cancel(m)
           \/ RealtimeStep \/ RealtimeRestart
  BY <1>5, TimeoutMoves, RealtimeMoves DEF RealtimeStep
<1> QED BY <1>1, <1>2, <1>3, <1>4, <1>5 DEF Next

\* Every initial state satisfies the answer invariant.
LEMMA AnswerInitInv == Init => AnswerInv
<1> SUFFICES ASSUME Init PROVE AnswerInv
  OBVIOUS
<1>1. \A t \in Actors : pc[t] \in {"new", "idle"}
  BY DEF Init
<1>2. \A t \in StartRequests \cup EndRequests : pc[t] \notin {"acked"} \cup Compensating
  BY <1>1 DEF Actors, Compensating
<1>3. CompensatingStops = {}
  BY DEF Init, RealtimeInit, CompensatingStops
<1> QED BY <1>2, <1>3 DEF AnswerInv, AckTruthful, StopsCovered

\* The answer invariant is inductive.
LEMMA AnswerInvariant == Spec => []AnswerInv
<1>1. LifecycleInv /\ LifecycleInv' /\ AnswerInv /\ [Next]_vars => AnswerInv'
  BY StoreUsed, AnswersUsed, AnswerStep
<1> QED BY <1>1, AnswerInitInv, LifecycleInvariant, PTL DEF Spec

\* A client that was told its start or its end succeeded was told the truth,
\* for good.
THEOREM AckTruthfulHolds == Spec => []AckTruthful
  BY AnswerInvariant, PTL DEF AnswerInv

\* A Stop sent to compensate a start never belongs to an operation that
\* activated the session.
THEOREM NoStopOfActivatedHolds == Spec => []NoStopOfActivated
<1>1. AnswerInv => NoStopOfActivated
  BY DEF AnswerInv, StopsCovered, NoStopOfActivated, GivenUp
<1> QED BY <1>1, AnswerInvariant, PTL

-----------------------------------------------------------------------------
(* The lease of an end intent is mutual exclusion: whatever is retried,       *)
(* crashes or expires, the end of a session has one driver at a time, for     *)
(* every number of end requests and processes.                                *)

\* Each conjunct needs the other: two attempts under an open intent would have
\* to hold one lease, and under a completed intent nobody begins an attempt.
LeaseInv == DriverHoldsLease /\ SingleEndDriver

\* No driver enters an attempt.
NoEntry == \A t \in EndDrivers : pc'[t] \in Attempting => pc[t] \in Attempting

\* The four ways a step treats the lease.
LeaseKept == UNCHANGED <<intent, owner, lease>> /\ NoEntry

IntentClosed ==
    /\ status \in Terminal /\ intent = "open" /\ intent' = "done"
    /\ UNCHANGED status
    /\ NoEntry

LeaseTaken ==
    \E a \in EndDrivers :
        /\ intent = "none" \/ (intent = "open" /\ lease # "live")
        /\ intent' = "open" /\ owner' = a /\ lease' = "live"
        /\ \A t \in EndDrivers \ {a} : pc'[t] \in Attempting => pc[t] \in Attempting

LeaseGivenUp ==
    /\ intent = "open" /\ lease = "live" /\ UNCHANGED intent
    /\ owner # None => pc[owner] \notin Attempting
    /\ owner' = owner \/ owner' = None
    /\ NoEntry

LeaseMoves == LeaseKept \/ IntentClosed \/ LeaseTaken \/ LeaseGivenUp

\* A step that is one of the lease moves keeps the lease invariant.
LEMMA LeaseStep ==
  ASSUME LifecycleInv, StoreMoves, LeaseInv, LeaseMoves
  PROVE  LeaseInv'
<1> USE DEF LeaseInv, DriverHoldsLease, SingleEndDriver
<1>1. StoreInv /\ StoreTypeOK /\ (status \in Terminal => status' \in Terminal)
  <2>1. StoreInv /\ [SettledAction]_storeVars
    BY SettledStep DEF LifecycleInv, StoreMoves
  <2> QED BY <2>1 DEF StoreInv, SettledAction, storeVars
<1>2. CASE LeaseKept
  BY <1>1, <1>2 DEF LeaseKept, NoEntry
<1>3. CASE IntentClosed
  BY <1>1, <1>3 DEF IntentClosed, NoEntry
<1>4. CASE LeaseTaken
  <2>1. \A t \in EndDrivers : pc[t] \notin Attempting
    BY <1>1, <1>4 DEF LeaseTaken, DriversIntended, LifecycleInv, ThreadInv
  <2> QED BY <1>4, <2>1 DEF LeaseTaken
<1>5. CASE LeaseGivenUp
  <2>1. \A t \in EndDrivers : pc[t] \notin Attempting
    BY <1>5, NoneAssumption DEF LeaseGivenUp, EndDrivers, Actors
  <2> QED BY <1>5, <2>1 DEF LeaseGivenUp, NoEntry
<1> QED BY <1>2, <1>3, <1>4, <1>5 DEF LeaseMoves

-----------------------------------------------------------------------------
\* Which of the four each step is.

\* A thread that moves to l is the only one that may enter an attempt.
LEMMA MoveEntry ==
  ASSUME ThreadInv, NEW t \in Actors, NEW l, Move(t, l)
  PROVE  \A s \in EndDrivers : pc'[s] = IF s = t THEN l ELSE pc[s]
  BY DEF Move, ThreadInv, ThreadTypeOK, EndDrivers, Actors

\* Start requests drive no end and touch no intent.
LEMMA StartLease ==
  ASSUME LifecycleInv, NEW r \in StartRequests,
         \/ \E i \in Instances, k \in Keys : StartRead(r, i, k)
         \/ StartStep(r) \/ Abandon(r)
  PROVE  LeaseKept
<1>1. r \in Actors /\ r \notin EndDrivers /\ ThreadInv
  BY ThreadsAssumption DEF Actors, EndDrivers, LifecycleInv
<1>2. \E l : pc' = [pc EXCEPT ![r] = l]
  BY DEF StartRead, StartStep, Abandon, Replay, Find, Begin, Continue, SendStart, Reconcile,
     Activate, Claim, SendCompensatingStop, FinishCompensation, Call, Move
<1>3. NoEntry
  BY <1>1, <1>2 DEF NoEntry, ThreadInv, ThreadTypeOK, EndDrivers, Actors
<1>4. UNCHANGED <<intent, owner, lease>>
  BY DEF StartRead, StartStep, Abandon, Replay, Find, Begin, SendStart, Reconcile,
     Activate, Claim, SendCompensatingStop, FinishCompensation, Call, storeVars,
     BeginStartOperation, TransitionToActive, ClaimStartCompensation,
     CompleteStartCompensation, FailStartCompensation
<1> QED BY <1>3, <1>4 DEF LeaseKept

\* Requests that arrive are lease moves.
LEMMA ArrivalLease ==
  ASSUME LifecycleInv, NEW e \in EndRequests,
         (\E i \in Instances : EndRead(e, i)) \/ SaveIntent(e)
  PROVE  LeaseMoves
<1>1. e \in Actors /\ e \in EndDrivers /\ ThreadInv
  BY DEF Actors, EndDrivers, LifecycleInv
<1>2. ASSUME NEW i \in Instances, EndRead(e, i)
      PROVE  LeaseKept
  <2>1. \A s \in EndDrivers : pc'[s] = IF s = e THEN "save_intent" ELSE pc[s]
    BY <1>1, <1>2 DEF EndRead, ThreadInv, ThreadTypeOK, EndDrivers, Actors
  <2> QED BY <1>2, <2>1 DEF EndRead, LeaseKept, NoEntry, Attempting, storeVars
<1>3. CASE SaveIntent(e)
  <2>1. PICK l : Move(e, l)
    BY <1>3 DEF SaveIntent
  <2>2. \A s \in EndDrivers : pc'[s] = IF s = e THEN l ELSE pc[s]
    BY <1>1, <2>1, MoveEntry
  <2>3. CASE SaveEndIntent(e)
    BY <1>1, <2>2, <2>3 DEF SaveEndIntent, LeaseMoves, LeaseTaken
  <2>4. CASE UNCHANGED storeVars /\ (Move(e, "returned") \/ Move(e, "acked"))
    <3>1. pc'[e] \in {"returned", "acked"}
      BY <1>1, <2>4, MoveEntry
    <3> QED BY <2>2, <2>4, <3>1 DEF LeaseMoves, LeaseKept, NoEntry, Attempting, storeVars
  <2> QED BY <1>3, <2>3, <2>4 DEF SaveIntent
<1> QED BY <1>2, <1>3 DEF LeaseMoves

\* What a driver does after it has its lease.
LEMMA DriverLease ==
  ASSUME LifecycleInv, NEW t \in EndDrivers, EndStep(t)
  PROVE  LeaseMoves
<1>1. t \in Actors /\ ThreadInv
  BY DEF Actors, EndDrivers, LifecycleInv
<1>2. CASE EndCreated(t) \/ EndActive(t) \/ SendStop(t)
  <2>1. pc[t] \in Attempting /\ UNCHANGED <<intent, owner, lease>>
    BY <1>2 DEF EndCreated, EndActive, SendStop, EndTransition, Call, Attempting, storeVars,
       TransitionToEnded
  <2>2. \E l : Move(t, l)
    BY <1>2 DEF EndCreated, EndActive, SendStop, EndTransition, Call
  <2>3. NoEntry
    BY <1>1, <2>1, <2>2, MoveEntry DEF NoEntry
  <2> QED BY <2>1, <2>3 DEF LeaseMoves, LeaseKept
<1>3. CASE Complete(t)
  <2>1. pc[t] \in Attempting
    BY <1>3 DEF Complete, Attempting
  <2>2. \E l : Move(t, l)
    BY <1>3 DEF Complete
  <2>3. NoEntry
    BY <1>1, <2>1, <2>2, MoveEntry DEF NoEntry
  <2>4. CompleteEndIntent \/ CompleteClaimedEndIntent(t) \/ UNCHANGED storeVars
    BY <1>3 DEF Complete
  <2> QED BY <2>3, <2>4 DEF LeaseMoves, LeaseKept, IntentClosed, CompleteEndIntent,
          CompleteClaimedEndIntent, storeVars
<1>4. CASE Retry(t)
  <2>1. Move(t, "idle") \/ Move(t, "returned")
    BY <1>4 DEF Retry
  <2>2. NoEntry /\ pc[t] \notin Attempting
    BY <1>1, <1>4, <2>1, MoveEntry DEF Retry, NoEntry, Attempting
  <2>3. RetryClaimedEndIntent(t) \/ UNCHANGED storeVars
    BY <1>4 DEF Retry
  <2> QED BY <2>2, <2>3 DEF LeaseMoves, LeaseKept, LeaseGivenUp, RetryClaimedEndIntent,
          storeVars
<1> QED BY <1>2, <1>3, <1>4 DEF EndStep

\* Steps of requests and recovery passes are lease moves.
LEMMA ProcessLease ==
  ASSUME LifecycleInv, NEW i \in Instances,
         \/ WorkerClaim(i) \/ WorkerRead(i) \/ ReconcileEnd(i)
         \/ LockTimeout(i) \/ RuntimeFailure(i) \/ Crash(i)
  PROVE  LeaseMoves
<1>1. i \in Actors /\ i \in EndDrivers /\ ThreadInv
  BY DEF Actors, EndDrivers, LifecycleInv
<1>2. CASE WorkerClaim(i)
  <2>1. \A s \in EndDrivers : pc'[s] = IF s = i THEN "lock" ELSE pc[s]
    BY <1>1, <1>2, MoveEntry DEF WorkerClaim
  <2> QED BY <1>1, <1>2, <2>1 DEF WorkerClaim, ClaimPendingEndIntent, LeaseMoves, LeaseTaken
<1>3. CASE WorkerRead(i) \/ ReconcileEnd(i) \/ LockTimeout(i)
  <2>1. pc[i] \in Attempting /\ UNCHANGED <<intent, owner, lease>>
    BY <1>3 DEF WorkerRead, ReconcileEnd, LockTimeout, Attempting, storeVars
  <2>2. \E l : pc' = [pc EXCEPT ![i] = l]
    BY <1>3 DEF WorkerRead, ReconcileEnd, LockTimeout, Move
  <2>3. NoEntry
    BY <1>1, <2>1, <2>2 DEF NoEntry, ThreadInv, ThreadTypeOK, EndDrivers, Actors
  <2> QED BY <2>1, <2>3 DEF LeaseMoves, LeaseKept
<1>4. CASE RuntimeFailure(i)
  BY <1>4 DEF RuntimeFailure, TransitionToFailed, threadVars, LeaseMoves, LeaseKept, NoEntry
<1>5. CASE Crash(i)
  <2>1. \A s \in EndDrivers : pc'[s] \in {"idle", "returned", pc[s]}
    BY <1>5 DEF Crash, EndDrivers, Actors
  <2> QED BY <1>5, <2>1 DEF Crash, LeaseMoves, LeaseKept, NoEntry, Attempting, storeVars
<1> QED BY <1>2, <1>3, <1>4, <1>5

\* Only callers inside an attempt wait for the Stop of an end.
LEMMA AnswerLease ==
  ASSUME LifecycleInv,
         \/ \E t \in Actors : Timeout(t)
         \/ \E m \in calls : Cancel(m)
         \/ RealtimeStep
         \/ RealtimeRestart
  PROVE  LeaseKept
<1>1. ThreadInv /\ UNCHANGED <<intent, owner, lease>>
  BY DEF LifecycleInv, Timeout, Cancel, RealtimeStep, Serve, Execute, RealtimeRestart, storeVars
<1>2. \A t \in EndDrivers : t \in Actors /\ (pc[t] \in Waiting => pc[t] \in Attempting)
  BY <1>1 DEF ThreadInv, ThreadTypeOK, EndDrivers, Actors, Waiting, EndLabels, WorkerLabels,
     Attempting
<1>3. \A m : Awaits(m) \in Waiting
  BY DEF Awaits, Waiting
<1>4. ASSUME NEW ms, NEW next, Answer(ms, next)
      PROVE  NoEntry
  BY <1>2, <1>3, <1>4 DEF Answer, NoEntry
<1>5. ASSUME NEW t \in Actors, Timeout(t)
      PROVE  NoEntry
  BY <1>1, <1>2, <1>5, MoveEntry DEF Timeout, NoEntry
<1>6. ASSUME NEW m \in calls, Cancel(m)
      PROVE  NoEntry
  BY <1>6 DEF Cancel, threadVars, NoEntry
<1>7. ASSUME RealtimeStep \/ RealtimeRestart
      PROVE  NoEntry
  <2>1. ASSUME NEW m \in calls, Serve(m)
        PROVE  UNCHANGED pc \/ Answer({m}, OnOk) \/ Answer({m}, OnError)
    BY <2>1 DEF Serve
  <2>2. CASE Execute
    <3>1. \/ UNCHANGED pc
          \/ Answer({exec}, OnOk) \/ Answer({exec}, OnError)
          \/ \E joined \in SUBSET Joinable : Answer({exec} \cup joined, OnError)
      BY <2>2 DEF Execute
    <3> QED BY <1>4, <3>1 DEF NoEntry
  <2>3. CASE RealtimeRestart
    BY <1>4, <2>3 DEF RealtimeRestart
  <2> QED BY <1>4, <1>7, <2>1, <2>2, <2>3 DEF RealtimeStep, NoEntry
<1> QED BY <1>1, <1>5, <1>6, <1>7 DEF LeaseKept

\* Every step of the lifecycle is a lease move.
LEMMA LeaseUsed == LifecycleInv /\ [Next]_vars => LeaseMoves
<1> SUFFICES ASSUME LifecycleInv, [Next]_vars PROVE LeaseMoves
  OBVIOUS
<1>1. ASSUME NEW i \in Instances, EndStep(i)
      PROVE  LeaseMoves
  BY <1>1, DriverLease DEF EndDrivers
<1>2. ASSUME NEW e \in EndRequests, EndStep(e)
      PROVE  LeaseMoves
  BY <1>2, DriverLease DEF EndDrivers
<1>3. CASE LeaseExpiry
  <2>1. UNCHANGED pc /\ LeaseExpires /\ (owner # None => pc[owner] \notin Attempting)
    BY <1>3 DEF LeaseExpiry, threadVars
  <2>2. intent = "open"
    BY <2>1 DEF LeaseExpires, LifecycleInv, StoreInv, LeaseOwned
  <2> QED BY <2>1, <2>2 DEF LeaseExpires, LeaseMoves, LeaseGivenUp, NoEntry
<1>4. CASE RuntimeBreaks \/ RuntimeReports \/ ReplayTTL \/ UNCHANGED vars
  <2>1. UNCHANGED <<pc, intent, owner, lease>>
    BY <1>4 DEF RuntimeBreaks, RuntimeReports, ReplayTTL, vars, threadVars, storeVars
  <2> QED BY <2>1 DEF LeaseMoves, LeaseKept, NoEntry
<1>5. ASSUME NEW r \in StartRequests,
             \/ \E i \in Instances, k \in Keys : StartRead(r, i, k)
             \/ StartStep(r) \/ Abandon(r)
      PROVE  LeaseMoves
  BY <1>5, StartLease DEF LeaseMoves
<1>6. ASSUME NEW e \in EndRequests,
             (\E i \in Instances : EndRead(e, i)) \/ SaveIntent(e) \/ EndStep(e)
      PROVE  LeaseMoves
  BY <1>2, <1>6, ArrivalLease
<1>7. ASSUME NEW i \in Instances,
             WorkerStep(i) \/ LockTimeout(i) \/ RuntimeFailure(i) \/ Crash(i)
      PROVE  LeaseMoves
  BY <1>1, <1>7, ProcessLease DEF WorkerStep
<1>8. CASE \/ \E t \in Actors : Timeout(t)
           \/ \E m \in calls : Cancel(m)
           \/ RealtimeStep \/ RealtimeRestart
  BY <1>8, AnswerLease DEF LeaseMoves
<1> QED BY <1>3, <1>4, <1>5, <1>6, <1>7, <1>8 DEF Next

\* Every initial state satisfies the lease invariant.
LEMMA LeaseInitInv == Init => LeaseInv
<1> SUFFICES ASSUME Init PROVE \A t \in EndDrivers : pc[t] \notin Attempting
  BY DEF LeaseInv, DriverHoldsLease, SingleEndDriver
<1>1. \A t \in Actors : pc[t] \in {"new", "idle"}
  BY DEF Init
<1> QED BY <1>1 DEF EndDrivers, Actors, Attempting

\* Two drivers never work on the end of a session at once, and one that works
\* holds the live lease of its intent until some completion closes it.
THEOREM SingleEndDriverHolds == Spec => []SingleEndDriver /\ []DriverHoldsLease
<1>1. LifecycleInv /\ LeaseInv /\ [Next]_vars => LeaseInv'
  BY StoreUsed, LeaseUsed, LeaseStep
<1>2. LeaseInv => SingleEndDriver /\ DriverHoldsLease
  BY DEF LeaseInv
<1> QED BY <1>1, <1>2, LeaseInitInv, LifecycleInvariant, PTL DEF Spec
=============================================================================
