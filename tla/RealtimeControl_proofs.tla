----------------------- MODULE RealtimeControl_proofs -----------------------
(***************************************************************************)
(* What the realtime control plane and LifecycleService guarantee for every*)
(* set of operations, callers and reasons, whatever is called, lost,       *)
(* repeated, cut off by a failure or forgotten by a restart.               *)
(***************************************************************************)
EXTENDS RealtimeControl, TLAPS

\* The call under the mutex and the snapshot describe the same work; this is
\* what makes the operation of a finished Start the one the snapshot names.
ExecMatches ==
    /\ exec # None /\ exec.kind = "start" => rt \in {"starting", "running"} /\ rtOp = exec.arg
    /\ exec # None /\ exec.kind = "stop" => rt = "stopping"

RealtimeInv ==
    /\ RealtimeTypeOK
    /\ ExecMatches
    /\ StoppedReleased
    /\ RunningOwned

\* Every initial state satisfies the invariant of the control plane.
LEMMA RealtimeInitInv == RealtimeInit => RealtimeInv
  BY DEF RealtimeInit, RealtimeInv, RealtimeTypeOK, ExecMatches, StoppedReleased,
     RunningOwned, RuntimeStates

\* Calls sent and lost keep the invariant.
LEMMA TransportInv ==
  ASSUME RealtimeInv, NEW m \in StartCalls \cup StopCalls, Send(m) \/ Lose(m)
  PROVE  RealtimeInv'
  BY DEF Send, Lose, RealtimeInv, RealtimeTypeOK, ExecMatches, StoppedReleased, RunningOwned

\* Steps of a start keep the invariant.
LEMMA StartInv ==
  ASSUME RealtimeInv, NEW m \in calls,
         \/ StartConflict(m) \/ StartReplayed(m) \/ StartCurrent(m)
         \/ \E created \in BOOLEAN : StartRefused(m, created) \/ StartBegins(m, created)
  PROVE  RealtimeInv'
<1> USE DEF RealtimeInv, RealtimeTypeOK, ExecMatches, StoppedReleased, RunningOwned,
        StartCalls, StopCalls, RuntimeStates
<1>1. CASE StartConflict(m) \/ StartReplayed(m)
  BY <1>1 DEF StartConflict, StartReplayed
<1>2. CASE StartCurrent(m)
  BY <1>2 DEF StartCurrent, Accepted
<1>3. ASSUME NEW created \in BOOLEAN, StartRefused(m, created)
      PROVE  RealtimeInv'
  BY <1>3 DEF StartRefused
<1>4. ASSUME NEW created \in BOOLEAN, StartBegins(m, created)
      PROVE  RealtimeInv'
  BY <1>4 DEF StartBegins, Accepted
<1> QED BY <1>1, <1>2, <1>3, <1>4

\* Steps of a stop keep the invariant.
LEMMA StopInv ==
  ASSUME RealtimeInv, NEW m \in calls, StopReplayed(m) \/ StopNothing(m) \/ StopBegins(m)
  PROVE  RealtimeInv'
<1> USE DEF RealtimeInv, RealtimeTypeOK, ExecMatches, StoppedReleased, RunningOwned,
        StartCalls, StopCalls, RuntimeStates
<1>1. CASE StopReplayed(m)
  BY <1>1 DEF StopReplayed
<1>2. CASE StopNothing(m)
  BY <1>2 DEF StopNothing, Accepted
<1>3. CASE StopBegins(m)
  BY <1>3 DEF StopBegins, Accepted
<1> QED BY <1>1, <1>2, <1>3

\* Steps of the runtime service keep the invariant.
LEMMA ExecuteInv ==
  ASSUME RealtimeInv,
         \/ StartListens \/ StartSucceeds \/ StartFails \/ StopSucceeds
         \/ \E joined \in SUBSET Joinable : StopFails(joined)
  PROVE  RealtimeInv'
<1> USE DEF RealtimeInv, RealtimeTypeOK, ExecMatches, StoppedReleased, RunningOwned,
        StartCalls, StopCalls, RuntimeStates
<1>1. CASE StartListens \/ StartSucceeds
  BY <1>1 DEF StartListens, StartSucceeds
<1>2. CASE StartFails
  BY <1>2 DEF StartFails
<1>3. CASE StopSucceeds
  BY <1>3 DEF StopSucceeds
<1>4. ASSUME NEW joined \in SUBSET Joinable, StopFails(joined)
      PROVE  RealtimeInv'
  BY <1>4 DEF StopFails, Joinable
<1> QED BY <1>1, <1>2, <1>3, <1>4

\* Failures, restarts and forgotten replays keep the invariant.
LEMMA EventInv ==
  ASSUME RealtimeInv, PipelineDies \/ RuntimeFails \/ Restart \/ ReplayExpires
  PROVE  RealtimeInv'
<1> USE DEF RealtimeInv, RealtimeTypeOK, ExecMatches, StoppedReleased, RunningOwned,
        RuntimeStates
<1>1. CASE PipelineDies
  BY <1>1 DEF PipelineDies
<1>2. CASE RuntimeFails
  BY <1>2 DEF RuntimeFails
<1>3. CASE Restart
  BY <1>3 DEF Restart
<1>4. CASE ReplayExpires
  BY <1>4 DEF ReplayExpires
<1> QED BY <1>1, <1>2, <1>3, <1>4

\* Every call a caller can send is a call.
LEMMA CallTypes ==
  ASSUME NEW c \in Actors
  PROVE  /\ \A k \in Keys : StartCall(k, c) \in StartCalls \cup StopCalls
         /\ \A reason \in Reasons : StopCall(reason, c) \in StartCalls \cup StopCalls
  BY DEF StartCall, StopCall, StartCalls, StopCalls

\* Every step of the control plane keeps the invariant.
LEMMA RealtimeStepInv == RealtimeInv /\ [RealtimeNext]_rtVars => RealtimeInv'
<1> SUFFICES ASSUME RealtimeInv, [RealtimeNext]_rtVars PROVE RealtimeInv'
  OBVIOUS
<1>1. CASE \E c \in Actors : \/ \E k \in Keys : Send(StartCall(k, c))
                             \/ \E reason \in Reasons : Send(StopCall(reason, c))
  BY <1>1, CallTypes, TransportInv
<1>2. ASSUME NEW m \in calls, Lose(m)
      PROVE  RealtimeInv'
  <2>1. m \in StartCalls \cup StopCalls
    BY DEF RealtimeInv, RealtimeTypeOK
  <2> QED BY <2>1, <1>2, TransportInv
<1>3. CASE UNCHANGED rtVars
  BY <1>3 DEF rtVars, RealtimeInv, RealtimeTypeOK, ExecMatches, StoppedReleased, RunningOwned
<1> QED BY <1>1, <1>2, <1>3, StartInv, StopInv, ExecuteInv, EventInv DEF RealtimeNext

\* The invariant of the control plane is inductive.
LEMMA RealtimeInvariant == RealtimeSpec => []RealtimeInv
  BY RealtimeInitInv, RealtimeStepInv, PTL DEF RealtimeSpec

\* Snapshots, replay records and calls keep their types.
THEOREM RealtimeTypeCorrect == RealtimeSpec => []RealtimeTypeOK
  BY RealtimeInvariant, PTL DEF RealtimeInv

\* A stopped or absent runtime hides no media; a running one holds only the
\* media of the operation it names.
THEOREM MediaHolds == RealtimeSpec => [](StoppedReleased /\ RunningOwned)
  BY RealtimeInvariant, PTL DEF RealtimeInv

-----------------------------------------------------------------------------
\* No step replaces one runtime's media by another's.
LEMMA NoOverlapStep ==
  RealtimeInv /\ [RealtimeNext]_rtVars =>
    [ media # None /\ media' # None => media' = media ]_rtVars
<1> SUFFICES ASSUME RealtimeInv, RealtimeNext
             PROVE  media # None /\ media' # None => media' = media
  BY DEF rtVars
<1> QED
  BY DEF RealtimeInv, RealtimeTypeOK, RealtimeNext, Send, Lose, StartConflict, StartReplayed,
     StartRefused, StartCurrent, StartBegins, StopReplayed, StopNothing, StopBegins,
     StartListens, StartSucceeds, StartFails, Retained, StopSucceeds, StopFails, PipelineDies,
     RuntimeFails, Restart, ReplayExpires, ExecMatches, RunningOwned

\* Media is released by one operation before another one builds its own.
THEOREM NoOverlapHolds == RealtimeSpec => NoOverlap
  BY NoOverlapStep, RealtimeInvariant, PTL DEF RealtimeSpec, NoOverlap

\* A snapshot takes a new operation only when the last is over.
LEMMA SnapshotStep ==
  RealtimeInv /\ [RealtimeNext]_rtVars =>
    /\ [ rtOp' # rtOp => rt \in {"none", "stopped", "failed"} \/ rt' = "none" ]_rtVars
    /\ [ rt = "stop_failed" => rt' \in {"stop_failed", "stopping", "none"} ]_rtVars
<1> SUFFICES ASSUME RealtimeInv, RealtimeNext
             PROVE  /\ rtOp' # rtOp => rt \in {"none", "stopped", "failed"} \/ rt' = "none"
                    /\ rt = "stop_failed" => rt' \in {"stop_failed", "stopping", "none"}
  BY DEF rtVars
<1> QED
  BY DEF RealtimeInv, RealtimeTypeOK, ExecMatches, RealtimeNext, Send, Lose, StartConflict,
     StartReplayed, StartRefused, StartCurrent, StartBegins, MayStart, Occupied, RuntimeStates,
     StopReplayed, StopNothing, StopBegins, StartListens, StartSucceeds, StartFails,
     StopSucceeds, StopFails, PipelineDies, RuntimeFails, Restart, ReplayExpires

\* No operation displaces another one's runtime, and no Start builds over
\* resources whose cleanup failed.
THEOREM NoTakeoverHolds == RealtimeSpec => NoTakeover /\ CleanupRequired
  BY SnapshotStep, RealtimeInvariant, PTL DEF RealtimeSpec, NoTakeover, CleanupRequired
=============================================================================
