--------------------------- MODULE RealtimeControl ---------------------------
(***************************************************************************)
(* The realtime-audio process as the API sees it: the HTTP control plane   *)
(* (services/realtime-audio/controlplane), which answers repeated calls    *)
(* from a replay table, in front of session.LifecycleService, which owns   *)
(* the runtime snapshot and the media pipeline of one session.             *)
(*                                                                         *)
(* LifecycleService serializes Start, Stop and SetRuntimeFailed by a keyed *)
(* mutex; `exec' is the call that holds it across the slow media work.     *)
(* GetRuntimeState takes no mutex and may see "starting" and "stopping".   *)
(* All processing states (listening, asr_processing, ... playing) are      *)
(* "running": lifecycle decisions do not tell them apart.                  *)
(***************************************************************************)
EXTENDS SessionActors

VARIABLES
    rt,          \* RuntimeSnapshot.RuntimeState; failed/stop_failed is its own value
    rtOp,        \* RuntimeSnapshot.StartOperationID
    media,       \* operation whose pipeline holds media resources, or None
    calls,       \* calls in flight, not yet accepted
    exec,        \* call executing under the lifecycle mutex, or None
    startReplay, \* replay record of "start:<operation>": the trace id in its hash
    stopReplay   \* reasons whose "stop:<reason>" answer is in the replay table

rtVars == <<rt, rtOp, media, calls, exec, startReplay, stopReplay>>

RuntimeStates == {"none", "starting", "running", "stopping", "stopped",
                  "failed", "stop_failed"}

StartCall(k, c) == [kind |-> "start", arg |-> k, by |-> c]
StopCall(reason, c) == [kind |-> "stop", arg |-> reason, by |-> c]

StartCalls == [kind : {"start"}, arg : Keys, by : Actors]
StopCalls  == [kind : {"stop"}, arg : Reasons, by : Actors]

RealtimeTypeOK ==
    /\ rt \in RuntimeStates
    /\ rtOp \in Keys \cup {None}
    /\ media \in Keys \cup {None}
    /\ calls \subseteq StartCalls \cup StopCalls
    /\ exec \in StartCalls \cup StopCalls \cup {None}
    /\ startReplay \in [Keys -> Actors \cup {None}]
    /\ stopReplay \subseteq Reasons

RealtimeInit ==
    /\ rt = "none" /\ rtOp = None /\ media = None
    /\ calls = {} /\ exec = None
    /\ startReplay = [k \in Keys |-> None]
    /\ stopReplay = {}

-----------------------------------------------------------------------------
\* Transport.

\* Client.postRuntime.  Repeating a call that is still in flight joins it:
\* both carry the same replay key.
Send(m) ==
    /\ calls' = calls \cup {m}
    /\ UNCHANGED <<rt, rtOp, media, exec, startReplay, stopReplay>>

\* The request never reaches the handler, or reaches it already cancelled.
Lose(m) ==
    /\ m \in calls
    /\ calls' = calls \ {m}
    /\ UNCHANGED <<rt, rtOp, media, exec, startReplay, stopReplay>>

-----------------------------------------------------------------------------
\* Start.  The replay hash covers the whole body, trace id included.

\* reserveReplay: the key is held by a request with another trace id.
StartConflict(m) ==
    /\ m \in calls /\ m.kind = "start"
    /\ startReplay[m.arg] \notin {None, m.by}
    /\ calls' = calls \ {m}
    /\ UNCHANGED <<rt, rtOp, media, exec, startReplay, stopReplay>>

\* The recorded answer is repeated whatever the runtime does by now.
StartReplayed(m) ==
    /\ m \in calls /\ m.kind = "start"
    /\ startReplay[m.arg] = m.by /\ exec # m
    /\ calls' = calls \ {m}
    /\ UNCHANGED <<rt, rtOp, media, exec, startReplay, stopReplay>>

\* The call owns its replay record and the lifecycle mutex.
Accepted(m) ==
    /\ m \in calls
    /\ exec = None
    /\ IF m.kind = "start" THEN startReplay[m.arg] = None
                           ELSE m.arg \notin stopReplay

Occupied == rt \in {"starting", "running", "stopping"}

\* Start finds its own operation in progress or running with a live pipeline.
IsCurrent(k) == Occupied /\ rtOp = k /\ (rt = "running" => media = k)

\* Start may build a pipeline: the snapshot is free, or its pipeline died
\* under the same operation.  The business session must still be created.
MayStart(k, created) ==
    /\ rt # "stop_failed"
    /\ Occupied => rtOp = k /\ rt = "running" /\ media # k
    /\ created

StartRefused(m, created) ==
    /\ Accepted(m) /\ m.kind = "start"
    /\ ~IsCurrent(m.arg) /\ ~MayStart(m.arg, created)
    /\ calls' = calls \ {m}
    /\ UNCHANGED <<rt, rtOp, media, exec, startReplay, stopReplay>>

StartCurrent(m) ==
    /\ Accepted(m) /\ m.kind = "start"
    /\ IsCurrent(m.arg)
    /\ calls' = calls \ {m}
    /\ startReplay' = [startReplay EXCEPT ![m.arg] = m.by]
    /\ UNCHANGED <<rt, rtOp, media, exec, stopReplay>>

StartBegins(m, created) ==
    /\ Accepted(m) /\ m.kind = "start"
    /\ MayStart(m.arg, created)
    /\ rt' = "starting" /\ rtOp' = m.arg
    /\ calls' = calls \ {m} /\ exec' = m
    /\ startReplay' = [startReplay EXCEPT ![m.arg] = m.by]
    /\ UNCHANGED <<media, stopReplay>>

\* Pipelines.Start built the pipeline and "listening" is saved, before Activate
\* starts it.  runtime.Manager refuses to build over an entry it could not
\* release (ErrPipelineStopping).
StartListens ==
    /\ exec # None /\ exec.kind = "start"
    /\ rt = "starting" /\ media = None
    /\ rt' = "running" /\ media' = exec.arg
    /\ UNCHANGED <<rtOp, calls, exec, startReplay, stopReplay>>

\* Activate started it, and Start returns.
StartSucceeds ==
    /\ exec # None /\ exec.kind = "start"
    /\ rt = "running"
    /\ exec' = None
    /\ UNCHANGED <<rt, rtOp, media, calls, startReplay, stopReplay>>

\* Start cannot build over what an earlier cleanup left behind.
Retained == rt = "starting" /\ media # None

\* Pipelines.Start, Save or Activate failed.  A pipeline this call built is
\* cleaned up, or retained when its own cleanup fails too; one it did not build
\* is left alone.  The replay record is removed, so the operation may be
\* started again.
StartFails ==
    /\ exec # None /\ exec.kind = "start"
    /\ rt' = "failed"
    /\ media' \in IF Retained THEN {media} ELSE {None, exec.arg}
    /\ exec' = None
    /\ startReplay' = [startReplay EXCEPT ![exec.arg] = None]
    /\ UNCHANGED <<rtOp, calls, stopReplay>>

-----------------------------------------------------------------------------
\* Stop names a session, a reason and a trace id, never an operation.

StopReplayed(m) ==
    /\ m \in calls /\ m.kind = "stop"
    /\ m.arg \in stopReplay
    /\ calls' = calls \ {m}
    /\ UNCHANGED <<rt, rtOp, media, exec, startReplay, stopReplay>>

\* Nothing to stop: not found, or already stopped.
StopNothing(m) ==
    /\ Accepted(m) /\ m.kind = "stop"
    /\ rt \in {"none", "stopped"}
    /\ calls' = calls \ {m}
    /\ stopReplay' = stopReplay \cup {m.arg}
    /\ UNCHANGED <<rt, rtOp, media, exec, startReplay>>

StopBegins(m) ==
    /\ Accepted(m) /\ m.kind = "stop"
    /\ rt \notin {"none", "stopped"}
    /\ rt' = "stopping"
    /\ calls' = calls \ {m} /\ exec' = m
    /\ UNCHANGED <<rtOp, media, startReplay, stopReplay>>

StopSucceeds ==
    /\ exec # None /\ exec.kind = "stop"
    /\ rt' = "stopped" /\ media' = None
    /\ exec' = None
    /\ stopReplay' = stopReplay \cup {exec.arg}
    /\ UNCHANGED <<rtOp, calls, startReplay>>

\* Calls that joined the executing Stop's replay record.
Joinable == {m \in calls : exec # None /\ m.kind = exec.kind /\ m.arg = exec.arg}

\* The pipeline or the WebRTC connection could not be released.  The record
\* is removed; the calls that joined it fail with it.
StopFails(joined) ==
    /\ exec # None /\ exec.kind = "stop"
    /\ joined \subseteq Joinable
    /\ rt' = "stop_failed"
    /\ media' \in {media, None}
    /\ exec' = None
    /\ calls' = calls \ joined
    /\ UNCHANGED <<rtOp, startReplay, stopReplay>>

-----------------------------------------------------------------------------
\* Events of the realtime process itself.

\* The media loop runs once Activate has started it.
PipelineDies ==
    /\ exec = None
    /\ rt = "running" /\ media # None
    /\ media' = None
    /\ UNCHANGED <<rt, rtOp, calls, exec, startReplay, stopReplay>>

\* SetRuntimeFailed, reported by the runtime manager for a dead pipeline.
RuntimeFails ==
    /\ exec = None
    /\ rt = "running" /\ media = None
    /\ rt' = "failed"
    /\ UNCHANGED <<rtOp, media, calls, exec, startReplay, stopReplay>>

\* Snapshots, replay records and connections live in memory only.
Restart ==
    /\ rt' = "none" /\ rtOp' = None /\ media' = None
    /\ calls' = {} /\ exec' = None
    /\ startReplay' = [k \in Keys |-> None]
    /\ stopReplay' = {}

\* replayTTL (ten minutes) outlives every call in flight.
ReplayExpires ==
    /\ calls = {} /\ exec = None
    /\ \/ \E k \in Keys :
            /\ startReplay[k] # None
            /\ startReplay' = [startReplay EXCEPT ![k] = None]
            /\ UNCHANGED stopReplay
       \/ \E reason \in stopReplay :
            /\ stopReplay' = stopReplay \ {reason}
            /\ UNCHANGED startReplay
    /\ UNCHANGED <<rt, rtOp, media, calls, exec>>

-----------------------------------------------------------------------------
\* Any caller, any call, any business status: the component on its own.
RealtimeNext ==
    \/ \E c \in Actors :
        \/ \E k \in Keys : Send(StartCall(k, c))
        \/ \E reason \in Reasons : Send(StopCall(reason, c))
    \/ \E m \in calls :
        \/ Lose(m)
        \/ StartConflict(m)
        \/ StartReplayed(m)
        \/ \E created \in BOOLEAN : StartRefused(m, created)
        \/ StartCurrent(m)
        \/ \E created \in BOOLEAN : StartBegins(m, created)
        \/ StopReplayed(m)
        \/ StopNothing(m)
        \/ StopBegins(m)
    \/ StartListens \/ StartSucceeds \/ StartFails
    \/ StopSucceeds
    \/ \E joined \in SUBSET Joinable : StopFails(joined)
    \/ PipelineDies \/ RuntimeFails \/ Restart \/ ReplayExpires

RealtimeSpec == RealtimeInit /\ [][RealtimeNext]_rtVars

-----------------------------------------------------------------------------
\* A snapshot that says there is nothing to stop hides no media resources:
\* Stop returns early on it, so anything left would never be released.
StoppedReleased == rt \in {"none", "stopped"} => media = None

\* A running runtime holds the media of the operation its snapshot names and
\* of no other, also after failed starts, retained resources and deaths: the
\* API activates a session on the snapshot alone (validateStartRuntimeOwnership).
RunningOwned == rt = "running" => media \in {rtOp, None}

\* Media resources are never handed from one operation to another, not even
\* through a failed start or a failed stop: they are released in between.
NoOverlap == [][ media # None /\ media' # None => media' = media ]_rtVars

\* An operation is displaced only from a snapshot that is free, or by losing
\* the whole process: never from a starting, running or stopping runtime, nor
\* from one whose cleanup failed.
NoTakeover ==
    [][ rtOp' # rtOp => rt \in {"none", "stopped", "failed"} \/ rt' = "none" ]_rtVars

\* After a failed cleanup only another Stop (or losing the process) moves the
\* runtime on; a Start may not build over resources that were not released.
CleanupRequired ==
    [][ rt = "stop_failed" => rt' \in {"stop_failed", "stopping", "none"} ]_rtVars
=============================================================================
