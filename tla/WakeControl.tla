---------------------------- MODULE WakeControl ----------------------------
(* The local wake word of a device: a controller that starts and stops the    *)
(* platform's engine and turns its callbacks into signals.  The engine and    *)
(* the sender are called outside the mutex, so an epoch fences callbacks of   *)
(* an earlier start, and Stop waits for those that passed the fence.          *)
(*                                                                            *)
(* Left out: the ids and times of signals.  The engine is external: it may    *)
(* call a handler at any time after it was given it, also after its Stop.     *)
EXTENDS Naturals

CONSTANTS Starters, \* calls of Start
          Stoppers, \* calls of Stop
          Wakes     \* calls of a handler

VARIABLES
    enabled, started, runEpoch, lastErr,
    starter,  \* Start: [at, epoch]
    stopper,  \* Stop: [at, epoch, failed]; the epoch is the one it fenced with
    wake      \* handleWake: [at, epoch]

wakeVars == <<enabled, started, runEpoch, lastErr, starter, stopper, wake>>

WakeInit ==
    /\ enabled = TRUE /\ started = FALSE /\ runEpoch = 0 /\ lastErr = "none"
    /\ starter = [s \in Starters |-> [at |-> "new", epoch |-> 0]]
    /\ stopper = [t \in Stoppers |-> [at |-> "new", epoch |-> 0, failed |-> FALSE]]
    /\ wake = [w \in Wakes |-> [at |-> "new", epoch |-> 0]]

\* disable, after a failure of the engine in any of its starts and stops.
TurnOff ==
    /\ enabled' = FALSE /\ started' = FALSE
    /\ runEpoch' = runEpoch + 1
    /\ lastErr' = "engine"

-----------------------------------------------------------------------------
(* Start.                                                                     *)

ChecksEnabled(s) ==
    /\ starter[s].at = "new"
    /\ starter' = [starter EXCEPT ![s].at = IF enabled THEN "lock" ELSE "done"]
    /\ UNCHANGED <<enabled, started, runEpoch, lastErr, stopper, wake>>

BeginsRun(s) ==
    /\ starter[s].at = "lock"
    /\ \/ /\ started
          /\ starter' = [starter EXCEPT ![s].at = "done"]
          /\ UNCHANGED <<started, runEpoch>>
       \/ /\ ~started /\ started' = TRUE
          /\ runEpoch' = runEpoch + 1
          /\ starter' = [starter EXCEPT ![s] = [at |-> "engine", epoch |-> runEpoch + 1]]
    /\ UNCHANGED <<enabled, lastErr, stopper, wake>>

EngineStarts(s) ==
    /\ starter[s].at = "engine"
    /\ \E at \in {"done", "failed"} : starter' = [starter EXCEPT ![s].at = at]
    /\ UNCHANGED <<enabled, started, runEpoch, lastErr, stopper, wake>>

StartDisables(s) ==
    /\ starter[s].at = "failed"
    /\ TurnOff
    /\ starter' = [starter EXCEPT ![s].at = "done"]
    /\ UNCHANGED <<stopper, wake>>

-----------------------------------------------------------------------------
(* Stop.                                                                      *)

FencesRun(t) ==
    /\ stopper[t].at = "new"
    /\ started' = FALSE
    /\ runEpoch' = runEpoch + 1
    /\ stopper' = [stopper EXCEPT ![t].at = "engine", ![t].epoch = runEpoch + 1]
    /\ UNCHANGED <<enabled, lastErr, starter, wake>>

EngineStops(t) ==
    /\ stopper[t].at = "engine"
    /\ \E failed \in BOOLEAN :
          stopper' = [stopper EXCEPT ![t].at = "wait", ![t].failed = failed]
    /\ UNCHANGED <<enabled, started, runEpoch, lastErr, starter, wake>>

\* Between callbacks.Add and callbacks.Done.
InCallback(w) == wake[w].at \in {"sending", "error"}

Waited(t) == [stopper EXCEPT ![t].at = IF stopper[t].failed THEN "failed" ELSE "done"]

\* Bug: Stop returns while a callback is on its way.
WaitsForCallbacks_Not(t) ==
    /\ stopper[t].at = "wait"
    /\ stopper' = Waited(t)
    /\ UNCHANGED <<enabled, started, runEpoch, lastErr, starter, wake>>

WaitsForCallbacks(t) ==
    /\ stopper[t].at = "wait" /\ \A w \in Wakes : ~InCallback(w)
    /\ stopper' = Waited(t)
    /\ UNCHANGED <<enabled, started, runEpoch, lastErr, starter, wake>>

StopDisables(t) ==
    /\ stopper[t].at = "failed"
    /\ TurnOff
    /\ stopper' = [stopper EXCEPT ![t].at = "done"]
    /\ UNCHANGED <<starter, wake>>

-----------------------------------------------------------------------------
(* handleWake, of the handler that a Start gave the engine.                   *)

HandleWake(w) ==
    /\ wake[w].at = "new"
    /\ \E s \in Starters :
          /\ starter[s].epoch # 0
          /\ LET current == enabled /\ started /\ runEpoch = starter[s].epoch IN
             wake' = [wake EXCEPT ![w] = [at |-> IF current THEN "sending" ELSE "done",
                                          epoch |-> starter[s].epoch]]
    /\ UNCHANGED <<enabled, started, runEpoch, lastErr, starter, stopper>>

\* SendWakeWordDetected, or the id of the signal, may fail.
SendWakeWord(w) ==
    /\ wake[w].at = "sending"
    /\ \E at \in {"done", "error"} : wake' = [wake EXCEPT ![w].at = at]
    /\ UNCHANGED <<enabled, started, runEpoch, lastErr, starter, stopper>>

RemembersError(w) ==
    /\ wake[w].at = "error"
    /\ wake' = [wake EXCEPT ![w].at = "done"]
    /\ lastErr' = IF started /\ runEpoch = wake[w].epoch THEN "signal" ELSE lastErr
    /\ UNCHANGED <<enabled, started, runEpoch, starter, stopper>>

WakeNext ==
    \/ \E s \in Starters :
          ChecksEnabled(s) \/ BeginsRun(s) \/ EngineStarts(s) \/ StartDisables(s)
    \/ \E t \in Stoppers :
          FencesRun(t) \/ EngineStops(t) \/ WaitsForCallbacks(t) \/ StopDisables(t)
    \/ \E w \in Wakes : HandleWake(w) \/ SendWakeWord(w) \/ RemembersError(w)

WakeSpec == WakeInit /\ [][WakeNext]_wakeVars

-----------------------------------------------------------------------------
\* Once Stop has returned no callback of a run it ended is in the sender, whatever
\* starts, stops and failures it met.
StoppedQuietly ==
    \A t \in Stoppers, w \in Wakes :
        stopper[t].at \in {"failed", "done"} /\ InCallback(w) => wake[w].epoch > stopper[t].epoch

\* Why the wake word is off stays readable: a late signal's error does not hide it.
\* A Start that was already under way may set started again.
OffForAReason == ~enabled => lastErr = "engine"

\* Start, Stop and callbacks run concurrently, each in several critical sections
\* (sdks/device/wake.go:84, 130).
WakeFenced == StoppedQuietly /\ OffForAReason
=============================================================================
