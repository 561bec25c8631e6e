--------------------------- MODULE FallbackReplay ---------------------------
(***************************************************************************)
(* The realtime side of a fallback playback: a request claims the          *)
(* operation in the replay store, plays the translated text through the    *)
(* session's runtime while a heartbeat renews the claim, and completes or  *)
(* aborts the operation.  The operation of a turn is named by the turn.    *)
(***************************************************************************)
EXTENDS Integers, FiniteSets

CONSTANTS
    Turns,      \* final turns, each with one fallback operation
    Processes,  \* API processes; each has one request at a time
    Nil,        \* "nothing"
    MaxOutages  \* bound: crashes, stalls, failing dependencies

ASSUME FallbackAssumption == MaxOutages \in Nat

VARIABLES
    operation,  \* row of realtime_fallback_playback_operations, per turn
    request,    \* request of each API process, as its handler sees it
    sounded,    \* how often a turn was played to its end
    outages     \* faults so far

replayVars == <<operation, request, sounded, outages>>

NoOperation == [status |-> "none", token |-> Nil, expired |-> FALSE]
NoRequest == [at |-> "none", turn |-> Nil]

\* "ok" and "error" are answers the API has not read yet.
RequestPlaces == {"none", "claim", "play", "playing", "complete", "abort", "ok", "error"}

ReplayTypeOK ==
    /\ operation \in [Turns -> [status : {"none", "processing", "accepted"},
                                token : Processes \cup {Nil}, expired : BOOLEAN]]
    /\ request \in [Processes -> [at : RequestPlaces, turn : Turns \cup {Nil}]]
    /\ sounded \in [Turns -> 0 .. MaxOutages + 1]
    /\ outages \in 0 .. MaxOutages

ReplayInit ==
    /\ operation = [t \in Turns |-> NoOperation]
    /\ request = [p \in Processes |-> NoRequest]
    /\ sounded = [t \in Turns |-> 0]
    /\ outages = 0

Outage == outages < MaxOutages /\ outages' = outages + 1
At(p, place) == request[p].at = place
RequestGoes(p, place) == request' = [request EXCEPT ![p].at = place]

\* The row of a claim, which a new token makes its owner's.
Owns(p) ==
    LET o == operation[request[p].turn] IN o.status = "processing" /\ o.token = p

Claimable(t) == operation[t].status = "none" \/ (operation[t].status = "processing" /\ operation[t].expired)

\* Bug: a request for an operation in progress is answered as accepted.
ClaimOperation_AnswersProcessing(p) ==
    LET t == request[p].turn IN
    /\ At(p, "claim")
    /\ \/ /\ Claimable(t)
          /\ operation' = [operation EXCEPT ![t] =
                [status |-> "processing", token |-> p, expired |-> FALSE]]
          /\ RequestGoes(p, "play")
       \/ ~Claimable(t) /\ RequestGoes(p, "ok") /\ UNCHANGED operation
    /\ UNCHANGED <<sounded, outages>>

\* PostgresFallbackPlaybackReplayStore.Claim, in one transaction.
ClaimOperation(p) ==
    LET t == request[p].turn IN
    /\ At(p, "claim")
    /\ \/ /\ Claimable(t)
          /\ operation' = [operation EXCEPT ![t] =
                [status |-> "processing", token |-> p, expired |-> FALSE]]
          /\ RequestGoes(p, "play")
       \/ operation[t].status = "accepted" /\ RequestGoes(p, "ok") /\ UNCHANGED operation
       \/ /\ operation[t].status = "processing" /\ ~operation[t].expired
          /\ RequestGoes(p, "error") /\ UNCHANGED operation
    /\ UNCHANGED <<sounded, outages>>

\* Manager.PlayFallback: without an active runtime, or a TTS stream, playback
\* has not started.
StartPlayback(p) ==
    /\ At(p, "play")
    /\ \/ RequestGoes(p, "playing") /\ UNCHANGED outages
       \/ RequestGoes(p, "abort") /\ Outage
    /\ UNCHANGED <<operation, sounded>>

\* Playback ends, or breaks off: by a failing stream, a stopping session, or a
\* renewal that failed and cancelled it.  Then the claim stays.
FinishPlayback(p) ==
    /\ At(p, "playing")
    /\ \/ /\ sounded' = [sounded EXCEPT ![request[p].turn] = @ + 1]
          /\ RequestGoes(p, "complete") /\ UNCHANGED outages
       \/ RequestGoes(p, "error") /\ Outage /\ UNCHANGED sounded
    /\ UNCHANGED operation

\* Complete, by token; also after a claim that somebody else accepted.
CompleteOperation(p) ==
    LET t == request[p].turn
        accepted == [operation EXCEPT ![t] =
                        [status |-> "accepted", token |-> Nil, expired |-> FALSE]]
    IN
    /\ At(p, "complete")
    /\ \/ Owns(p) /\ operation' = accepted /\ RequestGoes(p, "ok") /\ UNCHANGED outages
       \/ /\ ~Owns(p)
          /\ RequestGoes(p, IF operation[t].status = "accepted" THEN "ok" ELSE "error")
          /\ UNCHANGED <<operation, outages>>
       \/ RequestGoes(p, "error") /\ UNCHANGED operation /\ Outage
    /\ UNCHANGED sounded

\* Abort, by token: the operation may be claimed again at once.
AbortOperation(p) ==
    LET t == request[p].turn IN
    /\ At(p, "abort")
    /\ operation' = IF Owns(p) THEN [operation EXCEPT ![t] = NoOperation] ELSE operation
    /\ RequestGoes(p, "error")
    /\ UNCHANGED <<sounded, outages>>

\* Five minutes without a renewal.  A playing request renews every minute and
\* stops playing when it cannot.
ClaimExpires(t) ==
    LET o == operation[t] IN
    /\ o.status = "processing" /\ ~o.expired
    /\ request[o.token] # [at |-> "playing", turn |-> t]
    /\ IF request[o.token].turn = t /\ request[o.token].at \in {"play", "complete", "abort"}
       THEN Outage ELSE UNCHANGED outages
    /\ operation' = [operation EXCEPT ![t].expired = TRUE]
    /\ UNCHANGED <<request, sounded>>

\* The realtime process ends, and so does what it was playing.
RealtimeCrash(p) ==
    /\ request[p].at \in {"claim", "play", "playing", "complete", "abort"}
    /\ Outage /\ RequestGoes(p, "error")
    /\ UNCHANGED <<operation, sounded>>

HandlerStep(p) ==
    \/ ClaimOperation(p) \/ StartPlayback(p) \/ FinishPlayback(p)
    \/ CompleteOperation(p) \/ AbortOperation(p)
=============================================================================
