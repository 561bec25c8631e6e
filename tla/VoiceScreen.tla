------------------------------ MODULE VoiceScreen ------------------------------
(***************************************************************************)
(* What the web page shows of a running session's turns (use-voice-        *)
(* session.ts with the reducer of model/session.ts).  Subtitles, finals    *)
(* and replies come in order over the DataChannel; recorded turns and mode *)
(* snapshots come over HTTP, read at one time and applied at another.      *)
(* Turns are named by their number; their texts are left out.              *)
(***************************************************************************)
EXTENDS Integers, Sequences, FiniteSets

CONSTANTS
    MaxSpoken,      \* turns
    MaxPartials,    \* partial transcripts of a turn
    MaxSwitches,    \* mode switches
    MaxSnapshots,   \* mode reads under way at a time
    MaxInTransit    \* messages in the DataChannel

ASSUME VoiceScreenAssumption ==
    /\ MaxSpoken \in Nat /\ MaxPartials \in Nat /\ MaxSwitches \in Nat
    /\ MaxSnapshots \in Nat /\ MaxInTransit \in Nat

SpokenTurns == 1 .. MaxSpoken
NoTurn == 0
Unseen == -1

VARIABLES
    spoken,      \* what realtime has sent of each turn
    modeNow,     \* the generation of its mode
    channel,     \* messages on their way over the DataChannel
    stored,      \* turns the API has recorded
    transcript,      \* the reducer's turns, replies, partial and phrases
    settled,     \* settledPartialTurnsRef
    activeTurn,  \* activePartialTurnRef
    modeSeen,    \* the generation the page applied last
    poll,        \* the poll under way, and its cursor
    snapshots,   \* mode snapshots read and not applied yet
    link,       \* "up", or "over" once the connection failed or closed
    running      \* runningRef

screenVars == <<spoken, modeNow, channel, stored, transcript, settled, activeTurn,
                modeSeen, poll, snapshots, link, running>>
realtimeVars == <<spoken, modeNow, channel, stored>>
pageState == <<transcript, settled, activeTurn, modeSeen>>

EmptyScreen == [turns |-> <<>>, replies |-> {}, partial |-> NoTurn, phrases |-> {}]

ScreenInit ==
    /\ spoken = [t \in SpokenTurns |-> [at |-> "none", mode |-> 0, partials |-> 0, phrase |-> "none"]]
    /\ modeNow = 0 /\ modeSeen = Unseen
    /\ channel = <<>> /\ stored = {}
    /\ transcript = EmptyScreen
    /\ settled = {} /\ activeTurn = NoTurn
    /\ poll = [under |-> FALSE, turns |-> {}, cursor |-> 0]
    /\ snapshots = {}
    /\ link = "up" /\ running = TRUE

----------------------------------------------------------------------------
(* Realtime and the API, until the session has ended                         *)

SendOver(kind, t) ==
    /\ running /\ Len(channel) < MaxInTransit
    /\ channel' = Append(channel, [kind |-> kind, turn |-> t])
Turn(t, changes) == spoken' = [spoken EXCEPT ![t] = changes]

\* Even modes interpret, odd ones are the assistant's.
Interprets(mode) == mode % 2 = 0

SendPartial(t) ==
    /\ spoken[t].at \in {"none", "live"} /\ spoken[t].partials < MaxPartials
    /\ \A u \in 1 .. t - 1 : spoken[u].at # "none"
    /\ Turn(t, [spoken[t] EXCEPT !.at = "live", !.partials = @ + 1,
                  !.mode = IF spoken[t].at = "none" THEN modeNow ELSE @])
    /\ SendOver("partial", t)
    /\ UNCHANGED <<modeNow, stored, pageState, poll, snapshots, link, running>>

\* A phrase becomes stable while its turn is spoken; its translation may be late.
SendPhrase(t) ==
    /\ spoken[t].at # "none" /\ Interprets(spoken[t].mode)
    /\ \/ /\ spoken[t].at = "live" /\ spoken[t].phrase = "none"
          /\ Turn(t, [spoken[t] EXCEPT !.phrase = "stable"]) /\ SendOver("stable", t)
       \/ /\ spoken[t].phrase = "stable"
          /\ Turn(t, [spoken[t] EXCEPT !.phrase = "translated"]) /\ SendOver("translated", t)
    /\ UNCHANGED <<modeNow, stored, pageState, poll, snapshots, link, running>>

\* A turn of an older mode has no final.
SendFinal(t) ==
    /\ spoken[t].at = "live" /\ spoken[t].mode = modeNow
    /\ Turn(t, [spoken[t] EXCEPT !.at = "final"])
    /\ SendOver(IF Interprets(modeNow) THEN "final" ELSE "reply", t)
    /\ UNCHANGED <<modeNow, stored, pageState, poll, snapshots, link, running>>

\* Final turns reach the records through queues that keep no order.
StoreTurn(t) ==
    /\ running /\ spoken[t].at = "final" /\ t \notin stored /\ Interprets(spoken[t].mode)
    /\ stored' = stored \cup {t}
    /\ UNCHANGED <<spoken, modeNow, channel, pageState, poll, snapshots, link, running>>

SwitchRuntimeMode ==
    /\ running /\ modeNow < MaxSwitches
    /\ modeNow' = modeNow + 1
    /\ UNCHANGED <<spoken, channel, stored, pageState, poll, snapshots, link, running>>

----------------------------------------------------------------------------
(* The reducer                                                              *)

Displayed == {transcript.turns[n] : n \in 1 .. Len(transcript.turns)}

\* clearTransientSubtitlesForTurns
Cleared(turns) ==
    [transcript EXCEPT !.partial = IF @ \in turns THEN NoTurn ELSE @,
                   !.phrases = {p \in @ : p.turn \notin turns}]

Ascending(turns) ==
    LET Rank(n) == CHOOSE t \in turns : Cardinality({u \in turns : u < t}) = n - 1
    IN [n \in 1 .. Cardinality(turns) |-> Rank(n)]

\* mergeTurns: what is shown keeps its place.
SetTurns(turns) ==
    [Cleared(turns) EXCEPT !.turns = @ \o Ascending(turns \ Displayed)]

AddTurn(t) ==
    IF t \in Displayed THEN Cleared({t}) ELSE [Cleared({t}) EXCEPT !.turns = Append(@, t)]

SetPartial(t) == IF t \in Displayed THEN transcript ELSE [transcript EXCEPT !.partial = t]

AddPhrase(t, status) ==
    IF t \in Displayed \/ (status = "stable" /\ [turn |-> t, status |-> "translated"] \in transcript.phrases)
    THEN transcript
    ELSE [transcript EXCEPT !.phrases = {p \in @ : p.turn # t} \cup {[turn |-> t, status |-> status]}]

ClearPartial == [transcript EXCEPT !.partial = NoTurn, !.phrases = {}]

----------------------------------------------------------------------------
(* The page                                                                 *)

Settle(turns) ==
    /\ settled' = settled \cup turns
    /\ activeTurn' = IF activeTurn \in turns THEN NoTurn ELSE activeTurn

\* Bug: a final is dropped like the subtitles of a settled turn.
TakesFinal_Unsettled(t) == t \notin settled

\* A final is shown whatever settled its turn's subtitles.
TakesFinal(t) == t \in SpokenTurns

\* onDataMessage
Take(message) ==
    LET t == message.turn IN
    \/ /\ message.kind = "partial" /\ t \notin settled
       /\ transcript' = SetPartial(t)
       /\ activeTurn' = t /\ UNCHANGED settled
    \/ /\ message.kind \in {"stable", "translated"} /\ t \notin settled
       /\ transcript' = AddPhrase(t, message.kind)
       /\ UNCHANGED <<settled, activeTurn>>
    \/ /\ message.kind = "reply"
       /\ transcript' = [(IF activeTurn = t THEN ClearPartial ELSE transcript) EXCEPT !.replies = @ \cup {t}]
       /\ Settle({t})
    \/ /\ message.kind = "final" /\ TakesFinal(t)
       /\ transcript' = AddTurn(t)
       /\ Settle({t})
    \/ /\ IF message.kind = "final" THEN ~TakesFinal(t) ELSE message.kind # "reply" /\ t \in settled
       /\ UNCHANGED <<transcript, settled, activeTurn>>

OnDataMessage ==
    /\ channel # <<>>
    /\ channel' = Tail(channel)
    /\ IF running /\ link = "up" THEN Take(Head(channel))
       ELSE UNCHANGED <<transcript, settled, activeTurn>>
    /\ UNCHANGED <<spoken, modeNow, stored, modeSeen, poll, snapshots, link, running>>

\* syncTurnsAndState reads what is recorded behind its cursor...
PollReads ==
    /\ running /\ ~poll.under
    /\ poll' = [poll EXCEPT !.under = TRUE, !.turns = {t \in stored : t > poll.cursor}]
    /\ UNCHANGED <<realtimeVars, pageState, snapshots, link, running>>

\* ...and shows it when the answers are there.
PollApplies ==
    /\ poll.under
    /\ IF running
       THEN /\ transcript' = SetTurns(poll.turns)
            /\ Settle(poll.turns)
            /\ poll' = [under |-> FALSE, turns |-> {},
                        cursor |-> IF poll.turns = {} THEN poll.cursor
                                   ELSE CHOOSE t \in poll.turns : \A u \in poll.turns : u <= t]
       ELSE /\ poll' = [poll EXCEPT !.under = FALSE, !.turns = {}]
            /\ UNCHANGED <<transcript, settled, activeTurn>>
    /\ UNCHANGED <<realtimeVars, modeSeen, snapshots, link, running>>

ReadMode ==
    /\ running /\ modeNow \notin snapshots /\ Cardinality(snapshots) < MaxSnapshots
    /\ snapshots' = snapshots \cup {modeNow}
    /\ UNCHANGED <<realtimeVars, pageState, poll, link, running>>

\* applyModeSnapshot: the first mode, and one that is new to the page, ends the
\* subtitles of the turn it heard last.
ApplyModeSnapshot(mode) ==
    /\ mode \in snapshots
    /\ snapshots' = snapshots \ {mode}
    /\ IF running /\ mode > modeSeen
       THEN /\ modeSeen' = mode
            /\ IF modeSeen = Unseen \/ Interprets(mode) # Interprets(modeSeen)
               THEN /\ transcript' = ClearPartial
                    /\ settled' = IF activeTurn = NoTurn THEN settled ELSE settled \cup {activeTurn}
                    /\ activeTurn' = NoTurn
               ELSE UNCHANGED <<transcript, settled, activeTurn>>
       ELSE UNCHANGED pageState
    /\ UNCHANGED <<realtimeVars, poll, link, running>>

\* The connection fails or is closed: what still arrives is ignored.
MediaEnds ==
    /\ link = "up" /\ link' = "over"
    /\ UNCHANGED <<realtimeVars, pageState, poll, snapshots, running>>

\* end, once realtime has stopped: cleanupMedia and the reducer's END.
EndShown ==
    /\ running /\ running' = FALSE
    /\ transcript' = EmptyScreen
    /\ settled' = {} /\ activeTurn' = NoTurn
    /\ UNCHANGED <<realtimeVars, modeSeen, poll, snapshots, link>>

----------------------------------------------------------------------------
ScreenNext ==
    \/ \E t \in SpokenTurns : SendPartial(t) \/ SendPhrase(t) \/ SendFinal(t) \/ StoreTurn(t)
    \/ SwitchRuntimeMode
    \/ OnDataMessage \/ PollReads \/ PollApplies \/ ReadMode
    \/ \E mode \in 0 .. MaxSwitches : ApplyModeSnapshot(mode)
    \/ MediaEnds \/ EndShown

ScreenSpec == ScreenInit /\ [][ScreenNext]_screenVars

----------------------------------------------------------------------------
(* Properties                                                               *)

Sent(t) == \E n \in 1 .. Len(channel) : channel[n] = [kind |-> "final", turn |-> t]

\* Three sources tell the page of a turn at their own pace.  A turn that is
\* settled, by its final, by a poll that was faster, by its reply or by a
\* switch, has no subtitle beside it, however late its subtitles come; and a
\* final that came over a live connection is shown, once, whatever settled its
\* turn before (onDataMessage and syncTurnsAndState, use-voice-session.ts:746-802,
\* 1169-1320; model/session.ts).
ScreenTruthful ==
    /\ transcript.partial \notin settled \cup Displayed
    /\ \A p \in transcript.phrases : p.turn \notin settled \cup Displayed
    /\ Cardinality(Displayed) = Len(transcript.turns)
    /\ running /\ link = "up" =>
        \A t \in SpokenTurns :
            spoken[t].at = "final" /\ Interprets(spoken[t].mode) => t \in Displayed \/ Sent(t)
=============================================================================
