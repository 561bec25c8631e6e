----------------------------- MODULE TtsChannel -----------------------------
(* Speech as data: the sink that collects the audio of a playback, ships it   *)
(* in pieces over the DataChannel when the playback is complete, and drops it *)
(* when it is cancelled or the session is interrupted.  What was cut off is   *)
(* remembered by a bounded list of tombstones, of all sessions together, so   *)
(* that late chunks do not start the playback again.                          *)
(*                                                                            *)
(* Left out: the audio (a chunk makes one piece; whether the container is a   *)
(* WAV file changes its encoding, not its pieces), and calls that name no     *)
(* session (SpeechOutput always does).                                        *)
EXTENDS Integers, Sequences, SequencesExt, FiniteSets

CONSTANTS Playbacks,     \* SpeechOutput.Play calls, each with an id of its own
          Interrupted,   \* those of the session that is interrupted
          MaxTombstones, \* maxSettledPlaybackTombstones
          MaxSpeech,     \* chunks of one playback
          MaxHalts       \* interruptions

ASSUME TtsAssumption ==
    /\ IsFiniteSet(Playbacks) /\ Interrupted \subseteq Playbacks
    /\ MaxTombstones \in Nat \ {0} /\ MaxSpeech \in Nat /\ MaxHalts \in Nat

VARIABLES
    play,       \* the call that speaks: [at, said, left]
    buffered,   \* playback -> pieces in its buffer, 0 without one
    publishing, \* playbacks whose pieces are being sent
    halted,     \* those among them that were interrupted
    tombstones, \* settledOrder; settled holds the same playbacks
    link,       \* the DataChannel's sink: "opening", "open", "closed"
    shipped,    \* pieces written to the channel
    spoiled,       \* playbacks that lost a piece or failed
    cutAt,      \* playback -> pieces shipped when it was cut off, or -1
    forgotten,  \* playbacks whose tombstone was evicted before they completed
    halts

ttsVars == <<play, buffered, publishing, halted, tombstones, link, shipped, spoiled,
             cutAt, forgotten, halts>>

TtsInit ==
    /\ play = [p \in Playbacks |-> [at |-> "speaking", said |-> 0, left |-> 0]]
    /\ buffered = [p \in Playbacks |-> 0]
    /\ publishing = {} /\ halted = {} /\ tombstones = <<>>
    /\ link = "opening"
    /\ shipped = [p \in Playbacks |-> 0]
    /\ spoiled = {}
    /\ cutAt = [p \in Playbacks |-> -1]
    /\ forgotten = {} /\ halts = 0

Tombstoned(p) == p \in Range(tombstones)

\* markSettledLocked: the oldest tombstone makes room.
MarkSettled(list, p) ==
    IF p \in Range(list) THEN list
    ELSE IF Len(list) < MaxTombstones THEN Append(list, p) ELSE Append(Tail(list), p)

\* Marked one after the other.
MarkAll(list, order) ==
    LET marked[n \in 0 .. Len(order)] ==
          IF n = 0 THEN list ELSE MarkSettled(marked[n - 1], order[n])
    IN marked[Len(order)]

\* releaseSettledLocked
Release(p) ==
    tombstones' = IF Tombstoned(p)
                  THEN RemoveAt(tombstones, CHOOSE i \in DOMAIN tombstones : tombstones[i] = p)
                  ELSE tombstones
Forget(marked) ==
    forgotten' = forgotten \cup
        {p \in Range(tombstones) \cup marked : p \notin Range(tombstones') /\ play[p].at = "speaking"}

CutOff(ps) == cutAt' = [p \in Playbacks |-> IF p \in ps /\ cutAt[p] = -1 THEN shipped[p] ELSE cutAt[p]]

-----------------------------------------------------------------------------
(* One SpeechOutput.Play: chunks, then Complete, or Cancel when TTS failed.    *)

Dropped(p) == Tombstoned(p)

SpeakChunk(p) ==
    /\ play[p].at = "speaking" /\ play[p].said < MaxSpeech
    /\ play' = [play EXCEPT ![p].said = @ + 1]
    /\ buffered' = IF Dropped(p) THEN buffered ELSE [buffered EXCEPT ![p] = @ + 1]
    /\ UNCHANGED <<publishing, halted, tombstones, link, shipped, spoiled, cutAt, forgotten, halts>>

\* normalizeTTSAudio and splitBytes.
Pieces(p) == buffered[p]

CompletePlayback(p) ==
    /\ play[p].at = "speaking" /\ play[p].said > 0
    /\ buffered' = [buffered EXCEPT ![p] = 0]
    /\ \/ /\ Tombstoned(p)
          /\ Release(p)
          /\ play' = [play EXCEPT ![p].at = "over"]
          /\ UNCHANGED <<publishing, halted>>
       \/ /\ ~Tombstoned(p) /\ Pieces(p) = 0
          /\ play' = [play EXCEPT ![p].at = "over"]
          /\ UNCHANGED <<publishing, halted, tombstones>>
       \/ /\ ~Tombstoned(p) /\ Pieces(p) > 0
          /\ publishing' = publishing \cup {p}
          /\ halted' = halted \ {p}
          /\ play' = [play EXCEPT ![p].at = "pieces", ![p].left = Pieces(p)]
          /\ UNCHANGED tombstones
    /\ UNCHANGED <<link, shipped, spoiled, cutAt, forgotten, halts>>

\* The caller's context ended: the buffer stays, and Play does not cancel.
CompleteRefused(p) ==
    /\ play[p].at = "speaking" /\ play[p].said > 0
    /\ play' = [play EXCEPT ![p].at = "over"]
    /\ spoiled' = spoiled \cup {p}
    /\ UNCHANGED <<buffered, publishing, halted, tombstones, link, shipped, cutAt, forgotten, halts>>

CancelSpeech(p) ==
    /\ play[p].at = "speaking" /\ play[p].said > 0
    /\ buffered' = [buffered EXCEPT ![p] = 0]
    /\ tombstones' = MarkSettled(tombstones, p)
    /\ halted' = halted \cup ({p} \cap publishing)
    /\ play' = [play EXCEPT ![p].at = "over"]
    /\ CutOff({p}) /\ Forget({})
    /\ UNCHANGED <<publishing, link, shipped, spoiled, halts>>

-----------------------------------------------------------------------------
(* The loop over the pieces.                                                  *)

\* Bug: a playback that is being published is not interrupted.
NextPiece_All(p) ==
    /\ play[p].at = "pieces"
    /\ play' = [play EXCEPT ![p].at = IF play[p].left = 0 THEN "finish" ELSE "publish"]
    /\ UNCHANGED <<buffered, publishing, halted, tombstones, link, shipped, spoiled, cutAt, forgotten, halts>>

\* playbackSettled, for a playback that is being published.
NextPiece(p) ==
    /\ play[p].at = "pieces"
    /\ play' = [play EXCEPT ![p].at = IF play[p].left = 0 \/ p \in halted THEN "finish" ELSE "publish"]
    /\ UNCHANGED <<buffered, publishing, halted, tombstones, link, shipped, spoiled, cutAt, forgotten, halts>>

\* PublishJSON waits for the channel to open.
Ship(p) ==
    /\ play[p].at = "publish" /\ link = "open"
    /\ shipped' = [shipped EXCEPT ![p] = @ + 1]
    /\ play' = [play EXCEPT ![p].at = "pieces", ![p].left = @ - 1]
    /\ UNCHANGED <<buffered, publishing, halted, tombstones, link, spoiled, cutAt, forgotten, halts>>

\* No current media: the piece is dropped and the next one tried.
PieceDropped(p) ==
    /\ play[p].at = "publish"
    /\ play' = [play EXCEPT ![p].at = "pieces", ![p].left = @ - 1]
    /\ spoiled' = spoiled \cup {p}
    /\ UNCHANGED <<buffered, publishing, halted, tombstones, link, shipped, cutAt, forgotten, halts>>

\* The five seconds of a publication are over, or the channel is closed.
PublishFails(p) ==
    /\ play[p].at = "publish"
    /\ play' = [play EXCEPT ![p].at = "finish"]
    /\ spoiled' = spoiled \cup {p}
    /\ UNCHANGED <<buffered, publishing, halted, tombstones, link, shipped, cutAt, forgotten, halts>>

FinishPublishing(p) ==
    /\ play[p].at = "finish"
    /\ publishing' = publishing \ {p} /\ halted' = halted \ {p}
    /\ Release(p)
    /\ play' = [play EXCEPT ![p].at = "over"]
    /\ UNCHANGED <<buffered, link, shipped, spoiled, cutAt, forgotten, halts>>

-----------------------------------------------------------------------------
\* A wake word or a mode switch.  The buffers are gone through first, each map in
\* any order.
InterruptSession ==
    LET waiting == {p \in Interrupted : buffered[p] > 0}
        sending == Interrupted \cap publishing
    IN
    /\ halts < MaxHalts /\ halts' = halts + 1
    /\ buffered' = [p \in Playbacks |-> IF p \in waiting THEN 0 ELSE buffered[p]]
    /\ halted' = halted \cup sending
    /\ \E first \in SetToSeqs(waiting), second \in SetToSeqs(sending) :
          tombstones' = MarkAll(tombstones, first \o second)
    /\ CutOff(waiting \cup sending) /\ Forget(waiting)
    /\ UNCHANGED <<play, publishing, link, shipped, spoiled>>

LinkChanges ==
    /\ \/ link = "opening" /\ link' = "open"
       \/ link # "closed" /\ link' = "closed"
    /\ UNCHANGED <<play, buffered, publishing, halted, tombstones, shipped, spoiled, cutAt, forgotten, halts>>

TtsNext ==
    \/ \E p \in Playbacks :
          \/ SpeakChunk(p) \/ CompletePlayback(p) \/ CompleteRefused(p) \/ CancelSpeech(p)
          \/ NextPiece(p) \/ Ship(p) \/ PieceDropped(p) \/ PublishFails(p) \/ FinishPublishing(p)
    \/ InterruptSession \/ LinkChanges

TtsSpec == TtsInit /\ [][TtsNext]_ttsVars

-----------------------------------------------------------------------------
\* A playback that is cut off ships at most the piece under way, unless later cuts
\* of any session evicted its tombstone before it completed; one that is being
\* shipped needs no tombstone.
SilentWhenCut ==
    \A p \in Playbacks : cutAt[p] >= 0 /\ p \notin forgotten => shipped[p] <= cutAt[p] + 1

\* A playback that nothing cut off and that lost no piece is shipped whole, whatever
\* happens to the other playbacks.
WholeUnlessCut ==
    \A p \in Playbacks :
        play[p].at = "over" /\ cutAt[p] = -1 /\ p \notin spoiled => shipped[p] = play[p].said

\* After an interruption nothing stale is heard, and nothing else is lost by it
\* (localruntime/tts_dc_sink.go:174).
SettledSilent == SilentWhenCut /\ WholeUnlessCut
=============================================================================
