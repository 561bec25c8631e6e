--------------------------- MODULE SpeechStreams ---------------------------
(***************************************************************************)
(* The streams of the speech providers: a recognizer that is fed with       *)
(* frames and asked for its final text (asr/qwen), and a synthesizer whose  *)
(* chunks are played (tts/qwen).  Each has a goroutine that reads the       *)
(* service, a bounded channel to a consumer that may be slow or gone, and   *)
(* callers of Finish and Close in different goroutines.                     *)
(***************************************************************************)
EXTENDS Integers, Sequences, SequencesExt

CONSTANTS
    EventRoom,     \* capacity of the recognizer's channel of events
    ChunkRoom,     \* capacity of the synthesizer's channel of chunks
    MaxReplies     \* bound: messages a service sends in one stream

ASSUME StreamsAssumption == /\ EventRoom \in Nat /\ EventRoom > 1
                            /\ {ChunkRoom, MaxReplies} \subseteq Nat \ {0}

VARIABLES
    ear,      \* the recognizer's stream
    voice     \* the synthesizer's stream

streamVars == <<ear, voice>>

Calls == {"none", "asked", "waiting", "cancelling", "answered"}
Replies == {"partial", "completed", "failed", "finished"}
Pieces == {"delta", "url", "done", "finished", "failed"}

StreamsTypeOK ==
    /\ ear \in [manual : BOOLEAN, wire : BoundedSeq(Replies, MaxReplies), sent : 0 .. MaxReplies,
                finals : 0 .. MaxReplies, told : SUBSET {"commit", "finish"},
                conn : {"open", "broken", "closed"}, cancelled : BOOLEAN, stopped : BOOLEAN,
                reader : {"reading", "ended"}, events : BoundedSeq({"partial", "final"}, EventRoom),
                delivered : BOOLEAN, result : BOOLEAN, err : BOOLEAN,
                finish : Calls, close : Calls, answer : {"none", "text", "empty", "error"},
                excused : BOOLEAN]
    /\ voice \in [kind : {"realtime", "http"}, wire : BoundedSeq(Pieces, MaxReplies), sent : 0 .. MaxReplies, deltas : 0 .. MaxReplies,
                  conn : {"open", "broken", "closed"}, ctx : {"live", "timeout", "cancelled"},
                  reader : {"reading", "emitting", "ended"}, made : 0 .. MaxReplies,
                  chunks : 0 .. ChunkRoom, played : 0 .. MaxReplies, url : BOOLEAN, err : BOOLEAN,
                  finish : Calls, close : Calls, answer : {"none", "audio", "error"}]

StreamsInit ==
    /\ \E manual \in BOOLEAN :
        ear = [manual |-> manual, wire |-> <<>>, sent |-> 0, finals |-> 0, told |-> {}, conn |-> "open",
               cancelled |-> FALSE, stopped |-> FALSE, reader |-> "reading", events |-> <<>>,
               delivered |-> FALSE, result |-> FALSE, err |-> FALSE,
               finish |-> "none", close |-> "none", answer |-> "none", excused |-> FALSE]
    /\ \E kind \in {"realtime", "http"} :
        voice = [kind |-> kind, wire |-> <<>>, sent |-> 0, deltas |-> 0, conn |-> "open", ctx |-> "live",
                 reader |-> "reading", made |-> 0, chunks |-> 0, played |-> 0, url |-> FALSE,
                 err |-> FALSE, finish |-> "none", close |-> "none", answer |-> "none"]

Ear(new) == ear' = new /\ UNCHANGED voice
Voice(new) == voice' = new /\ UNCHANGED ear

-----------------------------------------------------------------------------
\* The recognition service.  In manual mode an utterance is completed once its
\* audio is committed, otherwise whenever the service hears a pause.

ServiceHears ==
    /\ ear.conn = "open" /\ ear.reader = "reading" /\ ear.sent < MaxReplies
    /\ ToSet(ear.wire) \cap {"failed", "finished"} = {}
    /\ \E r \in Replies :
        /\ (r = "completed" /\ ear.manual) => ("commit" \in ear.told /\ ear.finals = 0)
        /\ r = "finished" => "finish" \in ear.told
        /\ Ear([ear EXCEPT !.wire = Append(@, r), !.sent = @ + 1,
                           !.finals = IF r = "completed" THEN @ + 1 ELSE @,
                           !.excused = @ \/ r = "failed" \/ (r = "completed" /\ ear.finals > 0)])

EarBreaks == ear.conn = "open" /\ Ear([ear EXCEPT !.conn = "broken", !.excused = TRUE])

\* The context of the session ends; it is the parent of the stream's.
EarCancelled == ~ear.cancelled /\ Ear([ear EXCEPT !.cancelled = TRUE, !.excused = TRUE])

-----------------------------------------------------------------------------
\* The recognizer's stream.

SetError(s) == [s EXCEPT !.err = TRUE]
StreamDone == ear.cancelled \/ ear.stopped

\* Bug: the last slot is not kept for the final result.
HasRoom_ForAnything(kind) == Len(ear.events) < EventRoom

\* emitEvent: partials leave the last slot to the final result.
HasRoom(kind) == Len(ear.events) < IF kind = "partial" THEN EventRoom - 1 ELSE EventRoom

Emit(s, kind) == [s EXCEPT !.events = Append(@, kind), !.delivered = @ \/ kind = "final"]
ReadEnds(s) == [s EXCEPT !.reader = "ended"]

\* One round of readLoop.  What the service sent before the connection broke may
\* still be read; a connection that was closed is not read any more.
ReadReply ==
    /\ ear.reader = "reading" /\ ear.wire # <<>> /\ ear.conn # "closed"
    /\ LET s == [ear EXCEPT !.wire = Tail(@)]
           kind == Head(ear.wire)
       IN  Ear(CASE kind = "partial" -> IF HasRoom("partial") THEN Emit(s, "partial") ELSE s
                 [] kind = "completed" ->
                      LET known == [s EXCEPT !.result = TRUE]
                      IN  IF HasRoom("final") THEN Emit(known, "final") ELSE ReadEnds(SetError(known))
                 [] kind = "failed" -> ReadEnds(SetError(s))
                 [] kind = "finished" -> ReadEnds(s))

\* ReadMessage fails: an error unless the stream was told to stop.
ReadFails ==
    /\ ear.reader = "reading"
    /\ ear.conn = "closed" \/ (ear.conn = "broken" /\ ear.wire = <<>>)
    /\ Ear(ReadEnds(IF StreamDone THEN ear ELSE SetError(ear)))

\* The consumer of Events takes one, or none for ever.
TakeEvent == ear.events # <<>> /\ Ear([ear EXCEPT !.events = Tail(@)])

\* write: a context that is done closes the connection.
Writable == ear.conn = "open" /\ ~ear.cancelled
AfterWrite(s) == IF ear.cancelled THEN [s EXCEPT !.conn = "closed"] ELSE s

\* PushAudio of a frame that fails; the caller closes the stream.
PushFails ==
    /\ ear.finish = "none" /\ ear.close = "none" /\ ~Writable
    /\ Ear(AfterWrite([ear EXCEPT !.close = "asked"]))

\* shutdown: once, then wait for the read loop.
Shutdown(s) == [s EXCEPT !.stopped = TRUE, !.conn = IF ear.stopped THEN @ ELSE "closed"]

FinalAnswer == IF ear.err THEN "error" ELSE IF ear.result THEN "text" ELSE "empty"

\* Finish writes commit and session.finish once, unless the stream has ended.
AskFinish ==
    /\ ear.finish = "none" /\ ear.close = "none"
    /\ IF ear.reader = "ended"
       THEN Ear([ear EXCEPT !.finish = "answered", !.answer = FinalAnswer])
       ELSE Ear([ear EXCEPT !.finish = "asked"])

WriteFinish ==
    /\ ear.finish = "asked"
    /\ LET message == IF ear.manual /\ "commit" \notin ear.told THEN "commit" ELSE "finish"
           last == message = "finish"
       IN  Ear(IF Writable
               THEN [ear EXCEPT !.told = @ \cup {message}, !.finish = IF last THEN "waiting" ELSE @]
               ELSE Shutdown(SetError(AfterWrite([ear EXCEPT !.finish = "waiting"]))))

\* The select of Finish: done wins also when the context ended as well.
FinishAnswers ==
    /\ ear.finish \in {"waiting", "cancelling"} /\ ear.reader = "ended"
    /\ Ear([ear EXCEPT !.finish = "answered",
                       !.answer = IF ear.finish = "cancelling" THEN "error" ELSE FinalAnswer])

\* The caller's context is done: the stream is shut down, then Finish answers the error.
FinishCancelled ==
    /\ ear.finish = "waiting" /\ ear.cancelled /\ ear.reader = "reading"
    /\ Ear(Shutdown([ear EXCEPT !.finish = "cancelling"]))

CloseEar == ear.close = "none" /\ Ear(Shutdown([ear EXCEPT !.close = "waiting", !.excused = TRUE]))
PushAborts == ear.close = "asked" /\ Ear(Shutdown([ear EXCEPT !.close = "waiting"]))
EarClosed ==
    /\ ear.close = "waiting" /\ ear.reader = "ended"
    /\ Ear([ear EXCEPT !.close = "answered"])

EarStep ==
    ReadReply \/ ReadFails \/ WriteFinish \/ FinishAnswers \/ FinishCancelled \/ PushAborts \/ EarClosed

-----------------------------------------------------------------------------
\* The synthesis service.

ServiceSpeaks ==
    /\ voice.conn = "open" /\ voice.sent < MaxReplies /\ voice.reader # "ended"
    /\ "finished" \notin ToSet(voice.wire)
    /\ \E p \in Pieces :
        /\ p = "url" => voice.kind = "http"
        /\ p = "done" => voice.kind = "realtime"
        /\ Voice([voice EXCEPT !.wire = Append(@, p), !.sent = @ + 1,
                               !.deltas = IF p = "delta" THEN @ + 1 ELSE @])

VoiceBreaks == voice.conn = "open" /\ Voice([voice EXCEPT !.conn = "broken"])
VoiceCancelled == voice.ctx = "live" /\ Voice([voice EXCEPT !.ctx = "cancelled"])

\* config.Timeout bounds the stream of either kind.
VoiceTimesOut == voice.ctx = "live" /\ Voice([voice EXCEPT !.ctx = "timeout"])

-----------------------------------------------------------------------------
\* The synthesizer's stream.

\* The deferred part of run: without an error there has to be audio.
VoiceEnds(s) ==
    [s EXCEPT !.reader = "ended", !.conn = "closed",
              !.ctx = IF @ = "live" THEN "cancelled" ELSE @,
              !.err = @ \/ voice.ctx # "live" \/ s.made = 0]

\* One message of the service.  The body of a reply ends with "finished"; audio
\* that only has an address is fetched then.
ReadPiece ==
    /\ voice.reader = "reading" /\ voice.wire # <<>> /\ voice.conn # "closed"
    /\ LET s == [voice EXCEPT !.wire = Tail(@)]
           piece == Head(voice.wire)
       IN  CASE piece = "delta" -> Voice([s EXCEPT !.made = @ + 1, !.reader = "emitting"])
             [] piece = "url" -> Voice([s EXCEPT !.url = TRUE])
             [] piece = "done" ->
                  Voice(IF voice.conn = "open" THEN s ELSE VoiceEnds(SetError(s)))
             [] piece = "failed" -> Voice(VoiceEnds(SetError(s)))
             [] piece = "finished" ->
                  IF s.url /\ s.made = 0
                  THEN \/ Voice([s EXCEPT !.made = 1, !.reader = "emitting", !.wire = <<"finished">>])
                       \/ Voice(VoiceEnds(SetError(s)))    \* the download fails or is not allowed
                  ELSE Voice(VoiceEnds(s))

\* The channel has room, or the context ends while it has none.
EmitChunk ==
    /\ voice.reader = "emitting" /\ voice.chunks < ChunkRoom
    /\ Voice([voice EXCEPT !.chunks = @ + 1, !.reader = "reading"])
EmitCancelled ==
    /\ voice.reader = "emitting" /\ voice.ctx # "live"
    /\ Voice(VoiceEnds(voice))

\* A cancelled context closes the connection; a broken one is an error, also the
\* realtime service's silence beyond realtimeReadIdleTimeout.
ReadVoiceFails ==
    /\ voice.reader = "reading"
    /\ \/ voice.ctx # "live" \/ voice.conn = "closed"
       \/ voice.conn = "broken" /\ voice.wire = <<>>
       \/ voice.kind = "realtime" /\ voice.wire = <<>>
    /\ Voice(VoiceEnds(SetError(voice)))

\* The player takes a chunk, or none for ever.
TakeChunk == voice.chunks > 0 /\ Voice([voice EXCEPT !.chunks = @ - 1, !.played = @ + 1])

VoiceAnswer == IF voice.err THEN "error" ELSE "audio"

AskVoiceFinish == voice.finish = "none" /\ voice.close = "none" /\ Voice([voice EXCEPT !.finish = "waiting"])
VoiceFinishAnswers ==
    /\ voice.finish = "waiting" /\ voice.reader = "ended"
    /\ Voice([voice EXCEPT !.finish = "answered", !.answer = VoiceAnswer])
\* The caller's context ended first: the stream is cancelled and not waited for.
VoiceFinishCancelled ==
    /\ voice.finish = "waiting" /\ voice.ctx = "cancelled" /\ voice.reader # "ended"
    /\ Voice([voice EXCEPT !.finish = "answered", !.answer = "error"])

CloseVoice ==
    /\ voice.close = "none"
    /\ Voice([voice EXCEPT !.close = "waiting", !.ctx = IF @ = "live" THEN "cancelled" ELSE @])
VoiceClosed ==
    /\ voice.close = "waiting" /\ voice.reader = "ended"
    /\ Voice([voice EXCEPT !.close = "answered"])

VoiceStep ==
    ReadPiece \/ EmitChunk \/ EmitCancelled \/ ReadVoiceFails \/ VoiceFinishAnswers \/ VoiceClosed

-----------------------------------------------------------------------------
EarNext ==
    \/ EarStep
    \/ ServiceHears \/ EarBreaks \/ EarCancelled \/ TakeEvent \/ PushFails \/ AskFinish \/ CloseEar

VoiceNext ==
    \/ VoiceStep
    \/ ServiceSpeaks \/ VoiceBreaks \/ VoiceCancelled \/ VoiceTimesOut \/ TakeChunk
    \/ AskVoiceFinish \/ VoiceFinishCancelled \/ CloseVoice

\* Goroutines run and a deadline passes; services, consumers and callers may rest.
StreamsSpec ==
    /\ StreamsInit /\ [][EarNext \/ VoiceNext]_streamVars
    /\ WF_streamVars(EarStep) /\ WF_streamVars(VoiceStep) /\ WF_streamVars(VoiceTimesOut)

-----------------------------------------------------------------------------
\* A call of the recognizer is due: somebody ended the stream, or the service did.
EarDue ==
    /\ {"asked", "waiting", "cancelling"} \cap {ear.finish, ear.close} # {}
    /\ \/ ear.conn # "open" \/ ear.cancelled \/ ear.reader = "ended"
       \/ ToSet(ear.wire) \cap {"failed", "finished"} # {}
VoiceDue == "waiting" \in {voice.finish, voice.close}

\* An answer without an error has the final text, which its consumer is given too;
\* only a service, the network or somebody who ended the stream causes an error.
EarTruthful ==
    (ear.finish = "answered" /\ ~ear.excused) =>
        ear.answer = IF ear.finals = 0 THEN "empty" ELSE "text"
\* An answer without an error follows all audio the service sent.
VoiceTruthful ==
    voice.answer = "audio" => voice.played + voice.chunks = IF voice.deltas = 0 THEN 1 ELSE voice.deltas

\* Every Finish and Close is answered in the end, and truthfully, whether or not
\* anybody still reads the events or plays the chunks (asr/qwen provider.go:228,
\* 417 "keeps protocol reads independent from a slow Events consumer"; tts/qwen
\* provider.go:133 "one stalled provider response cannot occupy the session's serial
\* playback worker forever").
StreamsAnswer ==
    []<>(~EarDue /\ ~VoiceDue /\ EarTruthful /\ VoiceTruthful)
=============================================================================
