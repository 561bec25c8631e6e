---------------------------- MODULE Segmentation ----------------------------
(***************************************************************************)
(* The media loop of a session (segment.Service.Run): frames are cut into   *)
(* utterances by the voice activity detector, each utterance is streamed to *)
(* a turn while it is said, finished turns wait in a queue for the worker,  *)
(* and a wake word moves the utterance in flight to the command gate.  A    *)
(* frame is named by its capture time.                                      *)
(***************************************************************************)
EXTENDS Integers, Sequences, FiniteSets, SequencesExt

CONSTANTS
    SilenceAfter,    \* pause that ends an utterance, in frames
    Longest,         \* cut of a long utterance (watchdog, product limit); 0: none
    Padding,         \* quiet kept before speech
    QueueRoom,       \* finalizedEventQueueCapacity
    MaxFrames,       \* bound
    MaxWakes         \* bound: wake words

ASSUME SegmentationAssumption ==
    /\ {SilenceAfter, QueueRoom, MaxFrames} \subseteq Nat \ {0} /\ {Longest, Padding, MaxWakes} \subseteq Nat
    /\ Longest > 0 => SilenceAfter < Longest /\ Padding < Longest

VARIABLES
    captured,    \* frames read so far
    spoken,      \* those the classifier takes for speech
    segmenter,   \* vad.Segmenter
    events,      \* events of the current frame that the loop has yet to handle
    turns,       \* turns opened so far: their audio and where they are
    activeTurn,  \* the turn of the utterance in flight, or 0
    finals,      \* the queue of finished turns
    loop,        \* the media loop
    worker,      \* the turn the worker finishes, 0, or Gone
    window,      \* the command gate takes all frames
    commanded,   \* frames the gate was given
    lost,        \* frames of an utterance that has no turn
    aborted,     \* the session was stopped, or a turn failed for good
    wakes        \* wake words so far

segmentVars == <<captured, spoken, segmenter, events, turns, activeTurn, finals, loop, worker,
                 window, commanded, lost, aborted, wakes>>

Gone == -1
Idle == [active |-> FALSE, startedAt |-> 0, lastSpeech |-> 0, frames |-> <<>>, prefix |-> <<>>]

SegmentationTypeOK ==
    /\ captured \in 0 .. MaxFrames /\ spoken \subseteq 1 .. captured
    /\ segmenter \in [active : BOOLEAN, startedAt : 0 .. captured, lastSpeech : 0 .. captured,
                      frames : Seq(1 .. captured), prefix : Seq(1 .. captured)]
    /\ events \in Seq([type : {"opened", "audio", "final"}, frames : Seq(1 .. captured)])
    /\ turns \in Seq([audio : Seq(1 .. captured),
                      at : {"open", "queued", "finishing", "finished", "dropped", "closed"}])
    /\ activeTurn \in 0 .. Len(turns) /\ finals \in Seq(1 .. Len(turns)) /\ Len(finals) <= QueueRoom
    /\ loop \in {"reading", "flushed", "failed", "closed"} /\ worker \in Gone .. Len(turns)
    /\ window \in BOOLEAN /\ aborted \in BOOLEAN /\ wakes \in 0 .. MaxWakes
    /\ commanded \subseteq 1 .. captured /\ lost \subseteq 1 .. captured

SegmentationInit ==
    /\ captured = 0 /\ spoken = {} /\ segmenter = Idle /\ events = <<>>
    /\ turns = <<>> /\ activeTurn = 0 /\ finals = <<>> /\ loop = "reading" /\ worker = 0
    /\ window = FALSE /\ commanded = {} /\ lost = {} /\ aborted = FALSE /\ wakes = 0

-----------------------------------------------------------------------------
\* The segmenter.

Event(type, frames) == [type |-> type, frames |-> frames]
FinalEvent == Event("final", <<>>)

\* rememberPrefix keeps the frames from the first that is no older than the padding.
Remember(s, f) ==
    LET kept == Append(s.prefix, f)
        first == CHOOSE i \in DOMAIN kept :
                    kept[i] >= f - Padding /\ \A j \in 1 .. i - 1 : kept[j] < f - Padding
    IN  [s EXCEPT !.prefix = IF Padding = 0 THEN <<>> ELSE SubSeq(kept, first, Len(kept))]

StartUtterance(s, f) ==
    LET frames == Append(s.prefix, f)
    IN  [active |-> TRUE, startedAt |-> Head(frames), lastSpeech |-> f, frames |-> frames, prefix |-> <<>>]

TooLong(f) == segmenter.active /\ Longest > 0 /\ f - segmenter.startedAt >= Longest

\* Segmenter.Push: the next state, and the events for the loop.
Push(f, speech) ==
    LET s == segmenter
        longer == [s EXCEPT !.frames = Append(@, f)]
        opened(t) == <<Event("opened", t.prefix), Event("audio", <<f>>)>>
    IN  IF TooLong(f)
        THEN IF speech THEN [next |-> StartUtterance(Idle, f), events |-> <<FinalEvent>> \o opened(Idle)]
             ELSE [next |-> Remember(Idle, f), events |-> <<FinalEvent>>]
        ELSE IF speech
        THEN IF s.active
             THEN [next |-> [longer EXCEPT !.lastSpeech = f], events |-> <<Event("audio", <<f>>)>>]
             ELSE [next |-> StartUtterance(s, f), events |-> opened(s)]
        ELSE IF ~s.active THEN [next |-> Remember(s, f), events |-> <<>>]
        ELSE IF f - s.lastSpeech >= SilenceAfter THEN [next |-> Idle, events |-> <<FinalEvent>>]
        ELSE [next |-> longer, events |-> <<Event("audio", <<f>>)>>]

\* ClaimActiveUtterance and Flush: what is in flight, for the gate or for its turn.
Claimed == ToSet(segmenter.frames)
Flushed == IF segmenter.active THEN <<FinalEvent>> ELSE <<>>

-----------------------------------------------------------------------------
\* The media loop.

\* A frame goes to the gate while a command is spoken, otherwise to the segmenter.
ReadFrame(speech) ==
    /\ loop = "reading" /\ events = <<>> /\ captured < MaxFrames
    /\ LET f == captured + 1 IN
       /\ captured' = f
       /\ spoken' = IF speech THEN spoken \cup {f} ELSE spoken
       /\ IF window
          THEN commanded' = commanded \cup {f} /\ UNCHANGED <<segmenter, events>>
          ELSE /\ segmenter' = Push(f, speech).next /\ events' = Push(f, speech).events
               /\ UNCHANGED commanded
    /\ UNCHANGED <<turns, activeTurn, finals, loop, worker, window, lost, aborted, wakes>>

\* Bug: the turn of the utterance is left open.
LeaveTurn_Open(t) == turns' = turns /\ activeTurn' = t

\* The turn that has the utterance so far is closed.
LeaveTurn(t) ==
    /\ turns' = IF t = 0 THEN turns ELSE [turns EXCEPT ![t].at = "closed"]
    /\ activeTurn' = 0

\* A wake word is taken between two frames; a repeated one is refused by the gate
\* and changes nothing.  The whole utterance in flight is replayed to the gate.
OpenCommandWindow ==
    /\ loop = "reading" /\ events = <<>> /\ wakes < MaxWakes
    /\ wakes' = wakes + 1 /\ window' = TRUE
    /\ commanded' = commanded \cup Claimed
    /\ segmenter' = Idle
    /\ LeaveTurn(activeTurn)
    /\ UNCHANGED <<captured, spoken, events, finals, loop, worker, lost, aborted>>

\* The gate is done with a command (CommandGate has its inside).
CloseWindow ==
    /\ window /\ window' = FALSE
    /\ UNCHANGED <<captured, spoken, segmenter, events, turns, activeTurn, finals, loop, worker,
                   commanded, lost, aborted, wakes>>

\* The source ends: what is in flight is flushed.
EndOfStream ==
    /\ loop = "reading" /\ events = <<>>
    /\ loop' = "flushed"
    /\ events' = Flushed
    /\ segmenter' = Idle
    /\ UNCHANGED <<captured, spoken, turns, activeTurn, finals, worker, window, commanded, lost,
                   aborted, wakes>>

Current(type) == loop \in {"reading", "flushed"} /\ events # <<>> /\ Head(events).type = type

\* processStreamingEvent, opened: a turn is started and given the prefix.  A start
\* that is superseded, or a prefix that cannot be pushed, leaves the utterance
\* without a turn; another error ends the loop.
HandleOpened ==
    /\ Current("opened") /\ events' = Tail(events)
    /\ \E outcome \in {"started", "refused", "unpushed", "failed"} :
        /\ turns' = IF outcome \in {"refused", "failed"} THEN turns
                    ELSE Append(turns, [audio |-> Head(events).frames,
                                        at |-> IF outcome = "started" THEN "open" ELSE "dropped"])
        /\ activeTurn' = IF outcome = "started" THEN Len(turns) + 1 ELSE 0
        /\ loop' = IF outcome = "failed" THEN "failed" ELSE loop
        /\ aborted' = (aborted \/ outcome = "failed")
    /\ UNCHANGED <<captured, spoken, segmenter, finals, worker, window, commanded, lost, wakes>>

HandleAudio ==
    /\ Current("audio") /\ events' = Tail(events)
    /\ LET frames == Head(events).frames IN
       IF activeTurn = 0
       THEN lost' = lost \cup ToSet(frames) /\ UNCHANGED <<turns, activeTurn>>
       ELSE \/ /\ turns' = [turns EXCEPT ![activeTurn].audio = @ \o frames]
               /\ UNCHANGED <<activeTurn, lost>>
            \/ /\ turns' = [turns EXCEPT ![activeTurn].at = "dropped"]
               /\ activeTurn' = 0 /\ lost' = lost \cup ToSet(frames)
    /\ UNCHANGED <<captured, spoken, segmenter, finals, loop, worker, window, commanded, aborted, wakes>>

\* A finished utterance waits for room in the queue; when the session is stopped
\* meanwhile, it may be left behind.
HandleFinal ==
    /\ Current("final")
    /\ IF activeTurn = 0
       THEN events' = Tail(events) /\ UNCHANGED <<turns, activeTurn, finals, loop>>
       ELSE /\ activeTurn' = 0
            /\ \/ /\ Len(finals) < QueueRoom
                  /\ finals' = Append(finals, activeTurn)
                  /\ turns' = [turns EXCEPT ![activeTurn].at = "queued"]
                  /\ events' = Tail(events) /\ UNCHANGED loop
               \/ aborted /\ loop' = "failed" /\ events' = <<>> /\ UNCHANGED <<turns, finals>>
    /\ UNCHANGED <<captured, spoken, segmenter, worker, window, commanded, lost, aborted, wakes>>

\* The session is stopped.
Abort ==
    /\ ~aborted /\ loop # "closed" /\ aborted' = TRUE
    /\ UNCHANGED <<captured, spoken, segmenter, events, turns, activeTurn, finals, loop, worker,
                   window, commanded, lost, wakes>>

\* A read fails once the session is stopped, or for good.
ReadStops ==
    /\ loop = "reading" /\ events = <<>>
    /\ loop' = "failed" /\ aborted' = TRUE
    /\ UNCHANGED <<captured, spoken, segmenter, events, turns, activeTurn, finals, worker, window,
                   commanded, lost, wakes>>

\* Behind the loop the turn in flight is closed, then the queue.
CloseLoop ==
    /\ loop = "failed" \/ (loop = "flushed" /\ events = <<>>)
    /\ loop' = "closed" /\ events' = <<>>
    /\ LeaveTurn(activeTurn)
    /\ window' = FALSE
    /\ UNCHANGED <<captured, spoken, segmenter, finals, worker, commanded, lost, aborted, wakes>>

-----------------------------------------------------------------------------
\* The worker.

TakeFinal ==
    /\ worker = 0 /\ finals # <<>>
    /\ worker' = Head(finals) /\ finals' = Tail(finals)
    /\ turns' = [turns EXCEPT ![Head(finals)].at = "finishing"]
    /\ UNCHANGED <<captured, spoken, segmenter, events, activeTurn, loop, window, commanded, lost,
                   aborted, wakes>>

\* FinishStreaming and Close.  A turn that was superseded, has no supported
\* language or failed after its commit is only logged; another error, also that
\* of a stopped session, ends the worker and stops the loop.
FinishTurn ==
    /\ worker > 0
    /\ \/ /\ ~aborted /\ worker' = 0
          /\ \E at \in {"finished", "dropped"} : turns' = [turns EXCEPT ![worker].at = at]
          /\ UNCHANGED aborted
       \/ /\ worker' = Gone /\ aborted' = TRUE
          /\ turns' = [turns EXCEPT ![worker].at = "dropped"]
    /\ UNCHANGED <<captured, spoken, segmenter, events, activeTurn, finals, loop, window, commanded,
                   lost, wakes>>

WorkerEnds ==
    /\ worker = 0 /\ loop = "closed" /\ finals = <<>>
    /\ worker' = Gone
    /\ UNCHANGED <<captured, spoken, segmenter, events, turns, activeTurn, finals, loop, window,
                   commanded, lost, aborted, wakes>>

SegmentationNext ==
    \/ \E speech \in BOOLEAN : ReadFrame(speech)
    \/ OpenCommandWindow \/ CloseWindow \/ EndOfStream
    \/ HandleOpened \/ HandleAudio \/ HandleFinal
    \/ Abort \/ ReadStops \/ CloseLoop
    \/ TakeFinal \/ FinishTurn \/ WorkerEnds

SegmentationSpec == SegmentationInit /\ [][SegmentationNext]_segmentVars

-----------------------------------------------------------------------------
Hearing(f, places) == {t \in DOMAIN turns : turns[t].at \in places /\ f \in ToSet(turns[t].audio)}
Waiting(f) == \E k \in DOMAIN events : f \in ToSet(events[k].frames)

\* What is said reaches one listener: a turn that is not given up, or the command
\* gate after a wake word.  It is missed only with an utterance whose turn could
\* not be started or failed, and while the session is being stopped.
OneListener ==
    \A f \in spoken :
        LET heard == Hearing(f, {"open", "queued", "finishing", "finished"})
        IN  /\ Cardinality(heard) + (IF f \in commanded THEN 1 ELSE 0) <= 1
            /\ \/ heard # {} \/ f \in commanded \/ f \in lost \/ Hearing(f, {"dropped"}) # {}
               \/ Waiting(f) \/ aborted

\* The audio of a turn has no gap and no frame twice.
Gapless == \A t \in DOMAIN turns : LET a == turns[t].audio IN \A k \in 2 .. Len(a) : a[k] = a[k - 1] + 1

\* When Run returns without an error every turn was finished or closed.
NothingLeft == (worker = Gone /\ ~aborted) => \A t \in DOMAIN turns : turns[t].at \in {"finished", "dropped", "closed"}

\* What is said reaches exactly one listener, whole and in order, wherever wake
\* words, cuts and failures fall (segment/service.go:195 "allowing command audio to
\* leak into a normal Turn", 392; vad/segmenter.go:72, 139), and is heard to its end.
SpeechHeardOnce == OneListener /\ Gapless /\ NothingLeft
=============================================================================
