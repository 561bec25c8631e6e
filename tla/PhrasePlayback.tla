--------------------------- MODULE PhrasePlayback ---------------------------
(* The spoken side of interpretation for one voice session: the scheduler that *)
(* queues translated phrases, the speech output that synthesizes one playback, *)
(* and the playback service that owns the single downlink track.  The phrase   *)
(* worker and a durable fallback replay share that track; a wake word, a mode  *)
(* switch and a session stop cut into both of them.                            *)
(*                                                                             *)
(* Left out: the text of a phrase (whether two queued chunks fit one segment   *)
(* is a free choice), the playback ids that make an enqueue idempotent (every  *)
(* producer offers a phrase once), the bounded memory of retired utterances,   *)
(* and a session opened again after Stop.                                      *)
EXTENDS Integers, Sequences, SequencesExt, FiniteSets

CONSTANTS Utterances, \* the turns whose phrases are spoken
          Brief,      \* those among them that offer one phrase only
          MaxPhrases, \* phrases every other utterance offers, in order
          MaxQueue,   \* maxPhrasePlaybackQueue
          MaxChunks,  \* audio chunks of one synthesized playback
          MaxPlayFaults,  \* provider or transport failures
          MaxCuts     \* wake words, mode switches and stops

ASSUME PlaybackAssumption ==
    /\ IsFiniteSet(Utterances) /\ "none" \notin Utterances /\ Brief \subseteq Utterances
    /\ MaxPhrases \in Nat \ {0} /\ MaxQueue \in Nat \ {0} /\ MaxChunks \in Nat \ {0}
    /\ MaxPlayFaults \in Nat /\ MaxCuts \in Nat

MaxTries == 2   \* maxPhrasePlaybackAttempts

LastPhrase(u) == IF u \in Brief THEN 1 ELSE MaxPhrases

Players == {"phrase", "fallback"}
Cutters == {"wake", "mode"}
Kinds == {"none", "finished", "interrupted", "cancelled"}

VARIABLES
    sched,     \* [gen, barrier, closed, queue, active] of the session
    utterance, \* utterance -> [known, final, superseded, mode, next, waiting]
    speech,    \* player -> one SpeechOutput.Play
    track,     \* [id, playing, pending, lock, reserved] of the playback service
    cutter,    \* who interrupts: [at, id, again]
    mode,      \* generation of the runtime mode
    playFaults,
    cuts,
    heard,     \* utterance -> first phrase of its task heard last
    after      \* utterance -> chunks written since it was cut off, or -1

playbackVars == <<sched, utterance, speech, track, cutter, mode, playFaults, cuts, heard, after>>

NoTask == [u |-> "none", phrases |-> <<>>, gen |-> 0, tries |-> 0, cancelled |-> FALSE]
NoId == <<"none", 0, 0>>
Resting == [at |-> "none", id |-> NoId, dead |-> FALSE, chunks |-> 0, played |-> FALSE]

PlaybackInit ==
    /\ sched = [gen |-> 1, barrier |-> "none", closed |-> FALSE, queue |-> <<>>,
                active |-> NoTask]
    /\ utterance = [u \in Utterances |->
          [known |-> FALSE, final |-> FALSE, superseded |-> FALSE, mode |-> 0, next |-> 1, waiting |-> 0]]
    /\ speech = [p \in Players |-> Resting]
    /\ track = [id |-> NoId, playing |-> FALSE, pending |-> "none", lock |-> "none", reserved |-> NoId]
    /\ cutter = [c \in Cutters |-> [at |-> "none", id |-> NoId, again |-> FALSE]]
    /\ mode = 1 /\ playFaults = 0 /\ cuts = 0
    /\ heard = [u \in Utterances |-> 0]
    /\ after = [u \in Utterances |-> -1]

PlayFault == playFaults < MaxPlayFaults /\ playFaults' = playFaults + 1
NoFault == playFaults' = playFaults

-----------------------------------------------------------------------------
(* The producers: the phrase coordinator and the final settlement.             *)

\* StartPhraseSubtitleTurn opens an utterance; it lifts the session's barrier.
ResetUtterance(u) ==
    /\ utterance[u].mode = 0 /\ ~sched.closed
    /\ sched' = [sched EXCEPT !.barrier = "none"]
    /\ utterance' = [utterance EXCEPT ![u].known = TRUE, ![u].mode = mode]
    /\ UNCHANGED <<speech, track, cutter, mode, playFaults, cuts, heard, after>>

\* A phrase of the final settlement may open an utterance nobody reset.
Refused(u, final) ==
    \/ sched.barrier # "none" \/ sched.closed
    \/ utterance[u].waiting \notin {0, sched.gen}
    \/ utterance[u].superseded \/ utterance[u].final
    \/ (~utterance[u].known /\ ~final)

\* Only the queued tail is merged, and never with a final chunk; whether the two
\* texts fit one segment, or come from one source phrase, is left open.
Mergeable(u, final) ==
    /\ sched.queue # <<>> /\ ~final
    /\ Last(sched.queue).u = u /\ Last(sched.queue).gen = sched.gen

Offer(u, n, final) ==
    utterance' = [utterance EXCEPT ![u].next = n + 1, ![u].waiting = 0,
                                   ![u].known = TRUE, ![u].final = final]

\* EnqueueWithReason, by the coordinator (final = FALSE) or the settlement.
Enqueue(u) ==
    LET n == utterance[u].next
        final == n = LastPhrase(u)
        full == Len(sched.queue) >= MaxQueue
    IN
    /\ n <= LastPhrase(u) /\ utterance[u].mode # 0
    /\ \/ /\ Refused(u, final)
          /\ utterance' = [utterance EXCEPT ![u].next = n + 1, ![u].waiting = 0]
          /\ UNCHANGED sched
       \/ /\ ~Refused(u, final) /\ Mergeable(u, final)
          /\ sched' = [sched EXCEPT !.queue[Len(sched.queue)].phrases = Append(@, n)]
          /\ Offer(u, n, final)
       \/ /\ ~Refused(u, final) /\ ~full
          /\ sched' = [sched EXCEPT !.queue =
                Append(@, [NoTask EXCEPT !.u = u, !.phrases = <<n>>, !.gen = sched.gen])]
          /\ Offer(u, n, final)
       \/ /\ ~Refused(u, final) /\ full /\ utterance[u].waiting = 0
          /\ utterance' = [utterance EXCEPT ![u].waiting = sched.gen]
          /\ UNCHANGED sched
    /\ UNCHANGED <<speech, track, cutter, mode, playFaults, cuts, heard, after>>

-----------------------------------------------------------------------------
(* The session worker.                                                         *)

Started(id) == [Resting EXCEPT !.at = "wait", !.id = id]

\* runSession takes the head of the queue; a stale generation is dropped.
PopTask ==
    LET task == Head(sched.queue) IN
    /\ ~sched.closed /\ sched.queue # <<>> /\ sched.active = NoTask
    /\ IF task.gen # sched.gen
       THEN /\ sched' = [sched EXCEPT !.queue = Tail(@)]
            /\ UNCHANGED speech
       ELSE /\ sched' = [sched EXCEPT !.queue = Tail(@), !.active = [task EXCEPT !.tries = @ + 1]]
            /\ speech' = [speech EXCEPT !["phrase"] = Started(<<task.u, Head(task.phrases), task.tries>>)]
    /\ UNCHANGED <<utterance, track, cutter, mode, playFaults, cuts, heard, after>>

\* Bug: a failed task is retried although its generation was superseded.
CanRetry_AnyGeneration(task) ==
    /\ speech["phrase"].at = "failed" /\ task.tries < MaxTries
    /\ ~sched.closed

CanRetry(task) ==
    /\ speech["phrase"].at = "failed" /\ task.tries < MaxTries
    /\ ~task.cancelled /\ ~sched.closed /\ task.gen = sched.gen

\* Bug: a retried task goes behind the phrases that were queued meanwhile.
Requeued_Last(task) == Append(sched.queue, task)

\* A retry keeps its place in front of the session's queue.
Requeued(task) == <<task>> \o sched.queue

FinishTask ==
    /\ sched.active # NoTask /\ speech["phrase"].at \in {"played", "failed"}
    /\ sched' = [sched EXCEPT !.active = NoTask,
                    !.queue = IF CanRetry(sched.active) THEN Requeued(sched.active) ELSE @]
    /\ speech' = [speech EXCEPT !["phrase"] = Resting]
    /\ UNCHANGED <<utterance, track, cutter, mode, playFaults, cuts, heard, after>>

\* PlayFallback speaks one persisted translation outside the scheduler.
StartFallback ==
    /\ speech["fallback"].at = "none" /\ ~sched.closed
    /\ speech' = [speech EXCEPT !["fallback"] = Started(<<"fallback", 0, 0>>)]
    /\ UNCHANGED <<sched, utterance, track, cutter, mode, playFaults, cuts, heard, after>>

-----------------------------------------------------------------------------
(* SpeechOutput.Play and the playback service.                                 *)

CurrentPlayback(p) == track.id = speech[p].id
Go(p, at) == speech' = [speech EXCEPT ![p] =
    IF at \in {"played", "failed"} THEN [Resting EXCEPT !.at = at] ELSE [@ EXCEPT !.at = at]]
Free(p) == track' = [track EXCEPT !.reserved = IF @ = speech[p].id THEN NoId ELSE @]

\* WaitForAvailable: one playback at a time, the next one holds a reservation.
Busy(p) ==
    \/ track.playing /\ ~CurrentPlayback(p)
    \/ track.reserved \notin {NoId, speech[p].id}

WaitForAvailable(p) ==
    /\ speech[p].at = "wait"
    /\ \/ speech[p].dead /\ Go(p, "failed") /\ UNCHANGED track
       \/ /\ ~speech[p].dead /\ ~Busy(p)
          /\ track' = [track EXCEPT !.reserved = speech[p].id]
          /\ Go(p, "synth")
    /\ UNCHANGED <<sched, utterance, cutter, mode, playFaults, cuts, heard, after>>

\* StartStream; a synthesis that never starts gives its reservation back.
StartStream(p) ==
    /\ speech[p].at = "synth"
    /\ \/ Go(p, "chunks") /\ NoFault /\ UNCHANGED track
       \/ Go(p, "failed") /\ PlayFault /\ Free(p)
       \/ speech[p].dead /\ Go(p, "failed") /\ NoFault /\ Free(p)
    /\ UNCHANGED <<sched, utterance, cutter, mode, cuts, heard, after>>

\* publishChunks takes a chunk although the context may be done already; then
\* the reservation is kept although nothing was published.
TakeChunk(p) ==
    /\ speech[p].at = "chunks" /\ speech[p].chunks < MaxChunks
    /\ IF speech[p].dead \/ track.reserved \notin {NoId, speech[p].id}
          \/ (CurrentPlayback(p) /\ ~track.playing) \/ (track.playing /\ ~CurrentPlayback(p))
       THEN /\ speech' = [speech EXCEPT ![p].at = "cancel", ![p].played = TRUE]
            /\ UNCHANGED track
       ELSE /\ speech' = [speech EXCEPT ![p].at = "write", ![p].played = TRUE]
            /\ track' = IF track.playing THEN track
                        ELSE [track EXCEPT !.id = speech[p].id, !.playing = TRUE, !.reserved = NoId]
    /\ UNCHANGED <<sched, utterance, cutter, mode, playFaults, cuts, heard, after>>

\* Publish under opMu; a transport that sees the cancelled context fails.
WriteChunk(p) ==
    LET u == sched.active.u IN
    /\ speech[p].at = "write" /\ track.lock = "none"
    /\ \/ /\ CurrentPlayback(p) /\ track.playing /\ track.pending = "none"
          /\ speech' = [speech EXCEPT ![p].at = "chunks", ![p].chunks = @ + 1]
          /\ NoFault
          /\ IF p = "phrase"
             THEN /\ heard' = [heard EXCEPT ![u] = Head(sched.active.phrases)]
                  /\ after' = [after EXCEPT ![u] = IF @ = -1 THEN -1 ELSE @ + 1]
             ELSE UNCHANGED <<heard, after>>
       \/ /\ \/ ~CurrentPlayback(p) \/ ~track.playing \/ track.pending # "none" \/ speech[p].dead
          /\ Go(p, "cancel") /\ NoFault /\ UNCHANGED <<heard, after>>
       \/ Go(p, "cancel") /\ PlayFault /\ UNCHANGED <<heard, after>>
    /\ UNCHANGED <<sched, utterance, track, cutter, mode, cuts>>

\* The stream ends, breaks, or the context is done.
EndStream(p) ==
    LET broken == IF speech[p].played THEN "cancel" ELSE "failed" IN
    /\ speech[p].at = "chunks"
    /\ \/ Go(p, IF speech[p].played THEN "complete" ELSE "played") /\ NoFault
       \/ Go(p, broken) /\ PlayFault
       \/ speech[p].dead /\ Go(p, broken) /\ NoFault
    /\ IF speech[p].played THEN UNCHANGED track ELSE Free(p)
    /\ UNCHANGED <<sched, utterance, cutter, mode, cuts, heard, after>>

\* settle: only the current playback, and only with the settlement that is
\* already pending, if one is.
CanSettle(id, kind) ==
    /\ track.id = id
    /\ track.pending \in {"none", kind}
    /\ track.pending = "none" => track.playing

Settled == [track EXCEPT !.playing = FALSE, !.pending = "none", !.lock = "none"]

\* Complete notes the settlement and drains the track, holding opMu.
BeginComplete(p) ==
    /\ speech[p].at = "complete"
    /\ \/ /\ speech[p].dead
          /\ Go(p, "failed") /\ UNCHANGED track
       \/ /\ ~speech[p].dead /\ track.lock = "none"
          /\ IF CanSettle(speech[p].id, "finished")
             THEN /\ track' = [track EXCEPT !.pending = "finished", !.lock = p]
                  /\ Go(p, "drain")
             ELSE /\ Go(p, IF CurrentPlayback(p) /\ track.pending = "none" THEN "played" ELSE "failed")
                  /\ UNCHANGED track
    /\ UNCHANGED <<sched, utterance, cutter, mode, playFaults, cuts, heard, after>>

\* A drain or terminal event that fails leaves the settlement pending.
EndComplete(p) ==
    /\ speech[p].at = "drain"
    /\ \/ Go(p, "played") /\ NoFault /\ track' = Settled
       \/ Go(p, "failed") /\ PlayFault /\ track' = [track EXCEPT !.lock = "none"]
       \/ speech[p].dead /\ Go(p, "failed") /\ NoFault /\ track' = [track EXCEPT !.lock = "none"]
    /\ UNCHANGED <<sched, utterance, cutter, mode, cuts, heard, after>>

\* One settlement that stops the track: its event may not be published.
Stopping(id, kind) ==
    \/ ~CanSettle(id, kind) /\ NoFault /\ UNCHANGED track
    \/ CanSettle(id, kind) /\ NoFault /\ track' = Settled
    \/ CanSettle(id, kind) /\ PlayFault /\ track' = [track EXCEPT !.pending = kind]

\* cancelPlayback runs with a context that outlives the cancelled request.
CancelPlayback(p) ==
    /\ speech[p].at = "cancel" /\ track.lock = "none"
    /\ Stopping(speech[p].id, "cancelled")
    /\ Go(p, "failed")
    /\ UNCHANGED <<sched, utterance, cutter, mode, cuts, heard, after>>

-----------------------------------------------------------------------------
(* Whoever cuts in.                                                            *)

Cut == cuts < MaxCuts /\ cuts' = cuts + 1
Mark(us) == after' = [u \in Utterances |-> IF u \in us /\ after[u] = -1 THEN 0 ELSE after[u]]
Kill == speech' = [speech EXCEPT !["phrase"].dead = @ \/ sched.active # NoTask]

Superseded(us) ==
    [u \in Utterances |-> IF u \in us THEN [utterance[u] EXCEPT !.superseded = TRUE] ELSE utterance[u]]

\* A new generation with an empty queue, behind a barrier; "closed" is not weakened.
Barred(reason) ==
    [sched EXCEPT !.gen = @ + 1, !.queue = <<>>, !.barrier = IF @ = "closed" THEN @ ELSE reason]

\* A wake word: InterruptCurrent under the scheduler's lock.
WakeWord ==
    LET known == {u \in Utterances : utterance[u].known} IN
    /\ cutter["wake"].at = "none" /\ Cut /\ ~sched.closed
    /\ sched' = Barred("superseded")
    /\ utterance' = [u \in Utterances |-> [Superseded(known)[u] EXCEPT !.known = FALSE]]
    /\ Kill /\ Mark(known)
    /\ cutter' = [cutter EXCEPT !["wake"] = [at |-> "read", id |-> NoId, again |-> TRUE]]
    /\ UNCHANGED <<track, mode, playFaults, heard>>

\* The playback service's InterruptCurrent, once for the scheduler and once for
\* the sink: it reads the playing id and settles that id afterwards.
ReadCurrent ==
    /\ cutter["wake"].at = "read"
    /\ cutter' = [cutter EXCEPT !["wake"].at = IF track.playing THEN "settle" ELSE "none",
                                !["wake"].id = IF track.playing THEN track.id ELSE NoId]
    /\ UNCHANGED <<sched, utterance, speech, track, mode, playFaults, cuts, heard, after>>

\* The owner of the track is captured before the mode switch commits.
BeginModeSwitch ==
    /\ cutter["mode"].at = "none" /\ mode = 1 /\ Cut /\ ~sched.closed
    /\ cutter' = [cutter EXCEPT !["mode"] =
          [at |-> "switch", id |-> IF track.playing THEN track.id ELSE NoId, again |-> TRUE]]
    /\ UNCHANGED <<sched, utterance, speech, track, mode, playFaults, heard, after>>

CommitModeSwitch ==
    /\ cutter["mode"].at = "switch"
    /\ mode' = 2
    /\ cutter' = [cutter EXCEPT !["mode"].at = "drop"]
    /\ UNCHANGED <<sched, utterance, speech, track, playFaults, cuts, heard, after>>

\* The tasks of a queue that are not of the utterances us, in their order: a
\* recursive function, which proofs can expand where SelectSeq is opaque to them.
Without(queue, us) ==
    LET kept[n \in 0 .. Len(queue)] ==
          IF n = 0 THEN <<>>
          ELSE IF queue[n].u \in us THEN kept[n - 1] ELSE Append(kept[n - 1], queue[n])
    IN kept[Len(queue)]

\* interruptModeGenerationLocked: queued and active work of the old mode.
DropOldMode ==
    LET old == {t.u : t \in {t \in (ToSet(sched.queue) \cup {sched.active}) \ {NoTask} :
                                 utterance[t.u].mode < mode}}
        active == sched.active.u \in old
    IN
    /\ cutter["mode"].at = "drop"
    /\ sched' = [sched EXCEPT !.queue = Without(@, old),
                              !.active.cancelled = @ \/ active]
    /\ utterance' = Superseded(old)
    /\ IF active THEN Kill ELSE UNCHANGED speech
    /\ Mark(old)
    /\ cutter' = [cutter EXCEPT !["mode"].at = IF cutter["mode"].id = NoId THEN "none" ELSE "settle"]
    /\ UNCHANGED <<track, mode, playFaults, cuts, heard>>

\* Interrupt of the id that was read or captured.
Interrupt(c) ==
    LET next == IF ~cutter[c].again THEN "none"
                ELSE IF c = "wake" THEN "read" ELSE "settle" IN
    /\ cutter[c].at = "settle" /\ track.lock = "none"
    /\ Stopping(cutter[c].id, "interrupted")
    /\ cutter' = [cutter EXCEPT ![c] = IF next = "none" THEN [at |-> "none", id |-> NoId, again |-> FALSE]
                                          ELSE [@ EXCEPT !.at = next, !.again = FALSE]]
    /\ UNCHANGED <<sched, utterance, speech, mode, cuts, heard, after>>

\* Stop is terminal for the session.
StopSession ==
    /\ ~sched.closed /\ Cut
    /\ sched' = [Barred("closed") EXCEPT !.closed = TRUE]
    /\ Kill /\ Mark({u \in Utterances : utterance[u].mode # 0})
    /\ UNCHANGED <<utterance, track, cutter, mode, playFaults, heard>>

-----------------------------------------------------------------------------
SpeechNext(p) ==
    \/ WaitForAvailable(p) \/ StartStream(p) \/ TakeChunk(p) \/ WriteChunk(p)
    \/ EndStream(p) \/ BeginComplete(p) \/ EndComplete(p) \/ CancelPlayback(p)

PlaybackNext ==
    \/ \E u \in Utterances : ResetUtterance(u) \/ Enqueue(u)
    \/ PopTask \/ FinishTask \/ StartFallback
    \/ \E p \in Players : SpeechNext(p)
    \/ WakeWord \/ ReadCurrent
    \/ BeginModeSwitch \/ CommitModeSwitch \/ DropOldMode
    \/ \E c \in Cutters : Interrupt(c)
    \/ StopSession

\* Goroutines run, providers and transports answer: everything the process
\* does by itself is scheduled; nobody has to open, offer, play or cut.
PlaybackFairness ==
    /\ WF_playbackVars(PopTask) /\ WF_playbackVars(FinishTask)
    /\ \A p \in Players : WF_playbackVars(SpeechNext(p))
    /\ WF_playbackVars(ReadCurrent)
    /\ WF_playbackVars(CommitModeSwitch) /\ WF_playbackVars(DropOldMode)
    /\ \A c \in Cutters : WF_playbackVars(Interrupt(c))

PlaybackSpec == PlaybackInit /\ [][PlaybackNext]_playbackVars /\ PlaybackFairness

-----------------------------------------------------------------------------
(* An utterance cut off by a wake word, a mode switch or a stop is not heard    *)
(* again, except for the chunk that was on its way to the track at that moment *)
(* (phrase_playback.go:408-475, 477-500, runSession's canRetry at 665): neither *)
(* a retry, nor a producer that waited for room, nor a merged chunk revives it. *)
SilentAfterInterrupt == \A u \in Utterances : after[u] <= 1

(* The phrases of an utterance are heard in the order they were translated,    *)
(* also when a failed one is synthesized again while later ones are queued     *)
(* (phrase_playback.go:661-695).                                               *)
PhrasesInOrder == [][\A u \in Utterances : heard'[u] >= heard[u]]_playbackVars

(* Every phrase the scheduler accepted is played, fails or is cancelled, so    *)
(* the session's queue drains (phrase_playback.go:297-306, service.go:144).    *)
PhrasesSettle ==
    (sched.queue # <<>> \/ sched.active # NoTask) ~> (sched.queue = <<>> /\ sched.active = NoTask)
=============================================================================
