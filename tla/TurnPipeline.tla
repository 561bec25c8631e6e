---------------------------- MODULE TurnPipeline ----------------------------
(* One voice session's interpretation turns, from the speech the segmenter     *)
(* hands over to the committed FinalTurn: phrases are translated and spoken    *)
(* while the turn is still open, the process's settlement worker translates    *)
(* and speaks what is left, bills the provider calls and commits the turn.     *)
(*                                                                             *)
(* A turn says segments 1, 2, ...; a stable phrase is one segment and its      *)
(* translation is spoken in Pieces.  Left out: the texts (whether the final    *)
(* text still contains the phrases is a free choice), the best-effort subtitle *)
(* events, process shutdown, and the other turn handler (the assistant).       *)
EXTENDS Integers, Sequences, SequencesExt, FiniteSets, FiniteSetsExt

CONSTANTS MaxTurns,    \* turns of the session
          MaxSegments, \* segments of a turn
          Scripts,     \* what may be said: the number of segments turn by turn
          Pieces,      \* chunks one translation is split into for speech
          Capacity,    \* finalSettlementQueueCapacity
          MaxErrors,   \* failures of providers and stores, revised texts, mode switches
          MaxRefusals  \* speech refused by the playback scheduler

ASSUME TurnsAssumption ==
    /\ MaxTurns \in Nat /\ MaxSegments \in Nat \ {0} /\ Pieces \in Nat \ {0}
    /\ Scripts \subseteq Seq(Nat)
    /\ \A said \in Scripts : Len(said) <= MaxTurns /\ \A i \in DOMAIN said : said[i] <= MaxSegments
    /\ Capacity \in Nat \ {0} /\ MaxErrors \in Nat /\ MaxRefusals \in Nat

TurnIds == 1 .. MaxTurns
Segments == 1 .. MaxSegments

\* Provider calls of a turn: phrase n is call n, the residual from segment n on
\* is call -n, the whole text is call 0.
Whole == 0

VARIABLES
    script,    \* the member of Scripts this session says
    talk,      \* turn -> its AudioTurn, settlement and results
    phrase,    \* turn -> segment -> [at, ok] of the translated phrase
    bill,      \* turn -> [spent, merged, owed, billed, twice] sets of calls
    capture,   \* the turn receiving audio, or 0
    finals,    \* VAD finals waiting for the segment worker
    settling,  \* final settlements accepted by the queue
    busy,      \* the turn the settlement worker handles, or 0
    loop,      \* "running" | "eof" | "cancelled" | "gone" media loop of the runtime
    worker,    \* the segment worker, which ends at the first fatal error
    epoch,     \* generation of the runtime mode
    mishaps,
    refusals

turnVars == <<script, talk, phrase, bill, capture, finals, settling, busy, loop, worker, epoch, mishaps, refusals>>

NoPhrase == [at |-> "none", ok |-> FALSE]

TurnsInit ==
    /\ script \in Scripts
    /\ talk = [t \in TurnIds |->
          [at |-> "new", end |-> "none", epoch |-> 0, said |-> 0, taken |-> 0, late |-> {},
           attached |-> FALSE, next |-> 1, failed |-> FALSE, left |-> {}, todo |-> {},
           rest |-> {}, wait |-> {}, spoken |-> <<>>,
           revised |-> FALSE, overtaken |-> FALSE, aloud |-> TRUE, dropped |-> FALSE]]
    /\ phrase = [t \in TurnIds |-> [n \in Segments |-> NoPhrase]]
    /\ bill = [t \in TurnIds |-> [spent |-> {}, merged |-> {}, owed |-> {}, billed |-> {}, twice |-> {}]]
    /\ capture = 0 /\ finals = <<>> /\ settling = <<>> /\ busy = 0
    /\ loop = "running" /\ worker = "alive" /\ epoch = 1 /\ mishaps = 0 /\ refusals = 0

Mishap == mishaps < MaxErrors /\ mishaps' = mishaps + 1
Well == mishaps' = mishaps
Unrefused == refusals' = refusals

PiecesOf(n) == (n - 1) * Pieces + 1 .. n * Pieces
SegmentOf(p) == (p - 1) \div Pieces + 1
\* The pieces of a set in the order of the text.
Ordered(ps) == [i \in 1 .. Cardinality(ps) |-> CHOOSE x \in ps : Cardinality({y \in ps : y <= x}) = i]

\* Publish(fact): the calls it covers are billed.
Charge(b, calls) == [b EXCEPT !.twice = @ \cup (calls \cap b.billed), !.billed = @ \cup calls,
                              !.merged = {}, !.owed = @ \ calls]

-----------------------------------------------------------------------------
(* The media loop and the phrase stabilizer.                                   *)

Attached(t) == talk[t].attached

\* StartAudio: without a route for the spoken language no phrase is translated.
StartAudio(t) ==
    /\ loop = "running" /\ capture = 0 /\ t <= Len(script) /\ talk[t].at = "new"
    /\ t > 1 => talk[t - 1].at # "new"
    /\ \E route \in BOOLEAN :
          talk' = [talk EXCEPT ![t].at = "open", ![t].epoch = epoch, ![t].attached = route]
    /\ capture' = t
    /\ UNCHANGED <<script, phrase, bill, finals, settling, busy, loop, worker, epoch, mishaps, refusals>>

Say(t) ==
    /\ capture = t /\ talk[t].said < script[t]
    /\ talk' = [talk EXCEPT ![t].said = @ + 1]
    /\ UNCHANGED <<script, phrase, bill, capture, finals, settling, busy, loop, worker, epoch, mishaps, refusals>>

\* ObservePhraseSubtitle: a provider call starts for every live phrase.
Stable(t, n, at) ==
    phrase' = IF Attached(t) /\ phrase[t][n] = NoPhrase
              THEN [phrase EXCEPT ![t][n].at = at] ELSE phrase

\* A partial completes a phrase; the ASR dispatcher publishes it at once.
ObservePhrase(t) ==
    LET n == talk[t].taken + 1 IN
    /\ talk[t].at \in {"open", "final"} /\ n <= talk[t].said
    /\ talk' = [talk EXCEPT ![t].taken = n]
    /\ Stable(t, n, "calling")
    /\ UNCHANGED <<script, bill, capture, finals, settling, busy, loop, worker, epoch, mishaps, refusals>>

\* The stability timer takes a phrase under the lock and publishes it later.
TimerTakes(t) ==
    LET n == talk[t].taken + 1 IN
    /\ talk[t].at \in {"open", "final"} /\ n <= talk[t].said
    /\ talk' = [talk EXCEPT ![t].taken = n, ![t].late = @ \cup {n}]
    /\ UNCHANGED <<script, phrase, bill, capture, finals, settling, busy, loop, worker, epoch, mishaps, refusals>>

TimerPublishes(t) ==
    \E n \in talk[t].late :
        /\ talk' = [talk EXCEPT ![t].late = @ \ {n}]
        /\ Stable(t, n, "calling")
        /\ UNCHANGED <<script, bill, capture, finals, settling, busy, loop, worker, epoch, mishaps, refusals>>

\* VAD final: the turn goes to the segment worker, the loop goes on.
EndSpeech(t) ==
    /\ capture = t /\ talk[t].said > 0
    /\ talk' = [talk EXCEPT ![t].at = "final"]
    /\ capture' = 0 /\ finals' = Append(finals, t)
    /\ UNCHANGED <<script, phrase, bill, settling, busy, loop, worker, epoch, mishaps, refusals>>

\* detachPhraseSubtitleTurnLocked(collectUsage = TRUE) of an abandoned turn.
Discarded(t, end) ==
    /\ talk' = [talk EXCEPT ![t].at = "closed", ![t].end = end, ![t].attached = FALSE]
    /\ bill' = IF Attached(t)
               THEN [bill EXCEPT ![t].owed = {n \in bill[t].spent : phrase[t][n].at = "done"}]
               ELSE bill

\* A wake word or the end of the loop closes the turn that is still speaking.
CloseActive ==
    /\ capture # 0
    /\ Discarded(capture, "discarded")
    /\ capture' = 0
    /\ UNCHANGED <<script, phrase, finals, settling, busy, loop, worker, epoch, mishaps, refusals>>

SwitchMode ==
    /\ Mishap /\ epoch' = epoch + 1
    /\ UNCHANGED <<script, talk, phrase, bill, capture, finals, settling, busy, loop, worker, refusals>>

-----------------------------------------------------------------------------
(* FinishStreaming, by the segment worker.                                     *)

InTail(t, n) == n > talk[t].taken /\ n <= talk[t].said

\* The tail is published as source only; the turn goes to the settlement queue.
HandOver(t) ==
    /\ loop # "cancelled" /\ Len(settling) < Capacity
    /\ talk' = [talk EXCEPT ![t].at = "queued", ![t].taken = talk[t].said,
                            ![t].overtaken = talk[t].late # {}]
    /\ phrase' = [phrase EXCEPT ![t] = [n \in Segments |->
          IF Attached(t) /\ InTail(t, n) THEN [NoPhrase EXCEPT !.at = "tail"] ELSE @[n]]]
    /\ settling' = Append(settling, t)
    /\ UNCHANGED <<bill, loop, worker>> /\ Well

\* An unfinished recognition, a duplicate final, an unpublished ASR usage or a
\* full queue ends the media loop; a cancelled context ends the worker, too.
Breaks(t) ==
    /\ \/ Mishap
       \/ (loop = "cancelled" \/ Len(settling) >= Capacity) /\ Well
    /\ Discarded(t, "broken")
    /\ loop' = "cancelled" /\ worker' = "dead"
    /\ UNCHANGED <<phrase, settling>>

\* Empty or filler text, and a language without a route, end the turn only.
Skipped(t) ==
    /\ loop # "cancelled"
    /\ Discarded(t, "discarded") /\ Well
    /\ UNCHANGED <<phrase, settling, loop, worker>>

\* A worker that broke off leaves the remaining finals where they are.
FinishSpeech ==
    /\ worker = "alive" /\ finals # <<>>
    /\ LET t == Head(finals) IN HandOver(t) \/ Breaks(t) \/ Skipped(t)
    /\ finals' = Tail(finals)
    /\ UNCHANGED <<script, capture, busy, epoch, refusals>>

Unresolved == {t \in TurnIds : talk[t].at \in {"queued", "waiting", "translating"}}

\* Bug: the runtime ends without waiting for accepted finals.
Awaited_Nothing == {}

\* WaitFinalSettlements: what manager.run waits for.
Awaited == Unresolved

\* The source ends, or the session is stopped.
EndLoop ==
    /\ loop = "running" /\ capture = 0
    /\ loop' \in {"eof", "cancelled"}
    /\ UNCHANGED <<script, talk, phrase, bill, capture, finals, settling, busy, worker, epoch, mishaps, refusals>>

RuntimeEnds ==
    /\ loop \in {"eof", "cancelled"} /\ capture = 0
    /\ finals = <<>> \/ worker = "dead"
    /\ Awaited = {}
    /\ loop' = "gone"
    /\ UNCHANGED <<script, talk, phrase, bill, capture, finals, settling, busy, worker, epoch, mishaps, refusals>>

-----------------------------------------------------------------------------
(* One goroutine per live phrase.                                              *)

\* The provider answers; the context of a detached turn is cancelled.
Answered(t, n) ==
    /\ phrase[t][n].at = "calling"
    /\ \/ /\ phrase' = [phrase EXCEPT ![t][n] = [at |-> "answered", ok |-> TRUE]]
          /\ bill' = [bill EXCEPT ![t].spent = @ \cup {n}] /\ Well
       \/ /\ phrase' = [phrase EXCEPT ![t][n].at = "answered"]
          /\ IF Attached(t) THEN Mishap ELSE Well
          /\ \E usage \in SUBSET {n} : bill' = [bill EXCEPT ![t].spent = @ \cup usage]
    /\ UNCHANGED <<script, talk, capture, finals, settling, busy, loop, worker, epoch, refusals>>

\* The phrases that may be spoken now: n and the ready ones that follow on it.
Run(t, n) ==
    LET ready == {m \in Segments : m = n \/ phrase[t][m].at \in {"registered", "done"}}
    IN {m \in ready : m >= talk[t].next /\ talk[t].next .. m \subseteq ready}

\* What of them is offered: nothing behind a failed or refused phrase.
Speakable(t, n) ==
    {m \in Run(t, n) : ~talk[t].failed /\ \A l \in Run(t, n) : l <= m => phrase[t][l].ok}

Offers(t, n) == UNION {PiecesOf(m) : m \in Speakable(t, n)}

\* enqueueTranslatedPhrasePlayback: the scheduler takes the offered pieces in
\* order until it refuses one, the others are left for the settlement.
Admit(t, n) ==
    LET run == Run(t, n)
        offers == Ordered(Offers(t, n))
        good == UNION {PiecesOf(m) : m \in {m \in run : phrase[t][m].ok}}
    IN
    /\ phrase[t][n].at = "answered"
    /\ phrase' = [phrase EXCEPT ![t][n].at = "registered"]
    /\ IF ~Attached(t) THEN UNCHANGED <<script, talk, refusals>>
       ELSE \E taken \in 0 .. Len(offers) :
          /\ IF taken < Len(offers) /\ loop = "running"
             THEN refusals < MaxRefusals /\ refusals' = refusals + 1
             ELSE Unrefused
          /\ talk' = [talk EXCEPT
                ![t].next = @ + Cardinality(run),
                ![t].spoken = @ \o SubSeq(offers, 1, taken),
                ![t].left = @ \cup (good \ {offers[i] : i \in 1 .. taken}),
                ![t].failed = @ \/ Speakable(t, n) # run \/ taken < Len(offers)]
    /\ UNCHANGED <<script, bill, capture, finals, settling, busy, loop, worker, epoch, mishaps>>

\* Bug: usage is reported as late whether or not the turn was finalized.
LateUsage_Always(t, n) == {n} \cap bill[t].spent

\* latePhraseUsageLocked: a phrase that ends after its turn was detached.
LateUsage(t, n) == IF Attached(t) THEN {} ELSE {n} \cap bill[t].spent

PhraseDone(t, n) ==
    /\ phrase[t][n].at = "registered"
    /\ phrase' = [phrase EXCEPT ![t][n].at = "done"]
    /\ bill' = [bill EXCEPT ![t].owed = @ \cup LateUsage(t, n)]
    /\ UNCHANGED <<script, talk, capture, finals, settling, busy, loop, worker, epoch, mishaps, refusals>>

\* latePhraseUsageQueue publishes until it succeeds.
BillLate(t) ==
    \E n \in bill[t].owed :
        /\ bill' = [bill EXCEPT ![t] = [Charge(@, {n}) EXCEPT !.merged = bill[t].merged]]
        /\ UNCHANGED <<script, talk, phrase, capture, finals, settling, busy, loop, worker, epoch, mishaps, refusals>>

-----------------------------------------------------------------------------
(* The settlement worker, one turn after the other.                            *)

\* FinalizePhraseSubtitleTurn notes the provider calls it waits for.
TakeFinal ==
    /\ busy = 0 /\ settling # <<>>
    /\ LET t == Head(settling) IN
          /\ busy' = t
          /\ talk' = [talk EXCEPT ![t].at = "waiting", ![t].wait =
                {n \in Segments : phrase[t][n].at \notin {"none", "tail"}}]
    /\ settling' = Tail(settling)
    /\ UNCHANGED <<script, phrase, bill, capture, finals, loop, worker, epoch, mishaps, refusals>>

\* Bug: only the provider's answer is awaited, not the admission to playback.
Awaiting_Translation(t) == {n \in talk[t].wait : phrase[t][n].at = "calling"}

\* waitForPendingPhrases: the answer, and the admission by whoever's turn it is.
Awaiting(t) == {n \in talk[t].wait : phrase[t][n].at # "done" \/ n >= talk[t].next}

\* The phrases that stand one after the other from the first.
Covered(t) == {n \in 1 .. talk[t].said : \A m \in 1 .. n : phrase[t][m].at # "none"}
Reused(t) == {n \in Covered(t) : phrase[t][n] = [at |-> "done", ok |-> TRUE]}
Beyond(t) == IF Cardinality(Covered(t)) < talk[t].said THEN {-(Cardinality(Covered(t)) + 1)} ELSE {}

Detached(t, todo, rest, merged, revised) ==
    /\ talk' = [talk EXCEPT ![t].at = "translating", ![t].attached = FALSE,
                            ![t].todo = todo, ![t].rest = rest, ![t].revised = revised]
    /\ bill' = [bill EXCEPT ![t].merged = merged]

\* phraseSummary: finished phrases are reused, the rest is translated again; if
\* the final text does not contain them, the whole text is.
Finalize(t) ==
    /\ busy = t /\ talk[t].at = "waiting"
    /\ Attached(t) => Awaiting(t) = {}
    /\ LET all == 1 .. talk[t].said * Pieces
           rest == {p \in all : SegmentOf(p) \notin Reused(t) \/ p \in talk[t].left}
           ended == {n \in Covered(t) : phrase[t][n].at = "done"}
       IN
       \/ /\ Attached(t) /\ Covered(t) # {}
          /\ Detached(t, {-n : n \in Covered(t) \ Reused(t)} \cup Beyond(t), rest,
                      ended \cap bill[t].spent, FALSE)
          /\ Well
       \/ ~(Attached(t) /\ Covered(t) # {}) /\ Detached(t, {Whole}, all, {}, FALSE) /\ Well
       \/ Attached(t) /\ Covered(t) # {} /\ Detached(t, {Whole}, all, {}, TRUE) /\ Mishap
    /\ UNCHANGED <<script, phrase, capture, finals, settling, busy, loop, worker, epoch, refusals>>

SettleTurn(t, end) ==
    /\ talk' = [talk EXCEPT ![t].at = "closed", ![t].end = end]
    /\ busy' = 0

\* The residual segments in order; a failure gives up the turn and its usage,
\* except what the failing call itself reports.
TranslateRest(t) ==
    LET call == Max(talk[t].todo) IN
    /\ busy = t /\ talk[t].at = "translating" /\ talk[t].todo # {}
    /\ \/ /\ talk' = [talk EXCEPT ![t].todo = @ \ {call}]
          /\ bill' = [bill EXCEPT ![t].spent = @ \cup {call}, ![t].merged = @ \cup {call}]
          /\ Well /\ UNCHANGED busy
       \/ /\ Mishap /\ SettleTurn(t, "broken")
          /\ \E usage \in SUBSET {call} :
                bill' = [bill EXCEPT ![t] = Charge([bill[t] EXCEPT !.spent = @ \cup usage], usage)]
    /\ UNCHANGED <<script, phrase, capture, finals, settling, loop, worker, epoch, refusals>>

\* CommitFinalTurn: the mode generation of the turn still holds, or the turn is
\* dropped; the gate does not know a runtime that ended.
CommitTalk(t) ==
    /\ busy = t /\ talk[t].at = "translating" /\ talk[t].todo = {}
    /\ \/ /\ Well
          /\ IF loop = "gone" THEN SettleTurn(t, "lost")
             ELSE /\ UNCHANGED busy
                  /\ talk' = [talk EXCEPT ![t].at = "settled",
                        ![t].end = IF talk[t].epoch = epoch THEN "committed" ELSE "superseded"]
       \/ Mishap /\ SettleTurn(t, "broken")
    /\ UNCHANGED <<script, phrase, bill, capture, finals, settling, loop, worker, epoch, refusals>>

\* The aggregated usage, also of a superseded turn.  A long sentence and a route
\* that is delivered only are not spoken: ttsEnabled.
BillTurn(t) ==
    /\ busy = t /\ talk[t].at = "settled"
    /\ \/ /\ bill' = [bill EXCEPT ![t] = Charge(@, bill[t].merged)] /\ Well
          /\ \/ /\ talk[t].end = "committed" /\ UNCHANGED busy
                /\ talk' = [talk EXCEPT ![t].at = "speaking"]
             \/ /\ talk[t].end = "committed" /\ busy' = 0
                /\ talk' = [talk EXCEPT ![t].at = "closed", ![t].aloud = FALSE]
             \/ talk[t].end = "superseded" /\ SettleTurn(t, "superseded")
       \/ Mishap /\ SettleTurn(t, "broken") /\ UNCHANGED bill
    /\ UNCHANGED <<script, phrase, capture, finals, settling, loop, worker, epoch, refusals>>

\* What the live phrases did not speak, a chunk for each segment: every chunk is
\* offered in the order of the text, and one the scheduler refuses is dropped.
SpeakRest(t) ==
    LET rest == talk[t].rest IN
    /\ busy = t /\ talk[t].at = "speaking"
    /\ \E refused \in SUBSET {SegmentOf(p) : p \in rest} :
          /\ IF refused # {} /\ loop = "running"
             THEN refusals < MaxRefusals /\ refusals' = refusals + 1
             ELSE Unrefused
          /\ talk' = [talk EXCEPT ![t].at = "closed", ![t].dropped = refused # {},
                 ![t].spoken = @ \o Ordered({p \in rest : SegmentOf(p) \notin refused})]
    /\ busy' = 0
    /\ UNCHANGED <<script, phrase, bill, capture, finals, settling, loop, worker, epoch, mishaps>>

-----------------------------------------------------------------------------
TurnsNext ==
    \/ CloseActive \/ SwitchMode \/ FinishSpeech \/ EndLoop \/ RuntimeEnds \/ TakeFinal
    \/ \E t \in TurnIds :
        \/ StartAudio(t) \/ Say(t) \/ ObservePhrase(t) \/ TimerTakes(t) \/ TimerPublishes(t)
        \/ EndSpeech(t) \/ BillLate(t)
        \/ \E n \in Segments : Answered(t, n) \/ Admit(t, n) \/ PhraseDone(t, n)
        \/ Finalize(t) \/ TranslateRest(t) \/ CommitTalk(t) \/ BillTurn(t) \/ SpeakRest(t)

TurnsSpec == TurnsInit /\ [][TurnsNext]_turnVars

-----------------------------------------------------------------------------
Rises(s) == \A i \in 1 .. Len(s) - 1 : s[i] < s[i + 1]

\* The translation of a turn is spoken in order and never twice, and a turn that
\* is committed to be spoken is spoken whole, although phrases are translated
\* concurrently, fail, are refused for want of room or arrive behind the final
\* (phrase_translation.go:359-420, 451-491; service.go:502-535).  If chunks of
\* the rest are refused, what is spoken still ascends.  Not meant are
\* a text that was revised, which is spoken anew, and a phrase whose timer fired
\* just before the final.
SpokenInOrder ==
    \A t \in TurnIds : LET k == talk[t] IN
        ~k.revised /\ ~k.overtaken =>
            /\ Rises(k.spoken)
            /\ k.at = "closed" /\ k.end = "committed" /\ k.aloud /\ ~k.dropped =>
                  Len(k.spoken) = k.said * Pieces

Pending(t) == \E n \in Segments : phrase[t][n].at \in {"calling", "answered", "registered"}

\* No provider call is billed twice, and once a turn is discarded, dropped or
\* committed without an error every call made for it is billed, also those
\* answered later (phrase_translation.go:595-642, 661-717; service.go:482-498).
BilledOnce ==
    \A t \in TurnIds :
        /\ bill[t].twice = {}
        /\ /\ talk[t].at = "closed" /\ talk[t].end \in {"discarded", "committed", "superseded"}
           /\ ~talk[t].revised /\ ~talk[t].overtaken /\ ~Pending(t) /\ bill[t].owed = {}
           => bill[t].spent \subseteq bill[t].billed

\* A final that was accepted for settlement reaches the commit gate before its
\* runtime is gone, however the media loop ends (runtime/manager.go:606-615,
\* mode.go:513-521).
FinalsOutliveMedia == \A t \in TurnIds : talk[t].end # "lost"
=============================================================================
