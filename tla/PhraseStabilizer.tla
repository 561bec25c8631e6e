-------------------------- MODULE PhraseStabilizer --------------------------
(***************************************************************************)
(* PhraseStabilizer and PhraseSubtitleProcessor: how the growing snapshots  *)
(* of one utterance become phrases that are shown, translated and spoken    *)
(* while it is still being said.  A text is a sequence of letters, blanks   *)
(* and punctuation marks.                                                   *)
(***************************************************************************)
EXTENDS Integers, Sequences, FiniteSets, SequencesExt, FiniteSetsExt

CONSTANTS
    Letters,       \* of the source language
    Hesitation,    \* a letter besides these that stands for a filler ("uh")
    Replies,       \* texts too trivial to be a phrase ("ok")
    Spaced,        \* whether words are separated by blanks
    MinRunes,      \* letters of the shortest phrase
    LiveMin,       \* shortest stable tail that is cut
    LiveMax,       \* longest phrase cut from a stable tail
    MaxText,       \* bound: length of the transcript
    MaxRevisions   \* bound: snapshots that do not extend the one before

VARIABLES
    said,        \* the latest snapshot of the recognizer
    revisions,   \* snapshots that did not extend the one before
    consumed,    \* PhraseStabilizer.consumed
    candidate,   \* the tail that waits to be stable
    armed,       \* the timer of the stability window is set
    emitted,     \* phrases in the order of their sequence numbers
    flushed      \* the final text arrived, the utterance is deleted

stabilizerVars == <<said, revisions, consumed, candidate, armed, emitted, flushed>>

Blank == " "
Mark == ","
Rune == Letters \cup {Hesitation, Blank, Mark}

-----------------------------------------------------------------------------
\* Texts.

\* strings.Trim with a set of runes.
TrimOf(set, text) ==
    LET kept == {i \in DOMAIN text : text[i] \notin set}
    IN  IF kept = {} THEN <<>> ELSE SubSeq(text, Min(kept), Max(kept))
TrimSpace(text) == TrimOf({Blank}, text)
Without(prefix, text) == SubSeq(text, Len(prefix) + 1, Len(text))

\* What the recognizer writes: words in order, a mark after a word, single blanks.
Written(text) ==
    \A i \in DOMAIN text :
        /\ text[i] = Mark => i > 1 /\ text[i - 1] \notin {Blank, Mark}
        /\ text[i] = Blank => Spaced /\ 1 < i /\ i < Len(text) /\ text[i - 1] # Blank
        /\ (Spaced /\ i > 1 /\ text[i - 1] = Mark) => text[i] = Blank

Texts == {t \in BoundedSeq(Rune, MaxText) : Written(t)}

IsTrivial(text) == Len(text) <= 1 \/ text \in Replies

-----------------------------------------------------------------------------
\* The stabilizer.  A state has the source cursor and the phrases so far.

Consumable(text) ==
    LET bare == TrimOf({Blank, Mark}, text)
    IN  Len(bare) >= MinRunes /\ ~IsTrivial(bare)

Consume(state, text) ==
    IF Consumable(text)
    THEN [state EXCEPT !.consumed = @ \o text, !.phrases = Append(@, TrimSpace(text))]
    ELSE state

\* Nothing but marks and hesitations before confirmed boundaries.
IsIgnorableGap(text) ==
    Last(TrimSpace(text)) = Mark /\ TrimOf({Blank, Mark}, text) \in {<<>>, <<Hesitation>>}

\* The text up to its first boundary and the blanks behind it.
Segment(text) ==
    LET mark == SelectInSeq(text, LAMBDA c : c = Mark)
        after == {i \in mark + 1 .. Len(text) : text[i] # Blank}
    IN  IF mark = 0 THEN <<>>
        ELSE SubSeq(text, 1, IF after = {} THEN Len(text) ELSE Min(after) - 1)

\* One segment is emitted or passed over; a short meaningful one stays with the tail.
EatSegment(state) ==
    LET segment == Segment(state.tail) IN
    IF segment = <<>> \/ ~(Consumable(segment) \/ IsIgnorableGap(segment)) THEN state
    ELSE [IF Consumable(segment) THEN Consume(state, segment)
          ELSE [state EXCEPT !.consumed = @ \o segment]
          EXCEPT !.tail = Without(segment, state.tail)]

ConsumePunctuation(tail) ==
    FoldLeft(LAMBDA state, _rune : EatSegment(state),
             [consumed |-> consumed, phrases |-> emitted, tail |-> tail], tail)

Extends(text) == IsPrefix(consumed, TrimSpace(text))
Remaining(text) == TrimSpace(Without(consumed, TrimSpace(text)))

CommonPrefix(left, right) == LongestCommonPrefix({left, right})

NextCandidate(tail) ==
    IF tail = <<>> \/ candidate = <<>> \/ IsPrefix(candidate, tail)
       \/ CommonPrefix(candidate, tail) = <<>>
    THEN tail
    ELSE CommonPrefix(candidate, tail)

\* A live chunk: the longest complete words within the limit, or exactly the limit.
LiveChunk(text) ==
    LET words == {i \in 1 .. LiveMax : text[i] = Blank /\ Len(TrimSpace(SubSeq(text, 1, i))) >= LiveMin}
    IN  IF Len(text) <= LiveMax THEN text
        ELSE SubSeq(text, 1, IF words = {} THEN LiveMax ELSE Max(words))

-----------------------------------------------------------------------------
StabilizerInit ==
    /\ said = <<>> /\ revisions = 0
    /\ consumed = <<>> /\ candidate = <<>> /\ armed = FALSE
    /\ emitted = <<>> /\ flushed = FALSE

\* A snapshot or the final text replaces the one before.
Hears(text) ==
    /\ ~flushed /\ text # <<>>
    /\ said' = text
    /\ IF IsPrefix(said, text) THEN UNCHANGED revisions
       ELSE revisions < MaxRevisions /\ revisions' = revisions + 1

ObserveText(text) ==
    IF Extends(text)
    THEN LET state == ConsumePunctuation(Remaining(text)) IN
         /\ consumed' = state.consumed /\ emitted' = state.phrases
         /\ candidate' = NextCandidate(TrimSpace(state.tail))
    ELSE candidate' = <<>> /\ UNCHANGED <<consumed, emitted>>

Observe(text) ==
    /\ Hears(text)
    /\ ObserveText(text)
    /\ armed' = (candidate' # <<>>)
    /\ UNCHANGED flushed

AdvanceCandidate ==
    IF Len(candidate) < LiveMin THEN UNCHANGED <<consumed, emitted, candidate>>
    ELSE LET chunk == LiveChunk(candidate)
             state == Consume([consumed |-> consumed, phrases |-> emitted], chunk)
         IN  /\ consumed' = state.consumed /\ emitted' = state.phrases
             /\ candidate' = TrimSpace(Without(chunk, candidate))

\* The timer of a candidate that did not change for the stability window.
Advance ==
    /\ armed /\ armed' = FALSE
    /\ AdvanceCandidate
    /\ UNCHANGED <<said, revisions, flushed>>

Flush(text) ==
    /\ Hears(text)
    /\ IF Extends(text)
       THEN LET cut == ConsumePunctuation(Remaining(text))
                state == Consume(cut, cut.tail)
            IN  consumed' = state.consumed /\ emitted' = state.phrases
       ELSE UNCHANGED <<consumed, emitted>>
    /\ candidate' = <<>> /\ armed' = FALSE /\ flushed' = TRUE

StabilizerNext ==
    \/ Advance
    \/ \E text \in Texts : Observe(text) \/ Flush(text)

StabilizerSpec == StabilizerInit /\ [][StabilizerNext]_stabilizerVars

-----------------------------------------------------------------------------
\* What a text says, without blanks and marks.
Words(text) == SelectSeq(text, LAMBDA c : c \notin {Blank, Mark})

\* "Flush consumes every remaining final ASR text segment" (phrase_stabilizer.go:126):
\* when the recognizer revised nothing, what the final text says beyond the cursor
\* is too short or too trivial for a phrase.
FlushConsumesAll ==
    (flushed /\ revisions = 0) => ~Consumable(Without(Words(consumed), Words(said)))
=============================================================================
