---------------------------- MODULE CommandGate ----------------------------
(* The voice command gate of one runtime: a wake signal opens a bounded       *)
(* window, the media loop feeds it frames, a recognition task per attempt     *)
(* turns the speech into an executed command, timers and newer wakes end it.  *)
(* Everything under the gate's mutex is one action.                           *)
(*                                                                            *)
(* A frame is what it makes the gate do; the frames of a replayed utterance   *)
(* are not held against the deadlines.  A result is "aloud" or "silent": a    *)
(* cancelled command and the assistant's own answer get no spoken feedback.   *)
(* Left out: texts, and what a command does (ModeSwitch, LanguageConfigs).    *)
EXTENDS Integers, Sequences, SequencesExt

CONSTANTS Signals,        \* ids of wake signals, which are the command ids
          RetentionLimit, \* commandIDRetentionLimit
          MaxOpens        \* attempts of the gate's lifetime

ASSUME GateAssumption == RetentionLimit \in Nat \ {0} /\ MaxOpens \in Nat

Attempts == 1 .. MaxOpens

VARIABLES
    gate,        \* [state, attempt, seen, complete, closed]
    opened,      \* attempt -> its command id, as remembered by the tasks
    recognition, \* attempt -> [at, outcome] of its task
    alarms,      \* attempt -> timer -> "set" | "fired" | "off"
    answers,     \* attempt -> number of terminal results published
    feedback,    \* attempt whose result is being spoken, or 0
    mediaLoop       \* the media loop's context

gateVars == <<gate, opened, recognition, alarms, answers, feedback, mediaLoop>>

Outcomes == {"aloud", "silent"}
NoRecognition == [at |-> "none", outcome |-> "silent"]
Timers == {"window", "no_speech"}

GateInit ==
    /\ gate = [state |-> "dormant", attempt |-> 0, seen |-> <<>>, complete |-> FALSE, closed |-> "no"]
    /\ opened = <<>>
    /\ recognition = [a \in Attempts |-> NoRecognition]
    /\ alarms = [a \in Attempts |-> [w \in Timers |-> "off"]]
    /\ answers = [a \in Attempts |-> 0] /\ feedback = 0 /\ mediaLoop = "alive"

\* Stop() of a timer does not call back the callback that waits for the mutex.
Stopped(a, timers) ==
    [w \in Timers |-> IF w \in timers /\ alarms[a][w] = "set" THEN "off" ELSE alarms[a][w]]

\* abandonLocked
Abandoned == [gate EXCEPT !.state = "dormant", !.complete = FALSE]
AlarmsOff == IF gate.attempt = 0 THEN alarms
             ELSE [alarms EXCEPT ![gate.attempt] = Stopped(gate.attempt, Timers)]

\* publishTerminalOutcome; a new feedback cancels the one before.
AnswerGiven(a, outcome) ==
    /\ answers' = [answers EXCEPT ![a] = @ + 1]
    /\ feedback' = IF outcome = "silent" \/ gate.closed # "no" THEN feedback ELSE a

\* failLocked
Fail(outcome) ==
    /\ AnswerGiven(gate.attempt, outcome)
    /\ gate' = Abandoned /\ alarms' = AlarmsOff
    /\ UNCHANGED <<opened, recognition, mediaLoop>>

-----------------------------------------------------------------------------
Remembered(seen, id) ==
    Append(IF Len(seen) = RetentionLimit THEN Tail(seen) ELSE seen, id)

\* A remembered id is a repeated signal.  A new one supersedes the attempt in
\* progress, which is answered as cancelled, and silences the feedback.
OpenWindow(id) ==
    /\ gate.closed = "no" /\ gate.attempt < MaxOpens /\ ~Contains(gate.seen, id)
    /\ LET a == gate.attempt + 1 IN
          /\ gate' = [gate EXCEPT !.state = "armed", !.attempt = a, !.complete = FALSE,
                                  !.seen = Remembered(@, id)]
          /\ opened' = Append(opened, id)
          /\ alarms' = [AlarmsOff EXCEPT ![a] = [w \in Timers |-> "set"]]
    /\ feedback' = 0
    /\ answers' = IF gate.state = "dormant" THEN answers
                  ELSE [answers EXCEPT ![gate.attempt] = @ + 1]
    /\ UNCHANGED <<recognition, mediaLoop>>

Listening == gate.state \in {"armed", "capturing"}

\* A frame of a cancelled caller; an invalid one, one behind a deadline, or one
\* the recogniser does not take.
HearFailure ==
    /\ Listening
    /\ Fail(IF mediaLoop = "cancelled" THEN "silent" ELSE "aloud")

\* The first speech stops the no-speech timer.
HearSpeech ==
    /\ gate.state = "armed" /\ mediaLoop = "alive"
    /\ gate' = [gate EXCEPT !.state = "capturing"]
    /\ alarms' = [alarms EXCEPT ![gate.attempt] = Stopped(gate.attempt, {"no_speech"})]
    /\ UNCHANGED <<opened, recognition, answers, feedback, mediaLoop>>

\* The end of the sentence starts the recognition task of the attempt.
HearEnd ==
    /\ gate.state = "capturing" /\ mediaLoop = "alive"
    /\ gate' = [gate EXCEPT !.state = "recognizing"]
    /\ recognition' = [recognition EXCEPT ![gate.attempt].at = "finishing"]
    /\ UNCHANGED <<opened, alarms, answers, feedback, mediaLoop>>

-----------------------------------------------------------------------------
AlarmFires(a, w) ==
    /\ alarms[a][w] = "set"
    /\ alarms' = [alarms EXCEPT ![a][w] = "fired"]
    /\ UNCHANGED <<gate, opened, recognition, answers, feedback, mediaLoop>>

\* expire: the callback of a timer that may have been stopped in the meantime.
Overdue(a, w) ==
    /\ gate.state # "dormant" /\ gate.attempt = a
    /\ (w = "no_speech") => gate.state = "armed"
    /\ (w = "window") => ~gate.complete

Expire(a, w) ==
    LET off == [alarms EXCEPT ![a][w] = "off"] IN
    /\ alarms[a][w] = "fired"
    /\ IF Overdue(a, w)
       THEN /\ AnswerGiven(a, "aloud")
            /\ gate' = Abandoned
            /\ alarms' = [off EXCEPT ![a] = [v \in Timers |->
                  IF off[a][v] = "set" THEN "off" ELSE off[a][v]]]
       ELSE alarms' = off /\ UNCHANGED <<gate, answers, feedback>>
    /\ UNCHANGED <<opened, recognition, mediaLoop>>

-----------------------------------------------------------------------------
Ended(a, outcome) == recognition' = [recognition EXCEPT ![a] = [at |-> "ended", outcome |-> outcome]]

\* stream.Finish; a cancelled attempt may still get its text.
FinishRecognition(a) ==
    /\ recognition[a].at = "finishing"
    /\ \/ recognition' = [recognition EXCEPT ![a].at = "heard"]
       \/ \E outcome \in Outcomes : Ended(a, outcome)
    /\ UNCHANGED <<gate, opened, alarms, answers, feedback, mediaLoop>>

\* beginProcessing ends the bounded capture and goes by the command id.
BeginProcessing(a) ==
    /\ recognition[a].at = "heard"
    /\ IF gate.state = "recognizing" /\ opened[gate.attempt] = opened[a] /\ gate.closed = "no"
       THEN /\ gate' = [gate EXCEPT !.complete = TRUE]
            /\ alarms' = [alarms EXCEPT ![gate.attempt] = Stopped(gate.attempt, {"window"})]
            /\ recognition' = [recognition EXCEPT ![a].at = "processing"]
       ELSE Ended(a, "silent") /\ UNCHANGED <<gate, alarms>>
    /\ UNCHANGED <<opened, answers, feedback, mediaLoop>>

\* Interpreter, Validator and Executor, each of which may fail.
Process(a) ==
    /\ recognition[a].at = "processing"
    /\ \E outcome \in Outcomes : Ended(a, outcome)
    /\ UNCHANGED <<gate, opened, alarms, answers, feedback, mediaLoop>>

\* Bug: a task answers for whichever attempt is being recognised.
Answering_Anyone(a) == gate.state = "recognizing"

Answering(a) == gate.attempt = a /\ gate.state = "recognizing"

\* recognize: the outcome of a superseded attempt is dropped; the gate is
\* dormant again before the result is published, outside the mutex.
ConcludeAttempt(a) ==
    /\ recognition[a].at = "ended"
    /\ IF Answering(a)
       THEN /\ recognition' = [recognition EXCEPT ![a].at = "publishing"]
            /\ gate' = Abandoned /\ alarms' = AlarmsOff
       ELSE recognition' = [recognition EXCEPT ![a] = [NoRecognition EXCEPT !.at = "done"]] /\ UNCHANGED <<gate, alarms>>
    /\ UNCHANGED <<opened, answers, feedback, mediaLoop>>

PublishOutcome(a) ==
    /\ recognition[a].at = "publishing"
    /\ AnswerGiven(a, recognition[a].outcome)
    /\ recognition' = [recognition EXCEPT ![a] = [NoRecognition EXCEPT !.at = "done"]]
    /\ UNCHANGED <<gate, opened, alarms, mediaLoop>>

FeedbackSpoken ==
    /\ feedback # 0 /\ feedback' = 0
    /\ UNCHANGED <<gate, opened, recognition, alarms, answers, mediaLoop>>

-----------------------------------------------------------------------------
CallerCancelled ==
    /\ mediaLoop = "alive" /\ mediaLoop' = "cancelled"
    /\ UNCHANGED <<gate, opened, recognition, alarms, answers, feedback>>

\* Cancel at the end of the runtime, which waits for the recognition tasks.
CloseGate ==
    /\ gate.closed = "no"
    /\ gate' = [Abandoned EXCEPT !.closed = "closing"]
    /\ alarms' = AlarmsOff /\ feedback' = 0
    /\ UNCHANGED <<opened, recognition, answers, mediaLoop>>

GateClosed ==
    /\ gate.closed = "closing"
    /\ \A a \in Attempts : recognition[a].at \in {"none", "done"}
    /\ gate' = [gate EXCEPT !.closed = "closed"]
    /\ UNCHANGED <<opened, recognition, alarms, answers, feedback, mediaLoop>>

GateNext ==
    \/ \E id \in Signals : OpenWindow(id)
    \/ HearFailure \/ HearSpeech \/ HearEnd
    \/ \E a \in Attempts :
        \/ \E w \in Timers : AlarmFires(a, w) \/ Expire(a, w)
        \/ FinishRecognition(a) \/ BeginProcessing(a) \/ Process(a) \/ ConcludeAttempt(a) \/ PublishOutcome(a)
    \/ FeedbackSpoken \/ CallerCancelled \/ CloseGate \/ GateClosed

-----------------------------------------------------------------------------
\* Every opened command gets one terminal result, never two, whichever of the
\* frames, its two timers, a newer wake and its own recognition task ends it;
\* only closing the gate leaves one unanswered (gate.go:302-341, 470-491,
\* 810-826).
AnsweredOnce ==
    \A a \in 1 .. gate.attempt :
        /\ answers[a] <= 1
        /\ answers[a] = 0 =>
              \/ a = gate.attempt /\ gate.state # "dormant"
              \/ recognition[a].at = "publishing"
              \/ gate.closed # "no"
=============================================================================
