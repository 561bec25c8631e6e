---------------------------- MODULE Audio_proofs ----------------------------
(***************************************************************************)
(* Realtime and the device on its other side: what holds of their parts    *)
(* for every number of calls, commands and events.                         *)
(***************************************************************************)
EXTENDS WakeControl, CommandGate, RuntimeManager, TtsChannel, Segmentation, FiniteSetTheorems, SequenceTheorems,
        WellFoundedInduction, TLAPS

-----------------------------------------------------------------------------
(* The wake word: epochs fence the callbacks of earlier runs.              *)

WakeTypes ==
    /\ runEpoch \in Nat
    /\ lastErr \in {"none", "signal", "engine"}
    /\ starter \in [Starters -> [at : {"new", "lock", "engine", "failed", "done"}, epoch : Nat]]
    /\ stopper \in [Stoppers -> [at : {"new", "engine", "wait", "failed", "done"},
                                 epoch : Nat, failed : BOOLEAN]]
    /\ wake \in [Wakes -> [at : {"new", "sending", "error", "done"}, epoch : Nat]]

\* Nobody is ahead of the controller, and a run is younger than every fence.
EpochsPast ==
    /\ \A s \in Starters : starter[s].epoch <= runEpoch
    /\ \A t \in Stoppers : stopper[t].epoch <= runEpoch
    /\ \A w \in Wakes : wake[w].epoch <= runEpoch
    /\ started => \A t \in Stoppers : stopper[t].epoch < runEpoch

\* Only a controller that is on lets a callback of the present epoch pass.
PassedEnabled == \A w \in Wakes : InCallback(w) /\ wake[w].epoch = runEpoch => enabled

WakeInv == WakeTypes /\ EpochsPast /\ PassedEnabled /\ StoppedQuietly /\ OffForAReason

\* Every initial state satisfies the wake invariant.
LEMMA WakeInitInv == WakeInit => WakeInv
<1> SUFFICES ASSUME WakeInit PROVE WakeInv
  OBVIOUS
<1> USE DEF WakeInit
<1>1. WakeTypes
  BY DEF WakeTypes
<1>2. EpochsPast
  BY DEF EpochsPast
<1>3. PassedEnabled /\ StoppedQuietly /\ OffForAReason
  BY DEF PassedEnabled, StoppedQuietly, OffForAReason, InCallback
<1> QED BY <1>1, <1>2, <1>3 DEF WakeInv

\* Steps of start keep the invariant.
LEMMA StarterInv ==
  ASSUME WakeInv, NEW s \in Starters,
         ChecksEnabled(s) \/ BeginsRun(s) \/ EngineStarts(s) \/ StartDisables(s)
  PROVE  WakeInv'
<1> USE DEF WakeInv
<1>1. CASE ChecksEnabled(s)
  <2> USE <1>1 DEF ChecksEnabled
  <2>1. WakeTypes'
    BY DEF WakeTypes
  <2>2. EpochsPast'
    BY DEF WakeTypes, EpochsPast
  <2>3. PassedEnabled'
    BY DEF WakeTypes, EpochsPast, PassedEnabled, InCallback
  <2>4. StoppedQuietly'
    BY DEF WakeTypes, EpochsPast, StoppedQuietly, InCallback
  <2>5. OffForAReason'
    BY DEF PassedEnabled, OffForAReason, InCallback
  <2> QED BY <2>1, <2>2, <2>3, <2>4, <2>5
<1>2. CASE BeginsRun(s)
  <2> USE <1>2 DEF BeginsRun
  <2>1. WakeTypes'
    <3>1. starter' \in [Starters -> [at : {"new", "lock", "engine", "failed", "done"}, epoch : Nat]]
      BY DEF WakeTypes
    <3> QED BY <3>1 DEF WakeTypes
  <2>2. EpochsPast'
    <3>1. CASE started
      BY <3>1 DEF WakeTypes, EpochsPast
    <3>2. CASE ~started
      BY <3>2 DEF WakeTypes, EpochsPast
    <3> QED BY <3>1, <3>2
  <2>3. PassedEnabled'
    BY DEF WakeTypes, EpochsPast, PassedEnabled, InCallback
  <2>4. StoppedQuietly'
    BY DEF WakeTypes, EpochsPast, StoppedQuietly, InCallback
  <2>5. OffForAReason'
    BY DEF PassedEnabled, OffForAReason, InCallback
  <2> QED BY <2>1, <2>2, <2>3, <2>4, <2>5
<1>3. CASE EngineStarts(s)
  <2> USE <1>3 DEF EngineStarts
  <2>1. WakeTypes'
    BY DEF WakeTypes
  <2>2. EpochsPast'
    BY DEF WakeTypes, EpochsPast
  <2>3. PassedEnabled'
    BY DEF WakeTypes, EpochsPast, PassedEnabled, InCallback
  <2>4. StoppedQuietly'
    BY DEF WakeTypes, EpochsPast, StoppedQuietly, InCallback
  <2>5. OffForAReason'
    BY DEF PassedEnabled, OffForAReason, InCallback
  <2> QED BY <2>1, <2>2, <2>3, <2>4, <2>5
<1>4. CASE StartDisables(s)
  <2> USE <1>4 DEF StartDisables, TurnOff
  <2>1. WakeTypes'
    <3>1. starter' \in [Starters -> [at : {"new", "lock", "engine", "failed", "done"}, epoch : Nat]]
      BY DEF WakeTypes
    <3> QED BY <3>1 DEF WakeTypes
  <2>2. EpochsPast'
    BY DEF WakeTypes, EpochsPast
  <2>3. PassedEnabled'
    BY DEF WakeTypes, EpochsPast, PassedEnabled, InCallback
  <2>4. StoppedQuietly'
    BY DEF WakeTypes, EpochsPast, StoppedQuietly, InCallback
  <2>5. OffForAReason'
    BY DEF PassedEnabled, OffForAReason, InCallback
  <2> QED BY <2>1, <2>2, <2>3, <2>4, <2>5
<1> QED BY <1>1, <1>2, <1>3, <1>4

\* What Stop writes is a record of the same type.
LEMMA StopperUpdate ==
  ASSUME NEW Places, NEW at \in Places, NEW epoch \in Nat, NEW failed \in BOOLEAN,
         NEW t \in Stoppers,
         stopper \in [Stoppers -> [at : Places, epoch : Nat, failed : BOOLEAN]]
  PROVE  /\ [stopper EXCEPT ![t].at = at, ![t].epoch = epoch]
                \in [Stoppers -> [at : Places, epoch : Nat, failed : BOOLEAN]]
         /\ [stopper EXCEPT ![t].at = at, ![t].failed = failed]
                \in [Stoppers -> [at : Places, epoch : Nat, failed : BOOLEAN]]
  OBVIOUS

\* Steps of stop keep the invariant.
LEMMA StopperInv ==
  ASSUME WakeInv, NEW t \in Stoppers,
         FencesRun(t) \/ EngineStops(t) \/ WaitsForCallbacks(t) \/ StopDisables(t)
  PROVE  WakeInv'
<1> USE DEF WakeInv
<1>1. CASE FencesRun(t)
  <2> USE <1>1 DEF FencesRun
  <2>1. WakeTypes'
    <3>1. stopper' \in [Stoppers -> [at : {"new", "engine", "wait", "failed", "done"},
                                     epoch : Nat, failed : BOOLEAN]]
      <4>1. runEpoch + 1 \in Nat
        BY DEF WakeTypes
      <4> QED BY <4>1, StopperUpdate DEF WakeTypes
    <3> QED BY <3>1 DEF WakeTypes
  <2>2. EpochsPast'
    BY DEF WakeTypes, EpochsPast
  <2>3. PassedEnabled'
    BY DEF WakeTypes, EpochsPast, PassedEnabled, InCallback
  <2>4. StoppedQuietly'
    BY DEF WakeTypes, EpochsPast, StoppedQuietly, InCallback
  <2>5. OffForAReason'
    BY DEF PassedEnabled, OffForAReason, InCallback
  <2> QED BY <2>1, <2>2, <2>3, <2>4, <2>5
<1>2. CASE EngineStops(t)
  <2> USE <1>2 DEF EngineStops
  <2>0. PICK failed \in BOOLEAN :
            stopper' = [stopper EXCEPT ![t].at = "wait", ![t].failed = failed]
    OBVIOUS
  <2>1. WakeTypes'
    <3>1. stopper' \in [Stoppers -> [at : {"new", "engine", "wait", "failed", "done"},
                                     epoch : Nat, failed : BOOLEAN]]
      BY <2>0, StopperUpdate DEF WakeTypes
    <3> QED BY <3>1 DEF WakeTypes
  <2>2. EpochsPast'
    BY <2>0 DEF WakeTypes, EpochsPast
  <2>3. PassedEnabled'
    BY DEF WakeTypes, EpochsPast, PassedEnabled, InCallback
  <2>4. StoppedQuietly'
    BY ZenonT(40), <2>0 DEF WakeTypes, EpochsPast, StoppedQuietly, InCallback
  <2>5. OffForAReason'
    BY DEF PassedEnabled, OffForAReason, InCallback
  <2> QED BY <2>1, <2>2, <2>3, <2>4, <2>5
<1>3. CASE WaitsForCallbacks(t)
  <2> USE <1>3 DEF WaitsForCallbacks, Waited
  <2>1. WakeTypes'
    BY DEF WakeTypes
  <2>2. EpochsPast'
    BY DEF WakeTypes, EpochsPast
  <2>3. PassedEnabled'
    BY DEF WakeTypes, EpochsPast, PassedEnabled, InCallback
  <2>4. StoppedQuietly'
    BY DEF WakeTypes, EpochsPast, StoppedQuietly, InCallback
  <2>5. OffForAReason'
    BY DEF PassedEnabled, OffForAReason, InCallback
  <2> QED BY <2>1, <2>2, <2>3, <2>4, <2>5
<1>4. CASE StopDisables(t)
  <2> USE <1>4 DEF StopDisables, TurnOff
  <2>1. WakeTypes'
    <3>1. stopper' \in [Stoppers -> [at : {"new", "engine", "wait", "failed", "done"},
                                    epoch : Nat, failed : BOOLEAN]]
      BY DEF WakeTypes
    <3> QED BY <3>1 DEF WakeTypes
  <2>2. EpochsPast'
    BY DEF WakeTypes, EpochsPast
  <2>3. PassedEnabled'
    BY DEF WakeTypes, EpochsPast, PassedEnabled, InCallback
  <2>4. StoppedQuietly'
    BY DEF WakeTypes, EpochsPast, StoppedQuietly, InCallback
  <2>5. OffForAReason'
    BY DEF PassedEnabled, OffForAReason, InCallback
  <2> QED BY <2>1, <2>2, <2>3, <2>4, <2>5
<1> QED BY <1>1, <1>2, <1>3, <1>4

\* Steps of the recogniser's callbacks keep the invariant.
LEMMA CallbackInv ==
  ASSUME WakeInv, NEW w \in Wakes,
         HandleWake(w) \/ SendWakeWord(w) \/ RemembersError(w)
  PROVE  WakeInv'
<1> USE DEF WakeInv
<1>1. CASE HandleWake(w)
  <2> USE <1>1 DEF HandleWake
  <2>1. WakeTypes'
    BY DEF WakeTypes
  <2>2. EpochsPast'
    BY DEF WakeTypes, EpochsPast
  <2>3. PassedEnabled'
    BY DEF WakeTypes, EpochsPast, PassedEnabled, InCallback
  <2>4. StoppedQuietly'
    BY DEF WakeTypes, EpochsPast, StoppedQuietly, InCallback
  <2>5. OffForAReason'
    BY DEF PassedEnabled, OffForAReason, InCallback
  <2> QED BY <2>1, <2>2, <2>3, <2>4, <2>5
<1>2. CASE SendWakeWord(w)
  <2> USE <1>2 DEF SendWakeWord
  <2>1. WakeTypes'
    BY DEF WakeTypes
  <2>2. EpochsPast'
    BY DEF WakeTypes, EpochsPast
  <2>3. PassedEnabled'
    BY DEF WakeTypes, EpochsPast, PassedEnabled, InCallback
  <2>4. StoppedQuietly'
    BY DEF WakeTypes, EpochsPast, StoppedQuietly, InCallback
  <2>5. OffForAReason'
    BY DEF PassedEnabled, OffForAReason, InCallback
  <2> QED BY <2>1, <2>2, <2>3, <2>4, <2>5
<1>3. CASE RemembersError(w)
  <2> USE <1>3 DEF RemembersError
  <2>1. WakeTypes'
    BY DEF WakeTypes
  <2>2. EpochsPast'
    BY DEF WakeTypes, EpochsPast
  <2>3. PassedEnabled'
    BY DEF WakeTypes, EpochsPast, PassedEnabled, InCallback
  <2>4. StoppedQuietly'
    BY DEF WakeTypes, EpochsPast, StoppedQuietly, InCallback
  <2>5. OffForAReason'
    BY DEF PassedEnabled, OffForAReason, InCallback
  <2> QED BY <2>1, <2>2, <2>3, <2>4, <2>5
<1> QED BY <1>1, <1>2, <1>3

\* A Stop that returned leaves no callback of the runs it ended in the sender, and a
\* late callback never hides why the wake word is off, for any number of calls of
\* Start, Stop and the handlers (sdks/device/wake.go:60-166).
THEOREM WakeFencedHolds == WakeSpec => []WakeFenced
<1>1. WakeInv /\ UNCHANGED wakeVars => WakeInv'
  BY DEF wakeVars, WakeInv, WakeTypes, EpochsPast, PassedEnabled, StoppedQuietly,
         OffForAReason, InCallback
<1>2. WakeInv /\ [WakeNext]_wakeVars => WakeInv'
  BY <1>1, StarterInv, StopperInv, CallbackInv DEF WakeNext
<1>3. WakeInv => WakeFenced
  BY DEF WakeInv, WakeFenced
<1> QED BY WakeInitInv, <1>2, <1>3, PTL DEF WakeSpec
-----------------------------------------------------------------------------
(* The command gate: each attempt is answered once, by whoever ends it.     *)

RecognitionRecord ==
    [at : {"none", "finishing", "heard", "processing", "ended", "publishing", "done"}, outcome : Outcomes]
GateRecord ==
    [state : {"dormant", "armed", "capturing", "recognizing"}, attempt : 0 .. MaxOpens,
     seen : Seq(Signals), complete : BOOLEAN, closed : {"no", "closing", "closed"}]

GateTypes ==
    /\ gate \in GateRecord
    /\ recognition \in [Attempts -> RecognitionRecord]
    /\ answers \in [Attempts -> Nat]

\* An attempt in progress is unanswered, and nobody is about to answer for it;
\* what is being published is unanswered too.
GateFacts ==
    /\ gate.state # "dormant" =>
          gate.attempt # 0 /\ answers[gate.attempt] = 0 /\ recognition[gate.attempt].at # "publishing"
    /\ gate.state \in {"armed", "capturing"} => recognition[gate.attempt].at = "none"
    /\ \A a \in Attempts :
          /\ recognition[a].at # "none" => a <= gate.attempt
          /\ recognition[a].at = "publishing" => answers[a] = 0
          /\ a > gate.attempt => answers[a] = 0

GateInv == GateTypes /\ GateFacts /\ AnsweredOnce

\* Every initial state satisfies the gate invariant.
LEMMA GateInitInv == GateInit => GateInv
<1> SUFFICES ASSUME GateInit PROVE GateInv
  OBVIOUS
<1>1. gate.state = "dormant" /\ gate.attempt = 0 /\ gate \in GateRecord
  BY GateAssumption DEF GateInit, GateRecord
<1>2. recognition \in [Attempts -> RecognitionRecord] /\ \A a \in Attempts : recognition[a].at = "none"
  BY DEF GateInit, NoRecognition, RecognitionRecord, Outcomes
<1>3. answers \in [Attempts -> Nat] /\ \A a \in Attempts : answers[a] = 0
  BY DEF GateInit
<1> QED BY <1>1, <1>2, <1>3 DEF GateInv, GateTypes, GateFacts, AnsweredOnce

\* How the gate's record may be written.
GateMoves(state) ==
    gate' \in GateRecord /\ gate'.state = state /\ gate'.attempt = gate.attempt /\ gate'.closed = gate.closed

\* An attempt in progress is answered, and over.
LEMMA AttemptOver ==
  ASSUME GateInv, gate.state # "dormant", GateMoves("dormant"), recognition' = recognition,
         answers' = [answers EXCEPT ![gate.attempt] = @ + 1]
  PROVE  GateInv'
<1>1. gate.attempt \in Attempts /\ gate.attempt \in Nat
  BY GateAssumption DEF GateInv, GateTypes, GateFacts, GateRecord, Attempts
<1>2. /\ answers' \in [Attempts -> Nat] /\ answers'[gate.attempt] = 1
      /\ \A a \in Attempts : a # gate.attempt => answers'[a] = answers[a]
  BY <1>1 DEF GateInv, GateTypes, GateFacts
<1>3. GateTypes'
  BY <1>2 DEF GateInv, GateTypes, GateMoves
<1>4. GateFacts'
  BY <1>1, <1>2 DEF GateInv, GateTypes, GateFacts, GateMoves, Attempts
<1>5. AnsweredOnce'
  BY <1>1, <1>2, GateAssumption DEF GateInv, GateTypes, GateRecord, GateFacts, AnsweredOnce, GateMoves, Attempts
<1> QED BY <1>3, <1>4, <1>5 DEF GateInv

\* Abandoning the attempt changes the gate's state alone.
LEMMA AbandonedIs == ASSUME GateInv, gate' = Abandoned PROVE GateMoves("dormant")
BY DEF GateInv, GateTypes, GateRecord, Abandoned, GateMoves

\* failLocked ends an attempt in progress.
LEMMA FailStep == ASSUME GateInv, HearFailure PROVE GateInv'
<1>1. gate.state # "dormant"
  BY DEF HearFailure, Listening
<1>2. gate' = Abandoned /\ recognition' = recognition /\ answers' = [answers EXCEPT ![gate.attempt] = @ + 1]
  BY DEF HearFailure, Fail, AnswerGiven
<1> QED BY <1>1, <1>2, AbandonedIs, AttemptOver

\* A task of an attempt moves on without publishing; the gate stays where it is.
LEMMA TaskMoves ==
  ASSUME GateInv, NEW a \in Attempts, recognition[a].at # "none", recognition[a].at # "publishing",
         NEW r \in RecognitionRecord, r.at \notin {"none", "publishing"},
         recognition' = [recognition EXCEPT ![a] = r], GateMoves(gate.state), answers' = answers
  PROVE  GateInv'
<1>1. recognition' \in [Attempts -> RecognitionRecord] /\ \A b \in Attempts : recognition'[b] = IF b = a THEN r ELSE recognition[b]
  BY DEF GateInv, GateTypes
<1>2. a <= gate.attempt /\ (gate.attempt # 0 => gate.attempt \in Attempts) /\ gate.attempt \in 0 .. MaxOpens
  BY GateAssumption DEF GateInv, GateFacts, GateTypes, GateRecord, Attempts
<1>3. \A b \in 1 .. gate.attempt : b \in Attempts
  BY <1>2, GateAssumption DEF Attempts
<1>4. GateTypes'
  BY <1>1 DEF GateInv, GateTypes, GateMoves
<1>5. GateFacts'
  BY <1>1, <1>2 DEF GateInv, GateFacts, GateMoves
<1>6. AnsweredOnce'
  BY <1>1, <1>3 DEF GateInv, AnsweredOnce, GateMoves
<1> QED BY <1>4, <1>5, <1>6 DEF GateInv

\* A new wake answers for the attempt in progress and begins its own.
LEMMA OpenStep == ASSUME GateInv, NEW id \in Signals, OpenWindow(id) PROVE GateInv'
<1> DEFINE n == gate.attempt + 1
<1>1. /\ gate.attempt \in 0 .. MaxOpens /\ gate.attempt < MaxOpens /\ gate.seen \in Seq(Signals)
      /\ gate.closed = "no" /\ recognition' = recognition
  BY DEF GateInv, GateTypes, GateRecord, OpenWindow
<1>2. n \in 0 .. MaxOpens /\ n \in Attempts
  BY <1>1, GateAssumption DEF Attempts
<1>3. Remembered(gate.seen, id) \in Seq(Signals)
  <2>1. CASE Len(gate.seen) = RetentionLimit
    <3>1. gate.seen # <<>>
      BY <1>1, <2>1, GateAssumption
    <3>2. Tail(gate.seen) \in Seq(Signals)
      BY <1>1, <3>1
    <3> QED BY <2>1, <3>2 DEF Remembered
  <2>2. CASE Len(gate.seen) # RetentionLimit
    BY <1>1, <2>2 DEF Remembered
  <2> QED BY <2>1, <2>2
<1>4. gate' \in GateRecord /\ gate'.state = "armed" /\ gate'.attempt = n /\ gate'.closed = gate.closed
  BY <1>2, <1>3 DEF GateInv, GateTypes, GateRecord, OpenWindow
<1>5. \A a \in Attempts : a > gate.attempt => answers[a] = 0 /\ recognition[a].at = "none"
  BY <1>1 DEF GateInv, GateFacts, Attempts
<1>6. /\ answers' \in [Attempts -> Nat]
      /\ \A a \in Attempts : a # gate.attempt => answers'[a] = answers[a]
      /\ gate.state = "dormant" => answers' = answers
      /\ gate.state # "dormant" => answers'[gate.attempt] = 1
  <2>1. CASE gate.state = "dormant"
    BY <2>1 DEF GateInv, GateTypes, OpenWindow
  <2>2. CASE gate.state # "dormant"
    <3>1. gate.attempt \in Attempts /\ answers[gate.attempt] = 0
      BY <1>1, <2>2, GateAssumption DEF GateInv, GateFacts, Attempts
    <3> QED BY <2>2, <3>1 DEF GateInv, GateTypes, OpenWindow
  <2> QED BY <2>1, <2>2
<1>7. GateTypes'
  BY <1>1, <1>4, <1>6 DEF GateInv, GateTypes
<1>8. answers'[n] = 0 /\ recognition'[n].at = "none"
  BY <1>1, <1>2, <1>5, <1>6
<1>9. GateFacts'
  <2>1. gate'.attempt # 0
    BY <1>1, <1>4
  <2>2. \A a \in Attempts : recognition'[a].at # "none" => a <= gate'.attempt
    BY <1>1, <1>4 DEF GateInv, GateFacts, Attempts
  <2>3. \A a \in Attempts : recognition'[a].at = "publishing" => answers'[a] = 0
    BY <1>1, <1>6 DEF GateInv, GateFacts
  <2>4. \A a \in Attempts : a > gate'.attempt => answers'[a] = 0
    BY <1>1, <1>4, <1>5, <1>6 DEF Attempts
  <2> QED BY <1>4, <1>8, <2>1, <2>2, <2>3, <2>4 DEF GateFacts
<1>10. AnsweredOnce'
  <2> SUFFICES ASSUME NEW a \in 1 .. n
               PROVE  /\ answers'[a] <= 1
                      /\ answers'[a] = 0 => \/ a = n
                                            \/ recognition[a].at = "publishing" \/ gate.closed # "no"
    BY <1>1, <1>4 DEF AnsweredOnce
  <2>1. CASE a = n
    BY <1>8, <2>1
  <2>2. CASE a # n
    <3>1. a \in 1 .. gate.attempt /\ a \in Attempts
      BY <1>1, <2>2, GateAssumption DEF Attempts
    <3> QED BY <1>6, <3>1 DEF GateInv, AnsweredOnce
  <2> QED BY <2>1, <2>2
<1> QED BY <1>7, <1>9, <1>10 DEF GateInv

\* Speech goes on, and its end starts the recognition of the attempt.
LEMMA HearSteps == ASSUME GateInv, HearSpeech \/ HearEnd PROVE GateInv'
<1>1. /\ answers' = answers /\ gate.state # "dormant" /\ gate.attempt \in Attempts
  BY GateAssumption DEF GateInv, GateFacts, GateTypes, GateRecord, Attempts, HearSpeech, HearEnd
<1>2. CASE HearSpeech
  <2>1. GateMoves("capturing") /\ recognition' = recognition /\ gate.state = "armed"
    BY <1>2 DEF HearSpeech, GateMoves, GateInv, GateTypes, GateRecord
  <2> QED BY <1>1, <2>1 DEF GateMoves, GateInv, GateTypes, GateFacts, AnsweredOnce
<1>3. CASE HearEnd
  <2>1. GateMoves("recognizing") /\ gate.state = "capturing"
    BY <1>3 DEF HearEnd, GateMoves, GateInv, GateTypes, GateRecord
  <2> DEFINE r == [recognition[gate.attempt] EXCEPT !.at = "finishing"]
  <2>2. r \in RecognitionRecord /\ r.at = "finishing"
    BY <1>1 DEF GateInv, GateTypes, RecognitionRecord
  <2>3. recognition' = [recognition EXCEPT ![gate.attempt] = r]
    BY <1>3 DEF HearEnd
  <2> HIDE DEF r
  <2>4. recognition' \in [Attempts -> RecognitionRecord] /\ \A b \in Attempts : recognition'[b] = IF b = gate.attempt THEN r ELSE recognition[b]
    BY <2>2, <2>3 DEF GateInv, GateTypes
  <2>5. gate.attempt <= gate.attempt /\ \A b \in 1 .. gate.attempt : b \in Attempts
    BY <1>1, GateAssumption DEF Attempts
  <2>6. GateTypes' /\ GateFacts'
    BY <1>1, <2>1, <2>2, <2>4, <2>5 DEF GateMoves, GateInv, GateTypes, GateFacts
  <2>7. AnsweredOnce'
    BY <1>1, <2>1, <2>4, <2>5 DEF GateMoves, GateInv, AnsweredOnce
  <2> QED BY <2>6, <2>7 DEF GateInv
<1> QED BY <1>2, <1>3

\* A timer that fires ends the attempt, unless it was stopped or comes too late.
LEMMA AlarmSteps ==
  ASSUME GateInv, NEW a \in Attempts, NEW w \in Timers, AlarmFires(a, w) \/ Expire(a, w)
  PROVE  GateInv'
<1>1. CASE /\ gate' = gate /\ recognition' = recognition /\ answers' = answers
  BY <1>1 DEF GateInv, GateTypes, GateFacts, AnsweredOnce
<1>2. CASE Expire(a, w) /\ Overdue(a, w)
  <2>1. gate.state # "dormant" /\ gate.attempt = a
    BY <1>2 DEF Overdue
  <2>2. gate' = Abandoned /\ recognition' = recognition /\ answers' = [answers EXCEPT ![gate.attempt] = @ + 1]
    BY <1>2, <2>1 DEF Expire, AnswerGiven
  <2> QED BY <2>1, <2>2, AbandonedIs, AttemptOver
<1> QED BY <1>1, <1>2 DEF AlarmFires, Expire

\* The recognition task of an attempt, which may be over by now.
LEMMA TaskSteps ==
  ASSUME GateInv, NEW a \in Attempts,
         \/ FinishRecognition(a) \/ BeginProcessing(a) \/ Process(a) \/ ConcludeAttempt(a) \/ PublishOutcome(a)
  PROVE  GateInv'
<1>1. recognition[a] \in RecognitionRecord /\ gate \in GateRecord /\ recognition \in [Attempts -> RecognitionRecord]
  BY DEF GateInv, GateTypes
<1>2. /\ \A o \in Outcomes : [at |-> "ended", outcome |-> o] \in RecognitionRecord
      /\ [NoRecognition EXCEPT !.at = "done"] = [at |-> "done", outcome |-> "silent"]
      /\ [at |-> "done", outcome |-> "silent"] \in RecognitionRecord
      /\ "silent" \in Outcomes
  BY DEF RecognitionRecord, NoRecognition, Outcomes
<1>3. \A p \in {"heard", "processing", "publishing"} :
         [recognition[a] EXCEPT !.at = p] \in RecognitionRecord /\ [recognition[a] EXCEPT !.at = p].at = p
  BY <1>1 DEF RecognitionRecord
<1>4. gate' = gate => GateMoves(gate.state)
  BY <1>1 DEF GateMoves
<1>5. CASE FinishRecognition(a)
  BY <1>2, <1>3, <1>4, <1>5, TaskMoves DEF FinishRecognition, Ended
<1>6. CASE BeginProcessing(a)
  <2>1. GateMoves(gate.state)
    BY <1>1, <1>6 DEF BeginProcessing, GateMoves, GateRecord
  <2> QED BY <1>2, <1>3, <1>6, <2>1, TaskMoves DEF BeginProcessing, Ended
<1>7. CASE Process(a)
  BY <1>2, <1>4, <1>7, TaskMoves DEF Process, Ended
<1>8. CASE ConcludeAttempt(a) /\ ~Answering(a)
  BY <1>2, <1>4, <1>8, TaskMoves DEF ConcludeAttempt
<1>9. CASE ConcludeAttempt(a) /\ Answering(a)
  <2>1. /\ gate.attempt = a /\ gate.state # "dormant" /\ gate' = Abandoned /\ answers' = answers
        /\ recognition' = [recognition EXCEPT ![a].at = "publishing"]
    BY <1>9 DEF ConcludeAttempt, Answering
  <2>2. GateMoves("dormant")
    BY <2>1, AbandonedIs
  <2> DEFINE r == [recognition[a] EXCEPT !.at = "publishing"]
  <2>3. r \in RecognitionRecord /\ r.at = "publishing" /\ recognition' = [recognition EXCEPT ![a] = r]
    BY <1>3, <2>1
  <2> HIDE DEF r
  <2>4. recognition' \in [Attempts -> RecognitionRecord] /\ \A b \in Attempts : recognition'[b] = IF b = a THEN r ELSE recognition[b]
    BY <1>1, <2>3
  <2>5. gate.attempt \in Nat /\ \A b \in 1 .. gate.attempt : b \in Attempts
    BY <1>1, GateAssumption DEF GateRecord, Attempts
  <2>6. GateTypes' /\ GateFacts'
    BY <2>1, <2>2, <2>3, <2>4, <2>5 DEF GateMoves, GateInv, GateTypes, GateFacts
  <2>7. AnsweredOnce'
    BY <2>1, <2>2, <2>3, <2>4, <2>5 DEF GateMoves, GateInv, AnsweredOnce
  <2> QED BY <2>6, <2>7 DEF GateInv
<1>10. CASE PublishOutcome(a)
  <2>1. /\ recognition[a].at = "publishing" /\ gate' = gate
        /\ answers' = [answers EXCEPT ![a] = @ + 1]
        /\ recognition' = [recognition EXCEPT ![a] = [at |-> "done", outcome |-> "silent"]]
    BY <1>2, <1>10 DEF PublishOutcome, AnswerGiven
  <2>2. answers[a] = 0 /\ a <= gate.attempt /\ answers \in [Attempts -> Nat]
    BY <2>1 DEF GateInv, GateFacts, GateTypes
  <2>3. answers' \in [Attempts -> Nat] /\ \A b \in Attempts : answers'[b] = IF b = a THEN 1 ELSE answers[b]
    BY <2>1, <2>2
  <2>4. /\ recognition' \in [Attempts -> RecognitionRecord] /\ recognition'[a].at = "done"
        /\ \A b \in Attempts : b # a => recognition'[b] = recognition[b]
    BY <1>1, <1>2, <2>1
  <2>5. gate.attempt \in Nat /\ a \in Nat /\ \A b \in 1 .. gate.attempt : b \in Attempts
    BY <1>1, GateAssumption DEF GateRecord, Attempts
  <2>6. gate.state # "dormant" => gate.attempt # a
    BY <2>1 DEF GateInv, GateFacts
  <2>7. GateTypes'
    BY <2>1, <2>3, <2>4 DEF GateInv, GateTypes
  <2>8. GateFacts'
    <3>1. gate.state # "dormant" => gate.attempt \in Attempts
      BY <2>5, <1>1, GateAssumption DEF GateInv, GateFacts, Attempts, GateRecord
    <3> QED BY <2>1, <2>2, <2>3, <2>4, <2>5, <2>6, <3>1 DEF GateInv, GateFacts
  <2>9. AnsweredOnce'
    BY <2>1, <2>2, <2>3, <2>4, <2>5 DEF GateInv, AnsweredOnce
  <2> QED BY <2>7, <2>8, <2>9 DEF GateInv
<1> QED BY <1>5, <1>6, <1>7, <1>8, <1>9, <1>10

\* Feedback and cancellation leave attempts alone; closing gives up on the last.
LEMMA CloseSteps ==
  ASSUME GateInv, FeedbackSpoken \/ CallerCancelled \/ CloseGate \/ GateClosed
  PROVE  GateInv'
<1>1. recognition' = recognition /\ answers' = answers
  BY DEF FeedbackSpoken, CallerCancelled, CloseGate, GateClosed
<1>2. /\ gate' \in GateRecord /\ gate'.attempt = gate.attempt
      /\ gate'.state \in {gate.state, "dormant"}
      /\ gate' = gate \/ gate'.closed # "no"
  BY DEF FeedbackSpoken, CallerCancelled, CloseGate, GateClosed, Abandoned, GateInv, GateTypes, GateRecord
<1> QED BY <1>1, <1>2 DEF GateInv, GateTypes, GateFacts, AnsweredOnce

\* gate.go (failLocked, expire, recognize): frames, timers, newer wakes and the
\* recognition task race to end an attempt, and it is answered once.
THEOREM AnsweredOnceHolds == GateInit /\ [][GateNext]_gateVars => []AnsweredOnce
<1>1. GateInv /\ [GateNext]_gateVars => GateInv'
  <2> SUFFICES ASSUME GateInv, [GateNext]_gateVars PROVE GateInv'
    OBVIOUS
  <2>1. CASE GateNext
    BY <2>1, OpenStep, FailStep, HearSteps, AlarmSteps, TaskSteps, CloseSteps DEF GateNext
  <2>2. CASE UNCHANGED gateVars
    BY <2>2 DEF gateVars, GateInv, GateTypes, GateFacts, AnsweredOnce
  <2> QED BY <2>1, <2>2
<1>2. GateInv => AnsweredOnce
  BY DEF GateInv
<1> QED BY <1>1, <1>2, GateInitInv, PTL

-----------------------------------------------------------------------------
(* The runtimes of a session: no open source and no media loop is lost.     *)

Busy == {"start", "build", "replace", "unopen", "activate", "stop", "close", "await"}
Looping == {"running", "closing", "reporting", "ending"}
Results == {"running", "ok", "err"}

RequestRecord ==
    [at : Busy \cup {"idle", "done"}, kind : {"none", "start", "stop"}, op : StartOps \cup {"none"},
     item : Calls \cup {Nobody}, attempt : Nat, finished : BOOLEAN]
ItemRecord ==
    [op : StartOps \cup {"none"}, cancelled : BOOLEAN, active : BOOLEAN, stopping : BOOLEAN,
     terminal : BOOLEAN, finished : BOOLEAN, failed : BOOLEAN]
SourceRecord == [open : BOOLEAN, attempt : Nat, tries : Seq(Results), err : BOOLEAN]
WorkerRecord == [at : Looping \cup {"none", "done"}, attempt : Nat, unreported : BOOLEAN]
ReportRecord == [at : {"none", "waiting", "read", "ok", "err"}, over : BOOLEAN]
RuntimeRecord ==
    [state : {"none", "starting", "start_failed", "listening", "stopping", "stopped", "stop_failed",
              "pipeline_failed"}, op : StartOps \cup {"none"}]

ManagerTypes ==
    /\ requests \in [Calls -> RequestRecord] /\ items \in [Calls -> ItemRecord]
    /\ sources \in [Calls -> SourceRecord] /\ workers \in [Calls -> WorkerRecord]
    /\ reports \in [Calls -> ReportRecord] /\ runtime \in RuntimeRecord
    /\ managed \in Calls \cup {Nobody} /\ holder \in Nat

\* A source that was closed is not open; one that is open after a failing close
\* remembers the failure.
SourceOK(i) ==
    LET s == sources[i] IN
    /\ s.attempt \in 0 .. Len(s.tries)
    /\ \A n \in DOMAIN s.tries : /\ s.tries[n] = "ok" => ~s.open
                                 /\ s.tries[n] = "err" => ~s.open \/ s.err

\* The call that has not opened a source yet.
Fresh(c) == ~sources[c].open /\ sources[c].tries = <<>> /\ workers[c].at = "none" /\ managed # c

CallOK(c) ==
    LET r == requests[c] IN
    /\ r.at \in Busy => holder = c
    /\ r.at \in {"idle", "start", "build", "replace"} => Fresh(c)
    /\ r.at = "unopen" => workers[c].at = "none" /\ managed # c /\ 1 \in DOMAIN sources[c].tries
    /\ r.at \in {"replace", "close", "await"} =>
          /\ r.item \in Calls /\ managed \in {r.item, Nobody}
          /\ r.attempt \in DOMAIN sources[r.item].tries
    /\ r.at = "replace" => items[r.item].finished
    /\ r.at \in {"close", "await"} => items[r.item].stopping
    /\ r.at = "close" => ~items[r.item].active \/ items[r.item].finished
    /\ r.at \in {"build", "replace", "unopen", "activate"} => runtime.state = "starting"

LoopOK(i) ==
    LET w == workers[i] IN
    /\ items[i].active <=> w.at # "none"
    /\ w.at \in Looping => managed = i
    /\ w.at = "closing" => w.attempt \in DOMAIN sources[i].tries
    /\ w.at \in {"reporting", "ending"} => ~sources[i].open \/ sources[i].err
    /\ items[i].finished => w.at \in {"none", "done"} /\ (items[i].stopping \/ w.at = "done")
    /\ reports[i].at # "none" => items[i].terminal
    /\ reports[i].at \in {"waiting", "read"} /\ ~reports[i].over => w.at = "reporting"
    /\ reports[i].at = "read" => holder = MaxCalls + i

ManagerInv ==
    /\ ManagerTypes
    /\ \A i \in Calls : SourceOK(i) /\ CallOK(i) /\ LoopOK(i)
    /\ MediaAccounted

\* Every initial state satisfies the invariant of the runtimes.
LEMMA ManagerInitInv == ManagerInit => ManagerInv
<1> SUFFICES ASSUME ManagerInit PROVE ManagerInv
  OBVIOUS
<1> USE RuntimeManagerAssumption
<1>1. /\ requests \in [Calls -> RequestRecord] /\ \A c \in Calls : requests[c].at = "idle"
  BY DEF ManagerInit, RequestRecord, Busy
<1>2. items \in [Calls -> ItemRecord] /\ \A c \in Calls : ~items[c].active /\ ~items[c].finished
  BY DEF ManagerInit, ItemRecord
<1>3. /\ sources \in [Calls -> SourceRecord]
      /\ \A c \in Calls : ~sources[c].open /\ sources[c].tries = <<>> /\ sources[c].attempt = 0
  BY DEF ManagerInit, SourceRecord
<1>4. workers \in [Calls -> WorkerRecord] /\ \A c \in Calls : workers[c].at = "none"
  BY DEF ManagerInit, WorkerRecord, Looping
<1>5. reports \in [Calls -> ReportRecord] /\ \A c \in Calls : reports[c].at = "none"
  BY DEF ManagerInit, ReportRecord
<1>6. runtime \in RuntimeRecord /\ managed = Nobody /\ holder = Nobody /\ Nobody \notin Calls /\ Nobody \in Nat
  BY DEF ManagerInit, RuntimeRecord, Nobody, Calls
<1>7. ManagerTypes
  BY <1>1, <1>2, <1>3, <1>4, <1>5, <1>6 DEF ManagerTypes
<1>8. \A i \in Calls : SourceOK(i)
  BY <1>3 DEF SourceOK
<1>9. \A i \in Calls : CallOK(i)
  BY <1>1, <1>3, <1>4, <1>6 DEF CallOK, Fresh, Busy
<1>10. \A i \in Calls : LoopOK(i)
  BY <1>2, <1>4, <1>5 DEF LoopOK, Looping
<1>11. MediaAccounted
  BY <1>3, <1>4 DEF MediaAccounted
<1> QED BY <1>7, <1>8, <1>9, <1>10, <1>11 DEF ManagerInv

\* The number of a call is not that of a report that holds the lock.
LEMMA CallNumbers == \A i \in Calls : i \in Nat /\ i # Nobody /\ \A j \in Calls : MaxCalls + i # j /\ (MaxCalls + i = MaxCalls + j => i = j)
BY RuntimeManagerAssumption DEF Calls, Nobody

\* What holds while the lifecycle lock is free.
LEMMA LockFree ==
  ASSUME ManagerInv, holder = Nobody
  PROVE  \A d \in Calls : requests[d].at \notin Busy /\ reports[d].at # "read"
<1>1. \A d \in Calls : (requests[d].at \in Busy => holder = d) /\ (reports[d].at = "read" => holder = MaxCalls + d)
  BY DEF ManagerInv, CallOK, LoopOK
<1>2. \A d \in Calls : d # Nobody /\ MaxCalls + d # Nobody
  BY RuntimeManagerAssumption DEF Calls, Nobody
<1> QED BY <1>1, <1>2

\* What holds while a call holds the lifecycle lock.
LEMMA LockHeld ==
  ASSUME ManagerInv, NEW c \in Calls, requests[c].at \in Busy
  PROVE  /\ holder = c
         /\ \A d \in Calls : d # c => requests[d].at \notin Busy
         /\ \A i \in Calls : reports[i].at # "read"
<1>1. holder = c
  BY DEF ManagerInv, CallOK
<1>2. \A d \in Calls : requests[d].at \in Busy => holder = d
  BY DEF ManagerInv, CallOK
<1>3. \A d \in Calls : reports[d].at = "read" => holder = MaxCalls + d
  BY DEF ManagerInv, LoopOK
<1> QED BY <1>1, <1>2, <1>3, CallNumbers

\* The media of a runtime hold no more than before, and no close is forgotten.
SourceKept(i) ==
    /\ sources'[i].open => sources[i].open
    /\ DOMAIN sources[i].tries \subseteq DOMAIN sources'[i].tries
    /\ ~sources[i].open \/ sources[i].err => ~sources'[i].open \/ sources'[i].err

\* A source that is not touched keeps all of it.
LEMMA UntouchedKept == ASSUME NEW i, sources'[i] = sources[i] PROVE SourceKept(i)
BY DEF SourceKept

\* A close that begins leaves the source as it is, and gives the caller an
\* attempt to wait for.
LEMMA CloseBegins ==
  ASSUME ManagerInv, NEW i \in Calls, BeginClose(i)
  PROVE  /\ sources' \in [Calls -> SourceRecord]
         /\ \A j \in Calls : SourceOK(j)' /\ SourceKept(j)
         /\ \A j \in Calls : j # i => sources'[j] = sources[j]
         /\ Attempt(i) \in Nat /\ Attempt(i) \in DOMAIN sources'[i].tries
<1>0. PICK s \in SourceRecord : s = sources[i]
  BY DEF ManagerInv, ManagerTypes
<1>1. /\ sources \in [Calls -> SourceRecord] /\ s \in SourceRecord
      /\ s.attempt \in 0 .. Len(s.tries) /\ s.attempt \in Nat /\ s.tries \in Seq(Results)
  BY <1>0 DEF ManagerInv, ManagerTypes, SourceOK, SourceRecord
<1>2. Len(s.tries) \in Nat /\ DOMAIN s.tries = 1 .. Len(s.tries)
  BY <1>1
<1>3. CASE s.attempt # 0
  <2>1. sources' = sources /\ Attempt(i) = s.attempt
    BY <1>0, <1>3 DEF BeginClose, Attempt
  <2>2. s.attempt \in DOMAIN s.tries
    BY <1>1, <1>2, <1>3
  <2>3. \A j \in Calls : SourceOK(j)'
    BY <2>1 DEF ManagerInv, SourceOK
  <2> QED BY <1>0, <1>1, <2>1, <2>2, <2>3, UntouchedKept
<1>4. CASE s.attempt = 0
  <2>0. PICK m \in Nat : m = Len(s.tries) + 1
    BY <1>2
  <2>7. PICK q \in Seq(Results) : q = Append(s.tries, "running")
    <3>1. Append(s.tries, "running") \in Seq(Results)
      BY <1>1 DEF Results
    <3> QED BY <3>1, Zenon
  <2>2. /\ DOMAIN q = 1 .. m /\ Len(q) = m /\ q[m] = "running"
        /\ \A n \in 1 .. Len(s.tries) : q[n] = s.tries[n]
    BY <1>1, <1>2, <2>0, <2>7 DEF Results
  <2> DEFINE r == [s EXCEPT !.attempt = m, !.tries = q]
  <2>1. Attempt(i) = m /\ sources' = [sources EXCEPT ![i] = r]
    BY <1>0, <1>4, <2>0, <2>7 DEF BeginClose, Attempt
  <2>3. r \in SourceRecord /\ r.open = s.open /\ r.err = s.err /\ r.attempt = m /\ r.tries = q
    BY DEF SourceRecord
  <2> HIDE DEF r
  <2>4. sources' \in [Calls -> SourceRecord] /\ \A j \in Calls : sources'[j] = IF j = i THEN r ELSE sources[j]
    BY <1>1, <2>1, <2>3
  <2>5. m \in 1 .. m /\ 1 .. Len(s.tries) \subseteq 1 .. m /\ m \in 0 .. m
    BY <1>2, <2>0
  <2>6. SourceKept(i)
    BY <1>0, <1>2, <2>2, <2>3, <2>4, <2>5 DEF SourceKept
  <2>9. SourceOK(i)'
    <3>1. \A n \in 1 .. m : n # m => n \in 1 .. Len(s.tries)
      BY <1>2, <2>0
    <3>2. \A n \in DOMAIN s.tries : (s.tries[n] = "ok" => ~s.open) /\ (s.tries[n] = "err" => ~s.open \/ s.err)
      BY <1>0 DEF ManagerInv, SourceOK
    <3>3. \A n \in DOMAIN r.tries : (r.tries[n] = "ok" => ~s.open) /\ (r.tries[n] = "err" => ~s.open \/ s.err)
      BY <1>2, <2>2, <2>3, <3>1, <3>2
    <3>4. r.attempt \in 0 .. Len(r.tries)
      BY <2>2, <2>3, <2>5
    <3> QED BY <2>3, <2>4, <3>3, <3>4 DEF SourceOK
  <2>8. \A j \in Calls : j # i => SourceOK(j)' /\ SourceKept(j)
    BY <2>4, UntouchedKept DEF ManagerInv, SourceOK
  <2> QED BY <2>1, <2>2, <2>3, <2>4, <2>5, <2>6, <2>8, <2>9
<1> QED BY <1>3, <1>4

\* What the lock's other side does leaves a media loop in order.
LoopKept(i) ==
    /\ workers'[i] = workers[i] /\ reports'[i] = reports[i] /\ SourceKept(i)
    /\ items'[i].active = items[i].active /\ items'[i].terminal = items[i].terminal
    /\ items'[i].finished = items[i].finished \/ (items'[i].finished /\ workers[i].at = "none" /\ items'[i].stopping)
    /\ items[i].stopping => items'[i].stopping
    /\ workers[i].at \in Looping => managed' = i
    /\ reports[i].at # "read"

\* A loop the lock's other side kept is in order.
LEMMA KeptLoop == ASSUME ManagerInv, NEW i \in Calls, LoopKept(i) PROVE LoopOK(i)'
BY DEF ManagerInv, LoopOK, LoopKept, SourceKept

\* The other calls do not notice a call that holds the lock.
LEMMA OtherCalls ==
  ASSUME ManagerInv, NEW c \in Calls,
         \A d \in Calls : d # c => /\ requests'[d] = requests[d] /\ requests[d].at \notin Busy
                                   /\ sources'[d].open => sources[d].open
                                   /\ sources[d].tries = <<>> /\ requests[d].at = "idle" => sources'[d].tries = <<>>
                                   /\ workers[d].at = "none" /\ managed # d => workers'[d].at = "none"
                                   /\ managed' # managed => managed' # d
  PROVE  \A d \in Calls : d # c => CallOK(d)'
<1> SUFFICES ASSUME NEW d \in Calls, d # c PROVE CallOK(d)'
  OBVIOUS
<1>1. requests'[d] = requests[d] /\ requests[d].at \notin Busy
  OBVIOUS
<1>2. requests[d].at = "idle" => Fresh(d)
  BY DEF ManagerInv, CallOK
<1>3. requests[d].at = "idle" => Fresh(d)'
  BY <1>2 DEF Fresh
<1> QED BY <1>1, <1>3 DEF CallOK, Busy

\* Whoever may act as this call: no other call and no report has the lock.
Alone(c) ==
    /\ \A d \in Calls : d # c => requests[d].at \notin Busy
    /\ \A i \in Calls : reports[i].at # "read"

\* A call that takes the lock, or has it, is alone.
LEMMA CallAlone ==
  ASSUME ManagerInv, NEW c \in Calls, holder = Nobody \/ requests[c].at \in Busy
  PROVE  Alone(c)
BY LockFree, LockHeld DEF Alone

\* Only this call's request is written.
OnlyCall(c) ==
    /\ requests' \in [Calls -> RequestRecord]
    /\ \A d \in Calls : d # c => requests'[d] = requests[d]

\* Moving a call on writes nothing but where it is.
LEMMA CallMoves ==
  ASSUME ManagerInv, NEW c \in Calls, NEW at \in Busy \cup {"idle", "done"}, To(c, at)
  PROVE  /\ OnlyCall(c) /\ requests'[c].at = at /\ requests'[c].kind = requests[c].kind
         /\ requests'[c].item = requests[c].item /\ requests'[c].attempt = requests[c].attempt
<1> DEFINE r == [requests[c] EXCEPT !.at = at]
<1>1. requests' = [requests EXCEPT ![c] = r] /\ requests \in [Calls -> RequestRecord]
  BY DEF To, ManagerInv, ManagerTypes
<1>2. /\ r \in RequestRecord /\ r.at = at /\ r.kind = requests[c].kind
      /\ r.item = requests[c].item /\ r.attempt = requests[c].attempt
  BY <1>1 DEF RequestRecord
<1> HIDE DEF r
<1> QED BY <1>1, <1>2 DEF OnlyCall

\* A call that has returned asks for nothing.
LEMMA CallReturned == ASSUME NEW c, requests'[c].at = "done" PROVE CallOK(c)'
BY DEF CallOK, Busy

\* A new state of the snapshot.
LEMMA SnapshotMoves ==
  ASSUME ManagerInv,
         NEW state \in {"starting", "start_failed", "listening", "stopping", "stopped", "stop_failed", "pipeline_failed"},
         Snapshot(state)
  PROVE  runtime' \in RuntimeRecord /\ runtime'.state = state
BY DEF ManagerInv, ManagerTypes, Snapshot, RuntimeRecord

MediaSame == UNCHANGED <<managed, items, sources, workers, reports>>

\* A call that touches no media keeps the invariant, if it does not report them
\* stopped while they run, and does not forget the source it opened.
LEMMA CallStep ==
  ASSUME ManagerInv, NEW c \in Calls, Alone(c), OnlyCall(c), CallOK(c)', MediaSame,
         abandoned \subseteq abandoned', runtime' \in RuntimeRecord, holder' \in Nat,
         runtime'.state = "stopped" => runtime' = runtime \/ managed = Nobody,
         requests[c].at = "unopen" =>
             runtime'.state # "stopped" /\ (requests'[c].at = "unopen" \/ ~sources[c].open \/ c \in abandoned')
  PROVE  ManagerInv'
<1>1. ManagerTypes'
  BY DEF ManagerInv, ManagerTypes, OnlyCall, MediaSame
<1>2. \A i \in Calls : SourceOK(i)'
  BY DEF ManagerInv, SourceOK, MediaSame
<1>3. \A i \in Calls : LoopOK(i)'
  <2> SUFFICES ASSUME NEW i \in Calls PROVE LoopOK(i)'
    OBVIOUS
  <2>1. LoopKept(i)
    BY DEF LoopKept, SourceKept, MediaSame, Alone, ManagerInv, LoopOK
  <2> QED BY <2>1, KeptLoop
<1>4. \A d \in Calls : CallOK(d)'
  <2>1. \A d \in Calls : d # c => CallOK(d)'
    BY OtherCalls DEF OnlyCall, Alone, MediaSame
  <2> QED BY <2>1
<1>5. MediaAccounted'
  <2> SUFFICES ASSUME NEW i \in Calls,
                      (sources[i].open /\ i \notin abandoned') \/ workers[i].at \in {"running", "closing"}
               PROVE  (managed = i \/ requests'[i].at = "unopen") /\ runtime'.state # "stopped"
    BY DEF MediaAccounted, MediaSame
  <2>1. (managed = i \/ requests[i].at = "unopen") /\ runtime.state # "stopped"
    BY DEF ManagerInv, MediaAccounted
  <2>2. requests[i].at = "unopen" => i = c /\ workers[i].at = "none"
    BY DEF Alone, Busy, ManagerInv, CallOK
  <2>3. i # Nobody
    BY CallNumbers
  <2> QED BY <2>1, <2>2, <2>3 DEF ManagerInv
<1> QED BY <1>1, <1>2, <1>3, <1>4, <1>5 DEF ManagerInv

\* A Start that has failed returns.
LEMMA FailedStart ==
  ASSUME ManagerInv, NEW c \in Calls, requests[c].at \in Busy, StartFailed(c), MediaSame,
         abandoned \subseteq abandoned', requests[c].at = "unopen" => ~sources[c].open \/ c \in abandoned'
  PROVE  ManagerInv'
<1>1. runtime' \in RuntimeRecord /\ runtime'.state = "start_failed"
  BY SnapshotMoves DEF StartFailed
<1>2. OnlyCall(c) /\ requests'[c].at = "done" /\ holder' = Nobody
  BY CallMoves DEF StartFailed, Leave
<1>3. holder' \in Nat
  BY <1>2 DEF Nobody
<1> QED BY <1>1, <1>2, <1>3, CallAlone, CallReturned, CallStep

\* A request that takes the lock.
LEMMA TakeStartStep == ASSUME ManagerInv, NEW c \in Calls, TakeStart(c) PROVE ManagerInv'
<1>1. requests[c].at = "idle" /\ holder = Nobody /\ holder' = c /\ MediaSame /\ runtime' = runtime /\ abandoned' = abandoned
  BY DEF TakeStart, MediaSame
<1>2. PICK o \in StartOps : requests' = [requests EXCEPT ![c].at = "start", ![c].kind = "start", ![c].op = o]
  BY DEF TakeStart
<1>3. PICK q \in RequestRecord : q = requests[c]
  BY DEF ManagerInv, ManagerTypes
<1> DEFINE r == [q EXCEPT !.at = "start", !.kind = "start", !.op = o]
<1>4. requests' = [requests EXCEPT ![c] = r] /\ requests \in [Calls -> RequestRecord]
  BY <1>2, <1>3 DEF ManagerInv, ManagerTypes
<1>5. r \in RequestRecord /\ r.at = "start"
  BY DEF RequestRecord, Busy
<1> HIDE DEF r
<1>6. OnlyCall(c) /\ requests'[c].at = "start"
  BY <1>4, <1>5 DEF OnlyCall
<1>7. CallOK(c)'
  BY <1>1, <1>6 DEF ManagerInv, CallOK, Fresh, MediaSame
<1>8. runtime \in RuntimeRecord /\ holder' \in Nat
  BY <1>1, CallNumbers DEF ManagerInv, ManagerTypes
<1> QED BY <1>1, <1>6, <1>7, <1>8, CallAlone, CallStep

\* A Start answers, is refused, or saves its intent.
LEMMA BeginBuildStep == ASSUME ManagerInv, NEW c \in Calls, BeginBuild(c) PROVE ManagerInv'
<1>1. requests[c].at = "start" /\ requests[c].at \in Busy /\ MediaSame /\ abandoned' = abandoned
  BY DEF BeginBuild, MediaSame, Busy
<1>2. CASE Leave(c) /\ UNCHANGED runtime
  <2>1. OnlyCall(c) /\ requests'[c].at = "done" /\ holder' \in Nat
    BY <1>2, CallMoves DEF Leave, Nobody
  <2>2. runtime' \in RuntimeRecord
    BY <1>2 DEF ManagerInv, ManagerTypes
  <2> QED BY <1>1, <1>2, <2>1, <2>2, CallAlone, CallReturned, CallStep
<1>3. CASE runtime' = [state |-> "starting", op |-> requests[c].op] /\ To(c, "build") /\ UNCHANGED holder
  <2>1. OnlyCall(c) /\ requests'[c].at = "build"
    BY <1>3, CallMoves DEF Busy
  <2>2. runtime' \in RuntimeRecord /\ runtime'.state = "starting"
    BY <1>3 DEF ManagerInv, ManagerTypes, RequestRecord, RuntimeRecord
  <2>3. holder' = c
    BY <1>1, <1>3, LockHeld
  <2>4. CallOK(c)'
    BY <1>1, <2>1, <2>2, <2>3 DEF ManagerInv, CallOK, Fresh, MediaSame
  <2> QED BY <1>1, <2>1, <2>2, <2>3, <2>4, CallAlone, CallNumbers, CallStep
<1> QED BY <1>2, <1>3 DEF BeginBuild

\* A Start meets the registered runtime.
LEMMA MeetEntryStep == ASSUME ManagerInv, NEW c \in Calls, MeetEntry(c) PROVE ManagerInv'
<1>1. /\ requests[c].at = "build" /\ requests[c].at \in Busy /\ managed \in Calls /\ runtime.state = "starting"
      /\ UNCHANGED <<managed, items, workers, reports, abandoned>>
  BY DEF MeetEntry, Busy, ManagerInv, ManagerTypes, CallOK
<1>2. CASE StartFailed(c) /\ UNCHANGED sources
  BY <1>1, <1>2, FailedStart DEF MediaSame
<1>3. CASE To(c, "activate") /\ UNCHANGED <<runtime, holder, sources>>
  <2>1. OnlyCall(c) /\ requests'[c].at = "activate"
    BY <1>3, CallMoves DEF Busy
  <2>2. CallOK(c)'
    BY <1>1, <1>3, <2>1 DEF ManagerInv, CallOK, Busy
  <2> QED BY <1>1, <1>3, <2>1, <2>2, CallAlone, CallStep DEF ManagerInv, ManagerTypes, MediaSame
<1>4. CASE /\ ~items[managed].stopping /\ items[managed].finished
           /\ BeginClose(managed)
           /\ requests' = [requests EXCEPT ![c].at = "replace", ![c].item = managed,
                                    ![c].attempt = Attempt(managed)]
           /\ UNCHANGED <<runtime, holder>>
  <2>1. /\ sources' \in [Calls -> SourceRecord]
        /\ \A j \in Calls : SourceOK(j)' /\ SourceKept(j) /\ (j # managed => sources'[j] = sources[j])
        /\ Attempt(managed) \in Nat /\ Attempt(managed) \in DOMAIN sources'[managed].tries
    BY <1>1, <1>4, CloseBegins
  <2>2. PICK q \in RequestRecord, n \in Nat : q = requests[c] /\ n = Attempt(managed)
    BY <2>1 DEF ManagerInv, ManagerTypes
  <2> DEFINE r == [q EXCEPT !.at = "replace", !.item = managed, !.attempt = n]
  <2>3. requests' = [requests EXCEPT ![c] = r] /\ requests \in [Calls -> RequestRecord]
    BY <1>4, <2>2 DEF ManagerInv, ManagerTypes
  <2>4. r \in RequestRecord /\ r.at = "replace" /\ r.item = managed /\ r.attempt = n
    BY <1>1 DEF RequestRecord, Busy
  <2> HIDE DEF r
  <2>5. OnlyCall(c) /\ requests'[c].at = "replace" /\ requests'[c].item = managed /\ requests'[c].attempt = n
    BY <2>3, <2>4 DEF OnlyCall
  <2>6. Alone(c) /\ holder = c
    BY <1>1, CallAlone, LockHeld
  <2>7. ManagerTypes'
    BY <1>1, <1>4, <2>1, <2>5 DEF ManagerInv, ManagerTypes, OnlyCall
  <2>8. \A i \in Calls : LoopOK(i)'
    <3> SUFFICES ASSUME NEW i \in Calls PROVE LoopOK(i)'
      OBVIOUS
    <3>1. LoopKept(i)
      BY <1>1, <2>1, <2>6 DEF LoopKept, Alone, ManagerInv, LoopOK
    <3> QED BY <3>1, KeptLoop
  <2>9. managed # c
    BY <1>1 DEF ManagerInv, CallOK, Fresh
  <2>10. Fresh(c)'
    BY <1>1, <2>1, <2>9 DEF ManagerInv, CallOK, Fresh
  <2>11. CallOK(c)'
    BY <1>1, <1>4, <2>1, <2>2, <2>5, <2>6, <2>10 DEF CallOK
  <2>12. \A d \in Calls : d # c => CallOK(d)'
    <3>1. \A d \in Calls : sources'[d].open => sources[d].open
      BY <2>1 DEF SourceKept
    <3>2. \A d \in Calls : requests[d].at = "idle" => d # managed
      BY DEF ManagerInv, CallOK, Fresh
    <3> QED BY <1>1, <2>1, <2>5, <2>6, <3>1, <3>2, OtherCalls DEF OnlyCall, Alone
  <2>13. MediaAccounted'
    <3> SUFFICES ASSUME NEW i \in Calls,
                        (sources[i].open /\ i \notin abandoned) \/ workers[i].at \in {"running", "closing"}
                 PROVE  managed = i /\ runtime.state # "stopped"
      BY <1>1, <1>4, <2>1 DEF MediaAccounted, SourceKept
    <3>1. requests[i].at # "unopen"
      BY <1>1, <2>6 DEF Alone, Busy
    <3> QED BY <3>1 DEF ManagerInv, MediaAccounted
  <2> QED BY <2>1, <2>7, <2>8, <2>11, <2>12, <2>13 DEF ManagerInv
<1> QED BY <1>2, <1>3, <1>4 DEF MeetEntry

\* An ended runtime is replaced once its source is closed.
LEMMA ReplaceEntryStep == ASSUME ManagerInv, NEW c \in Calls, ReplaceEntry(c) PROVE ManagerInv'
<1> DEFINE i == requests[c].item
<1>1. /\ requests[c].at = "replace" /\ requests[c].at \in Busy /\ runtime.state = "starting" /\ Fresh(c)
      /\ UNCHANGED <<items, sources, workers, reports, abandoned>>
      /\ i \in Calls /\ managed \in {i, Nobody} /\ requests[c].attempt \in DOMAIN sources[i].tries
      /\ items[i].finished
  BY DEF ReplaceEntry, Busy, ManagerInv, CallOK
<1>2. CASE StartFailed(c) /\ UNCHANGED managed
  BY <1>1, <1>2, FailedStart DEF MediaSame
<1>3. CASE /\ CloseResult(i, requests[c].attempt) = "ok"
           /\ managed' = Nobody /\ To(c, "build") /\ UNCHANGED <<runtime, holder>>
  <2>1. OnlyCall(c) /\ requests'[c].at = "build"
    BY <1>3, CallMoves DEF Busy
  <2>2. Alone(c) /\ holder = c
    BY <1>1, CallAlone, LockHeld
  <2>3. ~sources[i].open /\ workers[i].at \in {"none", "done"}
    BY <1>1, <1>3 DEF ManagerInv, SourceOK, LoopOK, CloseResult
  <2>4. ManagerTypes' /\ \A j \in Calls : SourceOK(j)'
    BY <1>1, <1>3, <2>1 DEF ManagerInv, ManagerTypes, OnlyCall, SourceOK
  <2>5. \A j \in Calls : LoopOK(j)'
    <3> SUFFICES ASSUME NEW j \in Calls PROVE LoopOK(j)'
      OBVIOUS
    <3>1. workers[j].at \notin Looping
      BY <1>1, <2>3, CallNumbers DEF ManagerInv, LoopOK, Looping
    <3>2. LoopKept(j)
      BY <1>1, <2>2, <3>1 DEF LoopKept, SourceKept, Alone
    <3> QED BY <3>2, KeptLoop
  <2>6. CallOK(c)'
    BY <1>1, <1>3, <2>1, <2>2, CallNumbers DEF CallOK, Fresh
  <2>7. \A d \in Calls : d # c => CallOK(d)'
    BY <1>1, <1>3, <2>1, <2>2, CallNumbers, OtherCalls DEF OnlyCall, Alone
  <2>8. MediaAccounted'
    <3> SUFFICES ASSUME NEW j \in Calls,
                        (sources[j].open /\ j \notin abandoned) \/ workers[j].at \in {"running", "closing"}
                 PROVE  FALSE
      BY <1>1 DEF MediaAccounted
    <3>1. managed = j \/ requests[j].at = "unopen"
      BY DEF ManagerInv, MediaAccounted
    <3> QED BY <1>1, <2>2, <2>3, <3>1, CallNumbers DEF Alone, Busy
  <2> QED BY <2>4, <2>5, <2>6, <2>7, <2>8 DEF ManagerInv
<1> QED BY <1>2, <1>3 DEF ReplaceEntry

\* A source is opened and registered, or opened and closed again.
LEMMA OpenSourceStep == ASSUME ManagerInv, NEW c \in Calls, OpenSource(c) PROVE ManagerInv'
<1>1. /\ requests[c].at = "build" /\ requests[c].at \in Busy /\ runtime.state = "starting" /\ Fresh(c)
      /\ managed = Nobody /\ UNCHANGED <<runtime, holder, workers, reports, abandoned>>
  BY DEF OpenSource, Busy, ManagerInv, CallOK
<1>2. /\ Alone(c) /\ holder = c /\ c # Nobody
      /\ \A i \in Calls : workers[i].at \notin Looping /\ (sources[i].open => i \in abandoned)
  <2>1. Alone(c) /\ holder = c /\ \A i \in Calls : i # Nobody
    BY <1>1, CallAlone, LockHeld, CallNumbers
  <2>2. \A i \in Calls : workers[i].at \notin Looping
    BY <1>1, <2>1 DEF ManagerInv, LoopOK
  <2>3. \A i \in Calls : requests[i].at # "unopen"
    BY <1>1, <2>1 DEF Alone, Busy
  <2> QED BY <1>1, <2>1, <2>2, <2>3 DEF ManagerInv, MediaAccounted
<1>3. CASE /\ managed' = c
           /\ items' = [items EXCEPT ![c].op = requests[c].op]
           /\ sources' = [sources EXCEPT ![c].open = TRUE]
           /\ To(c, "activate")
  <2>1. OnlyCall(c) /\ requests'[c].at = "activate"
    BY <1>3, CallMoves DEF Busy
  <2>2. /\ sources' \in [Calls -> SourceRecord] /\ \A d \in Calls : d # c => sources'[d] = sources[d]
        /\ sources'[c].tries = <<>> /\ sources'[c].attempt = sources[c].attempt
    BY <1>1, <1>3 DEF ManagerInv, ManagerTypes, SourceRecord, Fresh
  <2>3. /\ items' \in [Calls -> ItemRecord]
        /\ \A d \in Calls : /\ items'[d].active = items[d].active /\ items'[d].finished = items[d].finished
                            /\ items'[d].terminal = items[d].terminal /\ items'[d].stopping = items[d].stopping
    <3>1. requests[c].op \in StartOps \cup {"none"}
      BY DEF ManagerInv, ManagerTypes, RequestRecord
    <3> QED BY <1>3, <3>1 DEF ManagerInv, ManagerTypes, ItemRecord
  <2>4. ManagerTypes'
    BY <1>1, <1>3, <2>1, <2>2, <2>3 DEF ManagerInv, ManagerTypes, OnlyCall
  <2>5. \A j \in Calls : SourceOK(j)'
    BY <1>1, <2>2 DEF ManagerInv, SourceOK, Fresh
  <2>6. \A j \in Calls : LoopOK(j)'
    <3>1. workers[c].at = "none"
      BY <1>1 DEF Fresh
    <3> QED BY <1>1, <1>2, <2>2, <2>3, <3>1 DEF ManagerInv, LoopOK, Looping
  <2>7. CallOK(c)'
    BY <1>1, <1>2, <2>1 DEF CallOK
  <2>8. \A d \in Calls : d # c => CallOK(d)'
    BY <1>1, <1>2, <1>3, <2>1, <2>2, OtherCalls DEF OnlyCall, Alone
  <2>9. MediaAccounted'
    BY <1>1, <1>2, <1>3, <2>2 DEF MediaAccounted, Looping
  <2> QED BY <2>4, <2>5, <2>6, <2>7, <2>8, <2>9 DEF ManagerInv
<1>4. CASE /\ sources' = [sources EXCEPT ![c] =
                            [open |-> TRUE, attempt |-> 1, tries |-> <<"running">>, err |-> FALSE]]
           /\ requests' = [requests EXCEPT ![c].at = "unopen", ![c].attempt = 1]
           /\ UNCHANGED <<managed, items>>
  <2>1. PICK q \in RequestRecord : q = requests[c]
    BY DEF ManagerInv, ManagerTypes
  <2> DEFINE r == [q EXCEPT !.at = "unopen", !.attempt = 1]
  <2>2. requests' = [requests EXCEPT ![c] = r] /\ requests \in [Calls -> RequestRecord]
    BY <1>4, <2>1 DEF ManagerInv, ManagerTypes
  <2>3. r \in RequestRecord /\ r.at = "unopen"
    BY DEF RequestRecord, Busy
  <2> HIDE DEF r
  <2>4. OnlyCall(c) /\ requests'[c].at = "unopen"
    BY <2>2, <2>3 DEF OnlyCall
  <2> DEFINE s == [open |-> TRUE, attempt |-> 1, tries |-> <<"running">>, err |-> FALSE]
  <2>5. s \in SourceRecord /\ s.tries = <<"running">> /\ s.attempt = 1
    <3>1. <<"running">> \in Seq(Results)
      BY DEF Results
    <3> QED BY <3>1 DEF SourceRecord
  <2>6. /\ Len(<<"running">>) = 1 /\ DOMAIN <<"running">> = 1 .. 1 /\ <<"running">>[1] = "running"
        /\ 1 \in 0 .. 1 /\ \A n \in 1 .. 1 : n = 1
    OBVIOUS
  <2>7. sources' = [sources EXCEPT ![c] = s]
    BY <1>4
  <2> HIDE DEF s
  <2>8. sources' \in [Calls -> SourceRecord] /\ \A d \in Calls : sources'[d] = IF d = c THEN s ELSE sources[d]
    BY <2>5, <2>7 DEF ManagerInv, ManagerTypes
  <2>9. ManagerTypes'
    BY <1>1, <1>4, <2>4, <2>8 DEF ManagerInv, ManagerTypes, OnlyCall
  <2>10. \A j \in Calls : SourceOK(j)'
    <3>1. SourceOK(c)'
      BY <2>5, <2>6, <2>8 DEF SourceOK
    <3> QED BY <2>8, <3>1 DEF ManagerInv, SourceOK
  <2>11. \A j \in Calls : LoopOK(j)'
    <3>1. workers[c].at = "none"
      BY <1>1 DEF Fresh
    <3> QED BY <1>1, <1>2, <1>4, <2>8, <3>1 DEF ManagerInv, LoopOK, Looping
  <2>12. CallOK(c)'
    BY <1>1, <1>2, <1>4, <2>4, <2>5, <2>6, <2>8 DEF CallOK, Fresh
  <2>13. \A d \in Calls : d # c => CallOK(d)'
    BY <1>1, <1>2, <1>4, <2>4, <2>8, OtherCalls DEF OnlyCall, Alone
  <2>14. MediaAccounted'
    <3> SUFFICES ASSUME NEW i \in Calls,
                        (sources'[i].open /\ i \notin abandoned) \/ workers[i].at \in {"running", "closing"}
                 PROVE  requests'[i].at = "unopen"
      BY <1>1 DEF MediaAccounted
    <3>1. i = c
      BY <1>2, <2>8 DEF Looping
    <3> QED BY <2>4, <3>1
  <2> QED BY <2>9, <2>10, <2>11, <2>12, <2>13, <2>14 DEF ManagerInv
<1> QED BY <1>3, <1>4 DEF OpenSource

\* The source of a failed Start was closed, or is given up.
LEMMA UnopenStep == ASSUME ManagerInv, NEW c \in Calls, Unopen(c) PROVE ManagerInv'
<1>1. requests[c].at = "unopen" /\ requests[c].at \in Busy /\ StartFailed(c) /\ MediaSame
  BY DEF Unopen, Busy, MediaSame
<1>2. abandoned \subseteq abandoned' /\ (CloseResult(c, 1) = "ok" \/ c \in abandoned')
  BY DEF Unopen
<1>3. 1 \in DOMAIN sources[c].tries
  BY <1>1 DEF ManagerInv, CallOK
<1>4. CloseResult(c, 1) = "ok" => ~sources[c].open
  BY <1>3 DEF ManagerInv, SourceOK, CloseResult
<1> QED BY <1>1, <1>2, <1>4, FailedStart

\* A Stop takes the lock, or has nothing to do.
LEMMA TakeStopStep == ASSUME ManagerInv, NEW c \in Calls, TakeStop(c) PROVE ManagerInv'
<1>1. requests[c].at = "idle" /\ holder = Nobody /\ MediaSame /\ abandoned' = abandoned /\ Alone(c)
  BY CallAlone DEF TakeStop, MediaSame
<1>2. CASE To(c, "done") /\ UNCHANGED <<runtime, holder>>
  <2>1. OnlyCall(c) /\ requests'[c].at = "done"
    BY <1>2, CallMoves
  <2> QED BY <1>1, <1>2, <2>1, CallReturned, CallStep DEF ManagerInv, ManagerTypes
<1>3. CASE /\ requests' = [requests EXCEPT ![c].at = "stop", ![c].kind = "stop"]
           /\ Snapshot("stopping") /\ holder' = c
  <2>1. PICK q \in RequestRecord : q = requests[c]
    BY DEF ManagerInv, ManagerTypes
  <2> DEFINE r == [q EXCEPT !.at = "stop", !.kind = "stop"]
  <2>2. requests' = [requests EXCEPT ![c] = r] /\ requests \in [Calls -> RequestRecord]
    BY <1>3, <2>1 DEF ManagerInv, ManagerTypes
  <2>3. r \in RequestRecord /\ r.at = "stop"
    BY DEF RequestRecord, Busy
  <2> HIDE DEF r
  <2>4. OnlyCall(c) /\ requests'[c].at = "stop"
    BY <2>2, <2>3 DEF OnlyCall
  <2>5. runtime' \in RuntimeRecord /\ runtime'.state = "stopping"
    BY <1>3, SnapshotMoves
  <2>6. CallOK(c)'
    BY <1>3, <2>4 DEF CallOK
  <2> QED BY <1>1, <1>3, <2>4, <2>5, <2>6, CallNumbers, CallStep
<1> QED BY <1>2, <1>3 DEF TakeStop

\* The media loop begins, or the Start that could not begin it stops it again.
LEMMA ActivateEntryStep == ASSUME ManagerInv, NEW c \in Calls, ActivateEntry(c) PROVE ManagerInv'
<1>1. /\ requests[c].at = "activate" /\ requests[c].at \in Busy /\ runtime.state = "starting"
      /\ UNCHANGED <<managed, sources, reports, abandoned>>
  BY DEF ActivateEntry, Busy, ManagerInv, CallOK
<1>2. Alone(c) /\ holder = c
  BY <1>1, CallAlone, LockHeld
<1>3. CASE To(c, "stop") /\ UNCHANGED <<runtime, holder, items, workers>>
  <2>1. OnlyCall(c) /\ requests'[c].at = "stop"
    BY <1>3, CallMoves DEF Busy
  <2>2. CallOK(c)'
    BY <1>2, <1>3, <2>1 DEF CallOK
  <2> QED BY <1>1, <1>2, <1>3, <2>1, <2>2, CallStep DEF ManagerInv, ManagerTypes, MediaSame
<1>4. CASE /\ ~items[managed].stopping
           /\ Snapshot("listening") /\ Leave(c)
           /\ items' = [items EXCEPT ![managed].active = TRUE]
           /\ workers' = IF items[managed].active THEN workers
                         ELSE [workers EXCEPT ![managed].at = "running"]
  <2>1. OnlyCall(c) /\ requests'[c].at = "done" /\ holder' \in Nat
    BY <1>4, CallMoves DEF Leave, Nobody
  <2>2. runtime' \in RuntimeRecord /\ runtime'.state = "listening"
    BY <1>4, SnapshotMoves
  <2>3. CASE managed \notin Calls
    <3>1. items' = items /\ workers' = workers
      BY <1>4, <2>3 DEF ManagerInv, ManagerTypes
    <3> QED BY <1>1, <1>2, <2>1, <2>2, <3>1, CallReturned, CallStep DEF MediaSame
  <2>4. CASE managed \in Calls
    <3>1. /\ items' \in [Calls -> ItemRecord] /\ items'[managed].active
          /\ \A d \in Calls : /\ d # managed => items'[d] = items[d]
                              /\ items'[d].finished = items[d].finished
                              /\ items'[d].terminal = items[d].terminal /\ items'[d].stopping = items[d].stopping
      <4>1. PICK q \in ItemRecord : q = items[managed]
        BY <2>4 DEF ManagerInv, ManagerTypes
      <4> DEFINE r == [q EXCEPT !.active = TRUE]
      <4>2. items' = [items EXCEPT ![managed] = r]
        BY <1>4, <4>1
      <4>3. r \in ItemRecord /\ r.active /\ r.finished = q.finished /\ r.terminal = q.terminal /\ r.stopping = q.stopping
        BY DEF ItemRecord
      <4> HIDE DEF r
      <4> QED BY <2>4, <4>1, <4>2, <4>3 DEF ManagerInv, ManagerTypes
    <3>2. /\ workers' \in [Calls -> WorkerRecord] /\ \A d \in Calls : d # managed => workers'[d] = workers[d]
          /\ IF items[managed].active THEN workers' = workers ELSE workers'[managed].at = "running"
      BY <1>4, <2>4 DEF ManagerInv, ManagerTypes, WorkerRecord, Looping
    <3>3. ManagerTypes'
      BY <1>1, <2>1, <2>2, <3>1, <3>2 DEF ManagerInv, ManagerTypes, OnlyCall
    <3>4. \A j \in Calls : SourceOK(j)'
      BY <1>1 DEF ManagerInv, SourceOK
    <3>5. \A j \in Calls : LoopOK(j)'
      <4>1. \A j \in Calls : j # managed => LoopOK(j)'
        BY <1>1, <1>2, <3>1, <3>2 DEF ManagerInv, LoopOK, Looping, Alone
      <4>2. CASE items[managed].active
        BY <1>1, <1>2, <2>4, <3>1, <3>2, <4>1, <4>2 DEF ManagerInv, LoopOK, Looping, Alone
      <4>3. CASE ~items[managed].active
        <5>1. workers[managed].at = "none" /\ ~items[managed].finished
          BY <1>4, <2>4, <4>3 DEF ManagerInv, LoopOK
        <5>2. reports[managed].at \in {"waiting", "read"} => reports[managed].over
          BY <2>4, <5>1 DEF ManagerInv, LoopOK
        <5>3. PICK m \in Calls : m = managed
          BY <2>4
        <5>4. LoopOK(m)'
          BY <5>3, <1>1, <1>2, <2>4, <3>1, <3>2, <4>3, <5>1, <5>2 DEF ManagerInv, LoopOK, Looping, Alone
        <5> QED BY <4>1, <5>3, <5>4
      <4> QED BY <4>2, <4>3
    <3>6. \A d \in Calls : d # c => CallOK(d)'
      BY <1>1, <1>2, <2>1, <3>2, OtherCalls DEF OnlyCall, Alone
    <3>7. MediaAccounted'
      <4> SUFFICES ASSUME NEW i \in Calls,
                          (sources[i].open /\ i \notin abandoned) \/ workers'[i].at \in {"running", "closing"}
                   PROVE  managed = i
        BY <1>1, <2>2 DEF MediaAccounted
      <4>1. i # managed => workers'[i] = workers[i] /\ requests[i].at # "unopen"
        BY <1>1, <1>2, <3>2 DEF Alone, Busy
      <4> QED BY <4>1 DEF ManagerInv, MediaAccounted
    <3> QED BY <2>1, <3>3, <3>4, <3>5, <3>6, <3>7, CallReturned DEF ManagerInv
  <2> QED BY <2>3, <2>4
<1> QED BY <1>3, <1>4 DEF ActivateEntry

\* A call whose pipeline is stopped concludes: it writes the snapshot and
\* returns, and says stopped only if all that it stopped is.
LEMMA Concluded ==
  ASSUME ManagerInv, NEW c \in Calls, NEW ok \in BOOLEAN, Conclude(c, ok)
  PROVE  /\ runtime' \in RuntimeRecord /\ (runtime'.state = "stopped" => ok)
         /\ OnlyCall(c) /\ requests'[c].at = "done" /\ holder' = Nobody
<1>1. Leave(c)
  BY DEF Conclude, StartFailed
<1>2. OnlyCall(c) /\ requests'[c].at = "done" /\ holder' = Nobody
  BY <1>1, CallMoves DEF Leave
<1>3. Snapshot("start_failed") \/ Snapshot("stop_failed") \/ (ok /\ Snapshot("stopped"))
  BY DEF Conclude, StartFailed
<1> QED BY <1>2, <1>3, SnapshotMoves

\* Without a runtime there is nothing to stop.
LEMMA StopWithoutStep == ASSUME ManagerInv, NEW c \in Calls, StopWithout(c) PROVE ManagerInv'
<1>1. requests[c].at = "stop" /\ requests[c].at \in Busy /\ managed = Nobody /\ MediaSame /\ abandoned' = abandoned
  BY DEF StopWithout, Busy, MediaSame
<1>2. runtime' \in RuntimeRecord /\ OnlyCall(c) /\ requests'[c].at = "done" /\ holder' = Nobody
  BY Concluded DEF StopWithout
<1> QED BY <1>1, <1>2, CallAlone, CallReturned, CallStep DEF Nobody

\* A stop gives up waiting; the close and the loop go on.
LEMMA StopTimesOutStep == ASSUME ManagerInv, NEW c \in Calls, StopTimesOut(c) PROVE ManagerInv'
<1>1. requests[c].at \in {"close", "await"} /\ requests[c].at \in Busy /\ MediaSame /\ abandoned' = abandoned
  BY DEF StopTimesOut, Busy, MediaSame
<1>2. Snapshot("start_failed") \/ Snapshot("stop_failed")
  BY DEF StopTimesOut
<1>3. runtime' \in RuntimeRecord /\ runtime'.state # "stopped"
  BY <1>2, SnapshotMoves
<1>4. OnlyCall(c) /\ requests'[c].at = "done" /\ holder' \in Nat
  BY CallMoves DEF StopTimesOut, Leave, Nobody
<1> QED BY <1>1, <1>3, <1>4, CallAlone, CallReturned, CallStep

\* A Stop cancels the registered runtime and begins to close its source.
LEMMA CancelEntryStep == ASSUME ManagerInv, NEW c \in Calls, CancelEntry(c) PROVE ManagerInv'
<1>1. /\ requests[c].at = "stop" /\ requests[c].at \in Busy /\ managed \in Calls
      /\ UNCHANGED <<runtime, holder, managed, workers, reports, abandoned>>
  BY DEF CancelEntry, Busy, ManagerInv, ManagerTypes
<1>2. Alone(c) /\ holder = c
  BY <1>1, CallAlone, LockHeld
<1>3. PICK i \in Calls : i = managed
  BY <1>1
<1>4. BeginClose(i)
  BY <1>3 DEF CancelEntry
<1>5. /\ sources' \in [Calls -> SourceRecord]
      /\ \A j \in Calls : SourceOK(j)' /\ SourceKept(j) /\ (j # i => sources'[j] = sources[j])
      /\ Attempt(i) \in Nat /\ Attempt(i) \in DOMAIN sources'[i].tries
  BY <1>4, CloseBegins
<1>6. /\ items' \in [Calls -> ItemRecord] /\ items'[i].stopping
      /\ \A d \in Calls : /\ items'[d].finished = items[d].finished /\ items'[d].active = items[d].active
                          /\ items'[d].terminal = items[d].terminal
                          /\ items[d].stopping => items'[d].stopping
  <2>1. PICK q \in ItemRecord : q = items[i]
    BY DEF ManagerInv, ManagerTypes
  <2> DEFINE r == [q EXCEPT !.stopping = TRUE, !.cancelled = TRUE]
  <2>2. items' = [items EXCEPT ![i] = r]
    BY <1>3, <2>1 DEF CancelEntry
  <2>3. r \in ItemRecord /\ r.stopping /\ r.finished = q.finished /\ r.active = q.active /\ r.terminal = q.terminal
    BY DEF ItemRecord
  <2> HIDE DEF r
  <2> QED BY <2>1, <2>2, <2>3 DEF ManagerInv, ManagerTypes
<1>7. PICK at \in {"await", "close"}, n \in Nat :
          /\ n = Attempt(i) /\ (at = "close" => ~items[i].active \/ items[i].finished)
          /\ at = IF items[managed].active /\ ~items[managed].finished THEN "await" ELSE "close"
  BY <1>3, <1>5
<1>8. OnlyCall(c) /\ requests'[c].at = at /\ requests'[c].item = i /\ requests'[c].attempt = n
  <2>1. PICK q \in RequestRecord, b \in BOOLEAN : q = requests[c] /\ b = items[managed].finished
    BY <1>1 DEF ManagerInv, ManagerTypes, ItemRecord
  <2> DEFINE r == [q EXCEPT !.at = at, !.item = i, !.attempt = n, !.finished = b]
  <2>2. requests' = [requests EXCEPT ![c] = r] /\ requests \in [Calls -> RequestRecord]
    BY <1>3, <1>7, <2>1 DEF CancelEntry, ManagerInv, ManagerTypes
  <2>3. r \in RequestRecord /\ r.at = at /\ r.item = i /\ r.attempt = n
    BY DEF RequestRecord, Busy
  <2> HIDE DEF r
  <2> QED BY <2>2, <2>3 DEF OnlyCall
<1>9. ManagerTypes'
  BY <1>1, <1>5, <1>6, <1>8 DEF ManagerInv, ManagerTypes, OnlyCall
<1>10. \A j \in Calls : LoopOK(j)'
  <2> SUFFICES ASSUME NEW j \in Calls PROVE LoopOK(j)'
    OBVIOUS
  <2>1. LoopKept(j)
    BY <1>1, <1>2, <1>5, <1>6 DEF LoopKept, Alone, ManagerInv, LoopOK
  <2> QED BY <2>1, KeptLoop
<1>11. CallOK(c)'
  BY <1>1, <1>2, <1>3, <1>5, <1>6, <1>7, <1>8 DEF CallOK
<1>12. \A d \in Calls : d # c => CallOK(d)'
  <2>1. \A d \in Calls : sources'[d].open => sources[d].open
    BY <1>5 DEF SourceKept
  <2>2. \A d \in Calls : requests[d].at = "idle" => d # i
    BY <1>3 DEF ManagerInv, CallOK, Fresh
  <2> QED BY <1>1, <1>2, <1>5, <1>8, <2>1, <2>2, OtherCalls DEF OnlyCall, Alone
<1>13. MediaAccounted'
  <2> SUFFICES ASSUME NEW j \in Calls,
                      (sources[j].open /\ j \notin abandoned) \/ workers[j].at \in {"running", "closing"}
               PROVE  managed = j /\ runtime.state # "stopped"
    BY <1>1, <1>5 DEF MediaAccounted, SourceKept
  <2>1. requests[j].at # "unopen"
    BY <1>1, <1>2 DEF Alone, Busy
  <2> QED BY <2>1 DEF ManagerInv, MediaAccounted
<1> QED BY <1>5, <1>9, <1>10, <1>11, <1>12, <1>13 DEF ManagerInv

\* A Stop settles a runtime that has no media loop, once its source is closed.
LEMMA CloseEntryStep == ASSUME ManagerInv, NEW c \in Calls, CloseEntry(c) PROVE ManagerInv'
<1>1. /\ requests[c].at = "close" /\ requests[c].at \in Busy
      /\ UNCHANGED <<runtime, holder, managed, sources, workers, reports, abandoned>>
      /\ OnlyCall(c) /\ requests'[c].at = "await" /\ requests'[c].item = requests[c].item
      /\ requests'[c].attempt = requests[c].attempt
  BY CallMoves DEF CloseEntry, Busy
<1>2. Alone(c) /\ holder = c
  BY <1>1, CallAlone, LockHeld
<1>3. PICK i \in Calls : i = requests[c].item
  BY <1>1 DEF ManagerInv, CallOK
<1>4. /\ items[i].stopping /\ (~items[i].active \/ items[i].finished)
      /\ managed \in {i, Nobody} /\ requests[c].attempt \in DOMAIN sources[i].tries
  BY <1>1, <1>3 DEF ManagerInv, CallOK
<1>5. /\ items' \in [Calls -> ItemRecord]
      /\ \A d \in Calls : /\ items'[d].stopping = items[d].stopping /\ items'[d].active = items[d].active
                          /\ items'[d].terminal = items[d].terminal
                          /\ items'[d].finished = items[d].finished \/ (d = i /\ ~items[i].finished /\ items'[d].finished)
  <2>1. CASE items[i].finished
    BY <1>3, <2>1 DEF CloseEntry, ManagerInv, ManagerTypes
  <2>2. CASE ~items[i].finished
    <3>1. PICK q \in ItemRecord, b \in BOOLEAN : q = items[i] /\ b = (Outcome(c) = "err")
      BY DEF ManagerInv, ManagerTypes
    <3> DEFINE r == [q EXCEPT !.finished = TRUE, !.failed = b]
    <3>2. items' = [items EXCEPT ![i] = r]
      BY <1>3, <2>2, <3>1 DEF CloseEntry
    <3>3. r \in ItemRecord /\ r.finished /\ r.stopping = q.stopping /\ r.active = q.active /\ r.terminal = q.terminal
      BY DEF ItemRecord
    <3> HIDE DEF r
    <3> QED BY <2>2, <3>1, <3>2, <3>3 DEF ManagerInv, ManagerTypes
  <2> QED BY <2>1, <2>2
<1>6. ManagerTypes' /\ \A j \in Calls : SourceOK(j)'
  BY <1>1, <1>5 DEF ManagerInv, ManagerTypes, OnlyCall, SourceOK
<1>7. \A j \in Calls : LoopOK(j)'
  <2> SUFFICES ASSUME NEW j \in Calls PROVE LoopOK(j)'
    OBVIOUS
  <2>1. ~items[j].active => workers[j].at = "none"
    BY DEF ManagerInv, LoopOK
  <2>2. LoopKept(j)
    BY <1>1, <1>2, <1>4, <1>5, <2>1 DEF LoopKept, SourceKept, Alone, ManagerInv, LoopOK
  <2> QED BY <2>2, KeptLoop
<1>8. CallOK(c)'
  BY <1>1, <1>2, <1>3, <1>4, <1>5 DEF CallOK
<1>9. \A d \in Calls : d # c => CallOK(d)'
  BY <1>1, <1>2, OtherCalls DEF OnlyCall, Alone
<1>10. MediaAccounted'
  BY <1>1, <1>2 DEF ManagerInv, MediaAccounted, Alone, Busy
<1> QED BY <1>6, <1>7, <1>8, <1>9, <1>10 DEF ManagerInv

\* The entry goes once its source is closed, or its close is left to itself.
LEMMA RemoveEntryStep == ASSUME ManagerInv, NEW c \in Calls, RemoveEntry(c) PROVE ManagerInv'
<1>1. /\ requests[c].at = "await" /\ requests[c].at \in Busy /\ items[requests[c].item].finished
      /\ UNCHANGED <<items, sources, workers, reports>>
  BY DEF RemoveEntry, Busy
<1>2. Alone(c) /\ holder = c
  BY <1>1, CallAlone, LockHeld
<1>3. PICK i \in Calls : i = requests[c].item
  BY <1>1 DEF ManagerInv, CallOK
<1>4. PICK ok \in BOOLEAN : Conclude(c, ok) /\ (ok => Outcome(c) # "err")
  BY DEF RemoveEntry
<1>5. /\ runtime' \in RuntimeRecord /\ (runtime'.state = "stopped" => ok)
      /\ OnlyCall(c) /\ requests'[c].at = "done" /\ holder' \in Nat
  BY <1>4, Concluded DEF Nobody
<1>6. /\ managed \in {i, Nobody} /\ requests[c].attempt \in DOMAIN sources[i].tries
      /\ workers[i].at \in {"none", "done"}
  BY <1>1, <1>3 DEF ManagerInv, CallOK, LoopOK
<1>7. /\ managed' \in {managed, Nobody} /\ (Outcome(c) = "err" => managed' = managed)
      /\ (Outcome(c) # "err" => managed' = Nobody)
      /\ abandoned \subseteq abandoned' /\ (Outcome(c) = "running" => i \in abandoned')
  BY <1>3, <1>6 DEF RemoveEntry, Removable
<1>8. /\ Outcome(c) \in Results /\ (Outcome(c) = "ok" => ~sources[i].open)
  <2>1. sources[i].tries \in Seq(Results)
    BY DEF ManagerInv, ManagerTypes, SourceRecord
  <2> QED BY <1>3, <1>6, <2>1 DEF ManagerInv, SourceOK, Outcome, CloseResult
<1>9. ManagerTypes' /\ \A j \in Calls : SourceOK(j)'
  BY <1>1, <1>5, <1>7 DEF ManagerInv, ManagerTypes, OnlyCall, SourceOK
<1>10. \A j \in Calls : workers[j].at \notin Looping
  BY <1>6, CallNumbers DEF ManagerInv, LoopOK, Looping
<1>11. \A j \in Calls : LoopOK(j)'
  <2> SUFFICES ASSUME NEW j \in Calls PROVE LoopOK(j)'
    OBVIOUS
  <2>1. LoopKept(j)
    BY <1>1, <1>2, <1>10 DEF LoopKept, SourceKept, Alone
  <2> QED BY <2>1, KeptLoop
<1>12. \A d \in Calls : CallOK(d)'
  <2>1. \A d \in Calls : d # c => CallOK(d)'
    BY <1>1, <1>2, <1>5, <1>7, CallNumbers, OtherCalls DEF OnlyCall, Alone
  <2> QED BY <1>5, <2>1, CallReturned
<1>13. MediaAccounted'
  <2> SUFFICES ASSUME NEW j \in Calls, sources[j].open /\ j \notin abandoned'
               PROVE  managed' = j /\ runtime'.state # "stopped"
    BY <1>1, <1>10 DEF MediaAccounted, Looping
  <2>1. managed = j
    BY <1>1, <1>2, <1>7 DEF ManagerInv, MediaAccounted, Alone, Busy
  <2>2. i = j
    BY <1>6, <2>1, CallNumbers
  <2>3. Outcome(c) = "err"
    BY <1>7, <1>8, <2>2 DEF Results
  <2> QED BY <1>4, <1>5, <1>7, <2>1, <2>3
<1> QED BY <1>9, <1>11, <1>12, <1>13 DEF ManagerInv

\* What the media side does leaves the calls in order.
CallsKept ==
    /\ requests' = requests /\ managed' \in {managed, Nobody}
    /\ \A i \in Calls : /\ Fresh(i) => Fresh(i)'
                        /\ workers[i].at = "none" => workers'[i].at = "none"
                        /\ DOMAIN sources[i].tries \subseteq DOMAIN sources'[i].tries
                        /\ items[i].finished => items'[i].finished
                        /\ items'[i].stopping = items[i].stopping /\ items'[i].active = items[i].active
    /\ \/ holder' = holder /\ runtime' = runtime
       \/ \A c \in Calls : requests[c].at \notin Busy

\* A call the media side kept is in order.
LEMMA KeptCalls == ASSUME ManagerInv, CallsKept PROVE \A c \in Calls : CallOK(c)'
<1> SUFFICES ASSUME NEW c \in Calls PROVE CallOK(c)'
  OBVIOUS
<1>1. requests'[c] = requests[c] /\ managed' \in {managed, Nobody} /\ c # Nobody
  BY CallNumbers DEF CallsKept
<1>2. Fresh(c) => Fresh(c)'
  BY DEF CallsKept
<1>3. CASE requests[c].at \notin Busy
  BY <1>1, <1>2, <1>3 DEF ManagerInv, CallOK, Busy
<1>4. CASE holder' = holder /\ runtime' = runtime
  BY <1>1, <1>2, <1>4 DEF ManagerInv, CallOK, CallsKept
<1> QED BY <1>3, <1>4 DEF CallsKept

\* A close returns: the source is closed, or its failure is remembered.
LEMMA CloseReturnsStep == ASSUME ManagerInv, NEW i \in Calls, CloseReturns(i) PROVE ManagerInv'
<1>0. PICK s \in SourceRecord : s = sources[i]
  BY DEF ManagerInv, ManagerTypes
<1>1. PICK n \in DOMAIN s.tries : n = s.attempt /\ s.tries[n] = "running" /\ n # 0
  <2>1. s.attempt \in 0 .. Len(s.tries) /\ s.attempt # 0 /\ s.tries \in Seq(Results)
    BY <1>0 DEF CloseReturns, ManagerInv, SourceOK, SourceRecord
  <2>2. s.attempt \in DOMAIN s.tries
    BY <2>1
  <2> QED BY <1>0, <2>1, <2>2 DEF CloseReturns, CloseResult
<1>2. UNCHANGED <<runtime, holder, requests, managed, items, workers, reports, abandoned>>
  BY DEF CloseReturns
<1>3. PICK r \in SourceRecord :
          /\ sources' = [sources EXCEPT ![i] = r] /\ r.open \in BOOLEAN /\ r.err \in BOOLEAN
          /\ DOMAIN r.tries = DOMAIN s.tries /\ Len(r.tries) = Len(s.tries)
          /\ \A m \in DOMAIN s.tries : m # n => r.tries[m] = s.tries[m]
          /\ \/ ~r.open /\ r.attempt = s.attempt
             \/ r.open = s.open /\ r.err /\ r.attempt = 0 /\ r.tries[n] = "err"
  <2>1. s.tries \in Seq(Results)
    BY DEF SourceRecord
  <2>2. \A x \in Results : LET q == [s.tries EXCEPT ![n] = x] IN
          /\ q \in Seq(Results) /\ DOMAIN q = DOMAIN s.tries /\ Len(q) = Len(s.tries) /\ q[n] = x
          /\ \A m \in DOMAIN s.tries : m # n => q[m] = s.tries[m]
    BY <2>1
  <2>3. CASE sources' = [sources EXCEPT ![i].open = FALSE, ![i].err = FALSE,
                                        ![i].tries[sources[i].attempt] = "ok"]
    <3>1. PICK q \in Seq(Results) :
              /\ q = [s.tries EXCEPT ![n] = "ok"] /\ DOMAIN q = DOMAIN s.tries /\ Len(q) = Len(s.tries)
              /\ \A m \in DOMAIN s.tries : m # n => q[m] = s.tries[m]
      BY <2>2 DEF Results
    <3> DEFINE r == [s EXCEPT !.open = FALSE, !.err = FALSE, !.tries = q]
    <3>2. sources' = [sources EXCEPT ![i] = r]
      <4>1. sources \in [Calls -> SourceRecord]
        BY DEF ManagerInv, ManagerTypes
      <4> QED BY <1>0, <1>1, <2>3, <3>1, <4>1 DEF SourceRecord
    <3>3. /\ r \in SourceRecord /\ ~r.open /\ r.attempt = s.attempt /\ r.tries = q
          /\ r.open \in BOOLEAN /\ r.err \in BOOLEAN
      BY DEF SourceRecord
    <3> HIDE DEF r
    <3> QED BY <3>1, <3>2, <3>3
  <2>4. CASE sources' = [sources EXCEPT ![i].attempt = 0, ![i].err = TRUE,
                                        ![i].tries[sources[i].attempt] = "err"]
    <3>1. PICK q \in Seq(Results) :
              /\ q = [s.tries EXCEPT ![n] = "err"] /\ DOMAIN q = DOMAIN s.tries /\ Len(q) = Len(s.tries)
              /\ q[n] = "err" /\ \A m \in DOMAIN s.tries : m # n => q[m] = s.tries[m]
      BY <2>2 DEF Results
    <3> DEFINE r == [s EXCEPT !.attempt = 0, !.err = TRUE, !.tries = q]
    <3>2. sources' = [sources EXCEPT ![i] = r]
      <4>1. sources \in [Calls -> SourceRecord]
        BY DEF ManagerInv, ManagerTypes
      <4> QED BY <1>0, <1>1, <2>4, <3>1, <4>1 DEF SourceRecord
    <3>3. /\ r \in SourceRecord /\ r.open = s.open /\ r.err /\ r.attempt = 0 /\ r.tries = q
          /\ r.open \in BOOLEAN /\ r.err \in BOOLEAN
      BY DEF SourceRecord
    <3> HIDE DEF r
    <3> QED BY <3>1, <3>2, <3>3
  <2> QED BY <2>3, <2>4 DEF CloseReturns
<1>4. sources' \in [Calls -> SourceRecord] /\ \A j \in Calls : sources'[j] = IF j = i THEN r ELSE sources[j]
  BY <1>3 DEF ManagerInv, ManagerTypes
<1>5. \A m \in DOMAIN s.tries : (s.tries[m] = "ok" => ~s.open) /\ (s.tries[m] = "err" => ~s.open \/ s.err)
  BY <1>0 DEF ManagerInv, SourceOK
<1>6. SourceKept(i)
  BY <1>0, <1>3, <1>4 DEF SourceKept
<1>7. SourceOK(i)'
  <2>1. \A m \in DOMAIN r.tries : (r.tries[m] = "ok" => ~r.open) /\ (r.tries[m] = "err" => ~r.open \/ r.err)
    BY <1>3, <1>5
  <2>2. r.attempt \in 0 .. Len(r.tries)
    <3>1. s.attempt \in 0 .. Len(s.tries) /\ 0 \in 0 .. Len(s.tries)
      BY <1>0 DEF ManagerInv, SourceOK
    <3> QED BY <1>3, <3>1
  <2> QED BY <1>4, <2>1, <2>2 DEF SourceOK
<1>8. \A j \in Calls : SourceKept(j) /\ SourceOK(j)'
  BY <1>4, <1>6, <1>7, UntouchedKept DEF ManagerInv, SourceOK
<1>9. ManagerTypes'
  BY <1>2, <1>4 DEF ManagerInv, ManagerTypes
<1>10. \A j \in Calls : LoopOK(j)'
  <2> SUFFICES ASSUME NEW j \in Calls PROVE LoopOK(j)'
    OBVIOUS
  <2>1. SourceKept(j)
    BY <1>8
  <2> QED BY <1>2, <2>1 DEF ManagerInv, LoopOK, SourceKept
<1>11. \A j \in Calls : CallOK(j)'
  <2>1. s.tries # <<>>
    BY <1>1
  <2>2. \A j \in Calls : (Fresh(j) => Fresh(j)') /\ DOMAIN sources[j].tries \subseteq DOMAIN sources'[j].tries
    BY <1>0, <1>2, <1>4, <1>8, <2>1 DEF Fresh, SourceKept
  <2> QED BY <1>2, <2>2, KeptCalls DEF CallsKept
<1>12. MediaAccounted'
  BY <1>2, <1>8 DEF ManagerInv, MediaAccounted, SourceKept
<1> QED BY <1>8, <1>9, <1>10, <1>11, <1>12 DEF ManagerInv

\* A media loop ends and begins to close its source.
LEMMA LoopEndsStep == ASSUME ManagerInv, NEW i \in Calls, LoopEnds(i) PROVE ManagerInv'
<1>1. /\ workers[i].at = "running" /\ BeginClose(i)
      /\ UNCHANGED <<runtime, holder, requests, managed, items, reports, abandoned>>
  BY DEF LoopEnds
<1>2. /\ sources' \in [Calls -> SourceRecord]
      /\ \A j \in Calls : SourceOK(j)' /\ SourceKept(j) /\ (j # i => sources'[j] = sources[j])
      /\ Attempt(i) \in Nat /\ Attempt(i) \in DOMAIN sources'[i].tries
  BY <1>1, CloseBegins
<1>3. PICK w \in WorkerRecord, n \in Nat : w = workers[i] /\ n = Attempt(i)
  BY <1>2 DEF ManagerInv, ManagerTypes
<1> DEFINE r == [w EXCEPT !.at = "closing", !.attempt = n]
<1>4. workers' = [workers EXCEPT ![i] = r]
  BY <1>3 DEF LoopEnds
<1>5. r \in WorkerRecord /\ r.at = "closing" /\ r.attempt = n
  BY DEF WorkerRecord, Looping
<1> HIDE DEF r
<1>6. workers' \in [Calls -> WorkerRecord] /\ \A j \in Calls : workers'[j] = IF j = i THEN r ELSE workers[j]
  BY <1>4, <1>5 DEF ManagerInv, ManagerTypes
<1>7. ManagerTypes'
  BY <1>1, <1>2, <1>6 DEF ManagerInv, ManagerTypes
<1>8. \A j \in Calls : LoopOK(j)'
  <2>1. \A j \in Calls : j # i => LoopOK(j)'
    BY <1>1, <1>2, <1>6 DEF ManagerInv, LoopOK
  <2>2. LoopOK(i)'
    BY <1>1, <1>2, <1>3, <1>5, <1>6 DEF ManagerInv, LoopOK, Looping
  <2> QED BY <2>1, <2>2
<1>9. \A j \in Calls : CallOK(j)'
  <2>1. \A j \in Calls : Fresh(j) => Fresh(j)'
    BY <1>1, <1>2, <1>6 DEF Fresh
  <2> QED BY <1>1, <1>2, <1>6, <2>1, KeptCalls DEF CallsKept, SourceKept
<1>10. MediaAccounted'
  BY <1>1, <1>2, <1>5, <1>6 DEF ManagerInv, MediaAccounted, SourceKept
<1> QED BY <1>2, <1>7, <1>8, <1>9, <1>10 DEF ManagerInv

\* A loop whose source's close has returned is cancelled, or has a failure to
\* report.
LEMMA LoopSettlesStep == ASSUME ManagerInv, NEW i \in Calls, LoopSettles(i) PROVE ManagerInv'
<1>1. /\ workers[i].at = "closing" /\ CloseResult(i, workers[i].attempt) # "running"
      /\ UNCHANGED <<runtime, holder, requests, managed, sources, abandoned>>
  BY DEF LoopSettles
<1>2. ~sources[i].open \/ sources[i].err
  <2>1. workers[i].attempt \in DOMAIN sources[i].tries /\ sources[i].tries \in Seq(Results)
    BY <1>1 DEF ManagerInv, ManagerTypes, LoopOK, SourceRecord
  <2>2. CloseResult(i, workers[i].attempt) \in {"ok", "err"}
    BY <1>1, <2>1 DEF CloseResult, Results
  <2> QED BY <2>1, <2>2 DEF ManagerInv, SourceOK, CloseResult
<1>3. /\ workers' \in [Calls -> WorkerRecord] /\ \A j \in Calls : j # i => workers'[j] = workers[j]
      /\ workers'[i].at = IF items[i].cancelled THEN "ending" ELSE "reporting"
  BY DEF LoopSettles, ManagerInv, ManagerTypes, WorkerRecord, Looping
<1>4. /\ items' \in [Calls -> ItemRecord]
      /\ \A j \in Calls : /\ items'[j].active = items[j].active /\ items'[j].finished = items[j].finished
                          /\ items'[j].stopping = items[j].stopping
                          /\ items[j].terminal => items'[j].terminal
      /\ ~items[i].cancelled => items'[i].terminal
  <2>1. CASE items[i].cancelled
    BY <2>1 DEF LoopSettles, ManagerInv, ManagerTypes
  <2>2. CASE ~items[i].cancelled
    <3>1. PICK q \in ItemRecord : q = items[i]
      BY DEF ManagerInv, ManagerTypes
    <3> DEFINE r == [q EXCEPT !.terminal = TRUE]
    <3>2. items' = [items EXCEPT ![i] = r]
      BY <2>2, <3>1 DEF LoopSettles
    <3>3. r \in ItemRecord /\ r.terminal /\ r.active = q.active /\ r.finished = q.finished /\ r.stopping = q.stopping
      BY DEF ItemRecord
    <3> HIDE DEF r
    <3> QED BY <3>1, <3>2, <3>3 DEF ManagerInv, ManagerTypes
  <2> QED BY <2>1, <2>2
<1>5. /\ reports' \in [Calls -> ReportRecord] /\ \A j \in Calls : j # i => reports'[j] = reports[j]
      /\ IF items[i].cancelled THEN reports' = reports ELSE reports'[i].at = "waiting"
  <2>1. CASE items[i].cancelled
    BY <2>1 DEF LoopSettles, ManagerInv, ManagerTypes
  <2>2. CASE ~items[i].cancelled
    BY <2>2 DEF LoopSettles, ManagerInv, ManagerTypes, ReportRecord
  <2> QED BY <2>1, <2>2
<1>6. ManagerTypes' /\ \A j \in Calls : SourceOK(j)'
  BY <1>1, <1>3, <1>4, <1>5 DEF ManagerInv, ManagerTypes, SourceOK
<1>7. \A j \in Calls : LoopOK(j)'
  <2>1. \A j \in Calls : j # i => LoopOK(j)'
    BY <1>1, <1>3, <1>4, <1>5 DEF ManagerInv, LoopOK
  <2>2. LoopOK(i)'
    BY <1>1, <1>2, <1>3, <1>4, <1>5 DEF ManagerInv, LoopOK, Looping
  <2> QED BY <2>1, <2>2
<1>8. \A j \in Calls : CallOK(j)'
  <2>1. \A j \in Calls : Fresh(j) => Fresh(j)'
    BY <1>1, <1>3 DEF Fresh
  <2> QED BY <1>1, <1>3, <1>4, <2>1, KeptCalls DEF CallsKept
<1>9. MediaAccounted'
  BY <1>1, <1>3 DEF ManagerInv, MediaAccounted
<1> QED BY <1>6, <1>7, <1>8, <1>9 DEF ManagerInv

\* A report takes the lifecycle lock, or has nothing to write.
LEMMA ReportLocksStep == ASSUME ManagerInv, NEW i \in Calls, ReportLocks(i) PROVE ManagerInv'
<1>1. /\ reports[i].at = "waiting" /\ holder = Nobody
      /\ UNCHANGED <<runtime, requests, managed, items, sources, workers, abandoned>>
  BY DEF ReportLocks
<1>2. \A d \in Calls : requests[d].at \notin Busy /\ reports[d].at # "read"
  BY <1>1, LockFree
<1>3. /\ reports' \in [Calls -> ReportRecord]
      /\ \A j \in Calls : reports'[j].over = reports[j].over /\ (j # i => reports'[j] = reports[j])
      /\ reports'[i].at \in {"read", "ok", "err"} /\ (reports'[i].at = "read" => holder' = MaxCalls + i)
      /\ holder' \in {Nobody, MaxCalls + i}
  BY <1>1 DEF ReportLocks, ManagerInv, ManagerTypes, ReportRecord
<1>4. MaxCalls + i \in Nat /\ Nobody \in Nat
  BY CallNumbers, RuntimeManagerAssumption DEF Nobody
<1>5. ManagerTypes' /\ \A j \in Calls : SourceOK(j)'
  BY <1>1, <1>3, <1>4 DEF ManagerInv, ManagerTypes, SourceOK
<1>6. \A j \in Calls : LoopOK(j)'
  BY <1>1, <1>2, <1>3 DEF ManagerInv, LoopOK
<1>7. \A j \in Calls : CallOK(j)'
  <2>1. \A j \in Calls : Fresh(j) => Fresh(j)'
    BY <1>1 DEF Fresh
  <2> QED BY <1>1, <1>2, <2>1, KeptCalls DEF CallsKept
<1>8. MediaAccounted'
  BY <1>1 DEF ManagerInv, MediaAccounted
<1> QED BY <1>5, <1>6, <1>7, <1>8 DEF ManagerInv

\* A report that has the lock writes the failure, or finds itself cancelled.
LEMMA ReportSavesStep == ASSUME ManagerInv, NEW i \in Calls, ReportSaves(i) PROVE ManagerInv'
<1>1. /\ reports[i].at = "read" /\ holder' = Nobody
      /\ UNCHANGED <<requests, managed, items, sources, workers, abandoned>>
  BY DEF ReportSaves
<1>2. /\ holder = MaxCalls + i /\ \A d \in Calls : requests[d].at \notin Busy
      /\ \A j \in Calls : j # i => reports[j].at # "read"
  <2>1. holder = MaxCalls + i
    BY <1>1 DEF ManagerInv, LoopOK
  <2> QED BY <2>1, CallNumbers DEF ManagerInv, CallOK, LoopOK
<1>3. /\ reports' \in [Calls -> ReportRecord]
      /\ \A j \in Calls : reports'[j].over = reports[j].over /\ (j # i => reports'[j] = reports[j])
      /\ reports'[i].at \in {"ok", "err"}
  BY DEF ReportSaves, ManagerInv, ManagerTypes, ReportRecord
<1>4. runtime' = runtime \/ (runtime' \in RuntimeRecord /\ runtime'.state = "pipeline_failed")
  BY SnapshotMoves DEF ReportSaves
<1>5. ManagerTypes' /\ \A j \in Calls : SourceOK(j)'
  BY <1>1, <1>3, <1>4 DEF ManagerInv, ManagerTypes, SourceOK, Nobody
<1>6. \A j \in Calls : LoopOK(j)'
  BY <1>1, <1>2, <1>3 DEF ManagerInv, LoopOK
<1>7. \A j \in Calls : CallOK(j)'
  <2>1. \A j \in Calls : Fresh(j) => Fresh(j)'
    BY <1>1 DEF Fresh
  <2> QED BY <1>1, <1>2, <2>1, KeptCalls DEF CallsKept
<1>8. MediaAccounted'
  BY <1>1, <1>4 DEF ManagerInv, MediaAccounted
<1> QED BY <1>5, <1>6, <1>7, <1>8 DEF ManagerInv

\* The loop has its report's result, or stops waiting for it.
LEMMA ReportedStep == ASSUME ManagerInv, NEW i \in Calls, Reported(i) PROVE ManagerInv'
<1>1. /\ workers[i].at = "reporting" /\ reports' = [reports EXCEPT ![i].over = TRUE]
      /\ UNCHANGED <<runtime, holder, requests, managed, items, sources, abandoned>>
  BY DEF Reported
<1>2. /\ workers' \in [Calls -> WorkerRecord] /\ \A j \in Calls : j # i => workers'[j] = workers[j]
      /\ workers'[i].at = "ending"
  <2>1. PICK w \in WorkerRecord, b \in BOOLEAN :
            w = workers[i] /\ workers' = [workers EXCEPT ![i].at = "ending", ![i].unreported = b]
    BY DEF Reported, ManagerInv, ManagerTypes
  <2> DEFINE r == [w EXCEPT !.at = "ending", !.unreported = b]
  <2>2. workers' = [workers EXCEPT ![i] = r]
    BY <2>1
  <2>3. r \in WorkerRecord /\ r.at = "ending"
    BY DEF WorkerRecord, Looping
  <2> HIDE DEF r
  <2> QED BY <2>2, <2>3 DEF ManagerInv, ManagerTypes
<1>3. /\ reports' \in [Calls -> ReportRecord] /\ reports'[i].over
      /\ \A j \in Calls : reports'[j].at = reports[j].at /\ (j # i => reports'[j] = reports[j])
  BY <1>1 DEF ManagerInv, ManagerTypes, ReportRecord
<1>4. ManagerTypes' /\ \A j \in Calls : SourceOK(j)'
  BY <1>1, <1>2, <1>3 DEF ManagerInv, ManagerTypes, SourceOK
<1>5. \A j \in Calls : LoopOK(j)'
  <2>1. \A j \in Calls : j # i => LoopOK(j)'
    BY <1>1, <1>2, <1>3 DEF ManagerInv, LoopOK
  <2>2. LoopOK(i)'
    BY <1>1, <1>2, <1>3 DEF ManagerInv, LoopOK, Looping
  <2> QED BY <2>1, <2>2
<1>6. \A j \in Calls : CallOK(j)'
  <2>1. \A j \in Calls : Fresh(j) => Fresh(j)'
    BY <1>1, <1>2 DEF Fresh
  <2> QED BY <1>1, <1>2, <2>1, KeptCalls DEF CallsKept
<1>7. MediaAccounted'
  BY <1>1, <1>2 DEF ManagerInv, MediaAccounted
<1> QED BY <1>4, <1>5, <1>6, <1>7 DEF ManagerInv

\* A loop is over, and takes its own entry with it if its failure was reported
\* and its source was closed.
LEMMA LoopDoneStep == ASSUME ManagerInv, NEW i \in Calls, LoopDone(i) PROVE ManagerInv'
<1>1. /\ workers[i].at = "ending"
      /\ UNCHANGED <<runtime, holder, requests, sources, reports, abandoned>>
  BY DEF LoopDone
<1>2. /\ workers' \in [Calls -> WorkerRecord] /\ \A j \in Calls : j # i => workers'[j] = workers[j]
      /\ workers'[i].at = "done"
  BY DEF LoopDone, ManagerInv, ManagerTypes, WorkerRecord
<1>3. /\ items' \in [Calls -> ItemRecord] /\ items'[i].finished
      /\ \A j \in Calls : /\ items'[j].active = items[j].active /\ items'[j].stopping = items[j].stopping
                          /\ items'[j].terminal = items[j].terminal
                          /\ j # i => items'[j].finished = items[j].finished
  <2>1. PICK q \in ItemRecord, b \in BOOLEAN :
            q = items[i] /\ items' = [items EXCEPT ![i].finished = TRUE, ![i].failed = b]
    <3>1. (~items[i].cancelled \/ sources[i].err) \in BOOLEAN
      OBVIOUS
    <3> QED BY <3>1 DEF LoopDone, ManagerInv, ManagerTypes
  <2> DEFINE r == [q EXCEPT !.finished = TRUE, !.failed = b]
  <2>2. items' = [items EXCEPT ![i] = r]
    BY <2>1
  <2>3. r \in ItemRecord /\ r.finished /\ r.active = q.active /\ r.stopping = q.stopping /\ r.terminal = q.terminal
    BY DEF ItemRecord
  <2> HIDE DEF r
  <2> QED BY <2>1, <2>2, <2>3 DEF ManagerInv, ManagerTypes
<1>4. managed' = managed \/ (managed' = Nobody /\ managed = i /\ ~sources[i].err)
  BY DEF LoopDone
<1>5. ManagerTypes' /\ \A j \in Calls : SourceOK(j)'
  BY <1>1, <1>2, <1>3, <1>4 DEF ManagerInv, ManagerTypes, SourceOK
<1>6. \A j \in Calls : LoopOK(j)'
  <2>1. \A j \in Calls : j # i => LoopOK(j)'
    BY <1>1, <1>2, <1>3, <1>4 DEF ManagerInv, LoopOK
  <2>2. LoopOK(i)'
    BY <1>1, <1>2, <1>3 DEF ManagerInv, LoopOK, Looping
  <2> QED BY <2>1, <2>2
<1>7. \A j \in Calls : CallOK(j)'
  <2>1. \A j \in Calls : Fresh(j) => Fresh(j)'
    BY <1>1, <1>2, <1>4, CallNumbers DEF Fresh
  <2> QED BY <1>1, <1>2, <1>3, <1>4, <2>1, KeptCalls DEF CallsKept
<1>8. MediaAccounted'
  <2>1. ~sources[i].open \/ sources[i].err
    BY <1>1 DEF ManagerInv, LoopOK
  <2> QED BY <1>1, <1>2, <1>4, <2>1 DEF ManagerInv, MediaAccounted
<1> QED BY <1>5, <1>6, <1>7, <1>8 DEF ManagerInv

\* Every step of a call keeps the invariant.
LEMMA CallSide ==
  ASSUME ManagerInv, NEW c \in Calls,
         \/ TakeStart(c) \/ BeginBuild(c) \/ MeetEntry(c) \/ ReplaceEntry(c)
         \/ OpenSource(c) \/ Unopen(c) \/ ActivateEntry(c)
         \/ TakeStop(c) \/ StopWithout(c) \/ CancelEntry(c) \/ CloseEntry(c)
         \/ RemoveEntry(c) \/ StopTimesOut(c)
  PROVE  ManagerInv'
BY TakeStartStep, BeginBuildStep, MeetEntryStep, ReplaceEntryStep, OpenSourceStep, UnopenStep,
   ActivateEntryStep, TakeStopStep, StopWithoutStep, CancelEntryStep, CloseEntryStep,
   RemoveEntryStep, StopTimesOutStep

\* Every step of the media keeps the invariant.
LEMMA MediaSide ==
  ASSUME ManagerInv, NEW i \in Calls,
         \/ CloseReturns(i) \/ LoopEnds(i) \/ LoopSettles(i)
         \/ ReportLocks(i) \/ ReportSaves(i) \/ Reported(i) \/ LoopDone(i)
  PROVE  ManagerInv'
BY CloseReturnsStep, LoopEndsStep, LoopSettlesStep, ReportLocksStep, ReportSavesStep, ReportedStep, LoopDoneStep

\* The invariant of the runtimes holds in every reachable state.
LEMMA ManagerAlways == ManagerSpec => []ManagerInv
<1>1. ManagerInit => ManagerInv
  BY ManagerInitInv
<1>2. ManagerInv /\ [ManagerNext]_managerVars => ManagerInv'
  <2> SUFFICES ASSUME ManagerInv, [ManagerNext]_managerVars PROVE ManagerInv'
    OBVIOUS
  <2>1. CASE ManagerNext
    BY <2>1, CallSide, MediaSide DEF ManagerNext
  <2>2. CASE UNCHANGED managerVars
    BY <2>2 DEF managerVars, ManagerInv, ManagerTypes, SourceOK, CallOK, Fresh, LoopOK, MediaAccounted
  <2> QED BY <2>1, <2>2
<1> QED BY <1>1, <1>2, PTL DEF ManagerSpec

\* No open source and no media loop is lost to the session's Stop, and none is
\* left when the session is reported as stopped (Manager.Stop,
\* runtime/manager.go:797-873; closeOnceSource, 893-949).
THEOREM MediaAccountedHolds == ManagerSpec => []MediaAccounted
<1>1. ManagerInv => MediaAccounted
  BY DEF ManagerInv
<1> QED BY <1>1, ManagerAlways, PTL

\* A failure that is saved belongs to the registered runtime, because the report
\* is cancelled with its loop and saved under the lock (reportFailure,
\* runtime/manager.go:679).
THEOREM ReportsOwnHolds == ManagerSpec => ReportsOwn
<1>1. ManagerInv /\ [ManagerNext]_managerVars =>
        [runtime'.state = "pipeline_failed" /\ runtime.state # "pipeline_failed" =>
           managed # Nobody /\ items[managed].terminal]_managerVars
  <2> SUFFICES ASSUME ManagerInv, ManagerNext,
                      runtime'.state = "pipeline_failed", runtime.state # "pipeline_failed"
               PROVE  managed # Nobody /\ items[managed].terminal
    BY DEF managerVars
  <2>1. \A state \in {"starting", "start_failed", "listening", "stopping", "stopped", "stop_failed"} :
            ~Snapshot(state)
    BY SnapshotMoves
  <2>2. PICK i \in Calls : ReportSaves(i)
    <3>1. \A c \in Calls : ~Conclude(c, TRUE) /\ ~Conclude(c, FALSE) /\ ~StartFailed(c)
      BY <2>1 DEF Conclude, StartFailed
    <3>2. \A c \in Calls : ~(BeginBuild(c) /\ runtime' # runtime)
      BY DEF BeginBuild
    <3>3. \A c \in Calls, ok \in BOOLEAN : ~Conclude(c, ok)
      BY <2>1 DEF Conclude, StartFailed
    <3>4. \A c \in Calls : ~TakeStart(c) /\ ~BeginBuild(c) /\ ~MeetEntry(c) /\ ~ReplaceEntry(c) /\ ~OpenSource(c)
                           /\ ~Unopen(c) /\ ~ActivateEntry(c)
      BY <2>1, <3>1, <3>2 DEF TakeStart, MeetEntry, ReplaceEntry, OpenSource, Unopen, ActivateEntry
    <3>5. \A c \in Calls : ~TakeStop(c) /\ ~StopWithout(c) /\ ~CancelEntry(c) /\ ~CloseEntry(c)
                           /\ ~RemoveEntry(c) /\ ~StopTimesOut(c)
      BY <2>1, <3>3 DEF TakeStop, StopWithout, CancelEntry, CloseEntry, RemoveEntry, StopTimesOut
    <3>6. \A c \in Calls : ~CloseReturns(c) /\ ~LoopEnds(c) /\ ~LoopSettles(c) /\ ~ReportLocks(c)
                           /\ ~Reported(c) /\ ~LoopDone(c)
      BY DEF CloseReturns, LoopEnds, LoopSettles, ReportLocks, Reported, LoopDone
    <3> QED BY <3>4, <3>5, <3>6 DEF ManagerNext
  <2>3. reports[i].at = "read" /\ ~reports[i].over
    BY <2>2 DEF ReportSaves, ReportCancelled
  <2>4. workers[i].at = "reporting" /\ items[i].terminal
    BY <2>3 DEF ManagerInv, LoopOK
  <2>5. managed = i
    BY <2>4 DEF ManagerInv, LoopOK, Looping
  <2> QED BY <2>4, <2>5, CallNumbers
<1> QED BY <1>1, ManagerAlways, PTL DEF ManagerSpec, ReportsOwn

-----------------------------------------------------------------------------
(* Speech as data: what was cut off falls silent, what was not is shipped      *)
(* whole.                                                                      *)

PlayRecord == [at : {"speaking", "pieces", "publish", "finish", "over"}, said : Nat, left : Nat]

TtsTypes ==
    /\ play \in [Playbacks -> PlayRecord]
    /\ buffered \in [Playbacks -> Nat] /\ shipped \in [Playbacks -> Nat]
    /\ cutAt \in [Playbacks -> Nat \cup {-1}]
    /\ tombstones \in Seq(Playbacks)
    /\ publishing \subseteq Playbacks /\ halted \subseteq Playbacks

\* One playback k with b pieces in its buffer and n shipped, cut off at c.  While it
\* speaks, a tombstone keeps a cut one from being shipped; once it is being shipped,
\* halted does.
PlaybackOK(k, b, n, c, sending, stopped, flawed, buried, evicted) ==
    /\ k.at \in {"pieces", "publish", "finish"} <=> sending
    /\ k.at = "speaking" =>
          /\ n = 0
          /\ c >= 0 /\ ~evicted => buried
          /\ c = -1 => ~buried /\ b = k.said
    /\ k.at \in {"pieces", "publish"} =>
          /\ c >= 0 /\ ~evicted => stopped
          /\ c = -1 => ~stopped
          /\ c = -1 /\ ~flawed => n + k.left = k.said
    /\ k.at = "publish" => k.left > 0 /\ (c >= 0 /\ ~evicted => n <= c)
    /\ k.at \in {"finish", "over"} /\ c = -1 /\ ~flawed => n = k.said
    /\ c >= 0 /\ ~evicted => n <= c + 1

PlaybackHolds(p) ==
    PlaybackOK(play[p], buffered[p], shipped[p], cutAt[p], p \in publishing, p \in halted,
               p \in spoiled, Tombstoned(p), p \in forgotten)

TtsInv == TtsTypes /\ \A p \in Playbacks : PlaybackHolds(p)

\* The elements of a list.
LEMMA RangeOf ==
  ASSUME NEW S, NEW s \in Seq(S)
  PROVE  Range(s) = {s[i] : i \in 1 .. Len(s)} /\ DOMAIN s = 1 .. Len(s) /\ Len(s) \in Nat /\ Range(s) \subseteq S
BY DEF Range

\* A tombstone more: nothing comes to the list but the playback that is marked.
LEMMA MarksOne ==
  ASSUME NEW list \in Seq(Playbacks), NEW p \in Playbacks
  PROVE  MarkSettled(list, p) \in Seq(Playbacks) /\ Range(MarkSettled(list, p)) \subseteq Range(list) \cup {p}
<1>1. PICK r : r = MarkSettled(list, p)
  OBVIOUS
<1>2. CASE p \in Range(list)
  BY <1>2 DEF MarkSettled
<1>3. ASSUME NEW base \in Seq(Playbacks), Range(base) \subseteq Range(list)
      PROVE  Append(base, p) \in Seq(Playbacks) /\ Range(Append(base, p)) \subseteq Range(list) \cup {p}
  <2>1. PICK a : a = Append(base, p)
    OBVIOUS
  <2>2. /\ a \in Seq(Playbacks) /\ Len(a) = Len(base) + 1 /\ Len(base) \in Nat
        /\ \A i \in 1 .. Len(base) : a[i] = base[i]
        /\ a[Len(base) + 1] = p
    BY <2>1, AppendProperties, LenProperties
  <2>3. \A i \in 1 .. Len(a) : i \in 1 .. Len(base) \/ i = Len(base) + 1
    BY <2>2
  <2>4. \A i \in 1 .. Len(a) : a[i] \in Range(base) \cup {p}
    BY <2>2, <2>3, RangeOf
  <2>5. Range(a) \subseteq Range(base) \cup {p}
    BY <2>2, <2>4, RangeOf
  <2> QED
    BY <1>3, <2>1, <2>2, <2>5
<1>4. CASE p \notin Range(list) /\ Len(list) < MaxTombstones
  <2>1. r = Append(list, p)
    BY <1>1, <1>4 DEF MarkSettled
  <2> QED
    BY <1>1, <1>3, <2>1
<1>5. CASE p \notin Range(list) /\ ~(Len(list) < MaxTombstones)
  <2>1. r = Append(Tail(list), p)
    BY <1>1, <1>5 DEF MarkSettled
  <2>2. Len(list) \in Nat /\ list # <<>>
    BY <1>5, TtsAssumption, LenProperties, EmptySeq
  <2>3. PICK base : base = Tail(list)
    OBVIOUS
  <2>4. base \in Seq(Playbacks) /\ Len(base) = Len(list) - 1 /\ \A i \in 1 .. Len(base) : base[i] = list[i + 1]
    BY <2>2, <2>3, HeadTailProperties
  <2>5. \A i \in 1 .. Len(base) : i + 1 \in 1 .. Len(list)
    BY <2>2, <2>4
  <2>6. Range(base) \subseteq Range(list)
    BY <2>4, <2>5, RangeOf
  <2> QED
    BY <1>1, <1>3, <2>1, <2>3, <2>4, <2>6
<1> QED
  BY <1>2, <1>4, <1>5

\* A set of numbers with zero and the successor of each member has all of them.
LEMMA NumbersUpTo ==
  ASSUME NEW T, NEW m \in Nat, 0 \in T, \A n \in 0 .. (m - 1) : n \in T => n + 1 \in T
  PROVE  \A n \in 0 .. m : n \in T
<1> DEFINE Bad == {n \in 0 .. m : n \notin T}
<1>1. SUFFICES ASSUME Bad # {} PROVE FALSE
  OBVIOUS
<1>2. Bad \subseteq Nat
  OBVIOUS
<1>3. PICK n \in Bad : \A k \in Bad : ~(<<k, n>> \in OpToRel(<, Nat))
  BY <1>1, <1>2, NatLessThanWellFounded, WFMin
<1>4. \A k \in Bad : ~(k < n)
  BY <1>2, <1>3 DEF OpToRel
<1>5. n # 0 /\ n - 1 \in 0 .. (m - 1)
  OBVIOUS
<1>6. n - 1 \in T
  BY <1>4, <1>5
<1> QED
  BY <1>5, <1>6

\* The list with the first n playbacks of an order marked, in terms of f, the list
\* with fewer of them.
MarkedOf(f, list, order, n) == IF n = 0 THEN list ELSE MarkSettled(f[n - 1], order[n])

\* Such a function exists, by induction on the playbacks that are marked.
LEMMA MarkedExists ==
  ASSUME NEW list \in Seq(Playbacks), NEW order \in Seq(Playbacks)
  PROVE  \E f : f = [n \in 0 .. Len(order) |-> MarkedOf(f, list, order, n)]
<1> DEFINE Good(m) == \E f \in [0 .. m -> Seq(Playbacks)] : f = [n \in 0 .. m |-> MarkedOf(f, list, order, n)]
<1> DEFINE T == {m \in 0 .. Len(order) : Good(m)}
<1>0. Len(order) \in Nat
  OBVIOUS
<1>1. 0 \in T
  <2> DEFINE f == [n \in 0 .. 0 |-> list]
  <2>1. f \in [0 .. 0 -> Seq(Playbacks)] /\ f = [n \in 0 .. 0 |-> MarkedOf(f, list, order, n)]
    BY DEF MarkedOf
  <2>2. Good(0)
    BY <2>1
  <2> QED
    BY <1>0, <2>2
<1>2. ASSUME NEW k \in 0 .. (Len(order) - 1), k \in T PROVE k + 1 \in T
  <2> DEFINE m == k + 1
  <2>1. m \in 1 .. Len(order) /\ m \in 0 .. Len(order) /\ k \in Nat /\ m - 1 = k /\ m # 0
    BY <1>0
  <2>2. PICK f \in [0 .. k -> Seq(Playbacks)] : f = [n \in 0 .. k |-> MarkedOf(f, list, order, n)]
    BY <1>2
  <2> DEFINE last == MarkedOf(f, list, order, m)
  <2>3. last \in Seq(Playbacks)
    <3>1. order[m] \in Playbacks /\ f[k] \in Seq(Playbacks)
      BY <2>1
    <3> QED
      BY <3>1, <2>1, MarksOne DEF MarkedOf
  <2> HIDE DEF last
  <2> DEFINE g == [n \in 0 .. m |-> IF n = m THEN last ELSE f[n]]
  <2>4. g \in [0 .. m -> Seq(Playbacks)]
    BY <2>1, <2>3
  <2>5. ASSUME NEW n \in 0 .. m PROVE g[n] = MarkedOf(g, list, order, n)
    <3>1. CASE n = m
      BY <3>1, <2>1 DEF MarkedOf, last
    <3>2. CASE n # m
      <4>1. n \in 0 .. k
        BY <3>2, <2>1
      <4>2. f[n] = MarkedOf(f, list, order, n)
        BY <4>1, <2>2
      <4>3. n # 0 => n - 1 \in 0 .. m /\ n - 1 # m
        BY <2>1
      <4>4. g[n] = f[n] /\ (n # 0 => g[n - 1] = f[n - 1])
        BY <3>2, <4>3
      <4> QED
        BY <4>2, <4>4 DEF MarkedOf
    <3> QED
      BY <3>1, <3>2
  <2> HIDE DEF g
  <2>6. g = [n \in 0 .. m |-> MarkedOf(g, list, order, n)]
    BY <2>4, <2>5
  <2> HIDE DEF m
  <2>7. Good(m)
    BY <2>4, <2>6
  <2> HIDE DEF Good
  <2>8. m \in T
    BY <2>1, <2>7
  <2> QED
    BY <2>8 DEF m
<1> HIDE DEF T
<1>3. \A n \in 0 .. Len(order) : n \in T
  BY <1>0, <1>1, <1>2, NumbersUpTo
<1> QED
  <2>1. Len(order) \in T
    BY <1>0, <1>3
  <2> QED
    BY <2>1 DEF T

\* Whatever the order, only what is marked comes to the list.
LEMMA MarksAll ==
  ASSUME NEW list \in Seq(Playbacks), NEW order \in Seq(Playbacks)
  PROVE  /\ MarkAll(list, order) \in Seq(Playbacks)
         /\ Range(MarkAll(list, order)) \subseteq Range(list) \cup Range(order)
<1> DEFINE f == CHOOSE f : f = [n \in 0 .. Len(order) |-> MarkedOf(f, list, order, n)]
<1>0. Len(order) \in Nat
  OBVIOUS
<1>1. f = [n \in 0 .. Len(order) |-> MarkedOf(f, list, order, n)]
  BY MarkedExists
<1>2. MarkAll(list, order) = f[Len(order)]
  BY DEF MarkAll, MarkedOf
<1> HIDE DEF f
<1>3. \A n \in 0 .. Len(order) : f[n] = MarkedOf(f, list, order, n)
  BY <1>1
<1> DEFINE T == {n \in 0 .. Len(order) : f[n] \in Seq(Playbacks) /\ Range(f[n]) \subseteq Range(list) \cup Range(order)}
<1>4. 0 \in T
  <2>1. f[0] = list
    BY <1>0, <1>3 DEF MarkedOf
  <2> QED
    BY <1>0, <2>1
<1>5. ASSUME NEW k \in 0 .. (Len(order) - 1), k \in T PROVE k + 1 \in T
  <2>1. PICK m : m = k + 1
    OBVIOUS
  <2>2. m \in 0 .. Len(order) /\ m \in 1 .. Len(order) /\ m # 0 /\ m - 1 = k
    BY <1>0, <2>1
  <2>3. f[m] = MarkSettled(f[k], order[m])
    BY <1>3, <2>2 DEF MarkedOf
  <2>4. order[m] \in Playbacks /\ order[m] \in Range(order)
    BY <2>2, RangeOf
  <2>5. PICK before : before = f[k]
    OBVIOUS
  <2>6. PICK p : p = order[m]
    OBVIOUS
  <2>7. before \in Seq(Playbacks) /\ Range(before) \subseteq Range(list) \cup Range(order)
    BY <1>5, <2>5
  <2>8. MarkSettled(before, p) \in Seq(Playbacks) /\ Range(MarkSettled(before, p)) \subseteq Range(before) \cup {p}
    BY <2>4, <2>6, <2>7, MarksOne
  <2>9. f[m] = MarkSettled(before, p)
    BY <2>3, <2>5, <2>6
  <2>10. f[m] \in Seq(Playbacks) /\ Range(f[m]) \subseteq Range(list) \cup Range(order)
    BY <2>4, <2>6, <2>7, <2>8, <2>9
  <2> QED
    BY <2>1, <2>2, <2>10
<1> HIDE DEF T
<1>6. \A n \in 0 .. Len(order) : n \in T
  BY <1>0, <1>4, <1>5, NumbersUpTo
<1>7. Len(order) \in T
  BY <1>0, <1>6
<1> QED
  BY <1>2, <1>7 DEF T

\* A tombstone less: the others stay.
LEMMA ReleasesOne ==
  ASSUME NEW p \in Playbacks, tombstones \in Seq(Playbacks), Release(p)
  PROVE  /\ tombstones' \in Seq(Playbacks)
         /\ \A q \in Playbacks : Tombstoned(q)' => Tombstoned(q)
         /\ \A q \in Playbacks : q # p /\ Tombstoned(q) => Tombstoned(q)'
<1>1. CASE ~Tombstoned(p)
  BY <1>1 DEF Release, Tombstoned
<1>2. CASE Tombstoned(p)
  <2>1. PICK i : i = CHOOSE k \in DOMAIN tombstones : tombstones[k] = p
    OBVIOUS
  <2>2. i \in DOMAIN tombstones /\ tombstones[i] = p
    BY <1>2, <2>1 DEF Tombstoned, Range
  <2>3. i \in 1 .. Len(tombstones) /\ Len(tombstones) \in Nat
    BY <2>2
  <2>4. PICK a : a = SubSeq(tombstones, 1, i - 1)
    OBVIOUS
  <2>5. PICK b : b = SubSeq(tombstones, i + 1, Len(tombstones))
    OBVIOUS
  <2>6. /\ a \in Seq(Playbacks) /\ Len(a) = i - 1
        /\ \A k \in 1 .. i - 1 : a[k] = tombstones[k]
    BY <2>3, <2>4
  <2>7. /\ b \in Seq(Playbacks) /\ Len(b) = Len(tombstones) - i
        /\ \A k \in 1 .. Len(tombstones) - i : b[k] = tombstones[k + i]
    BY <2>3, <2>5
  <2>8. PICK r : r = tombstones'
    OBVIOUS
  <2>9. r = a \o b
    BY <1>2, <2>1, <2>4, <2>5, <2>8 DEF Release, RemoveAt
  <2>10. /\ r \in Seq(Playbacks) /\ Len(r) = Len(a) + Len(b)
         /\ \A k \in 1 .. Len(r) : r[k] = IF k <= Len(a) THEN a[k] ELSE b[k - Len(a)]
    <3>1. /\ a \o b \in Seq(Playbacks) /\ Len(a \o b) = Len(a) + Len(b)
          /\ \A k \in 1 .. Len(a) + Len(b) : (a \o b)[k] = IF k <= Len(a) THEN a[k] ELSE b[k - Len(a)]
      BY <2>6, <2>7, ConcatProperties
    <3> QED
      BY <2>9, <3>1
  <2>11. ASSUME NEW q \in Range(r)
         PROVE  q \in Range(tombstones)
    <3>1. PICK k \in 1 .. Len(r) : q = r[k]
      BY <2>10, RangeOf
    <3>2. CASE k <= Len(a)
      <4>1. k \in 1 .. i - 1 /\ k \in 1 .. Len(tombstones)
        BY <2>3, <2>6, <3>2
      <4>2. q = tombstones[k]
        BY <2>6, <2>10, <3>1, <3>2, <4>1
      <4> QED
        BY <4>1, <4>2, RangeOf
    <3>3. CASE ~(k <= Len(a))
      <4>1. PICK l : l = k - Len(a)
        OBVIOUS
      <4>2. l \in 1 .. Len(tombstones) - i /\ l + i \in 1 .. Len(tombstones)
        BY <2>3, <2>6, <2>7, <2>10, <3>3, <4>1
      <4>3. q = tombstones[l + i]
        BY <2>7, <2>10, <3>1, <3>3, <4>1, <4>2
      <4> QED
        BY <4>2, <4>3, RangeOf
    <3> QED
      BY <3>2, <3>3
  <2>12. ASSUME NEW q \in Range(tombstones), q # p
         PROVE  q \in Range(r)
    <3>1. PICK k \in 1 .. Len(tombstones) : q = tombstones[k]
      BY RangeOf
    <3>2. k # i
      BY <2>2, <2>12, <3>1
    <3>3. CASE k < i
      <4>1. k \in 1 .. i - 1 /\ k <= Len(a) /\ k \in 1 .. Len(r)
        BY <2>3, <2>6, <2>7, <2>10, <3>3
      <4>2. r[k] = q
        BY <2>6, <2>10, <3>1, <4>1
      <4> QED
        BY <2>10, <4>1, <4>2, RangeOf
    <3>4. CASE k > i
      <4>1. PICK l : l = k - i
        OBVIOUS
      <4>2. PICK j : j = k - 1
        OBVIOUS
      <4>3. l \in 1 .. Len(tombstones) - i /\ l + i = k
        BY <2>3, <3>4, <4>1
      <4>4. j \in 1 .. Len(r) /\ ~(j <= Len(a)) /\ j - Len(a) = l
        BY <2>3, <2>6, <2>7, <2>10, <3>4, <4>1, <4>2
      <4>5. r[j] = q
        BY <2>7, <2>10, <3>1, <4>3, <4>4
      <4> QED
        BY <2>10, <4>4, <4>5, RangeOf
    <3> QED
      BY <2>3, <3>2, <3>3, <3>4
  <2> QED
    BY <2>8, <2>10, <2>11, <2>12 DEF Tombstoned
<1> QED
  BY <1>1, <1>2

\* A step on one playback: the others keep what they have, except that a tombstone
\* may be evicted, which is remembered.
LEMMA OtherPlaybacks ==
  ASSUME TtsInv, NEW p \in Playbacks, TtsTypes', PlaybackHolds(p)',
         \A q \in Playbacks : q # p =>
            /\ play'[q] = play[q] /\ buffered'[q] = buffered[q]
            /\ shipped'[q] = shipped[q] /\ cutAt'[q] = cutAt[q]
            /\ q \in publishing' <=> q \in publishing
            /\ q \in halted' <=> q \in halted
            /\ q \in spoiled' <=> q \in spoiled
            /\ Tombstoned(q)' => Tombstoned(q)
            /\ q \in forgotten => q \in forgotten'
            /\ Tombstoned(q) /\ play[q].at = "speaking" => Tombstoned(q)' \/ q \in forgotten'
  PROVE  TtsInv'
<1>1. ASSUME NEW q \in Playbacks, q # p
      PROVE  PlaybackHolds(q)'
  <2>1. PlaybackHolds(q)
    BY DEF TtsInv
  <2>2. /\ play'[q] = play[q] /\ buffered'[q] = buffered[q]
        /\ shipped'[q] = shipped[q] /\ cutAt'[q] = cutAt[q]
        /\ q \in publishing' <=> q \in publishing
        /\ q \in halted' <=> q \in halted
        /\ q \in spoiled' <=> q \in spoiled
        /\ Tombstoned(q)' => Tombstoned(q)
        /\ q \in forgotten => q \in forgotten'
        /\ Tombstoned(q) /\ play[q].at = "speaking" => Tombstoned(q)' \/ q \in forgotten'
    BY <1>1
  <2> QED
    BY <2>1, <2>2 DEF PlaybackHolds, PlaybackOK
<1> QED
  BY <1>1 DEF TtsInv

\* The types of one playback.
LEMMA OfPlayback ==
  ASSUME TtsTypes, NEW p \in Playbacks
  PROVE  /\ play[p] \in PlayRecord /\ buffered[p] \in Nat /\ shipped[p] \in Nat
         /\ cutAt[p] \in Nat \cup {-1} /\ cutAt[p] \in Int
         /\ play[p].said \in Nat /\ play[p].left \in Nat
BY DEF TtsTypes, PlayRecord

\* A call of SpeechOutput speaks on.
LEMMA SpeakKeeps ==
  ASSUME TtsInv, NEW p \in Playbacks, SpeakChunk(p)
  PROVE  TtsInv'
<1>1. TtsTypes /\ PlaybackHolds(p)
  BY DEF TtsInv
<1>2. /\ play[p] \in PlayRecord /\ buffered[p] \in Nat /\ play[p].said \in Nat
  BY <1>1, OfPlayback
<1>3. PICK k : k = [play[p] EXCEPT !.said = play[p].said + 1]
  OBVIOUS
<1>4. k \in PlayRecord /\ k.at = play[p].at /\ k.said = play[p].said + 1 /\ k.left = play[p].left
  BY <1>2, <1>3 DEF PlayRecord
<1>5. play' = [play EXCEPT ![p] = k]
  BY <1>3 DEF SpeakChunk
<1>6. PICK b : b = IF Tombstoned(p) THEN buffered[p] ELSE buffered[p] + 1
  OBVIOUS
<1>7. b \in Nat
  BY <1>2, <1>6
<1>8. buffered' = [buffered EXCEPT ![p] = b]
  BY <1>1, <1>6 DEF SpeakChunk, Dropped, TtsTypes
<1>9. /\ play'[p] = k /\ buffered'[p] = b
      /\ \A q \in Playbacks : q # p => play'[q] = play[q] /\ buffered'[q] = buffered[q]
      /\ play' \in [Playbacks -> PlayRecord] /\ buffered' \in [Playbacks -> Nat]
  BY <1>1, <1>4, <1>5, <1>7, <1>8 DEF TtsTypes
<1>10. UNCHANGED <<publishing, halted, tombstones, shipped, spoiled, cutAt, forgotten>>
  BY DEF SpeakChunk
<1>11. TtsTypes'
  BY <1>1, <1>9, <1>10 DEF TtsTypes
<1>12. Tombstoned(p)' <=> Tombstoned(p)
  BY <1>10 DEF Tombstoned
<1>13. PlaybackHolds(p)'
  <2>1. play[p].at = "speaking"
    BY DEF SpeakChunk
  <2>2. ~Tombstoned(p) /\ buffered[p] = play[p].said => b = k.said
    BY <1>4, <1>6
  <2> QED
    BY <1>1, <1>4, <1>9, <1>10, <1>12, <2>1, <2>2 DEF PlaybackHolds, PlaybackOK
<1>14. \A q \in Playbacks : Tombstoned(q)' <=> Tombstoned(q)
  BY <1>10 DEF Tombstoned
<1> QED
  BY <1>9, <1>10, <1>11, <1>13, <1>14, OtherPlaybacks

\* A playback leaves the mouth: its pieces are shipped, or it is over.
LEMMA CompleteKeeps ==
  ASSUME TtsInv, NEW p \in Playbacks, CompletePlayback(p)
  PROVE  TtsInv'
<1>1. TtsTypes /\ PlaybackHolds(p)
  BY DEF TtsInv
<1>2. play[p] \in PlayRecord /\ buffered[p] \in Nat /\ play[p].said \in Nat /\ cutAt[p] \in Int
      /\ cutAt[p] \in Nat \cup {-1} /\ shipped[p] \in Nat
  BY <1>1, OfPlayback
<1>3. play[p].at = "speaking" /\ play[p].said > 0
  BY DEF CompletePlayback
<1>4. /\ buffered' \in [Playbacks -> Nat]
      /\ \A q \in Playbacks : q # p => buffered'[q] = buffered[q]
  BY <1>1 DEF CompletePlayback, TtsTypes
<1>5. UNCHANGED <<shipped, spoiled, cutAt, forgotten>>
  BY DEF CompletePlayback
<1>6. ASSUME play' = [play EXCEPT ![p].at = "over"], publishing' = publishing, halted' = halted,
             tombstones' \in Seq(Playbacks),
             \A q \in Playbacks : Tombstoned(q)' => Tombstoned(q),
             \A q \in Playbacks : q # p /\ Tombstoned(q) => Tombstoned(q)',
             cutAt[p] # -1
      PROVE  TtsInv'
  <2>1. PICK k : k = [play[p] EXCEPT !.at = "over"]
    OBVIOUS
  <2>2. k \in PlayRecord /\ k.at = "over"
    BY <1>2, <2>1 DEF PlayRecord
  <2>3. play' = [play EXCEPT ![p] = k]
    BY <1>6, <2>1
  <2>4. /\ play'[p] = k /\ play' \in [Playbacks -> PlayRecord]
        /\ \A q \in Playbacks : q # p => play'[q] = play[q]
    BY <1>1, <2>2, <2>3 DEF TtsTypes
  <2>5. TtsTypes'
    BY <1>1, <1>4, <1>5, <1>6, <2>4 DEF TtsTypes
  <2>6. PlaybackHolds(p)'
    <3>1. p \notin publishing'
      BY <1>1, <1>3, <1>6 DEF PlaybackHolds, PlaybackOK
    <3>2. cutAt'[p] >= 0 /\ shipped'[p] = 0
      BY <1>1, <1>2, <1>3, <1>5, <1>6 DEF PlaybackHolds, PlaybackOK
    <3>3. cutAt'[p] \in Int /\ cutAt'[p] # -1 /\ shipped'[p] <= cutAt'[p] + 1
      BY <1>2, <1>5, <3>2
    <3> QED
      BY <2>2, <2>4, <3>1, <3>3 DEF PlaybackHolds, PlaybackOK
  <2> QED
    BY <1>4, <1>5, <1>6, <2>4, <2>5, <2>6, OtherPlaybacks
<1>7. CASE Tombstoned(p)
  <2>1. /\ play' = [play EXCEPT ![p].at = "over"] /\ publishing' = publishing /\ halted' = halted
        /\ Release(p)
    BY <1>7 DEF CompletePlayback
  <2>2. /\ tombstones' \in Seq(Playbacks)
        /\ \A q \in Playbacks : Tombstoned(q)' => Tombstoned(q)
        /\ \A q \in Playbacks : q # p /\ Tombstoned(q) => Tombstoned(q)'
    BY <1>1, <2>1, ReleasesOne DEF TtsTypes
  <2>3. cutAt[p] # -1
    BY <1>1, <1>3, <1>7 DEF PlaybackHolds, PlaybackOK
  <2> QED
    BY <1>6, <2>1, <2>2, <2>3
<1>8. CASE ~Tombstoned(p) /\ Pieces(p) = 0
  <2>1. /\ play' = [play EXCEPT ![p].at = "over"] /\ publishing' = publishing /\ halted' = halted
        /\ tombstones' = tombstones
    BY <1>8 DEF CompletePlayback
  <2>2. \A q \in Playbacks : Tombstoned(q)' <=> Tombstoned(q)
    BY <2>1 DEF Tombstoned
  <2>3. cutAt[p] # -1
    BY <1>1, <1>3, <1>8 DEF PlaybackHolds, PlaybackOK, Pieces
  <2>4. tombstones' \in Seq(Playbacks)
    BY <1>1, <2>1 DEF TtsTypes
  <2> QED
    BY <1>6, <2>1, <2>2, <2>3, <2>4
<1>9. CASE ~Tombstoned(p) /\ Pieces(p) > 0
  <2>1. PICK n : n = buffered[p]
    OBVIOUS
  <2>2. PICK k : k = [play[p] EXCEPT !.at = "pieces", !.left = n]
    OBVIOUS
  <2>3. k \in PlayRecord /\ k.at = "pieces" /\ k.left = n /\ k.said = play[p].said
    BY <1>2, <2>1, <2>2 DEF PlayRecord
  <2>4. /\ play' = [play EXCEPT ![p].at = "pieces", ![p].left = n]
        /\ publishing' = publishing \cup {p} /\ halted' = halted \ {p} /\ tombstones' = tombstones
    BY <1>9, <2>1 DEF CompletePlayback, Pieces
  <2>5. play' = [play EXCEPT ![p] = k]
    BY <1>1, <1>2, <2>2, <2>4 DEF TtsTypes, PlayRecord
  <2>6. /\ play'[p] = k /\ play' \in [Playbacks -> PlayRecord]
        /\ \A q \in Playbacks : q # p => play'[q] = play[q]
    BY <1>1, <2>3, <2>5 DEF TtsTypes
  <2>7. \A q \in Playbacks : Tombstoned(q)' <=> Tombstoned(q)
    BY <2>4 DEF Tombstoned
  <2>8. TtsTypes'
    BY <1>1, <1>4, <1>5, <2>4, <2>6 DEF TtsTypes
  <2>9. PlaybackHolds(p)'
    <3>1. p \in publishing' /\ p \notin halted'
      BY <2>4
    <3>2. /\ shipped'[p] = 0
          /\ cutAt[p] >= 0 => p \in forgotten
          /\ cutAt[p] = -1 => n = play[p].said
      BY <1>1, <1>3, <1>5, <1>9, <2>1 DEF PlaybackHolds, PlaybackOK
    <3>3. cutAt'[p] = -1 => 0 + k.left = k.said
      BY <1>2, <1>5, <2>1, <2>3, <3>2
    <3> QED
      BY <1>5, <2>3, <2>6, <3>1, <3>2, <3>3 DEF PlaybackHolds, PlaybackOK
  <2> QED
    BY <1>4, <1>5, <2>4, <2>6, <2>7, <2>8, <2>9, OtherPlaybacks
<1> QED
  BY <1>7, <1>8, <1>9 DEF CompletePlayback

\* The step of one playback that leaves the sink as it is.
LEMMA PlayMoves ==
  ASSUME TtsInv, NEW p \in Playbacks, NEW k \in PlayRecord, play' = [play EXCEPT ![p] = k],
         NEW n \in Nat, shipped' = [shipped EXCEPT ![p] = n],
         spoiled' = spoiled \/ spoiled' = spoiled \cup {p},
         UNCHANGED <<buffered, publishing, halted, tombstones, cutAt, forgotten>>,
         PlaybackOK(k, buffered[p], n, cutAt[p], p \in publishing, p \in halted, p \in spoiled',
                    Tombstoned(p), p \in forgotten)
  PROVE  TtsInv'
<1>1. TtsTypes
  BY DEF TtsInv
<1>2. /\ play'[p] = k /\ shipped'[p] = n
      /\ \A q \in Playbacks : q # p => play'[q] = play[q] /\ shipped'[q] = shipped[q]
      /\ play' \in [Playbacks -> PlayRecord] /\ shipped' \in [Playbacks -> Nat]
  BY <1>1 DEF TtsTypes
<1>3. TtsTypes'
  BY <1>1, <1>2 DEF TtsTypes
<1>4. \A q \in Playbacks : Tombstoned(q)' <=> Tombstoned(q)
  BY DEF Tombstoned
<1>5. PlaybackHolds(p)'
  BY <1>2, <1>4 DEF PlaybackHolds, PlaybackOK
<1>6. \A q \in Playbacks : q # p => (q \in spoiled' <=> q \in spoiled)
  OBVIOUS
<1> QED
  BY <1>2, <1>3, <1>4, <1>5, <1>6, OtherPlaybacks

\* The steps of a playback on its own.
LEMMA RefusedKeeps ==
  ASSUME TtsInv, NEW p \in Playbacks, CompleteRefused(p)
  PROVE  TtsInv'
<1>1. TtsTypes /\ PlaybackHolds(p)
  BY DEF TtsInv
<1>2. play[p] \in PlayRecord /\ shipped[p] \in Nat /\ cutAt[p] \in Int /\ play[p].at = "speaking"
  BY <1>1, OfPlayback DEF CompleteRefused
<1>3. PICK k : k = [play[p] EXCEPT !.at = "over"]
  OBVIOUS
<1>4. k \in PlayRecord /\ k.at = "over"
  BY <1>2, <1>3 DEF PlayRecord
<1>5. play' = [play EXCEPT ![p] = k]
  BY <1>3 DEF CompleteRefused
<1>6. /\ shipped' = [shipped EXCEPT ![p] = shipped[p]] /\ spoiled' = spoiled \cup {p}
      /\ UNCHANGED <<buffered, publishing, halted, tombstones, cutAt, forgotten>>
  BY <1>1 DEF CompleteRefused, TtsTypes
<1>7. PlaybackOK(k, buffered[p], shipped[p], cutAt[p], p \in publishing, p \in halted,
                 p \in spoiled', Tombstoned(p), p \in forgotten)
  BY <1>1, <1>2, <1>4, <1>6 DEF PlaybackHolds, PlaybackOK
<1> QED
  BY <1>2, <1>4, <1>5, <1>6, <1>7, PlayMoves

\* The loop looks whether the playback was interrupted.
LEMMA NextPieceKeeps ==
  ASSUME TtsInv, NEW p \in Playbacks, NextPiece(p)
  PROVE  TtsInv'
<1>1. TtsTypes /\ PlaybackHolds(p)
  BY DEF TtsInv
<1>2. /\ play[p] \in PlayRecord /\ shipped[p] \in Nat /\ cutAt[p] \in Int /\ play[p].at = "pieces"
      /\ play[p].left \in Nat /\ play[p].said \in Nat
  BY <1>1, OfPlayback DEF NextPiece
<1>3. PICK at : at = IF play[p].left = 0 \/ p \in halted THEN "finish" ELSE "publish"
  OBVIOUS
<1>4. PICK k : k = [play[p] EXCEPT !.at = at]
  OBVIOUS
<1>5. at \in {"finish", "publish"}
  BY <1>3
<1>6. k \in PlayRecord /\ k.at = at /\ k.said = play[p].said /\ k.left = play[p].left
  BY <1>2, <1>4, <1>5 DEF PlayRecord
<1>7. play' = [play EXCEPT ![p] = k]
  BY <1>3, <1>4 DEF NextPiece
<1>8. /\ shipped' = [shipped EXCEPT ![p] = shipped[p]] /\ spoiled' = spoiled
      /\ UNCHANGED <<buffered, publishing, halted, tombstones, cutAt, forgotten>>
  BY <1>1 DEF NextPiece, TtsTypes
<1>9. PlaybackOK(k, buffered[p], shipped[p], cutAt[p], p \in publishing, p \in halted,
                 p \in spoiled, Tombstoned(p), p \in forgotten)
  <2>1. CASE at = "publish"
    <3>1. play[p].left > 0 /\ p \notin halted
      BY <1>2, <1>3, <2>1
    <3> QED
      BY <1>1, <1>2, <1>6, <2>1, <3>1 DEF PlaybackHolds, PlaybackOK
  <2>2. CASE at = "finish"
    <3>1. play[p].left = 0 \/ p \in halted
      BY <1>3, <2>2
    <3> QED
      BY <1>1, <1>2, <1>6, <2>2, <3>1 DEF PlaybackHolds, PlaybackOK
  <2> QED
    BY <1>5, <2>1, <2>2
<1>10. p \in spoiled' <=> p \in spoiled
  BY <1>8
<1> QED
  BY <1>2, <1>6, <1>7, <1>8, <1>9, <1>10, PlayMoves

\* A piece is written, or lost.
LEMMA PieceKeeps ==
  ASSUME TtsInv, NEW p \in Playbacks, Ship(p) \/ PieceDropped(p)
  PROVE  TtsInv'
<1>1. TtsTypes /\ PlaybackHolds(p)
  BY DEF TtsInv
<1>2. /\ play[p] \in PlayRecord /\ shipped[p] \in Nat /\ cutAt[p] \in Int /\ play[p].at = "publish"
      /\ play[p].left \in Nat /\ play[p].said \in Nat /\ play[p].left > 0
  BY <1>1, OfPlayback DEF Ship, PieceDropped, PlaybackHolds, PlaybackOK
<1>3. PICK k : k = [play[p] EXCEPT !.at = "pieces", !.left = play[p].left - 1]
  OBVIOUS
<1>4. play[p].left - 1 \in Nat
  BY <1>2
<1>5. k \in PlayRecord /\ k.at = "pieces" /\ k.said = play[p].said /\ k.left = play[p].left - 1
  BY <1>2, <1>3, <1>4 DEF PlayRecord
<1>6. play' = [play EXCEPT ![p] = k]
  <2>1. play' = [play EXCEPT ![p].at = "pieces", ![p].left = play[p].left - 1]
    BY <1>1, <1>2 DEF Ship, PieceDropped, TtsTypes, PlayRecord
  <2> QED
    BY <1>1, <1>2, <1>3, <2>1 DEF TtsTypes, PlayRecord
<1>7. UNCHANGED <<buffered, publishing, halted, tombstones, cutAt, forgotten>>
  BY DEF Ship, PieceDropped
<1>8. CASE Ship(p)
  <2>1. PICK n : n = shipped[p] + 1
    OBVIOUS
  <2>2. n \in Nat
    BY <1>2, <2>1
  <2>3. shipped' = [shipped EXCEPT ![p] = n] /\ spoiled' = spoiled
    BY <1>8, <2>1 DEF Ship
  <2>4. /\ n + k.left = shipped[p] + play[p].left
        /\ shipped[p] <= cutAt[p] => n <= cutAt[p] + 1
    BY <1>2, <1>5, <2>1
  <2>5. p \in spoiled' <=> p \in spoiled
    BY <2>3
  <2>6. PlaybackOK(k, buffered[p], n, cutAt[p], p \in publishing, p \in halted,
                   p \in spoiled', Tombstoned(p), p \in forgotten)
    BY <1>1, <1>2, <1>5, <2>4, <2>5 DEF PlaybackHolds, PlaybackOK
  <2> QED
    BY <1>5, <1>6, <1>7, <2>2, <2>3, <2>6, PlayMoves
<1>9. CASE PieceDropped(p)
  <2>1. shipped' = [shipped EXCEPT ![p] = shipped[p]] /\ spoiled' = spoiled \cup {p}
    BY <1>1, <1>9 DEF PieceDropped, TtsTypes
  <2>2. p \in spoiled'
    BY <2>1
  <2>3. PlaybackOK(k, buffered[p], shipped[p], cutAt[p], p \in publishing, p \in halted,
                   p \in spoiled', Tombstoned(p), p \in forgotten)
    BY <1>1, <1>2, <1>5, <2>2 DEF PlaybackHolds, PlaybackOK
  <2> QED
    BY <1>2, <1>5, <1>6, <1>7, <2>1, <2>3, PlayMoves
<1> QED
  BY <1>8, <1>9

\* The publication of a piece fails, and the playback with it.
LEMMA FailureKeeps ==
  ASSUME TtsInv, NEW p \in Playbacks, PublishFails(p)
  PROVE  TtsInv'
<1>1. TtsTypes /\ PlaybackHolds(p)
  BY DEF TtsInv
<1>2. play[p] \in PlayRecord /\ shipped[p] \in Nat /\ cutAt[p] \in Int /\ play[p].at = "publish"
  BY <1>1, OfPlayback DEF PublishFails
<1>3. PICK k : k = [play[p] EXCEPT !.at = "finish"]
  OBVIOUS
<1>4. k \in PlayRecord /\ k.at = "finish"
  BY <1>2, <1>3 DEF PlayRecord
<1>5. play' = [play EXCEPT ![p] = k]
  BY <1>3 DEF PublishFails
<1>6. /\ shipped' = [shipped EXCEPT ![p] = shipped[p]] /\ spoiled' = spoiled \cup {p}
      /\ UNCHANGED <<buffered, publishing, halted, tombstones, cutAt, forgotten>>
  BY <1>1 DEF PublishFails, TtsTypes
<1>7. p \in spoiled'
  BY <1>6
<1>8. PlaybackOK(k, buffered[p], shipped[p], cutAt[p], p \in publishing, p \in halted,
                 p \in spoiled', Tombstoned(p), p \in forgotten)
  BY <1>1, <1>2, <1>4, <1>7 DEF PlaybackHolds, PlaybackOK
<1> QED
  BY <1>2, <1>4, <1>5, <1>6, <1>8, PlayMoves

\* The sink forgets what it has shipped.
LEMMA FinishKeeps ==
  ASSUME TtsInv, NEW p \in Playbacks, FinishPublishing(p)
  PROVE  TtsInv'
<1>1. TtsTypes /\ PlaybackHolds(p)
  BY DEF TtsInv
<1>2. play[p] \in PlayRecord /\ play[p].at = "finish"
  BY <1>1, OfPlayback DEF FinishPublishing
<1>3. PICK k : k = [play[p] EXCEPT !.at = "over"]
  OBVIOUS
<1>4. k \in PlayRecord /\ k.at = "over" /\ k.said = play[p].said
  BY <1>2, <1>3 DEF PlayRecord
<1>5. play' = [play EXCEPT ![p] = k]
  BY <1>3 DEF FinishPublishing
<1>6. /\ play'[p] = k /\ play' \in [Playbacks -> PlayRecord]
      /\ \A q \in Playbacks : q # p => play'[q] = play[q]
  BY <1>1, <1>4, <1>5 DEF TtsTypes
<1>7. /\ publishing' = publishing \ {p} /\ halted' = halted \ {p} /\ Release(p)
      /\ UNCHANGED <<buffered, shipped, spoiled, cutAt, forgotten>>
  BY DEF FinishPublishing
<1>8. /\ tombstones' \in Seq(Playbacks)
      /\ \A q \in Playbacks : Tombstoned(q)' => Tombstoned(q)
      /\ \A q \in Playbacks : q # p /\ Tombstoned(q) => Tombstoned(q)'
  BY <1>1, <1>7, ReleasesOne DEF TtsTypes
<1>9. TtsTypes'
  BY <1>1, <1>6, <1>7, <1>8 DEF TtsTypes
<1>10. PlaybackHolds(p)'
  <2>1. p \notin publishing'
    BY <1>7
  <2> QED
    BY <1>1, <1>2, <1>4, <1>6, <1>7, <2>1 DEF PlaybackHolds, PlaybackOK
<1> QED
  BY <1>6, <1>7, <1>8, <1>9, <1>10, OtherPlaybacks

\* What is evicted while its playback speaks is remembered.
LEMMA Evicted ==
  ASSUME NEW marked, Forget(marked), NEW q \in Playbacks
  PROVE  /\ q \in forgotten => q \in forgotten'
         /\ Tombstoned(q) /\ play[q].at = "speaking" => Tombstoned(q)' \/ q \in forgotten'
         /\ q \in marked /\ play[q].at = "speaking" => Tombstoned(q)' \/ q \in forgotten'
BY DEF Forget, Tombstoned

\* The playback is cut off where it is.
LEMMA CutsOff ==
  ASSUME TtsTypes, NEW ps \in SUBSET Playbacks, CutOff(ps)
  PROVE  /\ cutAt' \in [Playbacks -> Nat \cup {-1}]
         /\ \A q \in Playbacks : cutAt'[q] = IF q \in ps /\ cutAt[q] = -1 THEN shipped[q] ELSE cutAt[q]
BY DEF CutOff, TtsTypes

\* A playback that is cancelled is over, and a tombstone more.
LEMMA CancelKeeps ==
  ASSUME TtsInv, NEW p \in Playbacks, CancelSpeech(p)
  PROVE  TtsInv'
<1>1. TtsTypes /\ PlaybackHolds(p)
  BY DEF TtsInv
<1>2. play[p] \in PlayRecord /\ play[p].at = "speaking" /\ shipped[p] \in Nat /\ cutAt[p] \in Nat \cup {-1}
  BY <1>1, OfPlayback DEF CancelSpeech
<1>3. PICK k : k = [play[p] EXCEPT !.at = "over"]
  OBVIOUS
<1>4. k \in PlayRecord /\ k.at = "over"
  BY <1>2, <1>3 DEF PlayRecord
<1>5. play' = [play EXCEPT ![p] = k] /\ buffered' = [buffered EXCEPT ![p] = 0]
  BY <1>3 DEF CancelSpeech
<1>6. /\ play'[p] = k /\ play' \in [Playbacks -> PlayRecord] /\ buffered' \in [Playbacks -> Nat]
      /\ \A q \in Playbacks : q # p => play'[q] = play[q] /\ buffered'[q] = buffered[q]
  BY <1>1, <1>4, <1>5 DEF TtsTypes
<1>7. /\ tombstones' = MarkSettled(tombstones, p) /\ CutOff({p}) /\ Forget({})
      /\ UNCHANGED <<publishing, shipped, spoiled>>
      /\ halted' = halted \cup ({p} \cap publishing)
  BY DEF CancelSpeech
<1>8. p \notin publishing
  BY <1>1, <1>2 DEF PlaybackHolds, PlaybackOK
<1>9. halted' = halted
  BY <1>7, <1>8
<1>10. tombstones' \in Seq(Playbacks) /\ Range(tombstones') \subseteq Range(tombstones) \cup {p}
  BY <1>1, <1>7, MarksOne DEF TtsTypes
<1>11. \A q \in Playbacks : q # p => (Tombstoned(q)' => Tombstoned(q))
  BY <1>10 DEF Tombstoned
<1>12. /\ cutAt' \in [Playbacks -> Nat \cup {-1}]
       /\ \A q \in Playbacks : cutAt'[q] = IF q \in {p} /\ cutAt[q] = -1 THEN shipped[q] ELSE cutAt[q]
  BY <1>1, <1>7, CutsOff
<1>13. TtsTypes'
  BY <1>1, <1>6, <1>7, <1>9, <1>10, <1>12 DEF TtsTypes
<1>14. PlaybackHolds(p)'
  <2>1. shipped[p] = 0
    BY <1>1, <1>2 DEF PlaybackHolds, PlaybackOK
  <2>2. cutAt'[p] \in Nat
    BY <1>2, <1>12
  <2>3. cutAt'[p] # -1 /\ shipped'[p] <= cutAt'[p] + 1
    BY <1>7, <2>1, <2>2
  <2>4. p \notin publishing'
    BY <1>7, <1>8
  <2> QED
    BY <1>4, <1>6, <2>3, <2>4 DEF PlaybackHolds, PlaybackOK
<1>15. \A q \in Playbacks : q # p => cutAt'[q] = cutAt[q]
  BY <1>12
<1>16. \A q \in Playbacks :
          /\ q \in forgotten => q \in forgotten'
          /\ Tombstoned(q) /\ play[q].at = "speaking" => Tombstoned(q)' \/ q \in forgotten'
  BY <1>7, Evicted
<1> QED
  BY <1>6, <1>7, <1>9, <1>11, <1>13, <1>14, <1>15, <1>16, OtherPlaybacks

\* The playbacks that wait and those that are being shipped are cut off, whatever
\* order the maps are gone through in.
LEMMA InterruptKeeps ==
  ASSUME TtsInv, InterruptSession
  PROVE  TtsInv'
<1>1. TtsTypes
  BY DEF TtsInv
<1>2. PICK waiting : waiting = {p \in Interrupted : buffered[p] > 0}
  OBVIOUS
<1>3. PICK sending : sending = Interrupted \cap publishing
  OBVIOUS
<1>4. waiting \in SUBSET Playbacks /\ sending \in SUBSET Playbacks
  BY <1>2, <1>3, TtsAssumption
<1>5. /\ buffered' = [p \in Playbacks |-> IF p \in waiting THEN 0 ELSE buffered[p]]
      /\ halted' = halted \cup sending
      /\ CutOff(waiting \cup sending) /\ Forget(waiting)
      /\ UNCHANGED <<play, publishing, shipped, spoiled>>
  BY <1>2, <1>3 DEF InterruptSession
<1>6. PICK first \in SetToSeqs(waiting), second \in SetToSeqs(sending) :
         tombstones' = MarkAll(tombstones, first \o second)
  BY <1>2, <1>3 DEF InterruptSession
<1>7. IsFiniteSet(waiting) /\ IsFiniteSet(sending)
  BY <1>4, TtsAssumption, FS_Subset
<1>8. Cardinality(waiting) \in Nat /\ Cardinality(sending) \in Nat
  BY <1>7, FS_CardinalityType
<1>9. first \in [1 .. Cardinality(waiting) -> waiting] /\ second \in [1 .. Cardinality(sending) -> sending]
  BY DEF SetToSeqs
<1>10. first \in Seq(waiting) /\ second \in Seq(sending)
  <2>1. PICK n : n = Cardinality(waiting)
    OBVIOUS
  <2>2. PICK m : m = Cardinality(sending)
    OBVIOUS
  <2> QED
    BY <1>8, <1>9, <2>1, <2>2
<1>11. first \o second \in Seq(waiting \cup sending)
  <2>1. first \in Seq(waiting \cup sending) /\ second \in Seq(waiting \cup sending)
    BY <1>10
  <2> QED
    BY <2>1, ConcatProperties
<1>12. PICK order : order = first \o second
  OBVIOUS
<1>13. order \in Seq(Playbacks) /\ Range(order) \subseteq waiting \cup sending
  <2>1. order \in Seq(waiting \cup sending)
    BY <1>11, <1>12
  <2>2. Range(order) \subseteq waiting \cup sending
    BY <2>1, RangeOf
  <2> QED
    BY <1>4, <2>1, <2>2
<1>14. tombstones' \in Seq(Playbacks) /\ Range(tombstones') \subseteq Range(tombstones) \cup waiting \cup sending
  <2>1. tombstones \in Seq(Playbacks)
    BY <1>1 DEF TtsTypes
  <2>2. /\ MarkAll(tombstones, order) \in Seq(Playbacks)
        /\ Range(MarkAll(tombstones, order)) \subseteq Range(tombstones) \cup Range(order)
    BY <1>13, <2>1, MarksAll
  <2> QED
    BY <1>6, <1>12, <1>13, <2>2
<1>15. waiting \cup sending \in SUBSET Playbacks
  BY <1>4
<1>16. /\ cutAt' \in [Playbacks -> Nat \cup {-1}]
       /\ \A q \in Playbacks : cutAt'[q] = IF q \in waiting \cup sending /\ cutAt[q] = -1 THEN shipped[q] ELSE cutAt[q]
  BY <1>1, <1>5, <1>15, CutsOff
<1>17. buffered' \in [Playbacks -> Nat]
  BY <1>1, <1>5 DEF TtsTypes
<1>18. TtsTypes'
  BY <1>1, <1>4, <1>5, <1>14, <1>16, <1>17 DEF TtsTypes
<1>19. ASSUME NEW p \in Playbacks
       PROVE  PlaybackHolds(p)'
  <2>1. PlaybackHolds(p)
    BY DEF TtsInv
  <2>2. /\ p \in forgotten => p \in forgotten'
        /\ Tombstoned(p) /\ play[p].at = "speaking" => Tombstoned(p)' \/ p \in forgotten'
        /\ p \in waiting /\ play[p].at = "speaking" => Tombstoned(p)' \/ p \in forgotten'
    BY <1>5, Evicted
  <2>3. play[p] \in PlayRecord /\ shipped[p] \in Nat /\ cutAt[p] \in Nat \cup {-1} /\ buffered[p] \in Nat
    BY <1>1, OfPlayback
  <2>4. play'[p] = play[p] /\ shipped'[p] = shipped[p] /\ publishing' = publishing /\ spoiled' = spoiled
    BY <1>5
  <2>5. CASE p \notin waiting \cup sending
    <3>1. cutAt'[p] = cutAt[p] /\ buffered'[p] = buffered[p]
      BY <1>5, <1>16, <2>5
    <3>2. p \in halted' <=> p \in halted
      BY <1>5, <2>5
    <3>3. Tombstoned(p)' => Tombstoned(p)
      BY <1>14, <2>5 DEF Tombstoned
    <3> QED
      BY <2>1, <2>2, <2>4, <3>1, <3>2, <3>3 DEF PlaybackHolds, PlaybackOK
  <2>6. CASE p \in waiting \cup sending
    <3>1. cutAt'[p] \in Nat /\ cutAt'[p] # -1 /\ cutAt'[p] >= 0
      BY <1>16, <2>3, <2>6
    <3>2. cutAt'[p] = cutAt[p] \/ (cutAt[p] = -1 /\ cutAt'[p] = shipped[p])
      BY <1>16, <2>6
    <3>3. play[p].at = "speaking" => p \in forgotten' \/ Tombstoned(p)'
      <4>1. CASE p \in waiting
        BY <2>2, <4>1
      <4>2. CASE p \notin waiting
        <5>1. p \in publishing
          BY <1>3, <2>6, <4>2
        <5> QED
          BY <2>1, <5>1 DEF PlaybackHolds, PlaybackOK
      <4> QED
        BY <4>1, <4>2
    <3>4. play[p].at \in {"pieces", "publish"} => p \in sending \/ p \notin Interrupted
      BY <1>3, <2>1 DEF PlaybackHolds, PlaybackOK
    <3>5. play[p].at \in {"pieces", "publish"} => p \in halted'
      BY <1>2, <1>3, <1>5, <2>6, <3>4
    <3>6. p \notin forgotten' => p \notin forgotten
      BY <2>2
    <3>7. p \notin forgotten' => shipped[p] <= cutAt'[p] + 1
      BY <2>1, <2>3, <3>1, <3>2, <3>6 DEF PlaybackHolds, PlaybackOK
    <3>8. p \notin forgotten' /\ play[p].at = "publish" => shipped[p] <= cutAt'[p]
      BY <2>1, <2>3, <3>1, <3>2, <3>6 DEF PlaybackHolds, PlaybackOK
    <3> QED
      BY <2>1, <2>4, <3>1, <3>3, <3>5, <3>7, <3>8 DEF PlaybackHolds, PlaybackOK
  <2> QED
    BY <2>5, <2>6
<1> QED
  BY <1>18, <1>19 DEF TtsInv

\* Every step keeps the invariant.
LEMMA TtsInvStep ==
  ASSUME TtsInv, [TtsNext]_ttsVars
  PROVE  TtsInv'
<1>1. ASSUME UNCHANGED <<play, buffered, publishing, halted, tombstones, shipped, spoiled, cutAt, forgotten>>
      PROVE  TtsInv'
  BY <1>1 DEF TtsInv, TtsTypes, PlaybackHolds, Tombstoned
<1>2. CASE UNCHANGED ttsVars
  BY <1>1, <1>2 DEF ttsVars
<1>3. CASE LinkChanges
  BY <1>1, <1>3 DEF LinkChanges
<1>4. CASE InterruptSession
  BY <1>4, InterruptKeeps
<1>5. ASSUME NEW p \in Playbacks,
             \/ SpeakChunk(p) \/ CompletePlayback(p) \/ CompleteRefused(p) \/ CancelSpeech(p)
             \/ NextPiece(p) \/ Ship(p) \/ PieceDropped(p) \/ PublishFails(p) \/ FinishPublishing(p)
      PROVE  TtsInv'
  BY <1>5, SpeakKeeps, CompleteKeeps, RefusedKeeps, CancelKeeps, NextPieceKeeps, PieceKeeps,
     FailureKeeps, FinishKeeps
<1> QED
  BY <1>2, <1>3, <1>4, <1>5 DEF TtsNext

\* The invariant holds in every run.
LEMMA TtsInvHolds == TtsSpec => []TtsInv
<1>1. TtsInit => TtsInv
  <2> SUFFICES ASSUME TtsInit
               PROVE  TtsInv
    OBVIOUS
  <2>1. tombstones \in Seq(Playbacks) /\ Range(tombstones) = {}
    BY DEF TtsInit, Range
  <2>2. TtsTypes
    BY <2>1 DEF TtsInit, TtsTypes, PlayRecord
  <2>3. ASSUME NEW p \in Playbacks
        PROVE  PlaybackHolds(p)
    <3>1. /\ play[p].at = "speaking" /\ play[p].said = 0 /\ buffered[p] = 0 /\ shipped[p] = 0
          /\ cutAt[p] = -1 /\ p \notin publishing
      BY DEF TtsInit
    <3>2. ~Tombstoned(p)
      BY <2>1 DEF Tombstoned
    <3> QED
      BY <3>1, <3>2 DEF PlaybackHolds, PlaybackOK
  <2> QED
    BY <2>2, <2>3 DEF TtsInv
<1> QED
  BY <1>1, TtsInvStep, PTL DEF TtsSpec

\* A playback that is cut off ships at most the piece under way, as long as its
\* tombstone is not evicted before it completes, and one that nothing cut off and
\* that lost no piece is shipped whole: for any number of playbacks, chunks and
\* interruptions, and whatever order the maps are gone through in
\* (localruntime/tts_dc_sink.go:166-206, 247-281).
THEOREM SettledSilentHolds == TtsSpec => []SettledSilent
<1>1. TtsInv => SettledSilent
  <2> SUFFICES ASSUME TtsInv
               PROVE  SettledSilent
    OBVIOUS
  <2>1. SilentWhenCut
    BY DEF TtsInv, PlaybackHolds, PlaybackOK, SilentWhenCut
  <2>2. WholeUnlessCut
    BY DEF TtsInv, PlaybackHolds, PlaybackOK, WholeUnlessCut
  <2> QED
    BY <2>1, <2>2 DEF SettledSilent
<1> QED
  BY <1>1, TtsInvHolds, PTL

-----------------------------------------------------------------------------
(* The media loop: what is said reaches one listener.                          *)

HeldTurn == [audio : Seq(Nat), at : {"open", "queued", "finishing", "finished", "dropped", "closed"}]
HeldEvent == [type : {"opened", "audio", "final"}, frames : Seq(Nat)]

FramesOf(s) == {s[i] : i \in 1 .. Len(s)}
EventFrames(evs) == UNION {FramesOf(evs[i].frames) : i \in 1 .. Len(evs)}

\* A run of frames without a gap, up to the frame last.
RunTo(s, last) == \A i \in 1 .. Len(s) : s[i] = last - Len(s) + i

Heeding == {"open", "queued", "finishing", "finished"}

SegmentTypes ==
    /\ captured \in Nat /\ spoken \in SUBSET Nat /\ commanded \in SUBSET Nat /\ lost \in SUBSET Nat
    /\ DOMAIN segmenter = {"active", "startedAt", "lastSpeech", "frames", "prefix"}
    /\ segmenter.active \in BOOLEAN
    /\ segmenter.frames \in Seq(Nat) /\ segmenter.prefix \in Seq(Nat)
    /\ events \in Seq(HeldEvent) /\ turns \in Seq(HeldTurn)
    /\ activeTurn \in 0 .. Len(turns) /\ finals \in Seq(1 .. Len(turns))
    /\ loop \in {"reading", "flushed", "failed", "closed"} /\ worker \in Gone .. Len(turns)
    /\ window \in BOOLEAN /\ aborted \in BOOLEAN

\* No frame comes from the future.
CapturedOnly(c, said, com, seg, evs, ts) ==
    /\ \A x \in said \cup com : x <= c
    /\ \A x \in FramesOf(seg.frames) \cup FramesOf(seg.prefix) \cup EventFrames(evs) : x <= c
    /\ \A t \in 1 .. Len(ts) : \A x \in FramesOf(ts[t].audio) : x <= c

\* What the segmenter and the loop hold between them: the prefix ends at the frame read
\* last, and the events are what one frame can leave behind.
SegmenterOK(c, seg, evs, active, win, lp) ==
    /\ RunTo(seg.prefix, c)
    /\ seg.active => seg.prefix = <<>>
    /\ ~seg.active => seg.frames = <<>>
    /\ win => ~seg.active /\ seg.prefix = <<>> /\ evs = <<>> /\ active = 0
    /\ lp = "flushed" => ~seg.active
    /\ \/ evs = <<>>
       \/ evs = <<FinalEvent>> /\ ~seg.active
       \/ evs = <<Event("audio", <<c>>)>> /\ seg.active /\ c \in FramesOf(seg.frames)
       \/ /\ Len(evs) = 2
          /\ LET p == evs[1].frames IN
             /\ evs = <<Event("opened", p), Event("audio", <<c>>)>>
             /\ RunTo(p, c - 1) /\ FramesOf(p) \cup {c} \subseteq FramesOf(seg.frames)
          /\ seg.active /\ active = 0
       \/ /\ evs = <<FinalEvent, Event("opened", <<>>), Event("audio", <<c>>)>>
          /\ seg.active /\ seg.frames = <<c>>

\* What is kept before an utterance is not speech.
QuietBefore(said, seg, evs) ==
    /\ \A x \in FramesOf(seg.prefix) : x \notin said
    /\ \A i \in 1 .. Len(evs) : evs[i].type = "opened" => FramesOf(evs[i].frames) \cap said = {}

\* The turn in flight has what the segmenter has, but for the frame on its way.
InFlight(c, seg, evs, ts, active) ==
    active # 0 =>
        /\ ts[active].at = "open"
        /\ evs = <<>> => seg.active /\ RunTo(ts[active].audio, c)
        /\ evs = <<Event("audio", <<c>>)>> => RunTo(ts[active].audio, c - 1)
        /\ evs = <<>> \/ Head(evs).type = "audio" => FramesOf(ts[active].audio) \subseteq FramesOf(seg.frames)

\* Turns that are listened to, the gate and what is still held share no frame.
Apart(com, seg, evs, ts, active) ==
    /\ \A x \in FramesOf(seg.prefix) \cup EventFrames(evs) :
          /\ x \notin com
          /\ \A t \in 1 .. Len(ts) : ts[t].at \in Heeding => x \notin FramesOf(ts[t].audio)
    /\ \A t \in 1 .. Len(ts) : ts[t].at \in Heeding =>
          /\ FramesOf(ts[t].audio) \cap com = {}
          /\ t # active => FramesOf(ts[t].audio) \cap FramesOf(seg.frames) = {}
          /\ \A u \in 1 .. Len(ts) : u # t /\ ts[u].at \in Heeding =>
                FramesOf(ts[t].audio) \cap FramesOf(ts[u].audio) = {}

\* Where a frame that was spoken is.
Placed(x, com, gone, evs, ts, stopped) ==
    \/ x \in com \/ x \in gone \/ x \in EventFrames(evs) \/ stopped
    \/ \E t \in 1 .. Len(ts) : ts[t].at \in Heeding \cup {"dropped"} /\ x \in FramesOf(ts[t].audio)

NoGaps(ts) == \A t \in 1 .. Len(ts) : \A k \in 2 .. Len(ts[t].audio) : ts[t].audio[k] = ts[t].audio[k - 1] + 1

\* Each turn is where its stage says, and nowhere else.
Staged(ts, active, waiting, serving, stopped) ==
    /\ \A t \in 1 .. Len(ts) :
          /\ ts[t].at = "open" => t = active \/ stopped
          /\ ts[t].at = "queued" => \E i \in 1 .. Len(waiting) : waiting[i] = t
          /\ ts[t].at = "finishing" => t = serving
    /\ \A i \in 1 .. Len(waiting) : ts[waiting[i]].at = "queued"
    /\ \A i, j \in 1 .. Len(waiting) : waiting[i] = waiting[j] => i = j
    /\ serving > 0 => ts[serving].at = "finishing"

\* What is over is over.
EndsInOrder(lp, serving, waiting, active, stopped) ==
    /\ lp = "failed" => stopped
    /\ lp = "closed" => active = 0
    /\ serving = Gone => stopped \/ (lp = "closed" /\ waiting = <<>>)

SegmentInv ==
    /\ SegmentTypes
    /\ CapturedOnly(captured, spoken, commanded, segmenter, events, turns)
    /\ QuietBefore(spoken, segmenter, events)
    /\ SegmenterOK(captured, segmenter, events, activeTurn, window, loop)
    /\ InFlight(captured, segmenter, events, turns, activeTurn)
    /\ Apart(commanded, segmenter, events, turns, activeTurn)
    /\ \A x \in spoken : Placed(x, commanded, lost, events, turns, aborted)
    /\ NoGaps(turns)
    /\ Staged(turns, activeTurn, finals, worker, aborted)
    /\ EndsInOrder(loop, worker, finals, activeTurn, aborted)

\* A frame more at the end of a list.
LEMMA FrameAppended ==
  ASSUME NEW s \in Seq(Nat), NEW x \in Nat
  PROVE  /\ Append(s, x) \in Seq(Nat) /\ Len(Append(s, x)) = Len(s) + 1 /\ Len(s) \in Nat
         /\ \A i \in 1 .. Len(s) : Append(s, x)[i] = s[i]
         /\ Append(s, x)[Len(s) + 1] = x
         /\ FramesOf(Append(s, x)) = FramesOf(s) \cup {x}
<1>1. PICK v : v = Append(s, x)
  OBVIOUS
<1>2. /\ v \in Seq(Nat) /\ Len(v) = Len(s) + 1 /\ Len(s) \in Nat
      /\ \A i \in 1 .. Len(s) : v[i] = s[i]
      /\ v[Len(s) + 1] = x
  BY <1>1, AppendProperties, LenProperties
<1>3. \A i \in 1 .. Len(v) : i \in 1 .. Len(s) \/ i = Len(s) + 1
  BY <1>2
<1>4. Len(s) + 1 \in 1 .. Len(v) /\ \A i \in 1 .. Len(s) : i \in 1 .. Len(v)
  BY <1>2
<1>5. \A y \in FramesOf(v) : y \in FramesOf(s) \cup {x}
  BY <1>2, <1>3 DEF FramesOf
<1>6. \A y \in FramesOf(s) \cup {x} : y \in FramesOf(v)
  BY <1>2, <1>4 DEF FramesOf
<1>7. FramesOf(v) = FramesOf(s) \cup {x}
  BY <1>5, <1>6
<1> QED
  BY <1>1, <1>2, <1>7

\* The next frame prolongs a run.
LEMMA RunAppended ==
  ASSUME NEW s \in Seq(Nat), NEW c \in Int, c + 1 \in Nat, RunTo(s, c)
  PROVE  RunTo(Append(s, c + 1), c + 1)
<1>1. PICK v : v = Append(s, c + 1)
  OBVIOUS
<1>2. /\ v \in Seq(Nat) /\ Len(v) = Len(s) + 1 /\ Len(s) \in Nat
      /\ \A i \in 1 .. Len(s) : v[i] = s[i]
      /\ v[Len(s) + 1] = c + 1
  BY <1>1, FrameAppended
<1>3. ASSUME NEW i \in 1 .. Len(v)
      PROVE  v[i] = (c + 1) - Len(v) + i
  <2>1. CASE i = Len(s) + 1
    BY <1>2, <2>1
  <2>2. CASE i \in 1 .. Len(s)
    <3>1. v[i] = c - Len(s) + i
      BY <1>2, <2>2 DEF RunTo
    <3> QED
      BY <1>2, <2>2, <3>1
  <2> QED
    BY <1>2, <2>1, <2>2
<1> QED
  BY <1>1, <1>3 DEF RunTo

\* In a run a frame follows the one before.
LEMMA RunWhole ==
  ASSUME NEW s \in Seq(Nat), NEW c \in Int, RunTo(s, c)
  PROVE  \A k \in 2 .. Len(s) : s[k] = s[k - 1] + 1
<1> SUFFICES ASSUME NEW k \in 2 .. Len(s)
             PROVE  s[k] = s[k - 1] + 1
  OBVIOUS
<1>1. PICK j : j = k - 1
  OBVIOUS
<1>2. Len(s) \in Nat /\ k \in 1 .. Len(s) /\ j \in 1 .. Len(s)
  BY <1>1, LenProperties
<1>3. s[k] = c - Len(s) + k /\ s[j] = c - Len(s) + j
  BY <1>2 DEF RunTo
<1> QED
  BY <1>1, <1>2, <1>3

\* rememberPrefix: what is kept is the end of the run, with the new frame.
LEMMA RememberKeeps ==
  ASSUME NEW s, s.prefix \in Seq(Nat), NEW c \in Nat, RunTo(s.prefix, c)
  PROVE  \E q \in Seq(Nat) : /\ Remember(s, c + 1) = [s EXCEPT !.prefix = q]
                             /\ RunTo(q, c + 1) /\ FramesOf(q) \subseteq FramesOf(s.prefix) \cup {c + 1}
<1>1. PICK f : f = c + 1
  OBVIOUS
<1>2. PICK v : v = Append(s.prefix, f)
  OBVIOUS
<1>3. PICK n : n = Len(v)
  OBVIOUS
<1>4. /\ v \in Seq(Nat) /\ n \in Nat \ {0} /\ f \in Nat
      /\ FramesOf(v) = FramesOf(s.prefix) \cup {f}
      /\ \A i \in 1 .. n : v[i] = f - n + i
  <2>1. f \in Nat
    BY <1>1
  <2>2. RunTo(v, f)
    BY <1>1, <1>2, RunAppended
  <2>3. /\ v \in Seq(Nat) /\ Len(v) = Len(s.prefix) + 1 /\ Len(s.prefix) \in Nat
        /\ FramesOf(v) = FramesOf(s.prefix) \cup {f}
    BY <1>2, <2>1, FrameAppended
  <2>4. \A i \in 1 .. n : v[i] = f - n + i
    BY <1>3, <2>2 DEF RunTo
  <2>5. n \in Nat \ {0}
    BY <1>3, <2>3
  <2> QED
    BY <2>1, <2>3, <2>4, <2>5
<1>5. CASE Padding = 0
  <2>1. RunTo(<<>>, c + 1) /\ FramesOf(<<>>) \subseteq FramesOf(s.prefix) \cup {c + 1} /\ <<>> \in Seq(Nat)
    BY DEF RunTo, FramesOf
  <2> QED
    BY <1>5, <2>1 DEF Remember
<1>6. CASE Padding # 0
  <2>1. PICK first : first = CHOOSE i \in DOMAIN v : v[i] >= f - Padding /\ \A j \in 1 .. i - 1 : v[j] < f - Padding
    OBVIOUS
  <2>2. \E i \in 1 .. n : v[i] >= f - Padding /\ \A j \in 1 .. i - 1 : v[j] < f - Padding
    <3>0. Padding \in Nat \ {0}
      BY <1>6, SegmentationAssumption
    <3>1. CASE n <= Padding
      <4>1. 1 \in 1 .. n /\ 1 .. 1 - 1 = {} /\ v[1] = f - n + 1
        BY <1>4
      <4>2. v[1] >= f - Padding
        BY <1>4, <3>0, <3>1, <4>1
      <4> QED
        BY <4>1, <4>2
    <3>2. CASE ~(n <= Padding)
      <4>1. PICK i : i = n - Padding
        OBVIOUS
      <4>2. i \in 1 .. n /\ v[i] = f - Padding
        BY <1>4, <3>0, <3>2, <4>1
      <4>3. \A j \in 1 .. i - 1 : j \in 1 .. n /\ f - n + j < f - Padding
        BY <1>4, <3>0, <3>2, <4>1
      <4>4. v[i] >= f - Padding
        BY <1>4, <3>0, <4>2
      <4> QED
        BY <1>4, <4>2, <4>3, <4>4
    <3> QED
      BY <3>1, <3>2
  <2>3. DOMAIN v = 1 .. n
    BY <1>3, <1>4
  <2>4. first \in 1 .. n
    BY <2>1, <2>2, <2>3
  <2>5. PICK q : q = SubSeq(v, first, n)
    OBVIOUS
  <2>6. PICK m : m = n - first + 1
    OBVIOUS
  <2>7. /\ q \in Seq(Nat) /\ Len(q) = m /\ m \in Nat
        /\ \A i \in 1 .. m : q[i] = v[first + i - 1] /\ first + i - 1 \in 1 .. n
    <3>1. /\ SubSeq(v, first, n) \in Seq(Nat)
          /\ Len(SubSeq(v, first, n)) = IF first <= n THEN n - first + 1 ELSE 0
          /\ \A i \in 1 .. n - first + 1 : SubSeq(v, first, n)[i] = v[first + i - 1]
      BY <1>3, <1>4, <2>4, SubSeqProperties
    <3>2. m \in Nat /\ first <= n /\ \A i \in 1 .. m : first + i - 1 \in 1 .. n
      BY <1>4, <2>4, <2>6
    <3> QED
      BY <2>5, <2>6, <3>1, <3>2
  <2>8. RunTo(q, f)
    <3> SUFFICES ASSUME NEW i \in 1 .. m
                 PROVE  q[i] = f - m + i
      BY <2>7 DEF RunTo
    <3>1. PICK k : k = first + i - 1
      OBVIOUS
    <3>2. k \in 1 .. n /\ q[i] = v[k]
      BY <2>7, <3>1
    <3>3. v[k] = f - n + k
      BY <1>4, <3>2
    <3> QED
      BY <1>4, <2>4, <2>6, <3>1, <3>2, <3>3
  <2>9. FramesOf(q) \subseteq FramesOf(v)
    BY <1>3, <2>7 DEF FramesOf
  <2>10. Remember(s, f) = [s EXCEPT !.prefix = q]
    BY <1>2, <1>3, <1>6, <2>1, <2>5 DEF Remember
  <2> QED
    BY <1>1, <1>4, <2>7, <2>8, <2>9, <2>10
<1> QED
  BY <1>5, <1>6

\* What the loop may have to handle, and what is left behind it.
LEMMA HeldFrames ==
  ASSUME NEW c \in Nat, NEW p \in Seq(Nat)
  PROVE  /\ EventFrames(<<>>) = {} /\ EventFrames(<<FinalEvent>>) = {}
         /\ EventFrames(<<Event("audio", <<c>>)>>) = {c}
         /\ EventFrames(<<Event("opened", p), Event("audio", <<c>>)>>) = FramesOf(p) \cup {c}
         /\ EventFrames(<<FinalEvent, Event("opened", <<>>), Event("audio", <<c>>)>>) = {c}
         /\ FramesOf(<<>>) = {} /\ FramesOf(<<c>>) = {c}
<1>1. FramesOf(<<>>) = {} /\ FramesOf(<<c>>) = {c}
  BY DEF FramesOf
<1>2. /\ 1 .. 0 = {} /\ 1 .. 1 = {1} /\ 1 .. 2 = {1, 2} /\ 1 .. 3 = {1, 2, 3}
  OBVIOUS
<1>3. EventFrames(<<>>) = {}
  BY <1>2 DEF EventFrames
<1>4. EventFrames(<<FinalEvent>>) = {}
  <2>1. PICK e : e = <<FinalEvent>>
    OBVIOUS
  <2>2. Len(e) = 1 /\ e[1].frames = <<>>
    BY <2>1 DEF FinalEvent, Event
  <2> QED
    BY <1>1, <1>2, <2>1, <2>2 DEF EventFrames
<1>5. EventFrames(<<Event("audio", <<c>>)>>) = {c}
  <2>1. PICK e : e = <<Event("audio", <<c>>)>>
    OBVIOUS
  <2>2. Len(e) = 1 /\ e[1].frames = <<c>>
    BY <2>1 DEF Event
  <2>3. EventFrames(e) = UNION {FramesOf(e[i].frames) : i \in {1}}
    BY <1>2, <2>2 DEF EventFrames
  <2>4. UNION {FramesOf(e[i].frames) : i \in {1}} = FramesOf(e[1].frames)
    OBVIOUS
  <2> QED
    BY <1>1, <2>1, <2>2, <2>3, <2>4
<1>6. EventFrames(<<Event("opened", p), Event("audio", <<c>>)>>) = FramesOf(p) \cup {c}
  <2>1. PICK e : e = <<Event("opened", p), Event("audio", <<c>>)>>
    OBVIOUS
  <2>2. Len(e) = 2 /\ e[1].frames = p /\ e[2].frames = <<c>>
    BY <2>1 DEF Event
  <2>3. EventFrames(e) = UNION {FramesOf(e[i].frames) : i \in {1, 2}}
    BY <1>2, <2>2 DEF EventFrames
  <2>4. EventFrames(e) = FramesOf(p) \cup FramesOf(<<c>>)
    BY <2>2, <2>3
  <2> QED
    BY <1>1, <2>1, <2>4
<1>7. EventFrames(<<FinalEvent, Event("opened", <<>>), Event("audio", <<c>>)>>) = {c}
  <2>1. PICK e : e = <<FinalEvent, Event("opened", <<>>), Event("audio", <<c>>)>>
    OBVIOUS
  <2>2. Len(e) = 3 /\ e[1].frames = <<>> /\ e[2].frames = <<>> /\ e[3].frames = <<c>>
    BY <2>1 DEF FinalEvent, Event
  <2>3. EventFrames(e) = UNION {FramesOf(e[i].frames) : i \in {1, 2, 3}}
    BY <1>2, <2>2 DEF EventFrames
  <2>4. EventFrames(e) = FramesOf(<<>>) \cup FramesOf(<<>>) \cup FramesOf(<<c>>)
    BY <2>2, <2>3
  <2> QED
    BY <1>1, <2>1, <2>4
<1> QED
  BY <1>1, <1>3, <1>4, <1>5, <1>6, <1>7

\* The event to handle, and what is left.
LEMMA EventToHandle ==
  ASSUME SegmentInv, events # <<>>
  PROVE  /\ Head(events).type = "final" =>
               \/ events = <<FinalEvent>> /\ ~segmenter.active /\ Tail(events) = <<>>
               \/ /\ events = <<FinalEvent, Event("opened", <<>>), Event("audio", <<captured>>)>>
                  /\ segmenter.active /\ segmenter.frames = <<captured>>
                  /\ Tail(events) = <<Event("opened", <<>>), Event("audio", <<captured>>)>>
         /\ Head(events).type = "opened" =>
               \E p \in Seq(Nat) :
                  /\ events = <<Event("opened", p), Event("audio", <<captured>>)>>
                  /\ Head(events).frames = p /\ Tail(events) = <<Event("audio", <<captured>>)>>
                  /\ RunTo(p, captured - 1) /\ FramesOf(p) \cup {captured} \subseteq FramesOf(segmenter.frames)
                  /\ segmenter.active /\ activeTurn = 0
         /\ Head(events).type = "audio" =>
               /\ events = <<Event("audio", <<captured>>)>>
               /\ Head(events).frames = <<captured>> /\ Tail(events) = <<>>
               /\ segmenter.active /\ captured \in FramesOf(segmenter.frames)
<1>1. PICK c : c = captured
  OBVIOUS
<1>2. PICK p : p = events[1].frames
  OBVIOUS
<1>3. events \in Seq(HeldEvent) /\ SegmenterOK(c, segmenter, events, activeTurn, window, loop)
  BY <1>1 DEF SegmentInv, SegmentTypes
<1>4. CASE events = <<FinalEvent>> /\ ~segmenter.active
  <2>1. Head(events).type = "final" /\ Tail(events) = <<>>
    BY <1>4 DEF FinalEvent, Event
  <2> QED
    BY <1>4, <2>1
<1>5. CASE events = <<Event("audio", <<c>>)>> /\ segmenter.active /\ c \in FramesOf(segmenter.frames)
  <2>1. Head(events).type = "audio" /\ Head(events).frames = <<c>> /\ Tail(events) = <<>>
    BY <1>5 DEF Event
  <2> QED
    BY <1>1, <1>5, <2>1
<1>6. CASE /\ events = <<Event("opened", p), Event("audio", <<c>>)>>
           /\ RunTo(p, c - 1) /\ FramesOf(p) \cup {c} \subseteq FramesOf(segmenter.frames)
           /\ segmenter.active /\ activeTurn = 0
  <2>1. PICK e : e = Event("audio", <<c>>)
    OBVIOUS
  <2>2. PICK o : o = Event("opened", p)
    OBVIOUS
  <2>3. events = <<o, e>>
    BY <1>6, <2>1, <2>2
  <2>4. Head(events) = o /\ Tail(events) = <<e>>
    BY <2>3
  <2>5. o.type = "opened" /\ o.frames = p
    BY <2>2 DEF Event
  <2>6. p \in Seq(Nat)
    <3>1. 1 \in 1 .. Len(events)
      BY <2>3
    <3>2. events[1] \in HeldEvent
      BY <1>3, <3>1
    <3> QED
      BY <1>2, <3>2 DEF HeldEvent
  <2> QED
    BY <1>1, <1>6, <2>1, <2>4, <2>5, <2>6
<1>7. CASE /\ events = <<FinalEvent, Event("opened", <<>>), Event("audio", <<c>>)>>
           /\ segmenter.active /\ segmenter.frames = <<c>>
  <2>1. PICK e : e = Event("audio", <<c>>)
    OBVIOUS
  <2>2. PICK o : o = Event("opened", <<>>)
    OBVIOUS
  <2>3. PICK x : x = FinalEvent
    OBVIOUS
  <2>4. events = <<x, o, e>>
    BY <1>7, <2>1, <2>2, <2>3
  <2>5. Head(events) = x /\ Tail(events) = <<o, e>>
    BY <2>4
  <2>6. x.type = "final"
    BY <2>3 DEF FinalEvent, Event
  <2> QED
    BY <1>1, <1>7, <2>1, <2>2, <2>5, <2>6
<1> QED
  BY <1>2, <1>3, <1>4, <1>5, <1>6, <1>7 DEF SegmenterOK

\* Turns that keep their audio.
LEMMA SameAudio ==
  ASSUME NEW ts, NEW us, Len(us) = Len(ts), \A t \in 1 .. Len(ts) : us[t].audio = ts[t].audio
  PROVE  /\ \A c, said, com, seg, evs : CapturedOnly(c, said, com, seg, evs, ts) => CapturedOnly(c, said, com, seg, evs, us)
         /\ NoGaps(ts) => NoGaps(us)
BY DEF CapturedOnly, NoGaps

\* Nothing more is listened to or held, and what is at hand stays apart.
LEMMA ApartLess ==
  ASSUME NEW ts, NEW us, Len(us) = Len(ts), \A t \in 1 .. Len(ts) : us[t].audio = ts[t].audio,
         \A t \in 1 .. Len(ts) : us[t].at \in Heeding => ts[t].at \in Heeding,
         NEW com, NEW seg, NEW n, NEW evs, NEW e, NEW a, NEW b,
         FramesOf(n.prefix) \cup EventFrames(e) \subseteq FramesOf(seg.prefix) \cup EventFrames(evs),
         \A t \in 1 .. Len(ts) : us[t].at \in Heeding /\ t # b => FramesOf(us[t].audio) \cap FramesOf(n.frames) = {},
         Apart(com, seg, evs, ts, a)
  PROVE  Apart(com, n, e, us, b)
<1>1. ASSUME NEW x \in FramesOf(n.prefix) \cup EventFrames(e)
      PROVE  /\ x \notin com
             /\ \A t \in 1 .. Len(us) : us[t].at \in Heeding => x \notin FramesOf(us[t].audio)
  BY DEF Apart
<1>2. ASSUME NEW t \in 1 .. Len(us), us[t].at \in Heeding
      PROVE  /\ FramesOf(us[t].audio) \cap com = {}
             /\ \A u \in 1 .. Len(us) : u # t /\ us[u].at \in Heeding =>
                  FramesOf(us[t].audio) \cap FramesOf(us[u].audio) = {}
  <2>1. ts[t].at \in Heeding /\ FramesOf(us[t].audio) = FramesOf(ts[t].audio) /\ t \in 1 .. Len(ts)
    BY <1>2
  <2>2. FramesOf(ts[t].audio) \cap com = {}
    BY <2>1 DEF Apart
  <2>3. ASSUME NEW u \in 1 .. Len(us), u # t, us[u].at \in Heeding
        PROVE  FramesOf(us[t].audio) \cap FramesOf(us[u].audio) = {}
    <3>1. ts[u].at \in Heeding /\ FramesOf(us[u].audio) = FramesOf(ts[u].audio) /\ u \in 1 .. Len(ts)
      BY <2>3
    <3>2. FramesOf(ts[t].audio) \cap FramesOf(ts[u].audio) = {}
      BY <2>1, <2>3, <3>1 DEF Apart
    <3> QED
      BY <2>1, <3>1, <3>2
  <2> QED
    BY <2>1, <2>2, <2>3
<1> QED
  BY <1>1, <1>2 DEF Apart

\* The turn t is in another stage, and nothing else is changed.
Restaged(ts, us, t, at) ==
    /\ us \in Seq(HeldTurn) /\ Len(us) = Len(ts) /\ us[t].at = at
    /\ \A u \in 1 .. Len(ts) : us[u].audio = ts[u].audio /\ (u # t => us[u].at = ts[u].at)

\* A stage is one field of one turn.
LEMMA TurnRestaged ==
  ASSUME NEW ts \in Seq(HeldTurn), NEW t \in 1 .. Len(ts),
         NEW at \in {"open", "queued", "finishing", "finished", "dropped", "closed"}
  PROVE  Restaged(ts, [ts EXCEPT ![t].at = at], t, at)
<1>0. PICK us : us = [ts EXCEPT ![t].at = at]
  OBVIOUS
<1>1. PICK r : r = [ts[t] EXCEPT !.at = at]
  OBVIOUS
<1>2. ts[t] \in HeldTurn
  OBVIOUS
<1>3. r \in HeldTurn /\ r.at = at /\ r.audio = ts[t].audio
  BY <1>1, <1>2 DEF HeldTurn
<1>4. us = [ts EXCEPT ![t] = r]
  BY <1>0, <1>1
<1>5. us \in Seq(HeldTurn) /\ Len(us) = Len(ts) /\ us[t] = r /\ \A u \in 1 .. Len(ts) : u # t => us[u] = ts[u]
  BY <1>3, <1>4, ExceptSeq
<1> QED
  BY <1>0, <1>3, <1>5 DEF Restaged

\* Whoever leaves the turn in flight closes it.
LEMMA TurnLeft ==
  ASSUME SegmentInv, LeaveTurn(activeTurn)
  PROVE  /\ turns' \in Seq(HeldTurn) /\ Len(turns') = Len(turns) /\ activeTurn' = 0
         /\ \A t \in 1 .. Len(turns) :
               /\ turns'[t].audio = turns[t].audio
               /\ t # activeTurn => turns'[t].at = turns[t].at
               /\ t = activeTurn => turns'[t].at = "closed"
         /\ Staged(turns', 0, finals, worker, aborted)
<1>1. turns \in Seq(HeldTurn) /\ activeTurn \in 0 .. Len(turns) /\ finals \in Seq(1 .. Len(turns)) /\ worker \in Gone .. Len(turns)
  BY DEF SegmentInv, SegmentTypes
<1>2. Staged(turns, activeTurn, finals, worker, aborted) /\ (activeTurn # 0 => turns[activeTurn].at = "open")
  BY DEF SegmentInv, InFlight
<1>3. activeTurn' = 0 /\ turns' = IF activeTurn = 0 THEN turns ELSE [turns EXCEPT ![activeTurn].at = "closed"]
  BY DEF LeaveTurn
<1>4. CASE activeTurn = 0
  <2>1. turns' = turns /\ Len(turns) \in Nat
    BY <1>1, <1>3, <1>4, LenProperties
  <2> QED
    BY <1>1, <1>2, <1>3, <1>4, <2>1
<1>5. CASE activeTurn # 0
  <2>1. activeTurn \in 1 .. Len(turns) /\ turns' = [turns EXCEPT ![activeTurn].at = "closed"]
    BY <1>1, <1>3, <1>5, LenProperties
  <2>2. /\ turns' \in Seq(HeldTurn) /\ Len(turns') = Len(turns) /\ turns'[activeTurn].at = "closed"
        /\ \A u \in 1 .. Len(turns) : turns'[u].audio = turns[u].audio /\ (u # activeTurn => turns'[u].at = turns[u].at)
    <3>1. Restaged(turns, [turns EXCEPT ![activeTurn].at = "closed"], activeTurn, "closed")
      BY <1>1, <2>1, TurnRestaged
    <3>2. Restaged(turns, turns', activeTurn, "closed")
      BY <2>1, <3>1
    <3> QED
      BY <3>2 DEF Restaged
  <2>3. Staged(turns', 0, finals, worker, aborted)
    <3>1. \A i \in 1 .. Len(finals) : finals[i] \in 1 .. Len(turns)
      BY <1>1
    <3>2. worker > 0 => worker \in 1 .. Len(turns)
      BY <1>1, LenProperties DEF Gone
    <3> QED
      BY <1>2, <1>5, <2>1, <2>2, <3>1, <3>2 DEF Staged
  <2> QED
    BY <1>3, <2>2, <2>3
<1> QED
  BY <1>4, <1>5

\* What Push makes of the frame c + 1.
PushedOK(f, speech, n, e) ==
    /\ DOMAIN n = {"active", "startedAt", "lastSpeech", "frames", "prefix"}
    /\ n.active \in BOOLEAN /\ n.frames \in Seq(Nat) /\ n.prefix \in Seq(Nat)
    /\ e \in Seq(HeldEvent)
    /\ FramesOf(n.frames) \subseteq FramesOf(segmenter.frames) \cup FramesOf(segmenter.prefix) \cup {f}
    /\ FramesOf(n.prefix) \cup EventFrames(e) \subseteq FramesOf(segmenter.prefix) \cup {f}
    /\ SegmenterOK(f, n, e, activeTurn, FALSE, "reading")
    /\ speech => f \in EventFrames(e) /\ n.prefix = <<>>
    /\ \A i \in 1 .. Len(e) : e[i].type = "opened" => FramesOf(e[i].frames) \subseteq FramesOf(segmenter.prefix)
    /\ e = <<>> => activeTurn = 0
    /\ e # <<>> /\ Head(e).type = "audio" =>
          e = <<Event("audio", <<f>>)>> /\ FramesOf(segmenter.frames) \subseteq FramesOf(n.frames)

\* The segmenter keeps every frame of an utterance, and hands each on once (Segmenter.Push).
LEMMA PushOutcome ==
  ASSUME SegmentInv, events = <<>>, NEW speech \in BOOLEAN, NEW f, f = captured + 1
  PROVE  PushedOK(f, speech, Push(f, speech).next, Push(f, speech).events)
<1>1. PICK c : c = captured
  OBVIOUS
<1>2. PICK s : s = segmenter
  OBVIOUS
<1>3. /\ c \in Nat /\ f = c + 1 /\ f \in Nat /\ f - 1 = c
      /\ DOMAIN s = {"active", "startedAt", "lastSpeech", "frames", "prefix"}
      /\ s.active \in BOOLEAN /\ s.frames \in Seq(Nat) /\ s.prefix \in Seq(Nat)
      /\ RunTo(s.prefix, c)
      /\ s.active => s.prefix = <<>>
      /\ ~s.active => s.frames = <<>>
      /\ activeTurn # 0 => s.active
  BY <1>1, <1>2 DEF SegmentInv, SegmentTypes, SegmenterOK, InFlight
<1>4. /\ <<>> \in Seq(Nat) /\ <<f>> \in Seq(Nat)
      /\ \A p \in Seq(Nat) : Event("opened", p) \in HeldEvent
      /\ Event("audio", <<f>>) \in HeldEvent /\ FinalEvent \in HeldEvent
      /\ \A x : RunTo(<<>>, x)
  BY <1>3 DEF Event, FinalEvent, HeldEvent, RunTo
<1>5. /\ EventFrames(<<>>) = {} /\ EventFrames(<<FinalEvent>>) = {}
      /\ EventFrames(<<Event("audio", <<f>>)>>) = {f}
      /\ EventFrames(<<FinalEvent, Event("opened", <<>>), Event("audio", <<f>>)>>) = {f}
      /\ FramesOf(<<>>) = {} /\ FramesOf(<<f>>) = {f}
  BY <1>3, <1>4, HeldFrames
<1>6. PICK idle : idle = Idle
  OBVIOUS
<1>7. /\ DOMAIN idle = {"active", "startedAt", "lastSpeech", "frames", "prefix"}
      /\ idle.active = FALSE /\ idle.frames = <<>> /\ idle.prefix = <<>>
  BY <1>6 DEF Idle
<1>8. ASSUME NEW o, DOMAIN o = {"active", "startedAt", "lastSpeech", "frames", "prefix"},
             o.active = FALSE, o.frames = <<>>, o.prefix \in Seq(Nat), RunTo(o.prefix, c)
      PROVE  /\ DOMAIN Remember(o, f) = {"active", "startedAt", "lastSpeech", "frames", "prefix"}
             /\ Remember(o, f).active = FALSE /\ Remember(o, f).frames = <<>>
             /\ Remember(o, f).prefix \in Seq(Nat) /\ RunTo(Remember(o, f).prefix, f)
             /\ FramesOf(Remember(o, f).prefix) \subseteq FramesOf(o.prefix) \cup {f}
  <2>0. \E q \in Seq(Nat) : /\ Remember(o, c + 1) = [o EXCEPT !.prefix = q]
                            /\ RunTo(q, c + 1) /\ FramesOf(q) \subseteq FramesOf(o.prefix) \cup {c + 1}
    BY <1>3, <1>8, RememberKeeps
  <2>1. PICK q \in Seq(Nat) : /\ Remember(o, f) = [o EXCEPT !.prefix = q]
                              /\ RunTo(q, f) /\ FramesOf(q) \subseteq FramesOf(o.prefix) \cup {f}
    BY <1>3, <2>0
  <2> QED
    BY <1>8, <2>1
<1>9. CASE TooLong(f) /\ speech
  <2>1. PICK n : n = StartUtterance(Idle, f)
    OBVIOUS
  <2>2. PICK e : e = <<FinalEvent, Event("opened", <<>>), Event("audio", <<f>>)>>
    OBVIOUS
  <2>3. Append(<<>>, f) = <<f>>
    OBVIOUS
  <2>4. /\ DOMAIN n = {"active", "startedAt", "lastSpeech", "frames", "prefix"}
        /\ n.active = TRUE /\ n.frames = <<f>> /\ n.prefix = <<>>
    BY <1>6, <1>7, <2>1, <2>3 DEF StartUtterance
  <2>5. /\ Push(f, speech).next = n
        /\ Push(f, speech).events = e
    <3>1. <<FinalEvent>> \o <<Event("opened", <<>>), Event("audio", <<f>>)>> = e
      <4>1. \A x, y, z \in HeldEvent : <<x>> \o <<y, z>> = <<x, y, z>>
        <5> SUFFICES ASSUME NEW x \in HeldEvent, NEW y \in HeldEvent, NEW z \in HeldEvent
                     PROVE  <<x>> \o <<y, z>> = <<x, y, z>>
          OBVIOUS
        <5>1. PICK a : a = <<x>>
          OBVIOUS
        <5>2. PICK b : b = <<y, z>>
          OBVIOUS
        <5>3. PICK d : d = <<x, y, z>>
          OBVIOUS
        <5>4. a \in Seq(HeldEvent) /\ Len(a) = 1 /\ a[1] = x
          BY <5>1
        <5>5. b \in Seq(HeldEvent) /\ Len(b) = 2 /\ b[1] = y /\ b[2] = z
          BY <5>2
        <5>6. d \in Seq(HeldEvent) /\ Len(d) = 3 /\ d[1] = x /\ d[2] = y /\ d[3] = z
          BY <5>3
        <5>7. PICK j : j = a \o b
          OBVIOUS
        <5>8. j \in Seq(HeldEvent) /\ Len(j) = 3 /\ j[1] = x /\ j[2] = y /\ j[3] = z
          <6>1. j \in Seq(HeldEvent) /\ Len(j) = Len(a) + Len(b)
            BY <5>4, <5>5, <5>7, ConcatProperties
          <6>2. \A i \in 1 .. Len(a) + Len(b) : j[i] = IF i <= Len(a) THEN a[i] ELSE b[i - Len(a)]
            BY <5>4, <5>5, <5>7, ConcatProperties
          <6> QED
            BY <5>4, <5>5, <6>1, <6>2
        <5>9. j = d
          <6>1. \A i \in 1 .. Len(j) : j[i] = d[i]
            BY <5>6, <5>8
          <6> QED
            BY <5>6, <5>8, <6>1, SeqEqual
        <5> QED
          BY <5>1, <5>2, <5>3, <5>7, <5>9
      <4> QED
        BY <1>4, <2>2, <4>1
    <3> QED
      BY <1>6, <1>7, <1>9, <2>1, <3>1 DEF Push
  <2>6. e \in Seq(HeldEvent) /\ Len(e) = 3 /\ e # <<>> /\ Head(e).type = "final"
    <3>1. \A x, y, z \in HeldEvent : /\ <<x, y, z>> \in Seq(HeldEvent) /\ Len(<<x, y, z>>) = 3
                                     /\ <<x, y, z>> # <<>> /\ Head(<<x, y, z>>) = x
      OBVIOUS
    <3>2. e \in Seq(HeldEvent) /\ Len(e) = 3 /\ e # <<>> /\ Head(e) = FinalEvent
      BY <1>4, <2>2, <3>1
    <3> QED
      BY <3>2 DEF FinalEvent, Event
  <2>7. \A i \in 1 .. Len(e) : e[i].type = "opened" => e[i].frames = <<>>
    <3>1. e[1].type = "final" /\ e[2].frames = <<>> /\ e[3].type = "audio"
      BY <2>2 DEF FinalEvent, Event
    <3> QED
      BY <2>6, <3>1
  <2>8. SegmenterOK(f, n, e, activeTurn, FALSE, "reading")
    BY <1>4, <2>2, <2>4 DEF SegmenterOK
  <2> QED
    BY <1>4, <1>5, <1>9, <2>2, <2>4, <2>5, <2>6, <2>7, <2>8 DEF PushedOK
<1>10. CASE TooLong(f) /\ ~speech
  <2>1. PICK n : n = Remember(Idle, f)
    OBVIOUS
  <2>2. PICK e : e = <<FinalEvent>>
    OBVIOUS
  <2>3. /\ DOMAIN n = {"active", "startedAt", "lastSpeech", "frames", "prefix"}
        /\ n.active = FALSE /\ n.frames = <<>> /\ n.prefix \in Seq(Nat) /\ RunTo(n.prefix, f)
        /\ FramesOf(n.prefix) \subseteq {f}
    <3>1. PICK r : r = Remember(idle, f)
      OBVIOUS
    <3>2. /\ DOMAIN r = {"active", "startedAt", "lastSpeech", "frames", "prefix"}
          /\ r.active = FALSE /\ r.frames = <<>> /\ r.prefix \in Seq(Nat) /\ RunTo(r.prefix, f)
          /\ FramesOf(r.prefix) \subseteq FramesOf(idle.prefix) \cup {f}
      BY <1>4, <1>7, <1>8, <3>1
    <3> QED
      BY <1>5, <1>6, <1>7, <2>1, <3>1, <3>2
  <2>4. Push(f, speech).next = n /\ Push(f, speech).events = e
    BY <1>10, <2>1, <2>2 DEF Push
  <2>5. e \in Seq(HeldEvent) /\ Len(e) = 1 /\ e # <<>> /\ Head(e).type = "final" /\ e[1].type = "final"
    BY <1>4, <2>2 DEF FinalEvent, Event
  <2>6. SegmenterOK(f, n, e, activeTurn, FALSE, "reading")
    BY <2>2, <2>3 DEF SegmenterOK
  <2>7. FramesOf(n.frames) = {} /\ EventFrames(e) = {}
    BY <1>5, <2>2, <2>3
  <2>8. \A i \in 1 .. Len(e) : e[i].type # "opened"
    BY <2>5
  <2>9. PushedOK(f, speech, n, e)
    <3>1. n.frames \in Seq(Nat) /\ n.active \in BOOLEAN
      BY <1>4, <2>3
    <3>2. FramesOf(n.prefix) \cup EventFrames(e) \subseteq FramesOf(segmenter.prefix) \cup {f}
      BY <2>3, <2>7
    <3>3. FramesOf(n.frames) \subseteq FramesOf(segmenter.frames) \cup FramesOf(segmenter.prefix) \cup {f}
      BY <2>7
    <3> QED
      BY <1>10, <2>3, <2>5, <2>6, <2>8, <3>1, <3>2, <3>3 DEF PushedOK
  <2> QED
    BY <2>4, <2>9
<1>11. CASE ~TooLong(f) /\ speech /\ ~s.active
  <2>1. PICK n : n = StartUtterance(s, f)
    OBVIOUS
  <2>2. PICK e : e = <<Event("opened", s.prefix), Event("audio", <<f>>)>>
    OBVIOUS
  <2>3. Append(s.prefix, f) \in Seq(Nat) /\ FramesOf(Append(s.prefix, f)) = FramesOf(s.prefix) \cup {f}
    BY <1>3, FrameAppended
  <2>4. /\ DOMAIN n = {"active", "startedAt", "lastSpeech", "frames", "prefix"}
        /\ n.active = TRUE /\ n.frames \in Seq(Nat) /\ n.prefix = <<>>
        /\ FramesOf(n.frames) = FramesOf(s.prefix) \cup {f}
    BY <2>1, <2>3 DEF StartUtterance
  <2>5. Push(f, speech).next = n /\ Push(f, speech).events = e
    BY <1>2, <1>11, <2>1, <2>2 DEF Push
  <2>6. EventFrames(e) = FramesOf(s.prefix) \cup {f}
    BY <1>3, <2>2, HeldFrames
  <2>7. /\ e \in Seq(HeldEvent) /\ Len(e) = 2 /\ e # <<>> /\ Head(e).type = "opened"
        /\ e[1].frames = s.prefix /\ e[1].type = "opened" /\ e[2].type = "audio"
    <3>1. PICK o : o = Event("opened", s.prefix)
      OBVIOUS
    <3>2. PICK a : a = Event("audio", <<f>>)
      OBVIOUS
    <3>3. o \in HeldEvent /\ a \in HeldEvent /\ e = <<o, a>>
      BY <1>3, <1>4, <2>2, <3>1, <3>2
    <3>4. o.frames = s.prefix /\ o.type = "opened" /\ a.type = "audio"
      BY <3>1, <3>2 DEF Event
    <3>5. e \in Seq(HeldEvent) /\ Len(e) = 2 /\ e # <<>> /\ Head(e) = o /\ e[1] = o /\ e[2] = a
      BY <3>3
    <3> QED
      BY <3>4, <3>5
  <2>8. SegmenterOK(f, n, e, activeTurn, FALSE, "reading")
    BY <1>3, <1>4, <1>11, <2>2, <2>4, <2>7 DEF SegmenterOK
  <2>9. \A i \in 1 .. Len(e) : e[i].type = "opened" => FramesOf(e[i].frames) \subseteq FramesOf(s.prefix)
    BY <2>7
  <2> QED
    BY <1>2, <1>4, <1>5, <1>11, <2>4, <2>5, <2>6, <2>7, <2>8, <2>9 DEF PushedOK
<1>12. ASSUME s.active, NEW n, DOMAIN n = DOMAIN s, n.active = TRUE, n.prefix = s.prefix,
              n.frames = Append(s.frames, f),
              NEW e, e = <<Event("audio", <<f>>)>>
       PROVE  PushedOK(f, speech, n, e)
  <2>1. n.frames \in Seq(Nat) /\ FramesOf(n.frames) = FramesOf(s.frames) \cup {f}
    BY <1>3, <1>12, FrameAppended
  <2>2. n.prefix = <<>> /\ EventFrames(e) = {f}
    BY <1>3, <1>5, <1>12
  <2>3. e \in Seq(HeldEvent) /\ Len(e) = 1 /\ e # <<>> /\ e[1].type = "audio"
    <3>1. \A x \in HeldEvent : <<x>> \in Seq(HeldEvent) /\ Len(<<x>>) = 1 /\ <<x>> # <<>> /\ <<x>>[1] = x
      OBVIOUS
    <3>2. e \in Seq(HeldEvent) /\ Len(e) = 1 /\ e # <<>> /\ e[1] = Event("audio", <<f>>)
      BY <1>4, <1>12, <3>1
    <3> QED
      BY <3>2 DEF Event
  <2>4. SegmenterOK(f, n, e, activeTurn, FALSE, "reading")
    BY <1>4, <1>12, <2>1, <2>2 DEF SegmenterOK
  <2>5. FramesOf(n.prefix) = {} /\ FramesOf(s.frames) \subseteq FramesOf(n.frames)
    BY <1>5, <2>1, <2>2
  <2>6. \A i \in 1 .. Len(e) : e[i].type # "opened"
    BY <2>3
  <2> QED
    BY <1>2, <1>3, <1>12, <2>1, <2>2, <2>3, <2>4, <2>5, <2>6 DEF PushedOK
<1>13. CASE ~TooLong(f) /\ speech /\ s.active
  <2>1. PICK n : n = [s EXCEPT !.frames = Append(s.frames, f), !.lastSpeech = f]
    OBVIOUS
  <2>2. PICK e : e = <<Event("audio", <<f>>)>>
    OBVIOUS
  <2>3. Push(f, speech).next = n /\ Push(f, speech).events = e
    BY <1>2, <1>13, <2>1, <2>2 DEF Push
  <2>4. DOMAIN n = DOMAIN s /\ n.active = TRUE /\ n.prefix = s.prefix /\ n.frames = Append(s.frames, f)
    BY <1>3, <1>13, <2>1
  <2> QED
    BY <1>2, <1>3, <1>12, <1>13, <2>2, <2>3, <2>4 DEF PushedOK
<1>14. CASE ~TooLong(f) /\ ~speech /\ ~s.active
  <2>1. PICK n : n = Remember(s, f)
    OBVIOUS
  <2>2. /\ DOMAIN n = {"active", "startedAt", "lastSpeech", "frames", "prefix"}
        /\ n.active = FALSE /\ n.frames = <<>> /\ n.prefix \in Seq(Nat) /\ RunTo(n.prefix, f)
        /\ FramesOf(n.prefix) \subseteq FramesOf(s.prefix) \cup {f}
    BY <1>3, <1>8, <1>14, <2>1
  <2>3. PICK e : e = <<>>
    OBVIOUS
  <2>4. Push(f, speech).next = n /\ Push(f, speech).events = e
    BY <1>2, <1>14, <2>1, <2>3 DEF Push
  <2>5. SegmenterOK(f, n, e, activeTurn, FALSE, "reading")
    BY <2>2, <2>3 DEF SegmenterOK
  <2>6. /\ FramesOf(n.frames) = {} /\ EventFrames(e) = {} /\ activeTurn = 0
        /\ e \in Seq(HeldEvent) /\ Len(e) = 0 /\ ~(e # <<>>) /\ n.active \in BOOLEAN
    <3>1. FramesOf(n.frames) = {} /\ EventFrames(e) = {}
      BY <1>5, <2>2, <2>3
    <3>2. activeTurn = 0 /\ n.active \in BOOLEAN
      BY <1>3, <1>14, <2>2
    <3>3. e \in Seq(HeldEvent) /\ Len(e) = 0
      BY <2>3
    <3> QED
      BY <2>3, <3>1, <3>2, <3>3
  <2>7. \A i \in 1 .. Len(e) : e[i].type # "opened"
    BY <2>6
  <2>8. FramesOf(n.prefix) \cup EventFrames(e) \subseteq FramesOf(segmenter.prefix) \cup {f}
    BY <1>2, <2>2, <2>6
  <2>9. FramesOf(n.frames) \subseteq FramesOf(segmenter.frames) \cup FramesOf(segmenter.prefix) \cup {f}
    BY <2>6
  <2>10. n.frames \in Seq(Nat)
    BY <1>4, <2>2
  <2>11. PushedOK(f, speech, n, e)
    BY <1>14, <2>2, <2>5, <2>6, <2>7, <2>8, <2>9, <2>10 DEF PushedOK
  <2> QED
    BY <2>4, <2>11
<1>15. CASE ~TooLong(f) /\ ~speech /\ s.active /\ f - s.lastSpeech >= SilenceAfter
  <2>1. Push(f, speech).next = idle /\ Push(f, speech).events = <<FinalEvent>>
    BY <1>2, <1>6, <1>15 DEF Push
  <2>2. PICK e : e = <<FinalEvent>>
    OBVIOUS
  <2>3. e \in Seq(HeldEvent) /\ Len(e) = 1 /\ e # <<>> /\ Head(e).type = "final" /\ e[1].type = "final"
    BY <1>4, <2>2 DEF FinalEvent, Event
  <2>4. SegmenterOK(f, idle, e, activeTurn, FALSE, "reading")
    BY <1>4, <1>7, <2>2 DEF SegmenterOK
  <2>5. FramesOf(idle.frames) = {} /\ FramesOf(idle.prefix) = {} /\ EventFrames(e) = {}
    BY <1>5, <1>7, <2>2
  <2>6. \A i \in 1 .. Len(e) : e[i].type # "opened"
    BY <2>3
  <2>7. PushedOK(f, speech, idle, e)
    BY <1>4, <1>7, <1>15, <2>3, <2>4, <2>5, <2>6 DEF PushedOK
  <2> QED
    BY <2>1, <2>2, <2>7
<1>16. CASE ~TooLong(f) /\ ~speech /\ s.active /\ ~(f - s.lastSpeech >= SilenceAfter)
  <2>1. PICK n : n = [s EXCEPT !.frames = Append(s.frames, f)]
    OBVIOUS
  <2>2. PICK e : e = <<Event("audio", <<f>>)>>
    OBVIOUS
  <2>3. Push(f, speech).next = n /\ Push(f, speech).events = e
    BY <1>2, <1>16, <2>1, <2>2 DEF Push
  <2>4. DOMAIN n = DOMAIN s /\ n.active = TRUE /\ n.prefix = s.prefix /\ n.frames = Append(s.frames, f)
    BY <1>3, <1>16, <2>1
  <2> QED
    BY <1>2, <1>3, <1>12, <1>16, <2>2, <2>3, <2>4 DEF PushedOK
<1> QED
  BY <1>9, <1>10, <1>11, <1>13, <1>14, <1>15, <1>16

\* A frame is read: it goes to the gate or to the segmenter.
LEMMA FrameRead ==
  ASSUME SegmentInv, NEW speech \in BOOLEAN, ReadFrame(speech)
  PROVE  SegmentInv'
<1>1. PICK f : f = captured + 1
  OBVIOUS
<1>2. /\ loop = "reading" /\ events = <<>> /\ captured' = f
      /\ spoken' = IF speech THEN spoken \cup {f} ELSE spoken
      /\ UNCHANGED <<turns, activeTurn, finals, loop, worker, window, lost, aborted, wakes>>
  BY <1>1 DEF ReadFrame
<1>3. /\ captured \in Nat /\ spoken \in SUBSET Nat /\ commanded \in SUBSET Nat /\ turns \in Seq(HeldTurn)
      /\ f \in Nat /\ f = captured + 1 /\ ~(f <= captured) /\ \A x \in Nat : x <= captured => x <= f
  BY <1>1 DEF SegmentInv, SegmentTypes
<1>4. /\ CapturedOnly(captured, spoken, commanded, segmenter, events, turns)
      /\ QuietBefore(spoken, segmenter, events)
      /\ SegmenterOK(captured, segmenter, events, activeTurn, window, loop)
      /\ InFlight(captured, segmenter, events, turns, activeTurn)
      /\ Apart(commanded, segmenter, events, turns, activeTurn)
      /\ \A x \in spoken : Placed(x, commanded, lost, events, turns, aborted)
      /\ NoGaps(turns) /\ Staged(turns, activeTurn, finals, worker, aborted)
      /\ EndsInOrder(loop, worker, finals, activeTurn, aborted)
  BY DEF SegmentInv
<1>5. /\ \A t \in 1 .. Len(turns) : turns[t].audio \in Seq(Nat) /\ FramesOf(turns[t].audio) \subseteq Nat
      /\ segmenter.frames \in Seq(Nat) /\ segmenter.prefix \in Seq(Nat)
      /\ FramesOf(segmenter.frames) \subseteq Nat /\ FramesOf(segmenter.prefix) \subseteq Nat
  <2>1. \A s \in Seq(Nat) : FramesOf(s) \subseteq Nat
    BY DEF FramesOf
  <2>2. segmenter.frames \in Seq(Nat) /\ segmenter.prefix \in Seq(Nat)
    BY DEF SegmentInv, SegmentTypes
  <2>3. \A t \in 1 .. Len(turns) : turns[t] \in HeldTurn
    BY <1>3
  <2>4. \A t \in 1 .. Len(turns) : turns[t].audio \in Seq(Nat)
    BY <2>3 DEF HeldTurn
  <2> QED
    BY <2>1, <2>2, <2>4
<1>6. /\ f \notin spoken /\ f \notin commanded /\ f \notin FramesOf(segmenter.prefix)
      /\ \A t \in 1 .. Len(turns) : f \notin FramesOf(turns[t].audio)
  BY <1>3, <1>4 DEF CapturedOnly
<1>7. EventFrames(<<>>) = {} /\ EventFrames(events) = {} /\ FramesOf(<<>>) = {}
  <2>1. EventFrames(<<>>) = {} /\ FramesOf(<<>>) = {}
    <3>1. <<>> \in Seq(Nat)
      OBVIOUS
    <3> QED
      BY <1>3, <3>1, HeldFrames
  <2> QED
    BY <1>2, <2>1
<1>8. /\ Staged(turns', activeTurn', finals', worker', aborted') /\ NoGaps(turns')
      /\ EndsInOrder(loop', worker', finals', activeTurn', aborted')
  BY <1>2, <1>4
<1>9. \A x \in spoken' : x <= f
  BY <1>2, <1>3, <1>4 DEF CapturedOnly
<1>10. \A t \in 1 .. Len(turns) : \A x \in FramesOf(turns[t].audio) : x <= f
  BY <1>3, <1>4, <1>5 DEF CapturedOnly
<1>11. CASE window
  <2>1. commanded' = commanded \cup {f} /\ segmenter' = segmenter /\ events' = events
    BY <1>1, <1>11 DEF ReadFrame
  <2>2. segmenter.prefix = <<>> /\ ~segmenter.active /\ segmenter.frames = <<>> /\ activeTurn = 0
    BY <1>4, <1>11 DEF SegmenterOK
  <2>3. SegmentTypes'
    BY <1>2, <1>3, <2>1 DEF SegmentInv, SegmentTypes
  <2>4. CapturedOnly(f, spoken', commanded', segmenter, events, turns)
    <3>1. \A x \in commanded' : x <= f
      BY <1>3, <1>4, <2>1 DEF CapturedOnly
    <3>2. FramesOf(segmenter.frames) \cup FramesOf(segmenter.prefix) \cup EventFrames(events) = {}
      BY <1>7, <2>2
    <3> QED
      BY <1>9, <1>10, <3>1, <3>2 DEF CapturedOnly
  <2>5. QuietBefore(spoken', segmenter, events)
    BY <1>2, <1>7, <2>2 DEF QuietBefore
  <2>6. SegmenterOK(f, segmenter, events, activeTurn, window, loop)
    <3>1. RunTo(<<>>, f)
      BY DEF RunTo
    <3> QED
      BY <1>2, <1>4, <2>2, <3>1 DEF SegmenterOK
  <2>7. InFlight(f, segmenter, events, turns, activeTurn)
    BY <2>2 DEF InFlight
  <2>8. Apart(commanded', segmenter, events, turns, activeTurn)
    <3>1. \A t \in 1 .. Len(turns) : turns[t].at \in Heeding => FramesOf(turns[t].audio) \cap commanded' = {}
      BY <1>4, <1>6, <2>1 DEF Apart
    <3> QED
      BY <1>4, <1>7, <2>2, <3>1 DEF Apart
  <2>9. \A x \in spoken' : Placed(x, commanded', lost, events, turns, aborted)
    <3> SUFFICES ASSUME NEW x \in spoken'
                 PROVE  Placed(x, commanded', lost, events, turns, aborted)
      OBVIOUS
    <3>1. x \in spoken \/ x \in commanded'
      BY <1>2, <2>1
    <3>2. CASE x \in spoken
      <4>1. Placed(x, commanded, lost, events, turns, aborted)
        BY <1>4, <3>2
      <4> QED
        BY <2>1, <4>1 DEF Placed
    <3> QED
      BY <3>1, <3>2 DEF Placed
  <2> QED
    BY <1>2, <1>8, <2>1, <2>3, <2>4, <2>5, <2>6, <2>7, <2>8, <2>9 DEF SegmentInv
<1>12. CASE ~window
  <2>0. PICK n : n = Push(f, speech).next
    OBVIOUS
  <2>00. PICK e : e = Push(f, speech).events
    OBVIOUS
  <2>1. PushedOK(f, speech, n, e)
    BY <1>1, <1>2, <2>0, <2>00, PushOutcome
  <2>2. segmenter' = n /\ events' = e /\ commanded' = commanded
    BY <1>1, <1>12, <2>0, <2>00 DEF ReadFrame
  <2>3. SegmentTypes'
    <3>1. spoken' \in SUBSET Nat
      BY <1>2, <1>3
    <3> QED
      BY <1>2, <1>3, <2>1, <2>2, <3>1 DEF SegmentInv, SegmentTypes, PushedOK
  <2>4. CapturedOnly(f, spoken', commanded, n, e, turns)
    <3>1. \A x \in commanded : x <= f
      BY <1>3, <1>4 DEF CapturedOnly
    <3>2. \A x \in FramesOf(segmenter.frames) \cup FramesOf(segmenter.prefix) \cup {f} : x <= f
      BY <1>3, <1>4, <1>5 DEF CapturedOnly
    <3>3. \A x \in FramesOf(n.frames) \cup FramesOf(n.prefix) \cup EventFrames(e) : x <= f
      BY <2>1, <3>2 DEF PushedOK
    <3> QED
      BY <1>9, <1>10, <3>1, <3>3 DEF CapturedOnly
  <2>5. QuietBefore(spoken', n, e)
    <3>1. \A x \in FramesOf(segmenter.prefix) : x \notin spoken'
      BY <1>2, <1>4, <1>6 DEF QuietBefore
    <3>2. \A x \in FramesOf(n.prefix) : x \notin spoken'
      <4>1. CASE speech
        BY <1>7, <2>1, <4>1 DEF PushedOK
      <4>2. CASE ~speech
        BY <1>2, <1>6, <2>1, <3>1, <4>2 DEF PushedOK
      <4> QED
        BY <4>1, <4>2
    <3>3. \A i \in 1 .. Len(e) : e[i].type = "opened" => FramesOf(e[i].frames) \cap spoken' = {}
      BY <2>1, <3>1 DEF PushedOK
    <3> QED
      BY <3>2, <3>3 DEF QuietBefore
  <2>6. SegmenterOK(f, n, e, activeTurn, window, loop)
    BY <1>2, <1>12, <2>1 DEF PushedOK, SegmenterOK
  <2>7. InFlight(f, n, e, turns, activeTurn)
    <3> SUFFICES ASSUME activeTurn # 0
                 PROVE  InFlight(f, n, e, turns, activeTurn)
      BY DEF InFlight
    <3>1. /\ turns[activeTurn].at = "open" /\ RunTo(turns[activeTurn].audio, captured)
          /\ FramesOf(turns[activeTurn].audio) \subseteq FramesOf(segmenter.frames)
      BY <1>2, <1>4 DEF InFlight
    <3>2. e # <<>> /\ f - 1 = captured
      BY <1>3, <2>1 DEF PushedOK
    <3>3. Head(e).type = "audio" => FramesOf(turns[activeTurn].audio) \subseteq FramesOf(n.frames)
      BY <2>1, <3>1, <3>2 DEF PushedOK
    <3> QED
      BY <3>1, <3>2, <3>3 DEF InFlight
  <2>8. Apart(commanded, n, e, turns, activeTurn)
    <3>1. /\ FramesOf(n.prefix) \cup EventFrames(e) \subseteq FramesOf(segmenter.prefix) \cup {f}
          /\ FramesOf(n.frames) \subseteq FramesOf(segmenter.frames) \cup FramesOf(segmenter.prefix) \cup {f}
      BY <2>1 DEF PushedOK
    <3>2. ASSUME NEW x \in FramesOf(n.prefix) \cup EventFrames(e)
          PROVE  /\ x \notin commanded
                 /\ \A t \in 1 .. Len(turns) : turns[t].at \in Heeding => x \notin FramesOf(turns[t].audio)
      BY <1>4, <1>6, <3>1 DEF Apart
    <3>3. ASSUME NEW t \in 1 .. Len(turns), turns[t].at \in Heeding
          PROVE  /\ FramesOf(turns[t].audio) \cap commanded = {}
                 /\ t # activeTurn => FramesOf(turns[t].audio) \cap FramesOf(n.frames) = {}
                 /\ \A u \in 1 .. Len(turns) : u # t /\ turns[u].at \in Heeding =>
                      FramesOf(turns[t].audio) \cap FramesOf(turns[u].audio) = {}
      BY <1>4, <1>6, <3>1, <3>3 DEF Apart
    <3> QED
      BY <3>2, <3>3 DEF Apart
  <2>9. \A x \in spoken' : Placed(x, commanded, lost, e, turns, aborted)
    <3> SUFFICES ASSUME NEW x \in spoken'
                 PROVE  Placed(x, commanded, lost, e, turns, aborted)
      OBVIOUS
    <3>1. x \in spoken \/ (speech /\ x = f)
      BY <1>2
    <3>2. CASE x \in spoken
      <4>1. Placed(x, commanded, lost, events, turns, aborted)
        BY <1>4, <3>2
      <4> QED
        BY <1>7, <4>1 DEF Placed
    <3>3. CASE speech /\ x = f
      BY <2>1, <3>3 DEF PushedOK, Placed
    <3> QED
      BY <3>1, <3>2, <3>3
  <2> QED
    BY <1>2, <1>8, <2>2, <2>3, <2>4, <2>5, <2>6, <2>7, <2>8, <2>9 DEF SegmentInv
<1> QED
  BY <1>11, <1>12

\* What the invariant says, by name.
LEMMA Known ==
  ASSUME SegmentInv
  PROVE  /\ SegmentTypes
         /\ CapturedOnly(captured, spoken, commanded, segmenter, events, turns)
         /\ QuietBefore(spoken, segmenter, events)
         /\ SegmenterOK(captured, segmenter, events, activeTurn, window, loop)
         /\ InFlight(captured, segmenter, events, turns, activeTurn)
         /\ Apart(commanded, segmenter, events, turns, activeTurn)
         /\ \A x \in spoken : Placed(x, commanded, lost, events, turns, aborted)
         /\ NoGaps(turns)
         /\ Staged(turns, activeTurn, finals, worker, aborted)
         /\ EndsInOrder(loop, worker, finals, activeTurn, aborted)
BY DEF SegmentInv

\* The sets of frames at hand, and the segmenter at rest.
LEMMA FramesKnown ==
  ASSUME SegmentInv
  PROVE  /\ captured \in Nat /\ Len(turns) \in Nat /\ Len(finals) \in Nat
         /\ FramesOf(segmenter.frames) \subseteq Nat /\ FramesOf(segmenter.prefix) \subseteq Nat
         /\ EventFrames(<<>>) = {} /\ FramesOf(<<>>) = {} /\ <<>> \in Seq(Nat) /\ <<>> \in Seq(HeldEvent)
         /\ EventFrames(<<Event("audio", <<captured>>)>>) = {captured} /\ FramesOf(<<captured>>) = {captured}
         /\ \A t \in 1 .. Len(turns) : turns[t].audio \in Seq(Nat) /\ FramesOf(turns[t].audio) \subseteq Nat
         /\ DOMAIN Idle = {"active", "startedAt", "lastSpeech", "frames", "prefix"}
         /\ Idle.active = FALSE /\ Idle.frames = <<>> /\ Idle.prefix = <<>>
<1>1. \A s \in Seq(Nat) : FramesOf(s) \subseteq Nat
  BY DEF FramesOf
<1>2. SegmentTypes
  BY Known
<1>3. \A t \in 1 .. Len(turns) : turns[t] \in HeldTurn
  BY <1>2 DEF SegmentTypes
<1>4. \A t \in 1 .. Len(turns) : turns[t].audio \in Seq(Nat)
  BY <1>3 DEF HeldTurn
<1>5. captured \in Nat /\ segmenter.frames \in Seq(Nat) /\ segmenter.prefix \in Seq(Nat)
      /\ turns \in Seq(HeldTurn) /\ finals \in Seq(1 .. Len(turns))
  BY <1>2 DEF SegmentTypes
<1>6. Len(turns) \in Nat /\ Len(finals) \in Nat
  BY <1>5, LenProperties
<1>7. <<>> \in Seq(Nat) /\ <<>> \in Seq(HeldEvent)
  OBVIOUS
<1>8. EventFrames(<<>>) = {} /\ FramesOf(<<>>) = {} /\ EventFrames(<<Event("audio", <<captured>>)>>) = {captured}
      /\ FramesOf(<<captured>>) = {captured}
  BY <1>5, <1>7, HeldFrames
<1>9. DOMAIN Idle = {"active", "startedAt", "lastSpeech", "frames", "prefix"}
      /\ Idle.active = FALSE /\ Idle.frames = <<>> /\ Idle.prefix = <<>>
  BY DEF Idle
<1> QED
  BY <1>1, <1>4, <1>5, <1>6, <1>7, <1>8, <1>9

\* A wake word moves the utterance in flight to the gate.
LEMMA CommandOpened ==
  ASSUME SegmentInv, OpenCommandWindow
  PROVE  SegmentInv'
<1>1. /\ loop = "reading" /\ events = <<>> /\ window' = TRUE /\ segmenter' = Idle
      /\ commanded' = commanded \cup Claimed /\ LeaveTurn(activeTurn)
      /\ captured' = captured /\ spoken' = spoken /\ events' = events /\ finals' = finals /\ loop' = loop
      /\ worker' = worker /\ lost' = lost /\ aborted' = aborted
  BY DEF OpenCommandWindow
<1>2. Claimed = FramesOf(segmenter.frames)
  <2>1. segmenter.frames \in Seq(Nat)
    BY Known DEF SegmentTypes
  <2> QED
    BY <2>1 DEF Claimed, ToSet, FramesOf
<1>3. /\ turns' \in Seq(HeldTurn) /\ Len(turns') = Len(turns) /\ activeTurn' = 0
      /\ Staged(turns', 0, finals, worker, aborted)
      /\ \A t \in 1 .. Len(turns) : turns'[t].audio = turns[t].audio
      /\ \A t \in 1 .. Len(turns) : t # activeTurn => turns'[t].at = turns[t].at
      /\ \A t \in 1 .. Len(turns) : t = activeTurn => turns'[t].at = "closed"
  BY <1>1, TurnLeft
<1>4. SegmentTypes'
  <2>1. commanded' \in SUBSET Nat
    BY <1>1, <1>2, Known, FramesKnown DEF SegmentTypes
  <2>2. segmenter'.active \in BOOLEAN /\ segmenter'.frames \in Seq(Nat) /\ segmenter'.prefix \in Seq(Nat)
        /\ DOMAIN segmenter' = {"active", "startedAt", "lastSpeech", "frames", "prefix"}
    BY <1>1, FramesKnown
  <2>3. activeTurn' \in 0 .. Len(turns') /\ finals' \in Seq(1 .. Len(turns')) /\ worker' \in Gone .. Len(turns')
    BY <1>1, <1>3, Known, FramesKnown DEF SegmentTypes
  <2> QED
    BY <1>1, <1>3, <2>1, <2>2, <2>3, Known DEF SegmentTypes
<1>5. CapturedOnly(captured, spoken, commanded', Idle, <<>>, turns')
  <2>1. CapturedOnly(captured, spoken, commanded, segmenter, events, turns')
    BY <1>3, Known, SameAudio
  <2> QED
    BY <1>1, <1>2, <2>1, FramesKnown DEF CapturedOnly
<1>6. QuietBefore(spoken, Idle, <<>>)
  BY FramesKnown DEF QuietBefore
<1>7. SegmenterOK(captured, Idle, <<>>, 0, TRUE, "reading")
  <2>1. RunTo(<<>>, captured)
    BY DEF RunTo
  <2> QED
    BY <2>1, FramesKnown DEF SegmenterOK
<1>8. InFlight(captured, Idle, <<>>, turns', 0)
  BY DEF InFlight
<1>9. Apart(commanded', Idle, <<>>, turns', 0)
  <2>1. ASSUME NEW t \in 1 .. Len(turns'), turns'[t].at \in Heeding
        PROVE  /\ FramesOf(turns'[t].audio) \cap commanded' = {}
               /\ \A u \in 1 .. Len(turns') : u # t /\ turns'[u].at \in Heeding =>
                    FramesOf(turns'[t].audio) \cap FramesOf(turns'[u].audio) = {}
    <3>1. \A u \in 1 .. Len(turns') : turns'[u].at \in Heeding => u # activeTurn /\ turns[u].at \in Heeding
      BY <1>3 DEF Heeding
    <3>2. FramesOf(turns[t].audio) \cap commanded = {} /\ FramesOf(turns[t].audio) \cap FramesOf(segmenter.frames) = {}
      BY <1>3, <2>1, <3>1, Known DEF Apart
    <3>3. FramesOf(turns'[t].audio) = FramesOf(turns[t].audio)
      BY <1>3
    <3>4. ASSUME NEW u \in 1 .. Len(turns'), u # t, turns'[u].at \in Heeding
          PROVE  FramesOf(turns'[t].audio) \cap FramesOf(turns'[u].audio) = {}
      <4>1. FramesOf(turns[t].audio) \cap FramesOf(turns[u].audio) = {}
        BY <1>3, <2>1, <3>1, <3>4, Known DEF Apart
      <4>2. FramesOf(turns'[u].audio) = FramesOf(turns[u].audio)
        BY <1>3
      <4> QED
        BY <3>3, <4>1, <4>2
    <3> QED
      BY <1>1, <1>2, <3>2, <3>3, <3>4
  <2>2. FramesOf(Idle.prefix) \cup EventFrames(<<>>) = {} /\ FramesOf(Idle.frames) = {}
    BY FramesKnown
  <2> QED
    BY <2>1, <2>2 DEF Apart
<1>10. \A x \in spoken : Placed(x, commanded', lost, <<>>, turns', aborted)
  <2> SUFFICES ASSUME NEW x \in spoken
               PROVE  Placed(x, commanded', lost, <<>>, turns', aborted)
    OBVIOUS
  <2>1. Placed(x, commanded, lost, <<>>, turns, aborted)
    BY <1>1, Known
  <2>2. CASE \E t \in 1 .. Len(turns) : turns[t].at \in Heeding \cup {"dropped"} /\ x \in FramesOf(turns[t].audio)
    <3>1. PICK t \in 1 .. Len(turns) : turns[t].at \in Heeding \cup {"dropped"} /\ x \in FramesOf(turns[t].audio)
      BY <2>2
    <3>2. CASE t = activeTurn
      <4>1. activeTurn # 0
        BY <3>2
      <4>2. FramesOf(turns[t].audio) \subseteq FramesOf(segmenter.frames)
        BY <1>1, <3>2, <4>1, Known DEF InFlight
      <4> QED
        BY <1>1, <1>2, <3>1, <4>2 DEF Placed
    <3>3. CASE t # activeTurn
      <4>1. turns'[t].at = turns[t].at /\ turns'[t].audio = turns[t].audio /\ t \in 1 .. Len(turns')
        BY <1>3, <3>3
      <4> QED
        BY <3>1, <4>1 DEF Placed
    <3> QED
      BY <3>2, <3>3
  <2> QED
    BY <1>1, <2>1, <2>2, FramesKnown DEF Placed
<1>11. NoGaps(turns')
  BY <1>3, Known, SameAudio
<1>12. EndsInOrder("reading", worker, finals, 0, aborted)
  BY <1>1, Known DEF EndsInOrder
<1>13. events' = <<>> /\ loop' = "reading"
  BY <1>1
<1> QED
  BY <1>1, <1>3, <1>4, <1>5, <1>6, <1>7, <1>8, <1>9, <1>10, <1>11, <1>12, <1>13 DEF SegmentInv

\* The gate gives the audio back.
LEMMA WindowClosed ==
  ASSUME SegmentInv, CloseWindow
  PROVE  SegmentInv'
<1>1. window' = FALSE /\ UNCHANGED <<captured, spoken, segmenter, events, turns, activeTurn, finals, loop, worker,
                                     commanded, lost, aborted, wakes>>
  BY DEF CloseWindow
<1>2. SegmentTypes'
  BY <1>1, Known DEF SegmentTypes
<1>3. SegmenterOK(captured, segmenter, events, activeTurn, FALSE, loop)
  BY Known DEF SegmenterOK
<1> QED
  BY <1>1, <1>2, <1>3, Known DEF SegmentInv

\* The source ends.
LEMMA StreamEnded ==
  ASSUME SegmentInv, EndOfStream
  PROVE  SegmentInv'
<1>0. PICK e : e = Flushed
  OBVIOUS
<1>1. /\ loop = "reading" /\ events = <<>> /\ loop' = "flushed" /\ events' = e /\ segmenter' = Idle
      /\ UNCHANGED <<captured, spoken, turns, activeTurn, finals, worker, window, commanded, lost, aborted, wakes>>
  BY <1>0 DEF EndOfStream
<1>2. e = IF segmenter.active THEN <<FinalEvent>> ELSE <<>>
  BY <1>0 DEF Flushed
<1>3. EventFrames(e) = {} /\ e \in Seq(HeldEvent) /\ \A i \in 1 .. Len(e) : e[i].type # "opened"
  <2>1. CASE segmenter.active
    <3>1. e = <<FinalEvent>>
      BY <1>2, <2>1
    <3>2. FinalEvent \in HeldEvent /\ FinalEvent.type = "final"
      BY DEF FinalEvent, Event, HeldEvent
    <3>3. e \in Seq(HeldEvent) /\ Len(e) = 1 /\ e[1].type = "final"
      BY <3>1, <3>2
    <3>4. EventFrames(e) = {}
      BY <3>1, FramesKnown, HeldFrames
    <3> QED
      BY <3>3, <3>4
  <2>2. CASE ~segmenter.active
    <3>1. e = <<>>
      BY <1>2, <2>2
    <3>2. Len(e) = 0 /\ e \in Seq(HeldEvent)
      BY <3>1
    <3>3. EventFrames(e) = {}
      BY <3>1, FramesKnown
    <3> QED
      BY <3>2, <3>3
  <2> QED
    BY <2>1, <2>2
<1>4. SegmentTypes'
  <2>1. segmenter'.active \in BOOLEAN /\ segmenter'.frames \in Seq(Nat) /\ segmenter'.prefix \in Seq(Nat)
        /\ DOMAIN segmenter' = {"active", "startedAt", "lastSpeech", "frames", "prefix"}
    BY <1>1, FramesKnown
  <2> QED
    BY <1>1, <1>3, <2>1, Known DEF SegmentTypes
<1>5. CapturedOnly(captured, spoken, commanded, Idle, e, turns)
  BY <1>3, Known, FramesKnown DEF CapturedOnly
<1>6. QuietBefore(spoken, Idle, e)
  BY <1>3, FramesKnown DEF QuietBefore
<1>7. SegmenterOK(captured, Idle, e, activeTurn, window, "flushed")
  <2>1. RunTo(<<>>, captured)
    BY DEF RunTo
  <2>2. window => e = <<>> /\ activeTurn = 0
    BY <1>2, Known DEF SegmenterOK
  <2>3. e = <<>> \/ e = <<FinalEvent>>
    BY <1>2
  <2> QED
    BY <2>1, <2>2, <2>3, FramesKnown DEF SegmenterOK
<1>8. InFlight(captured, Idle, e, turns, activeTurn)
  <2> SUFFICES ASSUME activeTurn # 0
               PROVE  InFlight(captured, Idle, e, turns, activeTurn)
    BY DEF InFlight
  <2>1. turns[activeTurn].at = "open" /\ segmenter.active
    BY <1>1, Known DEF InFlight
  <2>2. PICK x : x = FinalEvent
    OBVIOUS
  <2>3. e = <<x>> /\ x.type = "final"
    BY <1>2, <2>1, <2>2 DEF FinalEvent, Event
  <2>4. Head(e).type = "final" /\ e # <<>>
    BY <2>3
  <2>5. e # <<Event("audio", <<captured>>)>>
    <3>1. PICK y : y = Event("audio", <<captured>>)
      OBVIOUS
    <3>2. y.type = "audio"
      BY <3>1 DEF Event
    <3>3. e # <<y>>
      BY <2>3, <3>2
    <3> QED
      BY <3>1, <3>3
  <2> QED
    BY <2>1, <2>4, <2>5 DEF InFlight
<1>9. Apart(commanded, Idle, e, turns, activeTurn)
  BY <1>3, Known, FramesKnown DEF Apart
<1>10. \A x \in spoken : Placed(x, commanded, lost, e, turns, aborted)
  <2> SUFFICES ASSUME NEW x \in spoken
               PROVE  Placed(x, commanded, lost, e, turns, aborted)
    OBVIOUS
  <2>1. Placed(x, commanded, lost, <<>>, turns, aborted)
    BY <1>1, Known
  <2> QED
    BY <2>1, FramesKnown DEF Placed
<1>11. EndsInOrder("flushed", worker, finals, activeTurn, aborted)
  BY <1>1, Known DEF EndsInOrder
<1> QED
  BY <1>1, <1>4, <1>5, <1>6, <1>7, <1>8, <1>9, <1>10, <1>11, Known DEF SegmentInv

\* us is ts with one more turn.
Added(ts, us, p, at) ==
    /\ us \in Seq(HeldTurn) /\ Len(us) = Len(ts) + 1 /\ Len(ts) \in Nat
    /\ \A t \in 1 .. Len(ts) : us[t] = ts[t]
    /\ us[Len(ts) + 1].audio = p /\ us[Len(ts) + 1].at = at

\* A turn is added behind the others.
LEMMA TurnAdded ==
  ASSUME NEW ts \in Seq(HeldTurn), NEW p \in Seq(Nat), NEW at \in {"open", "dropped"}
  PROVE  Added(ts, Append(ts, [audio |-> p, at |-> at]), p, at)
<1>0. PICK us : us = Append(ts, [audio |-> p, at |-> at])
  OBVIOUS
<1>1. PICK r : r = [audio |-> p, at |-> at]
  OBVIOUS
<1>2. r \in HeldTurn /\ r.audio = p /\ r.at = at
  BY <1>1 DEF HeldTurn
<1>3. us = Append(ts, r)
  BY <1>0, <1>1
<1>4. Append(ts, r) \in Seq(HeldTurn) /\ Len(Append(ts, r)) = Len(ts) + 1
      /\ \A i \in 1 .. Len(ts) : Append(ts, r)[i] = ts[i]
      /\ Append(ts, r)[Len(ts) + 1] = r
  BY <1>2, AppendProperties
<1>5. Len(ts) \in Nat
  BY LenProperties
<1> QED
  BY <1>0, <1>2, <1>3, <1>4, <1>5 DEF Added

\* The event of the frame read last is left.
LEMMA AudioLeft ==
  ASSUME NEW c \in Nat, NEW e, e = <<Event("audio", <<c>>)>>
  PROVE  /\ e \in Seq(HeldEvent) /\ Len(e) = 1 /\ e # <<>> /\ Head(e).type = "audio"
         /\ EventFrames(e) = {c} /\ \A i \in 1 .. Len(e) : e[i].type # "opened"
<1>1. PICK x : x = Event("audio", <<c>>)
  OBVIOUS
<1>2. x \in HeldEvent /\ x.type = "audio"
  BY <1>1 DEF Event, HeldEvent
<1>3. e = <<x>>
  BY <1>1
<1>4. e \in Seq(HeldEvent) /\ Len(e) = 1 /\ e # <<>> /\ Head(e) = x /\ e[1] = x
  BY <1>2, <1>3
<1>5. EventFrames(e) = {c}
  <2>1. <<>> \in Seq(Nat)
    OBVIOUS
  <2> QED
    BY <2>1, HeldFrames
<1> QED
  BY <1>2, <1>4, <1>5

\* An utterance begins: a turn is started, or cannot be.
LEMMA OpenedHandled ==
  ASSUME SegmentInv, HandleOpened
  PROVE  SegmentInv'
<1>1. PICK p \in Seq(Nat) :
         /\ events = <<Event("opened", p), Event("audio", <<captured>>)>>
         /\ Head(events).frames = p /\ Tail(events) = <<Event("audio", <<captured>>)>>
         /\ RunTo(p, captured - 1) /\ FramesOf(p) \cup {captured} \subseteq FramesOf(segmenter.frames)
         /\ segmenter.active /\ activeTurn = 0
  BY EventToHandle DEF HandleOpened, Current
<1>2. PICK e : e = <<Event("audio", <<captured>>)>>
  OBVIOUS
<1>3. PICK outcome \in {"started", "refused", "unpushed", "failed"} :
         /\ turns' = IF outcome \in {"refused", "failed"} THEN turns
                     ELSE Append(turns, [audio |-> p, at |-> IF outcome = "started" THEN "open" ELSE "dropped"])
         /\ activeTurn' = IF outcome = "started" THEN Len(turns) + 1 ELSE 0
         /\ loop' = IF outcome = "failed" THEN "failed" ELSE loop
         /\ aborted' = (aborted \/ outcome = "failed")
  BY <1>1 DEF HandleOpened
<1>4. /\ events' = e /\ loop \in {"reading", "flushed"}
      /\ UNCHANGED <<captured, spoken, segmenter, finals, worker, window, commanded, lost, wakes>>
  BY <1>1, <1>2 DEF HandleOpened, Current
<1>5. /\ captured \in Nat /\ turns \in Seq(HeldTurn) /\ finals \in Seq(1 .. Len(turns))
      /\ worker \in Gone .. Len(turns) /\ Len(turns) \in Nat /\ aborted \in BOOLEAN
  BY Known, FramesKnown DEF SegmentTypes
<1>6. /\ e \in Seq(HeldEvent) /\ Len(e) = 1 /\ e # <<>> /\ Head(e).type = "audio"
      /\ EventFrames(e) = {captured} /\ \A i \in 1 .. Len(e) : e[i].type # "opened"
  BY <1>2, <1>5, AudioLeft
<1>7. EventFrames(events) = FramesOf(p) \cup {captured}
  BY <1>1, <1>5, HeldFrames
<1>8. segmenter.prefix = <<>> /\ ~window /\ FramesOf(segmenter.prefix) = {}
  BY <1>1, Known, FramesKnown DEF SegmenterOK
<1>9. FramesOf(p) \cap spoken = {}
  <2>1. PICK o : o = Event("opened", p)
    OBVIOUS
  <2>2. PICK a : a = Event("audio", <<captured>>)
    OBVIOUS
  <2>3. events = <<o, a>>
    BY <1>1, <2>1, <2>2
  <2>4. 1 \in 1 .. Len(events) /\ events[1] = o
    BY <2>3
  <2>5. o.type = "opened" /\ o.frames = p
    BY <2>1 DEF Event
  <2>6. QuietBefore(spoken, segmenter, events)
    BY Known
  <2> QED
    BY <2>4, <2>5, <2>6 DEF QuietBefore
<1>10. QuietBefore(spoken, segmenter, e)
  BY <1>6, <1>8 DEF QuietBefore
<1>11. \A active, lp : lp # "flushed" \/ lp = loop => SegmenterOK(captured, segmenter, e, active, window, lp)
  <2>1. SegmenterOK(captured, segmenter, events, activeTurn, window, loop)
    BY Known
  <2>2. RunTo(segmenter.prefix, captured) /\ (loop = "flushed" => ~segmenter.active)
    BY <2>1 DEF SegmenterOK
  <2> QED
    BY <1>1, <1>2, <1>8, <2>2 DEF SegmenterOK
<1>12. \A x \in FramesOf(p) : x < captured
  BY <1>1, <1>5, LenProperties DEF RunTo, FramesOf
<1>13. \A x \in FramesOf(p) : x <= captured
  <2>1. FramesOf(p) \subseteq Nat
    BY DEF FramesOf
  <2> QED
    BY <1>5, <1>12, <2>1
<1>14. /\ \A x \in spoken \cup commanded : x <= captured
       /\ \A x \in FramesOf(segmenter.frames) \cup FramesOf(segmenter.prefix) \cup EventFrames(e) : x <= captured
       /\ \A t \in 1 .. Len(turns) : \A x \in FramesOf(turns[t].audio) : x <= captured
  BY <1>6, <1>7, Known DEF CapturedOnly
<1>15. \A x \in FramesOf(p) \cup {captured} :
          /\ x \notin commanded
          /\ \A t \in 1 .. Len(turns) : turns[t].at \in Heeding => x \notin FramesOf(turns[t].audio)
  BY <1>7, Known DEF Apart
<1>16. CASE outcome \in {"refused", "failed"}
  <2>1. turns' = turns /\ activeTurn' = 0
    BY <1>3, <1>16
  <2>2. SegmentTypes'
    BY <1>3, <1>4, <1>5, <1>6, <2>1, Known DEF SegmentTypes
  <2>3. CapturedOnly(captured, spoken, commanded, segmenter, e, turns)
    BY <1>14 DEF CapturedOnly
  <2>4. SegmenterOK(captured, segmenter, e, 0, window, loop')
    BY <1>3, <1>11
  <2>5. InFlight(captured, segmenter, e, turns, 0)
    BY DEF InFlight
  <2>6. Apart(commanded, segmenter, e, turns, 0)
    BY <1>1, <1>6, <1>7, Known DEF Apart
  <2>7. \A x \in spoken : Placed(x, commanded, lost, e, turns, aborted')
    <3> SUFFICES ASSUME NEW x \in spoken
                 PROVE  Placed(x, commanded, lost, e, turns, aborted')
      OBVIOUS
    <3>1. Placed(x, commanded, lost, events, turns, aborted)
      BY Known
    <3>2. x \in EventFrames(events) => x \in EventFrames(e)
      BY <1>6, <1>7, <1>9
    <3> QED
      BY <1>3, <3>1, <3>2 DEF Placed
  <2>8. Staged(turns, 0, finals, worker, aborted')
    BY <1>1, <1>3, Known DEF Staged
  <2>9. EndsInOrder(loop', worker, finals, 0, aborted')
    BY <1>3, <1>4, Known DEF EndsInOrder
  <2> QED
    BY <1>4, <1>10, <2>1, <2>2, <2>3, <2>4, <2>5, <2>6, <2>7, <2>8, <2>9, Known DEF SegmentInv
<1>17. CASE outcome \notin {"refused", "failed"}
  <2>1. PICK at \in {"open", "dropped"} : at = IF outcome = "started" THEN "open" ELSE "dropped"
    OBVIOUS
  <2>2. PICK us : us = Append(turns, [audio |-> p, at |-> at])
    OBVIOUS
  <2>3. PICK m : m = Len(turns) + 1
    OBVIOUS
  <2>4. /\ turns' = us /\ activeTurn' = (IF at = "open" THEN m ELSE 0) /\ loop' = loop /\ aborted' = aborted
    BY <1>3, <1>5, <1>17, <2>1, <2>2, <2>3
  <2>5. /\ us \in Seq(HeldTurn) /\ Len(us) = m /\ m \in Nat \ {0}
        /\ \A t \in 1 .. Len(turns) : us[t] = turns[t]
        /\ us[m].audio = p /\ us[m].at = at
    <3>1. Added(turns, Append(turns, [audio |-> p, at |-> at]), p, at)
      BY <1>5, <2>1, TurnAdded
    <3>2. Added(turns, us, p, at)
      BY <2>2, <3>1
    <3> QED
      BY <1>5, <2>3, <3>2 DEF Added
  <2>6. \A t \in 1 .. m : t = m \/ t \in 1 .. Len(turns)
    BY <1>5, <2>3
  <2>7. m \notin 1 .. Len(turns) /\ \A t \in 1 .. Len(turns) : t \in 1 .. m /\ t # m
    BY <1>5, <2>3
  <2>8. SegmentTypes'
    <3>1. activeTurn' \in 0 .. Len(us)
      BY <2>4, <2>5
    <3>2. worker \in Gone .. Len(us)
      BY <1>5, <2>3, <2>5 DEF Gone
    <3>3. finals \in Seq(1 .. Len(us))
      <4>1. (1 .. Len(turns)) \subseteq 1 .. Len(us)
        BY <2>5, <2>7
      <4> QED
        BY <1>5, <4>1, SeqMonotonic
    <3> QED
      BY <1>4, <1>6, <2>4, <2>5, <3>1, <3>2, <3>3, Known DEF SegmentTypes
  <2>9. CapturedOnly(captured, spoken, commanded, segmenter, e, us)
    <3>1. ASSUME NEW t \in 1 .. Len(us)
          PROVE  \A x \in FramesOf(us[t].audio) : x <= captured
      BY <1>13, <1>14, <2>5, <2>6
    <3> QED
      BY <1>14, <3>1 DEF CapturedOnly
  <2>10. SegmenterOK(captured, segmenter, e, activeTurn', window, loop)
    BY <1>11
  <2>11. InFlight(captured, segmenter, e, us, activeTurn')
    BY <1>1, <1>6, <2>4, <2>5 DEF InFlight
  <2>12. Apart(commanded, segmenter, e, us, activeTurn')
    <3>1. ASSUME NEW x \in FramesOf(segmenter.prefix) \cup EventFrames(e)
          PROVE  /\ x \notin commanded
                 /\ \A t \in 1 .. Len(us) : us[t].at \in Heeding => x \notin FramesOf(us[t].audio)
      <4>1. x = captured
        BY <1>6, <1>8, <3>1
      <4>2. x \notin commanded
        BY <1>15, <4>1
      <4>3. ASSUME NEW t \in 1 .. Len(us), us[t].at \in Heeding
            PROVE  x \notin FramesOf(us[t].audio)
        <5>1. CASE t = m
          BY <1>5, <1>12, <2>5, <4>1, <5>1
        <5>2. CASE t \in 1 .. Len(turns)
          BY <1>15, <2>5, <4>1, <4>3, <5>2
        <5> QED
          BY <2>5, <2>6, <5>1, <5>2
      <4> QED
        BY <4>2, <4>3
    <3>2. ASSUME NEW t \in 1 .. Len(turns), turns[t].at \in Heeding
          PROVE  /\ FramesOf(turns[t].audio) \cap commanded = {}
                 /\ FramesOf(turns[t].audio) \cap FramesOf(segmenter.frames) = {}
                 /\ FramesOf(turns[t].audio) \cap FramesOf(p) = {}
                 /\ \A u \in 1 .. Len(turns) : u # t /\ turns[u].at \in Heeding =>
                       FramesOf(turns[t].audio) \cap FramesOf(turns[u].audio) = {}
      <4>1. t # activeTurn
        BY <1>1
      <4> QED
        BY <1>15, <3>2, <4>1, Known DEF Apart
    <3>3. ASSUME NEW t \in 1 .. Len(us), us[t].at \in Heeding
          PROVE  /\ FramesOf(us[t].audio) \cap commanded = {}
                 /\ t # activeTurn' => FramesOf(us[t].audio) \cap FramesOf(segmenter.frames) = {}
                 /\ \A u \in 1 .. Len(us) : u # t /\ us[u].at \in Heeding =>
                       FramesOf(us[t].audio) \cap FramesOf(us[u].audio) = {}
      <4>1. CASE t = m
        <5>1. us[t].audio = p /\ at \in Heeding
          BY <2>5, <3>3, <4>1
        <5>2. at = "open" /\ t = activeTurn'
          BY <2>4, <4>1, <5>1 DEF Heeding
        <5>3. FramesOf(p) \cap commanded = {}
          BY <1>15
        <5>4. ASSUME NEW u \in 1 .. Len(us), u # t, us[u].at \in Heeding
              PROVE  FramesOf(us[t].audio) \cap FramesOf(us[u].audio) = {}
          <6>1. u \in 1 .. Len(turns) /\ us[u] = turns[u]
            BY <2>5, <2>6, <4>1, <5>4
          <6>2. FramesOf(turns[u].audio) \cap FramesOf(p) = {}
            BY <3>2, <5>4, <6>1
          <6> QED
            BY <5>1, <6>1, <6>2
        <5> QED
          BY <5>1, <5>2, <5>3, <5>4
      <4>2. CASE t \in 1 .. Len(turns)
        <5>1. us[t] = turns[t] /\ turns[t].at \in Heeding
          BY <2>5, <3>3, <4>2
        <5>2. /\ FramesOf(us[t].audio) \cap commanded = {}
              /\ FramesOf(us[t].audio) \cap FramesOf(segmenter.frames) = {}
              /\ FramesOf(us[t].audio) \cap FramesOf(p) = {}
              /\ \A u \in 1 .. Len(turns) : u # t /\ turns[u].at \in Heeding =>
                    FramesOf(us[t].audio) \cap FramesOf(turns[u].audio) = {}
          BY <3>2, <4>2, <5>1
        <5>3. ASSUME NEW u \in 1 .. Len(us), u # t, us[u].at \in Heeding
              PROVE  FramesOf(us[t].audio) \cap FramesOf(us[u].audio) = {}
          <6>1. CASE u = m
            BY <2>5, <5>2, <6>1
          <6>2. CASE u \in 1 .. Len(turns)
            <7>1. us[u] = turns[u]
              BY <2>5, <6>2
            <7> QED
              BY <5>2, <5>3, <6>2, <7>1
          <6> QED
            BY <2>5, <2>6, <6>1, <6>2
        <5> QED
          BY <5>2, <5>3
      <4> QED
        BY <2>5, <2>6, <4>1, <4>2
    <3> QED
      BY <3>1, <3>3 DEF Apart
  <2>13. \A x \in spoken : Placed(x, commanded, lost, e, us, aborted)
    <3> SUFFICES ASSUME NEW x \in spoken
                 PROVE  Placed(x, commanded, lost, e, us, aborted)
      OBVIOUS
    <3>1. Placed(x, commanded, lost, events, turns, aborted)
      BY Known
    <3>2. x \in EventFrames(events) => x \in EventFrames(e)
      BY <1>6, <1>7, <1>9
    <3>3. CASE \E t \in 1 .. Len(turns) : turns[t].at \in Heeding \cup {"dropped"} /\ x \in FramesOf(turns[t].audio)
      <4>1. PICK t \in 1 .. Len(turns) : turns[t].at \in Heeding \cup {"dropped"} /\ x \in FramesOf(turns[t].audio)
        BY <3>3
      <4>2. t \in 1 .. Len(us) /\ us[t] = turns[t]
        BY <2>5, <2>7
      <4> QED
        BY <4>1, <4>2 DEF Placed
    <3> QED
      BY <3>1, <3>2, <3>3 DEF Placed
  <2>14. NoGaps(us)
    <3>1. captured - 1 \in Int
      BY <1>5
    <3>2. \A k \in 2 .. Len(p) : p[k] = p[k - 1] + 1
      BY <1>1, <3>1, RunWhole
    <3>3. ASSUME NEW t \in 1 .. Len(us)
          PROVE  \A k \in 2 .. Len(us[t].audio) : us[t].audio[k] = us[t].audio[k - 1] + 1
      <4>1. CASE t = m
        BY <2>5, <3>2, <4>1
      <4>2. CASE t \in 1 .. Len(turns)
        <5>1. us[t] = turns[t]
          BY <2>5, <4>2
        <5>2. \A k \in 2 .. Len(turns[t].audio) : turns[t].audio[k] = turns[t].audio[k - 1] + 1
          BY <4>2, Known DEF NoGaps
        <5> QED
          BY <5>1, <5>2
      <4> QED
        BY <2>5, <2>6, <4>1, <4>2
    <3> QED
      BY <3>3 DEF NoGaps
  <2>15. Staged(us, activeTurn', finals, worker, aborted)
    <3>1. Staged(turns, activeTurn, finals, worker, aborted)
      BY Known
    <3>2. \A i \in 1 .. Len(finals) : finals[i] \in 1 .. Len(turns)
      BY <1>5
    <3>3. worker > 0 => worker \in 1 .. Len(turns)
      BY <1>5 DEF Gone
    <3>4. ASSUME NEW t \in 1 .. Len(us)
          PROVE  /\ us[t].at = "open" => t = activeTurn' \/ aborted
                 /\ us[t].at = "queued" => \E i \in 1 .. Len(finals) : finals[i] = t
                 /\ us[t].at = "finishing" => t = worker
      <4>1. CASE t = m
        BY <2>4, <2>5, <4>1
      <4>2. CASE t \in 1 .. Len(turns)
        <5>1. us[t] = turns[t] /\ t # activeTurn
          <6>1. t # 0
            BY <1>5, <4>2
          <6> QED
            BY <1>1, <2>5, <4>2, <6>1
        <5> QED
          BY <3>1, <4>2, <5>1 DEF Staged
      <4> QED
        BY <2>5, <2>6, <4>1, <4>2
    <3>5. /\ \A i \in 1 .. Len(finals) : us[finals[i]].at = "queued"
          /\ \A i, j \in 1 .. Len(finals) : finals[i] = finals[j] => i = j
          /\ worker > 0 => us[worker].at = "finishing"
      BY <2>5, <3>1, <3>2, <3>3 DEF Staged
    <3> QED
      BY <3>4, <3>5 DEF Staged
  <2>16. EndsInOrder(loop, worker, finals, activeTurn', aborted)
    BY <1>4, Known DEF EndsInOrder
  <2> QED
    BY <1>4, <1>10, <2>4, <2>8, <2>9, <2>10, <2>11, <2>12, <2>13, <2>14, <2>15, <2>16 DEF SegmentInv
<1> QED
  BY <1>16, <1>17

\* The turn in flight is put elsewhere: whatever the stage, the others stay where they are.
LEMMA InFlightMoved ==
  ASSUME SegmentInv, activeTurn # 0, NEW us, NEW at \in {"dropped", "queued"}, Restaged(turns, us, activeTurn, at)
  PROVE  /\ activeTurn \in 1 .. Len(turns) /\ turns[activeTurn].at = "open"
         /\ us \in Seq(HeldTurn) /\ Len(us) = Len(turns) /\ us[activeTurn].at = at
         /\ \A t \in 1 .. Len(turns) : us[t].audio = turns[t].audio
         /\ \A t \in 1 .. Len(turns) : t # activeTurn => us[t].at = turns[t].at
         /\ \A t \in 1 .. Len(turns) : us[t].at \in Heeding => turns[t].at \in Heeding
         /\ \A t \in 1 .. Len(turns) :
               turns[t].at \in Heeding \cup {"dropped"} => us[t].at \in Heeding \cup {"dropped"}
         /\ \A i \in 1 .. Len(finals) : finals[i] # activeTurn
         /\ worker # activeTurn
<1>1. activeTurn \in 1 .. Len(turns)
  BY Known, FramesKnown DEF SegmentTypes
<1>2. turns[activeTurn].at = "open"
  BY Known DEF InFlight
<1>3. /\ us \in Seq(HeldTurn) /\ Len(us) = Len(turns) /\ us[activeTurn].at = at
      /\ \A t \in 1 .. Len(turns) : us[t].audio = turns[t].audio
      /\ \A t \in 1 .. Len(turns) : t # activeTurn => us[t].at = turns[t].at
  BY DEF Restaged
<1>4. \A i \in 1 .. Len(finals) : finals[i] # activeTurn
  BY <1>2, Known DEF Staged
<1>5. worker # activeTurn
  <2>1. worker > 0 => turns[worker].at = "finishing"
    BY Known DEF Staged
  <2>2. activeTurn > 0
    BY <1>1, FramesKnown
  <2> QED
    BY <1>2, <2>1, <2>2
<1>6. \A t \in 1 .. Len(turns) : us[t].at \in Heeding => turns[t].at \in Heeding
  BY <1>2, <1>3 DEF Heeding
<1>7. \A t \in 1 .. Len(turns) : turns[t].at \in Heeding \cup {"dropped"} => us[t].at \in Heeding \cup {"dropped"}
  BY <1>3 DEF Heeding
<1> QED
  BY <1>1, <1>2, <1>3, <1>4, <1>5, <1>6, <1>7

\* What is left when the events of the frame are handled.
LEMMA NothingHeld ==
  ASSUME SegmentInv, NEW lp, lp # "flushed" \/ lp = loop, NEW active, NEW win, win => window /\ active = 0
  PROVE  /\ SegmenterOK(captured, segmenter, <<>>, active, win, lp)
         /\ QuietBefore(spoken, segmenter, <<>>)
         /\ CapturedOnly(captured, spoken, commanded, segmenter, <<>>, turns)
<1>1. PICK e : e = <<>>
  OBVIOUS
<1>2. EventFrames(e) = {} /\ Len(e) = 0
  BY <1>1, FramesKnown
<1>3. SegmenterOK(captured, segmenter, e, active, win, lp)
  <2>1. SegmenterOK(captured, segmenter, events, activeTurn, window, loop)
    BY Known
  <2>2. /\ RunTo(segmenter.prefix, captured) /\ (segmenter.active => segmenter.prefix = <<>>)
        /\ (~segmenter.active => segmenter.frames = <<>>)
        /\ window => ~segmenter.active /\ segmenter.prefix = <<>>
        /\ loop = "flushed" => ~segmenter.active
    BY <2>1 DEF SegmenterOK
  <2> QED
    BY <1>1, <2>2 DEF SegmenterOK
<1>4. QuietBefore(spoken, segmenter, e)
  BY <1>2, Known DEF QuietBefore
<1>5. CapturedOnly(captured, spoken, commanded, segmenter, e, turns)
  BY <1>2, Known DEF CapturedOnly
<1> QED
  BY <1>1, <1>3, <1>4, <1>5

\* The frame read last is pushed to the turn, or lost with it.
LEMMA AudioHandled ==
  ASSUME SegmentInv, HandleAudio
  PROVE  SegmentInv'
<1>0. PICK c : c = captured
  OBVIOUS
<1>1. /\ events = <<Event("audio", <<c>>)>> /\ Head(events).frames = <<c>> /\ Tail(events) = <<>>
      /\ segmenter.active /\ c \in FramesOf(segmenter.frames)
  BY <1>0, EventToHandle DEF HandleAudio, Current
<1>2. /\ events' = <<>> /\ loop \in {"reading", "flushed"}
      /\ UNCHANGED <<captured, spoken, segmenter, finals, loop, worker, window, commanded, aborted, wakes>>
  BY <1>1 DEF HandleAudio, Current
<1>3. \/ activeTurn = 0 /\ lost' = lost \cup ToSet(<<c>>) /\ turns' = turns /\ activeTurn' = activeTurn
      \/ /\ activeTurn # 0 /\ turns' = [turns EXCEPT ![activeTurn].audio = @ \o <<c>>]
         /\ activeTurn' = activeTurn /\ lost' = lost
      \/ /\ activeTurn # 0 /\ turns' = [turns EXCEPT ![activeTurn].at = "dropped"]
         /\ activeTurn' = 0 /\ lost' = lost \cup ToSet(<<c>>)
  BY <1>1 DEF HandleAudio
<1>4. ToSet(<<c>>) = {c}
  BY DEF ToSet
<1>5. /\ c \in Nat /\ turns \in Seq(HeldTurn) /\ Len(turns) \in Nat /\ events # <<>>
      /\ EventFrames(events) = {c} /\ Head(events).type = "audio"
  BY <1>0, <1>1, Known, FramesKnown, AudioLeft DEF SegmentTypes
<1>6. segmenter.prefix = <<>> /\ ~window /\ FramesOf(segmenter.prefix) = {} /\ EventFrames(<<>>) = {}
  BY <1>1, <1>5, Known, FramesKnown DEF SegmenterOK
<1>7. /\ \A active : SegmenterOK(c, segmenter, <<>>, active, window, loop)
      /\ QuietBefore(spoken, segmenter, <<>>)
      /\ CapturedOnly(c, spoken, commanded, segmenter, <<>>, turns)
  BY <1>0, <1>6, NothingHeld
<1>8. \A x \in spoken : x = c \/ Placed(x, commanded, lost, <<>>, turns, aborted)
  <2> SUFFICES ASSUME NEW x \in spoken, x # c
               PROVE  Placed(x, commanded, lost, <<>>, turns, aborted)
    OBVIOUS
  <2>1. Placed(x, commanded, lost, events, turns, aborted)
    BY Known
  <2> QED
    BY <1>5, <2>1 DEF Placed
<1>9. EndsInOrder(loop, worker, finals, activeTurn', aborted)
  BY <1>2, Known DEF EndsInOrder
<1>10. CASE activeTurn = 0 /\ lost' = lost \cup {c} /\ turns' = turns /\ activeTurn' = activeTurn
  <2>1. SegmentTypes'
    BY <1>2, <1>5, <1>10, Known, FramesKnown DEF SegmentTypes
  <2>2. InFlight(c, segmenter, <<>>, turns, activeTurn)
    BY <1>10 DEF InFlight
  <2>3. Apart(commanded, segmenter, <<>>, turns, activeTurn)
    BY <1>6, Known DEF Apart
  <2>4. \A x \in spoken : Placed(x, commanded, lost', <<>>, turns, aborted)
    BY <1>8, <1>10 DEF Placed
  <2> QED
    BY <1>0, <1>2, <1>7, <1>9, <1>10, <2>1, <2>2, <2>3, <2>4, Known DEF SegmentInv
<1>11. CASE /\ activeTurn # 0 /\ turns' = [turns EXCEPT ![activeTurn].at = "dropped"]
            /\ activeTurn' = 0 /\ lost' = lost \cup {c}
  <2>1. PICK us : us = turns'
    OBVIOUS
  <2>2. Restaged(turns, us, activeTurn, "dropped")
    <3>1. activeTurn \in 1 .. Len(turns)
      BY <1>11, Known, FramesKnown DEF SegmentTypes
    <3>2. Restaged(turns, [turns EXCEPT ![activeTurn].at = "dropped"], activeTurn, "dropped")
      BY <1>5, <3>1, TurnRestaged
    <3> QED
      BY <1>11, <2>1, <3>2
  <2>3. /\ activeTurn \in 1 .. Len(turns) /\ turns[activeTurn].at = "open"
        /\ us \in Seq(HeldTurn) /\ Len(us) = Len(turns) /\ us[activeTurn].at = "dropped"
        /\ \A t \in 1 .. Len(turns) : us[t].audio = turns[t].audio
        /\ \A t \in 1 .. Len(turns) : t # activeTurn => us[t].at = turns[t].at
        /\ \A t \in 1 .. Len(turns) : us[t].at \in Heeding => turns[t].at \in Heeding
        /\ \A t \in 1 .. Len(turns) :
              turns[t].at \in Heeding \cup {"dropped"} => us[t].at \in Heeding \cup {"dropped"}
        /\ \A i \in 1 .. Len(finals) : finals[i] # activeTurn
        /\ worker # activeTurn
    BY <1>11, <2>2, InFlightMoved
  <2>4. SegmentTypes'
    <3>1. lost' \in SUBSET Nat
      BY <1>5, <1>11, Known DEF SegmentTypes
    <3>2. finals' \in Seq(1 .. Len(turns')) /\ worker' \in Gone .. Len(turns') /\ activeTurn' \in 0 .. Len(turns')
      BY <1>2, <1>5, <1>11, <2>1, <2>3, Known DEF SegmentTypes
    <3> QED
      BY <1>2, <2>1, <2>3, <3>1, <3>2, Known, FramesKnown DEF SegmentTypes
  <2>5. CapturedOnly(c, spoken, commanded, segmenter, <<>>, us) /\ NoGaps(us)
    BY <1>7, <2>3, Known, SameAudio
  <2>6. InFlight(c, segmenter, <<>>, us, 0)
    BY DEF InFlight
  <2>7. Apart(commanded, segmenter, <<>>, us, 0)
    <3>1. \A t \in 1 .. Len(turns) : us[t].at \in Heeding /\ t # 0 => FramesOf(us[t].audio) \cap FramesOf(segmenter.frames) = {}
      <4> SUFFICES ASSUME NEW t \in 1 .. Len(turns), us[t].at \in Heeding
                   PROVE  FramesOf(us[t].audio) \cap FramesOf(segmenter.frames) = {}
        OBVIOUS
      <4>1. t # activeTurn /\ turns[t].at \in Heeding
        BY <2>3 DEF Heeding
      <4>2. FramesOf(turns[t].audio) \cap FramesOf(segmenter.frames) = {}
        BY <4>1, Known DEF Apart
      <4> QED
        BY <2>3, <4>2
    <3>2. FramesOf(segmenter.prefix) \cup EventFrames(<<>>) \subseteq FramesOf(segmenter.prefix) \cup EventFrames(events)
      BY <1>6
    <3> QED
      BY <2>3, <3>1, <3>2, Known, ApartLess
  <2>8. \A x \in spoken : Placed(x, commanded, lost', <<>>, us, aborted)
    <3> SUFFICES ASSUME NEW x \in spoken
                 PROVE  Placed(x, commanded, lost', <<>>, us, aborted)
      OBVIOUS
    <3>1. CASE x = c
      BY <1>11, <3>1 DEF Placed
    <3>2. CASE Placed(x, commanded, lost, <<>>, turns, aborted)
      BY <1>11, <2>3, <3>2 DEF Placed
    <3> QED
      BY <1>8, <3>1, <3>2
  <2>9. Staged(us, 0, finals, worker, aborted)
    <3>1. Staged(turns, activeTurn, finals, worker, aborted)
      BY Known
    <3>2. \A i \in 1 .. Len(finals) : finals[i] \in 1 .. Len(turns)
      BY Known DEF SegmentTypes
    <3>3. worker > 0 => worker \in 1 .. Len(turns)
      BY <1>5, Known DEF SegmentTypes, Gone
    <3>4. ASSUME NEW t \in 1 .. Len(us)
          PROVE  /\ us[t].at = "open" => t = 0 \/ aborted
                 /\ us[t].at = "queued" => \E i \in 1 .. Len(finals) : finals[i] = t
                 /\ us[t].at = "finishing" => t = worker
      BY <2>3, <3>1 DEF Staged
    <3>5. /\ \A i \in 1 .. Len(finals) : us[finals[i]].at = "queued"
          /\ \A i, j \in 1 .. Len(finals) : finals[i] = finals[j] => i = j
          /\ worker > 0 => us[worker].at = "finishing"
      BY <2>3, <3>1, <3>2, <3>3 DEF Staged
    <3> QED
      BY <3>4, <3>5 DEF Staged
  <2> QED
    BY <1>0, <1>2, <1>7, <1>9, <1>11, <2>1, <2>4, <2>5, <2>6, <2>7, <2>8, <2>9 DEF SegmentInv
<1>12. CASE /\ activeTurn # 0 /\ turns' = [turns EXCEPT ![activeTurn].audio = @ \o <<c>>]
            /\ activeTurn' = activeTurn /\ lost' = lost
  <2>0. PICK a : a = activeTurn
    OBVIOUS
  <2>1. PICK us : us = turns'
    OBVIOUS
  <2>2. a \in 1 .. Len(turns) /\ turns[a].at = "open" /\ turns[a] \in HeldTurn
    <3>1. a \in 1 .. Len(turns)
      BY <1>12, <2>0, Known, FramesKnown DEF SegmentTypes
    <3>2. turns[a].at = "open"
      BY <1>12, <2>0, Known DEF InFlight
    <3> QED
      BY <1>5, <3>1, <3>2
  <2>3. PICK s \in Seq(Nat) : s = turns[a].audio
    BY <2>2 DEF HeldTurn
  <2>4. PICK v : v = Append(s, c)
    OBVIOUS
  <2>5. /\ v \in Seq(Nat) /\ FramesOf(v) = FramesOf(s) \cup {c} /\ s \o <<c>> = v
    <3>1. s \o <<c>> = Append(s, c)
      BY <1>5, <2>3, AppendIsConcat
    <3> QED
      BY <1>5, <2>3, <2>4, <3>1, FrameAppended
  <2>6. RunTo(s, c - 1) /\ FramesOf(s) \subseteq FramesOf(segmenter.frames)
    BY <1>0, <1>1, <1>5, <1>12, <2>0, <2>3, Known DEF InFlight
  <2>7. RunTo(v, c)
    <3>1. PICK d : d = c - 1
      OBVIOUS
    <3>2. d \in Int /\ d + 1 = c /\ d + 1 \in Nat
      BY <1>5, <3>1
    <3>3. RunTo(Append(s, d + 1), d + 1)
      BY <2>3, <2>6, <3>1, <3>2, RunAppended
    <3> QED
      BY <2>4, <3>2, <3>3
  <2>8. /\ us \in Seq(HeldTurn) /\ Len(us) = Len(turns) /\ us[a].at = "open" /\ us[a].audio = v
        /\ \A t \in 1 .. Len(turns) : t # a => us[t] = turns[t]
        /\ \A t \in 1 .. Len(turns) : us[t].at = turns[t].at
    <3>1. PICK r : r = [turns[a] EXCEPT !.audio = v]
      OBVIOUS
    <3>2. r \in HeldTurn /\ r.at = "open" /\ r.audio = v
      BY <2>2, <2>5, <3>1 DEF HeldTurn
    <3>3. us = [turns EXCEPT ![a] = r]
      <4>1. us = [turns EXCEPT ![a].audio = s \o <<c>>]
        BY <1>12, <2>0, <2>1, <2>3
      <4> QED
        BY <2>5, <3>1, <4>1
    <3>4. us \in Seq(HeldTurn) /\ Len(us) = Len(turns) /\ us[a] = r
          /\ \A t \in 1 .. Len(turns) : t # a => us[t] = turns[t]
      BY <1>5, <2>2, <3>2, <3>3, ExceptSeq
    <3> QED
      BY <2>2, <3>2, <3>4
  <2>9. SegmentTypes'
    BY <1>2, <1>12, <2>1, <2>8, Known, FramesKnown DEF SegmentTypes
  <2>10. CapturedOnly(c, spoken, commanded, segmenter, <<>>, us)
    <3>1. \A x \in FramesOf(s) : x <= c
      BY <1>0, <2>2, <2>3, Known DEF CapturedOnly
    <3>2. \A x \in FramesOf(v) : x <= c
      BY <1>5, <2>5, <3>1
    <3>3. ASSUME NEW t \in 1 .. Len(us)
          PROVE  \A x \in FramesOf(us[t].audio) : x <= c
      <4>1. CASE t = a
        BY <2>8, <3>2, <4>1
      <4>2. CASE t # a
        BY <1>7, <2>8, <4>2 DEF CapturedOnly
      <4> QED
        BY <4>1, <4>2
    <3> QED
      BY <1>7, <3>3 DEF CapturedOnly
  <2>11. InFlight(c, segmenter, <<>>, us, a)
    <3>1. FramesOf(v) \subseteq FramesOf(segmenter.frames)
      BY <1>1, <2>5, <2>6
    <3>2. <<>> # <<Event("audio", <<c>>)>>
      OBVIOUS
    <3> QED
      BY <1>1, <2>7, <2>8, <3>1, <3>2 DEF InFlight
  <2>12. Apart(commanded, segmenter, <<>>, us, a)
    <3>1. /\ c \notin commanded
          /\ \A t \in 1 .. Len(turns) : turns[t].at \in Heeding => c \notin FramesOf(turns[t].audio)
      BY <1>5, Known DEF Apart
    <3>2. turns[a].at \in Heeding
      BY <2>2 DEF Heeding
    <3>3. FramesOf(us[a].audio) = FramesOf(turns[a].audio) \cup {c}
      BY <2>3, <2>5, <2>8
    <3>4. ASSUME NEW t \in 1 .. Len(us), us[t].at \in Heeding
          PROVE  /\ FramesOf(us[t].audio) \cap commanded = {}
                 /\ t # a => FramesOf(us[t].audio) \cap FramesOf(segmenter.frames) = {}
      <4>1. turns[t].at \in Heeding /\ t \in 1 .. Len(turns)
        BY <2>8, <3>4
      <4>2. FramesOf(turns[t].audio) \cap commanded = {}
        BY <4>1, Known DEF Apart
      <4>3. t # a => FramesOf(turns[t].audio) \cap FramesOf(segmenter.frames) = {}
        BY <2>0, <4>1, Known DEF Apart
      <4>4. CASE t = a
        BY <3>1, <3>3, <4>2, <4>4
      <4>5. CASE t # a
        BY <2>8, <4>1, <4>2, <4>3, <4>5
      <4> QED
        BY <4>4, <4>5
    <3>5. ASSUME NEW t \in 1 .. Len(us), us[t].at \in Heeding, NEW u \in 1 .. Len(us), u # t, us[u].at \in Heeding
          PROVE  FramesOf(us[t].audio) \cap FramesOf(us[u].audio) = {}
      <4>1. turns[t].at \in Heeding /\ t \in 1 .. Len(turns) /\ turns[u].at \in Heeding /\ u \in 1 .. Len(turns)
        BY <2>8, <3>5
      <4>2. FramesOf(turns[t].audio) \cap FramesOf(turns[u].audio) = {}
        BY <3>5, <4>1, Known DEF Apart
      <4>3. c \notin FramesOf(turns[t].audio) /\ c \notin FramesOf(turns[u].audio)
        BY <3>1, <4>1
      <4>4. CASE t = a
        <5>1. FramesOf(us[u].audio) = FramesOf(turns[u].audio)
          BY <2>8, <3>5, <4>1, <4>4
        <5>2. FramesOf(us[t].audio) = FramesOf(turns[t].audio) \cup {c}
          BY <3>3, <4>4
        <5> QED
          BY <4>2, <4>3, <5>1, <5>2
      <4>5. CASE u = a
        <5>1. FramesOf(us[t].audio) = FramesOf(turns[t].audio)
          BY <2>8, <3>5, <4>1, <4>5
        <5>2. FramesOf(us[u].audio) = FramesOf(turns[u].audio) \cup {c}
          BY <3>3, <4>5
        <5> QED
          BY <4>2, <4>3, <5>1, <5>2
      <4>6. CASE t # a /\ u # a
        <5>1. us[t] = turns[t] /\ us[u] = turns[u]
          BY <2>8, <4>1, <4>6
        <5> QED
          BY <4>2, <5>1
      <4> QED
        BY <4>4, <4>5, <4>6
    <3> QED
      BY <1>6, <3>4, <3>5 DEF Apart
  <2>13. \A x \in spoken : Placed(x, commanded, lost, <<>>, us, aborted)
    <3> SUFFICES ASSUME NEW x \in spoken
                 PROVE  Placed(x, commanded, lost, <<>>, us, aborted)
      OBVIOUS
    <3>1. CASE x = c
      <4>1. x \in FramesOf(us[a].audio) /\ us[a].at \in Heeding \cup {"dropped"} /\ a \in 1 .. Len(us)
        BY <2>2, <2>5, <2>8, <3>1 DEF Heeding
      <4> QED
        BY <4>1 DEF Placed
    <3>2. CASE Placed(x, commanded, lost, <<>>, turns, aborted)
      <4>1. \A t \in 1 .. Len(turns) : FramesOf(turns[t].audio) \subseteq FramesOf(us[t].audio)
        BY <2>3, <2>5, <2>8
      <4> QED
        BY <2>8, <3>2, <4>1 DEF Placed
    <3> QED
      BY <1>8, <3>1, <3>2
  <2>14. NoGaps(us)
    <3>1. \A k \in 2 .. Len(v) : v[k] = v[k - 1] + 1
      <4>1. c \in Int /\ v \in Seq(Nat)
        BY <1>5, <2>5
      <4> QED
        BY <2>7, <4>1, RunWhole
    <3>2. ASSUME NEW t \in 1 .. Len(us)
          PROVE  \A k \in 2 .. Len(us[t].audio) : us[t].audio[k] = us[t].audio[k - 1] + 1
      <4>1. CASE t = a
        BY <2>8, <3>1, <4>1
      <4>2. CASE t # a
        <5>1. us[t] = turns[t] /\ t \in 1 .. Len(turns)
          BY <2>8, <4>2
        <5>2. \A k \in 2 .. Len(turns[t].audio) : turns[t].audio[k] = turns[t].audio[k - 1] + 1
          BY <5>1, Known DEF NoGaps
        <5> QED
          BY <5>1, <5>2
      <4> QED
        BY <4>1, <4>2
    <3> QED
      BY <3>2 DEF NoGaps
  <2>15. Staged(us, a, finals, worker, aborted)
    <3>1. Staged(turns, a, finals, worker, aborted)
      BY <2>0, Known
    <3>2. \A i \in 1 .. Len(finals) : finals[i] \in 1 .. Len(turns)
      BY Known DEF SegmentTypes
    <3>3. worker > 0 => worker \in 1 .. Len(turns)
      BY <1>5, Known DEF SegmentTypes, Gone
    <3> QED
      BY <2>8, <3>1, <3>2, <3>3 DEF Staged
  <2> QED
    BY <1>0, <1>2, <1>7, <1>9, <1>12, <2>0, <2>1, <2>9, <2>10, <2>11, <2>12, <2>13, <2>14, <2>15 DEF SegmentInv
<1> QED
  BY <1>3, <1>4, <1>10, <1>11, <1>12

\* What follows the end of an utterance, in the frame that ended it.
LEMMA FinalRest ==
  ASSUME SegmentInv, events # <<>>, Head(events).type = "final"
  PROVE  /\ Tail(events) \in Seq(HeldEvent) /\ EventFrames(Tail(events)) = EventFrames(events)
         /\ QuietBefore(spoken, segmenter, Tail(events))
         /\ SegmenterOK(captured, segmenter, Tail(events), 0, window, loop)
         /\ FramesOf(segmenter.frames) \subseteq EventFrames(events)
         /\ \A t \in 1 .. Len(turns) : turns[t].at \in Heeding =>
               FramesOf(turns[t].audio) \cap FramesOf(segmenter.frames) = {}
<1>0. PICK c : c = captured
  OBVIOUS
<1>00. PICK e : e = Tail(events)
  OBVIOUS
<1>1. \/ events = <<FinalEvent>> /\ ~segmenter.active /\ e = <<>>
      \/ /\ events = <<FinalEvent, Event("opened", <<>>), Event("audio", <<c>>)>>
         /\ segmenter.active /\ segmenter.frames = <<c>>
         /\ e = <<Event("opened", <<>>), Event("audio", <<c>>)>>
  BY <1>0, <1>00, EventToHandle
<1>2. /\ c \in Nat /\ <<>> \in Seq(Nat) /\ EventFrames(<<>>) = {} /\ FramesOf(<<>>) = {} /\ FramesOf(<<c>>) = {c}
      /\ EventFrames(<<FinalEvent>>) = {}
      /\ EventFrames(<<FinalEvent, Event("opened", <<>>), Event("audio", <<c>>)>>) = {c}
      /\ EventFrames(<<Event("opened", <<>>), Event("audio", <<c>>)>>) = {c}
  <2>1. c \in Nat /\ <<>> \in Seq(Nat)
    BY <1>0, FramesKnown
  <2>2. EventFrames(<<Event("opened", <<>>), Event("audio", <<c>>)>>) = FramesOf(<<>>) \cup {c}
    BY <2>1, HeldFrames
  <2> QED
    BY <2>1, <2>2, HeldFrames
<1>3. /\ RunTo(segmenter.prefix, c) /\ (segmenter.active => segmenter.prefix = <<>>)
      /\ (~segmenter.active => segmenter.frames = <<>>)
      /\ ~window /\ (loop = "flushed" => ~segmenter.active)
  BY <1>0, Known DEF SegmenterOK
<1>4. CASE events = <<FinalEvent>> /\ ~segmenter.active /\ e = <<>>
  <2>1. e \in Seq(HeldEvent) /\ Len(e) = 0
    BY <1>4
  <2>2. EventFrames(e) = EventFrames(events) /\ FramesOf(segmenter.frames) \subseteq EventFrames(events)
    BY <1>2, <1>3, <1>4
  <2>3. QuietBefore(spoken, segmenter, e)
    BY <2>1, Known DEF QuietBefore
  <2>4. SegmenterOK(c, segmenter, e, 0, window, loop)
    BY <1>3, <1>4 DEF SegmenterOK
  <2> QED
    BY <1>0, <1>00, <2>1, <2>2, <2>3, <2>4, Known DEF Apart
<1>5. CASE /\ events = <<FinalEvent, Event("opened", <<>>), Event("audio", <<c>>)>>
           /\ segmenter.active /\ segmenter.frames = <<c>>
           /\ e = <<Event("opened", <<>>), Event("audio", <<c>>)>>
  <2>1. PICK o : o = Event("opened", <<>>)
    OBVIOUS
  <2>2. PICK a : a = Event("audio", <<c>>)
    OBVIOUS
  <2>3. o \in HeldEvent /\ a \in HeldEvent /\ o.frames = <<>> /\ o.type = "opened" /\ a.type = "audio"
    <3>1. <<c>> \in Seq(Nat)
      BY <1>2
    <3> QED
      BY <1>2, <2>1, <2>2, <3>1 DEF Event, HeldEvent
  <2>4. e = <<o, a>>
    BY <1>5, <2>1, <2>2
  <2>5. e \in Seq(HeldEvent) /\ Len(e) = 2 /\ e[1] = o /\ e[2] = a
    BY <2>3, <2>4
  <2>6. EventFrames(e) = EventFrames(events) /\ FramesOf(segmenter.frames) \subseteq EventFrames(events)
    BY <1>2, <1>5
  <2>7. QuietBefore(spoken, segmenter, e)
    <3>1. ASSUME NEW i \in 1 .. Len(e), e[i].type = "opened"
          PROVE  FramesOf(e[i].frames) \cap spoken = {}
      <4>1. e[i].frames = <<>>
        BY <2>3, <2>5, <3>1
      <4> QED
        BY <1>2, <4>1
    <3> QED
      BY <3>1, Known DEF QuietBefore
  <2>8. SegmenterOK(c, segmenter, e, 0, window, loop)
    <3>1. PICK p : p = <<>>
      OBVIOUS
    <3>2. e[1].frames = p /\ RunTo(p, c - 1) /\ FramesOf(p) \cup {c} \subseteq FramesOf(segmenter.frames)
      BY <1>2, <1>5, <2>3, <2>5, <3>1 DEF RunTo
    <3>3. e = <<Event("opened", p), Event("audio", <<c>>)>>
      BY <1>5, <3>1
    <3> QED
      BY <1>3, <1>5, <2>5, <3>2, <3>3 DEF SegmenterOK
  <2> QED
    BY <1>0, <1>00, <2>5, <2>6, <2>7, <2>8, Known DEF Apart
<1> QED
  BY <1>1, <1>4, <1>5

\* An utterance ends: its turn waits for the worker, or is left when the session stops.
LEMMA FinalHandled ==
  ASSUME SegmentInv, HandleFinal
  PROVE  SegmentInv'
<1>0. PICK e : e = Tail(events)
  OBVIOUS
<1>1. events # <<>> /\ Head(events).type = "final" /\ loop \in {"reading", "flushed"}
  BY DEF HandleFinal, Current
<1>2. UNCHANGED <<captured, spoken, segmenter, worker, window, commanded, lost, aborted, wakes>> /\ activeTurn' = 0
  BY DEF HandleFinal
<1>3. \/ activeTurn = 0 /\ events' = e /\ turns' = turns /\ finals' = finals /\ loop' = loop
      \/ /\ activeTurn # 0 /\ finals' = Append(finals, activeTurn) /\ events' = e /\ loop' = loop
         /\ turns' = [turns EXCEPT ![activeTurn].at = "queued"]
      \/ activeTurn # 0 /\ aborted /\ loop' = "failed" /\ events' = <<>> /\ turns' = turns /\ finals' = finals
  BY <1>0 DEF HandleFinal
<1>4. /\ e \in Seq(HeldEvent) /\ EventFrames(e) = EventFrames(events)
      /\ QuietBefore(spoken, segmenter, e)
      /\ SegmenterOK(captured, segmenter, e, 0, window, loop)
      /\ FramesOf(segmenter.frames) \subseteq EventFrames(events)
      /\ \A t \in 1 .. Len(turns) : turns[t].at \in Heeding =>
            FramesOf(turns[t].audio) \cap FramesOf(segmenter.frames) = {}
  BY <1>0, <1>1, FinalRest
<1>5. CapturedOnly(captured, spoken, commanded, segmenter, e, turns)
  BY <1>4, Known DEF CapturedOnly
<1>6. /\ turns \in Seq(HeldTurn) /\ Len(turns) \in Nat /\ Len(finals) \in Nat /\ finals \in Seq(1 .. Len(turns))
      /\ EventFrames(<<>>) = {} /\ <<>> \in Seq(HeldEvent)
      /\ 0 \in 0 .. Len(turns)
  BY Known, FramesKnown DEF SegmentTypes
<1>7. \A us : InFlight(captured, segmenter, e, us, 0) /\ InFlight(captured, segmenter, <<>>, us, 0)
  BY DEF InFlight
<1>8. CASE activeTurn = 0 /\ events' = e /\ turns' = turns /\ finals' = finals /\ loop' = loop
  <2>1. SegmentTypes'
    BY <1>2, <1>4, <1>6, <1>8, Known DEF SegmentTypes
  <2>2. Apart(commanded, segmenter, e, turns, 0)
    BY <1>4, <1>8, Known DEF Apart
  <2>3. \A x \in spoken : Placed(x, commanded, lost, e, turns, aborted)
    BY <1>4, Known DEF Placed
  <2>4. Staged(turns, 0, finals, worker, aborted) /\ EndsInOrder(loop, worker, finals, 0, aborted)
    BY <1>8, Known
  <2> QED
    BY <1>2, <1>4, <1>5, <1>7, <1>8, <2>1, <2>2, <2>3, <2>4, Known DEF SegmentInv
<1>9. CASE activeTurn # 0 /\ aborted /\ loop' = "failed" /\ events' = <<>> /\ turns' = turns /\ finals' = finals
  <2>1. SegmentTypes'
    BY <1>2, <1>6, <1>9, Known DEF SegmentTypes
  <2>2. Apart(commanded, segmenter, <<>>, turns, 0)
    BY <1>4, <1>6, Known DEF Apart
  <2>3. \A x \in spoken : Placed(x, commanded, lost, <<>>, turns, aborted)
    BY <1>9 DEF Placed
  <2>4. Staged(turns, 0, finals, worker, aborted) /\ EndsInOrder("failed", worker, finals, 0, aborted)
    BY <1>9, Known DEF Staged, EndsInOrder
  <2>5. ~window
    BY <1>1, Known DEF SegmenterOK
  <2>6. /\ SegmenterOK(captured, segmenter, <<>>, 0, window, "failed")
        /\ QuietBefore(spoken, segmenter, <<>>)
        /\ CapturedOnly(captured, spoken, commanded, segmenter, <<>>, turns)
    BY <2>5, NothingHeld
  <2> QED
    BY <1>2, <1>7, <1>9, <2>1, <2>2, <2>3, <2>4, <2>6, Known DEF SegmentInv
<1>10. CASE /\ activeTurn # 0 /\ finals' = Append(finals, activeTurn) /\ events' = e /\ loop' = loop
            /\ turns' = [turns EXCEPT ![activeTurn].at = "queued"]
  <2>1. PICK us : us = turns'
    OBVIOUS
  <2>2. Restaged(turns, us, activeTurn, "queued")
    <3>1. activeTurn \in 1 .. Len(turns)
      BY <1>10, Known, FramesKnown DEF SegmentTypes
    <3>2. Restaged(turns, [turns EXCEPT ![activeTurn].at = "queued"], activeTurn, "queued")
      BY <1>6, <3>1, TurnRestaged
    <3> QED
      BY <1>10, <2>1, <3>2
  <2>3. /\ activeTurn \in 1 .. Len(turns) /\ turns[activeTurn].at = "open"
        /\ us \in Seq(HeldTurn) /\ Len(us) = Len(turns) /\ us[activeTurn].at = "queued"
        /\ \A t \in 1 .. Len(turns) : us[t].audio = turns[t].audio
        /\ \A t \in 1 .. Len(turns) : t # activeTurn => us[t].at = turns[t].at
        /\ \A t \in 1 .. Len(turns) : us[t].at \in Heeding => turns[t].at \in Heeding
        /\ \A t \in 1 .. Len(turns) :
              turns[t].at \in Heeding \cup {"dropped"} => us[t].at \in Heeding \cup {"dropped"}
        /\ \A i \in 1 .. Len(finals) : finals[i] # activeTurn
        /\ worker # activeTurn
    BY <1>10, <2>2, InFlightMoved
  <2>4. PICK fs : fs = finals'
    OBVIOUS
  <2>5. PICK n : n = Len(finals) + 1
    OBVIOUS
  <2>6. /\ fs \in Seq(1 .. Len(turns)) /\ Len(fs) = n /\ fs[n] = activeTurn
        /\ \A i \in 1 .. Len(finals) : fs[i] = finals[i]
    <3>1. /\ Append(finals, activeTurn) \in Seq(1 .. Len(turns)) /\ Len(Append(finals, activeTurn)) = Len(finals) + 1
          /\ \A i \in 1 .. Len(finals) : Append(finals, activeTurn)[i] = finals[i]
          /\ Append(finals, activeTurn)[Len(finals) + 1] = activeTurn
      BY <1>6, <2>3, AppendProperties
    <3> QED
      BY <1>10, <2>4, <2>5, <3>1
  <2>7. /\ \A i \in 1 .. n : i = n \/ i \in 1 .. Len(finals)
        /\ n \in 1 .. n /\ \A i \in 1 .. Len(finals) : i \in 1 .. n
    BY <1>6, <2>5
  <2>8. SegmentTypes'
    BY <1>2, <1>4, <1>6, <1>10, <2>1, <2>3, <2>4, <2>6, Known DEF SegmentTypes
  <2>9. CapturedOnly(captured, spoken, commanded, segmenter, e, us) /\ NoGaps(us)
    BY <1>5, <2>3, Known, SameAudio
  <2>10. Apart(commanded, segmenter, e, us, 0)
    <3>1. \A t \in 1 .. Len(turns) : us[t].at \in Heeding /\ t # 0 => FramesOf(us[t].audio) \cap FramesOf(segmenter.frames) = {}
      <4> SUFFICES ASSUME NEW t \in 1 .. Len(turns), us[t].at \in Heeding
                   PROVE  FramesOf(us[t].audio) \cap FramesOf(segmenter.frames) = {}
        OBVIOUS
      <4>1. FramesOf(turns[t].audio) \cap FramesOf(segmenter.frames) = {}
        BY <1>4, <2>3
      <4> QED
        BY <2>3, <4>1
    <3>2. FramesOf(segmenter.prefix) \cup EventFrames(e) \subseteq FramesOf(segmenter.prefix) \cup EventFrames(events)
      BY <1>4
    <3> QED
      BY <2>3, <3>1, <3>2, Known, ApartLess
  <2>11. \A x \in spoken : Placed(x, commanded, lost, e, us, aborted)
    <3> SUFFICES ASSUME NEW x \in spoken
                 PROVE  Placed(x, commanded, lost, e, us, aborted)
      OBVIOUS
    <3>1. Placed(x, commanded, lost, events, turns, aborted)
      BY Known
    <3> QED
      BY <1>4, <2>3, <3>1 DEF Placed
  <2>12. Staged(us, 0, fs, worker, aborted)
    <3>1. Staged(turns, activeTurn, finals, worker, aborted)
      BY Known
    <3>2. \A i \in 1 .. Len(finals) : finals[i] \in 1 .. Len(turns)
      BY <1>6
    <3>3. worker > 0 => worker \in 1 .. Len(turns)
      BY <1>6, Known DEF SegmentTypes, Gone
    <3>4. ASSUME NEW t \in 1 .. Len(us)
          PROVE  /\ us[t].at = "open" => t = 0 \/ aborted
                 /\ us[t].at = "queued" => \E i \in 1 .. Len(fs) : fs[i] = t
                 /\ us[t].at = "finishing" => t = worker
      <4>1. CASE t = activeTurn
        BY <2>3, <2>6, <2>7, <4>1
      <4>2. CASE t # activeTurn
        <5>1. us[t].at = turns[t].at /\ t \in 1 .. Len(turns)
          BY <2>3, <4>2
        <5>2. us[t].at = "queued" => \E i \in 1 .. Len(fs) : fs[i] = t
          <6> SUFFICES ASSUME us[t].at = "queued"
                       PROVE  \E i \in 1 .. Len(fs) : fs[i] = t
            OBVIOUS
          <6>1. PICK i \in 1 .. Len(finals) : finals[i] = t
            BY <3>1, <5>1 DEF Staged
          <6>2. i \in 1 .. n /\ fs[i] = t
            BY <2>6, <2>7, <6>1
          <6> QED
            BY <2>6, <6>2
        <5> QED
          BY <3>1, <4>2, <5>1, <5>2 DEF Staged
      <4> QED
        BY <4>1, <4>2
    <3>5. \A i \in 1 .. Len(fs) : us[fs[i]].at = "queued"
      <4> SUFFICES ASSUME NEW i \in 1 .. Len(fs)
                   PROVE  us[fs[i]].at = "queued"
        OBVIOUS
      <4>1. CASE i = n
        BY <2>3, <2>6, <4>1
      <4>2. CASE i \in 1 .. Len(finals)
        <5>1. PICK t : t = finals[i]
          OBVIOUS
        <5>2. t \in 1 .. Len(turns) /\ t # activeTurn /\ fs[i] = t
          BY <2>3, <2>6, <3>2, <4>2, <5>1
        <5>3. turns[t].at = "queued"
          BY <3>1, <4>2, <5>1 DEF Staged
        <5> QED
          BY <2>3, <5>2, <5>3
      <4> QED
        BY <2>6, <2>7, <4>1, <4>2
    <3>6. ASSUME NEW i \in 1 .. Len(fs), NEW j \in 1 .. Len(fs), fs[i] = fs[j]
          PROVE  i = j
      <4>1. (i = n \/ i \in 1 .. Len(finals)) /\ (j = n \/ j \in 1 .. Len(finals))
        BY <2>6, <2>7
      <4>2. CASE i = n /\ j \in 1 .. Len(finals)
        BY <2>3, <2>6, <3>6, <4>2
      <4>3. CASE j = n /\ i \in 1 .. Len(finals)
        BY <2>3, <2>6, <3>6, <4>3
      <4>4. CASE i \in 1 .. Len(finals) /\ j \in 1 .. Len(finals)
        BY <2>6, <3>1, <3>6, <4>4 DEF Staged
      <4> QED
        BY <4>1, <4>2, <4>3, <4>4
    <3>7. worker > 0 => us[worker].at = "finishing"
      BY <2>3, <3>1, <3>3 DEF Staged
    <3> QED
      BY <3>4, <3>5, <3>6, <3>7 DEF Staged
  <2>13. EndsInOrder(loop, worker, fs, 0, aborted)
    BY <1>1, Known DEF EndsInOrder
  <2> QED
    BY <1>2, <1>4, <1>7, <1>10, <2>1, <2>4, <2>8, <2>9, <2>10, <2>11, <2>12, <2>13 DEF SegmentInv
<1> QED
  BY <1>3, <1>8, <1>9, <1>10

\* The session is stopped.
LEMMA SessionAborted ==
  ASSUME SegmentInv, Abort
  PROVE  SegmentInv'
<1>1. aborted' = TRUE /\ UNCHANGED <<captured, spoken, segmenter, events, turns, activeTurn, finals, loop, worker,
                                     window, commanded, lost, wakes>>
  BY DEF Abort
<1>2. SegmentTypes'
  BY <1>1, Known DEF SegmentTypes
<1>3. \A x \in spoken : Placed(x, commanded, lost, events, turns, TRUE)
  BY DEF Placed
<1>4. Staged(turns, activeTurn, finals, worker, TRUE) /\ EndsInOrder(loop, worker, finals, activeTurn, TRUE)
  BY Known DEF Staged, EndsInOrder
<1> QED
  BY <1>1, <1>2, <1>3, <1>4, Known DEF SegmentInv

\* A read fails.
LEMMA ReadStopped ==
  ASSUME SegmentInv, ReadStops
  PROVE  SegmentInv'
<1>1. /\ aborted' = TRUE /\ loop' = "failed"
      /\ UNCHANGED <<captured, spoken, segmenter, events, turns, activeTurn, finals, worker, window,
                     commanded, lost, wakes>>
  BY DEF ReadStops
<1>2. SegmentTypes'
  BY <1>1, Known DEF SegmentTypes
<1>3. \A x \in spoken : Placed(x, commanded, lost, events, turns, TRUE)
  BY DEF Placed
<1>4. Staged(turns, activeTurn, finals, worker, TRUE) /\ EndsInOrder("failed", worker, finals, activeTurn, TRUE)
  BY Known DEF Staged, EndsInOrder
<1>5. SegmenterOK(captured, segmenter, events, activeTurn, window, "failed")
  BY Known DEF SegmenterOK
<1> QED
  BY <1>1, <1>2, <1>3, <1>4, <1>5, Known DEF SegmentInv

\* The loop is over: whatever is in flight is closed.
LEMMA LoopClosed ==
  ASSUME SegmentInv, CloseLoop
  PROVE  SegmentInv'
<1>1. /\ loop = "failed" \/ (loop = "flushed" /\ events = <<>>)
      /\ loop' = "closed" /\ events' = <<>> /\ window' = FALSE /\ LeaveTurn(activeTurn)
      /\ UNCHANGED <<captured, spoken, segmenter, finals, worker, commanded, lost, aborted, wakes>>
  BY DEF CloseLoop
<1>2. /\ turns' \in Seq(HeldTurn) /\ Len(turns') = Len(turns) /\ activeTurn' = 0
      /\ Staged(turns', 0, finals, worker, aborted)
      /\ \A t \in 1 .. Len(turns) : turns'[t].audio = turns[t].audio
      /\ \A t \in 1 .. Len(turns) : t # activeTurn => turns'[t].at = turns[t].at
      /\ \A t \in 1 .. Len(turns) : t = activeTurn => turns'[t].at = "closed"
  BY <1>1, TurnLeft
<1>3. PICK us : us = turns'
  OBVIOUS
<1>4. SegmentTypes'
  <2>1. activeTurn' \in 0 .. Len(turns') /\ finals' \in Seq(1 .. Len(turns')) /\ worker' \in Gone .. Len(turns')
    BY <1>1, <1>2, Known, FramesKnown DEF SegmentTypes
  <2> QED
    BY <1>1, <1>2, <2>1, Known, FramesKnown DEF SegmentTypes
<1>5. /\ SegmenterOK(captured, segmenter, <<>>, 0, FALSE, "closed")
      /\ QuietBefore(spoken, segmenter, <<>>)
      /\ CapturedOnly(captured, spoken, commanded, segmenter, <<>>, turns)
  BY NothingHeld
<1>6. CapturedOnly(captured, spoken, commanded, segmenter, <<>>, us) /\ NoGaps(us)
  BY <1>2, <1>3, <1>5, Known, SameAudio
<1>7. InFlight(captured, segmenter, <<>>, us, 0)
  BY DEF InFlight
<1>8. Apart(commanded, segmenter, <<>>, us, 0)
  <2>1. \A t \in 1 .. Len(turns) : us[t].at \in Heeding => t # activeTurn /\ turns[t].at \in Heeding
    BY <1>2, <1>3 DEF Heeding
  <2>2. \A t \in 1 .. Len(turns) : us[t].at \in Heeding /\ t # 0 => FramesOf(us[t].audio) \cap FramesOf(segmenter.frames) = {}
    <3> SUFFICES ASSUME NEW t \in 1 .. Len(turns), us[t].at \in Heeding
                 PROVE  FramesOf(us[t].audio) \cap FramesOf(segmenter.frames) = {}
      OBVIOUS
    <3>1. FramesOf(turns[t].audio) \cap FramesOf(segmenter.frames) = {}
      BY <2>1, Known DEF Apart
    <3> QED
      BY <1>2, <1>3, <3>1
  <2>3. FramesOf(segmenter.prefix) \cup EventFrames(<<>>) \subseteq FramesOf(segmenter.prefix) \cup EventFrames(events)
    BY FramesKnown
  <2>4. /\ Len(us) = Len(turns) /\ \A t \in 1 .. Len(turns) : us[t].audio = turns[t].audio
        /\ \A t \in 1 .. Len(turns) : us[t].at \in Heeding => turns[t].at \in Heeding
    BY <1>2, <1>3, <2>1
  <2> QED
    BY <2>2, <2>3, <2>4, Known, ApartLess
<1>9. (\A x \in spoken : Placed(x, commanded, lost, <<>>, us, aborted)) /\ EndsInOrder("closed", worker, finals, 0, aborted)
  <2>1. CASE loop = "failed"
    <3>1. aborted
      BY <2>1, Known DEF EndsInOrder
    <3> QED
      BY <3>1 DEF Placed, EndsInOrder
  <2>2. CASE loop = "flushed" /\ events = <<>>
    <3>1. ~segmenter.active
      BY <2>2, Known DEF SegmenterOK
    <3>2. activeTurn = 0
      BY <2>2, <3>1, Known DEF InFlight
    <3>3. us = turns
      BY <1>1, <1>3, <3>2 DEF LeaveTurn
    <3>4. \A x \in spoken : Placed(x, commanded, lost, <<>>, us, aborted)
      BY <2>2, <3>3, Known
    <3>5. EndsInOrder("closed", worker, finals, 0, aborted)
      BY <2>2, Known DEF EndsInOrder
    <3> QED
      BY <3>4, <3>5
  <2> QED
    BY <1>1, <2>1, <2>2
<1> QED
  BY <1>1, <1>2, <1>3, <1>4, <1>5, <1>6, <1>7, <1>8, <1>9 DEF SegmentInv

\* The turn t of the worker is in another stage, where it is still listened to or given up.
LEMMA WorkedOn ==
  ASSUME SegmentInv, NEW t \in 1 .. Len(turns), turns[t].at \in {"queued", "finishing"},
         NEW at \in {"finishing", "finished", "dropped"}, turns' = [turns EXCEPT ![t].at = at],
         UNCHANGED <<captured, spoken, segmenter, events, activeTurn, loop, window, commanded, lost>>,
         aborted' \in BOOLEAN, aborted => aborted',
         finals' \in Seq(1 .. Len(turns)), worker' \in Gone .. Len(turns),
         Staged(turns', activeTurn, finals', worker', aborted'),
         EndsInOrder(loop, worker', finals', activeTurn, aborted')
  PROVE  SegmentInv'
<1>1. PICK us : us = turns'
  OBVIOUS
<1>2. turns \in Seq(HeldTurn)
  BY Known DEF SegmentTypes
<1>3. /\ us \in Seq(HeldTurn) /\ Len(us) = Len(turns) /\ us[t].at = at
      /\ \A u \in 1 .. Len(turns) : us[u].audio = turns[u].audio
      /\ \A u \in 1 .. Len(turns) : u # t => us[u].at = turns[u].at
  <2>1. Restaged(turns, [turns EXCEPT ![t].at = at], t, at)
    BY <1>2, TurnRestaged
  <2>2. Restaged(turns, us, t, at)
    BY <1>1, <2>1
  <2> QED
    BY <2>2 DEF Restaged
<1>4. SegmentTypes'
  <2>1. activeTurn' \in 0 .. Len(turns') /\ finals' \in Seq(1 .. Len(turns')) /\ worker' \in Gone .. Len(turns')
    BY <1>1, <1>3, Known DEF SegmentTypes
  <2> QED
    BY <1>1, <1>3, <2>1, Known DEF SegmentTypes
<1>5. CapturedOnly(captured, spoken, commanded, segmenter, events, us) /\ NoGaps(us)
  BY <1>3, Known, SameAudio
<1>6. \A u \in 1 .. Len(turns) :
         /\ us[u].at \in Heeding => turns[u].at \in Heeding
         /\ turns[u].at \in Heeding \cup {"dropped"} => us[u].at \in Heeding \cup {"dropped"}
  BY <1>3 DEF Heeding
<1>7. InFlight(captured, segmenter, events, us, activeTurn)
  <2> SUFFICES ASSUME activeTurn # 0
               PROVE  InFlight(captured, segmenter, events, us, activeTurn)
    BY DEF InFlight
  <2>1. activeTurn \in 1 .. Len(turns)
    BY Known, FramesKnown DEF SegmentTypes
  <2>2. activeTurn # t
    BY Known DEF InFlight
  <2>3. us[activeTurn].at = turns[activeTurn].at /\ us[activeTurn].audio = turns[activeTurn].audio
    BY <1>3, <2>1, <2>2
  <2> QED
    BY <2>3, Known DEF InFlight
<1>8. Apart(commanded, segmenter, events, us, activeTurn)
  <2>1. \A u \in 1 .. Len(turns) : us[u].at \in Heeding /\ u # activeTurn =>
           FramesOf(us[u].audio) \cap FramesOf(segmenter.frames) = {}
    <3> SUFFICES ASSUME NEW u \in 1 .. Len(turns), us[u].at \in Heeding, u # activeTurn
                 PROVE  FramesOf(us[u].audio) \cap FramesOf(segmenter.frames) = {}
      OBVIOUS
    <3>1. FramesOf(turns[u].audio) \cap FramesOf(segmenter.frames) = {}
      BY <1>6, Known DEF Apart
    <3> QED
      BY <1>3, <3>1
  <2>2. FramesOf(segmenter.prefix) \cup EventFrames(events) \subseteq FramesOf(segmenter.prefix) \cup EventFrames(events)
    OBVIOUS
  <2> QED
    BY <1>3, <1>6, <2>1, <2>2, Known, ApartLess
<1>9. \A x \in spoken : Placed(x, commanded, lost, events, us, aborted')
  <2> SUFFICES ASSUME NEW x \in spoken
               PROVE  Placed(x, commanded, lost, events, us, aborted')
    OBVIOUS
  <2>1. Placed(x, commanded, lost, events, turns, aborted)
    BY Known
  <2> QED
    BY <1>3, <1>6, <2>1 DEF Placed
<1> QED
  BY <1>1, <1>4, <1>5, <1>7, <1>8, <1>9, Known DEF SegmentInv

\* The worker takes the turn that waited longest.
LEMMA FinalTaken ==
  ASSUME SegmentInv, TakeFinal
  PROVE  SegmentInv'
<1>1. PICK h : h = Head(finals)
  OBVIOUS
<1>2. PICK fs : fs = Tail(finals)
  OBVIOUS
<1>3. /\ worker = 0 /\ finals # <<>> /\ worker' = h /\ finals' = fs
      /\ turns' = [turns EXCEPT ![h].at = "finishing"]
      /\ UNCHANGED <<captured, spoken, segmenter, events, activeTurn, loop, window, commanded, lost, aborted, wakes>>
  BY <1>1, <1>2 DEF TakeFinal
<1>4. /\ finals \in Seq(1 .. Len(turns)) /\ turns \in Seq(HeldTurn) /\ aborted \in BOOLEAN /\ Len(turns) \in Nat
      /\ Len(finals) \in Nat
  BY Known, FramesKnown DEF SegmentTypes
<1>5. /\ h \in 1 .. Len(turns) /\ h = finals[1] /\ 1 \in 1 .. Len(finals)
      /\ fs \in Seq(1 .. Len(turns)) /\ Len(fs) = Len(finals) - 1
      /\ \A i \in 1 .. Len(fs) : fs[i] = finals[i + 1]
  BY <1>1, <1>2, <1>3, <1>4, HeadTailProperties
<1>6. Staged(turns, activeTurn, finals, worker, aborted)
  BY Known
<1>7. turns[h].at = "queued" /\ \A i \in 1 .. Len(fs) : i + 1 \in 1 .. Len(finals) /\ i + 1 # 1
  <2>1. \A i \in 1 .. Len(finals) : turns[finals[i]].at = "queued"
    BY <1>6 DEF Staged
  <2>2. turns[h].at = "queued"
    BY <1>5, <2>1
  <2>3. \A i \in 1 .. Len(fs) : i + 1 \in 1 .. Len(finals) /\ i + 1 # 1
    <3>1. PICK n : n = Len(finals)
      OBVIOUS
    <3>2. PICK m : m = Len(fs)
      OBVIOUS
    <3>3. n \in Nat /\ m = n - 1
      BY <1>4, <1>5, <3>1, <3>2
    <3>4. \A i \in 1 .. m : i + 1 \in 1 .. n /\ i + 1 # 1
      BY <3>3
    <3> QED
      BY <3>1, <3>2, <3>4
  <2> QED
    BY <2>2, <2>3
<1>8. PICK us : us = turns'
  OBVIOUS
<1>9. /\ us \in Seq(HeldTurn) /\ Len(us) = Len(turns) /\ us[h].at = "finishing"
      /\ \A u \in 1 .. Len(turns) : u # h => us[u].at = turns[u].at
  <2>1. Restaged(turns, [turns EXCEPT ![h].at = "finishing"], h, "finishing")
    BY <1>4, <1>5, TurnRestaged
  <2>2. Restaged(turns, us, h, "finishing")
    BY <1>3, <1>8, <2>1
  <2> QED
    BY <2>2 DEF Restaged
<1>10. \A i \in 1 .. Len(fs) : fs[i] # h /\ fs[i] \in 1 .. Len(turns) /\ turns[fs[i]].at = "queued"
  <2> SUFFICES ASSUME NEW i \in 1 .. Len(fs)
               PROVE  fs[i] # h /\ fs[i] \in 1 .. Len(turns) /\ turns[fs[i]].at = "queued"
    OBVIOUS
  <2>1. PICK j \in 1 .. Len(finals) : j = i + 1 /\ j # 1 /\ fs[i] = finals[j]
    BY <1>5, <1>7
  <2>2. finals[j] # finals[1] /\ turns[finals[j]].at = "queued"
    BY <1>5, <1>6, <2>1 DEF Staged
  <2> QED
    BY <1>4, <1>5, <2>1, <2>2
<1>11. Staged(us, activeTurn, fs, h, aborted)
  <2>1. ASSUME NEW t \in 1 .. Len(us)
        PROVE  /\ us[t].at = "open" => t = activeTurn \/ aborted
               /\ us[t].at = "queued" => \E i \in 1 .. Len(fs) : fs[i] = t
               /\ us[t].at = "finishing" => t = h
    <3>1. CASE t = h
      BY <1>9, <3>1
    <3>2. CASE t # h
      <4>1. us[t].at = turns[t].at /\ t \in 1 .. Len(turns) /\ t # 0
        BY <1>4, <1>9, <3>2
      <4>2. us[t].at = "queued" => \E i \in 1 .. Len(fs) : fs[i] = t
        <5> SUFFICES ASSUME us[t].at = "queued"
                     PROVE  \E i \in 1 .. Len(fs) : fs[i] = t
          OBVIOUS
        <5>1. PICK j \in 1 .. Len(finals) : finals[j] = t
          BY <1>6, <4>1 DEF Staged
        <5>2. j # 1
          BY <1>5, <3>2, <5>1
        <5>3. PICK i : i = j - 1
          OBVIOUS
        <5>4. i \in 1 .. Len(fs) /\ i + 1 = j
          BY <1>4, <1>5, <5>2, <5>3
        <5> QED
          BY <1>5, <5>1, <5>4
      <4>3. us[t].at # "finishing"
        BY <1>3, <1>6, <4>1 DEF Staged
      <4> QED
        BY <1>6, <4>1, <4>2, <4>3 DEF Staged
    <3> QED
      BY <3>1, <3>2
  <2>2. \A i \in 1 .. Len(fs) : us[fs[i]].at = "queued"
    BY <1>9, <1>10
  <2>3. ASSUME NEW i \in 1 .. Len(fs), NEW j \in 1 .. Len(fs), fs[i] = fs[j]
        PROVE  i = j
    <3>1. i + 1 \in 1 .. Len(finals) /\ j + 1 \in 1 .. Len(finals) /\ finals[i + 1] = finals[j + 1]
      BY <1>5, <1>7, <2>3
    <3>2. i + 1 = j + 1
      BY <1>6, <3>1 DEF Staged
    <3> QED
      BY <1>4, <1>5, <3>2
  <2> QED
    BY <1>9, <2>1, <2>2, <2>3 DEF Staged
<1>12. EndsInOrder(loop, h, fs, activeTurn, aborted)
  <2>1. h # Gone
    BY <1>4, <1>5 DEF Gone
  <2> QED
    BY <2>1, Known DEF EndsInOrder
<1>13. h \in Gone .. Len(turns)
  BY <1>4, <1>5 DEF Gone
<1>14. /\ finals' \in Seq(1 .. Len(turns)) /\ worker' \in Gone .. Len(turns)
       /\ Staged(turns', activeTurn, finals', worker', aborted')
       /\ EndsInOrder(loop, worker', finals', activeTurn, aborted')
  BY <1>3, <1>5, <1>8, <1>11, <1>12, <1>13
<1> QED
  BY <1>3, <1>4, <1>5, <1>7, <1>14, WorkedOn

\* The worker is done with its turn.
LEMMA TurnFinished ==
  ASSUME SegmentInv, FinishTurn
  PROVE  SegmentInv'
<1>1. PICK w : w = worker
  OBVIOUS
<1>2. PICK at \in {"finished", "dropped"} :
         /\ turns' = [turns EXCEPT ![w].at = at]
         /\ \/ worker' = 0 /\ aborted' = aborted
            \/ worker' = Gone /\ aborted' = TRUE
  BY <1>1 DEF FinishTurn
<1>3. w > 0 /\ UNCHANGED <<captured, spoken, segmenter, events, activeTurn, finals, loop, window, commanded, lost, wakes>>
  BY <1>1 DEF FinishTurn
<1>4. /\ finals \in Seq(1 .. Len(turns)) /\ turns \in Seq(HeldTurn) /\ aborted \in BOOLEAN /\ Len(turns) \in Nat
      /\ w \in 1 .. Len(turns) /\ {0, Gone} \subseteq Gone .. Len(turns)
  BY <1>1, <1>3, Known, FramesKnown DEF SegmentTypes, Gone
<1>5. Staged(turns, activeTurn, finals, w, aborted) /\ turns[w].at = "finishing"
  BY <1>1, <1>3, Known DEF Staged
<1>6. PICK us : us = turns'
  OBVIOUS
<1>7. /\ us \in Seq(HeldTurn) /\ Len(us) = Len(turns) /\ us[w].at = at
      /\ \A u \in 1 .. Len(turns) : u # w => us[u].at = turns[u].at
  <2>1. Restaged(turns, [turns EXCEPT ![w].at = at], w, at)
    BY <1>4, TurnRestaged
  <2>2. Restaged(turns, us, w, at)
    BY <1>2, <1>6, <2>1
  <2> QED
    BY <2>2 DEF Restaged
<1>8. aborted' \in BOOLEAN /\ (aborted => aborted') /\ worker' \in Gone .. Len(turns) /\ ~(worker' > 0)
  <2>1. CASE worker' = 0 /\ aborted' = aborted
    <3>1. worker' \in Gone .. Len(turns) /\ ~(worker' > 0)
      BY <1>4, <2>1
    <3>2. aborted' \in BOOLEAN /\ (aborted => aborted')
      BY <1>4, <2>1
    <3> QED
      BY <3>1, <3>2
  <2>2. CASE worker' = Gone /\ aborted' = TRUE
    <3>1. worker' \in Gone .. Len(turns) /\ ~(worker' > 0)
      BY <1>4, <2>2 DEF Gone
    <3>2. aborted' \in BOOLEAN /\ (aborted => aborted')
      BY <2>2
    <3> QED
      BY <3>1, <3>2
  <2> QED
    BY <1>2, <2>1, <2>2
<1>9. Staged(us, activeTurn, finals, worker', aborted')
  <2>1. \A i \in 1 .. Len(finals) : finals[i] \in 1 .. Len(turns) /\ turns[finals[i]].at = "queued"
    BY <1>4, <1>5 DEF Staged
  <2>2. \A i \in 1 .. Len(finals) : us[finals[i]].at = "queued"
    <3> SUFFICES ASSUME NEW i \in 1 .. Len(finals)
                 PROVE  us[finals[i]].at = "queued"
      OBVIOUS
    <3>1. finals[i] # w
      BY <1>5, <2>1
    <3> QED
      BY <1>7, <2>1, <3>1
  <2>3. ASSUME NEW t \in 1 .. Len(us)
        PROVE  /\ us[t].at = "open" => t = activeTurn \/ aborted'
               /\ us[t].at = "queued" => \E i \in 1 .. Len(finals) : finals[i] = t
               /\ us[t].at = "finishing" => t = worker'
    <3>1. CASE t = w
      BY <1>7, <3>1
    <3>2. CASE t # w
      <4>1. us[t].at = turns[t].at /\ t \in 1 .. Len(turns)
        BY <1>7, <3>2
      <4> QED
        BY <1>5, <1>8, <3>2, <4>1 DEF Staged
    <3> QED
      BY <3>1, <3>2
  <2>4. \A i, j \in 1 .. Len(finals) : finals[i] = finals[j] => i = j
    BY <1>5 DEF Staged
  <2> QED
    BY <1>8, <2>2, <2>3, <2>4 DEF Staged
<1>10. EndsInOrder(loop, worker', finals, activeTurn, aborted')
  <2>1. (loop = "failed" => aborted) /\ (loop = "closed" => activeTurn = 0)
    BY Known DEF EndsInOrder
  <2>2. worker' = Gone => aborted'
    BY <1>2 DEF Gone
  <2> QED
    BY <1>8, <2>1, <2>2 DEF EndsInOrder
<1>11. /\ finals' \in Seq(1 .. Len(turns)) /\ Staged(turns', activeTurn, finals', worker', aborted')
       /\ EndsInOrder(loop, worker', finals', activeTurn, aborted')
  BY <1>3, <1>4, <1>6, <1>9, <1>10
<1> QED
  BY <1>2, <1>3, <1>4, <1>5, <1>8, <1>11, WorkedOn

\* The worker ends behind the loop.
LEMMA WorkerEnded ==
  ASSUME SegmentInv, WorkerEnds
  PROVE  SegmentInv'
<1>1. /\ worker = 0 /\ loop = "closed" /\ finals = <<>> /\ worker' = Gone
      /\ UNCHANGED <<captured, spoken, segmenter, events, turns, activeTurn, finals, loop, window, commanded,
                     lost, aborted, wakes>>
  BY DEF WorkerEnds
<1>2. Len(turns) \in Nat
  BY FramesKnown
<1>3. SegmentTypes'
  <2>1. Gone \in Gone .. Len(turns)
    BY <1>2 DEF Gone
  <2> QED
    BY <1>1, <2>1, Known DEF SegmentTypes
<1>4. Staged(turns, activeTurn, finals, Gone, aborted)
  <2>1. Staged(turns, activeTurn, finals, 0, aborted)
    BY <1>1, Known
  <2>2. \A t \in 1 .. Len(turns) : t # 0
    BY <1>2
  <2>3. \A t \in 1 .. Len(turns) : turns[t].at # "finishing"
    BY <2>1, <2>2 DEF Staged
  <2> QED
    BY <2>1, <2>3 DEF Staged, Gone
<1>5. EndsInOrder(loop, Gone, finals, activeTurn, aborted)
  BY <1>1, Known DEF EndsInOrder
<1> QED
  BY <1>1, <1>3, <1>4, <1>5, Known DEF SegmentInv

\* SegmentInv holds in the initial state.
LEMMA SegmentInvInit == SegmentationInit => SegmentInv
<1> SUFFICES ASSUME SegmentationInit
             PROVE  SegmentInv
  OBVIOUS
<1>1. /\ captured = 0 /\ spoken = {} /\ segmenter = Idle /\ events = <<>>
      /\ turns = <<>> /\ activeTurn = 0 /\ finals = <<>> /\ loop = "reading" /\ worker = 0
      /\ window = FALSE /\ commanded = {} /\ lost = {} /\ aborted = FALSE
  BY DEF SegmentationInit
<1>2. /\ DOMAIN Idle = {"active", "startedAt", "lastSpeech", "frames", "prefix"}
      /\ Idle.active = FALSE /\ Idle.frames = <<>> /\ Idle.prefix = <<>>
  BY DEF Idle
<1>3. Len(turns) = 0 /\ Len(finals) = 0 /\ Len(events) = 0 /\ FramesOf(<<>>) = {} /\ EventFrames(<<>>) = {}
  BY <1>1 DEF FramesOf, EventFrames
<1>4. SegmentTypes
  <2>1. <<>> \in Seq(HeldEvent) /\ <<>> \in Seq(HeldTurn) /\ <<>> \in Seq(1 .. Len(turns)) /\ <<>> \in Seq(Nat)
    OBVIOUS
  <2>2. captured \in Nat /\ spoken \in SUBSET Nat /\ commanded \in SUBSET Nat /\ lost \in SUBSET Nat
    BY <1>1
  <2>3. /\ DOMAIN segmenter = {"active", "startedAt", "lastSpeech", "frames", "prefix"}
        /\ segmenter.active \in BOOLEAN /\ segmenter.frames \in Seq(Nat) /\ segmenter.prefix \in Seq(Nat)
    BY <1>1, <1>2, <2>1
  <2>4. events \in Seq(HeldEvent) /\ turns \in Seq(HeldTurn) /\ finals \in Seq(1 .. Len(turns))
    BY <1>1, <2>1
  <2>5. /\ activeTurn \in 0 .. Len(turns) /\ loop \in {"reading", "flushed", "failed", "closed"}
        /\ worker \in Gone .. Len(turns) /\ window \in BOOLEAN /\ aborted \in BOOLEAN
    <3>1. worker \in Gone .. Len(turns) /\ activeTurn \in 0 .. Len(turns)
      BY <1>1, <1>3 DEF Gone
    <3>2. loop \in {"reading", "flushed", "failed", "closed"} /\ window \in BOOLEAN /\ aborted \in BOOLEAN
      BY <1>1
    <3> QED
      BY <3>1, <3>2
  <2> QED
    BY <2>2, <2>3, <2>4, <2>5 DEF SegmentTypes
<1>5. CapturedOnly(captured, spoken, commanded, segmenter, events, turns)
  BY <1>1, <1>2, <1>3 DEF CapturedOnly
<1>6. QuietBefore(spoken, segmenter, events)
  BY <1>1, <1>2, <1>3 DEF QuietBefore
<1>7. SegmenterOK(captured, segmenter, events, activeTurn, window, loop)
  BY <1>1, <1>2 DEF SegmenterOK, RunTo
<1>8. InFlight(captured, segmenter, events, turns, activeTurn)
  BY <1>1 DEF InFlight
<1>9. Apart(commanded, segmenter, events, turns, activeTurn)
  BY <1>1, <1>2, <1>3 DEF Apart
<1>10. \A x \in spoken : Placed(x, commanded, lost, events, turns, aborted)
  BY <1>1
<1>11. NoGaps(turns)
  BY <1>3 DEF NoGaps
<1>12. Staged(turns, activeTurn, finals, worker, aborted)
  BY <1>1, <1>3 DEF Staged
<1>13. EndsInOrder(loop, worker, finals, activeTurn, aborted)
  BY <1>1 DEF EndsInOrder, Gone
<1> QED
  BY <1>4, <1>5, <1>6, <1>7, <1>8, <1>9, <1>10, <1>11, <1>12, <1>13 DEF SegmentInv

\* SegmentInv is inductive.
LEMMA SegmentInvStep == SegmentInv /\ [SegmentationNext]_segmentVars => SegmentInv'
<1> SUFFICES ASSUME SegmentInv, [SegmentationNext]_segmentVars
             PROVE  SegmentInv'
  OBVIOUS
<1>1. CASE \E speech \in BOOLEAN : ReadFrame(speech)
  BY <1>1, FrameRead
<1>2. CASE OpenCommandWindow
  BY <1>2, CommandOpened
<1>3. CASE CloseWindow
  BY <1>3, WindowClosed
<1>4. CASE EndOfStream
  BY <1>4, StreamEnded
<1>5. CASE HandleOpened
  BY <1>5, OpenedHandled
<1>6. CASE HandleAudio
  BY <1>6, AudioHandled
<1>7. CASE HandleFinal
  BY <1>7, FinalHandled
<1>8. CASE Abort
  BY <1>8, SessionAborted
<1>9. CASE ReadStops
  BY <1>9, ReadStopped
<1>10. CASE CloseLoop
  BY <1>10, LoopClosed
<1>11. CASE TakeFinal
  BY <1>11, FinalTaken
<1>12. CASE FinishTurn
  BY <1>12, TurnFinished
<1>13. CASE WorkerEnds
  BY <1>13, WorkerEnded
<1>14. CASE UNCHANGED segmentVars
  BY <1>14 DEF SegmentInv, SegmentTypes, segmentVars
<1> QED
  BY <1>1, <1>2, <1>3, <1>4, <1>5, <1>6, <1>7, <1>8, <1>9, <1>10, <1>11, <1>12, <1>13, <1>14 DEF SegmentationNext

\* A frame that was said has one listener.
LEMMA ListenerKnown ==
  ASSUME SegmentInv
  PROVE  OneListener
<1> SUFFICES ASSUME NEW f \in spoken
             PROVE  LET heard == Hearing(f, {"open", "queued", "finishing", "finished"})
                    IN  /\ Cardinality(heard) + (IF f \in commanded THEN 1 ELSE 0) <= 1
                        /\ \/ heard # {} \/ f \in commanded \/ f \in lost \/ Hearing(f, {"dropped"}) # {}
                           \/ Waiting(f) \/ aborted
  BY DEF OneListener
<1>1. /\ turns \in Seq(HeldTurn) /\ events \in Seq(HeldEvent)
      /\ DOMAIN turns = 1 .. Len(turns) /\ DOMAIN events = 1 .. Len(events)
  BY Known, LenProperties DEF SegmentTypes
<1>0. \A s \in Seq(Nat) : ToSet(s) = FramesOf(s)
  BY DEF ToSet, FramesOf
<1>2. \A t \in 1 .. Len(turns) : ToSet(turns[t].audio) = FramesOf(turns[t].audio)
  <2>1. \A t \in 1 .. Len(turns) : turns[t].audio \in Seq(Nat)
    BY FramesKnown
  <2> QED
    BY <1>0, <2>1
<1>3. \A k \in 1 .. Len(events) : ToSet(events[k].frames) = FramesOf(events[k].frames)
  <2>1. \A k \in 1 .. Len(events) : events[k] \in HeldEvent
    BY <1>1
  <2>2. \A k \in 1 .. Len(events) : events[k].frames \in Seq(Nat)
    BY <2>1 DEF HeldEvent
  <2> QED
    BY <1>0, <2>2
<1>4. PICK heard : heard = Hearing(f, {"open", "queued", "finishing", "finished"})
  OBVIOUS
<1>5. heard = {t \in 1 .. Len(turns) : turns[t].at \in Heeding /\ f \in FramesOf(turns[t].audio)}
  BY <1>1, <1>2, <1>4 DEF Hearing, Heeding
<1>6. f \in commanded => heard = {}
  BY <1>5, Known DEF Apart
<1>7. \A t, u \in heard : t = u
  <2> SUFFICES ASSUME NEW t \in heard, NEW u \in heard, t # u
               PROVE  FALSE
    OBVIOUS
  <2>1. FramesOf(turns[t].audio) \cap FramesOf(turns[u].audio) = {}
    BY <1>5, Known DEF Apart
  <2> QED
    BY <1>5, <2>1
<1>8. Cardinality(heard) + (IF f \in commanded THEN 1 ELSE 0) <= 1
  <2>1. CASE heard = {}
    <3>1. Cardinality(heard) = 0
      BY <2>1, FS_EmptySet
    <3> QED
      BY <3>1
  <2>2. CASE heard # {}
    <3>1. PICK t : t \in heard
      BY <2>2
    <3>2. heard = {t}
      BY <1>7, <3>1
    <3>3. Cardinality(heard) = 1
      BY <3>2, FS_Singleton
    <3> QED
      BY <1>6, <2>2, <3>3
  <2> QED
    BY <2>1, <2>2
<1>9. \/ heard # {} \/ f \in commanded \/ f \in lost \/ Hearing(f, {"dropped"}) # {}
      \/ Waiting(f) \/ aborted
  <2>1. Placed(f, commanded, lost, events, turns, aborted)
    BY Known
  <2>2. f \in EventFrames(events) => Waiting(f)
    BY <1>1, <1>3 DEF EventFrames, Waiting
  <2>3. CASE \E t \in 1 .. Len(turns) : turns[t].at \in Heeding \cup {"dropped"} /\ f \in FramesOf(turns[t].audio)
    <3>1. PICK t \in 1 .. Len(turns) : turns[t].at \in Heeding \cup {"dropped"} /\ f \in FramesOf(turns[t].audio)
      BY <2>3
    <3>2. CASE turns[t].at \in Heeding
      BY <1>5, <3>1, <3>2
    <3>3. CASE turns[t].at = "dropped"
      <4>1. t \in Hearing(f, {"dropped"})
        BY <1>1, <1>2, <3>1, <3>3 DEF Hearing
      <4> QED
        BY <4>1
    <3> QED
      BY <3>1, <3>2, <3>3
  <2> QED
    BY <2>1, <2>2, <2>3 DEF Placed
<1> QED
  BY <1>4, <1>8, <1>9

\* SegmentInv contains the property.
LEMMA SegmentInvSuffices == SegmentInv => SpeechHeardOnce
<1> SUFFICES ASSUME SegmentInv
             PROVE  SpeechHeardOnce
  OBVIOUS
<1>1. turns \in Seq(HeldTurn) /\ DOMAIN turns = 1 .. Len(turns) /\ Len(turns) \in Nat
  BY Known, LenProperties DEF SegmentTypes
<1>2. OneListener
  BY ListenerKnown
<1>3. Gapless
  BY <1>1, Known DEF NoGaps, Gapless
<1>4. NothingLeft
  <2> SUFFICES ASSUME worker = Gone, ~aborted, NEW t \in 1 .. Len(turns)
               PROVE  turns[t].at \in {"finished", "dropped", "closed"}
    BY <1>1 DEF NothingLeft
  <2>1. loop = "closed" /\ finals = <<>> /\ activeTurn = 0
    BY Known DEF EndsInOrder
  <2>2. Len(finals) = 0 /\ t > 0 /\ t # worker
    BY <1>1, <2>1 DEF Gone
  <2>3. turns[t].at \notin {"open", "queued", "finishing"}
    BY <2>1, <2>2, Known DEF Staged
  <2>4. turns[t] \in HeldTurn
    BY <1>1
  <2> QED
    BY <2>3, <2>4 DEF HeldTurn
<1> QED
  BY <1>2, <1>3, <1>4 DEF SpeechHeardOnce

\* What is said reaches one listener, whole and in order, and is heard to its end
\* (segment/service.go Run, vad/segmenter.go): for every pause, cut, padding and room of the queue.
THEOREM SpeechHeardOnceHolds == SegmentationSpec => []SpeechHeardOnce
<1>1. SegmentationInit => SegmentInv
  BY SegmentInvInit
<1>2. SegmentInv /\ [SegmentationNext]_segmentVars => SegmentInv'
  BY SegmentInvStep
<1>3. SegmentInv => SpeechHeardOnce
  BY SegmentInvSuffices
<1> QED
  BY <1>1, <1>2, <1>3, PTL DEF SegmentationSpec
=============================================================================
