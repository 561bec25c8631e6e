----------------------------- MODULE Api_proofs -----------------------------
(***************************************************************************)
(* What the API process promises of its rows, and the web page of the      *)
(* sessions it asks the API for and of the configuration it edits, for     *)
(* every number of requests, workers, devices, writers, starts and         *)
(* updates: delivery, devices, bindings, accounts, language                *)
(* configurations, corrections of speakers, the voice page.                *)
(***************************************************************************)
EXTENDS Delivery, Devices, LanguageConfigs, Accounts, Records, VoicePage,
        VoiceConfig, FiniteSetTheorems, SequenceTheorems, TLAPS

-----------------------------------------------------------------------------
(* Delivery.  An attempt is in the hands of one worker between its claim and *)
(* the answer of the provider; what a retry leaves behind was never accepted. *)

WorkerRecord ==
    [at : Places, entry : Entries \cup {Nothing}, receipt : BOOLEAN,
     seen : [status : {"queued", "sending"}, claims : Nat] \cup {Nothing},
     fresh : BOOLEAN, outcome : Outcomes \cup {Nothing}]

DeliveryTypes ==
    /\ message \in [Messages -> [status : {"none"} \cup Open \cup FinishedStatuses,
                                 attempts : Nat, unknown : BOOLEAN]]
    /\ attempt \in [Attempts -> [status : {"none", "queued", "sending", "succeeded", "failed"},
                                 claims : Nat, stale : BOOLEAN]]
    /\ worker \in [Workers -> WorkerRecord]
    /\ accepted \in [Attempts -> Nat]

\* A worker at work has an entry, and one that settles an attempt an outcome.
WorkerKnows ==
    \A w \in Workers :
        /\ worker[w].at # "idle" => worker[w].entry \in Entries
        /\ worker[w].at = "reconcile" => /\ worker[w].outcome \in {"succeeded", "failed"}
                                         /\ attempt[AttemptOf(w)].status # "none"
        /\ worker[w].at = "complete" => worker[w].outcome \in Outcomes

\* A worker that claimed the attempt and has not handed it to the provider, or was refused.
Holds(w) == \/ worker[w].at \in {"prepare", "send", "requeue"}
            \/ worker[w].at = "complete" /\ worker[w].outcome = "failed"

OneHolder ==
    \A v, w \in Workers : Holds(v) /\ Holds(w) /\ AttemptOf(v) = AttemptOf(w) => v = w

Unclaimed(a) == attempt[a].status \in {"none", "queued"}

\* No later worker can claim what one holds or the provider has accepted.
HeldUnsent ==
    \A w \in Workers : Holds(w) => /\ AttemptOf(w) \in Attempts /\ ~Unclaimed(AttemptOf(w))
                                   /\ accepted[AttemptOf(w)] = 0
AcceptedClosed ==
    \A a \in Attempts : accepted[a] \in {0, 1} /\ (accepted[a] = 1 => ~Unclaimed(a))

\* A retry supersedes the attempts before it, and may supersede the last one.
Superseded(a) == \/ a[2] < message[a[1]].attempts
                 \/ Retryable(a[1]) /\ a[2] = message[a[1]].attempts

SupersededUnsent ==
    \A a \in Attempts : Superseded(a) =>
        accepted[a] = 0 /\ \A w \in Workers : Holds(w) => AttemptOf(w) # a

\* Only the last attempt of an open message is under way.
LastOpen ==
    /\ \A m \in Messages : message[m].status = "none" => message[m].attempts = 0
    /\ \A a \in Attempts : a[2] > message[a[1]].attempts => attempt[a].status = "none"
    /\ \A a \in Attempts : attempt[a].status \in {"queued", "sending"} =>
          a[2] = message[a[1]].attempts /\ message[a[1]].status \in Open

DeliveryFacts == WorkerKnows /\ OneHolder /\ HeldUnsent /\ AcceptedClosed
                 /\ SupersededUnsent /\ LastOpen
DeliveryInv == DeliveryTypes /\ DeliveryFacts

\* Attempts and stream entries are pairs, and their parts are found again.
LEMMA AttemptsPairs ==
  /\ \A a \in Attempts : a[1] \in Messages /\ a[2] \in 1 .. MaxAttempts
  /\ \A a, b \in Attempts : a[1] = b[1] /\ a[2] = b[2] => a = b
  /\ \A m \in Messages, n \in 1 .. MaxAttempts :
        <<m, n>> \in Attempts /\ <<m, n>>[1] = m /\ <<m, n>>[2] = n
  /\ \A e \in Entries : e[1] \in Attempts
BY DEF Attempts, Entries

\* Every initial state satisfies the delivery invariant.
LEMMA DeliveryInitInv == DeliveryInit => DeliveryInv
<1> SUFFICES ASSUME DeliveryInit PROVE DeliveryInv
  OBVIOUS
<1> USE DEF DeliveryInit
<1>1. DeliveryTypes
  <2>1. IdleWorker \in WorkerRecord
    BY DEF IdleWorker, WorkerRecord, Places
  <2> QED BY <2>1 DEF DeliveryTypes
<1>2. \A w \in Workers : worker[w].at = "idle"
  BY DEF IdleWorker
<1>3. WorkerKnows /\ OneHolder /\ HeldUnsent
  BY <1>2 DEF WorkerKnows, OneHolder, HeldUnsent, Holds
<1>4. AcceptedClosed /\ SupersededUnsent
  BY <1>2, AttemptsPairs DEF AcceptedClosed, SupersededUnsent, Superseded, Holds, Retryable
<1>5. LastOpen
  BY AttemptsPairs DEF LastOpen
<1> QED BY <1>1, <1>3, <1>4, <1>5 DEF DeliveryInv, DeliveryFacts

-----------------------------------------------------------------------------
\* What a step does to claims, answers and retries.

HoldersKept == \A w \in Workers : Holds(w)' => Holds(w) /\ AttemptOf(w)' = AttemptOf(w)
HoldersLess(w) == ~Holds(w)' /\ HoldersKept

\* Attempts may become terminal, by reconciliation.
StatusKept == \A a \in Attempts : \/ attempt'[a].status = attempt[a].status
                                  \/ /\ attempt[a].status # "none"
                                     /\ attempt'[a].status \in {"succeeded", "failed"}
MessageKept == message' = message

Quiet == HoldersKept /\ StatusKept /\ MessageKept /\ accepted' = accepted

OtherAttempts(a) == \A b \in Attempts : b # a => attempt'[b].status = attempt[b].status

Begins(a) ==
    LET m == a[1] IN
    /\ message[m].status = "none" \/ Retryable(m)
    /\ a[2] = message[m].attempts + 1 /\ attempt'[a].status = "queued" /\ OtherAttempts(a)
    /\ message'[m].attempts = a[2] /\ message'[m].status \in Open
    /\ \A k \in Messages : k # m => message'[k] = message[k]
    /\ HoldersKept /\ accepted' = accepted

Claims(w) ==
    LET a == AttemptOf(w) IN
    /\ a \in Attempts /\ attempt[a].status = "queued" /\ attempt'[a].status = "sending"
    /\ OtherAttempts(a) /\ MessageKept /\ accepted' = accepted
    /\ AttemptOf(w)' = a
    /\ \A v \in Workers : v # w => Holds(v)' = Holds(v) /\ AttemptOf(v)' = AttemptOf(v)

HandsOver(w) ==
    LET a == AttemptOf(w) IN
    /\ a \in Attempts /\ Holds(w) /\ HoldersLess(w)
    /\ accepted' = [accepted EXCEPT ![a] = @ + 1] /\ StatusKept /\ MessageKept

RecordsOutcome(w) ==
    LET a == AttemptOf(w)  m == a[1] IN
    /\ a \in Attempts /\ HoldersLess(w) /\ accepted' = accepted
    /\ attempt[a].status = "sending" /\ attempt'[a].status \in {"succeeded", "failed"}
    /\ OtherAttempts(a)
    /\ message'[m].status \in FinishedStatuses /\ message'[m].attempts = message[m].attempts
    /\ \A k \in Messages : k = m /\ Retryable(k)' => Holds(w)
    /\ \A k \in Messages : k # m => message'[k] = message[k]

Returns(w) ==
    LET a == AttemptOf(w) IN
    /\ a \in Attempts /\ Holds(w) /\ HoldersLess(w)
    /\ attempt[a].status = "sending" /\ attempt'[a].status = "queued"
    /\ OtherAttempts(a) /\ MessageKept /\ accepted' = accepted

DeliveryMoves ==
    \/ Quiet
    \/ \E a \in Attempts : Begins(a)
    \/ \E w \in Workers : Claims(w) \/ HandsOver(w) \/ RecordsOutcome(w) \/ Returns(w)

\* A step that is one of the moves keeps the facts about claims, holders and
\* attempts.
LEMMA DeliveryMove ==
  ASSUME DeliveryTypes, DeliveryFacts, DeliveryMoves, DeliveryTypes', WorkerKnows'
  PROVE  DeliveryFacts'
<1> USE DEF DeliveryFacts
<1>0. /\ \A m \in Messages : message[m].attempts \in Nat /\ message'[m].attempts \in Nat
      /\ \A a \in Attempts : a[1] \in Messages /\ a[2] \in Nat
  BY AttemptsPairs, DeliveryAssumption DEF DeliveryTypes
<1>1. CASE Quiet
  <2> USE <1>1 DEF Quiet, HoldersKept, StatusKept, MessageKept
  <2>1. OneHolder' /\ HeldUnsent' /\ AcceptedClosed'
    BY DEF OneHolder, HeldUnsent, AcceptedClosed, Unclaimed
  <2>2. SupersededUnsent'
    BY DEF SupersededUnsent, Superseded, Retryable
  <2>3. LastOpen'
    BY DEF LastOpen
  <2> QED BY <2>1, <2>2, <2>3
<1>2. ASSUME NEW a \in Attempts, Begins(a) PROVE DeliveryFacts'
  <2> USE <1>2 DEF Begins, HoldersKept, OtherAttempts
  <2>1. attempt[a].status = "none" /\ accepted[a] = 0
    <3>1. a[2] > message[a[1]].attempts
      BY <1>0
    <3>2. attempt[a].status = "none"
      BY <3>1 DEF LastOpen
    <3> QED BY <3>2 DEF AcceptedClosed, Unclaimed
  <2>2. OneHolder'
    BY DEF OneHolder
  <2>3. HeldUnsent' /\ AcceptedClosed'
    BY <2>1 DEF HeldUnsent, AcceptedClosed, Unclaimed
  <2>4. SupersededUnsent'
    <3>1. \A b \in Attempts : Superseded(b)' => Superseded(b) \/ b = a
      BY SMTT(40), <1>0, AttemptsPairs DEF Superseded, Retryable, LastOpen, Open
    <3>2. ~Superseded(a)'
      BY <1>0 DEF Superseded, Retryable, Open
    <3> QED BY <3>1, <3>2 DEF SupersededUnsent
  <2>5. LastOpen'
    BY <2>1, <1>0, AttemptsPairs DEF LastOpen, Retryable, Open
  <2> QED BY <2>2, <2>3, <2>4, <2>5
<1>3. ASSUME NEW w \in Workers, Claims(w) PROVE DeliveryFacts'
  <2> USE <1>3 DEF Claims, OtherAttempts, MessageKept
  <2>1. OneHolder'
    BY DEF OneHolder, HeldUnsent, Unclaimed
  <2>2. HeldUnsent' /\ AcceptedClosed'
    BY <1>0 DEF HeldUnsent, AcceptedClosed, Unclaimed
  <2>3. SupersededUnsent'
    <3>1. ~Superseded(AttemptOf(w))
      BY <1>0 DEF Superseded, Retryable, LastOpen, Open
    <3> QED BY <3>1 DEF SupersededUnsent, Superseded, Retryable
  <2>4. LastOpen'
    BY DEF LastOpen
  <2> QED BY <2>1, <2>2, <2>3, <2>4
<1>4. ASSUME NEW w \in Workers, HandsOver(w) PROVE DeliveryFacts'
  <2> USE <1>4 DEF HandsOver, HoldersLess, HoldersKept, StatusKept, MessageKept
  <2> PICK a \in Attempts : a = AttemptOf(w)
    OBVIOUS
  <2>0. accepted'[a] = 1 /\ \A b \in Attempts : b # a => accepted'[b] = accepted[b]
    BY DEF HeldUnsent, DeliveryTypes
  <2>1. OneHolder' /\ HeldUnsent' /\ AcceptedClosed'
    BY <2>0 DEF OneHolder, HeldUnsent, AcceptedClosed, Unclaimed
  <2>2. SupersededUnsent'
    BY <2>0 DEF SupersededUnsent, Superseded, Retryable
  <2>3. LastOpen'
    BY DEF LastOpen
  <2> QED BY <2>1, <2>2, <2>3
<1>5. ASSUME NEW w \in Workers, RecordsOutcome(w) PROVE DeliveryFacts'
  <2> USE <1>5 DEF RecordsOutcome, HoldersLess, HoldersKept, OtherAttempts
  <2>1. OneHolder' /\ HeldUnsent' /\ AcceptedClosed'
    BY DEF OneHolder, HeldUnsent, AcceptedClosed, Unclaimed
  <2>2. SupersededUnsent'
    <3> PICK a \in Attempts : a = AttemptOf(w)
      OBVIOUS
    <3>1. \A b \in Attempts : Superseded(b)' => Superseded(b) \/ b = a
      BY <1>0, AttemptsPairs DEF Superseded, Retryable, LastOpen
    <3>2. Superseded(a)' => Holds(w)
      BY <1>0 DEF Superseded, LastOpen
    <3> QED BY <3>1, <3>2 DEF SupersededUnsent, OneHolder, HeldUnsent
  <2>3. LastOpen'
    BY AttemptsPairs DEF LastOpen, Open, FinishedStatuses
  <2> QED BY <2>1, <2>2, <2>3
<1>6. ASSUME NEW w \in Workers, Returns(w) PROVE DeliveryFacts'
  <2> USE <1>6 DEF Returns, HoldersLess, HoldersKept, OtherAttempts, MessageKept
  <2>1. OneHolder' /\ HeldUnsent' /\ AcceptedClosed'
    BY DEF OneHolder, HeldUnsent, AcceptedClosed, Unclaimed
  <2>2. SupersededUnsent'
    BY DEF SupersededUnsent, Superseded, Retryable
  <2>3. LastOpen'
    BY DEF LastOpen
  <2> QED BY <2>1, <2>2, <2>3
<1> QED BY <1>1, <1>2, <1>3, <1>4, <1>5, <1>6 DEF DeliveryMoves

-----------------------------------------------------------------------------
\* Every action is such a move.

DeliveryStepOK == DeliveryTypes' /\ WorkerKnows' /\ DeliveryMoves

OthersKept(w) == \A v \in Workers : v # w => worker'[v] = worker[v]
RowsKept == message' = message /\ attempt' = attempt /\ accepted' = accepted
Unclaimant(w) ==
    \/ worker[w].at \in {"idle", "read", "claim", "ack", "nack"}
    \/ worker[w].at = "complete" /\ worker[w].outcome = "unknown"

\* How a worker's record may be written.
LEMMA WorkerWrites ==
  ASSUME worker \in [Workers -> WorkerRecord], NEW w \in Workers
  PROVE  /\ \A place \in Places :
               worker' = [worker EXCEPT ![w].at = place] =>
                  /\ worker' \in [Workers -> WorkerRecord] /\ OthersKept(w)
                  /\ worker'[w].at = place /\ worker'[w].entry = worker[w].entry
                  /\ worker'[w].outcome = worker[w].outcome
         /\ \A place \in Places, outcome \in Outcomes :
               worker' = [worker EXCEPT ![w].at = place, ![w].outcome = outcome] =>
                  /\ worker' \in [Workers -> WorkerRecord] /\ OthersKept(w)
                  /\ worker'[w].at = place /\ worker'[w].entry = worker[w].entry
                  /\ worker'[w].outcome = outcome
         /\ \A place \in Places, fresh \in BOOLEAN :
               worker' = [worker EXCEPT ![w].at = place, ![w].fresh = fresh] =>
                  /\ worker' \in [Workers -> WorkerRecord] /\ OthersKept(w)
                  /\ worker'[w].at = place /\ worker'[w].entry = worker[w].entry
         /\ \A r \in WorkerRecord :
               worker' = [worker EXCEPT ![w] = r] =>
                  worker' \in [Workers -> WorkerRecord] /\ OthersKept(w) /\ worker'[w] = r
<1> DEFINE P == Places  E == Entries \cup {Nothing}  O == Outcomes \cup {Nothing}
           S == [status : {"queued", "sending"}, claims : Nat] \cup {Nothing}
<1>1. WorkerRecord = [at : P, entry : E, receipt : BOOLEAN, seen : S, fresh : BOOLEAN, outcome : O]
  BY DEF WorkerRecord
<1>2. \A outcome \in Outcomes : outcome \in O
  OBVIOUS
<1> HIDE DEF P, E, O, S
<1>3. \A place \in P : worker' = [worker EXCEPT ![w].at = place] =>
         /\ worker' \in [Workers -> WorkerRecord] /\ OthersKept(w)
         /\ worker'[w].at = place /\ worker'[w].entry = worker[w].entry
         /\ worker'[w].outcome = worker[w].outcome
  BY <1>1 DEF OthersKept
<1>4. \A place \in P, outcome \in O :
         worker' = [worker EXCEPT ![w].at = place, ![w].outcome = outcome] =>
            /\ worker' \in [Workers -> WorkerRecord] /\ OthersKept(w)
            /\ worker'[w].at = place /\ worker'[w].entry = worker[w].entry
            /\ worker'[w].outcome = outcome
  <2> TAKE place \in P, outcome \in O
  <2> HAVE worker' = [worker EXCEPT ![w].at = place, ![w].outcome = outcome]
  <2> DEFINE r == [worker[w] EXCEPT !.at = place, !.outcome = outcome]
  <2>1. worker[w] \in WorkerRecord
    OBVIOUS
  <2>2. r \in WorkerRecord /\ r.at = place /\ r.entry = worker[w].entry /\ r.outcome = outcome
    BY <2>1, <1>1
  <2>3. worker' = [worker EXCEPT ![w] = r]
    OBVIOUS
  <2> QED BY <2>2, <2>3 DEF OthersKept
<1>5. \A place \in P, fresh \in BOOLEAN :
         worker' = [worker EXCEPT ![w].at = place, ![w].fresh = fresh] =>
            /\ worker' \in [Workers -> WorkerRecord] /\ OthersKept(w)
            /\ worker'[w].at = place /\ worker'[w].entry = worker[w].entry
  <2> TAKE place \in P, fresh \in BOOLEAN
  <2> HAVE worker' = [worker EXCEPT ![w].at = place, ![w].fresh = fresh]
  <2> DEFINE r == [worker[w] EXCEPT !.at = place, !.fresh = fresh]
  <2>1. worker[w] \in WorkerRecord
    OBVIOUS
  <2>2. r \in WorkerRecord /\ r.at = place /\ r.entry = worker[w].entry /\ r.fresh = fresh
    BY <2>1, <1>1
  <2>3. worker' = [worker EXCEPT ![w] = r]
    OBVIOUS
  <2> QED BY <2>2, <2>3 DEF OthersKept
<1>6. \A r \in WorkerRecord : worker' = [worker EXCEPT ![w] = r] =>
         worker' \in [Workers -> WorkerRecord] /\ OthersKept(w) /\ worker'[w] = r
  BY DEF OthersKept
<1> QED BY <1>2, <1>3, <1>4, <1>5, <1>6 DEF P

\* A step of a worker that writes no row and claims nothing.
LEMMA WorkerWanders ==
  ASSUME DeliveryInv, NEW w \in Workers,
         worker' \in [Workers -> WorkerRecord], OthersKept(w), RowsKept,
         worker'[w].at # "idle" => worker'[w].entry \in Entries,
         \/ Unclaimant(w)'
         \/ /\ Holds(w) /\ worker'[w].entry = worker[w].entry
            /\ \/ worker'[w].at \in {"send", "requeue"}
               \/ worker'[w].at = "complete" /\ worker'[w].outcome \in Outcomes
               \/ worker'[w].at = "reconcile" /\ worker'[w].outcome \in {"succeeded", "failed"}
  PROVE  DeliveryStepOK
<1> USE DEF DeliveryInv, DeliveryFacts, RowsKept, OthersKept, Unclaimant
<1>1. DeliveryTypes'
  BY DEF DeliveryTypes
<1>2. WorkerKnows'
  BY DEF WorkerKnows, HeldUnsent, Unclaimed, AttemptOf, Outcomes
<1>3. HoldersKept
  BY DEF HoldersKept, Holds, AttemptOf
<1>4. DeliveryMoves
  BY <1>3 DEF DeliveryMoves, Quiet, StatusKept, MessageKept
<1> QED BY <1>1, <1>2, <1>4 DEF DeliveryStepOK

\* WorkerWanders for the ways in which a worker leaves a receipt.
LEMMA WorkerSettles ==
  ASSUME DeliveryInv, NEW w \in Workers, worker[w].at # "idle", RowsKept,
         WorkerLeaves(w) \/ \E place \in {"ack", "nack", "claim"} : WorkerGoes(w, place)
  PROVE  DeliveryStepOK
<1> USE DEF DeliveryInv, DeliveryFacts
<1>1. CASE WorkerLeaves(w)
  <2>1. IdleWorker \in WorkerRecord /\ IdleWorker.at = "idle"
    BY DEF IdleWorker, WorkerRecord, Places
  <2>2. worker' \in [Workers -> WorkerRecord] /\ OthersKept(w) /\ worker'[w] = IdleWorker
    BY <1>1, <2>1, WorkerWrites DEF WorkerLeaves, DeliveryTypes
  <2> QED BY <2>1, <2>2, WorkerWanders DEF Unclaimant
<1>2. ASSUME NEW place \in {"ack", "nack", "claim"}, WorkerGoes(w, place) PROVE DeliveryStepOK
  <2>1. place \in Places
    BY DEF Places
  <2>2. /\ worker' \in [Workers -> WorkerRecord] /\ OthersKept(w)
        /\ worker'[w].at = place /\ worker'[w].entry = worker[w].entry
    BY <1>2, <2>1, WorkerWrites DEF WorkerGoes, DeliveryTypes
  <2> QED BY <2>2, WorkerWanders DEF Unclaimant, WorkerKnows
<1> QED BY <1>1, <1>2

\* Steps of the dispatcher, and of the clock.
LEMMA WorkersRest ==
  ASSUME DeliveryInv, worker' = worker, message' = message, accepted' = accepted, DeliveryTypes',
         \A a \in Attempts : attempt'[a].status = attempt[a].status
  PROVE  DeliveryStepOK
<1>1. WorkerKnows'
  BY AttemptsPairs DEF DeliveryInv, DeliveryFacts, WorkerKnows, AttemptOf
<1>2. Quiet
  BY DEF Quiet, HoldersKept, Holds, AttemptOf, StatusKept, MessageKept
<1> QED BY <1>1, <1>2 DEF DeliveryStepOK, DeliveryMoves

\* DispatchOutbox, and a send lease that expires.
LEMMA BrokerSteps ==
  ASSUME DeliveryInv, NEW a \in Attempts, DispatchOutbox(a) \/ SendLeaseExpires(a)
  PROVE  DeliveryStepOK
<1>1. CASE DispatchOutbox(a)
  BY <1>1, WorkersRest DEF DispatchOutbox, DeliveryInv, DeliveryTypes
<1>2. CASE SendLeaseExpires(a)
  <2>1. worker' = worker /\ message' = message /\ accepted' = accepted
    BY <1>2 DEF SendLeaseExpires
  <2>2. attempt' = [attempt EXCEPT ![a].stale = TRUE]
    BY <1>2 DEF SendLeaseExpires
  <2>3. DeliveryTypes' /\ \A b \in Attempts : attempt'[b].status = attempt[b].status
    BY <2>1, <2>2 DEF DeliveryInv, DeliveryTypes
  <2> QED BY <2>1, <2>3, WorkersRest
<1> QED BY <1>1, <1>2

\* ReceiveMessage: a free worker takes a stream entry.
LEMMA ReceiveSteps ==
  ASSUME DeliveryInv, NEW w \in Workers, NEW e \in Entries, ReceiveEntry(w, e)
  PROVE  DeliveryStepOK
<1> DEFINE r == [IdleWorker EXCEPT !.at = "read", !.entry = e, !.receipt = TRUE]
<1>1. r \in WorkerRecord /\ r.at = "read" /\ r.entry = e
  BY DEF IdleWorker, WorkerRecord, Places
<1>2. worker' = [worker EXCEPT ![w] = r] /\ RowsKept
  BY DEF ReceiveEntry, RowsKept
<1> HIDE DEF r
<1>3. worker' \in [Workers -> WorkerRecord] /\ OthersKept(w) /\ worker'[w] = r
  BY <1>1, <1>2, WorkerWrites DEF DeliveryInv, DeliveryTypes
<1> QED BY <1>1, <1>2, <1>3, WorkerWanders DEF Unclaimant

\* Ack and Nack, and the crash of a worker: the entry is done or pending.
LEMMA SettleSteps ==
  ASSUME DeliveryInv, NEW w \in Workers,
         AckEntry(w) \/ Nack(w) \/ WorkerCrash(w)
  PROVE  DeliveryStepOK
<1>1. CASE AckEntry(w)
  BY <1>1, WorkerSettles DEF AckEntry, RowsKept
<1>2. CASE WorkerCrash(w)
  BY <1>2, WorkerSettles DEF WorkerCrash, RowsKept
<1>3. CASE Nack(w)
  <2>1. CASE WorkerLeaves(w)
    BY <1>3, <2>1, WorkerSettles DEF Nack, RowsKept
  <2>2. CASE ~WorkerLeaves(w)
    <3>1. worker' = [v \in Workers |->
                IF v = w THEN IdleWorker
                ELSE IF worker[v].entry = worker[w].entry THEN [worker[v] EXCEPT !.receipt = FALSE]
                ELSE worker[v]]
      BY <1>3, <2>2 DEF Nack
    <3>2. IdleWorker \in WorkerRecord /\ IdleWorker.at = "idle"
      BY DEF IdleWorker, WorkerRecord, Places
    <3>3. \A v \in Workers : /\ [worker[v] EXCEPT !.receipt = FALSE] \in WorkerRecord
                             /\ [worker[v] EXCEPT !.receipt = FALSE].at = worker[v].at
                             /\ [worker[v] EXCEPT !.receipt = FALSE].entry = worker[v].entry
                             /\ [worker[v] EXCEPT !.receipt = FALSE].outcome = worker[v].outcome
      BY DEF DeliveryInv, DeliveryTypes, WorkerRecord
    <3>4. /\ worker' \in [Workers -> WorkerRecord] /\ worker'[w].at = "idle"
          /\ \A v \in Workers : v # w => /\ worker'[v].at = worker[v].at
                                        /\ worker'[v].entry = worker[v].entry
                                        /\ worker'[v].outcome = worker[v].outcome
      BY <3>1, <3>2, <3>3 DEF DeliveryInv, DeliveryTypes
    <3>5. RowsKept
      BY <1>3 DEF Nack, RowsKept
    <3>6. DeliveryTypes' /\ WorkerKnows'
      BY <3>4, <3>5 DEF DeliveryInv, DeliveryFacts, DeliveryTypes, WorkerKnows, RowsKept, AttemptOf
    <3>7. Quiet
      BY <3>4, <3>5 DEF Quiet, HoldersKept, Holds, AttemptOf, StatusKept, MessageKept, RowsKept
    <3> QED BY <3>6, <3>7 DEF DeliveryStepOK, DeliveryMoves
  <2> QED BY <2>1, <2>2
<1> QED BY <1>1, <1>2, <1>3

\* The worker reads the attempt of its receipt.
LEMMA ReadSteps ==
  ASSUME DeliveryInv, NEW w \in Workers, Read(w)
  PROVE  DeliveryStepOK
<1> DEFINE a == AttemptOf(w)
           s == [status |-> attempt[a].status, claims |-> attempt[a].claims]
<1>0. worker[w].at = "read" /\ RowsKept /\ worker[w].entry \in Entries /\ a \in Attempts
  BY AttemptsPairs DEF Read, RowsKept, DeliveryInv, DeliveryFacts, WorkerKnows, AttemptOf
<1>1. CASE \E place \in {"ack", "nack"} : WorkerGoes(w, place)
  BY <1>0, <1>1, WorkerSettles
<1>2. CASE /\ attempt[a].status \in {"queued", "sending"}
           /\ worker' = [worker EXCEPT ![w].at = "claim", ![w].seen = s]
  <2> DEFINE r == [worker[w] EXCEPT !.at = "claim", !.seen = s]
  <2>1. s \in [status : {"queued", "sending"}, claims : Nat]
    <3>1. attempt[a].claims \in Nat
      BY <1>0 DEF DeliveryInv, DeliveryTypes
    <3> QED BY <1>2, <3>1
  <2> HIDE DEF s
  <2>2. r \in WorkerRecord /\ r.at = "claim" /\ r.entry = worker[w].entry
    <3>1. PICK old \in WorkerRecord : old = worker[w]
      BY DEF DeliveryInv, DeliveryTypes
    <3> DEFINE new == [old EXCEPT !.at = "claim", !.seen = s]
    <3>2. new \in WorkerRecord /\ new.at = "claim" /\ new.entry = old.entry
      BY <2>1 DEF WorkerRecord, Places
    <3> HIDE DEF new
    <3>3. r = new
      BY <3>1 DEF new
    <3> HIDE DEF r
    <3> QED BY <3>1, <3>2, <3>3
  <2>3. worker' = [worker EXCEPT ![w] = r]
    BY <1>2
  <2> HIDE DEF r
  <2>4. worker' \in [Workers -> WorkerRecord] /\ OthersKept(w) /\ worker'[w] = r
    <3>1. worker \in [Workers -> WorkerRecord]
      BY DEF DeliveryInv, DeliveryTypes
    <3> QED BY <2>2, <2>3, <3>1 DEF OthersKept
  <2> QED BY <1>0, <2>2, <2>4, WorkerWanders DEF Unclaimant
<1> QED BY <1>1, <1>2 DEF Read

\* A claim conflict never makes its worker a holder: no provider deduplicates.
LEMMA ConflictSteps ==
  ASSUME ~Idempotent, DeliveryInv, NEW w \in Workers, worker[w].at = "claim",
         ClaimConflict(w), RowsKept
  PROVE  DeliveryStepOK
<1>0. worker[w].entry \in Entries /\ worker \in [Workers -> WorkerRecord]
  BY DEF DeliveryInv, DeliveryFacts, DeliveryTypes, WorkerKnows
<1>1. CASE \E place \in {"ack", "nack"} : WorkerGoes(w, place)
  BY <1>1, WorkerSettles
<1>2. CASE worker' = [worker EXCEPT ![w].at = "complete", ![w].outcome = "unknown"]
  <2>1. "complete" \in Places /\ "unknown" \in Outcomes
    BY DEF Places, Outcomes
  <2>2. /\ worker' \in [Workers -> WorkerRecord] /\ OthersKept(w)
        /\ worker'[w].at = "complete" /\ worker'[w].entry = worker[w].entry
        /\ worker'[w].outcome = "unknown"
    <3>1. \A place \in Places, outcome \in Outcomes :
             worker' = [worker EXCEPT ![w].at = place, ![w].outcome = outcome] =>
                /\ worker' \in [Workers -> WorkerRecord] /\ OthersKept(w)
                /\ worker'[w].at = place /\ worker'[w].entry = worker[w].entry
                /\ worker'[w].outcome = outcome
      BY <1>0, WorkerWrites
    <3> QED BY <1>2, <2>1, <3>1
  <2> QED BY <1>0, <2>2, WorkerWanders DEF Unclaimant
<1> QED BY <1>1, <1>2 DEF ClaimConflict

\* ClaimDispatch: the row becomes the worker's, or the worker turns away.
LEMMA ClaimSteps ==
  ASSUME ~Idempotent, DeliveryInv, NEW w \in Workers, ClaimAttempt(w)
  PROVE  DeliveryStepOK
<1>0. /\ worker[w].at = "claim" /\ worker[w].entry \in Entries /\ AttemptOf(w) \in Attempts
      /\ message' = message /\ accepted' = accepted
  BY AttemptsPairs DEF ClaimAttempt, DeliveryInv, DeliveryFacts, WorkerKnows, AttemptOf
<1>1. CASE WorkerGoes(w, "nack") /\ attempt' = attempt
  BY <1>0, <1>1, WorkerSettles DEF RowsKept
<1>2. CASE ClaimConflict(w) /\ attempt' = attempt
  BY <1>0, <1>2, ConflictSteps DEF RowsKept
<1>3. ASSUME NEW a, a = AttemptOf(w), attempt[a].status = "queued",
             attempt' = [attempt EXCEPT ![a] =
                [status |-> "sending", claims |-> @.claims + 1, stale |-> FALSE]],
             worker' = [worker EXCEPT ![w].at = "prepare",
                                      ![w].fresh = worker[w].seen.status = "queued"]
      PROVE  DeliveryStepOK
  <2>1. /\ worker' \in [Workers -> WorkerRecord] /\ OthersKept(w)
        /\ worker'[w].at = "prepare" /\ worker'[w].entry = worker[w].entry
    <3>1. "prepare" \in Places /\ (worker[w].seen.status = "queued") \in BOOLEAN
      BY DEF Places
    <3> QED BY <1>3, <3>1, WorkerWrites DEF DeliveryInv, DeliveryTypes
  <2>2. /\ attempt' \in [Attempts -> [status : {"none", "queued", "sending", "succeeded", "failed"},
                                      claims : Nat, stale : BOOLEAN]]
        /\ attempt'[a].status = "sending" /\ OtherAttempts(a)
    BY <1>0, <1>3 DEF DeliveryInv, DeliveryTypes, OtherAttempts
  <2>3. DeliveryTypes'
    BY <1>0, <2>1, <2>2 DEF DeliveryInv, DeliveryTypes
  <2>4. WorkerKnows'
    BY <1>0, <1>3, <2>1, <2>2, AttemptsPairs
    DEF DeliveryInv, DeliveryFacts, WorkerKnows, OthersKept, OtherAttempts, AttemptOf
  <2>5. Claims(w)
    BY <1>0, <1>3, <2>1, <2>2 DEF Claims, MessageKept, OthersKept, Holds, AttemptOf
  <2> QED BY <2>3, <2>4, <2>5 DEF DeliveryStepOK, DeliveryMoves
<1> QED BY <1>1, <1>2, <1>3 DEF ClaimAttempt

\* PrepareSend: the worker resolves target and sender before it sends.
LEMMA PrepareSteps ==
  ASSUME DeliveryInv, NEW w \in Workers, PrepareMessage(w)
  PROVE  DeliveryStepOK
<1>0. /\ worker[w].at = "prepare" /\ worker[w].entry \in Entries /\ RowsKept /\ Holds(w)
      /\ worker \in [Workers -> WorkerRecord]
  BY DEF PrepareMessage, RowsKept, DeliveryInv, DeliveryFacts, DeliveryTypes, WorkerKnows, Holds
<1>1. CASE WorkerGoes(w, "nack")
  BY <1>0, <1>1, WorkerSettles
<1>2. CASE \E place \in {"send", "requeue"} : WorkerGoes(w, place)
  <2> PICK place \in {"send", "requeue"} : WorkerGoes(w, place)
    BY <1>2
  <2>1. place \in Places
    BY DEF Places
  <2>2. /\ worker' \in [Workers -> WorkerRecord] /\ OthersKept(w)
        /\ worker'[w].at = place /\ worker'[w].entry = worker[w].entry
    BY <1>0, <2>1, WorkerWrites DEF WorkerGoes
  <2> QED BY <1>0, <2>2, WorkerWanders
<1>3. ASSUME NEW o \in {"succeeded", "failed"},
             \E place \in {"reconcile", "complete"} :
                worker' = [worker EXCEPT ![w].at = place, ![w].outcome = o]
      PROVE  DeliveryStepOK
  <2>1. "reconcile" \in Places /\ "complete" \in Places /\ o \in Outcomes
    BY DEF Places, Outcomes
  <2>2. CASE worker' = [worker EXCEPT ![w].at = "reconcile", ![w].outcome = o]
    <3>1. /\ worker' \in [Workers -> WorkerRecord] /\ OthersKept(w)
          /\ worker'[w].at = "reconcile" /\ worker'[w].entry = worker[w].entry
          /\ worker'[w].outcome = o
      BY <1>0, <2>1, <2>2, WorkerWrites
    <3> QED BY <1>0, <3>1, WorkerWanders
  <2>3. CASE worker' = [worker EXCEPT ![w].at = "complete", ![w].outcome = o]
    <3>1. /\ worker' \in [Workers -> WorkerRecord] /\ OthersKept(w)
          /\ worker'[w].at = "complete" /\ worker'[w].entry = worker[w].entry
          /\ worker'[w].outcome = o
      BY <1>0, <2>1, <2>3, WorkerWrites
    <3> QED BY <1>0, <2>1, <3>1, WorkerWanders
  <2> QED BY <1>3, <2>2, <2>3
<1> QED BY <1>1, <1>2, <1>3 DEF PrepareMessage

\* What a step leaves in the hands of a worker that moves on without a claim.
LEMMA WorkerMovesOn ==
  ASSUME DeliveryInv, NEW w \in Workers, worker[w].at # "idle",
         \/ WorkerGoes(w, "ack") \/ WorkerGoes(w, "nack")
         \/ \E o \in {"succeeded", "unknown"} :
               worker' = [worker EXCEPT ![w].at = "complete", ![w].outcome = o]
  PROVE  /\ worker' \in [Workers -> WorkerRecord] /\ OthersKept(w)
         /\ worker'[w].entry = worker[w].entry /\ worker[w].entry \in Entries
         /\ \/ worker'[w].at \in {"ack", "nack"}
            \/ worker'[w].at = "complete" /\ worker'[w].outcome \in {"succeeded", "unknown"}
<1>0. worker \in [Workers -> WorkerRecord] /\ worker[w].entry \in Entries
  BY DEF DeliveryInv, DeliveryFacts, DeliveryTypes, WorkerKnows
<1>1. /\ "ack" \in Places /\ "nack" \in Places /\ "complete" \in Places
      /\ \A o \in {"succeeded", "unknown"} : o \in Outcomes
  BY DEF Places, Outcomes
<1>2. CASE WorkerGoes(w, "ack") \/ WorkerGoes(w, "nack")
  BY <1>0, <1>1, <1>2, WorkerWrites DEF WorkerGoes
<1>3. ASSUME NEW o \in {"succeeded", "unknown"},
             worker' = [worker EXCEPT ![w].at = "complete", ![w].outcome = o]
      PROVE  /\ worker' \in [Workers -> WorkerRecord] /\ OthersKept(w)
             /\ worker'[w].at = "complete" /\ worker'[w].entry = worker[w].entry
             /\ worker'[w].outcome = o
  BY <1>0, <1>1, <1>3, WorkerWrites
<1> QED BY <1>0, <1>2, <1>3

\* Reconciliation of an attempt whose send was left behind.
LEMMA ReconcileSteps ==
  ASSUME DeliveryInv, NEW w \in Workers, ReconcileAttempt(w)
  PROVE  DeliveryStepOK
<1>0. /\ worker[w].at = "reconcile" /\ worker[w].entry \in Entries /\ AttemptOf(w) \in Attempts
      /\ worker[w].outcome \in {"succeeded", "failed"} /\ attempt[AttemptOf(w)].status # "none"
      /\ message' = message /\ accepted' = accepted
  BY AttemptsPairs DEF ReconcileAttempt, DeliveryInv, DeliveryFacts, WorkerKnows, AttemptOf
<1>1. CASE WorkerGoes(w, "nack") /\ attempt' = attempt
  BY <1>0, <1>1, WorkerSettles DEF RowsKept
<1>2. ASSUME NEW a, a = AttemptOf(w), NEW o \in {"succeeded", "failed"},
             attempt' = [attempt EXCEPT ![a].status = o], WorkerGoes(w, "ack")
      PROVE  DeliveryStepOK
  <2>1. /\ worker' \in [Workers -> WorkerRecord] /\ OthersKept(w)
        /\ worker'[w].at = "ack" /\ worker'[w].entry = worker[w].entry
    BY <1>2, WorkerWrites DEF WorkerGoes, Places, DeliveryInv, DeliveryTypes
  <2>2. /\ attempt' \in [Attempts -> [status : {"none", "queued", "sending", "succeeded", "failed"},
                                      claims : Nat, stale : BOOLEAN]]
        /\ attempt'[a].status = o /\ OtherAttempts(a)
    BY <1>0, <1>2 DEF DeliveryInv, DeliveryTypes, OtherAttempts
  <2>3. DeliveryTypes'
    BY <1>0, <2>1, <2>2 DEF DeliveryInv, DeliveryTypes
  <2>4. WorkerKnows'
    BY <1>0, <1>2, <2>1, <2>2, AttemptsPairs
    DEF DeliveryInv, DeliveryFacts, WorkerKnows, OthersKept, OtherAttempts, AttemptOf
  <2>5. Quiet
    BY <1>0, <1>2, <2>1, <2>2 DEF Quiet, HoldersKept, StatusKept, MessageKept, OthersKept,
       OtherAttempts, Holds, AttemptOf
  <2> QED BY <2>3, <2>4, <2>5 DEF DeliveryStepOK, DeliveryMoves
<1> QED BY <1>0, <1>1, <1>2 DEF ReconcileAttempt

\* The provider is called, accepts or rejects, and may not answer.
LEMMA SendSteps ==
  ASSUME ~Idempotent, DeliveryInv, NEW w \in Workers, SendAttempt(w)
  PROVE  DeliveryStepOK
<1>0. /\ worker[w].at = "send" /\ worker[w].entry \in Entries /\ AttemptOf(w) \in Attempts
      /\ message' = message /\ attempt' = attempt /\ Holds(w)
      /\ worker \in [Workers -> WorkerRecord]
  BY AttemptsPairs
  DEF SendAttempt, DeliveryInv, DeliveryFacts, DeliveryTypes, WorkerKnows, AttemptOf, Holds
<1>1. ASSUME NEW o \in Outcomes, SendAnswer(w, o), accepted' = accepted PROVE DeliveryStepOK
  <2>1. /\ worker' \in [Workers -> WorkerRecord] /\ OthersKept(w)
        /\ worker'[w].at = "complete" /\ worker'[w].entry = worker[w].entry
        /\ worker'[w].outcome = o
    BY <1>0, <1>1, WorkerWrites DEF SendAnswer, Places
  <2> QED BY <1>0, <1>1, <2>1, WorkerWanders DEF RowsKept
<1>2. CASE WorkerGoes(w, "nack") /\ accepted' = accepted
  BY <1>0, <1>2, WorkerSettles DEF RowsKept
<1>3. CASE WorkerGoes(w, "requeue") /\ accepted' = accepted
  <2>1. /\ worker' \in [Workers -> WorkerRecord] /\ OthersKept(w)
        /\ worker'[w].at = "requeue" /\ worker'[w].entry = worker[w].entry
    BY <1>0, <1>3, WorkerWrites DEF WorkerGoes, Places
  <2> QED BY <1>0, <1>3, <2>1, WorkerWanders DEF RowsKept
<1>4. ASSUME NEW a, a = AttemptOf(w), accepted' = [accepted EXCEPT ![a] = @ + 1],
             \/ WorkerGoes(w, "nack")
             \/ \E o \in {"succeeded", "unknown"} :
                   worker' = [worker EXCEPT ![w].at = "complete", ![w].outcome = o]
      PROVE  DeliveryStepOK
  <2>1. /\ worker' \in [Workers -> WorkerRecord] /\ OthersKept(w)
        /\ worker'[w].entry = worker[w].entry
        /\ \/ worker'[w].at \in {"ack", "nack"}
           \/ worker'[w].at = "complete" /\ worker'[w].outcome \in {"succeeded", "unknown"}
    BY <1>0, <1>4, WorkerMovesOn
  <2>2. DeliveryTypes'
    BY <1>0, <1>4, <2>1 DEF DeliveryInv, DeliveryTypes
  <2>3. WorkerKnows'
    BY <1>0, <2>1 DEF DeliveryInv, DeliveryFacts, WorkerKnows, OthersKept, AttemptOf, Outcomes
  <2>4. HoldersLess(w)
    BY <2>1 DEF HoldersLess, HoldersKept, OthersKept, Holds, AttemptOf
  <2>5. HandsOver(w)
    BY <1>0, <1>4, <2>4 DEF HandsOver, StatusKept, MessageKept
  <2> QED BY <2>2, <2>3, <2>5 DEF DeliveryStepOK, DeliveryMoves
<1>5. "failed" \in Outcomes /\ "unknown" \in Outcomes
  BY DEF Outcomes
<1> QED BY <1>1, <1>2, <1>3, <1>4, <1>5 DEF SendAttempt, SendAnswer

\* CompleteAttempt: the outcome is written.
LEMMA CompleteSteps ==
  ASSUME DeliveryInv, NEW w \in Workers, CompleteSend(w)
  PROVE  DeliveryStepOK
<1>0. /\ worker[w].at = "complete" /\ worker[w].entry \in Entries /\ AttemptOf(w) \in Attempts
      /\ accepted' = accepted /\ worker[w].outcome \in Outcomes
      /\ WorkerGoes(w, "ack") \/ WorkerGoes(w, "nack")
  BY AttemptsPairs DEF CompleteSend, DeliveryInv, DeliveryFacts, WorkerKnows, AttemptOf
<1>1. CASE attempt' = attempt /\ message' = message
  BY <1>0, <1>1, WorkerSettles DEF RowsKept
<1>2. CASE Recorded(w)
  <2>1. /\ worker' \in [Workers -> WorkerRecord] /\ OthersKept(w)
        /\ worker'[w].at \in {"ack", "nack"} /\ worker'[w].entry = worker[w].entry
    BY <1>0, WorkerWrites DEF WorkerGoes, Places, DeliveryInv, DeliveryTypes
  <2> DEFINE a == AttemptOf(w)  m == a[1]  o == worker[w].outcome
  <2>2. m \in Messages
    BY <1>0, AttemptsPairs
  <2>3. /\ attempt' \in [Attempts -> [status : {"none", "queued", "sending", "succeeded", "failed"},
                                      claims : Nat, stale : BOOLEAN]]
        /\ attempt'[a].status = (IF o = "succeeded" THEN o ELSE "failed") /\ OtherAttempts(a)
    BY <1>0, <1>2 DEF Recorded, DeliveryInv, DeliveryTypes, OtherAttempts
  <2>4. /\ message' \in [Messages -> [status : {"none"} \cup Open \cup FinishedStatuses,
                                      attempts : Nat, unknown : BOOLEAN]]
        /\ message'[m].status = (IF o = "succeeded" THEN "sent" ELSE "failed")
        /\ message'[m].attempts = message[m].attempts
        /\ message'[m].unknown = (o = "unknown")
        /\ \A k \in Messages : k # m => message'[k] = message[k]
    <3> DEFINE r == [message[m] EXCEPT
                      !.status = IF o = "succeeded" THEN "sent" ELSE "failed", !.unknown = o = "unknown"]
    <3>1. message' = [message EXCEPT ![m] = r]
      BY <1>2 DEF Recorded
    <3>2. /\ r \in [status : {"none"} \cup Open \cup FinishedStatuses, attempts : Nat, unknown : BOOLEAN]
          /\ r.status = (IF o = "succeeded" THEN "sent" ELSE "failed")
          /\ r.attempts = message[m].attempts /\ r.unknown = (o = "unknown")
      BY <2>2 DEF DeliveryInv, DeliveryTypes, FinishedStatuses
    <3> HIDE DEF r
    <3> QED BY <2>2, <3>1, <3>2 DEF DeliveryInv, DeliveryTypes
  <2>5. DeliveryTypes'
    BY <1>0, <2>1, <2>3, <2>4 DEF DeliveryInv, DeliveryTypes
  <2>6. WorkerKnows'
    BY <1>0, <2>1, <2>3, AttemptsPairs
    DEF DeliveryInv, DeliveryFacts, WorkerKnows, OthersKept, OtherAttempts, AttemptOf
  <2>7. HoldersLess(w)
    BY <2>1 DEF HoldersLess, HoldersKept, OthersKept, Holds, AttemptOf
  <2>8. attempt[a].status = "sending" /\ message[m].status \in Open
    BY <1>2 DEF Recorded
  <2>9. \A k \in Messages : k = m /\ Retryable(k)' => Holds(w)
    BY <1>0, <2>4 DEF Retryable, Holds, Outcomes
  <2>10. RecordsOutcome(w)
    BY <1>0, <2>3, <2>4, <2>7, <2>8, <2>9 DEF RecordsOutcome, FinishedStatuses
  <2> QED BY <2>5, <2>6, <2>10 DEF DeliveryStepOK, DeliveryMoves
<1> QED BY <1>1, <1>2 DEF CompleteSend

\* Requeue: the attempt failed and may be tried again.
LEMMA RequeueSteps ==
  ASSUME DeliveryInv, NEW w \in Workers, Requeue(w)
  PROVE  DeliveryStepOK
<1>0. /\ worker[w].at = "requeue" /\ worker[w].entry \in Entries /\ AttemptOf(w) \in Attempts
      /\ message' = message /\ accepted' = accepted /\ WorkerGoes(w, "nack") /\ Holds(w)
  BY AttemptsPairs DEF Requeue, DeliveryInv, DeliveryFacts, WorkerKnows, AttemptOf, Holds
<1>1. CASE attempt' = attempt
  BY <1>0, <1>1, WorkerSettles DEF RowsKept
<1>2. ASSUME NEW a, a = AttemptOf(w), attempt[a].status = "sending",
             attempt' = [attempt EXCEPT ![a] = [@ EXCEPT !.status = "queued", !.stale = FALSE]]
      PROVE  DeliveryStepOK
  <2>1. /\ worker' \in [Workers -> WorkerRecord] /\ OthersKept(w)
        /\ worker'[w].at \in {"ack", "nack"} /\ worker'[w].entry = worker[w].entry
    BY <1>0, WorkerWrites DEF WorkerGoes, Places, DeliveryInv, DeliveryTypes
  <2>2. /\ attempt' \in [Attempts -> [status : {"none", "queued", "sending", "succeeded", "failed"},
                                      claims : Nat, stale : BOOLEAN]]
        /\ attempt'[a].status = "queued" /\ OtherAttempts(a)
    <3> DEFINE r == [attempt[a] EXCEPT !.status = "queued", !.stale = FALSE]
    <3>1. r \in [status : {"none", "queued", "sending", "succeeded", "failed"},
                 claims : Nat, stale : BOOLEAN] /\ r.status = "queued"
      BY <1>0, <1>2 DEF DeliveryInv, DeliveryTypes
    <3>2. attempt' = [attempt EXCEPT ![a] = r]
      BY <1>2
    <3> HIDE DEF r
    <3> QED BY <1>0, <1>2, <3>1, <3>2 DEF DeliveryInv, DeliveryTypes, OtherAttempts
  <2>3. DeliveryTypes'
    BY <1>0, <2>1, <2>2 DEF DeliveryInv, DeliveryTypes
  <2>4. WorkerKnows'
    BY <1>0, <1>2, <2>1, <2>2, AttemptsPairs
    DEF DeliveryInv, DeliveryFacts, WorkerKnows, OthersKept, OtherAttempts, AttemptOf
  <2>5. HoldersLess(w)
    BY <2>1 DEF HoldersLess, HoldersKept, OthersKept, Holds, AttemptOf
  <2>6. Returns(w)
    BY <1>0, <1>2, <2>2, <2>5 DEF Returns, MessageKept
  <2> QED BY <2>3, <2>4, <2>6 DEF DeliveryStepOK, DeliveryMoves
<1>3. CASE attempt[AttemptOf(w)].status # "sending"
         /\ attempt' = [attempt EXCEPT ![AttemptOf(w)] = attempt[AttemptOf(w)]]
  <2>1. attempt' = attempt
    BY <1>0, <1>3 DEF DeliveryInv, DeliveryTypes
  <2> QED BY <1>1, <2>1
<1> QED BY <1>0, <1>1, <1>2, <1>3 DEF Requeue

\* Create and CreateRetry: a message, or one more attempt of it.
LEMMA CreateSteps ==
  ASSUME DeliveryInv, NEW m \in Messages, Create(m) \/ CreateRetry(m)
  PROVE  DeliveryStepOK
<1> USE DeliveryAssumption
<1>1. ASSUME NEW n \in 1 .. MaxAttempts, n = message[m].attempts + 1, NewAttempt(m, n),
             message[m].status = "none" \/ Retryable(m),
             NEW s \in Open,
             message' = [message EXCEPT ![m] = [@ EXCEPT !.status = s, !.attempts = n]]
      PROVE  DeliveryStepOK
  <2> DEFINE a == <<m, n>>
  <2>0. a \in Attempts /\ a[1] = m /\ a[2] = n /\ n \in Nat
    BY AttemptsPairs
  <2> HIDE DEF a
  <2>1. /\ message' \in [Messages -> [status : {"none"} \cup Open \cup FinishedStatuses,
                                      attempts : Nat, unknown : BOOLEAN]]
        /\ message'[m].attempts = n /\ message'[m].status = s
        /\ \A k \in Messages : k # m => message'[k] = message[k]
    <3> DEFINE r == [message[m] EXCEPT !.status = s, !.attempts = n]
    <3>1. /\ r \in [status : {"none"} \cup Open \cup FinishedStatuses, attempts : Nat, unknown : BOOLEAN]
          /\ r.status = s /\ r.attempts = n
      BY <1>1, <2>0 DEF DeliveryInv, DeliveryTypes
    <3>2. message' = [message EXCEPT ![m] = r]
      BY <1>1
    <3> HIDE DEF r
    <3> QED BY <3>1, <3>2 DEF DeliveryInv, DeliveryTypes
  <2>2. /\ attempt' \in [Attempts -> [status : {"none", "queued", "sending", "succeeded", "failed"},
                                      claims : Nat, stale : BOOLEAN]]
        /\ attempt'[a].status = "queued" /\ OtherAttempts(a)
        /\ worker' = worker /\ accepted' = accepted
    BY ZenonT(40), <1>1, <2>0 DEF NewAttempt, DeliveryInv, DeliveryTypes, OtherAttempts, a
  <2>3. DeliveryTypes'
    BY <2>1, <2>2 DEF DeliveryInv, DeliveryTypes
  <2>4. WorkerKnows'
    BY <2>2, AttemptsPairs
    DEF DeliveryInv, DeliveryFacts, WorkerKnows, OtherAttempts, AttemptOf
  <2>5. Begins(a)
    BY <1>1, <2>0, <2>1, <2>2 DEF Begins, HoldersKept, Holds, AttemptOf
  <2> QED BY <2>0, <2>3, <2>4, <2>5 DEF DeliveryStepOK, DeliveryMoves
<1>2. CASE Create(m)
  <2>1. message[m].attempts = 0 /\ 1 \in 1 .. MaxAttempts /\ 1 = 0 + 1
    BY <1>2 DEF Create, DeliveryInv, DeliveryFacts, LastOpen
  <2> QED BY <1>1, <1>2, <2>1 DEF Create, Open
<1>3. CASE CreateRetry(m)
  <2>1. message[m].attempts + 1 \in 1 .. MaxAttempts
    BY <1>3 DEF CreateRetry, DeliveryInv, DeliveryTypes
  <2> QED BY <1>1, <1>3, <2>1 DEF CreateRetry, Open
<1> QED BY <1>2, <1>3

\* Over all attempts, redeliveries, crashes and retries a message is accepted by the
\* provider at most once, for any number of messages, workers and faults, as long as
\* no provider deduplicates, which none of production does (delivery/worker.go:121, 231).
THEOREM AtMostOnceHolds == ~Idempotent /\ DeliverySpec => []AtMostOnce
<1> SUFFICES ASSUME ~Idempotent PROVE DeliverySpec => []AtMostOnce
  OBVIOUS
<1>1. ASSUME DeliveryInv, DeliveryNext PROVE DeliveryInv'
  <2>1. DeliveryStepOK
    BY <1>1, CreateSteps, BrokerSteps, ReceiveSteps, ReadSteps, ClaimSteps, PrepareSteps,
       ReconcileSteps, SendSteps, CompleteSteps, RequeueSteps, SettleSteps
    DEF DeliveryNext, DeliveryWorkerStep
  <2> QED BY <1>1, <2>1, DeliveryMove DEF DeliveryInv, DeliveryStepOK
<1>2. ASSUME DeliveryInv, UNCHANGED deliveryVars PROVE DeliveryInv'
  <2>1. DeliveryStepOK
    BY <1>2, WorkersRest DEF deliveryVars, DeliveryInv, DeliveryTypes
  <2> QED BY <1>2, <2>1, DeliveryMove DEF DeliveryInv, DeliveryStepOK
<1>3. DeliveryInv => AtMostOnce
  <2> SUFFICES ASSUME DeliveryInv, NEW m \in Messages, NEW n \in 1 .. MaxAttempts,
                      NEW k \in 1 .. MaxAttempts
               PROVE  /\ accepted[<<m, n>>] <= 1
                      /\ n # k => accepted[<<m, n>>] = 0 \/ accepted[<<m, k>>] = 0
    BY DEF AtMostOnce
  <2>1. /\ <<m, n>> \in Attempts /\ <<m, n>>[1] = m /\ <<m, n>>[2] = n
        /\ <<m, k>> \in Attempts /\ <<m, k>>[1] = m /\ <<m, k>>[2] = k
        /\ message[m].attempts \in Nat
    BY AttemptsPairs DEF DeliveryInv, DeliveryTypes
  <2>2. accepted[<<m, n>>] \in {0, 1} /\ accepted[<<m, k>>] \in {0, 1}
    BY <2>1 DEF DeliveryInv, DeliveryFacts, AcceptedClosed
  <2>3. accepted[<<m, n>>] = 1 => n >= message[m].attempts /\ n <= message[m].attempts
    BY <2>1, DeliveryAssumption DEF DeliveryInv, DeliveryFacts, AcceptedClosed, Unclaimed,
       LastOpen, SupersededUnsent, Superseded
  <2>4. accepted[<<m, k>>] = 1 => k >= message[m].attempts /\ k <= message[m].attempts
    BY <2>1, DeliveryAssumption DEF DeliveryInv, DeliveryFacts, AcceptedClosed, Unclaimed,
       LastOpen, SupersededUnsent, Superseded
  <2> QED BY <2>1, <2>2, <2>3, <2>4, DeliveryAssumption
<1> QED BY DeliveryInitInv, <1>1, <1>2, <1>3, PTL DEF DeliverySpec

-----------------------------------------------------------------------------
(* Devices.  An account that a device has is never replaced, and every later *)
(* right of the device is a copy of it.                                      *)

CallRecord ==
    [at : {"new", "bind", "challenge", "sign", "consume", "spent", "create", "insert",
           "replay", "owns", "answered"},
     gadget : Gadgets \cup {Noone}, account : Owners \cup {Noone},
     arg : PairCodes \cup Nonces \cup VoiceRows \cup {Noone},
     key : CreateKeys \cup {Noone}, row : VoiceRows \cup {Noone}]
PairingRecord == [account : Owners \cup {Noone}, is : {"none", "open", "used", "expired"}]
NonceRecord == [gadget : Gadgets \cup {Noone}, is : {"none", "open", "used", "expired", "gone"}]
RowRecord == [account : Owners \cup {Noone}, gadget : Gadgets \cup {Noone}]
GadgetRecord == [account : Owners \cup {Noone}, revoked : BOOLEAN]

DeviceTypes ==
    /\ gadget \in [Gadgets -> GadgetRecord]
    /\ pairing \in [PairCodes -> PairingRecord]
    /\ nonce \in [Nonces -> NonceRecord]
    /\ tokens \subseteq [account : Owners, gadget : Gadgets]
    /\ voiceRow \in [VoiceRows -> RowRecord]
    /\ keyed \in [Owners -> [CreateKeys -> VoiceRows \cup {Noone}]]
    /\ call \in [DeviceCalls -> CallRecord]
    /\ boundBy \in [Gadgets -> PairCodes \cup {Noone}]
    /\ issued \in [Nonces -> Nat]

\* A code is used once, for the device that shows it, and names its account.
CodesBind ==
    /\ \A k \in PairCodes : pairing[k].is = "open" => pairing[k].account \in Owners
    /\ \A g \in Gadgets : boundBy[g] # Noone => gadget[g].account # Noone
    /\ BoundByCode

\* A nonce is asked for by a bound device, and issues nothing before it is used.
NoncesIssue ==
    /\ \A n \in Nonces : /\ nonce[n].gadget # Noone => gadget[nonce[n].gadget].account # Noone
                         /\ nonce[n].is \in {"none", "open", "expired"} => issued[n] = 0
    /\ TokensOfOwner

KeysOfOwner ==
    /\ \A o \in Owners, k \in CreateKeys : keyed[o][k] # Noone => voiceRow[keyed[o][k]].account = o
    /\ \A r \in VoiceRows : voiceRow[r] # NoRow =>
          /\ voiceRow[r].account \in Owners
          /\ \E k \in CreateKeys : keyed[voiceRow[r].account][k] = r

Serving == {"create", "insert", "replay", "owns", "answered"}

\* What a request has checked before it is where it is.
CallOK(c) ==
    /\ call[c].arg # Noone => call[c].gadget \in Gadgets
    /\ call[c].at \in {"bind", "challenge"} => call[c].gadget \in Gadgets
    /\ call[c].at = "bind" => call[c].arg \in PairCodes
    /\ call[c].at = "challenge" => gadget[call[c].gadget].account # Noone
    /\ call[c].at \in {"sign", "consume"} => call[c].arg \in Nonces
    /\ call[c].at = "owns" => call[c].arg \in VoiceRows
    /\ call[c].at \in {"create", "insert", "replay"} =>
          call[c].key \in CreateKeys /\ call[c].arg = Noone
    /\ call[c].at \in Serving =>
          /\ call[c].account \in Owners
          /\ call[c].gadget # Noone => gadget[call[c].gadget].account = call[c].account
    /\ call[c].at = "replay" => keyed[call[c].account][call[c].key] # Noone
    /\ call[c].row # Noone => call[c].at \in {"insert", "answered"}
    /\ call[c].at = "insert" => call[c].row \in VoiceRows /\ voiceRow[call[c].row] = NoRow
    /\ call[c].at = "answered" =>
          /\ call[c].row \in VoiceRows /\ voiceRow[call[c].row] # NoRow
          /\ call[c].gadget # Noone =>
                voiceRow[call[c].row] = [account |-> call[c].account, gadget |-> call[c].gadget]

\* The row of an uncommitted session is nobody else's.
RowsApart ==
    \A c, d \in DeviceCalls : call[c].at = "insert" /\ c # d => call[d].row # call[c].row

DeviceFacts == /\ CodesBind /\ NoncesIssue /\ KeysOfOwner /\ RowsApart
               /\ \A c \in DeviceCalls : CallOK(c)
DeviceInv == DeviceTypes /\ DeviceFacts

\* Every initial state satisfies the device invariant.
LEMMA DeviceInitInv == DevicesInit => DeviceInv
<1> SUFFICES ASSUME DevicesInit PROVE DeviceInv
  OBVIOUS
<1> USE DEF DevicesInit
<1>1. Unheard \in CallRecord /\ NoRow \in RowRecord
  BY DEF Unheard, CallRecord, NoRow, RowRecord
<1>2. DeviceTypes
  BY <1>1 DEF DeviceTypes, GadgetRecord, PairingRecord, NonceRecord
<1>3. \A c \in DeviceCalls : CallOK(c)
  BY DEF CallOK, Unheard, Serving
<1>4. CodesBind
  BY DEF CodesBind, BoundByCode
<1>5. NoncesIssue
  BY DEF NoncesIssue, TokensOfOwner
<1>6. KeysOfOwner
  BY DEF KeysOfOwner
<1>7. RowsApart
  BY DEF RowsApart, Unheard
<1> QED BY <1>2, <1>3, <1>4, <1>5, <1>6, <1>7 DEF DeviceInv, DeviceFacts

\* In the invariant, no device acts for anybody but its owner.
LEMMA DeviceInvActs == DeviceInv => DeviceActsForOwner
<1> SUFFICES ASSUME DeviceInv PROVE DeviceActsForOwner
  OBVIOUS
<1> USE DEF DeviceInv, DeviceFacts
<1>1. BoundByCode /\ TokensOfOwner
  BY DEF CodesBind, NoncesIssue
<1>2. SessionsOfDevice
  BY DEF SessionsOfDevice, KeysOfOwner, CallOK, Serving
<1> QED BY <1>1, <1>2 DEF DeviceActsForOwner

-----------------------------------------------------------------------------
\* Requests that read and remember.

CallsKept(c) == \A d \in DeviceCalls : d # c => call'[d] = call[d]
DeviceRowsKept ==
    UNCHANGED <<gadget, pairing, nonce, tokens, voiceRow, keyed, boundBy, issued>>

\* What writing a call's record changes.
LEMMA CallWrites ==
  ASSUME call \in [DeviceCalls -> CallRecord], NEW c \in DeviceCalls
  PROVE  \A r \in CallRecord : call' = [call EXCEPT ![c] = r] =>
            call' \in [DeviceCalls -> CallRecord] /\ CallsKept(c) /\ call'[c] = r
  BY DEF CallsKept

\* A step of one call that leaves the devices alone keeps the invariant.
LEMMA CallMoves ==
  ASSUME DeviceInv, NEW c \in DeviceCalls, NEW r \in CallRecord,
         call' = [call EXCEPT ![c] = r], DeviceRowsKept, CallOK(c)',
         r.row # Noone => voiceRow[r.row] # NoRow \/ \A d \in DeviceCalls : call[d].row # r.row,
         r.at = "insert" => \A d \in DeviceCalls : call[d].row # r.row
  PROVE  DeviceInv'
<1>1. call' \in [DeviceCalls -> CallRecord] /\ CallsKept(c) /\ call'[c] = r
  BY CallWrites DEF DeviceInv, DeviceTypes
<1>2. DeviceTypes'
  BY <1>1 DEF DeviceInv, DeviceTypes, DeviceRowsKept
<1>3. CodesBind' /\ NoncesIssue' /\ KeysOfOwner'
  BY DEF DeviceInv, DeviceFacts, CodesBind, BoundByCode, NoncesIssue, TokensOfOwner, KeysOfOwner,
     DeviceRowsKept
<1>4. \A d \in DeviceCalls : CallOK(d)'
  <2> SUFFICES ASSUME NEW d \in DeviceCalls, d # c PROVE CallOK(d)'
    OBVIOUS
  <2> QED BY <1>1 DEF DeviceInv, DeviceFacts, CallOK, CallsKept, DeviceRowsKept
<1>5. RowsApart'
  <2> SUFFICES ASSUME NEW d \in DeviceCalls, NEW e \in DeviceCalls,
                      call'[d].at = "insert", d # e
               PROVE  call'[e].row # call'[d].row
    BY DEF RowsApart
  <2>1. call'[d].row # Noone /\ voiceRow[call'[d].row] = NoRow
    BY <1>4, DevicesAssumption DEF CallOK, DeviceRowsKept
  <2>2. CASE d = c
    BY <1>1, <2>2 DEF CallsKept
  <2>3. CASE e = c
    BY <1>1, <2>1, <2>3 DEF CallsKept
  <2>4. CASE d # c /\ e # c
    BY <1>1, <2>4 DEF CallsKept, DeviceInv, DeviceFacts, RowsApart
  <2> QED BY <2>2, <2>3, <2>4
<1> QED BY <1>2, <1>3, <1>4, <1>5 DEF DeviceInv, DeviceFacts

\* A request that ends, or begins, with nothing in its hands.
LEMMA CallEnds ==
  ASSUME DeviceInv, NEW c \in DeviceCalls, EndsCall(c), DeviceRowsKept
  PROVE  DeviceInv'
<1>1. Unheard \in CallRecord /\ Unheard.row = Noone /\ Unheard.at = "new"
  BY DEF Unheard, CallRecord
<1>2. call' = [call EXCEPT ![c] = Unheard] /\ call'[c] = Unheard
  BY <1>1 DEF EndsCall, DeviceInv, DeviceTypes
<1>3. CallOK(c)'
  BY <1>2 DEF CallOK, Unheard, Serving
<1> QED BY <1>1, <1>2, <1>3, CallMoves

\* A caller or a device begins a call.
LEMMA BeginSteps ==
  ASSUME DeviceInv, NEW c \in DeviceCalls, CallBegins(c)
  PROVE  DeviceInv'
<1> USE DevicesAssumption
<1>0. DeviceRowsKept
  BY DEF CallBegins, PairDevice, AskChallenge, Resend, CreateSession, DeviceExisting, DeviceRowsKept
<1>1. ASSUME NEW g \in Gadgets, NEW k \in PairCodes, PairDevice(c, g, k) PROVE DeviceInv'
  <2> DEFINE r == [Unheard EXCEPT !.at = "bind", !.gadget = g, !.arg = k]
  <2>1. /\ r \in CallRecord /\ r.row = Noone /\ r.at = "bind" /\ r.gadget = g /\ r.arg = k
    BY DEF Unheard, CallRecord
  <2>2. call' = [call EXCEPT ![c] = r]
    BY <1>1 DEF PairDevice
  <2> HIDE DEF r
  <2>3. call'[c] = r
    BY <2>1, <2>2, CallWrites DEF DeviceInv, DeviceTypes
  <2>4. CallOK(c)'
    BY <2>1, <2>3 DEF CallOK, Serving
  <2> QED BY <1>0, <2>1, <2>2, <2>4, CallMoves
<1>2. ASSUME NEW g \in Gadgets, AskChallenge(c, g) PROVE DeviceInv'
  <2> DEFINE r == [Unheard EXCEPT !.at = "challenge", !.gadget = g]
  <2>1. /\ r \in CallRecord /\ r.row = Noone /\ r.at = "challenge" /\ r.gadget = g
        /\ r.arg = Noone
    BY DEF Unheard, CallRecord
  <2>2. call' = [call EXCEPT ![c] = r] /\ gadget' = gadget /\ gadget[g].account # Noone
    BY <1>2 DEF AskChallenge
  <2> HIDE DEF r
  <2>3. call'[c] = r
    BY <2>1, <2>2, CallWrites DEF DeviceInv, DeviceTypes
  <2>4. CallOK(c)'
    BY <2>1, <2>2, <2>3 DEF CallOK, Serving
  <2> QED BY <1>0, <2>1, <2>2, <2>4, CallMoves
<1>3. ASSUME NEW d \in DeviceCalls, Resend(c, d) PROVE DeviceInv'
  <2> DEFINE r == [call[d] EXCEPT !.at = "sign"]
  <2>1. /\ r \in CallRecord /\ r.at = "sign" /\ r.gadget = call[d].gadget
        /\ r.arg = call[d].arg /\ r.row = call[d].row
    BY DEF DeviceInv, DeviceTypes, CallRecord
  <2>2. call' = [call EXCEPT ![c] = r] /\ r.arg \in Nonces
    BY <1>3, <2>1 DEF Resend
  <2>3. r.row = Noone /\ r.gadget \in Gadgets
    BY <1>3, <2>1, <2>2 DEF Resend, DeviceInv, DeviceFacts, CallOK
  <2> HIDE DEF r
  <2>4. call'[c] = r
    BY <2>1, <2>2, CallWrites DEF DeviceInv, DeviceTypes
  <2>5. CallOK(c)'
    BY <2>1, <2>2, <2>3, <2>4 DEF CallOK, Serving
  <2> QED BY <1>0, <2>1, <2>2, <2>3, <2>5, CallMoves
<1>4. ASSUME NEW o \in Owners, NEW g \in Gadgets \cup {Noone}, NEW k \in CreateKeys,
             CreateSession(c, o, g, k)
      PROVE  DeviceInv'
  <2> DEFINE r == [Unheard EXCEPT !.at = "create", !.gadget = g, !.account = o, !.key = k]
  <2>1. /\ r \in CallRecord /\ r.row = Noone /\ r.at = "create" /\ r.gadget = g
        /\ r.arg = Noone /\ r.account = o /\ r.key = k
    BY DEF Unheard, CallRecord
  <2>2. /\ call' = [call EXCEPT ![c] = r] /\ gadget' = gadget
        /\ g # Noone => gadget[g].account = o
    BY <1>4 DEF CreateSession, ActiveBound
  <2> HIDE DEF r
  <2>3. call'[c] = r
    BY <2>1, <2>2, CallWrites DEF DeviceInv, DeviceTypes
  <2>4. CallOK(c)'
    BY <2>1, <2>2, <2>3 DEF CallOK, Serving
  <2> QED BY <1>0, <2>1, <2>2, <2>4, CallMoves
<1>5. ASSUME NEW o \in Owners, NEW g \in Gadgets, NEW w \in VoiceRows,
             DeviceExisting(c, o, g, w)
      PROVE  DeviceInv'
  <2> DEFINE r == [Unheard EXCEPT !.at = "owns", !.gadget = g, !.account = o, !.arg = w]
  <2>1. /\ r \in CallRecord /\ r.row = Noone /\ r.at = "owns" /\ r.gadget = g
        /\ r.arg = w /\ r.account = o
    BY DEF Unheard, CallRecord
  <2>2. call' = [call EXCEPT ![c] = r] /\ gadget' = gadget /\ gadget[g].account = o
    BY <1>5 DEF DeviceExisting, ActiveBound
  <2> HIDE DEF r
  <2>3. call'[c] = r
    BY <2>1, <2>2, CallWrites DEF DeviceInv, DeviceTypes
  <2>4. CallOK(c)'
    BY <2>1, <2>2, <2>3 DEF CallOK, Serving
  <2> QED BY <1>0, <2>1, <2>2, <2>4, CallMoves
<1> QED BY <1>1, <1>2, <1>3, <1>4, <1>5 DEF CallBegins

\* A nonce, tried or not, goes with the device that asked for it.
LEMMA NonceCallMoves ==
  ASSUME DeviceInv, NEW c \in DeviceCalls, NEW at \in {"consume", "spent"}, Goto(c, at),
         call[c].arg \in Nonces, call[c].row = Noone, DeviceRowsKept
  PROVE  DeviceInv'
<1> DEFINE r == [call[c] EXCEPT !.at = at]
<1>1. /\ r \in CallRecord /\ r.at = at /\ r.gadget = call[c].gadget
      /\ r.arg = call[c].arg /\ r.row = call[c].row
  BY DEF DeviceInv, DeviceTypes, CallRecord
<1>2. call' = [call EXCEPT ![c] = r]
  BY DEF Goto
<1> HIDE DEF r
<1>3. call'[c] = r
  BY <1>1, <1>2, CallWrites DEF DeviceInv, DeviceTypes
<1>4. CallOK(c)'
  BY <1>1, <1>3, DevicesAssumption DEF CallOK, Serving, DeviceInv, DeviceFacts
<1> QED BY <1>1, <1>2, <1>4, CallMoves

\* A replayed session is answered to the page, and to the device that created it.
LEMMA ReplaySteps ==
  ASSUME DeviceInv, NEW c \in DeviceCalls, call[c].at \in {"create", "replay"},
         NEW w, w = keyed[call[c].account][call[c].key], w # Noone, Replayed(c, w), DeviceRowsKept
  PROVE  DeviceInv'
<1>1. CASE EndsCall(c)
  BY <1>1, CallEnds
<1>2. CASE Mine(c, w) /\ call' = [call EXCEPT ![c].at = "answered", ![c].row = w]
  <2> DEFINE r == [call[c] EXCEPT !.at = "answered", !.row = w]
  <2>0. call[c].account \in Owners /\ call[c].key \in CreateKeys /\ w \in VoiceRows
    <3>1. call[c].account \in Owners /\ call[c].key \in CreateKeys
      BY DEF DeviceInv, DeviceFacts, CallOK, Serving
    <3> QED BY <3>1 DEF DeviceInv, DeviceTypes
  <2>1. /\ r \in CallRecord /\ r.at = "answered" /\ r.gadget = call[c].gadget
        /\ r.account = call[c].account /\ r.arg = call[c].arg /\ r.row = w
    BY <2>0 DEF DeviceInv, DeviceTypes, CallRecord
  <2>2. call' = [call EXCEPT ![c] = r]
    BY <1>2
  <2> HIDE DEF r
  <2>3. call'[c] = r
    BY <2>1, <2>2, CallWrites DEF DeviceInv, DeviceTypes
  <2>4. /\ voiceRow[w] # NoRow /\ voiceRow[w].account = call[c].account
        /\ voiceRow[w] \in RowRecord
    BY <2>0, DevicesAssumption DEF DeviceInv, DeviceFacts, DeviceTypes, KeysOfOwner, NoRow
  <2>5. call[c].gadget # Noone =>
           voiceRow[w] = [account |-> call[c].account, gadget |-> call[c].gadget]
    BY <1>2, <2>4 DEF Mine, RowRecord
  <2>6. CallOK(c)'
    <3>1. /\ call[c].arg # Noone => call[c].gadget \in Gadgets
          /\ call[c].gadget # Noone => gadget[call[c].gadget].account = call[c].account
      BY DEF DeviceInv, DeviceFacts, CallOK, Serving
    <3> QED BY <2>0, <2>1, <2>3, <2>4, <2>5, <3>1 DEF CallOK, Serving, DeviceRowsKept
  <2> QED BY <2>1, <2>2, <2>4, <2>6, CallMoves
<1> QED BY <1>1, <1>2 DEF Replayed

\* Requests that read what they later rely on, or give up.
LEMMA ServeSteps ==
  ASSUME DeviceInv, NEW c \in DeviceCalls,
         ExchangeChallenge(c) \/ (\E r \in VoiceRows : FindCreateRequest(c, r))
         \/ ReplayCreate(c) \/ OwnsSession(c) \/ GiveUp(c)
  PROVE  DeviceInv'
<1> USE DevicesAssumption
<1>0. DeviceRowsKept
  BY DEF ExchangeChallenge, FindCreateRequest, ReplayCreate, OwnsSession, GiveUp, DeviceRowsKept
<1>1. CASE ExchangeChallenge(c)
  <2>1. call[c].arg \in Nonces /\ call[c].row = Noone
    BY <1>1 DEF ExchangeChallenge, DeviceInv, DeviceFacts, CallOK
  <2>2. Goto(c, "consume") \/ Goto(c, "spent")
    BY <1>1 DEF ExchangeChallenge
  <2> QED BY <1>0, <2>1, <2>2, NonceCallMoves
<1>2. ASSUME NEW w \in VoiceRows, FindCreateRequest(c, w) PROVE DeviceInv'
  <2>1. CASE EndsCall(c)
    BY <1>0, <2>1, CallEnds
  <2>2. CASE /\ keyed[call[c].account][call[c].key] # Noone
             /\ Replayed(c, keyed[call[c].account][call[c].key])
    BY <1>0, <1>2, <2>2, ReplaySteps DEF FindCreateRequest
  <2>3. CASE Fresh(w) /\ call' = [call EXCEPT ![c].at = "insert", ![c].row = w]
    <3> DEFINE r == [call[c] EXCEPT !.at = "insert", !.row = w]
    <3>0. call[c] \in CallRecord
      BY DEF DeviceInv, DeviceTypes
    <3>1. /\ r \in CallRecord /\ r.at = "insert" /\ r.gadget = call[c].gadget
          /\ r.account = call[c].account /\ r.arg = call[c].arg /\ r.row = w
          /\ r.key = call[c].key
      BY <3>0 DEF CallRecord
    <3>2. call' = [call EXCEPT ![c] = r]
      BY <2>3
    <3> HIDE DEF r
    <3>3. call'[c] = r
      BY <3>1, <3>2, CallWrites DEF DeviceInv, DeviceTypes
    <3>4. call[c].at = "create" /\ CallOK(c)
      BY <1>2 DEF FindCreateRequest, DeviceInv, DeviceFacts
    <3>5. CallOK(c)'
      BY <1>0, <2>3, <3>1, <3>3, <3>4 DEF CallOK, Serving, Fresh, DeviceRowsKept
    <3> QED BY <1>0, <2>3, <3>1, <3>2, <3>5, CallMoves DEF Fresh
  <2> QED BY <1>2, <2>1, <2>2, <2>3 DEF FindCreateRequest
<1>3. CASE ReplayCreate(c)
  <2>1. keyed[call[c].account][call[c].key] # Noone /\ call[c].at = "replay"
    BY <1>3 DEF ReplayCreate, DeviceInv, DeviceFacts, CallOK
  <2> QED BY <1>0, <1>3, <2>1, ReplaySteps DEF ReplayCreate
<1>4. CASE OwnsSession(c)
  <2>1. CASE EndsCall(c)
    BY <1>0, <2>1, CallEnds
  <2>2. ASSUME NEW w, w = call[c].arg,
               voiceRow[w] = [account |-> call[c].account, gadget |-> call[c].gadget],
               call' = [call EXCEPT ![c].at = "answered", ![c].row = w]
        PROVE  DeviceInv'
    <3> DEFINE r == [call[c] EXCEPT !.at = "answered", !.row = w]
    <3>1. call[c].at = "owns" /\ CallOK(c)
      BY <1>4 DEF OwnsSession, DeviceInv, DeviceFacts
    <3>2. w \in VoiceRows /\ call[c].account \in Owners
      BY <2>2, <3>1 DEF CallOK, Serving
    <3>3. /\ r \in CallRecord /\ r.at = "answered" /\ r.gadget = call[c].gadget
          /\ r.account = call[c].account /\ r.arg = call[c].arg /\ r.row = w
      BY ZenonT(40), <3>2 DEF DeviceInv, DeviceTypes, CallRecord
    <3>4. call' = [call EXCEPT ![c] = r]
      BY <2>2
    <3> HIDE DEF r
    <3>5. call'[c] = r
      BY <3>3, <3>4, CallWrites DEF DeviceInv, DeviceTypes
    <3>6. voiceRow[w] # NoRow
      BY <2>2, <3>2 DEF NoRow
    <3>7. CallOK(c)'
      BY <1>0, <2>2, <3>1, <3>2, <3>3, <3>5, <3>6 DEF CallOK, Serving, DeviceRowsKept
    <3> QED BY <1>0, <3>3, <3>4, <3>6, <3>7, CallMoves
  <2> QED BY <1>4, <2>1, <2>2 DEF OwnsSession
<1>5. CASE GiveUp(c)
  <2>1. CASE EndsCall(c)
    BY <1>0, <2>1, CallEnds
  <2>2. CASE call[c].arg \in Nonces /\ Goto(c, "spent")
    <3>1. CASE call[c].row = Noone
      BY <1>0, <2>2, <3>1, NonceCallMoves
    <3>2. call[c].row = Noone
      BY <1>5, <2>2 DEF GiveUp, Spare, DeviceInv, DeviceFacts, CallOK
    <3> QED BY <3>1, <3>2
  <2> QED BY <1>5, <2>1, <2>2 DEF GiveUp
<1> QED BY <1>1, <1>2, <1>3, <1>4, <1>5

-----------------------------------------------------------------------------
\* Requests that write, each in one transaction.

\* BindWithPairingCode: pairing code and device row together.
LEMMA BindSteps ==
  ASSUME DeviceInv, NEW c \in DeviceCalls, BindWithPairingCode(c)
  PROVE  DeviceInv'
<1> USE DevicesAssumption
<1> DEFINE g == call[c].gadget  k == call[c].arg
<1>0. EndsCall(c) /\ g \in Gadgets /\ k \in PairCodes
  BY DEF BindWithPairingCode, DeviceInv, DeviceFacts, CallOK
<1>1. CASE DeviceRowsKept
  BY <1>0, <1>1, CallEnds
<1>2. CASE /\ gadget[g].account = Noone /\ pairing[k].is = "open"
           /\ pairing' = [pairing EXCEPT ![k].is = "used"]
           /\ gadget' = [gadget EXCEPT ![g].account = pairing[k].account]
           /\ boundBy' = [boundBy EXCEPT ![g] = k]
           /\ UNCHANGED <<nonce, tokens, voiceRow, keyed, issued, lapses>>
  <2>1. /\ gadget' \in [Gadgets -> GadgetRecord] /\ gadget'[g].account = pairing[k].account
        /\ \A h \in Gadgets : h # g => gadget'[h] = gadget[h]
    BY <1>0, <1>2 DEF DeviceInv, DeviceTypes, GadgetRecord, PairingRecord
  <2>2. /\ pairing' \in [PairCodes -> PairingRecord]
        /\ pairing'[k] = [account |-> pairing[k].account, is |-> "used"]
        /\ \A j \in PairCodes : j # k => pairing'[j] = pairing[j]
    BY <1>0, <1>2 DEF DeviceInv, DeviceTypes, PairingRecord
  <2>3. /\ boundBy' \in [Gadgets -> PairCodes \cup {Noone}] /\ boundBy'[g] = k
        /\ \A h \in Gadgets : h # g => boundBy'[h] = boundBy[h]
    BY <1>0, <1>2 DEF DeviceInv, DeviceTypes
  <2>4. /\ call' \in [DeviceCalls -> CallRecord] /\ call'[c] = Unheard /\ CallsKept(c)
    <3>1. Unheard \in CallRecord
      BY DEF Unheard, CallRecord
    <3> QED BY <1>0, <3>1, CallWrites DEF EndsCall, DeviceInv, DeviceTypes
  <2>5. pairing[k].account \in Owners
    BY <1>0, <1>2 DEF DeviceInv, DeviceFacts, CodesBind
  <2>6. \A h \in Gadgets : gadget[h].account # Noone => gadget'[h].account = gadget[h].account
    BY <1>2, <2>1
  <2>7. DeviceTypes'
    BY <1>2, <2>1, <2>2, <2>3, <2>4 DEF DeviceInv, DeviceTypes
  <2>8. CodesBind'
    <3>1. \A h \in Gadgets : boundBy[h] # k
      <4> SUFFICES ASSUME NEW h \in Gadgets, boundBy[h] = k PROVE FALSE
        OBVIOUS
      <4>1. boundBy[h] # Noone
        BY <1>0
      <4>2. gadget[h].account # Noone
        BY <4>1 DEF DeviceInv, DeviceFacts, CodesBind
      <4>3. pairing[boundBy[h]].is = "used"
        <5>1. BoundByCode
          BY DEF DeviceInv, DeviceFacts, CodesBind
        <5>2. pairing[boundBy[h]] = [account |-> gadget[h].account, is |-> "used"]
          BY <4>2, <5>1 DEF BoundByCode
        <5> QED BY <5>2
      <4> QED BY <1>2, <4>3
    <3>2. \A j \in PairCodes : pairing'[j].is = "open" => pairing'[j].account \in Owners
      BY <2>2 DEF DeviceInv, DeviceFacts, CodesBind
    <3>3. \A h \in Gadgets : boundBy'[h] # Noone => gadget'[h].account # Noone
      BY <2>1, <2>3, <2>5 DEF DeviceInv, DeviceFacts, CodesBind
    <3>4. \A h \in Gadgets : gadget'[h].account # Noone =>
             /\ boundBy'[h] \in PairCodes
             /\ pairing'[boundBy'[h]] = [account |-> gadget'[h].account, is |-> "used"]
      <4> SUFFICES ASSUME NEW h \in Gadgets, gadget'[h].account # Noone
                   PROVE  /\ boundBy'[h] \in PairCodes
                          /\ pairing'[boundBy'[h]] = [account |-> gadget'[h].account, is |-> "used"]
        OBVIOUS
      <4>1. CASE h = g
        BY <1>0, <2>1, <2>2, <2>3, <4>1
      <4>2. CASE h # g
        <5>1. gadget'[h] = gadget[h] /\ boundBy'[h] = boundBy[h] /\ boundBy[h] # k
          BY <2>1, <2>3, <3>1, <4>2
        <5>2. BoundByCode
          BY DEF DeviceInv, DeviceFacts, CodesBind
        <5>3. /\ boundBy[h] \in PairCodes
              /\ pairing[boundBy[h]] = [account |-> gadget[h].account, is |-> "used"]
          BY <5>1, <5>2 DEF BoundByCode
        <5> QED BY <2>2, <5>1, <5>3
      <4> QED BY <4>1, <4>2
    <3>5. \A h, i \in Gadgets : boundBy'[h] # Noone /\ boundBy'[h] = boundBy'[i] => h = i
      BY <2>3, <3>1 DEF DeviceInv, DeviceFacts, CodesBind, BoundByCode
    <3> QED BY <3>2, <3>3, <3>4, <3>5 DEF CodesBind, BoundByCode
  <2>9. NoncesIssue'
    BY <1>2, <2>6 DEF DeviceInv, DeviceFacts, DeviceTypes, NonceRecord, NoncesIssue, TokensOfOwner
  <2>10. KeysOfOwner'
    BY <1>2 DEF DeviceInv, DeviceFacts, KeysOfOwner
  <2>11. RowsApart'
    <3> SUFFICES ASSUME NEW d \in DeviceCalls, NEW e \in DeviceCalls,
                        call'[d].at = "insert", d # e
                 PROVE  call'[e].row # call'[d].row
      BY DEF RowsApart
    <3>1. d # c /\ call'[d] = call[d]
      BY <2>4 DEF CallsKept, Unheard
    <3>2. call[d].row \in VoiceRows /\ call[e].row # call[d].row
      BY <3>1 DEF DeviceInv, DeviceFacts, CallOK, RowsApart
    <3> QED BY <2>4, <3>1, <3>2 DEF CallsKept, Unheard
  <2>12. \A d \in DeviceCalls : CallOK(d)'
    <3>1. CallOK(c)'
      BY <2>4 DEF CallOK, Unheard, Serving
    <3>2. ASSUME NEW d \in DeviceCalls, d # c PROVE CallOK(d)'
      <4>1. call'[d] = call[d] /\ CallOK(d) /\ call[d] \in CallRecord
        BY <2>4, <3>2 DEF CallsKept, DeviceInv, DeviceFacts, DeviceTypes
      <4> QED BY <1>2, <2>6, <4>1 DEF CallOK, Serving, CallRecord
    <3> QED BY <3>1, <3>2
  <2> QED BY <2>7, <2>8, <2>9, <2>10, <2>11, <2>12 DEF DeviceInv, DeviceFacts
<1> QED BY <1>1, <1>2 DEF BindWithPairingCode, CodeOpen, DeviceRowsKept

\* Rows of a challenge that its device did not use issue nothing.
LEMMA ChallengeSteps ==
  ASSUME DeviceInv, NEW c \in DeviceCalls, NEW n \in Nonces, CreateChallenge(c, n)
  PROVE  DeviceInv'
<1> USE DevicesAssumption
<1> DEFINE g == call[c].gadget
           r == [call[c] EXCEPT !.at = "sign", !.arg = n]
<1>0. call[c].at = "challenge" /\ g \in Gadgets /\ gadget[g].account # Noone /\ CallOK(c)
      /\ UNCHANGED <<gadget, pairing, tokens, voiceRow, keyed, boundBy, issued, lapses>>
  BY DEF CreateChallenge, DeviceInv, DeviceFacts, CallOK
<1>1. /\ r \in CallRecord /\ r.at = "sign" /\ r.gadget = g /\ r.arg = n /\ r.row = call[c].row
  BY ZenonT(40) DEF DeviceInv, DeviceTypes, CallRecord
<1>2. call' = [call EXCEPT ![c] = r]
  BY DEF CreateChallenge
<1> HIDE DEF r
<1>3. call' \in [DeviceCalls -> CallRecord] /\ CallsKept(c) /\ call'[c] = r
  BY <1>1, <1>2, CallWrites DEF DeviceInv, DeviceTypes
<1>4. /\ nonce' \in [Nonces -> NonceRecord]
      /\ \A k \in Nonces : \/ nonce'[k] = nonce[k]
                           \/ nonce'[k].gadget = nonce[k].gadget /\ nonce'[k].is = "gone"
                           \/ nonce[k].is = "none" /\ nonce'[k] = [gadget |-> g, is |-> "open"]
  <2>1. \A k \in Nonces : nonce[k] \in NonceRecord
    BY DEF DeviceInv, DeviceTypes
  <2>2. \A k \in Nonces : /\ [nonce[k] EXCEPT !.is = "gone"] \in NonceRecord
                          /\ [nonce[k] EXCEPT !.is = "gone"].gadget = nonce[k].gadget
                          /\ [nonce[k] EXCEPT !.is = "gone"].is = "gone"
    BY <2>1 DEF NonceRecord
  <2>3. [gadget |-> g, is |-> "open"] \in NonceRecord
    BY <1>0 DEF NonceRecord
  <2> HIDE DEF g
  <2> DEFINE Kept(k) == nonce[k].gadget # g \/ nonce[k].is \notin {"used", "expired"}
  <2>4. CASE nonce' = [k \in Nonces |-> IF Kept(k) \/ k = n THEN nonce[k]
                                       ELSE [nonce[k] EXCEPT !.is = "gone"]]
    <3> HIDE DEF Kept
    <3> QED BY <2>1, <2>2, <2>4
  <2>5. CASE /\ nonce[n].is = "none"
             /\ nonce' = [k \in Nonces |-> IF k = n THEN [gadget |-> g, is |-> "open"]
                                           ELSE IF Kept(k) THEN nonce[k]
                                           ELSE [nonce[k] EXCEPT !.is = "gone"]]
    <3> HIDE DEF Kept
    <3> QED BY <2>1, <2>2, <2>3, <2>5
  <2> QED BY <2>4, <2>5 DEF CreateChallenge, g
<1>5. DeviceTypes'
  BY <1>0, <1>3, <1>4 DEF DeviceInv, DeviceTypes
<1>6. CodesBind' /\ KeysOfOwner'
  BY <1>0 DEF DeviceInv, DeviceFacts, CodesBind, BoundByCode, KeysOfOwner
<1>7. NoncesIssue'
  BY <1>0, <1>4 DEF DeviceInv, DeviceFacts, NoncesIssue, TokensOfOwner
<1>8. RowsApart'
  BY <1>0, <1>1, <1>3 DEF DeviceInv, DeviceFacts, RowsApart, CallsKept
<1>9. \A d \in DeviceCalls : CallOK(d)'
  <2>1. CallOK(c)'
    BY <1>0, <1>1, <1>3 DEF CallOK, Serving
  <2>2. ASSUME NEW d \in DeviceCalls, d # c PROVE CallOK(d)'
    BY <1>0, <1>3, <2>2 DEF DeviceInv, DeviceFacts, CallOK, CallsKept, Serving
  <2> QED BY <2>1, <2>2
<1> QED BY <1>5, <1>6, <1>7, <1>8, <1>9 DEF DeviceInv, DeviceFacts

\* ConsumeNonce: the nonce is used by whoever comes first.
LEMMA ConsumeSteps ==
  ASSUME DeviceInv, NEW c \in DeviceCalls, ConsumeNonce(c)
  PROVE  DeviceInv'
<1> USE DevicesAssumption
<1> DEFINE g == call[c].gadget  n == call[c].arg  r == [call[c] EXCEPT !.at = "spent"]
<1>0. /\ call[c].at = "consume" /\ g \in Gadgets /\ n \in Nonces /\ call[c].row = Noone
      /\ CallOK(c) /\ Goto(c, "spent")
      /\ UNCHANGED <<gadget, pairing, voiceRow, keyed, boundBy>>
  BY DEF ConsumeNonce, DeviceInv, DeviceFacts, CallOK
<1>1. CASE UNCHANGED <<nonce, tokens, issued>>
  BY <1>0, <1>1, NonceCallMoves DEF DeviceRowsKept
<1>2. ASSUME NEW right, right = [account |-> gadget[g].account, gadget |-> g],
             nonce[n].gadget = g, nonce[n].is = "open",
             nonce' = [nonce EXCEPT ![n].is = "used"], tokens' = tokens \cup {right},
             issued' = [issued EXCEPT ![n] = @ + 1]
      PROVE  DeviceInv'
  <2>1. /\ r \in CallRecord /\ r.at = "spent" /\ r.gadget = g /\ r.arg = n /\ r.row = Noone
    <3>1. call[c] \in CallRecord
      BY DEF DeviceInv, DeviceTypes
    <3> QED BY <1>0, <3>1 DEF CallRecord
  <2>2. call' = [call EXCEPT ![c] = r]
    BY <1>0 DEF Goto
  <2> HIDE DEF r
  <2>3. call' \in [DeviceCalls -> CallRecord] /\ CallsKept(c) /\ call'[c] = r
    BY <2>1, <2>2, CallWrites DEF DeviceInv, DeviceTypes
  <2>4. /\ nonce' \in [Nonces -> NonceRecord]
        /\ nonce'[n].is = "used" /\ nonce'[n].gadget = g
        /\ \A k \in Nonces : k # n => nonce'[k] = nonce[k]
    BY <1>0, <1>2 DEF DeviceInv, DeviceTypes, NonceRecord
  <2>5. /\ gadget[g].account # Noone /\ gadget[g].account \in Owners
        /\ issued[n] = 0
    BY <1>0, <1>2 DEF DeviceInv, DeviceFacts, DeviceTypes, GadgetRecord, NoncesIssue
  <2>6. /\ issued' \in [Nonces -> Nat] /\ issued'[n] = 1
        /\ \A k \in Nonces : k # n => issued'[k] = issued[k]
    BY <1>0, <1>2, <2>5 DEF DeviceInv, DeviceTypes
  <2>7. DeviceTypes'
    BY <1>0, <1>2, <2>3, <2>4, <2>5, <2>6 DEF DeviceInv, DeviceTypes
  <2>8. CodesBind' /\ KeysOfOwner'
    BY <1>0 DEF DeviceInv, DeviceFacts, CodesBind, BoundByCode, KeysOfOwner
  <2>9. NoncesIssue'
    <3>1. \A k \in Nonces : issued[k] <= 1
      BY DEF DeviceInv, DeviceFacts, NoncesIssue, TokensOfOwner
    <3>2. \A k \in Nonces : /\ nonce'[k].gadget # Noone => gadget'[nonce'[k].gadget].account # Noone
                            /\ nonce'[k].is \in {"none", "open", "expired"} => issued'[k] = 0
                            /\ issued'[k] <= 1
      BY <1>0, <2>4, <2>5, <2>6, <3>1 DEF DeviceInv, DeviceFacts, NoncesIssue
    <3>3. \A t \in tokens' : gadget'[t.gadget].account = t.account
      BY <1>0, <1>2 DEF DeviceInv, DeviceFacts, NoncesIssue, TokensOfOwner
    <3> QED BY <3>2, <3>3 DEF NoncesIssue, TokensOfOwner
  <2>10. RowsApart'
    BY <1>0, <2>1, <2>3 DEF DeviceInv, DeviceFacts, RowsApart, CallsKept
  <2>11. \A d \in DeviceCalls : CallOK(d)'
    <3>1. CallOK(c)'
      BY <1>0, <2>1, <2>3 DEF CallOK, Serving
    <3>2. ASSUME NEW d \in DeviceCalls, d # c PROVE CallOK(d)'
      BY <1>0, <2>3, <3>2 DEF DeviceInv, DeviceFacts, CallOK, CallsKept, Serving
    <3> QED BY <3>1, <3>2
  <2> QED BY <2>7, <2>8, <2>9, <2>10, <2>11 DEF DeviceInv, DeviceFacts
<1> QED BY <1>0, <1>1, <1>2 DEF ConsumeNonce, Consumable

\* CommitCreate: the session row and its key together.
LEMMA CommitSteps ==
  ASSUME DeviceInv, NEW c \in DeviceCalls, CommitCreate(c)
  PROVE  DeviceInv'
<1> USE DevicesAssumption
<1> DEFINE o == call[c].account  w == call[c].row  k == call[c].key
<1>0. /\ call[c].at = "insert" /\ CallOK(c) /\ o \in Owners /\ k \in CreateKeys
      /\ w \in VoiceRows /\ voiceRow[w] = NoRow /\ call[c].arg = Noone
      /\ call[c].gadget \in Gadgets \cup {Noone}
      /\ call[c].gadget # Noone => gadget[call[c].gadget].account = o
      /\ UNCHANGED <<gadget, pairing, nonce, tokens, boundBy, issued>>
  <2>1. CallOK(c) /\ call[c] \in CallRecord
    BY DEF DeviceInv, DeviceFacts, DeviceTypes
  <2> QED BY <2>1 DEF CommitCreate, CallOK, Serving, CallRecord
<1>1. CASE /\ keyed[o][k] # Noone /\ UNCHANGED <<voiceRow, keyed>>
           /\ call' = [call EXCEPT ![c].at = "replay", ![c].row = Noone]
  <2> DEFINE r == [call[c] EXCEPT !.at = "replay", !.row = Noone]
  <2>1. /\ r \in CallRecord /\ r.at = "replay" /\ r.gadget = call[c].gadget
        /\ r.account = o /\ r.arg = Noone /\ r.row = Noone /\ r.key = k
    <3>1. call[c] \in CallRecord
      BY DEF DeviceInv, DeviceTypes
    <3> QED BY <1>0, <3>1 DEF CallRecord
  <2>2. call' = [call EXCEPT ![c] = r]
    BY <1>1
  <2> HIDE DEF r
  <2>3. call'[c] = r
    BY <2>1, <2>2, CallWrites DEF DeviceInv, DeviceTypes
  <2>4. CallOK(c)'
    BY <1>0, <1>1, <2>1, <2>3 DEF CallOK, Serving
  <2> QED BY <1>0, <1>1, <2>1, <2>2, <2>4, CallMoves DEF DeviceRowsKept
<1>2. CASE /\ keyed[o][k] = Noone
           /\ voiceRow' = [voiceRow EXCEPT ![w] = [account |-> o, gadget |-> call[c].gadget]]
           /\ keyed' = [keyed EXCEPT ![o][k] = w] /\ Goto(c, "answered")
  <2> DEFINE r == [call[c] EXCEPT !.at = "answered"]
             inserted == [account |-> o, gadget |-> call[c].gadget]
  <2>1. /\ r \in CallRecord /\ r.at = "answered" /\ r.gadget = call[c].gadget
        /\ r.account = o /\ r.arg = Noone /\ r.row = w
    BY <1>0 DEF DeviceInv, DeviceTypes, CallRecord
  <2>2. call' = [call EXCEPT ![c] = r]
    BY <1>2 DEF Goto
  <2> HIDE DEF r
  <2>3. call' \in [DeviceCalls -> CallRecord] /\ CallsKept(c) /\ call'[c] = r
    BY <2>1, <2>2, CallWrites DEF DeviceInv, DeviceTypes
  <2>4. inserted \in RowRecord /\ inserted.account = o /\ inserted # NoRow
    BY <1>0 DEF RowRecord, NoRow
  <2>5. /\ voiceRow' \in [VoiceRows -> RowRecord] /\ voiceRow'[w] = inserted
        /\ \A x \in VoiceRows : x # w => voiceRow'[x] = voiceRow[x]
    BY <1>0, <1>2, <2>4 DEF DeviceInv, DeviceTypes
  <2>6. /\ keyed' \in [Owners -> [CreateKeys -> VoiceRows \cup {Noone}]] /\ keyed'[o][k] = w
        /\ \A p \in Owners, j \in CreateKeys :
              keyed'[p][j] = keyed[p][j] \/ (p = o /\ j = k /\ keyed'[p][j] = w)
        /\ \A p \in Owners, j \in CreateKeys : keyed[p][j] # Noone => keyed'[p][j] = keyed[p][j]
    BY <1>0, <1>2 DEF DeviceInv, DeviceTypes
  <2>7. DeviceTypes'
    BY <1>0, <2>3, <2>5, <2>6 DEF DeviceInv, DeviceTypes
  <2>8. CodesBind' /\ NoncesIssue'
    BY <1>0 DEF DeviceInv, DeviceFacts, CodesBind, BoundByCode, NoncesIssue, TokensOfOwner
  <2>9. KeysOfOwner'
    <3>1. NoRow.account = Noone
      BY DEF NoRow
    <3>2. \A p \in Owners, j \in CreateKeys :
             keyed'[p][j] # Noone => voiceRow'[keyed'[p][j]].account = p
      <4> SUFFICES ASSUME NEW p \in Owners, NEW j \in CreateKeys, keyed'[p][j] # Noone
                   PROVE  voiceRow'[keyed'[p][j]].account = p
        OBVIOUS
      <4>1. CASE keyed'[p][j] = keyed[p][j]
        <5>1. keyed[p][j] \in VoiceRows /\ voiceRow[keyed[p][j]].account = p
          BY <4>1 DEF DeviceInv, DeviceFacts, DeviceTypes, KeysOfOwner
        <5>2. keyed[p][j] # w
          BY <1>0, <3>1, <5>1
        <5> QED BY <2>5, <4>1, <5>1, <5>2
      <4>2. CASE p = o /\ keyed'[p][j] = w
        BY <2>4, <2>5, <4>2
      <4> QED BY <2>6, <4>1, <4>2
    <3>3. \A x \in VoiceRows : voiceRow'[x] # NoRow =>
             /\ voiceRow'[x].account \in Owners
             /\ \E j \in CreateKeys : keyed'[voiceRow'[x].account][j] = x
      <4> SUFFICES ASSUME NEW x \in VoiceRows, voiceRow'[x] # NoRow
                   PROVE  /\ voiceRow'[x].account \in Owners
                          /\ \E j \in CreateKeys : keyed'[voiceRow'[x].account][j] = x
        OBVIOUS
      <4>1. CASE x = w
        BY <1>0, <2>4, <2>5, <2>6, <4>1
      <4>2. CASE x # w
        <5>1. voiceRow'[x] = voiceRow[x]
          BY <2>5, <4>2
        <5>2. PICK j \in CreateKeys : keyed[voiceRow[x].account][j] = x
          BY <5>1 DEF DeviceInv, DeviceFacts, KeysOfOwner
        <5>3. voiceRow[x].account \in Owners
          BY <5>1 DEF DeviceInv, DeviceFacts, KeysOfOwner
        <5> QED BY <2>6, <5>1, <5>2, <5>3
      <4> QED BY <4>1, <4>2
    <3> QED BY <3>2, <3>3 DEF KeysOfOwner
  <2>10. RowsApart'
    BY <1>0, <2>1, <2>3 DEF DeviceInv, DeviceFacts, RowsApart, CallsKept
  <2>11. \A d \in DeviceCalls : CallOK(d)'
    <3>1. CallOK(c)'
      BY <1>0, <2>1, <2>3, <2>4, <2>5 DEF CallOK, Serving
    <3>2. ASSUME NEW d \in DeviceCalls, d # c PROVE CallOK(d)'
      <4>1. call'[d] = call[d] /\ CallOK(d)
        BY <2>3, <3>2 DEF CallsKept, DeviceInv, DeviceFacts
      <4>2. call[d].at = "insert" => call[d].row # w
        BY <1>0, <3>2 DEF DeviceInv, DeviceFacts, RowsApart
      <4>3. \A x \in VoiceRows : voiceRow[x] # NoRow => voiceRow'[x] = voiceRow[x]
        BY <1>0, <2>5
      <4> QED BY <1>0, <2>5, <2>6, <4>1, <4>2, <4>3 DEF CallOK, Serving
    <3> QED BY <3>1, <3>2
  <2> QED BY <2>7, <2>8, <2>9, <2>10, <2>11 DEF DeviceInv, DeviceFacts
<1> QED BY <1>0, <1>1, <1>2 DEF CommitCreate

\* Codes are made and devices are revoked by accounts; codes, nonces and tokens expire.
LEMMA AccountSteps ==
  ASSUME DeviceInv, NEW o \in Owners,
         (\E k \in PairCodes : CreatePairingCode(o, k)) \/ (\E g \in Gadgets : RevokeDevice(o, g))
  PROVE  DeviceInv'
<1> USE DevicesAssumption
<1>1. ASSUME NEW k \in PairCodes, CreatePairingCode(o, k) PROVE DeviceInv'
  <2>1. /\ pairing[k].is = "none"
        /\ UNCHANGED <<gadget, nonce, tokens, voiceRow, keyed, call, boundBy, issued>>
    BY <1>1 DEF CreatePairingCode
  <2>2. /\ pairing' \in [PairCodes -> PairingRecord] /\ pairing'[k] = [account |-> o, is |-> "open"]
        /\ \A j \in PairCodes : j # k => pairing'[j] = pairing[j]
    BY <1>1 DEF CreatePairingCode, DeviceInv, DeviceTypes, PairingRecord
  <2>3. DeviceTypes'
    BY <2>1, <2>2 DEF DeviceInv, DeviceTypes
  <2>4. CodesBind'
    <3>1. BoundByCode'
      <4>1. \A g \in Gadgets : gadget[g].account # Noone => boundBy[g] \in PairCodes /\ boundBy[g] # k
        <5> SUFFICES ASSUME NEW g \in Gadgets, gadget[g].account # Noone
                     PROVE  boundBy[g] \in PairCodes /\ boundBy[g] # k
          OBVIOUS
        <5>1. /\ boundBy[g] \in PairCodes
              /\ pairing[boundBy[g]] = [account |-> gadget[g].account, is |-> "used"]
          BY DEF DeviceInv, DeviceFacts, CodesBind, BoundByCode
        <5>2. pairing[boundBy[g]].is = "used"
          BY <5>1
        <5> QED BY <2>1, <5>1, <5>2
      <4> QED BY <2>1, <2>2, <4>1 DEF DeviceInv, DeviceFacts, CodesBind, BoundByCode
    <3>2. \A j \in PairCodes : pairing'[j].is = "open" => pairing'[j].account \in Owners
      BY <2>2 DEF DeviceInv, DeviceFacts, CodesBind
    <3> QED BY <2>1, <3>1, <3>2 DEF DeviceInv, DeviceFacts, CodesBind
  <2>5. NoncesIssue' /\ KeysOfOwner' /\ RowsApart'
    BY <2>1 DEF DeviceInv, DeviceFacts, NoncesIssue, TokensOfOwner, KeysOfOwner, RowsApart
  <2>6. \A d \in DeviceCalls : CallOK(d)'
    BY <2>1 DEF DeviceInv, DeviceFacts, CallOK
  <2> QED BY <2>3, <2>4, <2>5, <2>6 DEF DeviceInv, DeviceFacts
<1>2. ASSUME NEW g \in Gadgets, RevokeDevice(o, g) PROVE DeviceInv'
  <2>1. UNCHANGED <<pairing, nonce, tokens, voiceRow, keyed, call, boundBy, issued>>
    BY <1>2 DEF RevokeDevice
  <2>2. /\ gadget' \in [Gadgets -> GadgetRecord]
        /\ \A h \in Gadgets : gadget'[h].account = gadget[h].account
    BY ZenonT(40), <1>2 DEF RevokeDevice, DeviceInv, DeviceTypes, GadgetRecord
  <2>3. DeviceTypes'
    BY <2>1, <2>2 DEF DeviceInv, DeviceTypes
  <2>4. CodesBind'
    BY <2>1, <2>2 DEF DeviceInv, DeviceFacts, CodesBind, BoundByCode
  <2>5. NoncesIssue'
    BY <2>1, <2>2 DEF DeviceInv, DeviceFacts, DeviceTypes, NonceRecord, NoncesIssue, TokensOfOwner
  <2>6. KeysOfOwner' /\ RowsApart'
    BY <2>1 DEF DeviceInv, DeviceFacts, KeysOfOwner, RowsApart
  <2>7. ASSUME NEW d \in DeviceCalls PROVE CallOK(d)'
    <3>1. CallOK(d) /\ call[d] \in CallRecord
      BY DEF DeviceInv, DeviceFacts, DeviceTypes
    <3> QED BY <2>1, <2>2, <3>1 DEF CallOK, CallRecord
  <2> QED BY <2>3, <2>4, <2>5, <2>6, <2>7 DEF DeviceInv, DeviceFacts
<1> QED BY <1>1, <1>2

\* Codes, nonces and tokens expire.
LEMMA LapseSteps ==
  ASSUME DeviceInv, Lapse
  PROVE  DeviceInv'
<1> USE DevicesAssumption
<1>0. UNCHANGED <<gadget, voiceRow, keyed, call, boundBy, issued>>
  BY DEF Lapse
<1>1. KeysOfOwner' /\ RowsApart' /\ \A d \in DeviceCalls : CallOK(d)'
  BY <1>0 DEF DeviceInv, DeviceFacts, KeysOfOwner, RowsApart, CallOK
<1>2. ASSUME NEW k \in PairCodes, pairing[k].is = "open",
             pairing' = [pairing EXCEPT ![k].is = "expired"], UNCHANGED <<nonce, tokens>>
      PROVE  DeviceInv'
  <2>1. /\ pairing' \in [PairCodes -> PairingRecord] /\ pairing'[k].is = "expired"
        /\ \A j \in PairCodes : j # k => pairing'[j] = pairing[j]
    BY <1>2 DEF DeviceInv, DeviceTypes, PairingRecord
  <2>2. DeviceTypes'
    BY <1>0, <1>2, <2>1 DEF DeviceInv, DeviceTypes
  <2>3. NoncesIssue'
    BY <1>0, <1>2 DEF DeviceInv, DeviceFacts, NoncesIssue, TokensOfOwner
  <2>4. CodesBind'
    <3>1. \A g \in Gadgets : gadget[g].account # Noone => boundBy[g] \in PairCodes /\ boundBy[g] # k
      <4> SUFFICES ASSUME NEW g \in Gadgets, gadget[g].account # Noone
                   PROVE  boundBy[g] \in PairCodes /\ boundBy[g] # k
        OBVIOUS
      <4>1. /\ boundBy[g] \in PairCodes
            /\ pairing[boundBy[g]] = [account |-> gadget[g].account, is |-> "used"]
        BY DEF DeviceInv, DeviceFacts, CodesBind, BoundByCode
      <4>2. pairing[boundBy[g]].is = "used"
        BY <4>1
      <4> QED BY <1>2, <4>1, <4>2
    <3>2. BoundByCode'
      BY <1>0, <2>1, <3>1 DEF DeviceInv, DeviceFacts, CodesBind, BoundByCode
    <3>3. \A j \in PairCodes : pairing'[j].is = "open" => pairing'[j].account \in Owners
      BY <2>1 DEF DeviceInv, DeviceFacts, CodesBind
    <3> QED BY <1>0, <3>2, <3>3 DEF DeviceInv, DeviceFacts, CodesBind
  <2> QED BY <1>1, <2>2, <2>3, <2>4 DEF DeviceInv, DeviceFacts
<1>3. ASSUME NEW n \in Nonces, nonce[n].is = "open",
             nonce' = [nonce EXCEPT ![n].is = "expired"], UNCHANGED <<pairing, tokens>>
      PROVE  DeviceInv'
  <2>1. /\ nonce' \in [Nonces -> NonceRecord] /\ nonce'[n].is = "expired"
        /\ nonce'[n].gadget = nonce[n].gadget
        /\ \A k \in Nonces : k # n => nonce'[k] = nonce[k]
    BY <1>3 DEF DeviceInv, DeviceTypes, NonceRecord
  <2>2. DeviceTypes'
    BY <1>0, <1>3, <2>1 DEF DeviceInv, DeviceTypes
  <2>3. NoncesIssue'
    BY <1>0, <1>3, <2>1 DEF DeviceInv, DeviceFacts, NoncesIssue, TokensOfOwner
  <2>4. CodesBind'
    BY <1>0, <1>3 DEF DeviceInv, DeviceFacts, CodesBind, BoundByCode
  <2> QED BY <1>1, <2>2, <2>3, <2>4 DEF DeviceInv, DeviceFacts
<1>4. ASSUME NEW t \in tokens, tokens' = tokens \ {t}, UNCHANGED <<pairing, nonce>>
      PROVE  DeviceInv'
  <2>1. DeviceTypes'
    BY <1>0, <1>4 DEF DeviceInv, DeviceTypes
  <2>2. NoncesIssue' /\ CodesBind'
    BY <1>0, <1>4 DEF DeviceInv, DeviceFacts, NoncesIssue, TokensOfOwner, CodesBind, BoundByCode
  <2> QED BY <1>1, <2>1, <2>2 DEF DeviceInv, DeviceFacts
<1> QED BY <1>2, <1>3, <1>4 DEF Lapse

\* A device acts for the account that paired it and on the sessions it created, for any
\* number of devices, codes, nonces and requests, whatever is repeated, in any order of
\* the requests' reads and writes (devices/postgres.go:14, sessions/postgres.go:101).
THEOREM DeviceActsForOwnerHolds == DevicesSpec => []DeviceActsForOwner
<1>1. ASSUME DeviceInv, DevicesNext PROVE DeviceInv'
  BY <1>1, AccountSteps, LapseSteps, BeginSteps, BindSteps, ChallengeSteps, ConsumeSteps,
     ServeSteps, CommitSteps
  DEF DevicesNext, CallStep
<1>2. ASSUME DeviceInv, UNCHANGED deviceVars PROVE DeviceInv'
  BY <1>2 DEF deviceVars, DeviceInv, DeviceTypes, DeviceFacts, CodesBind, BoundByCode, NoncesIssue,
     TokensOfOwner, KeysOfOwner, RowsApart, CallOK
<1> QED BY DeviceInitInv, DeviceInvActs, <1>1, <1>2, PTL DEF DevicesSpec

-----------------------------------------------------------------------------
(* Binding of a mailed address: a challenge is in the hands of one request,  *)
(* and what was proved is not given back.                                    *)

Holding(b, c) == binder[b].at \in {"bind", "restore"} /\ binder[b].subject = c

BindingTypes ==
    /\ challenge \in [Challenges -> [issued : BOOLEAN, mailed : BOOLEAN, used : BOOLEAN,
                                     expired : BOOLEAN, address : Addresses \cup {Free}]]
    /\ binder \in [Binders -> [at : {"idle", "bind", "restore", "prefer", "store"},
                               subject : Challenges \cup Bound \cup {Free}]]
    /\ proved \in [Challenges -> Nat]

BindingFacts ==
    /\ \A b \in Binders : binder[b].at \in {"bind", "restore"} => binder[b].subject \in Challenges
    /\ \A c \in Challenges :
          /\ challenge[c].mailed \/ challenge[c].used => challenge[c].issued
          /\ proved[c] \in {0, 1} /\ (proved[c] = 1 => challenge[c].used)
          /\ \A b \in Binders : Holding(b, c) =>
                /\ challenge[c].used /\ proved[c] = 0
                /\ \A d \in Binders : Holding(d, c) => d = b

BindingInv == BindingTypes /\ BindingFacts

\* The four things a step does to challenges.
HoldingKept == \A b \in Binders, c \in Challenges : Holding(b, c)' => Holding(b, c)
ChallengesKept ==
    \A c \in Challenges : /\ challenge'[c].used = challenge[c].used
                          /\ challenge[c].issued => challenge'[c].issued
                          /\ challenge'[c].mailed => challenge'[c].issued
Taken(b, c) ==
    /\ ~challenge[c].used /\ challenge[c].issued /\ challenge'[c].used
    /\ \A d \in Challenges : d # c => challenge'[d].used = challenge[d].used
    /\ \A d \in Challenges : challenge'[d].issued = challenge[d].issued
                             /\ challenge'[d].mailed = challenge[d].mailed
    /\ \A e \in Binders, d \in Challenges : Holding(e, d)' => Holding(e, d) \/ (e = b /\ d = c)
    /\ UNCHANGED proved
TargetFreed(b) == HoldingKept /\ \A c \in Challenges : ~Holding(b, c)'

\* A step that is one of the moves keeps the facts about challenges and targets.
LEMMA BindingMove ==
  ASSUME BindingInv, BindingTypes',
         \A b \in Binders : binder'[b].at \in {"bind", "restore"} => binder'[b].subject \in Challenges,
         \/ HoldingKept /\ ChallengesKept /\ UNCHANGED proved
         \/ \E b \in Binders, c \in Challenges : Taken(b, c)
         \/ \E b \in Binders, c \in Challenges :
               /\ Holding(b, c) /\ TargetFreed(b) /\ ChallengesKept
               /\ proved' = [proved EXCEPT ![c] = @ + 1]
         \/ \E b \in Binders, c \in Challenges :
               /\ Holding(b, c) /\ TargetFreed(b) /\ UNCHANGED proved
               /\ \A d \in Challenges : /\ d # c => challenge'[d].used = challenge[d].used
                                        /\ challenge'[d].issued = challenge[d].issued
                                        /\ challenge'[d].mailed = challenge[d].mailed
  PROVE  BindingInv'
<1> USE DEF BindingInv, BindingFacts
<1>1. CASE HoldingKept /\ ChallengesKept /\ UNCHANGED proved
  BY <1>1 DEF HoldingKept, ChallengesKept
<1>2. ASSUME NEW b \in Binders, NEW c \in Challenges, Taken(b, c) PROVE BindingInv'
  BY <1>2 DEF Taken
<1>3. ASSUME NEW b \in Binders, NEW c \in Challenges, Holding(b, c), TargetFreed(b), ChallengesKept,
             proved' = [proved EXCEPT ![c] = @ + 1]
      PROVE  BindingInv'
  <2>1. proved'[c] = 1 /\ \A d \in Challenges : d # c => proved'[d] = proved[d]
    BY <1>3 DEF BindingTypes
  <2> QED BY <1>3, <2>1 DEF TargetFreed, HoldingKept, ChallengesKept
<1>4. ASSUME NEW b \in Binders, NEW c \in Challenges, Holding(b, c), TargetFreed(b), UNCHANGED proved,
             \A d \in Challenges : /\ d # c => challenge'[d].used = challenge[d].used
                                  /\ challenge'[d].issued = challenge[d].issued
                                  /\ challenge'[d].mailed = challenge[d].mailed
      PROVE  BindingInv'
  BY <1>4 DEF TargetFreed, HoldingKept
<1> QED BY <1>1, <1>2, <1>3, <1>4

\* Every initial state satisfies the binding invariant.
LEMMA BindingInitInv == BindingInit => BindingInv
<1> SUFFICES ASSUME BindingInit PROVE BindingInv
  OBVIOUS
<1> USE DEF BindingInit
<1>1. Unissued \in [issued : BOOLEAN, mailed : BOOLEAN, used : BOOLEAN, expired : BOOLEAN,
                   address : Addresses \cup {Free}]
  BY DEF Unissued
<1>2. FreeBinder \in [at : {"idle", "bind", "restore", "prefer", "store"},
                     subject : Challenges \cup Bound \cup {Free}]
  BY DEF FreeBinder
<1>3. BindingTypes
  BY <1>1, <1>2 DEF BindingTypes
<1>4. \A b \in Binders : binder[b].at = "idle"
  BY DEF FreeBinder
<1>5. \A c \in Challenges : ~challenge[c].used /\ ~challenge[c].mailed /\ proved[c] = 0
  BY DEF Unissued
<1> QED BY <1>3, <1>4, <1>5 DEF BindingInv, BindingFacts, Holding

\* A request that takes no challenge writes its record.
BinderRests(b) ==
    /\ \A d \in Binders : d # b => binder'[d] = binder[d]
    /\ binder'[b].at \in {"idle", "prefer", "store"}

\* What writing a binder's record changes.
LEMMA BinderWrites ==
  ASSUME BindingInv, NEW b \in Binders,
         NEW at \in {"idle", "bind", "restore", "prefer", "store"},
         NEW subject \in Challenges \cup Bound \cup {Free},
         binder' = [binder EXCEPT ![b] = [at |-> at, subject |-> subject]]
  PROVE  /\ binder' \in [Binders -> [at : {"idle", "bind", "restore", "prefer", "store"},
                                   subject : Challenges \cup Bound \cup {Free}]]
         /\ binder'[b].at = at /\ binder'[b].subject = subject
         /\ \A d \in Binders : d # b => binder'[d] = binder[d]
  BY DEF BindingInv, BindingTypes

\* What freeing a binder changes.
LEMMA BinderFreed ==
  ASSUME BindingInv, NEW b \in Binders, binder' = [binder EXCEPT ![b] = FreeBinder]
  PROVE  /\ binder' \in [Binders -> [at : {"idle", "bind", "restore", "prefer", "store"},
                                   subject : Challenges \cup Bound \cup {Free}]]
         /\ BinderRests(b)
  BY DEF BindingInv, BindingTypes, FreeBinder, BinderRests

\* Steps that leave challenges and what was proved alone.
LEMMA BindingRests ==
  ASSUME BindingInv, NEW b \in Binders, challenge' = challenge, proved' = proved,
         binder' \in [Binders -> [at : {"idle", "bind", "restore", "prefer", "store"},
                                 subject : Challenges \cup Bound \cup {Free}]],
         \/ BinderRests(b)
         \/ /\ \A d \in Binders : d # b => binder'[d] = binder[d]
            /\ binder[b].at = "bind" /\ binder'[b].at = "restore"
            /\ binder'[b].subject = binder[b].subject
  PROVE  BindingInv'
<1>1. BindingTypes'
  BY DEF BindingInv, BindingTypes
<1>2. HoldingKept
  BY DEF HoldingKept, Holding, BinderRests
<1>3. ChallengesKept
  BY DEF ChallengesKept, BindingInv, BindingFacts
<1>4. \A d \in Binders : binder'[d].at \in {"bind", "restore"} => binder'[d].subject \in Challenges
  BY DEF BinderRests, BindingInv, BindingFacts
<1> QED BY <1>1, <1>2, <1>3, <1>4, BindingMove

\* Challenge rows are created, superseded and expire.
LEMMA ChallengeRowSteps ==
  ASSUME BindingInv, NEW c \in Challenges,
         ChallengeExpires(c) \/ \E address \in Addresses : RequestVerification(c, address)
  PROVE  BindingInv'
<1>0. binder' = binder /\ proved' = proved
  BY DEF ChallengeExpires, RequestVerification
<1>1. /\ challenge' \in [Challenges -> [issued : BOOLEAN, mailed : BOOLEAN, used : BOOLEAN,
                                       expired : BOOLEAN, address : Addresses \cup {Free}]]
      /\ ChallengesKept
  <2>1. CASE ChallengeExpires(c)
    <3>1. challenge' = [challenge EXCEPT ![c] = [challenge[c] EXCEPT !.expired = TRUE]]
      BY <2>1 DEF ChallengeExpires
    <3>2. challenge \in [Challenges -> [issued : BOOLEAN, mailed : BOOLEAN, used : BOOLEAN,
                                       expired : BOOLEAN, address : Addresses \cup {Free}]]
      BY DEF BindingInv, BindingTypes
    <3>3. challenge' \in [Challenges -> [issued : BOOLEAN, mailed : BOOLEAN, used : BOOLEAN,
                                        expired : BOOLEAN, address : Addresses \cup {Free}]]
      BY <3>1, <3>2
    <3>4. \A d \in Challenges : /\ challenge'[d].used = challenge[d].used
                               /\ challenge'[d].issued = challenge[d].issued
                               /\ challenge'[d].mailed = challenge[d].mailed
      BY <3>1, <3>2
    <3>5. ChallengesKept
      BY <3>4 DEF ChallengesKept, BindingInv, BindingFacts
    <3> QED BY <3>3, <3>5
  <2>2. ASSUME NEW address \in Addresses, RequestVerification(c, address)
        PROVE  /\ challenge' \in [Challenges -> [issued : BOOLEAN, mailed : BOOLEAN, used : BOOLEAN,
                                       expired : BOOLEAN, address : Addresses \cup {Free}]]
               /\ ChallengesKept
    <3>1. PICK mailed \in BOOLEAN : challenge' = [challenge EXCEPT ![c] =
             [issued |-> TRUE, mailed |-> mailed, used |-> FALSE, expired |-> FALSE, address |-> address]]
      BY <2>2 DEF RequestVerification, Unissued
    <3>2. ~challenge[c].issued /\ ~challenge[c].used
      BY <2>2 DEF RequestVerification, BindingInv, BindingFacts
    <3> QED BY ZenonT(40), <3>1, <3>2 DEF ChallengesKept, BindingInv, BindingTypes, BindingFacts
  <2> QED BY <2>1, <2>2
<1>2. BindingTypes' /\ HoldingKept
  BY <1>0, <1>1 DEF BindingInv, BindingTypes, HoldingKept, Holding
<1>3. \A d \in Binders : binder'[d].at \in {"bind", "restore"} => binder'[d].subject \in Challenges
  BY <1>0 DEF BindingInv, BindingFacts
<1> QED BY <1>0, <1>1, <1>2, <1>3, BindingMove

\* A code that fits consumes its challenge, once.
LEMMA ConsumeChallengeSteps ==
  ASSUME BindingInv, NEW b \in Binders, NEW c \in Challenges, Consume(b, c)
  PROVE  BindingInv'
<1>1. /\ binder' \in [Binders -> [at : {"idle", "bind", "restore", "prefer", "store"},
                                   subject : Challenges \cup Bound \cup {Free}]]
      /\ binder'[b].at = "bind" /\ binder'[b].subject = c
      /\ \A d \in Binders : d # b => binder'[d] = binder[d]
  BY BinderWrites DEF Consume, BinderGoes
<1>2. /\ challenge' \in [Challenges -> [issued : BOOLEAN, mailed : BOOLEAN, used : BOOLEAN,
                                       expired : BOOLEAN, address : Addresses \cup {Free}]]
      /\ challenge'[c].used
      /\ \A d \in Challenges : /\ d # c => challenge'[d].used = challenge[d].used
                               /\ challenge'[d].issued = challenge[d].issued
                               /\ challenge'[d].mailed = challenge[d].mailed
  BY DEF Consume, BindingInv, BindingTypes
<1>3. ~challenge[c].used /\ challenge[c].issued /\ proved' = proved
  BY DEF Consume, Usable, BindingInv, BindingFacts
<1>4. Taken(b, c)
  BY <1>1, <1>2, <1>3 DEF Taken, Holding
<1>5. BindingTypes'
  BY <1>1, <1>2, <1>3 DEF BindingInv, BindingTypes
<1>6. \A d \in Binders : binder'[d].at \in {"bind", "restore"} => binder'[d].subject \in Challenges
  BY <1>1 DEF BindingInv, BindingFacts
<1> QED BY <1>4, <1>5, <1>6, BindingMove

\* Bind of a consumed challenge, and Restore where it failed.
LEMMA BindTargetSteps ==
  ASSUME BindingInv, NEW b \in Binders, Bind(b) \/ Restore(b)
  PROVE  BindingInv'
<1> DEFINE c == binder[b].subject
<1>0. c \in Challenges /\ Holding(b, c) /\ challenge[c].issued
  BY DEF Bind, Restore, BinderAt, Holding, BindingInv, BindingFacts
<1>1. CASE Bind(b) /\ BinderGoes(b, "restore", c)
  <2>1. /\ binder' \in [Binders -> [at : {"idle", "bind", "restore", "prefer", "store"},
                                     subject : Challenges \cup Bound \cup {Free}]]
        /\ binder'[b].at = "restore" /\ binder'[b].subject = c
        /\ \A d \in Binders : d # b => binder'[d] = binder[d]
    BY <1>0, <1>1, BinderWrites DEF BinderGoes
  <2>2. challenge' = challenge /\ proved' = proved /\ binder[b].at = "bind"
    <3>1. binder'[b].at # "idle"
      BY <2>1
    <3> QED BY <1>1, <3>1 DEF Bind, BinderAt, FreeBinder, BindingInv, BindingTypes
  <2> QED BY <2>1, <2>2, BindingRests
<1>2. CASE /\ binder' = [binder EXCEPT ![b] = FreeBinder] /\ challenge' = challenge
           /\ proved' = [proved EXCEPT ![c] = @ + 1]
  <2>1. BinderRests(b) /\ binder' \in [Binders -> [at : {"idle", "bind", "restore", "prefer", "store"},
                                                  subject : Challenges \cup Bound \cup {Free}]]
    BY <1>2, BinderFreed
  <2>2. TargetFreed(b)
    BY <2>1 DEF BinderRests, TargetFreed, HoldingKept, Holding
  <2>3. BindingTypes' /\ ChallengesKept
    BY <1>0, <1>2, <2>1 DEF BindingInv, BindingTypes, BindingFacts, ChallengesKept
  <2>4. \A d \in Binders : binder'[d].at \in {"bind", "restore"} => binder'[d].subject \in Challenges
    BY <2>1 DEF BinderRests, BindingInv, BindingFacts
  <2> QED BY <1>0, <1>2, <2>2, <2>3, <2>4, BindingMove
<1>3. CASE /\ binder' = [binder EXCEPT ![b] = FreeBinder] /\ proved' = proved
           /\ challenge' = [challenge EXCEPT ![c].used = @ /\ challenge[c].expired]
  <2>1. BinderRests(b) /\ binder' \in [Binders -> [at : {"idle", "bind", "restore", "prefer", "store"},
                                                  subject : Challenges \cup Bound \cup {Free}]]
    BY <1>3, BinderFreed
  <2>2. TargetFreed(b)
    BY <2>1 DEF BinderRests, TargetFreed, HoldingKept, Holding
  <2>3. PICK used \in BOOLEAN : challenge' = [challenge EXCEPT ![c].used = used]
    BY <1>3
  <2>4. /\ challenge' \in [Challenges -> [issued : BOOLEAN, mailed : BOOLEAN, used : BOOLEAN,
                                         expired : BOOLEAN, address : Addresses \cup {Free}]]
        /\ \A d \in Challenges : /\ d # c => challenge'[d].used = challenge[d].used
                                 /\ challenge'[d].issued = challenge[d].issued
                                 /\ challenge'[d].mailed = challenge[d].mailed
    BY <1>0, <2>3 DEF BindingInv, BindingTypes
  <2>5. BindingTypes'
    BY <1>3, <2>1, <2>4 DEF BindingInv, BindingTypes
  <2>6. \A d \in Binders : binder'[d].at \in {"bind", "restore"} => binder'[d].subject \in Challenges
    BY <2>1 DEF BinderRests, BindingInv, BindingFacts
  <2>7. \E x \in Binders, y \in Challenges :
          /\ Holding(x, y) /\ TargetFreed(x) /\ UNCHANGED proved
          /\ \A d \in Challenges : /\ d # y => challenge'[d].used = challenge[d].used
                                   /\ challenge'[d].issued = challenge[d].issued
                                   /\ challenge'[d].mailed = challenge[d].mailed
    <3>1. PICK y \in Challenges : y = c
      BY <1>0
    <3>2. \A d \in Challenges : /\ d # y => challenge'[d].used = challenge[d].used
                                /\ challenge'[d].issued = challenge[d].issued
                                /\ challenge'[d].mailed = challenge[d].mailed
      BY <2>4, <3>1
    <3>3. Holding(b, y) /\ TargetFreed(b) /\ UNCHANGED proved
      BY <1>0, <1>3, <2>2, <3>1
    <3> QED BY <3>2, <3>3
  <2> QED BY <2>5, <2>6, <2>7, BindingMove
<1>4. CASE binder' = [binder EXCEPT ![b] = FreeBinder] /\ proved' = proved /\ challenge' = challenge
  BY <1>4, BinderFreed, BindingRests
<1> QED BY <1>1, <1>2, <1>3, <1>4 DEF Bind, Restore

\* Preferences, direct bindings and crashes touch no challenge.
LEMMA PreferSteps ==
  ASSUME BindingInv, NEW b \in Binders,
         \/ StorePreference(b) \/ BinderCrash(b)
         \/ \E x \in Bound : Prefer(b, x) \/ \E address \in Addresses : BindDirect(b, x, address)
  PROVE  BindingInv'
<1>0. challenge' = challenge /\ proved' = proved
  BY DEF StorePreference, BinderCrash, Prefer, BindDirect
<1>1. CASE binder' = [binder EXCEPT ![b] = FreeBinder]
  BY <1>0, <1>1, BinderFreed, BindingRests
<1>2. ASSUME NEW x \in Bound, NEW at \in {"prefer", "store"}, BinderGoes(b, at, x) PROVE BindingInv'
  <2>1. /\ binder' \in [Binders -> [at : {"idle", "bind", "restore", "prefer", "store"},
                                     subject : Challenges \cup Bound \cup {Free}]]
        /\ binder'[b].at = at
        /\ \A d \in Binders : d # b => binder'[d] = binder[d]
    BY <1>2, BinderWrites DEF BinderGoes
  <2> QED BY <1>0, <2>1, BindingRests DEF BinderRests
<1>3. CASE binder' = binder
  BY <1>0, <1>3 DEF BindingInv, BindingTypes, BindingFacts, Holding
<1> QED BY <1>1, <1>2, <1>3 DEF StorePreference, BinderCrash, Prefer, BindDirect

\* A mailed token proves one binding, however its requests fail, crash and give it back
\* (delivery/service.go:597).
THEOREM ProvedOnceHolds == BindingSpec => []ProvedOnce
<1>1. ASSUME BindingInv, BindingNext PROVE BindingInv'
  <2>1. CASE CooldownEnds \/ \E x \in Bound : Disable(x) \/ Revoke(x)
    <3>1. challenge' = challenge /\ proved' = proved /\ binder' = binder
      BY <2>1 DEF CooldownEnds, Disable, Revoke
    <3> QED BY <1>1, <3>1 DEF BindingInv, BindingTypes, BindingFacts, Holding
  <2> QED BY <1>1, <2>1, ChallengeRowSteps, ConsumeChallengeSteps, BindTargetSteps, PreferSteps
          DEF BindingNext
<1>2. ASSUME BindingInv, UNCHANGED bindingVars PROVE BindingInv'
  BY <1>2 DEF bindingVars, BindingInv, BindingTypes, BindingFacts, Holding
<1>3. BindingInv => ProvedOnce
  BY DEF BindingInv, BindingFacts, ProvedOnce
<1> QED BY BindingInitInv, <1>1, <1>2, <1>3, PTL DEF BindingSpec

-----------------------------------------------------------------------------
(* Accounts: who a login session belongs to while requests merge accounts,   *)
(* rotate sessions and give codes back.                                      *)

CallerRecord ==
    {r \in [at : Steps, code : Codes \cup {Nobody}, guest : Anonymous \cup {Nobody},
            account : Anonymous \cup Registered \cup {Nobody}, token : Tokens \cup {Nobody}] :
        r.at \in {"account", "rotate"} => r.token \in Tokens}
TokenRecord == [state : {"free", "active", "revoked"}, account : Anonymous \cup Registered \cup {Nobody}]
CodeRecord == [phone : Phones \cup {Nobody}, state : {"none", "sent", "used", "expired"},
               guesses : 0 .. MaxGuesses, verified : Nat]
PhoneRowRecord == [phone : Phones \cup {Nobody}, digest : {"none", "legacy", "current"}]
HoldSteps == {"current", "legacy", "upgrade", "insert", "finish", "restore"}

AccountTypes ==
    /\ anonymous \in [Anonymous -> {"none", "live"} \cup Registered]
    /\ registered \in [Registered -> PhoneRowRecord]
    /\ token \in [Tokens -> TokenRecord]
    /\ code \in [Codes -> CodeRecord]
    /\ caller \in [Callers -> CallerRecord]

Issues(k, a) == caller[k].at = "issue" /\ caller[k].account = a
Unseen(a) == (\A t \in Tokens : token[t].account # a) /\ (\A k \in Callers : caller[k].guest # a)

\* An account that is not written yet, or that waits for its first session, is
\* known to nobody; a request that will open a session has found a live account.
TokenFacts ==
    /\ \A t \in Tokens : token[t].state = "active" =>
          token[t].account \in Anonymous \cup Registered /\ Live(token[t].account)
    /\ \A a \in Anonymous : anonymous[a] = "none" => Unseen(a)
    /\ \A k \in Callers : caller[k].at = "issue" =>
          /\ caller[k].account \in Anonymous /\ anonymous[caller[k].account] = "live"
          /\ Unseen(caller[k].account)
          /\ \A d \in Callers : Issues(d, caller[k].account) => d = k
    /\ \A k \in Callers : caller[k].at \in {"upgrade", "finish"} =>
          caller[k].account \in Registered /\ registered[caller[k].account].digest # "none"

HoldsCode(k, c) == caller[k].at \in HoldSteps /\ caller[k].code = c

\* A code is in the hands of one request at a time, and in none once it logged in.
CodeFacts ==
    /\ \A k \in Callers : caller[k].at \in HoldSteps => caller[k].code \in Codes
    /\ \A c \in Codes :
          /\ code[c].verified \in {0, 1}
          /\ code[c].verified = 1 => code[c].state \in {"used", "expired"}
          /\ code[c].state = "none" => code[c] = Unsent
          /\ \A k \in Callers : HoldsCode(k, c) =>
                /\ code[c].state \in {"used", "expired"} /\ code[c].verified = 0
                /\ \A d \in Callers : HoldsCode(d, c) => d = k

\* A request inserts only where no account has the phone by its old digest.
RowFacts ==
    /\ OneRowPerPhone
    /\ \A r \in Registered : registered[r].phone \in Phones => registered[r].digest # "none"
    /\ \A k \in Callers : caller[k].at = "insert" =>
          \A r \in Registered : ~(registered[r].digest = "legacy" /\ registered[r].phone = code[caller[k].code].phone)

AccountInv == AccountTypes /\ TokenFacts /\ CodeFacts /\ RowFacts

\* Every initial state satisfies the account invariant.
LEMMA AccountInitInv == AccountInit => AccountInv
<1> SUFFICES ASSUME AccountInit PROVE AccountInv
  OBVIOUS
<1>1. AccountTypes
  <2>1. FreeCaller \in CallerRecord /\ NoToken \in TokenRecord /\ Unsent \in CodeRecord /\ Unwritten \in PhoneRowRecord
    BY AccountAssumption DEF FreeCaller, CallerRecord, NoToken, TokenRecord, Unsent, CodeRecord,
       Unwritten, PhoneRowRecord, Steps
  <2>2. [phone : Phones, digest : {"legacy"}] \subseteq PhoneRowRecord
    BY DEF PhoneRowRecord
  <2> QED BY <2>1, <2>2 DEF AccountInit, AccountTypes
<1>2. \A k \in Callers : caller[k].at = "idle" /\ caller[k].guest = Nobody
  BY DEF AccountInit, FreeCaller
<1>3. TokenFacts
  BY <1>2, AccountAssumption DEF TokenFacts, AccountInit, Unseen, Issues, NoToken
<1>4. CodeFacts
  BY <1>2 DEF CodeFacts, AccountInit, HoldsCode, HoldSteps, Unsent
<1>5. \A r \in Registered : registered[r].phone \in Phones => registered[r].digest # "none"
  BY AccountAssumption DEF AccountInit, Unwritten
<1>6. RowFacts
  BY <1>2, <1>5 DEF RowFacts, AccountInit
<1> QED BY <1>1, <1>3, <1>4, <1>6 DEF AccountInv

\* What writing a caller's record changes.
LEMMA CallerWrites ==
  ASSUME AccountTypes, NEW k \in Callers, NEW r \in CallerRecord, caller' = [caller EXCEPT ![k] = r]
  PROVE  /\ caller' \in [Callers -> CallerRecord] /\ caller'[k] = r
         /\ \A d \in Callers : d # k => caller'[d] = caller[d]
  BY DEF AccountTypes

\* A request that goes on keeps its code and its guest.
GoesOn(k, place) ==
    /\ caller' \in [Callers -> CallerRecord]
    /\ \A d \in Callers : d # k => caller'[d] = caller[d]
    /\ caller'[k].at = place
    /\ caller'[k].code = caller[k].code /\ caller'[k].guest = caller[k].guest
Stops(k) ==
    /\ caller' \in [Callers -> CallerRecord]
    /\ \A d \in Callers : d # k => caller'[d] = caller[d]
    /\ caller'[k].at = "idle" /\ caller'[k].guest = Nobody

\* A caller that moves on, with rows and tokens untouched.
LEMMA CallerGoes ==
  ASSUME AccountTypes, NEW k \in Callers, NEW place \in Steps, Goes(k, place),
         place \in {"account", "rotate"} => caller[k].at = "account"
  PROVE  GoesOn(k, place) /\ caller'[k].account = caller[k].account
<1> DEFINE r == [caller[k] EXCEPT !.at = place]
<1>1. caller[k] \in CallerRecord
  BY DEF AccountTypes
<1>2. /\ r \in CallerRecord /\ r.at = place /\ r.account = caller[k].account
      /\ r.code = caller[k].code /\ r.guest = caller[k].guest
  BY <1>1 DEF CallerRecord
<1>3. caller' = [caller EXCEPT ![k] = r]
  BY DEF Goes
<1> HIDE DEF r
<1> QED BY <1>2, <1>3, CallerWrites DEF GoesOn

\* A caller that has looked up a row: it found a row that is there.
LEMMA CallerFinds ==
  ASSUME AccountTypes, NEW k \in Callers, NEW place \in {"upgrade", "finish"}, NEW o \in Registered,
         Found(k, o, place)
  PROVE  GoesOn(k, place) /\ caller'[k].account = o
<1> DEFINE r == [caller[k] EXCEPT !.at = place, !.account = o]
<1>1. caller[k] \in CallerRecord
  BY DEF AccountTypes
<1>2. /\ r \in CallerRecord /\ r.at = place /\ r.account = o
      /\ r.code = caller[k].code /\ r.guest = caller[k].guest
  BY <1>1 DEF CallerRecord, Steps
<1>3. caller' = [caller EXCEPT ![k] = r]
  BY <1>1 DEF Found, CallerRecord, AccountTypes
<1> HIDE DEF r
<1> QED BY <1>2, <1>3, CallerWrites DEF GoesOn

\* A caller that gives up.
LEMMA CallerStops ==
  ASSUME AccountTypes, NEW k \in Callers, Leaves(k)
  PROVE  Stops(k)
<1>1. FreeCaller \in CallerRecord /\ FreeCaller.at = "idle" /\ FreeCaller.guest = Nobody
  BY DEF FreeCaller, CallerRecord, Steps
<1> QED BY <1>1, CallerWrites DEF Stops, Leaves

\* What a step may do to sessions and to the accounts they name: it adds one for
\* a registered account, for one a session is open for, or the first one.
IssuersKept ==
    \A d \in Callers : caller'[d].at = "issue" => caller[d].at = "issue" /\ caller'[d].account = caller[d].account
GuestsKept ==
    \A d \in Callers : \/ caller'[d].guest \in {Nobody, caller[d].guest}
                       \/ \E t \in Tokens : token[t].account = caller'[d].guest
AccountsKept ==
    \A t \in Tokens : \/ token'[t].account \in Registered \cup {Nobody}
                      \/ \E s \in Tokens : token'[t].account = token[s].account
                      \/ \E d \in Callers : Issues(d, token'[t].account) /\ caller'[d].at # "issue"
Merges == \A a \in Anonymous : \/ anonymous'[a] = anonymous[a]
                               \/ anonymous'[a] \in Registered /\ ~Unseen(a)
TokensActive ==
    \A t \in Tokens : token[t].state = "active" =>
        token[t].account \in Anonymous \cup Registered /\ Live(token[t].account)
FoundLive ==
    \A k \in Callers : caller[k].at \in {"upgrade", "finish"} =>
        caller[k].account \in Registered /\ registered[caller[k].account].digest # "none"

\* Tokens are added, revoked or expire: no session changes its user.
LEMMA TokensMove ==
  ASSUME AccountInv, IssuersKept, GuestsKept, AccountsKept, Merges, TokensActive', FoundLive'
  PROVE  TokenFacts'
<1> USE DEF AccountInv, TokenFacts
<1>1. ASSUME NEW a \in Anonymous, Unseen(a), \A d \in Callers : Issues(d, a) => caller'[d].at = "issue"
      PROVE  Unseen(a)'
  <2>1. \A t \in Tokens : token'[t].account # a
    BY <1>1, AccountAssumption DEF AccountsKept, Unseen
  <2>2. \A k \in Callers : caller'[k].guest # a
    BY <1>1, AccountAssumption DEF GuestsKept, Unseen
  <2> QED BY <2>1, <2>2 DEF Unseen
<1>2. ASSUME NEW a \in Anonymous, anonymous'[a] = "none" PROVE Unseen(a)'
  <2>1. anonymous[a] = "none"
    BY <1>2, AccountAssumption DEF Merges
  <2>2. \A d \in Callers : ~Issues(d, a)
    BY <2>1 DEF Issues
  <2> QED BY <2>1, <2>2, <1>1
<1>3. ASSUME NEW k \in Callers, caller'[k].at = "issue"
      PROVE  /\ caller'[k].account \in Anonymous /\ anonymous'[caller'[k].account] = "live"
             /\ Unseen(caller[k].account)' /\ \A d \in Callers : Issues(d, caller[k].account)' => d = k
  <2>1. PICK a : a = caller[k].account
    OBVIOUS
  <2>2. /\ caller[k].at = "issue" /\ caller'[k].account = a /\ a \in Anonymous /\ anonymous[a] = "live"
        /\ Unseen(a) /\ \A d \in Callers : Issues(d, a) => d = k
    BY <1>3, <2>1 DEF IssuersKept
  <2>3. anonymous'[a] = "live"
    BY <2>2 DEF Merges
  <2>4. Unseen(a)'
    BY <1>3, <2>2, <1>1
  <2>5. \A d \in Callers : Issues(d, a)' => d = k
    BY <2>2 DEF IssuersKept, Issues
  <2>6. a = caller'[k].account
    BY <2>2
  <2> QED BY <2>2, <2>3, <2>4, <2>5, <2>6
<1> QED BY <1>2, <1>3 DEF TokensActive, FoundLive

\* Nothing but requests moved: what they hold, wait for and found.
LEMMA TokensRest ==
  ASSUME AccountInv, IssuersKept, GuestsKept, token' = token, anonymous' = anonymous, FoundLive',
         \A r \in Registered : registered[r].digest # "none" => registered'[r].digest # "none"
  PROVE  TokenFacts'
<1>1. AccountsKept /\ Merges
  BY DEF AccountsKept, Merges
<1>2. TokensActive'
  BY DEF AccountInv, TokenFacts, TokensActive, Live
<1> QED BY <1>1, <1>2, TokensMove

\* A step that leaves the verification codes alone keeps what is known of them.
LEMMA CodesRest ==
  ASSUME AccountInv,
         \A d \in Callers : caller'[d].at \in HoldSteps => caller[d].at \in HoldSteps /\ caller'[d].code = caller[d].code,
         \A c \in Codes : \/ code'[c] = code[c]
                          \/ /\ code[c].state \in {"sent", "used", "expired"} /\ code'[c].verified = code[c].verified
                             /\ code'[c].state = code[c].state \/ code'[c].state = "expired"
  PROVE  CodeFacts'
BY DEF AccountInv, CodeFacts, HoldsCode

\* A step that leaves the user rows alone keeps what is known of them.
LEMMA RowsRest ==
  ASSUME AccountInv, registered' = registered,
         \A d \in Callers : caller'[d].at = "insert" =>
            \/ caller[d].at = "insert" /\ caller'[d].code = caller[d].code
            \/ \A r \in Registered : ~(registered[r].digest = "legacy" /\ registered[r].phone = code[caller'[d].code].phone),
         \A d \in Callers : caller'[d].at \in HoldSteps =>
            caller'[d].code \in Codes /\ code'[caller'[d].code].phone = code[caller'[d].code].phone
  PROVE  RowFacts'
BY DEF AccountInv, RowFacts, OneRowPerPhone, HoldSteps

\* A step of one request that writes nothing.
LEMMA CallerMoves ==
  ASSUME AccountInv, NEW k \in Callers, registered' = registered, token' = token,
         anonymous' = anonymous, code' = code,
         \/ Stops(k)
         \/ \E place \in Steps \ {"issue"} :
               /\ GoesOn(k, place)
               /\ place \in HoldSteps => caller[k].at \in HoldSteps
               /\ place \in {"upgrade", "finish"} =>
                     caller'[k].account \in Registered /\ registered[caller'[k].account].digest # "none"
               /\ place = "insert" =>
                     \A r \in Registered : ~(registered[r].digest = "legacy" /\ registered[r].phone = PhoneOf(k))
  PROVE  AccountInv'
<1>1. AccountTypes'
  BY DEF AccountInv, AccountTypes, Stops, GoesOn
<1>2. IssuersKept /\ GuestsKept
  BY DEF IssuersKept, GuestsKept, Stops, GoesOn
<1>3. FoundLive'
  BY DEF AccountInv, TokenFacts, FoundLive, Stops, GoesOn
<1>4. TokenFacts'
  BY <1>2, <1>3, TokensRest
<1>5. \A d \in Callers : caller'[d].at \in HoldSteps => caller[d].at \in HoldSteps /\ caller'[d].code = caller[d].code
  BY DEF Stops, GoesOn, HoldSteps
<1>6. CodeFacts'
  BY <1>5, CodesRest
<1>7. RowFacts'
  <2>1. \A d \in Callers : caller'[d].at \in HoldSteps => caller'[d].code \in Codes
    BY <1>5 DEF AccountInv, CodeFacts
  <2>2. \A d \in Callers : caller'[d].at = "insert" =>
            \/ caller[d].at = "insert" /\ caller'[d].code = caller[d].code
            \/ \A r \in Registered : ~(registered[r].digest = "legacy" /\ registered[r].phone = code[caller'[d].code].phone)
    BY DEF Stops, GoesOn, PhoneOf
  <2> QED BY <2>1, <2>2, RowsRest
<1> QED BY <1>1, <1>4, <1>6, <1>7 DEF AccountInv

\* The challenge in hand, and the account found for it.
LEMMA InHand ==
  ASSUME AccountInv, NEW k \in Callers, caller[k].at \in HoldSteps
  PROVE  /\ caller[k].code \in Codes /\ HoldsCode(k, caller[k].code)
         /\ caller[k].at \in {"upgrade", "finish"} => caller[k].account \in Registered
BY DEF AccountInv, CodeFacts, TokenFacts, HoldsCode

\* A request that looks an account up, is refused, or crashes.
LEMMA LookupSteps ==
  ASSUME AccountInv, NEW k \in Callers,
         FindCurrent(k) \/ FindLegacy(k) \/ MergeRefused(k) \/ VerifyFails(k) \/ ReadAccount(k) \/ CallerCrash(k)
  PROVE  AccountInv'
<1> USE DEF AccountInv
<1>0. registered' = registered /\ token' = token /\ anonymous' = anonymous /\ code' = code
  BY DEF FindCurrent, FindLegacy, MergeRefused, VerifyFails, ReadAccount, CallerCrash
<1>1. CASE Leaves(k)
  BY <1>0, <1>1, CallerStops, CallerMoves
<1>2. ASSUME Goes(k, "restore"), caller[k].at \in HoldSteps PROVE AccountInv'
  <2>1. GoesOn(k, "restore")
    BY <1>2, CallerGoes DEF Steps
  <2> QED BY <1>0, <1>2, <2>1, CallerMoves DEF Steps
<1>3. ASSUME Goes(k, "rotate"), caller[k].at = "account" PROVE AccountInv'
  <2>1. GoesOn(k, "rotate")
    BY <1>3, CallerGoes DEF Steps
  <2> QED BY <1>0, <2>1, CallerMoves DEF Steps, HoldSteps
<1>4. ASSUME Goes(k, "legacy"), caller[k].at = "current" PROVE AccountInv'
  <2>1. GoesOn(k, "legacy")
    BY <1>4, CallerGoes DEF Steps
  <2> QED BY <1>0, <1>4, <2>1, CallerMoves DEF Steps, HoldSteps
<1>5. ASSUME Goes(k, "insert"), caller[k].at = "legacy", With(PhoneOf(k), "legacy") = {} PROVE AccountInv'
  <2>1. GoesOn(k, "insert")
    BY <1>5, CallerGoes DEF Steps
  <2>2. \A r \in Registered : ~(registered[r].digest = "legacy" /\ registered[r].phone = PhoneOf(k))
    <3>1. \A r \in Registered : registered[r] \in PhoneRowRecord
      BY DEF AccountTypes
    <3> QED BY <1>5, <3>1 DEF With, PhoneRowRecord
  <2> QED BY <1>0, <1>5, <2>1, <2>2, CallerMoves DEF Steps, HoldSteps
<1>6. ASSUME NEW o \in Registered, NEW place \in {"upgrade", "finish"}, Found(k, o, place),
             caller[k].at \in HoldSteps, registered[o].digest # "none"
      PROVE  AccountInv'
  <2>1. GoesOn(k, place) /\ caller'[k].account = o
    BY <1>6, CallerFinds DEF Steps
  <2> QED BY <1>0, <1>6, <2>1, CallerMoves DEF Steps
<1>7. CASE FindCurrent(k)
  BY <1>7, <1>4, <1>6 DEF FindCurrent, With, CallerAt, HoldSteps
<1>8. CASE FindLegacy(k)
  BY <1>8, <1>5, <1>6 DEF FindLegacy, With, CallerAt, HoldSteps
<1>9. CASE MergeRefused(k) \/ VerifyFails(k)
  BY <1>9, <1>2 DEF MergeRefused, VerifyFails, CallerAt, HoldSteps
<1> QED BY <1>1, <1>3, <1>7, <1>8, <1>9 DEF ReadAccount, CallerCrash, CallerAt

\* A phone challenge is created, guessed at or expires.
LEMMA CodeRowSteps ==
  ASSUME AccountInv,
         \/ \E p \in Phones : CreatePhoneChallenge(p)
         \/ \E c \in Codes : Guess(c) \/ CodeExpires(c)
  PROVE  AccountInv'
<1>0. registered' = registered /\ token' = token /\ anonymous' = anonymous /\ caller' = caller
  BY DEF CreatePhoneChallenge, Guess, CodeExpires
<1>1. IssuersKept /\ GuestsKept /\ FoundLive'
  BY <1>0 DEF IssuersKept, GuestsKept, FoundLive, AccountInv, TokenFacts
<1>2. TokenFacts'
  BY <1>0, <1>1, TokensRest
<1>3. ASSUME NEW p \in Phones, CreatePhoneChallenge(p) PROVE AccountInv'
  <2>1. PICK c \in Codes : /\ code[c] = Unsent
                           /\ code' = [code EXCEPT ![c] = [phone |-> p, state |-> "sent", guesses |-> 0, verified |-> 0]]
    BY <1>3 DEF CreatePhoneChallenge, FreshCode
  <2> DEFINE r == [phone |-> p, state |-> "sent", guesses |-> 0, verified |-> 0]
  <2>2. r \in CodeRecord /\ r.verified = 0 /\ r.state = "sent"
    <3>1. 0 \in 0 .. MaxGuesses
      BY AccountAssumption
    <3> QED BY <3>1 DEF CodeRecord
  <2>3. code' = [code EXCEPT ![c] = r]
    BY <2>1
  <2> HIDE DEF r
  <2>4. code' \in [Codes -> CodeRecord] /\ code'[c] = r /\ \A d \in Codes : d # c => code'[d] = code[d]
    BY <2>2, <2>3 DEF AccountInv, AccountTypes
  <2>5. AccountTypes'
    BY <1>0, <2>4 DEF AccountInv, AccountTypes
  <2>6. \A k \in Callers : ~HoldsCode(k, c)
    BY <2>1 DEF AccountInv, CodeFacts, Unsent
  <2>7. CodeFacts'
    BY <1>0, <2>2, <2>4, <2>6 DEF AccountInv, CodeFacts, HoldsCode
  <2>8. \A d \in Callers : caller'[d].at \in HoldSteps =>
            caller'[d].code \in Codes /\ code'[caller'[d].code].phone = code[caller'[d].code].phone
    BY <1>0, <2>4, <2>6 DEF AccountInv, CodeFacts, HoldsCode
  <2>9. RowFacts'
    BY <1>0, <2>8, RowsRest
  <2> QED BY <1>2, <2>5, <2>7, <2>9 DEF AccountInv
<1>4. ASSUME NEW c \in Codes, Guess(c) \/ CodeExpires(c) PROVE AccountInv'
  <2>1. PICK r \in CodeRecord : /\ code' = [code EXCEPT ![c] = r]
                                /\ r.phone = code[c].phone /\ r.verified = code[c].verified
                                /\ r.state \in {code[c].state, "expired"} /\ code[c].state \in {"sent", "used"}
    <3>1. code[c] \in CodeRecord
      BY DEF AccountInv, AccountTypes
    <3>2. CASE Guess(c)
      <4>1. [code[c] EXCEPT !.guesses = @ + 1] \in CodeRecord
        BY <3>1, <3>2, AccountAssumption DEF Guess, CodeRecord
      <4> QED BY <3>1, <3>2, <4>1 DEF Guess, CodeRecord
    <3>3. CASE CodeExpires(c)
      <4>1. [code[c] EXCEPT !.state = "expired"] \in CodeRecord
        BY <3>1 DEF CodeRecord
      <4> QED BY <3>1, <3>3, <4>1 DEF CodeExpires, CodeRecord
    <3> QED BY <1>4, <3>2, <3>3
  <2>2. code' \in [Codes -> CodeRecord] /\ code'[c] = r /\ \A d \in Codes : d # c => code'[d] = code[d]
    BY <2>1 DEF AccountInv, AccountTypes
  <2>3. AccountTypes'
    BY <1>0, <2>2 DEF AccountInv, AccountTypes
  <2>4. \A d \in Codes : \/ code'[d] = code[d]
                         \/ /\ code[d].state \in {"sent", "used", "expired"} /\ code'[d].verified = code[d].verified
                            /\ code'[d].state = code[d].state \/ code'[d].state = "expired"
    BY <2>1, <2>2
  <2>5. CodeFacts'
    BY <1>0, <2>4, CodesRest
  <2>6. \A d \in Codes : code'[d].phone = code[d].phone
    BY <2>1, <2>2
  <2>7. RowFacts'
    BY <1>0, <2>6, RowsRest DEF AccountInv, CodeFacts
  <2> QED BY <1>2, <2>3, <2>5, <2>7 DEF AccountInv
<1> QED BY <1>3, <1>4

\* A code that is sent is in no request's hands and has logged nobody in.
LEMMA ConsumeCodeSteps ==
  ASSUME AccountInv, NEW k \in Callers, NEW c \in Codes, NEW g \in Anonymous \cup {Nobody},
         ConsumeChallenge(k, c, g)
  PROVE  AccountInv'
<1>0. registered' = registered /\ token' = token /\ anonymous' = anonymous
  BY DEF ConsumeChallenge
<1> DEFINE r == [FreeCaller EXCEPT !.at = "current", !.code = c, !.guest = g]
<1>1. r \in CallerRecord /\ r.at = "current" /\ r.code = c /\ r.guest = g
  BY DEF FreeCaller, CallerRecord, Steps
<1>2. caller' = [caller EXCEPT ![k] = r]
  BY DEF ConsumeChallenge
<1> HIDE DEF r
<1>3. /\ caller' \in [Callers -> CallerRecord] /\ caller'[k] = r
      /\ \A d \in Callers : d # k => caller'[d] = caller[d]
  BY <1>1, <1>2, CallerWrites DEF AccountInv
<1>4. PICK q \in CodeRecord : /\ code' = [code EXCEPT ![c] = q] /\ q.state = "used"
                              /\ q.verified = code[c].verified /\ q.phone = code[c].phone
  <2>1. code[c] \in CodeRecord
    BY DEF AccountInv, AccountTypes
  <2>2. /\ [code[c] EXCEPT !.state = "used"] \in CodeRecord
        /\ [code[c] EXCEPT !.state = "used"].state = "used"
        /\ [code[c] EXCEPT !.state = "used"].verified = code[c].verified
        /\ [code[c] EXCEPT !.state = "used"].phone = code[c].phone
    BY <2>1 DEF CodeRecord
  <2>3. code' = [code EXCEPT ![c] = [code[c] EXCEPT !.state = "used"]]
    BY DEF ConsumeChallenge
  <2> QED BY <2>2, <2>3
<1>5. code' \in [Codes -> CodeRecord] /\ code'[c] = q /\ \A d \in Codes : d # c => code'[d] = code[d]
  BY <1>4 DEF AccountInv, AccountTypes
<1>6. AccountTypes'
  BY <1>0, <1>3, <1>5 DEF AccountInv, AccountTypes
<1>7. IssuersKept /\ GuestsKept
  <2>1. g # Nobody => \E t \in Tokens : token[t].account = g
    BY DEF ConsumeChallenge
  <2> QED BY <1>1, <1>3, <2>1 DEF IssuersKept, GuestsKept
<1>8. FoundLive'
  BY <1>0, <1>1, <1>3 DEF FoundLive, AccountInv, TokenFacts
<1>9. TokenFacts'
  BY <1>0, <1>7, <1>8, TokensRest
<1>10. code[c].state = "sent" /\ code[c].verified = 0 /\ \A d \in Callers : ~HoldsCode(d, c)
  BY DEF ConsumeChallenge, AccountInv, CodeFacts
<1>11. CodeFacts'
  BY <1>1, <1>3, <1>4, <1>5, <1>10 DEF AccountInv, CodeFacts, HoldsCode
<1>12. RowFacts'
  <2>1. \A d \in Callers : caller'[d].at \in HoldSteps => caller'[d].code \in Codes
    BY <1>11 DEF CodeFacts
  <2>2. \A d \in Codes : code'[d].phone = code[d].phone
    BY <1>4, <1>5
  <2>3. \A d \in Callers : caller'[d].at = "insert" => caller[d].at = "insert" /\ caller'[d].code = caller[d].code
    BY <1>1, <1>3
  <2> QED BY <1>0, <2>1, <2>2, <2>3, RowsRest
<1> QED BY <1>6, <1>9, <1>11, <1>12 DEF AccountInv

\* Restore: the code is given back after a failed login.
LEMMA RestoreStep ==
  ASSUME AccountInv, NEW k \in Callers, RestoreChallenge(k)
  PROVE  AccountInv'
<1>0. registered' = registered /\ token' = token /\ anonymous' = anonymous
  BY DEF RestoreChallenge
<1>1. Stops(k)
  BY CallerStops DEF RestoreChallenge, AccountInv
<1>2. PICK c \in Codes : c = caller[k].code /\ HoldsCode(k, c)
  BY InHand DEF RestoreChallenge, CallerAt, HoldSteps
<1>3. PICK q \in CodeRecord : /\ code' = [code EXCEPT ![c] = q] /\ q.state \in {"sent", code[c].state}
                              /\ q.verified = code[c].verified /\ q.phone = code[c].phone
  <2>1. code[c] \in CodeRecord
    BY DEF AccountInv, AccountTypes
  <2> DEFINE st == IF code[c].state = "used" THEN "sent" ELSE code[c].state
             q == [code[c] EXCEPT !.state = st]
  <2>2. st \in {"none", "sent", "used", "expired"} /\ st \in {"sent", code[c].state}
    BY <2>1 DEF CodeRecord
  <2>3. code' = [code EXCEPT ![c] = q]
    BY <1>2 DEF RestoreChallenge
  <2> HIDE DEF st
  <2>4. q \in CodeRecord /\ q.state = st /\ q.verified = code[c].verified /\ q.phone = code[c].phone
    BY <2>1, <2>2 DEF CodeRecord
  <2> QED BY <2>2, <2>3, <2>4
<1>4. code' \in [Codes -> CodeRecord] /\ code'[c] = q /\ \A d \in Codes : d # c => code'[d] = code[d]
  BY <1>3 DEF AccountInv, AccountTypes
<1>5. AccountTypes'
  BY <1>0, <1>1, <1>4 DEF AccountInv, AccountTypes, Stops
<1>6. IssuersKept /\ GuestsKept /\ FoundLive'
  BY <1>0, <1>1 DEF IssuersKept, GuestsKept, FoundLive, Stops, AccountInv, TokenFacts
<1>7. TokenFacts'
  BY <1>0, <1>6, TokensRest
<1>8. /\ code[c].state \in {"used", "expired"} /\ code[c].verified = 0
      /\ \A d \in Callers : HoldsCode(d, c) => d = k
  BY <1>2 DEF AccountInv, CodeFacts
<1>9. \A d \in Callers : caller'[d].at \in HoldSteps => d # k /\ caller'[d] = caller[d]
  BY <1>1 DEF Stops, HoldSteps
<1>10. CodeFacts'
  BY <1>3, <1>4, <1>8, <1>9 DEF AccountInv, CodeFacts, HoldsCode
<1>11. RowFacts'
  <2>1. \A d \in Callers : caller'[d].at \in HoldSteps => caller'[d].code \in Codes
    BY <1>10 DEF CodeFacts
  <2>2. \A d \in Codes : code'[d].phone = code[d].phone
    BY <1>3, <1>4
  <2>3. \A d \in Callers : caller'[d].at = "insert" => caller[d].at = "insert" /\ caller'[d].code = caller[d].code
    BY <1>9 DEF HoldSteps
  <2> QED BY <1>0, <2>1, <2>2, <2>3, RowsRest
<1> QED BY <1>5, <1>7, <1>10, <1>11 DEF AccountInv

\* Upgrade: the legacy row of a phone number becomes a current one.
LEMMA UpgradeStep ==
  ASSUME AccountInv, NEW k \in Callers, Upgrade(k)
  PROVE  AccountInv'
<1>0. token' = token /\ anonymous' = anonymous /\ code' = code
  BY DEF Upgrade
<1>1. GoesOn(k, "finish") /\ caller'[k].account = caller[k].account
  BY CallerGoes DEF Upgrade, AccountInv, Steps
<1>2. PICK o \in Registered : o = caller[k].account /\ registered[o].digest # "none"
  BY DEF Upgrade, CallerAt, AccountInv, TokenFacts
<1>3. PICK r \in PhoneRowRecord : registered' = [registered EXCEPT ![o] = r] /\ r.phone = registered[o].phone
                             /\ r.digest = "current"
  <2>1. registered[o] \in PhoneRowRecord
    BY DEF AccountInv, AccountTypes
  <2>2. /\ [registered[o] EXCEPT !.digest = "current"] \in PhoneRowRecord
        /\ [registered[o] EXCEPT !.digest = "current"].phone = registered[o].phone
        /\ [registered[o] EXCEPT !.digest = "current"].digest = "current"
    BY <2>1 DEF PhoneRowRecord
  <2>3. registered' = [registered EXCEPT ![o] = [registered[o] EXCEPT !.digest = "current"]]
    BY <1>2 DEF Upgrade
  <2> QED BY <2>2, <2>3
<1>4. /\ registered' \in [Registered -> PhoneRowRecord] /\ registered'[o] = r
      /\ \A s \in Registered : s # o => registered'[s] = registered[s]
  BY <1>3 DEF AccountInv, AccountTypes
<1>5. AccountTypes'
  BY <1>0, <1>1, <1>4 DEF AccountInv, AccountTypes, GoesOn
<1>6. IssuersKept /\ GuestsKept
  BY <1>1 DEF IssuersKept, GuestsKept, GoesOn
<1>7. \A s \in Registered : registered[s].digest # "none" => registered'[s].digest # "none"
  BY <1>3, <1>4
<1>8. FoundLive'
  <2>1. FoundLive
    BY DEF AccountInv, TokenFacts, FoundLive
  <2> QED BY <1>1, <1>2, <1>7, <2>1 DEF FoundLive, GoesOn
<1>9. TokenFacts'
  BY <1>0, <1>6, <1>7, <1>8, TokensRest
<1>10. \A d \in Callers : caller'[d].at \in HoldSteps => caller[d].at \in HoldSteps /\ caller'[d].code = caller[d].code
  BY <1>1 DEF GoesOn, HoldSteps, Upgrade, CallerAt
<1>11. CodeFacts'
  BY <1>0, <1>10, CodesRest
<1>12. \A s \in Registered : registered'[s].phone = registered[s].phone
                             /\ (registered'[s].digest = "legacy" => registered[s].digest = "legacy")
  BY <1>3, <1>4
<1>13. RowFacts'
  <2>1. \A d \in Callers : caller'[d].at = "insert" => caller[d].at = "insert" /\ caller'[d].code = caller[d].code
    BY <1>1 DEF GoesOn
  <2> QED BY <1>0, <1>7, <1>12, <2>1 DEF AccountInv, RowFacts, OneRowPerPhone
<1> QED BY <1>5, <1>9, <1>11, <1>13 DEF AccountInv

\* A request that inserts has seen no row of the phone by either digest: the old
\* one before, and no step writes it, the new one in the statement itself.
LEMMA InsertStep ==
  ASSUME AccountInv, NEW k \in Callers, Insert(k)
  PROVE  AccountInv'
<1>0. token' = token /\ anonymous' = anonymous /\ code' = code /\ caller[k].at = "insert"
  BY DEF Insert, CallerAt
<1>1. CASE \E o \in With(PhoneOf(k), "current") : Found(k, o, "finish") /\ UNCHANGED registered
  <2>1. PICK o \in Registered : Found(k, o, "finish") /\ registered' = registered /\ registered[o].digest = "current"
    BY <1>1 DEF With
  <2>2. GoesOn(k, "finish") /\ caller'[k].account = o
    BY <2>1, CallerFinds DEF AccountInv, Steps
  <2> QED BY <1>0, <2>1, <2>2, CallerMoves DEF Steps, HoldSteps
<1>2. ASSUME NEW o \in Registered, NEW p, p = PhoneOf(k), registered[o] = Unwritten, With(p, "current") = {},
             registered' = [registered EXCEPT ![o] = [phone |-> p, digest |-> "current"]],
             Found(k, o, "finish")
      PROVE  AccountInv'
  <2>1. GoesOn(k, "finish") /\ caller'[k].account = o
    BY <1>2, CallerFinds DEF AccountInv, Steps
  <2>2. p \in Phones \cup {Nobody} /\ caller[k].code \in Codes
    BY <1>0, <1>2, InHand DEF PhoneOf, HoldSteps, AccountInv, AccountTypes, CodeRecord
  <2>3. [phone |-> p, digest |-> "current"] \in PhoneRowRecord
    BY <2>2 DEF PhoneRowRecord
  <2>4. /\ registered' \in [Registered -> PhoneRowRecord]
        /\ registered'[o].phone = p /\ registered'[o].digest = "current"
        /\ \A s \in Registered : s # o => registered'[s] = registered[s]
    BY <1>2, <2>3 DEF AccountInv, AccountTypes
  <2>5. AccountTypes'
    BY <1>0, <2>1, <2>4 DEF AccountInv, AccountTypes, GoesOn
  <2>6. \A s \in Registered : registered[s].digest # "none" => registered'[s].digest # "none"
    BY <2>4
  <2>7. FoundLive'
    <3>1. FoundLive
      BY DEF AccountInv, TokenFacts, FoundLive
    <3> QED BY <2>1, <2>4, <2>6, <3>1 DEF FoundLive, GoesOn
  <2>8. TokenFacts'
    BY <1>0, <2>1, <2>6, <2>7, TokensRest DEF IssuersKept, GuestsKept, GoesOn
  <2>9. CodeFacts'
    <3>1. \A d \in Callers : caller'[d].at \in HoldSteps => caller[d].at \in HoldSteps /\ caller'[d].code = caller[d].code
      BY <1>0, <2>1 DEF GoesOn, HoldSteps
    <3> QED BY <1>0, <3>1, CodesRest
  <2>10. p \in Phones => \A s \in Registered : registered[s].phone # p
    <3>1. SUFFICES ASSUME p \in Phones, NEW s \in Registered, registered[s].phone = p PROVE FALSE
      OBVIOUS
    <3>2. registered[s] \in PhoneRowRecord /\ registered[s].digest # "none"
      BY <3>1 DEF AccountInv, AccountTypes, RowFacts
    <3>3. registered[s].digest # "legacy"
      BY <1>0, <1>2, <3>1 DEF AccountInv, RowFacts, PhoneOf
    <3>4. registered[s] # [phone |-> p, digest |-> "current"]
      BY <1>2 DEF With
    <3> QED BY <3>1, <3>2, <3>3, <3>4 DEF PhoneRowRecord
  <2>11. OneRowPerPhone'
    BY <2>4, <2>10 DEF AccountInv, RowFacts, OneRowPerPhone
  <2>12. \A s \in Registered : registered'[s].phone \in Phones => registered'[s].digest # "none"
    BY <2>4 DEF AccountInv, RowFacts
  <2>13. \A d \in Callers : caller'[d].at = "insert" =>
            \A s \in Registered : ~(registered'[s].digest = "legacy" /\ registered'[s].phone = code'[caller'[d].code].phone)
    BY <1>0, <2>1, <2>4 DEF AccountInv, RowFacts, GoesOn
  <2> QED BY <2>5, <2>8, <2>9, <2>11, <2>12, <2>13 DEF AccountInv, RowFacts
<1>3. CASE ~\E o \in With(PhoneOf(k), "current") : Found(k, o, "finish") /\ UNCHANGED registered
  BY <1>2, <1>3 DEF Insert, FreshRow
<1> QED BY <1>1, <1>3

\* The next token was never issued.
LEMMA FreshTokenFree == FreeTokens # {} => FreshToken \in Tokens /\ token[FreshToken].state = "free"
BY DEF FreeTokens, FreshToken

\* A new token opens the account it is issued for.
LEMMA TokenOpens ==
  ASSUME AccountTypes, NEW o \in Anonymous \cup Registered, NewToken(o)
  PROVE  \E f \in Tokens :
            /\ token' \in [Tokens -> TokenRecord]
            /\ token'[f].state = "active" /\ token'[f].account = o
            /\ \A t \in Tokens : t # f => token'[t] = token[t]
<1>1. PICK f \in Tokens : f = FreshToken
  BY FreshTokenFree DEF NewToken
<1>2. [state |-> "active", account |-> o] \in TokenRecord
  BY DEF TokenRecord
<1> QED BY <1>1, <1>2 DEF NewToken, AccountTypes

\* A new anonymous user and its first session.
LEMMA CreateAnonymousStep ==
  ASSUME AccountInv, NEW k \in Callers, NEW a \in Anonymous, CreateAnonymous(k, a)
  PROVE  AccountInv'
<1>0. registered' = registered /\ token' = token /\ code' = code /\ anonymous[a] = "none"
  BY DEF CreateAnonymous
<1> DEFINE r == [FreeCaller EXCEPT !.at = "issue", !.account = a]
<1>1. r \in CallerRecord /\ r.at = "issue" /\ r.account = a /\ r.guest = Nobody
  BY DEF FreeCaller, CallerRecord, Steps
<1>2. caller' = [caller EXCEPT ![k] = r]
  BY DEF CreateAnonymous
<1> HIDE DEF r
<1>3. /\ caller' \in [Callers -> CallerRecord] /\ caller'[k] = r
      /\ \A d \in Callers : d # k => caller'[d] = caller[d]
  BY <1>1, <1>2, CallerWrites DEF AccountInv
<1>4. /\ anonymous' \in [Anonymous -> {"none", "live"} \cup Registered] /\ anonymous'[a] = "live"
      /\ \A b \in Anonymous : b # a => anonymous'[b] = anonymous[b]
  BY DEF CreateAnonymous, AccountInv, AccountTypes
<1>5. AccountTypes'
  BY <1>0, <1>3, <1>4 DEF AccountInv, AccountTypes
<1>6. \A b \in Anonymous : Unseen(b) => Unseen(b)'
  BY <1>0, <1>1, <1>3, AccountAssumption DEF Unseen
<1>7. Unseen(a) /\ \A d \in Callers : ~Issues(d, a)
  BY <1>0 DEF AccountInv, TokenFacts, Issues
<1>8. TokensActive'
  <2>1. \A t \in Tokens : token[t].account # a
    BY <1>7 DEF Unseen
  <2> QED BY <1>0, <1>4, <2>1 DEF TokensActive, AccountInv, TokenFacts, Live
<1>9. FoundLive'
  BY <1>0, <1>1, <1>3 DEF FoundLive, AccountInv, TokenFacts
<1>10. \A b \in Anonymous : anonymous'[b] = "none" => Unseen(b)'
  BY <1>4, <1>6 DEF AccountInv, TokenFacts
<1>11. ASSUME NEW d \in Callers, caller'[d].at = "issue"
       PROVE  /\ caller'[d].account \in Anonymous /\ anonymous'[caller'[d].account] = "live"
              /\ Unseen(caller[d].account)' /\ \A e \in Callers : Issues(e, caller[d].account)' => e = d
  <2>1. PICK b : b = caller'[d].account
    OBVIOUS
  <2>2. CASE d = k
    <3>1. b = a
      BY <1>1, <1>3, <2>1, <2>2
    <3>2. Unseen(a)' /\ \A e \in Callers : Issues(e, a)' => e = d
      BY <1>3, <1>6, <1>7, <2>2 DEF Issues
    <3> QED BY <1>4, <2>1, <3>1, <3>2
  <2>3. CASE d # k
    <3>1. caller[d].at = "issue" /\ caller[d].account = b
      BY <1>3, <1>11, <2>1, <2>3
    <3>2. b \in Anonymous /\ anonymous[b] = "live" /\ Unseen(b) /\ \A e \in Callers : Issues(e, b) => e = d
      BY <3>1 DEF AccountInv, TokenFacts
    <3>3. b # a
      BY <1>0, <3>2
    <3>4. \A e \in Callers : Issues(e, b)' => e = d
      BY <1>1, <1>3, <3>2, <3>3 DEF Issues
    <3>5. anonymous'[b] = "live" /\ Unseen(b)'
      BY <1>4, <1>6, <3>2, <3>3
    <3> QED BY <2>1, <3>2, <3>4, <3>5
  <2> QED BY <2>2, <2>3
<1>12. TokenFacts'
  BY <1>8, <1>9, <1>10, <1>11 DEF TokenFacts, TokensActive, FoundLive
<1>13. \A d \in Callers : caller'[d].at \in HoldSteps => caller[d].at \in HoldSteps /\ caller'[d].code = caller[d].code
  BY <1>1, <1>3 DEF HoldSteps
<1>14. CodeFacts'
  BY <1>0, <1>13, CodesRest
<1>15. RowFacts'
  <2>1. \A d \in Callers : caller'[d].at = "insert" => caller[d].at = "insert" /\ caller'[d].code = caller[d].code
    BY <1>1, <1>3
  <2> QED BY <1>0, <1>13, <2>1, RowsRest DEF AccountInv, CodeFacts
<1> QED BY <1>5, <1>12, <1>14, <1>15 DEF AccountInv

\* Nothing changes for codes and rows.
LEMMA SessionStep ==
  ASSUME AccountInv, AccountTypes', TokenFacts', registered' = registered, code' = code,
         \A d \in Callers : caller'[d].at \in HoldSteps =>
            caller[d].at = caller'[d].at /\ caller'[d].code = caller[d].code
  PROVE  AccountInv'
<1>1. CodeFacts'
  BY CodesRest
<1>2. RowFacts'
  BY RowsRest DEF AccountInv, CodeFacts, HoldSteps
<1> QED BY <1>1, <1>2 DEF AccountInv

\* A session is issued for the user that was found.
LEMMA IssueSessionStep ==
  ASSUME AccountInv, NEW k \in Callers, IssueSession(k)
  PROVE  AccountInv'
<1>0. registered' = registered /\ anonymous' = anonymous /\ code' = code
  BY DEF IssueSession
<1>1. Stops(k)
  BY CallerStops DEF IssueSession, AccountInv
<1>2. PICK a \in Anonymous : a = caller[k].account /\ Issues(k, a) /\ anonymous[a] = "live"
  BY DEF IssueSession, CallerAt, AccountInv, TokenFacts, Issues
<1>3. PICK f \in Tokens : /\ token' \in [Tokens -> TokenRecord]
                          /\ token'[f].state = "active" /\ token'[f].account = a
                          /\ \A t \in Tokens : t # f => token'[t] = token[t]
  BY <1>2, TokenOpens DEF IssueSession, AccountInv
<1>4. AccountTypes'
  BY <1>0, <1>1, <1>3 DEF AccountInv, AccountTypes, Stops
<1>5. IssuersKept /\ GuestsKept /\ Merges
  BY <1>0, <1>1 DEF IssuersKept, GuestsKept, Merges, Stops
<1>6. AccountsKept
  BY <1>1, <1>2, <1>3 DEF AccountsKept, Stops
<1>7. TokensActive'
  BY <1>0, <1>2, <1>3 DEF TokensActive, AccountInv, TokenFacts, Live
<1>8. FoundLive'
  BY <1>0, <1>1 DEF FoundLive, AccountInv, TokenFacts, Stops
<1>9. TokenFacts'
  BY <1>5, <1>6, <1>7, <1>8, TokensMove
<1> QED BY <1>0, <1>1, <1>4, <1>9, SessionStep DEF Stops, HoldSteps

\* The code logs its request in, and leaves its hands, or is given back.
LEMMA ConcludeStep ==
  ASSUME AccountInv, NEW k \in Callers, caller[k].at = "finish", Concludes(k), registered' = registered
  PROVE  /\ code' \in [Codes -> CodeRecord] /\ caller' \in [Callers -> CallerRecord]
         /\ IssuersKept /\ GuestsKept /\ FoundLive' /\ CodeFacts' /\ RowFacts'
<1>1. CASE Goes(k, "restore") /\ code' = code
  <2>1. GoesOn(k, "restore")
    BY <1>1, CallerGoes DEF AccountInv, Steps
  <2>2. \A d \in Callers : caller'[d].at \in HoldSteps => caller[d].at \in HoldSteps /\ caller'[d].code = caller[d].code
    BY <2>1 DEF GoesOn, HoldSteps
  <2>3. CodeFacts'
    BY <1>1, <2>2, CodesRest
  <2>4. RowFacts'
    <3>1. \A d \in Callers : caller'[d].at = "insert" => caller[d].at = "insert" /\ caller'[d].code = caller[d].code
      BY <2>1 DEF GoesOn
    <3> QED BY <1>1, <2>2, <3>1, RowsRest DEF AccountInv, CodeFacts
  <2>5. IssuersKept /\ GuestsKept /\ FoundLive'
    BY <2>1 DEF IssuersKept, GuestsKept, FoundLive, GoesOn, AccountInv, TokenFacts
  <2> QED BY <1>1, <2>1, <2>3, <2>4, <2>5 DEF GoesOn, AccountInv, AccountTypes
<1>2. CASE code' = [code EXCEPT ![caller[k].code].verified = @ + 1] /\ Leaves(k)
  <2>1. Stops(k)
    BY <1>2, CallerStops DEF AccountInv
  <2>2. PICK c \in Codes : c = caller[k].code /\ HoldsCode(k, c)
    BY InHand DEF HoldSteps
  <2>3. /\ code[c].state \in {"used", "expired"} /\ code[c].verified = 0
        /\ \A d \in Callers : HoldsCode(d, c) => d = k
    BY <2>2 DEF AccountInv, CodeFacts
  <2>4. PICK q \in CodeRecord : /\ code' = [code EXCEPT ![c] = q] /\ q.state = code[c].state
                                /\ q.verified = 1 /\ q.phone = code[c].phone
    <3>1. code[c] \in CodeRecord
      BY DEF AccountInv, AccountTypes
    <3>2. code' = [code EXCEPT ![c] = [code[c] EXCEPT !.verified = 1]]
      BY <1>2, <2>2, <2>3
    <3>3. /\ [code[c] EXCEPT !.verified = 1] \in CodeRecord
          /\ [code[c] EXCEPT !.verified = 1].state = code[c].state
          /\ [code[c] EXCEPT !.verified = 1].verified = 1
          /\ [code[c] EXCEPT !.verified = 1].phone = code[c].phone
      BY <3>1 DEF CodeRecord
    <3> QED BY <3>2, <3>3
  <2>5. code' \in [Codes -> CodeRecord] /\ code'[c] = q /\ \A d \in Codes : d # c => code'[d] = code[d]
    BY <2>4 DEF AccountInv, AccountTypes
  <2>6. \A d \in Callers : caller'[d].at \in HoldSteps => d # k /\ caller'[d] = caller[d]
    BY <2>1 DEF Stops, HoldSteps
  <2>7. CodeFacts'
    BY <2>3, <2>4, <2>5, <2>6 DEF AccountInv, CodeFacts, HoldsCode
  <2>8. RowFacts'
    <3>1. \A d \in Callers : caller'[d].at \in HoldSteps => caller'[d].code \in Codes
      BY <2>7 DEF CodeFacts
    <3>2. \A d \in Codes : code'[d].phone = code[d].phone
      BY <2>4, <2>5
    <3>3. \A d \in Callers : caller'[d].at = "insert" => caller[d].at = "insert" /\ caller'[d].code = caller[d].code
      BY <2>6 DEF HoldSteps
    <3> QED BY <3>1, <3>2, <3>3, RowsRest
  <2>9. IssuersKept /\ GuestsKept /\ FoundLive'
    BY <2>1 DEF IssuersKept, GuestsKept, FoundLive, Stops, AccountInv, TokenFacts
  <2> QED BY <2>1, <2>5, <2>7, <2>8, <2>9 DEF Stops
<1> QED BY <1>1, <1>2 DEF Concludes

\* A login opens a session of the account it found.
LEMMA FinishLoginStep ==
  ASSUME AccountInv, NEW k \in Callers, FinishLogin(k)
  PROVE  AccountInv'
<1>0. registered' = registered /\ anonymous' = anonymous /\ caller[k].at = "finish"
  BY DEF FinishLogin, CallerAt
<1>1. /\ code' \in [Codes -> CodeRecord] /\ caller' \in [Callers -> CallerRecord]
      /\ IssuersKept /\ GuestsKept /\ FoundLive' /\ CodeFacts' /\ RowFacts'
  BY <1>0, ConcludeStep DEF FinishLogin
<1>2. PICK o \in Registered : o = caller[k].account /\ registered[o].digest # "none"
  BY <1>0 DEF AccountInv, TokenFacts
<1>3. PICK f \in Tokens : /\ token' \in [Tokens -> TokenRecord]
                          /\ token'[f].state = "active" /\ token'[f].account = o
                          /\ \A t \in Tokens : t # f => token'[t] = token[t]
  BY <1>2, TokenOpens DEF FinishLogin, AccountInv
<1>4. AccountTypes'
  BY <1>0, <1>1, <1>3 DEF AccountInv, AccountTypes
<1>5. AccountsKept /\ Merges
  BY <1>0, <1>3 DEF AccountsKept, Merges
<1>6. TokensActive'
  BY <1>0, <1>2, <1>3, AccountAssumption DEF TokensActive, AccountInv, TokenFacts, Live
<1>7. TokenFacts'
  BY <1>1, <1>5, <1>6, TokensMove
<1> QED BY <1>1, <1>4, <1>7 DEF AccountInv

\* The merge takes every session of the guest along; a guest has a session, so
\* no request is about to open its first one.
LEMMA FinishMergeStep ==
  ASSUME AccountInv, NEW k \in Callers, FinishMerge(k)
  PROVE  AccountInv'
<1>0. registered' = registered /\ caller[k].at = "finish" /\ caller[k].guest # Nobody
  BY DEF FinishMerge, CallerAt
<1>1. /\ code' \in [Codes -> CodeRecord] /\ caller' \in [Callers -> CallerRecord]
      /\ IssuersKept /\ GuestsKept /\ FoundLive' /\ CodeFacts' /\ RowFacts'
  BY <1>0, ConcludeStep DEF FinishMerge
<1>2. PICK o \in Registered : o = caller[k].account /\ registered[o].digest # "none"
  BY <1>0 DEF AccountInv, TokenFacts
<1>3. PICK g \in Anonymous : g = caller[k].guest
  BY <1>0 DEF AccountInv, AccountTypes, CallerRecord
<1>4. PICK f \in Tokens : f = FreshToken /\ token[f].state = "free"
  BY FreshTokenFree DEF FinishMerge
<1>5. token' = [t \in Tokens |->
            IF t = f THEN [state |-> "active", account |-> o]
            ELSE IF token[t].account = g THEN [token[t] EXCEPT !.account = o]
            ELSE token[t]]
  BY <1>2, <1>3, <1>4 DEF FinishMerge
<1>6. \A t \in Tokens : token[t] \in TokenRecord
  BY DEF AccountInv, AccountTypes
<1>7. \A t \in Tokens : /\ token'[t] \in TokenRecord
                        /\ token'[t].account = o \/ (token'[t] = token[t] /\ token[t].account # g)
  <2>1. SUFFICES ASSUME NEW t \in Tokens
                 PROVE  /\ token'[t] \in TokenRecord
                        /\ token'[t].account = o \/ (token'[t] = token[t] /\ token[t].account # g)
    OBVIOUS
  <2>2. CASE t = f
    <3>1. token'[t] = [state |-> "active", account |-> o]
      BY <1>5, <2>2
    <3> QED BY <3>1 DEF TokenRecord
  <2>3. CASE t # f /\ token[t].account = g
    <3>1. token'[t] = [token[t] EXCEPT !.account = o]
      BY <1>5, <2>3
    <3> QED BY <1>6, <3>1 DEF TokenRecord
  <2>4. CASE t # f /\ token[t].account # g
    <3>1. token'[t] = token[t]
      BY <1>5, <2>4
    <3> QED BY <1>6, <2>4, <3>1
  <2> QED BY <2>2, <2>3, <2>4
<1>8. token' \in [Tokens -> TokenRecord]
  <2>1. token' = [t \in Tokens |-> token'[t]]
    BY <1>5
  <2> QED BY <1>7, <2>1
<1>9. /\ anonymous' \in [Anonymous -> {"none", "live"} \cup Registered] /\ anonymous'[g] = o
      /\ \A a \in Anonymous : a # g => anonymous'[a] = anonymous[a]
  BY <1>2, <1>3 DEF FinishMerge, AccountInv, AccountTypes
<1>10. AccountTypes'
  BY <1>0, <1>1, <1>8, <1>9 DEF AccountInv, AccountTypes
<1>11. AccountsKept /\ Merges
  BY <1>3, <1>7, <1>9 DEF AccountsKept, Merges, Unseen
<1>12. TokensActive'
  BY <1>0, <1>2, <1>7, <1>9, AccountAssumption DEF TokensActive, AccountInv, TokenFacts, Live
<1>13. TokenFacts'
  BY <1>1, <1>11, <1>12, TokensMove
<1> QED BY <1>1, <1>10, <1>13 DEF AccountInv

\* Logout, refresh and rotation: no token changes its account.
LEMMA TokenSteps ==
  ASSUME AccountInv, \/ \E t \in Tokens : RevokeSession(t)
                     \/ \E k \in Callers : Rotate(k) \/ \E t \in Tokens : RefreshTokens(k, t)
  PROVE  AccountInv'
<1>0. registered' = registered /\ anonymous' = anonymous /\ code' = code
  BY DEF RevokeSession, Rotate, RefreshTokens
<1>1. ASSUME NEW t \in Tokens, RevokeSession(t) PROVE AccountInv'
  <2>1. token[t] \in TokenRecord
    BY DEF AccountInv, AccountTypes
  <2>2. PICK q \in TokenRecord : token' = [token EXCEPT ![t] = q] /\ q.state = "revoked" /\ q.account = token[t].account
    <3>1. /\ [token[t] EXCEPT !.state = "revoked"] \in TokenRecord
          /\ [token[t] EXCEPT !.state = "revoked"].state = "revoked"
          /\ [token[t] EXCEPT !.state = "revoked"].account = token[t].account
      BY <2>1 DEF TokenRecord
    <3> QED BY <1>1, <3>1 DEF RevokeSession
  <2>3. token' \in [Tokens -> TokenRecord] /\ token'[t] = q /\ \A s \in Tokens : s # t => token'[s] = token[s]
    BY <2>2 DEF AccountInv, AccountTypes
  <2>4. caller' = caller
    BY <1>1 DEF RevokeSession
  <2>5. AccountTypes'
    BY <1>0, <2>3, <2>4 DEF AccountInv, AccountTypes
  <2>6. IssuersKept /\ GuestsKept /\ Merges /\ AccountsKept
    BY <1>0, <2>2, <2>3, <2>4 DEF IssuersKept, GuestsKept, Merges, AccountsKept
  <2>7. TokensActive' /\ FoundLive'
    BY <1>0, <2>2, <2>3, <2>4 DEF TokensActive, FoundLive, AccountInv, TokenFacts, Live
  <2>8. TokenFacts'
    BY <2>6, <2>7, TokensMove
  <2> QED BY <1>0, <2>4, <2>5, <2>8, SessionStep
<1>2. ASSUME NEW k \in Callers, NEW t \in Tokens, RefreshTokens(k, t) PROVE AccountInv'
  <2> DEFINE r == [FreeCaller EXCEPT !.at = "account", !.token = t, !.account = token[t].account]
  <2>1. token[t].account \in Anonymous \cup Registered \cup {Nobody}
    BY DEF AccountInv, AccountTypes, TokenRecord
  <2>2. r \in CallerRecord /\ r.at = "account" /\ r.guest = Nobody
    BY <2>1 DEF FreeCaller, CallerRecord, Steps
  <2>3. caller' = [caller EXCEPT ![k] = r] /\ token' = token
    BY <1>2 DEF RefreshTokens
  <2> HIDE DEF r
  <2>4. /\ caller' \in [Callers -> CallerRecord] /\ caller'[k] = r
        /\ \A d \in Callers : d # k => caller'[d] = caller[d]
    BY <2>2, <2>3, CallerWrites DEF AccountInv
  <2>5. AccountTypes'
    BY <1>0, <2>3, <2>4 DEF AccountInv, AccountTypes
  <2>6. IssuersKept /\ GuestsKept /\ FoundLive'
    BY <1>0, <2>2, <2>4 DEF IssuersKept, GuestsKept, FoundLive, AccountInv, TokenFacts
  <2>7. TokenFacts'
    BY <1>0, <2>3, <2>6, TokensRest
  <2> QED BY <1>0, <2>2, <2>4, <2>5, <2>7, SessionStep DEF HoldSteps
<1>3. ASSUME NEW k \in Callers, Rotate(k) PROVE AccountInv'
  <2>0. Stops(k)
    BY <1>3, CallerStops DEF Rotate, AccountInv
  <2>1. CASE token' = token
    BY <1>0, <2>0, <2>1, CallerMoves
  <2>2. CASE Rotatable(k) /\ FreeTokens # {} /\
             token' = [token EXCEPT ![caller[k].token].state = "revoked",
                                    ![FreshToken] = [state |-> "active", account |-> caller[k].account]]
    <3>1. PICK f \in Tokens : f = FreshToken /\ token[f].state = "free"
      BY <2>2, FreshTokenFree
    <3>2. PICK o : o = caller[k].account /\ o \in Anonymous \cup Registered \cup {Nobody}
      BY DEF AccountInv, AccountTypes, CallerRecord
    <3>3. PICK t \in Tokens : t = caller[k].token
      BY <1>3 DEF Rotate, CallerAt, AccountInv, AccountTypes, CallerRecord
    <3>4. token[t] = [state |-> "active", account |-> o]
      BY <2>2, <3>2, <3>3 DEF Rotatable
    <3>5. o \in Anonymous \cup Registered /\ Live(o)
      BY <3>4 DEF AccountInv, TokenFacts
    <3>6. /\ [state |-> "active", account |-> o] \in TokenRecord
          /\ [state |-> "revoked", account |-> o] \in TokenRecord
      BY <3>5 DEF TokenRecord
    <3>7. [token[t] EXCEPT !.state = "revoked"] = [state |-> "revoked", account |-> o]
      BY <3>4
    <3>8. token' = [[token EXCEPT ![t] = [token[t] EXCEPT !.state = "revoked"]] EXCEPT
                        ![f] = [state |-> "active", account |-> o]]
      BY <2>2, <3>1, <3>2, <3>3
    <3>9. token' = [[token EXCEPT ![t] = [state |-> "revoked", account |-> o]] EXCEPT
                        ![f] = [state |-> "active", account |-> o]]
      BY <3>7, <3>8
    <3>10. /\ token' \in [Tokens -> TokenRecord]
           /\ token'[f] = [state |-> "active", account |-> o]
           /\ \A s \in Tokens : s # f => token'[s] = token[s] \/ token'[s] = [state |-> "revoked", account |-> o]
      BY <3>6, <3>9 DEF AccountInv, AccountTypes
    <3>11. AccountTypes'
      BY <1>0, <2>0, <3>10 DEF AccountInv, AccountTypes, Stops
    <3>12. IssuersKept /\ GuestsKept /\ Merges /\ FoundLive'
      BY <1>0, <2>0 DEF IssuersKept, GuestsKept, Merges, FoundLive, Stops, AccountInv, TokenFacts
    <3>13. AccountsKept
      BY <3>4, <3>10 DEF AccountsKept
    <3>14. TokensActive'
      <4>1. TokensActive
        BY DEF AccountInv, TokenFacts, TokensActive
      <4> QED BY <1>0, <3>5, <3>10, <4>1 DEF TokensActive, Live
    <3>15. TokenFacts'
      BY <3>12, <3>13, <3>14, TokensMove
    <3> QED BY <1>0, <2>0, <3>11, <3>15, SessionStep DEF Stops, HoldSteps
  <2> QED BY <1>3, <2>1, <2>2 DEF Rotate
<1> QED BY <1>1, <1>2, <1>3

\* A login session in force belongs to an account that was not merged away, a phone has one
\* account, a code logs in once: whatever a merge, a rotation and another verification do to
\* each other (accounts/postgres.go:25).
THEOREM CredentialOwnerHolds == AccountSpec => []CredentialOwner
<1>1. ASSUME AccountInv, AccountNext PROVE AccountInv'
  <2>1. ASSUME NEW k \in Callers, CallerStep(k) PROVE AccountInv'
    BY <1>1, <2>1, LookupSteps, UpgradeStep, InsertStep, FinishLoginStep, FinishMergeStep, RestoreStep,
       TokenSteps, IssueSessionStep, CreateAnonymousStep, ConsumeCodeSteps
    DEF CallerStep
  <2> QED BY <1>1, <2>1, CodeRowSteps, TokenSteps DEF AccountNext
<1>2. ASSUME AccountInv, UNCHANGED accountVars PROVE AccountInv'
  BY <1>2 DEF accountVars, AccountInv, AccountTypes, TokenFacts, CodeFacts, RowFacts, OneRowPerPhone,
     Unseen, Issues, HoldsCode, Live
<1>3. AccountInv => CredentialOwner
  BY DEF AccountInv, TokenFacts, CodeFacts, RowFacts, CredentialOwner
<1> QED BY AccountInitInv, <1>1, <1>2, <1>3, PTL DEF AccountSpec

-----------------------------------------------------------------------------
(* Language configurations: versions follow each other, one for each key.    *)

\* A version has one row and a key has one version; what a key was answered with
\* is its version, and nobody has seen a version that was not stored.
ConfigInv ==
    /\ ConfigTypeOK /\ IsFiniteSet(configs)
    /\ \A w \in Writers : ~Stands(w, "idle") => writer[w].request \in Requests
    /\ \A c, d \in configs : c.version = d.version => c = d
    /\ {c.version : c \in configs} = 1 .. Cardinality(configs)
    /\ \A c \in configs : c.active <=> c.version = Cardinality(configs)
    /\ \A c, d \in configs : c.request.key = d.request.key /\ c.request.key # Free => c = d
    /\ answered \in [ConfigKeys -> SUBSET Versions]
    /\ \A k \in ConfigKeys : \A v \in answered[k] : \E c \in Stored(k) : c.version = v
    /\ \A w \in Writers : writer[w].seen <= Cardinality(configs)

\* There are as many versions as rows, and the last is the active one.
LEMMA ActiveIsLast ==
  ASSUME ConfigInv
  PROVE  /\ Cardinality(configs) \in Nat /\ Cardinality(configs) <= MaxConfigs + 1
         /\ ActiveVersion = Cardinality(configs) /\ ActiveVersion \in Versions
<1> DEFINE n == Cardinality(configs)
<1>1. n \in Nat
  BY FS_CardinalityType DEF ConfigInv
<1>2. {c.version : c \in configs} = 1 .. n /\ \A c \in configs : c.active <=> c.version = n
  BY DEF ConfigInv
<1>3. \A c \in configs : c.version \in Versions
  BY DEF ConfigInv, ConfigTypeOK
<1> HIDE DEF n
<1>4. CASE n = 0
  <2>1. ActiveConfigs = {}
    BY <1>1, <1>2, <1>4 DEF ActiveConfigs
  <2> QED BY <1>4, <2>1, ConfigAssumption DEF ActiveVersion, n, Versions
<1>5. CASE n > 0
  <2>1. PICK c \in configs : c.version = n
    <3>1. n \in 1 .. n
      BY <1>1, <1>5
    <3> QED BY <1>2, <3>1
  <2>2. c \in ActiveConfigs /\ \A d \in ActiveConfigs : d.version = n
    BY <1>2, <2>1 DEF ActiveConfigs
  <2>3. ActiveVersion = n
    BY <2>2 DEF ActiveVersion
  <2>4. n <= MaxConfigs + 1 /\ n \in Versions
    BY <1>1, <1>3, <2>1, ConfigAssumption DEF Versions
  <2> QED BY <1>1, <2>3, <2>4 DEF n
<1> QED BY <1>1, <1>4, <1>5

WriterRecord ==
    [at : {"idle", "lookup", "ready", "lock", "wait", "write", "reread"}, request : Requests \cup {Free},
     seen : Versions,
     answer : {"none", "stored", "stale_command", "idempotency_conflict",
               "version_conflict", "delivery_target_required", "error"}]

\* What a key was answered with is a version stored under it.
AnswersStored ==
    /\ answered \in [ConfigKeys -> SUBSET Versions]
    /\ \A k \in ConfigKeys : \A v \in answered[k] : \E c \in Stored(k) : c.version = v

\* A request that goes on without writing a row keeps the invariant.
LEMMA WriterGoesOn ==
  ASSUME ConfigInv, NEW w \in Writers, NEW r \in WriterRecord, writer' = [writer EXCEPT ![w] = r],
         r.at # "idle" => r.request \in Requests, r.seen <= Cardinality(configs), UNCHANGED configs,
         configLock' \in Writers \cup {Free}, errors' \in 0 .. MaxErrors, AnswersStored'
  PROVE  ConfigInv'
<1>1. writer \in [Writers -> WriterRecord]
  BY DEF ConfigInv, ConfigTypeOK, WriterRecord
<1>2. writer' \in [Writers -> WriterRecord] /\ \A v \in Writers : writer'[v] = IF v = w THEN r ELSE writer[v]
  BY <1>1
<1>3. ConfigTypeOK'
  BY <1>2 DEF ConfigInv, ConfigTypeOK, WriterRecord
<1>4. \A v \in Writers : (~Stands(v, "idle"))' => writer'[v].request \in Requests
  BY <1>2 DEF ConfigInv, Stands
<1>5. \A v \in Writers : writer'[v].seen <= Cardinality(configs')
  BY <1>2 DEF ConfigInv
<1>6. /\ IsFiniteSet(configs') /\ {c.version : c \in configs'} = 1 .. Cardinality(configs')
      /\ \A c, d \in configs' : c.version = d.version => c = d
      /\ \A c \in configs' : c.active <=> c.version = Cardinality(configs')
      /\ \A c, d \in configs' : c.request.key = d.request.key /\ c.request.key # Free => c = d
  BY DEF ConfigInv
<1>7. /\ answered' \in [ConfigKeys -> SUBSET Versions]
      /\ \A k \in ConfigKeys : \A v \in answered'[k] : \E c \in Stored(k)' : c.version = v
  BY DEF AnswersStored
<1> QED BY <1>3, <1>4, <1>5, <1>6, <1>7 DEF ConfigInv

\* The parts of a writer.
LEMMA WriterTypes ==
  ASSUME ConfigInv, NEW w \in Writers
  PROVE  /\ writer[w] \in WriterRecord /\ configLock \in Writers \cup {Free} /\ errors \in 0 .. MaxErrors
         /\ AnswersStored /\ (~Stands(w, "idle") => writer[w].request \in Requests)
         /\ writer[w].seen <= Cardinality(configs)
BY DEF ConfigInv, ConfigTypeOK, WriterRecord, AnswersStored

\* Without a new answer, what a key was answered with stays stored.
LEMMA AnswersKept == ASSUME ConfigInv, UNCHANGED <<configs, answered>> PROVE AnswersStored'
<1>1. AnswersStored
  BY DEF ConfigInv, AnswersStored
<1> QED BY <1>1 DEF AnswersStored, Stored

\* A request that moves on, or ends, without writing a row or giving an answer.
LEMMA WriterConcludes ==
  ASSUME ConfigInv, NEW w \in Writers, UNCHANGED configs,
         configLock' \in Writers \cup {Free}, errors' \in 0 .. MaxErrors, AnswersStored',
         NEW answer \in {"stored", "stale_command", "idempotency_conflict",
                         "version_conflict", "delivery_target_required", "error"},
         Conclude(w, answer)
  PROVE  ConfigInv'
<1> DEFINE r == [FreeWriter EXCEPT !.answer = answer]
<1>1. writer' = [writer EXCEPT ![w] = r]
  BY DEF Conclude
<1>2. r = [at |-> "idle", request |-> Free, seen |-> 0, answer |-> answer]
  BY DEF FreeWriter
<1>3. r \in WriterRecord /\ r.at = "idle" /\ r.seen = 0
  BY <1>2, ConfigAssumption DEF WriterRecord, Versions
<1>4. r.seen <= Cardinality(configs)
  BY <1>3, ActiveIsLast
<1> HIDE DEF r
<1> QED BY <1>1, <1>3, <1>4, WriterGoesOn

\* A request that moves on with what it has seen.
LEMMA WriterMoves ==
  ASSUME ConfigInv, NEW w \in Writers, UNCHANGED <<configs, answered, errors>>,
         configLock' \in Writers \cup {Free}, ~Stands(w, "idle"),
         NEW place \in {"ready", "lock", "reread"}, Move(w, place)
  PROVE  ConfigInv'
<1>1. PICK q \in WriterRecord : q = writer[w] /\ q.request \in Requests /\ q.seen <= Cardinality(configs)
  BY WriterTypes
<1> DEFINE r == [q EXCEPT !.at = place]
<1>2. writer' = [writer EXCEPT ![w] = r]
  BY <1>1 DEF Move
<1>3. r \in WriterRecord /\ r.request = q.request /\ r.seen = q.seen
  BY DEF WriterRecord
<1> HIDE DEF r
<1>4. AnswersStored' /\ errors' \in 0 .. MaxErrors
  BY AnswersKept, WriterTypes
<1> QED BY <1>1, <1>2, <1>3, <1>4, WriterGoesOn

\* A stored row answers only for its own key.
LEMMA AnswerStep ==
  ASSUME ConfigInv, NEW w \in Writers, ~Stands(w, "idle"), NEW c \in Stored(writer[w].request.key), AnswerWith(w, c),
         UNCHANGED <<configs, configLock, errors>>
  PROVE  ConfigInv'
<1>1. configLock' \in Writers \cup {Free} /\ errors' \in 0 .. MaxErrors
  BY WriterTypes
<1>2. CASE \E answer \in {"idempotency_conflict", "stale_command"} : Conclude(w, answer) /\ UNCHANGED answered
  BY <1>1, <1>2, AnswersKept, WriterConcludes
<1>3. CASE Conclude(w, "stored") /\ answered' = [answered EXCEPT ![writer[w].request.key] = @ \cup {c.version}]
  <2>1. PICK key \in ConfigKeys \cup {Free} : key = writer[w].request.key
    BY WriterTypes DEF Requests
  <2>2. c \in configs /\ key # Free /\ c.request.key = key /\ c.version \in Versions
    BY <2>1 DEF Stored, ConfigInv, ConfigTypeOK
  <2>3. AnswersStored
    BY WriterTypes
  <2>4. answered' = [answered EXCEPT ![key] = answered[key] \cup {c.version}]
    BY <1>3, <2>1
  <2>5. AnswersStored'
    <3>1. answered' \in [ConfigKeys -> SUBSET Versions]
      BY <2>2, <2>3, <2>4 DEF AnswersStored
    <3>2. ASSUME NEW k \in ConfigKeys, NEW v \in answered'[k] PROVE \E d \in Stored(k)' : d.version = v
      <4>1. CASE v \in answered[k]
        <5>1. PICK d \in Stored(k) : d.version = v
          BY <2>3, <4>1 DEF AnswersStored
        <5> QED BY <5>1 DEF Stored
      <4>2. CASE v \notin answered[k]
        <5>1. k = key /\ v = c.version
          BY <2>3, <2>4, <3>2, <4>2 DEF AnswersStored
        <5> QED BY <2>2, <5>1 DEF Stored
      <4> QED BY <4>1, <4>2
    <3> QED BY <3>1, <3>2 DEF AnswersStored
  <2> QED BY <1>1, <1>3, <2>5, WriterConcludes
<1> QED BY <1>2, <1>3 DEF AnswerWith

\* A request is submitted with the version its sender knows.
LEMMA SubmitStep == ASSUME ConfigInv, NEW w \in Writers, NEW q \in Requests, Submit(w, q) PROVE ConfigInv'
<1>0. PICK x \in WriterRecord : x = FreeWriter /\ x.seen = 0
  <2>1. FreeWriter \in WriterRecord /\ FreeWriter.seen = 0
    BY ConfigAssumption DEF FreeWriter, WriterRecord, Versions
  <2> QED BY <2>1
<1> DEFINE r == [x EXCEPT !.at = "lookup", !.request = q]
<1>1. writer' = [writer EXCEPT ![w] = r] /\ UNCHANGED <<configs, configLock, answered, errors>>
  BY <1>0 DEF Submit
<1>2. r \in WriterRecord /\ r.at = "lookup" /\ r.request = q /\ r.seen = x.seen
  BY DEF WriterRecord
<1>3. r.seen = 0
  BY <1>0, <1>2
<1>4. r.seen <= Cardinality(configs)
  BY <1>3, ActiveIsLast
<1> HIDE DEF r
<1>5. AnswersStored' /\ configLock' \in Writers \cup {Free} /\ errors' \in 0 .. MaxErrors
  BY <1>1, AnswersKept, WriterTypes
<1> QED BY <1>1, <1>2, <1>4, <1>5, WriterGoesOn

\* A request's key is looked up, and its readiness checked.
LEMMA LookupStep == ASSUME ConfigInv, NEW w \in Writers, Lookup(w) \/ CheckReady(w) \/ Reread(w) PROVE ConfigInv'
<1>1. ~Stands(w, "idle") /\ UNCHANGED <<configs, configLock, errors>>
  BY DEF Lookup, CheckReady, Reread, Stands
<1>2. configLock' \in Writers \cup {Free} /\ errors' \in 0 .. MaxErrors
  BY <1>1, WriterTypes
<1>3. CASE \E c \in Stored(writer[w].request.key) : AnswerWith(w, c)
  BY <1>1, <1>3, AnswerStep
<1>4. CASE \E place \in {"ready", "lock"} : Move(w, place) /\ UNCHANGED answered
  BY <1>1, <1>2, <1>4, WriterMoves
<1>5. CASE Conclude(w, "delivery_target_required") /\ UNCHANGED answered
  BY <1>1, <1>2, <1>5, AnswersKept, WriterConcludes
<1> QED BY <1>3, <1>4, <1>5 DEF Lookup, CheckReady, Reread

\* The transaction goes on with a version that was there, or none.
LEMMA GoOnStep ==
  ASSUME ConfigInv, NEW w \in Writers, ~Stands(w, "idle"), NEW n \in Versions, n <= Cardinality(configs),
         GoOn(w, n), UNCHANGED <<configs, answered, errors>>
  PROVE  ConfigInv'
<1>1. configLock' \in Writers \cup {Free} /\ errors' \in 0 .. MaxErrors /\ AnswersStored'
  BY WriterTypes, AnswersKept DEF GoOn
<1>2. CASE writer' = [writer EXCEPT ![w].at = "write", ![w].seen = n]
  <2>1. PICK q \in WriterRecord : q = writer[w] /\ q.request \in Requests
    BY WriterTypes
  <2> DEFINE r == [q EXCEPT !.at = "write", !.seen = n]
  <2>2. writer' = [writer EXCEPT ![w] = r]
    BY <1>2, <2>1
  <2>3. r \in WriterRecord /\ r.request = q.request /\ r.seen = n
    BY DEF WriterRecord
  <2> HIDE DEF r
  <2> QED BY <1>1, <2>1, <2>2, <2>3, WriterGoesOn
<1>3. CASE Conclude(w, "version_conflict")
  BY <1>1, <1>3, WriterConcludes
<1> QED BY <1>2, <1>3 DEF GoOn

\* The active row is locked, waited for, or gone.
LEMMA LockStep == ASSUME ConfigInv, NEW w \in Writers, Lock(w) \/ Wait(w) PROVE ConfigInv'
<1>1. ~Stands(w, "idle") /\ UNCHANGED <<configs, answered, errors>>
  BY DEF Lock, Wait, Stands
<1>2. PICK n \in Versions : n = ActiveVersion /\ n <= Cardinality(configs)
  BY ActiveIsLast
<1>3. 0 \in Versions /\ 0 <= Cardinality(configs)
  BY ActiveIsLast, ConfigAssumption DEF Versions
<1>4. CASE GoOn(w, n) \/ GoOn(w, 0)
  BY <1>1, <1>2, <1>3, <1>4, GoOnStep
<1>5. CASE writer' = [writer EXCEPT ![w].at = "wait", ![w].seen = n] /\ UNCHANGED configLock
  <2>1. PICK q \in WriterRecord : q = writer[w] /\ q.request \in Requests
    BY <1>1, WriterTypes
  <2> DEFINE r == [q EXCEPT !.at = "wait", !.seen = n]
  <2>2. writer' = [writer EXCEPT ![w] = r]
    BY <1>5, <2>1
  <2>3. r \in WriterRecord /\ r.request = q.request /\ r.seen = n
    BY DEF WriterRecord
  <2> HIDE DEF r
  <2>4. AnswersStored' /\ configLock' \in Writers \cup {Free} /\ errors' \in 0 .. MaxErrors
    BY <1>1, <1>5, AnswersKept, WriterTypes
  <2> QED BY <1>1, <1>2, <2>1, <2>2, <2>3, <2>4, WriterGoesOn
<1> QED BY <1>2, <1>4, <1>5 DEF Lock, Wait

\* The unique indexes let a version be written only after the last one.
LEMMA WrittenLast ==
  ASSUME ConfigInv, NEW w \in Writers, Stands(w, "write"), ~VersionTaken(w)
  PROVE  writer[w].seen = Cardinality(configs)
<1>1. PICK n \in Nat, s \in Nat : n = Cardinality(configs) /\ s = writer[w].seen /\ s <= n
  BY ActiveIsLast, WriterTypes, ConfigAssumption DEF WriterRecord, Versions
<1>2. \A c \in configs : c.version # s + 1
  BY <1>1 DEF VersionTaken
<1>3. s + 1 \notin 1 .. n
  BY <1>1, <1>2 DEF ConfigInv
<1> QED BY <1>1, <1>3

\* A version is stored, and the one before it superseded.
LEMMA StoreStep ==
  ASSUME ConfigInv, NEW w \in Writers, Stands(w, "write"), ~VersionTaken(w), ~KeyTaken(w),
         writer[w].seen < MaxConfigs, configs' = Superseding(w), LetGo(w),
         NEW answer \in {"stored", "error"}, Conclude(w, answer), errors' \in 0 .. MaxErrors,
         \/ answered' = answered
         \/ answered' = [k \in ConfigKeys |-> answered[k] \cup IF k = writer[w].request.key
                                                              THEN {writer[w].seen + 1} ELSE {}]
  PROVE  ConfigInv'
<1>1. PICK n \in Nat, q \in Requests :
          n = Cardinality(configs) /\ n = writer[w].seen /\ n < MaxConfigs /\ q = writer[w].request
  <2>1. Cardinality(configs) \in Nat /\ writer[w].seen = Cardinality(configs)
    BY WrittenLast, ActiveIsLast
  <2>2. writer[w].request \in Requests
    BY WriterTypes DEF Stands
  <2> QED BY <2>1, <2>2
<1>2. PICK f \in Requests : f = Fingerprint(q) /\ f.key = q.key
  <2>1. 0 \in Versions
    BY ConfigAssumption DEF Versions
  <2>2. [q EXCEPT !.expected = 0] \in Requests /\ [q EXCEPT !.expected = 0].key = q.key
    BY <2>1 DEF Requests
  <2> QED BY <2>2 DEF Fingerprint
<1> DEFINE new == [version |-> n + 1, request |-> f, active |-> TRUE]
           Row == [version : Versions, request : Requests, active : BOOLEAN]
           Old(c) == IF c.version = n THEN [c EXCEPT !.active = FALSE] ELSE c
<1>3. configs' = {Old(c) : c \in configs} \cup {new}
  BY <1>1, <1>2 DEF Superseding
<1>4. \A c \in configs : /\ Old(c) \in Row /\ Old(c).version = c.version /\ Old(c).request = c.request
                         /\ ~Old(c).active /\ c.version \in 1 .. n
  <2> SUFFICES ASSUME NEW c \in configs
               PROVE  /\ Old(c) \in Row /\ Old(c).version = c.version /\ Old(c).request = c.request
                      /\ ~Old(c).active /\ c.version \in 1 .. n
    OBVIOUS
  <2>1. c \in Row /\ (c.active <=> c.version = n) /\ c.version \in 1 .. n
    BY <1>1 DEF ConfigInv, ConfigTypeOK
  <2> QED BY <2>1
<1>5. new \in Row /\ new.version = n + 1 /\ new.request = f /\ new.active
  <2>1. n + 1 \in Versions
    BY <1>1, ConfigAssumption DEF Versions
  <2> QED BY <2>1
<1> HIDE DEF new, Old
<1>6. \A d \in configs' : /\ d \in Row /\ d.version \in 1 .. n + 1
                          /\ \/ d = new
                             \/ \E c \in configs : d = Old(c) /\ d.version = c.version /\ d.request = c.request
                                                   /\ ~d.active /\ d.version \in 1 .. n
  BY <1>3, <1>4, <1>5
<1>7. \A d, e \in configs' : d.version = e.version => d = e
  <2> SUFFICES ASSUME NEW d \in configs', NEW e \in configs', d.version = e.version PROVE d = e
    OBVIOUS
  <2>1. CASE d = new \/ e = new
    BY <1>5, <1>6, <2>1
  <2>2. CASE d # new /\ e # new
    <3>1. PICK b \in configs, c \in configs : d = Old(b) /\ e = Old(c) /\ b.version = c.version
      BY <1>6, <2>2
    <3>2. b = c
      BY <3>1 DEF ConfigInv
    <3> QED BY <3>1, <3>2
  <2> QED BY <2>1, <2>2
<1>8. {d.version : d \in configs'} = 1 .. n + 1
  <2>1. \A v \in 1 .. n + 1 : \E d \in configs' : d.version = v
    <3> SUFFICES ASSUME NEW v \in 1 .. n + 1 PROVE \E d \in configs' : d.version = v
      OBVIOUS
    <3>1. CASE v = n + 1
      BY <1>3, <1>5, <3>1
    <3>2. CASE v \in 1 .. n
      <4>1. PICK c \in configs : c.version = v
        BY <1>1, <3>2 DEF ConfigInv
      <4> QED BY <1>3, <1>4, <4>1
    <3> QED BY <3>1, <3>2
  <2> QED BY <1>6, <2>1
<1>9. IsFiniteSet(configs') /\ Cardinality(configs') = n + 1
  <2> DEFINE g == [d \in configs' |-> d.version]
  <2>1. g \in [configs' -> 1 .. n + 1]
    BY <1>6
  <2>2. IsInjective(g)
    BY <1>7 DEF IsInjective
  <2>3. \A v \in 1 .. n + 1 : \E d \in configs' : g[d] = v
    BY <1>8
  <2>4. g \in Injection(configs', 1 .. n + 1) /\ g \in Surjection(configs', 1 .. n + 1)
    BY <2>1, <2>2, <2>3 DEF Injection, Surjection
  <2>5. IsFiniteSet(1 .. n + 1) /\ Cardinality(1 .. n + 1) = n + 1
    BY FS_Interval
  <2> HIDE DEF g
  <2> QED BY <2>4, <2>5, FS_Injection
<1>10. \A d \in configs' : d.active <=> d.version = n + 1
  BY <1>5, <1>6
<1>11. \A d, e \in configs' : d.request.key = e.request.key /\ d.request.key # Free => d = e
  <2> SUFFICES ASSUME NEW d \in configs', NEW e \in configs', d.request.key = e.request.key, d.request.key # Free
               PROVE d = e
    OBVIOUS
  <2>0. \A c \in configs : c.request.key = q.key => q.key = Free
    BY <1>1 DEF KeyTaken, Stored
  <2>1. CASE d = new \/ e = new
    BY <1>2, <1>5, <1>6, <2>0, <2>1
  <2>2. CASE d # new /\ e # new
    <3>1. PICK b \in configs, c \in configs : d = Old(b) /\ e = Old(c) /\ b.request = d.request /\ c.request = e.request
      BY <1>6, <2>2
    <3>2. b = c
      BY <3>1 DEF ConfigInv
    <3> QED BY <3>1, <3>2
  <2> QED BY <2>1, <2>2
<1>12. AnswersStored'
  <2>1. AnswersStored
    BY WriterTypes
  <2>2. PICK key \in ConfigKeys \cup {Free} : key = q.key
    BY DEF Requests
  <2>3. n + 1 \in Versions
    BY <1>1, ConfigAssumption DEF Versions
  <2>4. /\ answered' \in [ConfigKeys -> SUBSET Versions]
        /\ \A k \in ConfigKeys : \A v \in answered'[k] : v \in answered[k] \/ (k = key /\ v = n + 1)
    BY <1>1, <2>1, <2>2, <2>3 DEF AnswersStored
  <2>5. ASSUME NEW k \in ConfigKeys, NEW v \in answered'[k] PROVE \E d \in Stored(k)' : d.version = v
    <3>1. k # Free
      BY ConfigAssumption DEF ConfigKeys
    <3>2. CASE v \in answered[k]
      <4>1. PICK c \in configs : c.request.key = k /\ c.version = v
        BY <2>1, <3>2 DEF AnswersStored, Stored
      <4>2. Old(c) \in configs' /\ Old(c).request.key = k /\ Old(c).version = v
        BY <1>3, <1>4, <4>1
      <4> QED BY <3>1, <4>2 DEF Stored
    <3>3. CASE k = key /\ v = n + 1
      <4>1. new \in configs' /\ new.request.key = k /\ new.version = v
        BY <1>2, <1>3, <1>5, <2>2, <3>3
      <4> QED BY <3>1, <4>1 DEF Stored
    <3> QED BY <2>4, <2>5, <3>2, <3>3
  <2> QED BY <2>4, <2>5 DEF AnswersStored
<1>13. /\ writer' \in [Writers -> WriterRecord] /\ \A v \in Writers : v # w => writer'[v] = writer[v]
       /\ writer'[w].at = "idle" /\ writer'[w].seen = 0
  <2> DEFINE r == [FreeWriter EXCEPT !.answer = answer]
  <2>1. r = [at |-> "idle", request |-> Free, seen |-> 0, answer |-> answer]
    BY DEF FreeWriter
  <2>2. r \in WriterRecord /\ r.at = "idle" /\ r.seen = 0
    BY <2>1, ConfigAssumption DEF WriterRecord, Versions
  <2>3. writer' = [writer EXCEPT ![w] = r] /\ writer \in [Writers -> WriterRecord]
    BY DEF Conclude, ConfigInv, ConfigTypeOK, WriterRecord
  <2> HIDE DEF r
  <2> QED BY <2>2, <2>3
<1>14. \A v \in Writers : writer'[v].seen <= n + 1 /\ (writer'[v].at # "idle" => writer'[v].request \in Requests)
  <2> SUFFICES ASSUME NEW v \in Writers
               PROVE  writer'[v].seen <= n + 1 /\ (writer'[v].at # "idle" => writer'[v].request \in Requests)
    OBVIOUS
  <2>1. writer[v].seen \in Nat /\ writer[v].seen <= n /\ (writer[v].at # "idle" => writer[v].request \in Requests)
    BY <1>1, WriterTypes, ConfigAssumption DEF WriterRecord, Versions, Stands
  <2> QED BY <1>13, <2>1
<1>15. configLock' \in Writers \cup {Free}
  BY WriterTypes DEF LetGo
<1>16. ConfigTypeOK'
  BY <1>6, <1>13, <1>15 DEF ConfigTypeOK, WriterRecord
<1> QED BY <1>7, <1>8, <1>9, <1>10, <1>11, <1>12, <1>14, <1>16 DEF ConfigInv, AnswersStored, Stands

\* The transaction commits, conflicts, or loses its answer.
LEMMA WriteStep == ASSUME ConfigInv, NEW w \in Writers, Write(w) \/ FailWriter(w) PROVE ConfigInv'
<1>1. ~Stands(w, "idle") /\ LetGo(w) /\ configLock' \in Writers \cup {Free}
  BY WriterTypes DEF Write, FailWriter, Stands, LetGo
<1>2. errors' \in 0 .. MaxErrors
  <2>1. errors \in 0 .. MaxErrors
    BY WriterTypes
  <2>2. errors' = errors \/ (errors < MaxErrors /\ errors' = errors + 1)
    BY DEF Write, FailWriter
  <2> QED BY <2>1, <2>2, ConfigAssumption
<1>3. CASE \E answer \in {"version_conflict", "error"} : Conclude(w, answer) /\ UNCHANGED <<configs, answered>>
  BY <1>1, <1>2, <1>3, AnswersKept, WriterConcludes
<1>4. CASE Move(w, "reread") /\ UNCHANGED <<configs, answered, errors>>
  BY <1>1, <1>4, WriterMoves
<1>5. CASE /\ Stands(w, "write") /\ ~VersionTaken(w) /\ ~KeyTaken(w) /\ writer[w].seen < MaxConfigs
           /\ configs' = Superseding(w)
           /\ \E answer \in {"stored", "error"} : Conclude(w, answer)
           /\ \/ answered' = answered
              \/ answered' = [k \in ConfigKeys |-> answered[k] \cup IF k = writer[w].request.key
                                                                   THEN {writer[w].seen + 1} ELSE {}]
  BY <1>1, <1>2, <1>5, StoreStep
<1>6. CASE Write(w)
  BY <1>3, <1>4, <1>5, <1>6 DEF Write
<1>7. CASE FailWriter(w)
  BY <1>3, <1>7 DEF FailWriter
<1> QED BY <1>6, <1>7

\* Every step keeps what is known of the configurations.
LEMMA ConfigStep == ASSUME ConfigInv, [ConfigNext]_<<configVars, bindingVars>> PROVE ConfigInv'
<1>1. CASE \E w \in Writers : WriterStep(w)
  BY <1>1, SubmitStep, LookupStep, LockStep, WriteStep DEF WriterStep
<1>2. CASE UNCHANGED configVars
  BY <1>2 DEF configVars, ConfigInv, ConfigTypeOK, Stands, Stored
<1> QED BY <1>1, <1>2 DEF ConfigNext

\* Every request sent again under a key is answered with the one version the key
\* created, versions follow each other and the last alone is active, for any
\* number of requests, keys and faults, and whether or not the row lock is held:
\* the unique indexes are what the proof rests on.
THEOREM KeyedAnswersHolds == ConfigSpec => []KeyedAnswers
<1>1. ConfigInit => ConfigInv
  <2> SUFFICES ASSUME ConfigInit PROVE ConfigInv
    OBVIOUS
  <2>1. configs = {} /\ IsFiniteSet(configs) /\ Cardinality(configs) = 0
    BY FS_EmptySet DEF ConfigInit
  <2>2. FreeWriter \in WriterRecord /\ FreeWriter.at = "idle" /\ FreeWriter.seen = 0 /\ 0 \in 0 .. MaxErrors
    BY ConfigAssumption DEF FreeWriter, WriterRecord, Versions
  <2>3. /\ writer \in [Writers -> WriterRecord] /\ \A w \in Writers : writer[w].at = "idle" /\ writer[w].seen = 0
    BY <2>2 DEF ConfigInit
  <2>4. configLock = Free /\ errors = 0 /\ answered \in [ConfigKeys -> SUBSET Versions]
        /\ \A k \in ConfigKeys : answered[k] = {}
    BY DEF ConfigInit
  <2>5. ConfigTypeOK
    BY <2>1, <2>2, <2>3, <2>4 DEF ConfigTypeOK, WriterRecord
  <2> QED BY <2>1, <2>3, <2>4, <2>5 DEF ConfigInv, Stands
<1>2. ConfigInv => KeyedAnswers
  <2> SUFFICES ASSUME ConfigInv, NEW k \in ConfigKeys
               PROVE  Cardinality(answered[k] \cup {c.version : c \in Stored(k)}) <= 1
    BY DEF KeyedAnswers, ConfigInv
  <2> DEFINE S == answered[k] \cup {c.version : c \in Stored(k)}
  <2>1. \A u, v \in S : u = v
    BY DEF ConfigInv, Stored
  <2>2. CASE S = {}
    BY <2>2, FS_EmptySet
  <2>3. CASE S # {}
    <3>1. PICK v \in S : S = {v}
      BY <2>1, <2>3
    <3>2. Cardinality({} \cup {v}) = 0 + 1 /\ {} \cup {v} = {v}
      BY FS_EmptySet, FS_AddElement
    <3> QED BY <3>1, <3>2
  <2> QED BY <2>2, <2>3
<1> QED BY <1>1, <1>2, ConfigStep, PTL DEF ConfigSpec

-----------------------------------------------------------------------------
(* Records: an explicit correction outlives every asynchronous decision.     *)

\* A corrected turn is resolved, with the participant that was asked for: the
\* status is what keeps the workers' decisions away.
CorrectionInv ==
    /\ DOMAIN asked = FinalTurns /\ DOMAIN kept = FinalTurns
    /\ \A t \in FinalTurns : asked[t] # 0 => kept[t].status = "resolved" /\ kept[t].participant = asked[t]

\* A worker writes no turn that is resolved, and corrects none.
DecisionsYield ==
    /\ UNCHANGED asked /\ DOMAIN kept' = DOMAIN kept
    /\ \A t \in FinalTurns : kept[t].status = "resolved" => kept'[t] = kept[t]

\* Whatever writes no resolved turn keeps the corrections.
LEMMA YieldKeeps == ASSUME CorrectionInv, DecisionsYield PROVE CorrectionInv'
BY DEF CorrectionInv, DecisionsYield

\* Storing a turn, whether its event is new or a replay, yields to a correction.
LEMMA StoredYields == ASSUME CorrectionInv, NEW t, TurnStored(t), UNCHANGED asked PROVE DecisionsYield
<1>1. CASE kept[t].status = "none" /\ kept' = [kept EXCEPT ![t].status = "pending"]
  BY <1>1 DEF CorrectionInv, DecisionsYield
<1>2. CASE kept' = kept
  BY <1>2 DEF DecisionsYield
<1> QED BY <1>1, <1>2 DEF TurnStored

\* Applying an asynchronous decision yields to a correction.
LEMMA AttributedYields ==
  ASSUME CorrectionInv, NEW t, NEW p, Attributed(t, p), UNCHANGED asked PROVE DecisionsYield
<1> DEFINE r == IF kept[t].status = "pending" THEN [status |-> "resolved", participant |-> p] ELSE kept[t]
<1>1. kept' = [kept EXCEPT ![t] = r] /\ (kept[t].status = "resolved" => r = kept[t])
  BY DEF Attributed
<1> HIDE DEF r
<1> QED BY <1>1 DEF CorrectionInv, DecisionsYield

\* The explicit correction writes the turn and remembers what was asked.
LEMMA CorrectKeeps ==
  ASSUME CorrectionInv, NEW t \in FinalTurns, NEW p \in Speakers, CorrectAttribution(t, p) PROVE CorrectionInv'
<1>1. /\ kept' = [kept EXCEPT ![t] = [status |-> "resolved", participant |-> p]]
      /\ asked' = [asked EXCEPT ![t] = p]
  BY DEF CorrectAttribution
<1> QED BY <1>1 DEF CorrectionInv

\* A worker's step, its failure and its crash yield to the corrections.
LEMMA RecordWorkerYields ==
  ASSUME CorrectionInv, NEW w \in RecordWorkers, RecordWorkerStep(w) \/ EndProcess(w) PROVE DecisionsYield
<1>1. CASE \E q \in Queues, t \in FinalTurns : ReceiveRow(w, q, t)
  BY <1>1 DEF ReceiveRow, DecisionsYield
<1>2. CASE StoreFinalTurn(w)
  <2>1. UNCHANGED asked /\ (TurnStored(loop[w].turn) \/ UNCHANGED kept)
    BY <1>2 DEF StoreFinalTurn
  <2> QED BY <2>1, StoredYields DEF DecisionsYield
<1>3. CASE Apply(w)
  <2>1. UNCHANGED asked /\ (Attributed(loop[w].turn, loop[w].participant) \/ UNCHANGED kept)
    BY <1>3 DEF Apply
  <2> QED BY <2>1, AttributedYields DEF DecisionsYield
<1>4. CASE ScheduleFinalTurn(w) \/ HandleAttribution(w) \/ FindOrCreate(w) \/ SettleRow(w) \/ EndProcess(w)
  BY <1>4 DEF ScheduleFinalTurn, HandleAttribution, FindOrCreate, SettleRow, EndProcess, DecisionsYield
<1> QED BY <1>1, <1>2, <1>3, <1>4 DEF RecordWorkerStep

\* Every step keeps what a correction asked for.
LEMMA CorrectionStep == ASSUME CorrectionInv, [RecordsNext]_recordVars PROVE CorrectionInv'
<1>1. CASE \E t \in FinalTurns, p \in Speakers : CorrectAttribution(t, p)
  BY <1>1, CorrectKeeps
<1>2. CASE \E w \in RecordWorkers : RecordWorkerStep(w) \/ EndProcess(w)
  BY <1>2, RecordWorkerYields, YieldKeeps
<1>3. CASE \/ \E t \in FinalTurns : AppendFinal(t) \/ (\E q \in Queues : LeaseRunsOut(q, t))
           \/ \E p \in Speakers, k \in SpeakerKeys \cup {NoRecord} : UpdateParticipant(p, k)
           \/ UNCHANGED recordVars
  <2>1. DecisionsYield
    BY <1>3 DEF AppendFinal, LeaseRunsOut, UpdateParticipant, recordVars, DecisionsYield
  <2> QED BY <2>1, YieldKeeps
<1> QED BY <1>1, <1>2, <1>3 DEF RecordsNext

\* An explicit correction of a turn's speaker stays until the next one, for any
\* number of turns, workers, crashes, stalls and retries of either queue.
THEOREM CorrectionKeptHolds == RecordsSpec => []CorrectionKept
<1>1. RecordsInit => CorrectionInv
  BY DEF RecordsInit, CorrectionInv
<1>2. CorrectionInv => CorrectionKept
  BY DEF CorrectionInv, CorrectionKept
<1> QED BY <1>1, <1>2, CorrectionStep, PTL DEF RecordsSpec

-----------------------------------------------------------------------------
(* The voice page: whatever overtakes a start, its session is accounted for. *)

PageRecord ==
    [running : BOOLEAN, polling : BOOLEAN, phase : {"idle", "listening", "active"}, abort : Starts \cup {NoStart},
     session : Starts \cup {NoStart}, media : Starts \cup {NoStart}, ticket : Starts \cup {NoStart}]

PageTypes ==
    /\ page \in PageRecord
    /\ starts \in [Starts -> {"idle", "auth", "create", "config", "ticket", "webrtc", "signal", "start", "done"}]
    /\ ends \in [Ends -> [at : {"idle", "waiting", "done"}, session : Starts \cup {NoStart}]]
    /\ server \in [Starts -> {"none", "created", "active", "ended"}]
    /\ peers \subseteq Starts /\ \A r \in requests : r[3] \in Starts

Waiting == \E e \in Ends : ends[e].at = "waiting"
Left == \A i \in Starts : starts[i] # "idle"

\* Nobody holds the session: it was left, the page was never told of it, it has
\* ended or its end is asked for.
GivenUp(s) == s \in lost \/ s \in unanswered \/ server[s] = "ended" \/ \E r \in requests : r[3] = s

\* The start whose controller the page holds is the one that runs.
ControllerLive ==
    /\ page.running <=> page.abort # NoStart
    /\ page.abort # NoStart => page.abort \notin aborted /\ starts[page.abort] # "idle" /\ ~Waiting

\* What the page holds is that start's, as far as it has come.
HoldsOwn ==
    LET i == page.abort IN
    i # NoStart =>
        /\ starts[i] \in {"auth", "create"} => page.session = NoStart /\ page.ticket = NoStart
        /\ starts[i] \notin {"auth", "create"} => page.session = i /\ page.ticket \in {NoStart, i}
        /\ starts[i] \notin {"start", "done"} => page.media = NoStart

\* Without one it holds what an end, or leaving the page, is giving up.
HoldsEnding ==
    page.abort = NoStart =>
        /\ page.session # NoStart => GivenUp(page.session)
        /\ page.ticket # NoStart => page.ticket = page.session \/ page.session = NoStart
        /\ Waiting \/ Left \/ (page.session = NoStart /\ page.ticket = NoStart /\ page.media = NoStart)

SessionsKnown ==
    \A s \in Starts : server[s] # "none" =>
        page.session = s \/ starts[s] = "create" \/ GivenUp(s)
PeersKnown == \A c \in peers : page.media = c \/ starts[c] = "signal"

\* A controller is aborted only after its start began.
AbortedBegun == \A i \in Starts : starts[i] = "idle" => i \notin aborted

PageBody == AbortedBegun /\ PageTypes /\ ControllerLive /\ HoldsOwn /\ HoldsEnding /\ SessionsKnown /\ PeersKnown
PageInv == overlapped \/ PageBody

\* A start calls /start last; one that got no answer to its creation never does.
BeforeStart == {"idle", "auth", "create", "config", "ticket", "webrtc", "signal"}
UnansweredInv ==
    /\ starts \in [Starts -> BeforeStart \cup {"start", "done"}]
    /\ server \in [Starts -> {"none", "created", "active", "ended"}]
    /\ \A i \in Starts : i \in unanswered => starts[i] = "done"
    /\ \A i \in Starts : i \in unanswered \/ starts[i] \in BeforeStart => i \notin starting /\ server[i] # "active"

\* No start bears the number of nobody.
LEMMA StartNumbers == NoStart \notin Starts
BY DEF NoStart, Starts

\* The start that is wanted is the one whose controller the page holds.
LEMMA WantedIsHeld == ASSUME PageBody, NEW i \in Starts PROVE Wanted(i) <=> page.abort = i
BY StartNumbers DEF PageBody, ControllerLive, Wanted

\* What was given up stays so.
LEMMA GivenUpStays ==
  ASSUME lost \subseteq lost', unanswered \subseteq unanswered', requests \subseteq requests', NEW s \in Starts, GivenUp(s),
         server[s] = "ended" => server'[s] = "ended"
  PROVE  GivenUp(s)'
BY DEF GivenUp

\* A start that is wanted takes its next step.
LEMMA StartGoesOn ==
  ASSUME PageBody, NEW i \in Starts, Wanted(i), NEW r \in PageRecord, page' = r,
         r.running = page.running, r.abort = page.abort,
         NEW to \in {"create", "config", "ticket", "webrtc", "start", "done"},
         starts' = [starts EXCEPT ![i] = to], UNCHANGED <<aborted, ends, server, requests, lost, unanswered, peers>>,
         to = "create" => r.session = NoStart /\ r.ticket = NoStart /\ starts[i] = "auth" /\ page.session = NoStart,
         to # "create" => r.session = i /\ r.ticket \in {NoStart, i} /\ page.session \in {NoStart, i},
         to \notin {"start", "done"} => r.media = NoStart,
         \/ r.media = i /\ page.media = NoStart
         \/ r.media = page.media /\ starts[i] # "signal"
  PROVE  PageBody'
<1>1. page.abort = i /\ page \in PageRecord
  BY WantedIsHeld DEF PageBody, PageTypes
<1>2. /\ starts' \in [Starts -> {"idle", "auth", "create", "config", "ticket", "webrtc", "signal", "start", "done"}]
      /\ starts'[i] = to /\ \A j \in Starts : j # i => starts'[j] = starts[j]
  BY DEF PageBody, PageTypes
<1>3. PageTypes'
  BY <1>2 DEF PageBody, PageTypes
<1>4. ControllerLive'
  BY <1>1, <1>2 DEF PageBody, ControllerLive, Waiting
<1>5. HoldsOwn' /\ HoldsEnding'
  BY <1>1, <1>2, StartNumbers DEF HoldsOwn, HoldsEnding
<1>6. SessionsKnown'
  <2> SUFFICES ASSUME NEW s \in Starts, server[s] # "none"
               PROVE  r.session = s \/ starts'[s] = "create" \/ GivenUp(s)'
    BY DEF SessionsKnown
  <2>1. page.session = s \/ starts[s] = "create" \/ GivenUp(s)
    BY DEF PageBody, SessionsKnown
  <2>2. GivenUp(s) => GivenUp(s)'
    BY DEF GivenUp
  <2> QED BY <1>2, <2>1, <2>2, StartNumbers
<1>7. PeersKnown'
  <2> SUFFICES ASSUME NEW c \in peers PROVE r.media = c \/ starts'[c] = "signal"
    BY DEF PeersKnown
  <2>1. c \in Starts /\ (page.media = c \/ starts[c] = "signal")
    BY DEF PageBody, PageTypes, PeersKnown
  <2> QED BY <1>2, <2>1, StartNumbers
<1>8. AbortedBegun'
  BY <1>2 DEF PageBody, AbortedBegun
<1> QED BY <1>3, <1>4, <1>5, <1>6, <1>7, <1>8 DEF PageBody

\* A start that is no longer wanted takes back what it alone holds.
LEMMA StartCancelled ==
  ASSUME PageBody, NEW i \in Starts, NEW owned \in {{}, {i}}, NEW unclaimed \in {{}, {i}},
         Cancelled(i, owned, unclaimed), UNCHANGED <<aborted, ends, server, lost>>,
         unanswered \subseteq unanswered', starts[i] # "idle", starts[i] = "signal" => i \in unclaimed,
         starts[i] = "create" => i \in owned \/ i \in unanswered'
  PROVE  PageBody'
<1>1. PICK q \in PageRecord : q = page /\ q.abort # i
  BY WantedIsHeld DEF Cancelled, PageBody, PageTypes
<1>2. PICK t \in Starts \cup {NoStart} : t = IF q.session = i THEN NoStart ELSE q.session
  BY DEF PageRecord
<1> DEFINE r == [q EXCEPT !.session = t, !.abort = q.abort]
<1>3. page' = r
  BY <1>1, <1>2 DEF Cancelled
<1>4. /\ r \in PageRecord /\ r.running = q.running /\ r.abort = q.abort /\ r.media = q.media
      /\ r.ticket = q.ticket /\ r.session = t
  BY <1>2 DEF PageRecord
<1> HIDE DEF r
<1>5. /\ starts' \in [Starts -> {"idle", "auth", "create", "config", "ticket", "webrtc", "signal", "start", "done"}]
      /\ starts'[i] = "done" /\ \A j \in Starts : j # i => starts'[j] = starts[j]
  BY DEF Cancelled, PageBody, PageTypes
<1>6. /\ peers' = peers \ unclaimed /\ requests' = requests \cup {<<"start", i, i>> : s \in owned}
      /\ requests \subseteq requests' /\ \A s \in Starts : GivenUp(s) => GivenUp(s)'
  <2>1. peers' = peers \ unclaimed /\ requests' = requests \cup {<<"start", i, i>> : s \in owned}
    BY DEF Cancelled
  <2> QED BY <2>1, GivenUpStays
<1>7. PageTypes'
  <2>1. \A r1 \in requests' : r1[3] \in Starts
    BY <1>6 DEF PageBody, PageTypes
  <2> QED BY <1>3, <1>4, <1>5, <1>6, <2>1 DEF PageBody, PageTypes
<1>8. ControllerLive'
  BY <1>1, <1>3, <1>4, <1>5 DEF PageBody, PageTypes, PageRecord, ControllerLive, Waiting
<1>9. q.session = i => q.abort = NoStart
  BY <1>1, StartNumbers DEF PageBody, HoldsOwn, PageRecord
<1>10. HoldsOwn'
  BY <1>1, <1>2, <1>3, <1>4, <1>5, <1>9 DEF PageBody, HoldsOwn, PageRecord
<1>11. HoldsEnding'
  <2> SUFFICES ASSUME q.abort = NoStart
               PROVE  /\ t # NoStart => GivenUp(t)'
                      /\ q.ticket # NoStart => q.ticket = t \/ t = NoStart
                      /\ Waiting' \/ Left' \/ (t = NoStart /\ q.ticket = NoStart /\ q.media = NoStart)
    BY <1>3, <1>4 DEF HoldsEnding
  <2>1. /\ q.session # NoStart => GivenUp(q.session)
        /\ q.ticket # NoStart => q.ticket = q.session \/ q.session = NoStart
        /\ Waiting \/ Left \/ (q.session = NoStart /\ q.ticket = NoStart /\ q.media = NoStart)
    BY <1>1 DEF PageBody, HoldsEnding
  <2>2. (Waiting => Waiting') /\ (Left => Left')
    BY <1>5 DEF Waiting, Left
  <2>3. t # NoStart => GivenUp(t)'
    BY <1>2, <1>6, <2>1
  <2> QED BY <1>2, <2>1, <2>2, <2>3
<1>12. SessionsKnown'
  <2> SUFFICES ASSUME NEW s \in Starts, server[s] # "none"
               PROVE  t = s \/ starts'[s] = "create" \/ GivenUp(s)'
    BY <1>3, <1>4 DEF SessionsKnown
  <2>1. q.session = s \/ starts[s] = "create" \/ GivenUp(s)
    BY <1>1 DEF PageBody, SessionsKnown
  <2>2. CASE s = i /\ starts[i] = "create"
    <3>1. i \in owned => <<"start", i, i>> \in requests'
      BY <1>6, <2>2
    <3> QED BY <2>2, <3>1 DEF GivenUp
  <2>3. CASE s = i /\ q.session = i
    <3>1. GivenUp(i)
      BY <1>1, <1>9, <2>3, StartNumbers DEF PageBody, HoldsEnding
    <3> QED BY <1>6, <2>3, <3>1
  <2> QED BY <1>2, <1>5, <1>6, <2>1, <2>2, <2>3
<1>13. PeersKnown'
  <2> SUFFICES ASSUME NEW c \in peers, c \notin unclaimed PROVE r.media = c \/ starts'[c] = "signal"
    BY <1>3, <1>6 DEF PeersKnown
  <2>1. c \in Starts /\ (page.media = c \/ starts[c] = "signal")
    BY DEF PageBody, PageTypes, PeersKnown
  <2> QED BY <1>1, <1>4, <1>5, <2>1
<1>14. AbortedBegun'
  BY <1>5 DEF PageBody, AbortedBegun
<1> QED BY <1>7, <1>8, <1>10, <1>11, <1>12, <1>13, <1>14 DEF PageBody

\* Nothing of the page, its starts and ends, and its connections changes.
LEMMA ServerMoves ==
  ASSUME PageBody, UNCHANGED <<page, aborted, starts, ends, peers>>,
         server' \in [Starts -> {"none", "created", "active", "ended"}], \A r \in requests' : r[3] \in Starts,
         \A s \in Starts : GivenUp(s) => GivenUp(s)',
         \A s \in Starts : server'[s] # "none" =>
             server[s] # "none" \/ starts[s] = "create" \/ GivenUp(s)'
  PROVE  PageBody'
<1>1. AbortedBegun' /\ PageTypes' /\ ControllerLive' /\ HoldsOwn' /\ PeersKnown'
  BY DEF PageBody, AbortedBegun, PageTypes, ControllerLive, HoldsOwn, PeersKnown, Waiting
<1>2. HoldsEnding'
  <2>1. page.session \in Starts \cup {NoStart}
    BY DEF PageBody, PageTypes, PageRecord
  <2> QED BY <2>1 DEF PageBody, HoldsEnding, Waiting, Left
<1>3. SessionsKnown'
  BY DEF PageBody, SessionsKnown
<1> QED BY <1>1, <1>2, <1>3 DEF PageBody

\* The server creates, starts and ends sessions, or a request to end one is lost.
LEMMA ServerSteps ==
  ASSUME PageBody,
         \/ \E i \in Starts : ServerCreates(i) \/ ServerStarts(i)
         \/ \E r \in requests : ServerEnds(r)
  PROVE  PageBody'
<1>1. CASE \E i \in Starts : ServerCreates(i)
  <2>1. PICK i \in Starts : ServerCreates(i)
    BY <1>1
  <2>2. /\ UNCHANGED <<page, aborted, starts, ends, peers, requests, lost, unanswered>>
        /\ starts[i] = "create" \/ i \in unanswered
        /\ server[i] = "none"
        /\ server' \in [Starts -> {"none", "created", "active", "ended"}]
        /\ \A s \in Starts : s # i => server'[s] = server[s]
    BY <2>1 DEF ServerCreates, PageBody, PageTypes
  <2>3. /\ \A r \in requests' : r[3] \in Starts
        /\ \A s \in Starts : GivenUp(s) => GivenUp(s)'
        /\ i \in unanswered => GivenUp(i)'
    BY <2>2 DEF PageBody, PageTypes, GivenUp
  <2> QED BY <2>2, <2>3, ServerMoves
<1>2. CASE \E i \in Starts : ServerStarts(i)
  <2>1. PICK i \in Starts : ServerStarts(i)
    BY <1>2
  <2>2. /\ UNCHANGED <<page, aborted, starts, ends, peers, requests, lost, unanswered>>
        /\ server' \in [Starts -> {"none", "created", "active", "ended"}]
        /\ \A s \in Starts : server'[s] = IF s = i /\ server[s] = "created" THEN "active" ELSE server[s]
    BY <2>1 DEF ServerStarts, PageBody, PageTypes
  <2>3. /\ \A r \in requests' : r[3] \in Starts
        /\ \A s \in Starts : GivenUp(s) => GivenUp(s)'
    BY <2>2 DEF PageBody, PageTypes, GivenUp
  <2> QED BY <2>2, <2>3, ServerMoves
<1>3. CASE \E r \in requests : ServerEnds(r)
  <2>1. PICK r \in requests : ServerEnds(r)
    BY <1>3
  <2>2. PICK t \in Starts : t = r[3]
    BY DEF PageBody, PageTypes
  <2>3. /\ UNCHANGED <<page, aborted, starts, ends, peers, unanswered>> /\ requests' = requests \ {r}
        /\ server' \in [Starts -> {"none", "created", "active", "ended"}]
        /\ \A s \in Starts : s # t => server'[s] = server[s]
        /\ (server'[t] = "ended" /\ lost' = lost) \/ (server' = server /\ lost' = lost \cup {t})
    BY <2>1, <2>2 DEF ServerEnds, PageBody, PageTypes
  <2>4. /\ \A r1 \in requests' : r1[3] \in Starts
        /\ GivenUp(t)' /\ \A s \in Starts : s # t /\ GivenUp(s) => GivenUp(s)'
    BY <2>2, <2>3 DEF PageBody, PageTypes, GivenUp
  <2> QED BY <2>3, <2>4, ServerMoves
<1> QED BY <1>1, <1>2, <1>3

\* A start that failed gives everything up, and asks for its session's end.
LEMMA StartFailed ==
  ASSUME PageBody, NEW i \in Starts, Failed(i, {i}), UNCHANGED <<aborted, ends, server, lost>>,
         unanswered \subseteq unanswered', starts[i] = "create" => i \in unanswered'
  PROVE  PageBody'
<1>1. /\ page' = Idle /\ Idle \in PageRecord /\ ~Idle.running /\ Idle.abort = NoStart
      /\ Idle.session = NoStart /\ Idle.media = NoStart /\ Idle.ticket = NoStart
  BY DEF Failed, Idle, PageRecord
<1>2. /\ starts' \in [Starts -> {"idle", "auth", "create", "config", "ticket", "webrtc", "signal", "start", "done"}]
      /\ starts'[i] = "done" /\ \A j \in Starts : j # i => starts'[j] = starts[j]
  BY DEF Failed, PageBody, PageTypes
<1>3. page.session \in Starts \cup {NoStart}
  BY DEF PageBody, PageTypes, PageRecord
<1>4. /\ peers' \subseteq peers /\ i \notin peers' /\ page.media \notin peers' /\ requests \subseteq requests'
      /\ \A r \in requests' : r \in requests \/ (r[3] = page.session /\ r[3] # NoStart)
      /\ page.session # NoStart => \E r \in requests' : r[3] = page.session
  <2>1. peers' = peers \ ({i} \cup {page.media})
        /\ requests' = requests \cup {<<"start", i, s>> : s \in {page.session} \ {NoStart}}
    BY DEF Failed
  <2>2. \A s : <<"start", i, s>>[3] = s
    OBVIOUS
  <2>3. page.session # NoStart => <<"start", i, page.session>> \in requests'
    BY <2>1
  <2> QED BY <2>1, <2>2, <2>3
<1>5. \A s \in Starts : GivenUp(s) => GivenUp(s)'
  BY <1>4, GivenUpStays
<1>6. PageTypes'
  <2>1. \A r \in requests' : r[3] \in Starts
    BY <1>3, <1>4 DEF PageBody, PageTypes
  <2> QED BY <1>1, <1>2, <1>4, <2>1 DEF PageBody, PageTypes
<1>7. ControllerLive' /\ HoldsOwn' /\ HoldsEnding'
  BY <1>1 DEF ControllerLive, HoldsOwn, HoldsEnding
<1>8. SessionsKnown'
  <2> SUFFICES ASSUME NEW s \in Starts, server[s] # "none" PROVE starts'[s] = "create" \/ GivenUp(s)'
    BY DEF SessionsKnown
  <2>1. page.session = s \/ starts[s] = "create" \/ GivenUp(s)
    BY DEF PageBody, SessionsKnown
  <2>2. page.session = s => GivenUp(s)'
    BY <1>4, StartNumbers DEF GivenUp
  <2>3. starts[i] = "create" => GivenUp(i)'
    BY DEF GivenUp
  <2> QED BY <1>2, <1>5, <2>1, <2>2, <2>3
<1>9. PeersKnown'
  <2> SUFFICES ASSUME NEW c \in peers' PROVE starts'[c] = "signal"
    BY DEF PeersKnown
  <2>1. c \in Starts /\ c # i /\ starts[c] = "signal"
    BY <1>4 DEF PageBody, PageTypes, PeersKnown
  <2> QED BY <1>2, <2>1
<1>10. AbortedBegun'
  BY <1>2 DEF PageBody, AbortedBegun
<1> QED BY <1>6, <1>7, <1>8, <1>9, <1>10 DEF PageBody

\* Whatever a start has awaited, it goes on, is cancelled or fails.
LEMMA StartSteps ==
  ASSUME PageBody, NEW i \in Starts,
         \/ Authenticated(i) \/ SessionCreated(i) \/ LanguageConfigured(i) \/ TicketMinted(i)
         \/ WebRTCOpened(i) \/ SessionStarted(i) \/ StartCallFails(i)
  PROVE  PageBody'
<1>1. PICK q \in PageRecord : q = page
  BY DEF PageBody, PageTypes
<1>2. /\ UNCHANGED <<aborted, ends, server, lost>> /\ starts[i] \notin {"idle", "done"}
      /\ unanswered \subseteq unanswered'
  BY DEF Authenticated, SessionCreated, LanguageConfigured, TicketMinted, WebRTCOpened, SessionStarted,
         StartCallFails, Answered
<1>3. Wanted(i) => /\ starts[i] \in {"auth", "create"} => q.session = NoStart /\ q.ticket = NoStart
                   /\ starts[i] \notin {"auth", "create"} => q.session = i /\ q.ticket \in {NoStart, i}
                   /\ starts[i] \notin {"start", "done"} => q.media = NoStart
  BY <1>1, WantedIsHeld, StartNumbers DEF PageBody, HoldsOwn
<1>4. CASE /\ \E unclaimed \in {{}, {i}} : Cancelled(i, {}, unclaimed) /\ (starts[i] = "signal" => i \in unclaimed)
           /\ starts[i] = "create" => i \in unanswered'
  BY <1>2, <1>4, StartCancelled
<1>5. CASE Authenticated(i)
  <2>1. CASE Proceed(i, page, "create") /\ starts[i] = "auth"
    <3>1. PICK r \in PageRecord : r = page
      BY <1>1
    <3>2. page' = r
      BY <2>1, <3>1 DEF Proceed
    <3>3. /\ r.media = page.media /\ starts[i] # "signal" /\ r.media = NoStart
          /\ r.session = NoStart /\ r.ticket = NoStart /\ starts[i] = "auth" /\ page.session = NoStart
          /\ r.running = page.running /\ r.abort = page.abort
      BY <1>1, <1>2, <1>3, <2>1, <3>1 DEF Proceed
    <3>4. /\ starts' = [starts EXCEPT ![i] = "create"] /\ Wanted(i)
          /\ UNCHANGED <<aborted, ends, server, requests, lost, unanswered, peers>>
      BY <1>2, <1>5, <2>1 DEF Proceed, Authenticated, Answered
    <3> QED BY <3>1, <3>2, <3>3, <3>4, StartGoesOn
  <2> QED BY <1>4, <1>5, <2>1 DEF Authenticated, Answered
<1>6. CASE SessionCreated(i)
  <2>1. CASE Proceed(i, [page EXCEPT !.session = i], "config") /\ starts[i] = "create"
    <3> DEFINE r == [q EXCEPT !.session = i]
    <3>1. /\ r \in PageRecord /\ r.running = q.running /\ r.abort = q.abort /\ r.media = q.media
          /\ r.ticket = q.ticket /\ r.session = i
      BY DEF PageRecord
    <3>2. page' = r
      BY <1>1, <2>1 DEF Proceed
    <3> HIDE DEF r
    <3>3. /\ r.media = page.media /\ starts[i] # "signal" /\ r.media = NoStart
          /\ r.session = i /\ r.ticket \in {NoStart, i} /\ page.session \in {NoStart, i}
          /\ r.running = page.running /\ r.abort = page.abort
      BY <1>1, <1>2, <1>3, <2>1, <3>1 DEF Proceed
    <3>4. /\ starts' = [starts EXCEPT ![i] = "config"] /\ Wanted(i)
          /\ UNCHANGED <<aborted, ends, server, requests, lost, unanswered, peers>>
      BY <1>2, <1>6, <2>1 DEF Proceed, SessionCreated
    <3> QED BY <3>1, <3>2, <3>3, <3>4, StartGoesOn
  <2>2. CASE Cancelled(i, {i}, {}) /\ starts[i] = "create"
    BY <1>2, <2>2, StartCancelled
  <2> QED BY <1>6, <2>1, <2>2 DEF SessionCreated
<1>7. CASE LanguageConfigured(i)
  <2>1. CASE Proceed(i, page, "ticket") /\ starts[i] = "config"
    <3>1. PICK r \in PageRecord : r = page
      BY <1>1
    <3>2. page' = r
      BY <2>1, <3>1 DEF Proceed
    <3>3. /\ r.media = page.media /\ starts[i] # "signal" /\ r.media = NoStart
          /\ r.session = i /\ r.ticket \in {NoStart, i} /\ page.session \in {NoStart, i}
          /\ r.running = page.running /\ r.abort = page.abort
      BY <1>1, <1>2, <1>3, <2>1, <3>1 DEF Proceed
    <3>4. /\ starts' = [starts EXCEPT ![i] = "ticket"] /\ Wanted(i)
          /\ UNCHANGED <<aborted, ends, server, requests, lost, unanswered, peers>>
      BY <1>2, <1>7, <2>1 DEF Proceed, LanguageConfigured, Answered
    <3> QED BY <3>1, <3>2, <3>3, <3>4, StartGoesOn
  <2> QED BY <1>4, <1>7, <2>1 DEF LanguageConfigured, Answered
<1>8. CASE TicketMinted(i)
  <2>1. CASE Proceed(i, [page EXCEPT !.ticket = i], "webrtc") /\ starts[i] = "ticket"
    <3> DEFINE r == [q EXCEPT !.ticket = i]
    <3>1. /\ r \in PageRecord /\ r.running = q.running /\ r.abort = q.abort /\ r.media = q.media
          /\ r.ticket = i /\ r.session = q.session
      BY DEF PageRecord
    <3>2. page' = r
      BY <1>1, <2>1 DEF Proceed
    <3> HIDE DEF r
    <3>3. /\ r.media = page.media /\ starts[i] # "signal" /\ r.media = NoStart
          /\ r.session = i /\ r.ticket \in {NoStart, i} /\ page.session \in {NoStart, i}
          /\ r.running = page.running /\ r.abort = page.abort
      BY <1>1, <1>2, <1>3, <2>1, <3>1 DEF Proceed
    <3>4. /\ starts' = [starts EXCEPT ![i] = "webrtc"] /\ Wanted(i)
          /\ UNCHANGED <<aborted, ends, server, requests, lost, unanswered, peers>>
      BY <1>2, <1>8, <2>1 DEF Proceed, TicketMinted, Answered
    <3> QED BY <3>1, <3>2, <3>3, <3>4, StartGoesOn
  <2> QED BY <1>4, <1>8, <2>1 DEF TicketMinted, Answered
<1>9. CASE WebRTCOpened(i)
  <2>1. CASE Proceed(i, [page EXCEPT !.media = i], "start") /\ starts[i] = "signal"
    <3> DEFINE r == [q EXCEPT !.media = i]
    <3>1. /\ r \in PageRecord /\ r.running = q.running /\ r.abort = q.abort /\ r.media = i
          /\ r.ticket = q.ticket /\ r.session = q.session
      BY DEF PageRecord
    <3>2. page' = r
      BY <1>1, <2>1 DEF Proceed
    <3> HIDE DEF r
    <3>3. /\ r.media = i /\ page.media = NoStart
          /\ r.session = i /\ r.ticket \in {NoStart, i} /\ page.session \in {NoStart, i}
          /\ r.running = page.running /\ r.abort = page.abort
      BY <1>1, <1>2, <1>3, <2>1, <3>1 DEF Proceed
    <3>4. /\ starts' = [starts EXCEPT ![i] = "start"] /\ Wanted(i)
          /\ UNCHANGED <<aborted, ends, server, requests, lost, unanswered, peers>>
      BY <1>2, <1>9, <2>1 DEF Proceed, WebRTCOpened
    <3> QED BY <3>1, <3>2, <3>3, <3>4, StartGoesOn
  <2> QED BY <1>4, <1>9, <2>1 DEF WebRTCOpened
<1>10. CASE SessionStarted(i)
  <2>1. CASE Proceed(i, [page EXCEPT !.phase = "active", !.polling = TRUE], "done") /\ starts[i] = "start"
    <3> DEFINE r == [q EXCEPT !.phase = "active", !.polling = TRUE]
    <3>1. /\ r \in PageRecord /\ r.running = q.running /\ r.abort = q.abort /\ r.media = q.media
          /\ r.ticket = q.ticket /\ r.session = q.session
      BY DEF PageRecord
    <3>2. page' = r
      BY <1>1, <2>1 DEF Proceed
    <3> HIDE DEF r
    <3>3. /\ r.media = page.media /\ starts[i] # "signal"
          /\ r.session = i /\ r.ticket \in {NoStart, i} /\ page.session \in {NoStart, i}
          /\ r.running = page.running /\ r.abort = page.abort
      BY <1>1, <1>2, <1>3, <2>1, <3>1 DEF Proceed
    <3>4. /\ starts' = [starts EXCEPT ![i] = "done"] /\ Wanted(i)
          /\ UNCHANGED <<aborted, ends, server, requests, lost, unanswered, peers>>
      BY <1>2, <1>10, <2>1 DEF Proceed, SessionStarted, Answered
    <3> QED BY <3>1, <3>2, <3>3, <3>4, StartGoesOn
  <2> QED BY <1>4, <1>10, <2>1 DEF SessionStarted, Answered
<1>11. CASE StartCallFails(i)
  <2>1. starts[i] = "create" => i \in unanswered'
    BY <1>11 DEF StartCallFails
  <2> QED BY <1>2, <1>4, <1>11, <2>1, StartFailed DEF StartCallFails
<1> QED BY <1>5, <1>6, <1>7, <1>8, <1>9, <1>10, <1>11

\* A peer connection is made; until it is handed over, its start owns it.
LEMMA PeerOpensStep == ASSUME PageBody, NEW i \in Starts, PeerOpens(i) PROVE PageBody'
<1>1. /\ starts[i] = "webrtc" /\ UNCHANGED <<page, aborted, ends, server, requests, lost, unanswered>> /\ peers' = peers \cup {i}
      /\ starts' \in [Starts -> {"idle", "auth", "create", "config", "ticket", "webrtc", "signal", "start", "done"}]
      /\ starts'[i] = "signal" /\ \A j \in Starts : j # i => starts'[j] = starts[j]
  BY DEF PeerOpens, PageBody, PageTypes
<1>2. page.abort \in Starts \cup {NoStart} /\ page.session \in Starts \cup {NoStart}
  BY DEF PageBody, PageTypes, PageRecord
<1>3. PageTypes' /\ ControllerLive'
  BY <1>1, <1>2 DEF PageBody, PageTypes, ControllerLive, Waiting
<1>4. HoldsOwn'
  BY <1>1, <1>2 DEF PageBody, HoldsOwn
<1>5. HoldsEnding'
  <2>1. (Waiting => Waiting') /\ (Left => Left')
    BY <1>1 DEF Waiting, Left
  <2> QED BY <1>1, <1>2, <2>1 DEF PageBody, HoldsEnding, GivenUp
<1>6. SessionsKnown'
  BY <1>1 DEF PageBody, SessionsKnown, GivenUp
<1>7. PeersKnown'
  BY <1>1 DEF PageBody, PageTypes, PeersKnown
<1>8. AbortedBegun'
  BY <1>1 DEF PageBody, AbortedBegun
<1> QED BY <1>3, <1>4, <1>5, <1>6, <1>7, <1>8 DEF PageBody

\* A start begins on a page that holds nothing.
LEMMA BeginStartStep ==
  ASSUME PageBody, NEW i \in Starts, BeginStart(i), ~page.running, page.session = NoStart, ~Waiting,
         UNCHANGED <<server, lost, unanswered>>
  PROVE  PageBody'
<1>1. PICK q \in PageRecord : q = page
  BY DEF PageBody, PageTypes
<1> DEFINE r == [q EXCEPT !.running = TRUE, !.abort = i, !.phase = "listening"]
<1>2. page' = r
  BY <1>1 DEF BeginStart
<1>3. /\ r \in PageRecord /\ r.running /\ r.abort = i /\ r.session = q.session
      /\ r.media = q.media /\ r.ticket = q.ticket
  BY DEF PageRecord
<1> HIDE DEF r
<1>4. /\ UNCHANGED <<aborted, ends, peers, requests, server, lost, unanswered>> /\ starts[i] = "idle"
      /\ starts' \in [Starts -> {"idle", "auth", "create", "config", "ticket", "webrtc", "signal", "start", "done"}]
      /\ starts'[i] = "auth" /\ \A j \in Starts : j # i => starts'[j] = starts[j]
  BY DEF BeginStart, PageBody, PageTypes
<1>5. page.abort = NoStart /\ ~Left
  BY <1>4 DEF PageBody, ControllerLive, Left
<1>6. q.session = NoStart /\ q.ticket = NoStart /\ q.media = NoStart
  BY <1>1, <1>5 DEF PageBody, HoldsEnding
<1>7. PageTypes'
  BY <1>2, <1>3, <1>4 DEF PageBody, PageTypes
<1>8. i \notin aborted
  BY <1>4 DEF PageBody, AbortedBegun
<1>9. ControllerLive'
  BY <1>2, <1>3, <1>4, <1>8, StartNumbers DEF ControllerLive, Waiting
<1>10. HoldsOwn' /\ HoldsEnding'
  BY <1>2, <1>3, <1>4, <1>6, StartNumbers DEF HoldsOwn, HoldsEnding
<1>11. SessionsKnown'
  BY <1>1, <1>2, <1>3, <1>4 DEF PageBody, SessionsKnown, GivenUp
<1>12. PeersKnown'
  BY <1>1, <1>2, <1>3, <1>4 DEF PageBody, PageTypes, PeersKnown
<1>13. AbortedBegun'
  BY <1>4 DEF PageBody, AbortedBegun
<1> QED BY <1>7, <1>9, <1>10, <1>11, <1>12, <1>13 DEF PageBody

\* An end takes the page from its start, and asks for the end of its session.
LEMMA BeginEndStep ==
  ASSUME PageBody, NEW e \in Ends, BeginEnd(e), UNCHANGED <<server, lost, unanswered>>
  PROVE  PageBody'
<1>1. PICK q \in PageRecord : q = page
  BY DEF PageBody, PageTypes
<1>2. UNCHANGED starts /\ aborted' = aborted \cup ({q.abort} \ {NoStart})
  BY <1>1 DEF BeginEnd
<1>3. AbortedBegun'
  BY <1>1, <1>2, StartNumbers DEF PageBody, AbortedBegun, ControllerLive
<1>4. CASE /\ page.session = NoStart /\ page' = Idle /\ peers' = peers \ {page.media}
           /\ ends' = [ends EXCEPT ![e].at = "done"] /\ UNCHANGED requests
  <2>1. /\ Idle \in PageRecord /\ ~Idle.running /\ Idle.abort = NoStart
        /\ Idle.session = NoStart /\ Idle.media = NoStart /\ Idle.ticket = NoStart
    BY DEF Idle, PageRecord
  <2>2. ends' \in [Ends -> [at : {"idle", "waiting", "done"}, session : Starts \cup {NoStart}]]
    BY <1>4 DEF PageBody, PageTypes
  <2>3. PageTypes'
    BY <1>2, <1>4, <2>1, <2>2 DEF PageBody, PageTypes
  <2>4. ControllerLive' /\ HoldsOwn' /\ HoldsEnding'
    BY <1>4, <2>1 DEF ControllerLive, HoldsOwn, HoldsEnding
  <2>5. SessionsKnown'
    BY <1>2, <1>4, StartNumbers DEF PageBody, SessionsKnown, GivenUp
  <2>6. PeersKnown'
    BY <1>2, <1>4 DEF PageBody, PeersKnown
  <2> QED BY <1>3, <2>3, <2>4, <2>5, <2>6 DEF PageBody
<1>5. CASE /\ page.session # NoStart
           /\ page' = [page EXCEPT !.running = FALSE, !.abort = NoStart, !.polling = FALSE]
           /\ ends' = [ends EXCEPT ![e] = [at |-> "waiting", session |-> page.session]]
           /\ requests' = requests \cup {<<"end", e, page.session>>}
           /\ UNCHANGED peers
  <2> DEFINE r == [q EXCEPT !.running = FALSE, !.abort = NoStart, !.polling = FALSE]
  <2>1. page' = r
    BY <1>1, <1>5
  <2>2. /\ r \in PageRecord /\ ~r.running /\ r.abort = NoStart /\ r.session = q.session
        /\ r.media = q.media /\ r.ticket = q.ticket
    BY DEF PageRecord
  <2> HIDE DEF r
  <2>3. PICK s \in Starts : s = q.session
    BY <1>1, <1>5 DEF PageRecord
  <2>4. /\ ends' \in [Ends -> [at : {"idle", "waiting", "done"}, session : Starts \cup {NoStart}]]
        /\ ends'[e].at = "waiting"
    BY <1>1, <1>5, <2>3 DEF PageBody, PageTypes
  <2>5. /\ requests \subseteq requests' /\ \A p \in requests' : p[3] \in Starts
        /\ GivenUp(s)' /\ \A t \in Starts : GivenUp(t) => GivenUp(t)'
    <3>1. requests' = requests \cup {<<"end", e, s>>} /\ <<"end", e, s>>[3] = s
      BY <1>1, <1>5, <2>3
    <3> QED BY <3>1, GivenUpStays DEF PageBody, PageTypes, GivenUp
  <2>6. PageTypes'
    BY <1>2, <1>5, <2>1, <2>2, <2>4, <2>5 DEF PageBody, PageTypes
  <2>7. ControllerLive' /\ HoldsOwn'
    BY <2>1, <2>2 DEF ControllerLive, HoldsOwn
  <2>8. HoldsEnding'
    <3>1. Waiting'
      BY <2>4 DEF Waiting
    <3>2. q.ticket # NoStart => q.ticket = q.session
      BY <1>1, <1>5, StartNumbers DEF PageBody, HoldsOwn, HoldsEnding, PageRecord
    <3> QED BY <2>1, <2>2, <2>3, <2>5, <3>1, <3>2 DEF HoldsEnding
  <2>9. SessionsKnown'
    BY <1>1, <1>2, <2>1, <2>2, <2>5 DEF PageBody, SessionsKnown
  <2>10. PeersKnown'
    BY <1>1, <1>2, <1>5, <2>1, <2>2 DEF PageBody, PeersKnown
  <2> QED BY <1>3, <2>6, <2>7, <2>8, <2>9, <2>10 DEF PageBody
<1> QED BY <1>4, <1>5 DEF BeginEnd

\* An end that returns clears the page it took.
LEMMA EndReturnsStep == ASSUME PageBody, NEW e \in Ends, EndReturns(e) PROVE PageBody'
<1>1. PICK q \in PageRecord : q = page
  BY DEF PageBody, PageTypes
<1>2. Waiting /\ q.abort = NoStart /\ ~q.running
  BY <1>1 DEF EndReturns, Waiting, PageBody, ControllerLive
<1>3. /\ Idle \in PageRecord /\ Idle.session = NoStart /\ Idle.media = NoStart /\ Idle.ticket = NoStart
  BY DEF Idle, PageRecord
<1>4. PICK x \in PageRecord : x = Idle
  BY <1>3
<1> DEFINE r == [x EXCEPT !.running = q.running, !.abort = q.abort, !.polling = q.polling]
<1>5. page' = r
  BY <1>1, <1>4 DEF EndReturns
<1>6. /\ r \in PageRecord /\ r.running = q.running /\ r.abort = q.abort /\ r.session = x.session
      /\ r.media = x.media /\ r.ticket = x.ticket
  BY DEF PageRecord
<1> HIDE DEF r
<1>7. /\ UNCHANGED <<aborted, starts, server, requests, lost, unanswered>> /\ peers' = peers \ {q.media}
      /\ ends' = [ends EXCEPT ![e].at = "done"]
      /\ ends' \in [Ends -> [at : {"idle", "waiting", "done"}, session : Starts \cup {NoStart}]]
  BY <1>1 DEF EndReturns, PageBody, PageTypes
<1>8. AbortedBegun' /\ PageTypes'
  BY <1>5, <1>6, <1>7 DEF PageBody, AbortedBegun, PageTypes
<1>9. ControllerLive' /\ HoldsOwn' /\ HoldsEnding'
  BY <1>2, <1>3, <1>4, <1>5, <1>6 DEF ControllerLive, HoldsOwn, HoldsEnding
<1>10. SessionsKnown'
  <2> SUFFICES ASSUME NEW s \in Starts, server[s] # "none" PROVE starts[s] = "create" \/ GivenUp(s)'
    BY <1>7 DEF SessionsKnown
  <2>1. page.session = s \/ starts[s] = "create" \/ GivenUp(s)
    BY DEF PageBody, SessionsKnown
  <2>2. page.session = s => GivenUp(s)
    BY <1>1, <1>2, StartNumbers DEF PageBody, HoldsEnding
  <2> QED BY <1>7, <2>1, <2>2 DEF GivenUp
<1>11. PeersKnown'
  BY <1>1, <1>7 DEF PageBody, PeersKnown
<1> QED BY <1>8, <1>9, <1>10, <1>11 DEF PageBody

\* The ticket that was refreshed is that of the session the page still runs.
LEMMA TicketStep == ASSUME PageBody, RefreshTicket \/ TicketRefreshed PROVE PageBody'
<1>1. UNCHANGED <<aborted, starts, ends, peers, server, requests, lost, unanswered>>
  BY DEF RefreshTicket, TicketRefreshed
<1>2. CASE page' = page
  <2>1. \A s \in Starts : GivenUp(s) => GivenUp(s)'
    BY <1>1 DEF GivenUp
  <2> QED BY <1>1, <1>2, <2>1, ServerMoves DEF PageBody, PageTypes
<1>3. CASE /\ minting # NoStart /\ page.session = minting /\ page.running
           /\ page' = [page EXCEPT !.ticket = minting]
  <2>1. PICK q \in PageRecord, m \in Starts : q = page /\ m = minting
    BY <1>3 DEF PageBody, PageTypes, PageRecord
  <2> DEFINE r == [q EXCEPT !.ticket = m]
  <2>2. page' = r
    BY <1>3, <2>1
  <2>3. /\ r \in PageRecord /\ r.running = q.running /\ r.abort = q.abort /\ r.session = q.session
        /\ r.media = q.media /\ r.ticket = m
    BY DEF PageRecord
  <2> HIDE DEF r
  <2>4. q.abort # NoStart /\ q.session = m /\ q.abort \in Starts
    BY <1>3, <2>1 DEF PageBody, ControllerLive, PageRecord
  <2>5. AbortedBegun' /\ PageTypes' /\ ControllerLive'
    BY <1>1, <2>1, <2>2, <2>3, <2>4 DEF PageBody, AbortedBegun, PageTypes, ControllerLive, Waiting
  <2>6. HoldsOwn' /\ HoldsEnding'
    BY <1>1, <2>1, <2>2, <2>3, <2>4, StartNumbers DEF PageBody, HoldsOwn, HoldsEnding
  <2>7. SessionsKnown' /\ PeersKnown'
    BY <1>1, <2>1, <2>2, <2>3 DEF PageBody, SessionsKnown, GivenUp, PeersKnown
  <2> QED BY <2>5, <2>6, <2>7 DEF PageBody
<1> QED BY <1>2, <1>3 DEF RefreshTicket, TicketRefreshed

\* Leaving the page releases the media; what it held of the session is lost.
LEMMA LeaveStep == ASSUME PageBody, Leave PROVE PageBody'
<1>1. PICK q \in PageRecord : q = page
  BY DEF PageBody, PageTypes
<1> DEFINE r == [q EXCEPT !.running = FALSE, !.abort = NoStart, !.polling = FALSE, !.media = NoStart]
<1>2. page' = r
  BY <1>1 DEF Leave
<1>3. /\ r \in PageRecord /\ ~r.running /\ r.abort = NoStart /\ r.session = q.session
      /\ r.media = NoStart /\ r.ticket = q.ticket
  BY DEF PageRecord
<1> HIDE DEF r
<1>4. /\ UNCHANGED <<server, requests, unanswered>> /\ aborted' = aborted \cup ({q.abort} \ {NoStart})
      /\ peers' = peers \ {q.media} /\ lost' = lost \cup ({q.session} \ {NoStart})
  BY <1>1 DEF Leave
<1>5. /\ starts' \in [Starts -> {"idle", "auth", "create", "config", "ticket", "webrtc", "signal", "start", "done"}]
      /\ \A i \in Starts : starts'[i] # "idle" /\ (starts[i] # "idle" => starts'[i] = starts[i])
  BY DEF Leave, PageBody, PageTypes
<1>6. ends' \in [Ends -> [at : {"idle", "waiting", "done"}, session : Starts \cup {NoStart}]]
  <2>1. ends \in [Ends -> [at : {"idle", "waiting", "done"}, session : Starts \cup {NoStart}]]
    BY DEF PageBody, PageTypes
  <2> QED BY <2>1 DEF Leave
<1>7. \A s \in Starts : (GivenUp(s) => GivenUp(s)') /\ (s = q.session => GivenUp(s)')
  BY <1>4, StartNumbers DEF GivenUp
<1>8. AbortedBegun' /\ PageTypes' /\ ControllerLive' /\ HoldsOwn'
  BY <1>2, <1>3, <1>4, <1>5, <1>6 DEF PageBody, AbortedBegun, PageTypes, ControllerLive, HoldsOwn
<1>9. HoldsEnding'
  <2>1. q.ticket # NoStart => q.ticket = q.session \/ q.session = NoStart
    BY <1>1, StartNumbers DEF PageBody, HoldsOwn, HoldsEnding, PageRecord
  <2>2. q.session \in Starts \cup {NoStart} /\ Left'
    BY <1>5 DEF PageRecord, Left
  <2> QED BY <1>2, <1>3, <1>7, <2>1, <2>2 DEF HoldsEnding
<1>10. SessionsKnown'
  <2> SUFFICES ASSUME NEW s \in Starts, server[s] # "none"
               PROVE  r.session = s \/ starts'[s] = "create" \/ GivenUp(s)'
    BY <1>2, <1>4 DEF SessionsKnown
  <2>1. page.session = s \/ starts[s] = "create" \/ GivenUp(s)
    BY DEF PageBody, SessionsKnown
  <2> QED BY <1>1, <1>3, <1>5, <1>7, <2>1
<1>11. PeersKnown'
  <2> SUFFICES ASSUME NEW c \in peers, c # q.media PROVE starts'[c] = "signal"
    BY <1>4 DEF PeersKnown
  <2>1. c \in Starts /\ starts[c] = "signal"
    BY <1>1 DEF PageBody, PageTypes, PeersKnown
  <2> QED BY <1>5, <2>1
<1> QED BY <1>8, <1>9, <1>10, <1>11 DEF PageBody

\* Every step keeps the accounts, unless the control is used during an end.
LEMMA PageStep == ASSUME PageInv, [PageNext]_pageVars PROVE PageInv'
<1>1. CASE overlapped
  <2>1. overlapped'
    BY <1>1 DEF PageNext, pageVars, Toggle, Authenticated, ServerCreates, SessionCreated, LanguageConfigured,
       TicketMinted, PeerOpens, WebRTCOpened, ServerStarts, SessionStarted, StartCallFails, Answered, EndReturns,
       ServerEnds, RefreshTicket, TicketRefreshed, Leave
  <2> QED BY <2>1 DEF PageInv
<1>2. CASE ~overlapped
  <2>1. PageBody
    BY <1>2 DEF PageInv
  <2>2. CASE Toggle
    <3>1. CASE Waiting
      BY <2>2, <3>1 DEF Toggle, Waiting, PageInv
    <3>2. CASE ~Waiting
      <4>1. CASE page.running \/ page.session # NoStart
        BY <2>1, <2>2, <4>1, BeginEndStep DEF Toggle, PageInv
      <4>2. CASE ~(page.running \/ page.session # NoStart)
        BY <2>1, <2>2, <3>2, <4>2, BeginStartStep DEF Toggle, PageInv
      <4> QED BY <4>1, <4>2
    <3> QED BY <3>1, <3>2
  <2>3. ASSUME NEW i \in Starts,
               \/ Authenticated(i) \/ SessionCreated(i) \/ LanguageConfigured(i) \/ TicketMinted(i)
               \/ WebRTCOpened(i) \/ SessionStarted(i) \/ StartCallFails(i)
        PROVE  PageInv'
    BY <2>1, <2>3, StartSteps DEF PageInv
  <2>4. CASE (\E i \in Starts : ServerCreates(i) \/ ServerStarts(i)) \/ \E r \in requests : ServerEnds(r)
    BY <2>1, <2>4, ServerSteps DEF PageInv
  <2>5. ASSUME NEW i \in Starts, PeerOpens(i) PROVE PageInv'
    BY <2>1, <2>5, PeerOpensStep DEF PageInv
  <2>6. ASSUME NEW e \in Ends, EndReturns(e) PROVE PageInv'
    BY <2>1, <2>6, EndReturnsStep DEF PageInv
  <2>7. CASE RefreshTicket \/ TicketRefreshed \/ Leave
    BY <2>1, <2>7, TicketStep, LeaveStep DEF PageInv
  <2>8. CASE UNCHANGED pageVars
    <3>1. \A s \in Starts : GivenUp(s) => GivenUp(s)'
      BY <2>8 DEF pageVars, GivenUp
    <3> QED BY <2>1, <2>8, <3>1, ServerMoves DEF pageVars, PageInv, PageBody, PageTypes
  <2> QED BY <2>2, <2>3, <2>4, <2>5, <2>6, <2>7, <2>8 DEF PageNext
<1> QED BY <1>1, <1>2

\* A session whose creation was not answered is never started, whatever happens.
LEMMA UnansweredStep == ASSUME UnansweredInv, [PageNext]_pageVars PROVE UnansweredInv'
<1>1. ASSUME NEW i \in Starts,
             \/ starts[i] \in BeforeStart /\ starts' = [starts EXCEPT ![i] = "done"]
                /\ unanswered' \subseteq unanswered \cup {i} /\ UNCHANGED starting
             \/ starts[i] = "start" /\ starts' = [starts EXCEPT ![i] = "done"] /\ UNCHANGED <<unanswered, starting>>
             \/ \E to \in BeforeStart : starts[i] \in BeforeStart /\ starts' = [starts EXCEPT ![i] = to]
                /\ UNCHANGED <<unanswered, starting>>
             \/ starts[i] \in BeforeStart /\ starts' = [starts EXCEPT ![i] = "start"]
                /\ UNCHANGED unanswered /\ starting' \subseteq starting \cup {i},
             UNCHANGED server
      PROVE  UnansweredInv'
  BY <1>1 DEF UnansweredInv, BeforeStart
<1>2. CASE UNCHANGED <<starts, unanswered, starting, server>>
  BY <1>2 DEF UnansweredInv
<1>3. CASE Toggle
  <2>1. CASE \E e \in Ends : BeginEnd(e)
    BY <1>2, <1>3, <2>1 DEF Toggle, BeginEnd
  <2>2. ASSUME NEW i \in Starts, BeginStart(i) PROVE UnansweredInv'
    <3>1. UNCHANGED <<unanswered, starting, server>>
      BY <1>3 DEF Toggle
    <3>2. starts[i] = "idle" /\ starts' = [starts EXCEPT ![i] = "auth"]
      BY <2>2 DEF BeginStart
    <3>3. "idle" \in BeforeStart /\ "auth" \in BeforeStart
      BY DEF BeforeStart
    <3> QED BY <1>1, <3>1, <3>2, <3>3
  <2> QED BY <1>3, <2>1, <2>2 DEF Toggle
<1>4. ASSUME NEW i \in Starts, Authenticated(i) \/ LanguageConfigured(i) \/ TicketMinted(i) PROVE UnansweredInv'
  <2>1. /\ UNCHANGED <<unanswered, starting, server>> /\ starts[i] \in BeforeStart
        /\ \E to \in BeforeStart \cup {"done"} : starts' = [starts EXCEPT ![i] = to]
    BY <1>4 DEF Authenticated, LanguageConfigured, TicketMinted, Answered, Proceed, Cancelled, BeforeStart
  <2> QED BY <1>1, <2>1
<1>5. ASSUME NEW i \in Starts, SessionCreated(i) \/ PeerOpens(i) PROVE UnansweredInv'
  <2>1. /\ UNCHANGED <<unanswered, starting, server>> /\ starts[i] \in BeforeStart
        /\ \E to \in BeforeStart \cup {"done"} : starts' = [starts EXCEPT ![i] = to]
    BY <1>5 DEF SessionCreated, PeerOpens, Proceed, Cancelled, BeforeStart
  <2> QED BY <1>1, <2>1
<1>6. ASSUME NEW i \in Starts, WebRTCOpened(i) PROVE UnansweredInv'
  <2>1. /\ UNCHANGED <<unanswered, server>> /\ starts[i] \in BeforeStart
        /\ \/ starts' = [starts EXCEPT ![i] = "start"] /\ starting' = starting \cup {i}
           \/ starts' = [starts EXCEPT ![i] = "done"] /\ UNCHANGED starting
    BY <1>6 DEF WebRTCOpened, Proceed, Cancelled, BeforeStart
  <2> QED BY <1>1, <2>1
<1>7. ASSUME NEW i \in Starts, SessionStarted(i) PROVE UnansweredInv'
  <2>1. /\ UNCHANGED <<unanswered, starting, server>> /\ starts[i] = "start"
        /\ starts' = [starts EXCEPT ![i] = "done"]
    BY <1>7 DEF SessionStarted, Answered, Proceed, Cancelled
  <2> QED BY <1>1, <2>1
<1>8. ASSUME NEW i \in Starts, StartCallFails(i) PROVE UnansweredInv'
  <2>1. /\ UNCHANGED <<starting, server>> /\ starts' = [starts EXCEPT ![i] = "done"]
        /\ starts[i] \notin {"idle", "done"} /\ unanswered \subseteq unanswered'
        /\ unanswered' \subseteq unanswered \cup {i} /\ (starts[i] # "create" => UNCHANGED unanswered)
    BY <1>8 DEF StartCallFails, Failed, Cancelled
  <2>2. starts[i] \in BeforeStart \/ starts[i] = "start"
    BY <2>1 DEF UnansweredInv
  <2> QED BY <1>1, <2>1, <2>2
<1>9. ASSUME NEW i \in Starts, ServerCreates(i) PROVE UnansweredInv'
  BY <1>9 DEF ServerCreates, UnansweredInv
<1>10. ASSUME NEW i \in Starts, ServerStarts(i) PROVE UnansweredInv'
  BY <1>10 DEF ServerStarts, UnansweredInv
<1>11. ASSUME NEW e \in Ends, EndReturns(e) PROVE UnansweredInv'
  BY <1>2, <1>11 DEF EndReturns
<1>12. ASSUME NEW r \in requests, ServerEnds(r) PROVE UnansweredInv'
  <2>1. /\ UNCHANGED <<starts, unanswered, starting>>
        /\ server' \in [Starts -> {"none", "created", "active", "ended"}]
        /\ \A i \in Starts : server'[i] = "active" => server[i] = "active"
    BY <1>12 DEF ServerEnds, UnansweredInv
  <2> QED BY <2>1 DEF UnansweredInv
<1>13. CASE RefreshTicket \/ TicketRefreshed
  BY <1>2, <1>13 DEF RefreshTicket, TicketRefreshed
<1>14. CASE Leave
  <2>1. /\ UNCHANGED <<unanswered, starting, server>>
        /\ starts' = [i \in Starts |-> IF starts[i] = "idle" THEN "done" ELSE starts[i]]
    BY <1>14 DEF Leave
  <2> QED BY <2>1 DEF UnansweredInv
<1> QED BY <1>2, <1>3, <1>4, <1>5, <1>6, <1>7, <1>8, <1>9, <1>10, <1>11, <1>12, <1>13, <1>14 DEF PageNext, pageVars

\* Until the control is used while an end awaits its answer, every open peer
\* connection and cached ticket is accounted for, and every session that lives at
\* the server: but for one whose creation was not answered, which nobody ends and
\* which is never started.  For any number of starts, ends and failing requests.
THEOREM SessionsAccountedHolds == PageSpec => []SessionsAccounted
<1>1. PageInit => PageInv /\ UnansweredInv
  <2> SUFFICES ASSUME PageInit PROVE PageBody /\ UnansweredInv
    BY DEF PageInv
  <2>1. /\ page \in PageRecord /\ ~page.running /\ page.abort = NoStart
        /\ page.session = NoStart /\ page.media = NoStart /\ page.ticket = NoStart
    BY DEF PageInit, Idle, PageRecord
  <2>2. PageTypes
    BY <2>1 DEF PageInit, PageTypes
  <2>3. AbortedBegun /\ ControllerLive /\ HoldsOwn /\ HoldsEnding /\ PeersKnown
    BY <2>1 DEF PageInit, AbortedBegun, ControllerLive, HoldsOwn, HoldsEnding, PeersKnown
  <2>4. SessionsKnown
    BY DEF PageInit, SessionsKnown
  <2>5. UnansweredInv
    BY DEF PageInit, UnansweredInv, BeforeStart
  <2> QED BY <2>2, <2>3, <2>4, <2>5 DEF PageBody
<1>2. PageInv /\ UnansweredInv => SessionsAccounted
  <2> SUFFICES ASSUME PageBody, UnansweredInv
               PROVE  /\ \A s \in Starts \ lost : server[s] \in {"created", "active"} =>
                            \/ page.session = s \/ starts[s] = "create" \/ \E r \in requests : r[3] = s
                            \/ s \in unanswered /\ server[s] = "created"
                      /\ \A c \in peers : page.media = c \/ starts[c] = "signal"
                      /\ page.ticket # NoStart => page.ticket = page.session \/ page.session = NoStart
    BY DEF PageInv, SessionsAccounted
  <2>1. \A s \in Starts \ lost : server[s] \in {"created", "active"} =>
            \/ page.session = s \/ starts[s] = "create" \/ \E r \in requests : r[3] = s
            \/ s \in unanswered /\ server[s] = "created"
    BY DEF PageBody, SessionsKnown, GivenUp, UnansweredInv
  <2>2. page.ticket # NoStart => page.ticket = page.session \/ page.session = NoStart
    BY StartNumbers DEF PageBody, PageTypes, PageRecord, HoldsOwn, HoldsEnding
  <2> QED BY <2>1, <2>2 DEF PageBody, PeersKnown
<1> QED BY <1>1, <1>2, PageStep, UnansweredStep, PTL DEF PageSpec

-----------------------------------------------------------------------------
\* The language configuration on the page: what is shown as applied is current.

Writer == {<<"start">>} \cup {<<"user", u>> : u \in Updates} \cup {<<"other", w>> : w \in Writes}
ScreenRecord == [shown : Writer, applied : Writer, known : Nat,
                 status : {"idle", "saving", "failed", "applied"}, revision : Nat]
UpdateRecord == [at : {"idle", "queued", "read", "reread", "write", "rewrite", "done"}, revision : Nat,
                 expected : Nat, answer : {"none", "ok", "lost", "conflict", "error"}]
ReadbackRecord == [at : {"none", "unread", "reading", "read", "lost", "done"}, restored : BOOLEAN,
                   crossed : BOOLEAN, revision : Nat, version : Nat]

SettingsTypes ==
    /\ screen \in ScreenRecord
    /\ updates \in [Updates -> UpdateRecord]
    /\ readbacks \in [Writes -> ReadbackRecord]
    /\ versions \in Seq(Writer) /\ versions # <<>> /\ versions[1] = <<"start">>

Asks == {"read", "reread", "write", "rewrite"}
ToldOf == {"reading", "read", "done"}
NonePending(us) == \A u \in Updates : us[u].at \in {"idle", "done"}

\* The updates are numbered by the revisions of the screen, and one runs at a time.
Numbered(s, us) ==
    /\ s.revision <= MaxUpdates
    /\ \A u \in Updates :
        /\ us[u].at # "idle" <=> u <= s.revision
        /\ us[u].at # "idle" => us[u].revision = u
        /\ us[u].at \in Asks \cup {"done"} => \A j \in Updates : j < u => us[j].at = "done"

\* Every version has a writer of its own; an update has written at most once.
Wrote(us, vs) ==
    /\ \A i, j \in 1 .. Len(vs) : vs[i] = vs[j] => i = j
    /\ \A u \in Updates :
        /\ us[u].at \in Asks => us[u].expected <= Len(vs)
        /\ us[u].at \in Posts /\ us[u].answer = "ok" =>
                us[u].expected + 1 <= Len(vs) /\ vs[us[u].expected + 1] = <<"user", u>>
        /\ \A i \in 1 .. Len(vs) : vs[i] = <<"user", u>> =>
                us[u].at \in Posts \cup {"done"} /\ us[u].answer \in {"ok", "lost"}

\* What is shown as applied is the version that the page knows.
ShowsKnown(s, us, vs) ==
    /\ s.known <= Len(vs)
    /\ s.status = "applied" /\ NonePending(us) => s.known # Unknown /\ s.shown = vs[s.known]

\* A version that is read back is no older than the write it answers.
ReadsOn(s, us, rs, vs) ==
    \A w \in Writes :
        /\ rs[w].at = "none" => \A i \in 1 .. Len(vs) : vs[i] # <<"other", w>>
        /\ rs[w].revision <= s.revision
        /\ rs[w].at = "read" =>
              /\ rs[w].version \in 1 .. Len(vs)
              /\ \A i \in 1 .. Len(vs) : vs[i] = <<"other", w>> => i <= rs[w].version
        /\ rs[w].at \in ToldOf /\ ~rs[w].crossed =>
              \A u \in Updates : u <= rs[w].revision => us[u].at = "done"

\* An update made after the page was told of a write posts behind it; a version that
\* was read before the write belongs to a revision no later than its telling.
InTurn(rs, vs) ==
    \A w \in Writes, i \in 1 .. Len(vs) :
        rs[w].at \in ToldOf /\ vs[i] = <<"other", w>> =>
            /\ \A u \in Updates, k \in 1 .. Len(vs) :
                  vs[k] = <<"user", u>> /\ u > rs[w].revision => i < k
            /\ \A x \in Writes : rs[x].at = "read" /\ rs[x].version < i => rs[x].revision <= rs[w].revision

\* The page knows the last version, by whomever it was written, if it was told.
KnowsLast(s, us, rs, vs) ==
    /\ \A w \in Writes :
        vs[Len(vs)] = <<"other", w>> /\ rs[w].at \in ToldOf /\ ~rs[w].crossed =>
            /\ rs[w].at = "done" /\ rs[w].revision = s.revision => s.known = Len(vs)
            /\ rs[w].revision < s.revision /\ NonePending(us) /\ s.status = "applied" => s.known = Len(vs)
    /\ \A u \in Updates :
        vs[Len(vs)] = <<"user", u>> /\ us[u].at = "done" /\ us[u].answer = "ok" =>
            /\ s.known = Len(vs)
            /\ \A j \in Updates : us[j].at \in Asks =>
                  us[j].at = "write" /\ us[j].expected = Len(vs) /\ us[j].answer \in {"none", "error"}

SettingsInv ==
    /\ SettingsTypes
    /\ Numbered(screen, updates)
    /\ Wrote(updates, versions)
    /\ ShowsKnown(screen, updates, versions)
    /\ ReadsOn(screen, updates, readbacks, versions)
    /\ InTurn(readbacks, versions)
    /\ KnowsLast(screen, updates, readbacks, versions)

\* The list of versions when one is added.
LEMMA VersionAdded ==
  ASSUME SettingsTypes, NEW c \in Writer, versions' = Append(versions, c)
  PROVE  /\ versions' \in Seq(Writer) /\ versions' # <<>> /\ versions'[1] = <<"start">>
         /\ Len(versions) \in Nat /\ Len(versions) >= 1
         /\ Len(versions') = Len(versions) + 1
         /\ versions'[Len(versions) + 1] = c
         /\ \A i \in 1 .. Len(versions) : versions'[i] = versions[i]
         /\ 1 .. Len(versions') = 1 .. Len(versions) \cup {Len(versions) + 1}
<1>1. versions \in Seq(Writer) /\ versions # <<>>
  BY DEF SettingsTypes
<1>2. Len(versions) \in Nat /\ Len(versions) >= 1
  BY <1>1, EmptySeq, LenProperties
<1>3. /\ versions' \in Seq(Writer) /\ versions' # <<>>
      /\ Len(versions') = Len(versions) + 1
      /\ versions'[Len(versions) + 1] = c
      /\ \A i \in 1 .. Len(versions) : versions'[i] = versions[i]
  BY <1>1, AppendProperties
<1>4. versions'[1] = <<"start">>
  BY <1>2, <1>3 DEF SettingsTypes
<1> QED
  BY <1>2, <1>3, <1>4

\* The last version is one of them.
LEMMA LastVersion ==
  ASSUME SettingsTypes
  PROVE  /\ Len(versions) \in Nat /\ Len(versions) >= 1
         /\ \A i \in 1 .. Len(versions) : versions[i] \in Writer
<1>1. versions \in Seq(Writer) /\ versions # <<>>
  BY DEF SettingsTypes
<1> QED
  BY <1>1, EmptySeq, LenProperties, ElementOfSeq

\* The page as the startup left it.
LEMMA SettingsInvInit == SettingsInit => SettingsInv
<1> SUFFICES ASSUME SettingsInit
             PROVE  SettingsInv
  OBVIOUS
<1>1. versions = << <<"start">> >> /\ <<"start">> \in Writer
  BY DEF SettingsInit, Writer
<1>2. versions \in Seq(Writer) /\ versions # <<>> /\ Len(versions) = 1 /\ versions[1] = <<"start">>
  BY <1>1
<1>3. /\ \A w \in Writes : <<"other", w>> # <<"start">>
      /\ \A u \in Updates : <<"user", u>> # <<"start">>
  OBVIOUS
<1>4. SettingsTypes
  BY <1>1, <1>2 DEF SettingsInit, SettingsTypes, ScreenRecord, UpdateRecord, ReadbackRecord, Unknown
<1>5. \A u \in Updates : updates[u].at = "idle" /\ u \in Nat /\ u >= 1
  BY VoiceConfigAssumption DEF SettingsInit, Updates
<1>6. \A w \in Writes : readbacks[w].at = "none" /\ readbacks[w].revision = 0
  BY DEF SettingsInit
<1>7. screen.known = 1 /\ screen.status = "idle" /\ screen.revision = 0
  BY DEF SettingsInit
<1>8. Numbered(screen, updates)
  BY <1>5, <1>7, VoiceConfigAssumption DEF Numbered, Asks
<1>9. Wrote(updates, versions)
  BY <1>2, <1>3, <1>5 DEF Wrote, Asks, Posts
<1>10. ShowsKnown(screen, updates, versions)
  BY <1>2, <1>7 DEF ShowsKnown
<1>11. ReadsOn(screen, updates, readbacks, versions)
  BY <1>2, <1>3, <1>6, <1>7 DEF ReadsOn, ToldOf
<1>12. InTurn(readbacks, versions)
  BY <1>6 DEF InTurn, ToldOf
<1>13. KnowsLast(screen, updates, readbacks, versions)
  BY <1>5, <1>6 DEF KnowsLast, ToldOf
<1> QED
  BY <1>4, <1>8, <1>9, <1>10, <1>11, <1>12, <1>13 DEF SettingsInv

\* The user changes the configuration: the next number.
LEMMA UpdateConfigInv ==
  ASSUME SettingsInv, NEW u \in Updates, UpdateConfig(u)
  PROVE  SettingsInv'
<1>1. /\ screen \in ScreenRecord /\ updates \in [Updates -> UpdateRecord]
      /\ readbacks \in [Writes -> ReadbackRecord]
      /\ UNCHANGED <<readbacks, versions>>
  BY DEF SettingsInv, SettingsTypes, UpdateConfig
<1>2. Updates \subseteq Nat
  BY DEF Updates
<1>3. PICK n \in Nat : n = screen.revision
  BY <1>1 DEF ScreenRecord
<1>4. PICK m \in Nat : m = n + 1
  OBVIOUS
<1>5. u = m
  <2>1. \A j \in Updates : updates[j].at # "idle" <=> j <= n
    BY <1>3 DEF SettingsInv, Numbered
  <2>2. u > n /\ \A j \in 1 .. u - 1 : j <= n
    <3>1. 1 .. u - 1 \subseteq Updates
      BY VoiceConfigAssumption DEF Updates
    <3> QED
      BY <1>2, <1>3, <2>1, <3>1 DEF UpdateConfig
  <2> QED
    BY <1>2, <1>3, <1>4, <2>2
<1>6. <<"user", u>> \in Writer
  BY DEF Writer
<1>7. /\ screen' \in ScreenRecord /\ screen'.revision = m /\ screen'.known = screen.known
      /\ screen'.status = "saving"
  BY <1>1, <1>3, <1>4, <1>6 DEF UpdateConfig, ScreenRecord
<1>8. /\ updates' \in [Updates -> UpdateRecord]
      /\ updates'[u].at = "queued" /\ updates'[u].revision = m
      /\ \A j \in Updates : j # u => updates'[j] = updates[j]
      /\ updates[u].at = "idle"
  BY <1>1, <1>3, <1>4 DEF UpdateConfig, UpdateRecord
<1>9. SettingsTypes'
  BY <1>1, <1>7, <1>8 DEF SettingsInv, SettingsTypes
<1>10. Numbered(screen', updates')
  <2>1. m <= MaxUpdates
    BY <1>5, VoiceConfigAssumption DEF Updates
  <2>2. \A j \in Updates : j # u => (updates'[j].at # "idle" <=> j <= m)
    BY <1>2, <1>3, <1>4, <1>5, <1>8 DEF SettingsInv, Numbered
  <2>3. \A j \in Updates : j # u /\ updates'[j].at # "idle" => updates'[j].revision = j
    BY <1>8 DEF SettingsInv, Numbered
  <2>4. ASSUME NEW j \in Updates, updates'[j].at \in Asks \cup {"done"}, NEW i \in Updates, i < j
        PROVE  updates'[i].at = "done"
    <3>1. j # u /\ updates[j].at \in Asks \cup {"done"}
      BY <1>8, <2>4 DEF Asks
    <3>2. updates[i].at = "done"
      BY <2>4, <3>1 DEF SettingsInv, Numbered
    <3> QED
      BY <1>8, <3>2
  <2> QED
    BY <1>5, <1>7, <1>8, <2>1, <2>2, <2>3, <2>4 DEF Numbered
<1>11. Wrote(updates', versions')
  BY <1>1, <1>8 DEF SettingsInv, Wrote, Asks, Posts
<1>12. ShowsKnown(screen', updates', versions')
  BY <1>1, <1>7 DEF SettingsInv, ShowsKnown
<1>13. ReadsOn(screen', updates', readbacks', versions')
  <2>1. \A w \in Writes : readbacks[w].revision \in Nat /\ readbacks[w].revision <= n
    BY <1>1, <1>3 DEF SettingsInv, ReadsOn, ReadbackRecord
  <2> SUFFICES ASSUME NEW w \in Writes
               PROVE  ReadsOn(screen', updates', readbacks', versions')!(w)
    BY DEF ReadsOn
  <2>2. readbacks[w].revision <= m
    BY <1>3, <1>4, <2>1
  <2>3. ASSUME readbacks[w].at \in ToldOf /\ ~readbacks[w].crossed, NEW j \in Updates,
               j <= readbacks[w].revision
        PROVE  updates'[j].at = "done"
    <3>1. updates[j].at = "done"
      BY <2>3 DEF SettingsInv, ReadsOn
    <3> QED
      BY <1>8, <3>1
  <2> QED
    BY <1>1, <1>7, <2>2, <2>3 DEF SettingsInv, ReadsOn
<1>14. InTurn(readbacks', versions')
  BY <1>1 DEF SettingsInv
<1>15. KnowsLast(screen', updates', readbacks', versions')
  <2>1. \A w \in Writes : readbacks[w].revision \in Nat /\ readbacks[w].revision <= n
    BY <1>1, <1>3 DEF SettingsInv, ReadsOn, ReadbackRecord
  <2>2. ~NonePending(updates')
    BY <1>8 DEF NonePending
  <2> QED
    BY <1>1, <1>4, <1>7, <1>8, <2>1, <2>2 DEF SettingsInv, KnowsLast, Asks
<1> QED
  BY <1>9, <1>10, <1>11, <1>12, <1>13, <1>14, <1>15 DEF SettingsInv

\* The chain takes an update and sends what the page knows.
LEMMA RunUpdateInv ==
  ASSUME SettingsInv, NEW u \in Updates, RunUpdate(u)
  PROVE  SettingsInv'
<1>1. /\ screen \in ScreenRecord /\ updates \in [Updates -> UpdateRecord]
      /\ readbacks \in [Writes -> ReadbackRecord]
      /\ UNCHANGED <<screen, readbacks, versions>>
  BY DEF SettingsInv, SettingsTypes, RunUpdate
<1>2. Updates \subseteq Nat /\ screen.revision \in Nat /\ screen.known \in Nat
  BY <1>1 DEF Updates, ScreenRecord
<1>3. PICK place \in {"read", "write"}, v \in Nat :
        /\ updates' = [updates EXCEPT ![u] = [@ EXCEPT !.at = place, !.expected = v, !.answer = "none"]]
        /\ IF screen.known = Unknown THEN place = "read" /\ v = 0 ELSE place = "write" /\ v = screen.known
  BY <1>2 DEF RunUpdate, Ask, Unknown
<1>4. /\ updates' \in [Updates -> UpdateRecord]
      /\ updates'[u].at = place /\ updates'[u].revision = updates[u].revision
      /\ updates'[u].expected = v /\ updates'[u].answer = "none"
      /\ \A j \in Updates : j # u => updates'[j] = updates[j]
  BY <1>1, <1>3 DEF UpdateRecord
<1>5. updates[u].at = "queued" /\ \A j \in Updates : updates[j].at \notin {"idle", "done"} => u <= j
  BY DEF RunUpdate, PendingUpdates
<1>6. \A j \in Updates : j < u => updates[j].at = "done"
  BY <1>2, <1>5 DEF SettingsInv, Numbered
<1>7. \A j \in Updates : updates[j].at \notin Asks
  <2>1. ASSUME NEW j \in Updates, updates[j].at \in Asks
        PROVE  FALSE
    <3>1. u <= j
      BY <1>5, <2>1 DEF Asks
    <3>2. u # j
      BY <1>5, <2>1 DEF Asks
    <3>3. u < j
      BY <1>2, <3>1, <3>2
    <3>4. updates[u].at = "done"
      BY <2>1, <3>3 DEF SettingsInv, Numbered
    <3> QED
      BY <1>5, <3>4
  <2> QED
    BY <2>1
<1>8. SettingsTypes'
  BY <1>1, <1>4 DEF SettingsInv, SettingsTypes
<1>9. Numbered(screen', updates')
  BY <1>1, <1>4, <1>5, <1>6, <1>7 DEF SettingsInv, Numbered, Asks
<1>10. v <= Len(versions) /\ Len(versions) >= 1 /\ Len(versions) \in Nat
  BY <1>2, <1>3, LastVersion DEF SettingsInv, ShowsKnown
<1>11. Wrote(updates', versions')
  <2>1. \A i \in 1 .. Len(versions) : versions[i] # <<"user", u>>
    BY <1>5 DEF SettingsInv, Wrote, Posts
  <2> QED
    BY <1>1, <1>4, <1>10, <2>1 DEF SettingsInv, Wrote, Asks, Posts
<1>12. ~NonePending(updates) /\ ~NonePending(updates')
  BY <1>4, <1>5 DEF NonePending
<1>13. ShowsKnown(screen', updates', versions')
  BY <1>1, <1>12 DEF SettingsInv, ShowsKnown
<1>14. ReadsOn(screen', updates', readbacks', versions')
  BY <1>1, <1>4, <1>5 DEF SettingsInv, ReadsOn
<1>15. InTurn(readbacks', versions')
  BY <1>1 DEF SettingsInv
<1>16. KnowsLast(screen', updates', readbacks', versions')
  BY <1>1, <1>3, <1>4, <1>5, <1>7, <1>10, <1>12 DEF SettingsInv, KnowsLast, Asks, Unknown
<1> QED
  BY <1>8, <1>9, <1>11, <1>13, <1>14, <1>15, <1>16 DEF SettingsInv

\* A step of the running update keeps what is said of the readbacks.
LEMMA UpdateFrame ==
  ASSUME SettingsInv, NEW u \in Updates, updates[u].at \in Asks, UNCHANGED <<readbacks, versions>>,
         screen' \in ScreenRecord, screen'.revision = screen.revision,
         updates' \in [Updates -> UpdateRecord],
         \A j \in Updates : j # u => updates'[j] = updates[j]
  PROVE  /\ SettingsTypes'
         /\ ReadsOn(screen', updates', readbacks', versions')
         /\ InTurn(readbacks', versions')
         /\ \A j \in Updates : j < u => updates[j].at = "done"
         /\ \A j \in Updates : j # u => updates[j].at \notin Asks
         /\ u <= screen.revision
<1>1. Updates \subseteq Nat
  BY DEF Updates
<1>2. SettingsTypes'
  BY DEF SettingsInv, SettingsTypes
<1>3. ReadsOn(screen', updates', readbacks', versions')
  BY DEF SettingsInv, ReadsOn, Asks
<1>4. InTurn(readbacks', versions')
  BY DEF SettingsInv
<1>5. \A j \in Updates : j < u => updates[j].at = "done"
  BY DEF SettingsInv, Numbered
<1>6. ASSUME NEW j \in Updates, j # u, updates[j].at \in Asks
      PROVE  FALSE
  <2>1. j < u \/ u < j
    BY <1>1, <1>6
  <2>2. updates[j].at = "done" \/ updates[u].at = "done"
    BY <1>6, <2>1 DEF SettingsInv, Numbered
  <2> QED
    BY <1>6, <2>2 DEF Asks
<1>7. u <= screen.revision
  BY DEF SettingsInv, Numbered, Asks
<1> QED
  BY <1>2, <1>3, <1>4, <1>5, <1>6, <1>7

\* The API answers without a new version.
LEMMA ServedInv ==
  ASSUME SettingsInv, NEW u \in Updates, updates[u].at \in Asks, updates[u].answer = "none",
         UNCHANGED <<screen, readbacks, versions>>,
         updates' \in [Updates -> UpdateRecord],
         \A j \in Updates : j # u => updates'[j] = updates[j],
         updates'[u].at = updates[u].at, updates'[u].revision = updates[u].revision,
         \/ updates[u].at \in Reads /\ updates'[u].answer = "ok" /\ updates'[u].expected = Len(versions)
         \/ updates[u].expected = updates'[u].expected /\ updates'[u].answer = "error"
         \/ /\ updates[u].at \in Posts /\ updates[u].expected # Len(versions)
            /\ updates[u].expected = updates'[u].expected /\ updates'[u].answer = "conflict"
  PROVE  SettingsInv'
<1>1. screen \in ScreenRecord
  BY DEF SettingsInv, SettingsTypes
<1>2. /\ SettingsTypes'
      /\ ReadsOn(screen', updates', readbacks', versions')
      /\ InTurn(readbacks', versions')
      /\ \A j \in Updates : j # u => updates[j].at \notin Asks
  BY <1>1, UpdateFrame
<1>3. Numbered(screen', updates')
  BY DEF SettingsInv, Numbered, Asks
<1>4. ~NonePending(updates) /\ ~NonePending(updates')
  BY DEF NonePending, Asks
<1>5. ShowsKnown(screen', updates', versions')
  BY <1>4 DEF SettingsInv, ShowsKnown
<1>6. Len(versions) \in Nat
  BY LastVersion DEF SettingsInv
<1>7. \A i \in 1 .. Len(versions) : versions[i] # <<"user", u>>
  BY DEF SettingsInv, Wrote
<1>8. Wrote(updates', versions')
  <2>1. \A i, j \in 1 .. Len(versions') : versions'[i] = versions'[j] => i = j
    BY DEF SettingsInv, Wrote
  <2> SUFFICES ASSUME NEW j \in Updates
               PROVE  /\ updates'[j].at \in Asks => updates'[j].expected <= Len(versions')
                      /\ updates'[j].at \in Posts /\ updates'[j].answer = "ok" =>
                            updates'[j].expected + 1 <= Len(versions')
                            /\ versions'[updates'[j].expected + 1] = <<"user", j>>
                      /\ \A i \in 1 .. Len(versions') : versions'[i] = <<"user", j>> =>
                            updates'[j].at \in Posts \cup {"done"} /\ updates'[j].answer \in {"ok", "lost"}
    BY <2>1 DEF Wrote
  <2>2. CASE j = u
    <3>1. updates[u].expected <= Len(versions)
      BY DEF SettingsInv, Wrote
    <3>2. updates'[u].expected <= Len(versions)
      BY <1>6, <3>1
    <3>3. ~(updates'[u].at \in Posts /\ updates'[u].answer = "ok")
      BY DEF Posts, Reads
    <3> QED
      BY <1>7, <2>2, <3>2, <3>3
  <2>3. CASE j # u
    <3>1. updates'[j] = updates[j]
      BY <2>3
    <3> QED
      BY <3>1 DEF SettingsInv, Wrote
  <2> QED
    BY <2>2, <2>3
<1>9. KnowsLast(screen', updates', readbacks', versions')
  BY <1>4, <1>6 DEF SettingsInv, KnowsLast, Asks, Posts, Reads
<1> QED
  BY <1>2, <1>3, <1>5, <1>8, <1>9 DEF SettingsInv

\* An update is posted; its answer may be lost.
LEMMA PostedInv ==
  ASSUME SettingsInv, NEW u \in Updates, updates[u].at \in Posts, updates[u].answer = "none",
         UNCHANGED <<screen, readbacks>>,
         versions' = Append(versions, <<"user", u>>), updates[u].expected = Len(versions),
         updates' \in [Updates -> UpdateRecord],
         \A j \in Updates : j # u => updates'[j] = updates[j],
         updates'[u].at = updates[u].at, updates'[u].revision = updates[u].revision,
         updates'[u].expected = updates[u].expected, updates'[u].answer \in {"ok", "lost"}
  PROVE  SettingsInv'
<1>1. /\ screen \in ScreenRecord /\ readbacks \in [Writes -> ReadbackRecord]
  BY DEF SettingsInv, SettingsTypes
<1>2. <<"user", u>> \in Writer
  BY DEF Writer
<1>3. PICK n : n = Len(versions)
  OBVIOUS
<1>4. /\ versions' \in Seq(Writer) /\ versions' # <<>> /\ versions'[1] = <<"start">>
      /\ n \in Nat /\ n >= 1
      /\ Len(versions') = n + 1
      /\ versions'[n + 1] = <<"user", u>>
      /\ \A i \in 1 .. n : versions'[i] = versions[i]
      /\ 1 .. Len(versions') = 1 .. n \cup {n + 1}
  BY <1>2, <1>3, VersionAdded DEF SettingsInv
<1>5. SettingsTypes'
  BY <1>1, <1>4 DEF SettingsTypes
<1>6. Numbered(screen', updates')
  BY DEF SettingsInv, Numbered, Asks
<1>7. ~NonePending(updates) /\ ~NonePending(updates')
  BY DEF NonePending, Posts
<1>8. screen.known <= n /\ screen.known \in Nat
  BY <1>1, <1>3 DEF SettingsInv, ShowsKnown, ScreenRecord
<1>9. ShowsKnown(screen', updates', versions')
  BY <1>4, <1>7, <1>8 DEF ShowsKnown
<1>10. \A i \in 1 .. n : versions[i] # <<"user", u>>
  BY <1>3 DEF SettingsInv, Wrote
<1>11. Wrote(updates', versions')
  <2>1. \A i, j \in 1 .. Len(versions') : versions'[i] = versions'[j] => i = j
    BY <1>3, <1>4, <1>10 DEF SettingsInv, Wrote
  <2> SUFFICES ASSUME NEW j \in Updates
               PROVE  /\ updates'[j].at \in Asks => updates'[j].expected <= Len(versions')
                      /\ updates'[j].at \in Posts /\ updates'[j].answer = "ok" =>
                            updates'[j].expected + 1 <= Len(versions')
                            /\ versions'[updates'[j].expected + 1] = <<"user", j>>
                      /\ \A i \in 1 .. Len(versions') : versions'[i] = <<"user", j>> =>
                            updates'[j].at \in Posts \cup {"done"} /\ updates'[j].answer \in {"ok", "lost"}
    BY <2>1 DEF Wrote
  <2>2. CASE j = u
    BY <1>3, <1>4, <2>2
  <2>3. CASE j # u
    <3>1. updates'[j] = updates[j] /\ updates[j].expected \in Nat
      BY <2>3 DEF SettingsInv, SettingsTypes, UpdateRecord
    <3>2. updates[j].at \in Asks => updates[j].expected <= n
      BY <1>3 DEF SettingsInv, Wrote
    <3>3. updates[j].at \in Posts /\ updates[j].answer = "ok" =>
            updates[j].expected + 1 <= n /\ versions[updates[j].expected + 1] = <<"user", j>>
      BY <1>3 DEF SettingsInv, Wrote
    <3>4. \A i \in 1 .. n : versions[i] = <<"user", j>> =>
                            updates[j].at \in Posts \cup {"done"} /\ updates[j].answer \in {"ok", "lost"}
      BY <1>3 DEF SettingsInv, Wrote
    <3>5. <<"user", j>> # <<"user", u>>
      BY <2>3
    <3>6. updates[j].at \in Posts /\ updates[j].answer = "ok" =>
            updates[j].expected + 1 <= n + 1 /\ versions'[updates[j].expected + 1] = <<"user", j>>
      <4>1. ASSUME updates[j].at \in Posts, updates[j].answer = "ok"
            PROVE  updates[j].expected + 1 \in 1 .. n
        BY <1>4, <3>1, <3>3, <4>1
      <4> QED
        BY <1>4, <3>3, <4>1
    <3>7. \A i \in 1 .. Len(versions') : versions'[i] = <<"user", j>> =>
                            updates[j].at \in Posts \cup {"done"} /\ updates[j].answer \in {"ok", "lost"}
      BY <1>4, <3>4, <3>5
    <3>8. updates[j].at \in Asks => updates[j].expected <= n + 1
      BY <1>4, <3>1, <3>2
    <3> QED
      BY <1>4, <3>1, <3>6, <3>7, <3>8
  <2> QED
    BY <2>2, <2>3
<1>12. \A w \in Writes : <<"other", w>> # <<"user", u>>
  OBVIOUS
<1>13. ReadsOn(screen', updates', readbacks', versions')
  <2> SUFFICES ASSUME NEW w \in Writes
               PROVE  ReadsOn(screen', updates', readbacks', versions')!(w)
    BY DEF ReadsOn
  <2>1. readbacks[w].version \in Nat
    BY <1>1 DEF ReadbackRecord
  <2>2. readbacks[w].at \in ToldOf /\ ~readbacks[w].crossed =>
              \A j \in Updates : j <= readbacks[w].revision => updates'[j].at = "done"
    BY DEF SettingsInv, ReadsOn, Posts
  <2>3. readbacks[w].at = "none" => \A i \in 1 .. Len(versions') : versions'[i] # <<"other", w>>
    <3>1. readbacks[w].at = "none" => \A i \in 1 .. n : versions[i] # <<"other", w>>
      BY <1>3 DEF SettingsInv, ReadsOn
    <3> QED
      BY <1>4, <1>12, <3>1
  <2>4. readbacks[w].at = "read" =>
              /\ readbacks[w].version \in 1 .. Len(versions')
              /\ \A i \in 1 .. Len(versions') : versions'[i] = <<"other", w>> => i <= readbacks[w].version
    <3>1. readbacks[w].at = "read" =>
              /\ readbacks[w].version \in 1 .. n
              /\ \A i \in 1 .. n : versions[i] = <<"other", w>> => i <= readbacks[w].version
      BY <1>3 DEF SettingsInv, ReadsOn
    <3>2. \A i \in 1 .. Len(versions') : versions'[i] = <<"other", w>> => i \in 1 .. n /\ versions[i] = <<"other", w>>
      BY <1>4, <1>12
    <3> QED
      BY <1>4, <3>1, <3>2
  <2>5. readbacks[w].revision <= screen.revision
    BY DEF SettingsInv, ReadsOn
  <2> QED
    BY <2>2, <2>3, <2>4, <2>5
<1>14. InTurn(readbacks', versions')
  <2> SUFFICES ASSUME NEW w \in Writes, NEW i \in 1 .. Len(versions'),
                      readbacks'[w].at \in ToldOf, versions'[i] = <<"other", w>>
               PROVE  /\ \A j \in Updates, k \in 1 .. Len(versions') :
                            versions'[k] = <<"user", j>> /\ j > readbacks'[w].revision => i < k
                      /\ \A x \in Writes : readbacks'[x].at = "read" /\ readbacks'[x].version < i
                            => readbacks'[x].revision <= readbacks'[w].revision
    BY DEF InTurn
  <2>1. i \in 1 .. n /\ versions[i] = <<"other", w>>
    BY <1>4, <1>12
  <2>2. \A j \in Updates, k \in 1 .. n : versions[k] = <<"user", j>> /\ j > readbacks[w].revision => i < k
    BY <1>3, <2>1 DEF SettingsInv, InTurn
  <2>3. \A x \in Writes : readbacks[x].at = "read" /\ readbacks[x].version < i
                            => readbacks[x].revision <= readbacks[w].revision
    BY <1>3, <2>1 DEF SettingsInv, InTurn
  <2>4. i < n + 1
    BY <1>4, <2>1
  <2> QED
    BY <1>4, <2>2, <2>3, <2>4
<1>15. KnowsLast(screen', updates', readbacks', versions')
  <2>1. updates'[u].at # "done"
    BY DEF Posts
  <2>2. \A j \in Updates : <<"user", j>> = <<"user", u>> => j = u
    OBVIOUS
  <2> QED
    BY <1>4, <1>12, <2>1, <2>2 DEF KnowsLast
<1> QED
  BY <1>5, <1>6, <1>9, <1>11, <1>13, <1>14, <1>15 DEF SettingsInv

\* The API answers a request of an update.
LEMMA ServeConfigInv ==
  ASSUME SettingsInv, NEW u \in Updates, ServeConfig(u)
  PROVE  SettingsInv'
<1>1. /\ updates \in [Updates -> UpdateRecord] /\ UNCHANGED <<screen, readbacks>>
      /\ updates[u].at \in Asks /\ updates[u].answer = "none"
  BY DEF SettingsInv, SettingsTypes, ServeConfig, Asks, Reads, Posts
<1>2. PICK n \in Nat : n = Len(versions)
  BY LastVersion DEF SettingsInv
<1>3. PICK a \in {"ok", "lost", "conflict", "error"} :
        \/ /\ updates[u].at \in Reads /\ a = "ok" /\ UNCHANGED versions
           /\ updates' = [updates EXCEPT ![u].answer = "ok", ![u].expected = n]
        \/ /\ updates[u].at \in Posts /\ updates[u].expected = n /\ a \in {"ok", "lost"}
           /\ versions' = Append(versions, <<"user", u>>)
           /\ updates' = [updates EXCEPT ![u].answer = a]
        \/ /\ updates[u].at \in Posts /\ updates[u].expected # n /\ a = "conflict"
           /\ UNCHANGED versions /\ updates' = [updates EXCEPT ![u].answer = a]
        \/ a = "error" /\ UNCHANGED versions /\ updates' = [updates EXCEPT ![u].answer = a]
  BY <1>2 DEF ServeConfig
<1>4. /\ updates' \in [Updates -> UpdateRecord]
      /\ \A j \in Updates : j # u => updates'[j] = updates[j]
      /\ updates'[u].at = updates[u].at /\ updates'[u].revision = updates[u].revision
      /\ updates'[u].answer = a
      /\ \/ updates[u].at \in Reads /\ a = "ok" /\ updates'[u].expected = n
         \/ updates[u].at \notin Reads /\ updates'[u].expected = updates[u].expected
         \/ a = "error" /\ updates'[u].expected = updates[u].expected
  <2>1. PICK old \in UpdateRecord : old = updates[u]
    BY <1>1
  <2>2. PICK m \in Nat : /\ updates' = [updates EXCEPT ![u].answer = a, ![u].expected = m]
                         /\ \/ old.at \in Reads /\ a = "ok" /\ m = n
                            \/ old.at \notin Reads /\ m = old.expected
                            \/ a = "error" /\ m = old.expected
    <3>1. old.expected \in Nat /\ (old.at \in Posts => old.at \notin Reads)
      BY DEF UpdateRecord, Reads, Posts
    <3>2. CASE old.at \in Reads /\ a = "ok" /\ updates' = [updates EXCEPT ![u].answer = "ok", ![u].expected = n]
      BY <3>2
    <3>3. CASE (old.at \in Posts \/ a = "error") /\ updates' = [updates EXCEPT ![u].answer = a]
      <4>1. updates' = [updates EXCEPT ![u].answer = a, ![u].expected = old.expected]
        BY <1>1, <2>1, <3>3 DEF UpdateRecord
      <4> QED
        BY <3>1, <3>3, <4>1
    <3> QED
      BY <1>3, <2>1, <3>2, <3>3
  <2> DEFINE new == [old EXCEPT !.answer = a, !.expected = m]
  <2>3. updates' = [updates EXCEPT ![u] = new]
    BY <2>1, <2>2
  <2>4. new \in UpdateRecord /\ new.at = old.at /\ new.revision = old.revision /\ new.answer = a /\ new.expected = m
    BY DEF UpdateRecord
  <2> HIDE DEF new
  <2> QED
    BY <1>1, <2>1, <2>2, <2>3, <2>4
<1>5. CASE updates[u].at \in Posts /\ updates[u].expected = n /\ a \in {"ok", "lost"}
  <2>1. versions' = Append(versions, <<"user", u>>) /\ updates'[u].expected = updates[u].expected
    BY <1>3, <1>4, <1>5 DEF Reads, Posts
  <2> QED
    BY <1>1, <1>2, <1>4, <1>5, <2>1, PostedInv
<1>6. CASE ~(updates[u].at \in Posts /\ updates[u].expected = n /\ a \in {"ok", "lost"})
  <2>1. /\ UNCHANGED versions
        /\ \/ updates[u].at \in Reads /\ updates'[u].answer = "ok" /\ updates'[u].expected = Len(versions)
           \/ updates[u].expected = updates'[u].expected /\ updates'[u].answer = "error"
           \/ /\ updates[u].at \in Posts /\ updates[u].expected # Len(versions)
              /\ updates[u].expected = updates'[u].expected /\ updates'[u].answer = "conflict"
    BY <1>2, <1>3, <1>4, <1>6 DEF Reads, Posts
  <2> QED
    BY <1>1, <1>4, <2>1, ServedInv
<1> QED
  BY <1>5, <1>6

\* What follows an answer: the update is done, or asks once more.
LEMMA ContinuedInv ==
  ASSUME SettingsInv, NEW u \in Updates, updates[u].at \in Asks, updates[u].answer # "none",
         UNCHANGED <<readbacks, versions>>,
         screen' \in ScreenRecord, screen'.revision = screen.revision, screen'.known <= Len(versions),
         updates' \in [Updates -> UpdateRecord],
         \A j \in Updates : j # u => updates'[j] = updates[j],
         updates'[u].revision = updates[u].revision,
         \/ /\ updates'[u].at = "done" /\ updates'[u].answer = updates[u].answer
            /\ u = screen.revision /\ screen'.status = "applied" =>
                  screen'.known # Unknown /\ screen'.shown = versions[screen'.known]
            /\ updates[u].at \in Posts /\ updates[u].answer = "ok" => screen'.known = updates[u].expected + 1
         \/ /\ updates[u].at \in Reads \/ updates[u].answer = "conflict"
            /\ updates'[u].at \in Asks /\ updates'[u].answer = "none"
            /\ updates'[u].expected <= Len(versions),
         updates[u].answer = "error" => screen'.known = screen.known,
         updates'[u].at = "done" /\ screen'.status = "applied" /\ u = screen.revision =>
            updates[u].at \in Posts /\ updates[u].answer = "ok"
  PROVE  SettingsInv'
<1>1. /\ SettingsTypes'
      /\ ReadsOn(screen', updates', readbacks', versions')
      /\ InTurn(readbacks', versions')
      /\ \A j \in Updates : j < u => updates[j].at = "done"
      /\ \A j \in Updates : j # u => updates[j].at \notin Asks
      /\ u <= screen.revision
  BY UpdateFrame
<1>2. Updates \subseteq Nat /\ screen.revision \in Nat
  BY DEF Updates, SettingsInv, SettingsTypes, ScreenRecord
<1>3. Numbered(screen', updates')
  <2>1. updates'[u].at # "idle" /\ updates[u].at # "idle"
    BY DEF Asks
  <2> QED
    BY <1>1, <1>2, <2>1 DEF SettingsInv, Numbered, Asks
<1>4. Len(versions) \in Nat /\ Len(versions) >= 1
  BY LastVersion DEF SettingsInv
<1>5. Wrote(updates', versions')
  <2>1. \A i, j \in 1 .. Len(versions') : versions'[i] = versions'[j] => i = j
    BY DEF SettingsInv, Wrote
  <2> SUFFICES ASSUME NEW j \in Updates
               PROVE  /\ updates'[j].at \in Asks => updates'[j].expected <= Len(versions')
                      /\ updates'[j].at \in Posts /\ updates'[j].answer = "ok" =>
                            updates'[j].expected + 1 <= Len(versions')
                            /\ versions'[updates'[j].expected + 1] = <<"user", j>>
                      /\ \A i \in 1 .. Len(versions') : versions'[i] = <<"user", j>> =>
                            updates'[j].at \in Posts \cup {"done"} /\ updates'[j].answer \in {"ok", "lost"}
    BY <2>1 DEF Wrote
  <2>2. CASE j = u
    <3>1. \A i \in 1 .. Len(versions) : versions[i] = <<"user", u>> =>
                            updates[u].at \in Posts \cup {"done"} /\ updates[u].answer \in {"ok", "lost"}
      BY DEF SettingsInv, Wrote
    <3>2. CASE updates'[u].at = "done"
      BY <2>2, <3>1, <3>2 DEF Asks, Posts
    <3>3. CASE updates'[u].at # "done"
      BY <2>2, <3>1, <3>3 DEF Asks, Posts, Reads
    <3> QED
      BY <3>2, <3>3
  <2>3. CASE j # u
    <3>1. updates'[j] = updates[j]
      BY <2>3
    <3> QED
      BY <3>1 DEF SettingsInv, Wrote
  <2> QED
    BY <2>2, <2>3
<1>6. NonePending(updates') => u = screen.revision /\ updates'[u].at = "done"
  <2> SUFFICES ASSUME NonePending(updates')
               PROVE  u = screen.revision /\ updates'[u].at = "done"
    OBVIOUS
  <2>1. updates'[u].at = "done"
    BY DEF NonePending, Asks
  <2>2. ASSUME u < screen.revision
        PROVE  FALSE
    <3>1. PICK j \in Updates : j = screen.revision
      BY <1>2, <2>2, VoiceConfigAssumption DEF Updates, SettingsInv, Numbered
    <3>2. updates[j].at # "idle" /\ j # u
      BY <1>2, <2>2, <3>1 DEF SettingsInv, Numbered
    <3>3. updates[j].at = "done"
      BY <3>2 DEF NonePending
    <3>4. updates[u].at = "done"
      BY <2>2, <3>1, <3>3 DEF SettingsInv, Numbered
    <3> QED
      BY <3>4 DEF Asks
  <2> QED
    BY <1>1, <1>2, <2>1, <2>2
<1>7. ShowsKnown(screen', updates', versions')
  BY <1>6 DEF ShowsKnown, Asks
<1>8. ASSUME NEW w \in Writes, versions[Len(versions)] = <<"other", w>>, readbacks[w].at \in ToldOf,
             ~readbacks[w].crossed
      PROVE  /\ readbacks[w].revision # screen.revision
             /\ NonePending(updates') /\ screen'.status = "applied" => screen'.known = Len(versions)
  <2>1. readbacks[w].revision # screen.revision
    <3>1. u <= readbacks[w].revision => updates[u].at = "done"
      BY <1>8 DEF SettingsInv, ReadsOn
    <3> QED
      BY <1>1, <3>1 DEF Asks
  <2>2. readbacks[w].revision < u
    <3>1. u <= readbacks[w].revision => updates[u].at = "done"
      BY <1>8 DEF SettingsInv, ReadsOn
    <3>2. readbacks[w].revision \in Nat
      BY DEF SettingsInv, SettingsTypes, ReadbackRecord
    <3> QED
      BY <1>2, <3>1, <3>2 DEF Asks
  <2>3. ASSUME NonePending(updates'), screen'.status = "applied"
        PROVE  FALSE
    <3>1. updates[u].at \in Posts /\ updates[u].answer = "ok"
      BY <1>6, <2>3
    <3>2. PICK k : k = updates[u].expected + 1
      OBVIOUS
    <3>3. k <= Len(versions) /\ versions[k] = <<"user", u>> /\ k \in Nat /\ k >= 1
      BY <3>1, <3>2 DEF SettingsInv, Wrote, SettingsTypes, UpdateRecord
    <3>4. Len(versions) \in 1 .. Len(versions) /\ k \in 1 .. Len(versions)
      BY <1>4, <3>3
    <3>5. Len(versions) < k
      BY <1>8, <2>2, <3>3, <3>4 DEF SettingsInv, InTurn
    <3> QED
      BY <1>4, <3>3, <3>5
  <2> QED
    BY <2>1, <2>3
<1>9. ASSUME NEW k \in Updates, versions[Len(versions)] = <<"user", k>>, updates'[k].at = "done",
             updates'[k].answer = "ok"
      PROVE  /\ screen'.known = Len(versions)
             /\ \A j \in Updates : updates'[j].at \notin Asks
  <2>1. Len(versions) \in 1 .. Len(versions)
    BY <1>4
  <2>2. CASE k = u
    <3>1. updates[u].answer = "ok" /\ updates'[u].at \notin Asks
      BY <1>9, <2>2 DEF Asks
    <3>2. updates[u].at \in Posts
      BY <1>9, <2>1, <2>2 DEF SettingsInv, Wrote, Asks
    <3>3. PICK i : i = updates[u].expected + 1
      OBVIOUS
    <3>4. i <= Len(versions) /\ versions[i] = <<"user", u>> /\ i \in Nat /\ i >= 1
      BY <3>1, <3>2, <3>3 DEF SettingsInv, Wrote, SettingsTypes, UpdateRecord
    <3>5. i \in 1 .. Len(versions)
      BY <1>4, <3>4
    <3>6. i = Len(versions)
      BY <1>9, <2>1, <2>2, <3>4, <3>5 DEF SettingsInv, Wrote
    <3>7. screen'.known = i
      BY <3>1, <3>2, <3>3
    <3> QED
      BY <1>1, <3>1, <3>6, <3>7
  <2>3. CASE k # u
    <3>1. updates[k].at = "done" /\ updates[k].answer = "ok"
      BY <1>9, <2>3
    <3>2. /\ screen.known = Len(versions)
          /\ updates[u].at = "write" /\ updates[u].answer \in {"none", "error"}
      BY <1>9, <3>1 DEF SettingsInv, KnowsLast
    <3>3. updates[u].answer = "error" /\ updates[u].at \notin Reads
      BY <3>2 DEF Reads
    <3>4. updates'[u].at = "done" /\ screen'.known = screen.known
      BY <3>3
    <3> QED
      BY <1>1, <3>2, <3>4 DEF Asks
  <2> QED
    BY <2>2, <2>3
<1>10. KnowsLast(screen', updates', readbacks', versions')
  BY <1>8, <1>9 DEF KnowsLast
<1> QED
  BY <1>1, <1>3, <1>5, <1>7, <1>10 DEF SettingsInv

\* An update goes on with its answer.
LEMMA ContinueConfigInv ==
  ASSUME SettingsInv, NEW u \in Updates, ContinueConfig(u)
  PROVE  SettingsInv'
<1>1. /\ screen \in ScreenRecord /\ updates \in [Updates -> UpdateRecord]
      /\ UNCHANGED <<readbacks, versions>>
      /\ updates[u].at \in Asks /\ updates[u].answer # "none"
  BY DEF SettingsInv, SettingsTypes, ContinueConfig, Asks, Reads, Posts
<1>2. Latest(u) <=> u = screen.revision
  BY <1>1 DEF Latest, SettingsInv, Numbered, Asks
<1>3. /\ updates[u] \in UpdateRecord /\ screen.known \in Nat /\ screen.known <= Len(versions)
      /\ updates[u].expected <= Len(versions) /\ updates[u].expected \in Nat
  BY <1>1 DEF SettingsInv, ShowsKnown, Wrote, ScreenRecord, UpdateRecord
<1>4. Len(versions) \in Nat /\ Len(versions) >= 1
  BY LastVersion DEF SettingsInv
<1>5. CASE FailUpdate(u)
  <2>1. PICK known \in Nat :
            /\ known = IF updates[u].answer = "conflict" THEN Unknown ELSE screen.known
            /\ screen' = IF Latest(u)
                 THEN [screen EXCEPT !.shown = screen.applied, !.status = "failed", !.known = known]
                 ELSE [screen EXCEPT !.known = known]
    BY <1>3, <1>5 DEF FailUpdate, Unknown
  <2>2. /\ screen' \in ScreenRecord /\ screen'.revision = screen.revision /\ screen'.known = known
        /\ u = screen.revision => screen'.status = "failed"
        /\ known <= Len(versions)
    <3>1. known <= Len(versions)
      BY <1>3, <1>4, <2>1 DEF Unknown
    <3>2. CASE Latest(u)
      BY <1>1, <2>1, <3>1, <3>2 DEF ScreenRecord
    <3>3. CASE ~Latest(u)
      BY <1>1, <1>2, <2>1, <3>1, <3>3 DEF ScreenRecord
    <3> QED
      BY <3>2, <3>3
  <2>3. /\ updates' \in [Updates -> UpdateRecord]
        /\ \A j \in Updates : j # u => updates'[j] = updates[j]
        /\ updates'[u].revision = updates[u].revision
        /\ updates'[u].at = "done" /\ updates'[u].answer = updates[u].answer
    BY <1>1, <1>5 DEF FailUpdate, Finish, UpdateRecord
  <2>4. updates[u].answer # "ok"
    BY <1>5 DEF FailUpdate
  <2> QED
    BY <1>1, <2>1, <2>2, <2>3, <2>4, ContinuedInv
<1>6. CASE RetryUpdate(u)
  <2>1. /\ screen' \in ScreenRecord /\ screen'.revision = screen.revision
        /\ screen'.known <= Len(versions)
    BY <1>1, <1>4, <1>6 DEF RetryUpdate, ScreenRecord, Unknown
  <2>2. /\ updates' \in [Updates -> UpdateRecord]
        /\ \A j \in Updates : j # u => updates'[j] = updates[j]
        /\ updates'[u].revision = updates[u].revision
        /\ updates'[u].at \in Asks /\ updates'[u].answer = "none"
        /\ updates'[u].expected = 0 /\ updates'[u].at # "done"
        /\ updates[u].answer = "conflict"
    BY <1>1, <1>6 DEF RetryUpdate, Ask, UpdateRecord, Asks, Unknown
  <2>3. updates'[u].expected <= Len(versions)
    BY <1>4, <2>2
  <2> QED
    BY <1>1, <2>1, <2>2, <2>3, ContinuedInv
<1>7. CASE ReadDone(u)
  <2>1. PICK v \in Nat : v = updates[u].expected /\ v <= Len(versions)
    BY <1>3
  <2>2. updates[u].at \in Reads /\ updates[u].answer = "ok"
    BY <1>7 DEF ReadDone
  <2>3. /\ screen' \in ScreenRecord /\ screen'.revision = screen.revision
        /\ screen'.known <= Len(versions)
    BY <1>1, <1>3, <1>4, <1>7, <2>1 DEF ReadDone, ScreenRecord, Unknown
  <2>4. CASE Finish(u) /\ ~Latest(u)
    <3>1. /\ updates' \in [Updates -> UpdateRecord]
          /\ \A j \in Updates : j # u => updates'[j] = updates[j]
          /\ updates'[u].revision = updates[u].revision
          /\ updates'[u].at = "done" /\ updates'[u].answer = updates[u].answer
      BY <1>1, <2>4 DEF Finish, UpdateRecord
    <3> QED
      BY <1>1, <1>2, <2>2, <2>3, <2>4, <3>1, ContinuedInv DEF Reads, Posts
  <2>5. CASE \E place \in Posts : Ask(u, place, v)
    <3>1. /\ updates' \in [Updates -> UpdateRecord]
          /\ \A j \in Updates : j # u => updates'[j] = updates[j]
          /\ updates'[u].revision = updates[u].revision
          /\ updates'[u].at \in Asks /\ updates'[u].answer = "none"
          /\ updates'[u].expected = v /\ updates'[u].at # "done"
      <4>1. PICK place \in Posts :
               updates' = [updates EXCEPT ![u].at = place, ![u].answer = "none", ![u].expected = v]
        BY <2>5 DEF Ask
      <4>2. PICK old \in UpdateRecord : old = updates[u]
        BY <1>1
      <4> DEFINE new == [old EXCEPT !.at = place, !.answer = "none", !.expected = v]
      <4>3. updates' = [updates EXCEPT ![u] = new]
        BY <4>1, <4>2
      <4>4. /\ new \in UpdateRecord /\ new.revision = old.revision /\ new.at = place /\ new.answer = "none"
            /\ new.expected = v /\ place \in Asks /\ place # "done"
        BY DEF UpdateRecord, Asks, Posts
      <4> HIDE DEF new
      <4> QED
        BY <1>1, <4>2, <4>3, <4>4
    <3> QED
      BY <1>1, <2>1, <2>2, <2>3, <3>1, ContinuedInv
  <2> QED
    BY <1>7, <2>1, <2>4, <2>5 DEF ReadDone, Posts
<1>8. CASE WriteDone(u)
  <2>1. PICK v : v = updates[u].expected + 1
    OBVIOUS
  <2>2. updates[u].at \in Posts /\ updates[u].answer = "ok"
    BY <1>8 DEF WriteDone
  <2>3. v <= Len(versions) /\ versions[v] = <<"user", u>> /\ v \in Nat /\ v # Unknown
    BY <1>3, <2>1, <2>2 DEF SettingsInv, Wrote, Unknown
  <2>4. PICK c \in Writer : c = <<"user", u>>
    BY DEF Writer
  <2>5. screen' = IF Latest(u)
                  THEN [screen EXCEPT !.known = v, !.applied = c, !.shown = c, !.status = "applied"]
                  ELSE [screen EXCEPT !.known = v, !.applied = c]
    BY <1>1, <1>8, <2>1, <2>4 DEF WriteDone, ScreenRecord
  <2>6. /\ screen' \in ScreenRecord /\ screen'.revision = screen.revision /\ screen'.known = v
        /\ u = screen.revision => screen'.shown = versions[screen'.known]
    BY <1>1, <1>2, <2>3, <2>4, <2>5 DEF ScreenRecord
  <2>7. /\ updates' \in [Updates -> UpdateRecord]
        /\ \A j \in Updates : j # u => updates'[j] = updates[j]
        /\ updates'[u].revision = updates[u].revision
        /\ updates'[u].at = "done" /\ updates'[u].answer = updates[u].answer
    BY <1>1, <1>8 DEF WriteDone, Finish, UpdateRecord
  <2> QED
    BY <1>1, <2>1, <2>2, <2>3, <2>6, <2>7, ContinuedInv
<1> QED
  BY <1>5, <1>6, <1>7, <1>8 DEF ContinueConfig

\* A command or a restore writes a version.
LEMMA OtherWriteInv ==
  ASSUME SettingsInv, NEW w \in Writes, OtherWrite(w)
  PROVE  SettingsInv'
<1>1. /\ screen \in ScreenRecord /\ updates \in [Updates -> UpdateRecord]
      /\ readbacks \in [Writes -> ReadbackRecord]
      /\ UNCHANGED <<screen, updates>> /\ readbacks[w].at = "none"
      /\ versions' = Append(versions, <<"other", w>>)
  BY DEF SettingsInv, SettingsTypes, OtherWrite
<1>2. <<"other", w>> \in Writer
  BY DEF Writer
<1>3. PICK n : n = Len(versions)
  OBVIOUS
<1>4. /\ versions' \in Seq(Writer) /\ versions' # <<>> /\ versions'[1] = <<"start">>
      /\ n \in Nat /\ n >= 1
      /\ Len(versions') = n + 1
      /\ versions'[n + 1] = <<"other", w>>
      /\ \A i \in 1 .. n : versions'[i] = versions[i]
      /\ 1 .. Len(versions') = 1 .. n \cup {n + 1}
  BY <1>1, <1>2, <1>3, VersionAdded DEF SettingsInv
<1>5. /\ readbacks' \in [Writes -> ReadbackRecord]
      /\ readbacks'[w].at = "unread" /\ readbacks'[w].revision = readbacks[w].revision
      /\ \A x \in Writes : x # w => readbacks'[x] = readbacks[x]
  <2>1. PICK b \in BOOLEAN : readbacks' = [readbacks EXCEPT ![w].at = "unread", ![w].restored = b]
    BY DEF OtherWrite
  <2>2. PICK old \in ReadbackRecord : old = readbacks[w]
    BY <1>1
  <2> DEFINE new == [old EXCEPT !.at = "unread", !.restored = b]
  <2>3. readbacks' = [readbacks EXCEPT ![w] = new]
    BY <2>1, <2>2
  <2>4. new \in ReadbackRecord /\ new.at = "unread" /\ new.revision = old.revision
    BY DEF ReadbackRecord
  <2> HIDE DEF new
  <2> QED
    BY <1>1, <2>2, <2>3, <2>4
<1>6. SettingsTypes'
  BY <1>1, <1>4, <1>5 DEF SettingsTypes
<1>7. \A u \in Updates : <<"user", u>> # <<"other", w>>
  OBVIOUS
<1>8. \A x \in Writes : <<"other", x>> = <<"other", w>> => x = w
  OBVIOUS
<1>9. \A i \in 1 .. n : versions[i] # <<"other", w>>
  BY <1>1, <1>3 DEF SettingsInv, ReadsOn
<1>10. Numbered(screen', updates')
  BY <1>1 DEF SettingsInv
<1>11. Wrote(updates', versions')
  <2>1. \A i, j \in 1 .. Len(versions') : versions'[i] = versions'[j] => i = j
    BY <1>3, <1>4, <1>9 DEF SettingsInv, Wrote
  <2> SUFFICES ASSUME NEW j \in Updates
               PROVE  /\ updates'[j].at \in Asks => updates'[j].expected <= Len(versions')
                      /\ updates'[j].at \in Posts /\ updates'[j].answer = "ok" =>
                            updates'[j].expected + 1 <= Len(versions')
                            /\ versions'[updates'[j].expected + 1] = <<"user", j>>
                      /\ \A i \in 1 .. Len(versions') : versions'[i] = <<"user", j>> =>
                            updates'[j].at \in Posts \cup {"done"} /\ updates'[j].answer \in {"ok", "lost"}
    BY <2>1 DEF Wrote
  <2>2. updates'[j] = updates[j] /\ updates[j].expected \in Nat
    BY <1>1 DEF UpdateRecord
  <2>3. updates[j].at \in Asks => updates[j].expected <= n
    BY <1>3 DEF SettingsInv, Wrote
  <2>4. updates[j].at \in Posts /\ updates[j].answer = "ok" =>
            updates[j].expected + 1 <= n /\ versions[updates[j].expected + 1] = <<"user", j>>
    BY <1>3 DEF SettingsInv, Wrote
  <2>5. \A i \in 1 .. n : versions[i] = <<"user", j>> =>
                            updates[j].at \in Posts \cup {"done"} /\ updates[j].answer \in {"ok", "lost"}
    BY <1>3 DEF SettingsInv, Wrote
  <2>6. updates[j].at \in Posts /\ updates[j].answer = "ok" =>
            updates[j].expected + 1 <= n + 1 /\ versions'[updates[j].expected + 1] = <<"user", j>>
    <3>1. ASSUME updates[j].at \in Posts, updates[j].answer = "ok"
          PROVE  updates[j].expected + 1 \in 1 .. n
      BY <1>4, <2>2, <2>4, <3>1
    <3> QED
      BY <1>4, <2>4, <3>1
  <2>7. \A i \in 1 .. Len(versions') : versions'[i] = <<"user", j>> =>
                            updates[j].at \in Posts \cup {"done"} /\ updates[j].answer \in {"ok", "lost"}
    BY <1>4, <1>7, <2>5
  <2>8. updates[j].at \in Asks => updates[j].expected <= n + 1
    BY <1>4, <2>2, <2>3
  <2> QED
    BY <1>4, <2>2, <2>6, <2>7, <2>8
<1>12. ShowsKnown(screen', updates', versions')
  <2>1. screen.known <= n /\ screen.known \in Nat
    BY <1>1, <1>3 DEF SettingsInv, ShowsKnown, ScreenRecord
  <2>2. screen.status = "applied" /\ NonePending(updates) => screen.known \in 1 .. n
            /\ screen.shown = versions[screen.known]
    BY <1>3, <1>4, <2>1 DEF SettingsInv, ShowsKnown, Unknown
  <2>3. screen.status = "applied" /\ NonePending(updates) => screen.known # Unknown
            /\ screen.shown = versions'[screen.known]
    BY <1>4, <2>2 DEF Unknown
  <2>4. screen.known <= n + 1
    BY <1>4, <2>1
  <2>5. screen' = screen /\ updates' = updates /\ Len(versions') = n + 1
    BY <1>1, <1>4
  <2> QED
    BY <2>3, <2>4, <2>5 DEF ShowsKnown
<1>13. ReadsOn(screen', updates', readbacks', versions')
  <2> SUFFICES ASSUME NEW x \in Writes
               PROVE  ReadsOn(screen', updates', readbacks', versions')!(x)
    BY DEF ReadsOn
  <2>1. readbacks'[x].revision <= screen.revision
    BY <1>5 DEF SettingsInv, ReadsOn
  <2>2. readbacks'[x].at = "none" => \A i \in 1 .. Len(versions') : versions'[i] # <<"other", x>>
    BY <1>3, <1>4, <1>5, <1>8 DEF SettingsInv, ReadsOn
  <2>3. readbacks'[x].at = "read" =>
              /\ readbacks'[x].version \in 1 .. Len(versions')
              /\ \A i \in 1 .. Len(versions') : versions'[i] = <<"other", x>> => i <= readbacks'[x].version
    <3> SUFFICES ASSUME readbacks'[x].at = "read"
                 PROVE  /\ readbacks[x].version \in 1 .. Len(versions')
                        /\ \A i \in 1 .. Len(versions') : versions'[i] = <<"other", x>> =>
                                i <= readbacks[x].version
      BY <1>5
    <3>1. x # w /\ readbacks[x].at = "read"
      BY <1>5
    <3>2. /\ readbacks[x].version \in 1 .. n
          /\ \A i \in 1 .. n : versions[i] = <<"other", x>> => i <= readbacks[x].version
      BY <1>3, <3>1 DEF SettingsInv, ReadsOn
    <3>3. \A i \in 1 .. Len(versions') : versions'[i] = <<"other", x>> => i \in 1 .. n /\ versions[i] = <<"other", x>>
      BY <1>4, <1>8, <3>1
    <3> QED
      BY <1>4, <3>2, <3>3
  <2>4. readbacks'[x].at \in ToldOf /\ ~readbacks'[x].crossed =>
              \A j \in Updates : j <= readbacks'[x].revision => updates[j].at = "done"
    <3>1. CASE x = w
      BY <1>5, <3>1 DEF ToldOf
    <3>2. CASE x # w
      <4>1. readbacks'[x] = readbacks[x]
        BY <1>5, <3>2
      <4> QED
        BY <4>1 DEF SettingsInv, ReadsOn
    <3> QED
      BY <3>1, <3>2
  <2> QED
    BY <1>1, <2>1, <2>2, <2>3, <2>4
<1>14. InTurn(readbacks', versions')
  <2> SUFFICES ASSUME NEW x \in Writes, NEW i \in 1 .. Len(versions'),
                      readbacks'[x].at \in ToldOf, versions'[i] = <<"other", x>>
               PROVE  /\ \A j \in Updates, k \in 1 .. Len(versions') :
                            versions'[k] = <<"user", j>> /\ j > readbacks'[x].revision => i < k
                      /\ \A y \in Writes : readbacks'[y].at = "read" /\ readbacks'[y].version < i
                            => readbacks'[y].revision <= readbacks'[x].revision
    BY DEF InTurn
  <2>1. x # w /\ readbacks'[x] = readbacks[x]
    BY <1>5 DEF ToldOf
  <2>2. i \in 1 .. n /\ versions[i] = <<"other", x>>
    BY <1>4, <1>8, <2>1
  <2>3. \A j \in Updates, k \in 1 .. n : versions[k] = <<"user", j>> /\ j > readbacks[x].revision => i < k
    BY <1>3, <2>1, <2>2 DEF SettingsInv, InTurn
  <2>4. \A y \in Writes : readbacks[y].at = "read" /\ readbacks[y].version < i
                            => readbacks[y].revision <= readbacks[x].revision
    BY <1>3, <2>1, <2>2 DEF SettingsInv, InTurn
  <2>5. \A y \in Writes : readbacks'[y].at = "read" => readbacks'[y] = readbacks[y]
    BY <1>5
  <2> QED
    BY <1>4, <1>7, <2>1, <2>3, <2>4, <2>5
<1>15. KnowsLast(screen', updates', readbacks', versions')
  BY <1>4, <1>5, <1>7, <1>8 DEF KnowsLast, ToldOf
<1> QED
  BY <1>6, <1>10, <1>11, <1>12, <1>13, <1>14, <1>15 DEF SettingsInv

\* Steps of a readback that leave the screen alone keep what is said of the others.
LEMMA ReadbackFrame ==
  ASSUME SettingsInv, NEW w \in Writes, UNCHANGED <<updates, versions>>,
         readbacks' \in [Writes -> ReadbackRecord],
         \A x \in Writes : x # w => readbacks'[x] = readbacks[x],
         readbacks[w].at # "none", readbacks'[w].at # "none",
         readbacks'[w].revision <= screen.revision, screen' = screen,
         readbacks'[w].at = "read" =>
            readbacks'[w].version = Len(versions) /\ readbacks'[w].revision = readbacks[w].revision,
         readbacks'[w].at \in ToldOf =>
            \/ readbacks'[w].revision = screen.revision
            \/ readbacks[w].at \in ToldOf /\ readbacks'[w].revision = readbacks[w].revision,
         readbacks'[w].at \in ToldOf /\ ~readbacks'[w].crossed =>
              \A j \in Updates : j <= readbacks'[w].revision => updates[j].at = "done",
         readbacks'[w].at \in ToldOf /\ ~readbacks'[w].crossed /\ versions[Len(versions)] = <<"other", w>> =>
            /\ readbacks'[w].at = "done" /\ readbacks'[w].revision = screen.revision =>
                    screen.known = Len(versions)
            /\ readbacks'[w].revision < screen.revision => readbacks[w].at \in ToldOf /\ ~readbacks[w].crossed
                    /\ readbacks[w].revision = readbacks'[w].revision
  PROVE  SettingsInv'
<1>1. SettingsTypes'
  BY DEF SettingsInv, SettingsTypes
<1>2. /\ Len(versions) \in Nat /\ Len(versions) >= 1 /\ screen.revision \in Nat
      /\ readbacks \in [Writes -> ReadbackRecord] /\ Updates \subseteq Nat
  BY LastVersion DEF SettingsInv, SettingsTypes, ScreenRecord, Updates
<1>3. ReadsOn(screen', updates', readbacks', versions')
  <2> SUFFICES ASSUME NEW x \in Writes
               PROVE  ReadsOn(screen', updates', readbacks', versions')!(x)
    BY DEF ReadsOn
  <2>1. CASE x = w
    BY <1>2, <2>1
  <2>2. CASE x # w
    <3>1. readbacks'[x] = readbacks[x]
      BY <2>2
    <3> QED
      BY <3>1 DEF SettingsInv, ReadsOn
  <2> QED
    BY <2>1, <2>2
<1>4. InTurn(readbacks', versions')
  <2> SUFFICES ASSUME NEW x \in Writes, NEW i \in 1 .. Len(versions),
                      readbacks'[x].at \in ToldOf, versions[i] = <<"other", x>>
               PROVE  /\ \A j \in Updates, k \in 1 .. Len(versions) :
                            versions[k] = <<"user", j>> /\ j > readbacks'[x].revision => i < k
                      /\ \A y \in Writes : readbacks'[y].at = "read" /\ readbacks'[y].version < i
                            => readbacks'[y].revision <= readbacks'[x].revision
    BY DEF InTurn
  <2>1. \A y \in Writes : readbacks[y].revision <= screen.revision /\ readbacks[y].revision \in Nat
    BY <1>2 DEF SettingsInv, ReadsOn, ReadbackRecord
  <2>2. \A j \in Updates, k \in 1 .. Len(versions) :
            versions[k] = <<"user", j>> => j <= screen.revision
    BY DEF SettingsInv, Wrote, Numbered, Posts
  <2>3. \A y \in Writes : readbacks'[y].revision <= screen.revision
    BY <2>1
  <2>4. CASE readbacks'[x].revision = screen.revision
    BY <1>2, <2>2, <2>3, <2>4
  <2>5. CASE readbacks[x].at \in ToldOf /\ readbacks'[x].revision = readbacks[x].revision
    <3>1. \A j \in Updates, k \in 1 .. Len(versions) :
                            versions[k] = <<"user", j>> /\ j > readbacks[x].revision => i < k
      BY <2>5 DEF SettingsInv, InTurn
    <3>2. \A y \in Writes : readbacks[y].at = "read" /\ readbacks[y].version < i
                            => readbacks[y].revision <= readbacks[x].revision
      BY <2>5 DEF SettingsInv, InTurn
    <3>3. readbacks'[w].at = "read" => ~(readbacks'[w].version < i)
      BY <1>2
    <3>4. \A y \in Writes : readbacks'[y].at = "read" /\ readbacks'[y].version < i => readbacks'[y] = readbacks[y]
      BY <3>3
    <3> QED
      BY <2>5, <3>1, <3>2, <3>4
  <2> QED
    BY <2>4, <2>5
<1>5. KnowsLast(screen', updates', readbacks', versions')
  <2>1. ASSUME NEW x \in Writes, versions[Len(versions)] = <<"other", x>>, readbacks'[x].at \in ToldOf,
               ~readbacks'[x].crossed
        PROVE  /\ readbacks'[x].at = "done" /\ readbacks'[x].revision = screen.revision =>
                    screen.known = Len(versions)
               /\ readbacks'[x].revision < screen.revision /\ NonePending(updates) /\ screen.status = "applied"
                    => screen.known = Len(versions)
    <3>1. CASE x = w
      <4>1. readbacks[w].at \in ToldOf /\ ~readbacks[w].crossed =>
               (readbacks[w].revision < screen.revision /\ NonePending(updates) /\ screen.status = "applied"
                    => screen.known = Len(versions))
        BY <2>1, <3>1 DEF SettingsInv, KnowsLast
      <4> QED
        BY <2>1, <3>1, <4>1
    <3>2. CASE x # w
      <4>1. readbacks'[x] = readbacks[x]
        BY <3>2
      <4> QED
        BY <2>1, <4>1 DEF SettingsInv, KnowsLast
    <3> QED
      BY <3>1, <3>2
  <2>2. \A u \in Updates :
        versions[Len(versions)] = <<"user", u>> /\ updates[u].at = "done" /\ updates[u].answer = "ok" =>
            /\ screen.known = Len(versions)
            /\ \A j \in Updates : updates[j].at \in Asks =>
                  updates[j].at = "write" /\ updates[j].expected = Len(versions)
                  /\ updates[j].answer \in {"none", "error"}
    BY DEF SettingsInv, KnowsLast
  <2> QED
    BY <2>1, <2>2 DEF KnowsLast
<1> QED
  BY <1>1, <1>3, <1>4, <1>5 DEF SettingsInv

\* The page is told, and reads.
LEMMA ToldInv ==
  ASSUME SettingsInv, NEW w \in Writes, Told(w)
  PROVE  SettingsInv'
<1>1. /\ screen \in ScreenRecord /\ readbacks \in [Writes -> ReadbackRecord]
      /\ UNCHANGED <<screen, updates, versions>> /\ readbacks[w].at = "unread"
  BY DEF SettingsInv, SettingsTypes, Told
<1>2. screen.revision \in Nat /\ readbacks[w].revision <= screen.revision
  BY <1>1 DEF ScreenRecord, SettingsInv, ReadsOn
<1>3. PICK b \in BOOLEAN : b = (PendingUpdates # {})
  OBVIOUS
<1>4. CASE readbacks' = [readbacks EXCEPT ![w].at = "reading", ![w].revision = screen.revision,
                                            ![w].crossed = PendingUpdates # {}]
  <2>1. /\ readbacks' \in [Writes -> ReadbackRecord]
        /\ \A x \in Writes : x # w => readbacks'[x] = readbacks[x]
        /\ readbacks'[w].at = "reading" /\ readbacks'[w].revision = screen.revision
        /\ readbacks'[w].crossed = b
    <3>1. readbacks' = [readbacks EXCEPT ![w].at = "reading", ![w].revision = screen.revision,
                                            ![w].crossed = b]
      BY <1>3, <1>4
    <3>2. PICK old \in ReadbackRecord : old = readbacks[w]
      BY <1>1
    <3> DEFINE new == [old EXCEPT !.at = "reading", !.revision = screen.revision, !.crossed = b]
    <3>3. readbacks' = [readbacks EXCEPT ![w] = new]
      BY <3>1, <3>2
    <3>4. new \in ReadbackRecord /\ new.at = "reading" /\ new.revision = screen.revision /\ new.crossed = b
      BY <1>2 DEF ReadbackRecord
    <3> HIDE DEF new
    <3> QED
      BY <1>1, <3>3, <3>4
  <2>2. ~readbacks'[w].crossed => \A j \in Updates : j <= screen.revision => updates[j].at = "done"
    <3> SUFFICES ASSUME ~readbacks'[w].crossed, NEW j \in Updates, j <= screen.revision
                 PROVE  updates[j].at = "done"
      OBVIOUS
    <3>1. PendingUpdates = {}
      BY <1>3, <2>1
    <3>2. updates[j].at # "idle"
      BY DEF SettingsInv, Numbered
    <3> QED
      BY <3>1, <3>2 DEF PendingUpdates
  <2>3. screen.revision <= screen.revision /\ ~(screen.revision < screen.revision)
    BY <1>2
  <2> QED
    BY <1>1, <2>1, <2>2, <2>3, ReadbackFrame
<1>5. CASE readbacks' = [readbacks EXCEPT ![w].at = "lost"]
  <2>1. /\ readbacks' \in [Writes -> ReadbackRecord]
        /\ \A x \in Writes : x # w => readbacks'[x] = readbacks[x]
        /\ readbacks'[w].at = "lost" /\ readbacks'[w].revision = readbacks[w].revision
    BY <1>1, <1>5 DEF ReadbackRecord
  <2> QED
    BY <1>1, <1>2, <2>1, ReadbackFrame DEF ToldOf
<1> QED
  BY <1>4, <1>5 DEF Told

\* The page reads the last version, or has to read again.
LEMMA ReadBackInv ==
  ASSUME SettingsInv, NEW w \in Writes, ReadBack(w)
  PROVE  SettingsInv'
<1>1. /\ screen \in ScreenRecord /\ readbacks \in [Writes -> ReadbackRecord]
      /\ UNCHANGED <<screen, updates, versions>> /\ readbacks[w].at = "reading"
  BY DEF SettingsInv, SettingsTypes, ReadBack
<1>2. readbacks[w].revision <= screen.revision
  BY <1>1 DEF SettingsInv, ReadsOn
<1>3. PICK n \in Nat : n = Len(versions)
  BY LastVersion DEF SettingsInv
<1>4. CASE readbacks' = [readbacks EXCEPT ![w].at = "read", ![w].version = Len(versions)]
  <2>1. /\ readbacks' \in [Writes -> ReadbackRecord]
        /\ \A x \in Writes : x # w => readbacks'[x] = readbacks[x]
        /\ readbacks'[w].at = "read" /\ readbacks'[w].revision = readbacks[w].revision
        /\ readbacks'[w].crossed = readbacks[w].crossed /\ readbacks'[w].version = n
    BY <1>1, <1>3, <1>4 DEF ReadbackRecord
  <2>2. ~readbacks[w].crossed => \A j \in Updates : j <= readbacks[w].revision => updates[j].at = "done"
    BY <1>1 DEF SettingsInv, ReadsOn, ToldOf
  <2> QED
    BY <1>1, <1>2, <1>3, <2>1, <2>2, ReadbackFrame DEF ToldOf
<1>5. CASE \E place \in {"unread", "lost"} : readbacks' = [readbacks EXCEPT ![w].at = place]
  <2>1. /\ readbacks' \in [Writes -> ReadbackRecord]
        /\ \A x \in Writes : x # w => readbacks'[x] = readbacks[x]
        /\ readbacks'[w].at \in {"unread", "lost"} /\ readbacks'[w].revision = readbacks[w].revision
    BY <1>1, <1>5 DEF ReadbackRecord
  <2> QED
    BY <1>1, <1>2, <2>1, ReadbackFrame DEF ToldOf
<1> QED
  BY <1>4, <1>5 DEF ReadBack

\* What was read is shown, or ignored.
LEMMA ReadBackDoneInv ==
  ASSUME SettingsInv, NEW w \in Writes, ReadBackDone(w)
  PROVE  SettingsInv'
<1>1. /\ screen \in ScreenRecord /\ readbacks \in [Writes -> ReadbackRecord]
      /\ UNCHANGED <<updates, versions>> /\ readbacks[w].at = "read"
  BY DEF SettingsInv, SettingsTypes, ReadBackDone
<1>2. /\ Len(versions) \in Nat /\ Len(versions) >= 1 /\ screen.revision \in Nat /\ screen.known \in Nat
      /\ readbacks[w].revision <= screen.revision /\ readbacks[w].revision \in Nat
      /\ screen.known <= Len(versions)
  BY <1>1, LastVersion DEF SettingsInv, ReadsOn, ShowsKnown, ScreenRecord, ReadbackRecord
<1>3. /\ readbacks' \in [Writes -> ReadbackRecord]
      /\ \A x \in Writes : x # w => readbacks'[x] = readbacks[x]
      /\ readbacks'[w].at = "done" /\ readbacks'[w].revision = readbacks[w].revision
      /\ readbacks'[w].crossed = readbacks[w].crossed
  BY <1>1 DEF ReadBackDone, ReadbackRecord
<1>4. /\ readbacks[w].version \in 1 .. Len(versions)
      /\ \A i \in 1 .. Len(versions) : versions[i] = <<"other", w>> => i <= readbacks[w].version
  BY <1>1 DEF SettingsInv, ReadsOn
<1>5. Len(versions) \in 1 .. Len(versions)
  BY <1>2
<1>6. \A x \in Writes : readbacks'[x].at \in ToldOf =>
            readbacks[x].at \in ToldOf /\ readbacks'[x].revision = readbacks[x].revision
            /\ readbacks'[x].crossed = readbacks[x].crossed
  BY <1>1, <1>3 DEF ToldOf
<1>7. ASSUME NEW x \in Writes, versions[Len(versions)] = <<"other", x>>, readbacks[x].at \in ToldOf,
             ~readbacks[x].crossed
      PROVE  /\ readbacks[w].version < Len(versions) => readbacks[w].revision <= readbacks[x].revision
             /\ x = w => readbacks[w].version = Len(versions)
  BY <1>1, <1>2, <1>4, <1>5, <1>7 DEF SettingsInv, InTurn
<1>8. CASE ~Shows(w)
  <2>1. screen' = screen
    BY <1>8 DEF ReadBackDone
  <2>2. ~readbacks[w].crossed => \A j \in Updates : j <= readbacks[w].revision => updates[j].at = "done"
    BY <1>1 DEF SettingsInv, ReadsOn, ToldOf
  <2>3. ~readbacks[w].crossed /\ versions[Len(versions)] = <<"other", w>> /\ readbacks[w].revision = screen.revision
            => screen.known = Len(versions)
    <3> SUFFICES ASSUME ~readbacks[w].crossed, versions[Len(versions)] = <<"other", w>>,
                        readbacks[w].revision = screen.revision
                 PROVE  FALSE
      OBVIOUS
    <3>1. readbacks[w].version = Len(versions)
      BY <1>1, <1>7 DEF ToldOf
    <3> QED
      BY <1>2, <1>8, <3>1 DEF Shows
  <2> QED
    BY <1>1, <1>2, <1>3, <2>1, <2>2, <2>3, ReadbackFrame DEF ToldOf
<1>9. CASE Shows(w)
  <2>1. PICK v \in 1 .. Len(versions), c \in Writer : v = readbacks[w].version /\ c = versions[v]
    BY <1>4, LastVersion DEF SettingsInv
  <2>2. screen' = [screen EXCEPT !.shown = c, !.applied = c, !.status = "applied", !.known = v]
    BY <1>9, <2>1 DEF ReadBackDone
  <2>3. /\ screen' \in ScreenRecord /\ screen'.revision = screen.revision /\ screen'.known = v
        /\ screen'.status = "applied" /\ screen'.shown = versions[v]
    <3>1. v \in Nat
      BY <1>2
    <3> QED
      BY <1>1, <2>1, <2>2, <3>1 DEF ScreenRecord
  <2>4. readbacks[w].revision = screen.revision /\ v >= screen.known
    BY <1>9, <2>1 DEF Shows
  <2>5. SettingsTypes'
    BY <1>1, <1>3, <2>3 DEF SettingsInv, SettingsTypes
  <2>6. Numbered(screen', updates') /\ Wrote(updates', versions')
    BY <1>1, <2>3 DEF SettingsInv, Numbered
  <2>7. ShowsKnown(screen', updates', versions')
    <3>1. v <= Len(versions) /\ v # Unknown
      BY <1>2 DEF Unknown
    <3> QED
      BY <1>1, <2>3, <3>1 DEF ShowsKnown
  <2>8. ReadsOn(screen', updates', readbacks', versions')
    <3> SUFFICES ASSUME NEW x \in Writes
                 PROVE  ReadsOn(screen', updates', readbacks', versions')!(x)
      BY DEF ReadsOn
    <3>1. CASE x = w
      <4>1. ~readbacks[w].crossed => \A j \in Updates : j <= readbacks[w].revision => updates[j].at = "done"
        BY <1>1 DEF SettingsInv, ReadsOn, ToldOf
      <4> QED
        BY <1>1, <1>2, <1>3, <2>3, <3>1, <4>1
    <3>2. CASE x # w
      <4>1. readbacks'[x] = readbacks[x]
        BY <1>3, <3>2
      <4> QED
        BY <1>1, <2>3, <4>1 DEF SettingsInv, ReadsOn
    <3> QED
      BY <3>1, <3>2
  <2>9. InTurn(readbacks', versions')
    <3> SUFFICES ASSUME NEW x \in Writes, NEW i \in 1 .. Len(versions),
                        readbacks'[x].at \in ToldOf, versions[i] = <<"other", x>>
                 PROVE  /\ \A j \in Updates, k \in 1 .. Len(versions) :
                              versions[k] = <<"user", j>> /\ j > readbacks'[x].revision => i < k
                        /\ \A y \in Writes : readbacks'[y].at = "read" /\ readbacks'[y].version < i
                              => readbacks'[y].revision <= readbacks'[x].revision
      BY <1>1 DEF InTurn
    <3>1. readbacks[x].at \in ToldOf /\ readbacks'[x].revision = readbacks[x].revision
      BY <1>6
    <3>2. \A y \in Writes : readbacks'[y].at = "read" => readbacks'[y] = readbacks[y]
      BY <1>3
    <3> QED
      BY <3>1, <3>2 DEF SettingsInv, InTurn
  <2>10. ASSUME NEW x \in Writes, versions[Len(versions)] = <<"other", x>>, readbacks'[x].at \in ToldOf,
                ~readbacks'[x].crossed
         PROVE  /\ readbacks'[x].at = "done" /\ readbacks'[x].revision = screen.revision => v = Len(versions)
                /\ readbacks'[x].revision < screen.revision => v = Len(versions)
    <3>1. /\ readbacks[x].at \in ToldOf /\ readbacks'[x].revision = readbacks[x].revision
          /\ ~readbacks[x].crossed
      BY <1>6, <2>10
    <3>2. CASE v = Len(versions)
      BY <3>2
    <3>3. CASE v # Len(versions)
      <4>1. v < Len(versions) /\ x # w
        BY <1>2, <1>7, <2>1, <2>10, <3>1, <3>3
      <4>2. screen.revision <= readbacks[x].revision
        BY <1>7, <2>1, <2>4, <2>10, <3>1, <4>1
      <4>3. readbacks[x].revision <= screen.revision /\ readbacks[x].revision \in Nat
        BY <1>1 DEF SettingsInv, ReadsOn, ReadbackRecord
      <4>4. readbacks[x].revision = screen.revision
        BY <1>2, <4>2, <4>3
      <4>5. readbacks[x].at # "done"
        <5>1. readbacks[x].at = "done" => screen.known = Len(versions)
          BY <2>10, <3>1, <4>4 DEF SettingsInv, KnowsLast
        <5> QED
          BY <1>2, <2>4, <4>1, <5>1
      <4>6. readbacks'[x].at # "done"
        BY <1>3, <4>1, <4>5
      <4> QED
        BY <1>2, <3>1, <4>4, <4>6
    <3> QED
      BY <3>2, <3>3
  <2>11. ASSUME NEW u \in Updates, versions[Len(versions)] = <<"user", u>>, updates[u].at = "done",
                updates[u].answer = "ok"
         PROVE  /\ v = Len(versions)
                /\ \A j \in Updates : updates[j].at \in Asks =>
                     updates[j].at = "write" /\ updates[j].expected = Len(versions)
                     /\ updates[j].answer \in {"none", "error"}
    <3>1. screen.known = Len(versions)
      BY <2>11 DEF SettingsInv, KnowsLast
    <3>2. v = Len(versions)
      BY <1>2, <2>4, <3>1
    <3> QED
      BY <2>11, <3>2 DEF SettingsInv, KnowsLast
  <2>12. KnowsLast(screen', updates', readbacks', versions')
    BY <1>1, <2>3, <2>10, <2>11 DEF KnowsLast
  <2> QED
    BY <2>5, <2>6, <2>7, <2>8, <2>9, <2>12 DEF SettingsInv
<1> QED
  BY <1>8, <1>9

\* Every step keeps the invariant.
LEMMA SettingsInvStep == SettingsInv /\ [SettingsNext]_settingsVars => SettingsInv'
<1> SUFFICES ASSUME SettingsInv, [SettingsNext]_settingsVars
             PROVE  SettingsInv'
  OBVIOUS
<1>1. CASE UNCHANGED settingsVars
  BY <1>1 DEF settingsVars, SettingsInv, SettingsTypes
<1>2. CASE SettingsNext
  BY <1>2, UpdateConfigInv, RunUpdateInv, ServeConfigInv, ContinueConfigInv, OtherWriteInv, ToldInv, ReadBackInv,
     ReadBackDoneInv DEF SettingsNext
<1> QED
  BY <1>1, <1>2

\* The invariant holds in every reachable state.
LEMMA SettingsInvHolds == SettingsSpec => []SettingsInv
<1> QED
  BY SettingsInvInit, SettingsInvStep, PTL DEF SettingsSpec

\* A quiet page that says "applied" knows the last version, unless it was not told.
LEMMA QuietKnowsLast ==
  ASSUME SettingsInv, ConfigQuiet, screen.status = "applied", ~Untold
  PROVE  screen.known = Len(versions)
<1>1. NonePending(updates)
  BY DEF ConfigQuiet, PendingUpdates, NonePending
<1>2. /\ Len(versions) \in Nat /\ Len(versions) >= 1 /\ screen.known \in Nat
      /\ screen.revision \in Nat /\ versions[Len(versions)] \in Writer
      /\ Len(versions) \in 1 .. Len(versions)
  BY LastVersion DEF SettingsInv, SettingsTypes, ScreenRecord
<1>3. screen.known >= 1 /\ screen.known <= Len(versions) /\ screen.shown = versions[screen.known]
  BY <1>1, <1>2 DEF SettingsInv, ShowsKnown, Unknown
<1>4. ASSUME NEW w \in Writes, versions[Len(versions)] = <<"other", w>>
      PROVE  screen.known = Len(versions)
  <2>1. readbacks[w].at # "none"
    BY <1>2, <1>4 DEF SettingsInv, ReadsOn
  <2>2. readbacks[w].at \notin {"unread", "lost"} /\ ~readbacks[w].crossed
    BY <1>4 DEF Untold
  <2>3. readbacks[w].at = "done"
    <3>1. readbacks[w].at \in {"none", "unread", "reading", "read", "lost", "done"}
      BY DEF SettingsInv, SettingsTypes, ReadbackRecord
    <3> QED
      BY <2>1, <2>2, <3>1 DEF ConfigQuiet
  <2>4. readbacks[w].revision <= screen.revision /\ readbacks[w].revision \in Nat
    BY DEF SettingsInv, ReadsOn, SettingsTypes, ReadbackRecord
  <2>5. readbacks[w].revision = screen.revision => screen.known = Len(versions)
    BY <1>4, <2>2, <2>3 DEF SettingsInv, KnowsLast, ToldOf
  <2>6. readbacks[w].revision < screen.revision => screen.known = Len(versions)
    BY <1>1, <1>4, <2>2, <2>3 DEF SettingsInv, KnowsLast, ToldOf
  <2> QED
    BY <1>2, <2>4, <2>5, <2>6
<1>5. ASSUME NEW u \in Updates, versions[Len(versions)] = <<"user", u>>
      PROVE  screen.known = Len(versions)
  <2>1. updates[u].at \in Posts \cup {"done"} /\ updates[u].answer \in {"ok", "lost"}
    BY <1>2, <1>5 DEF SettingsInv, Wrote
  <2>2. updates[u].at = "done"
    BY <1>1, <2>1 DEF NonePending, Posts
  <2>3. updates[u].answer = "ok"
    BY <1>5, <2>1 DEF Untold
  <2> QED
    BY <1>5, <2>2, <2>3 DEF SettingsInv, KnowsLast
<1>6. ASSUME versions[Len(versions)] = <<"start">>
      PROVE  screen.known = Len(versions)
  <2>1. 1 \in 1 .. Len(versions) /\ versions[1] = <<"start">>
    BY <1>2 DEF SettingsInv, SettingsTypes
  <2>2. Len(versions) = 1
    BY <1>2, <1>6, <2>1 DEF SettingsInv, Wrote
  <2> QED
    BY <1>2, <1>3, <2>2
<1> QED
  BY <1>2, <1>4, <1>5, <1>6 DEF Writer

(* When nothing is under way and the page says "applied", it shows the current  *)
(* version: one update runs at a time and numbers its posts by the version it   *)
(* knows, a version read back is shown only at the revision it was asked at and *)
(* if no newer one is known (use-voice-session.ts:501-598, 717-741, 1223-1259). *)
THEOREM ShownCurrentHolds == SettingsSpec => []ShownCurrent
<1>1. SettingsInv => ShownCurrent
  <2> SUFFICES ASSUME SettingsInv, ConfigQuiet, screen.status = "applied", ~Untold
               PROVE  screen.shown = versions[Len(versions)]
    BY DEF ShownCurrent
  <2>1. screen.known = Len(versions)
    BY QuietKnowsLast
  <2>2. NonePending(updates)
    BY DEF ConfigQuiet, PendingUpdates, NonePending
  <2> QED
    BY <2>1, <2>2 DEF SettingsInv, ShowsKnown
<1> QED
  BY <1>1, SettingsInvHolds, PTL
=============================================================================
