------------------------------ MODULE Delivery ------------------------------
(***************************************************************************)
(* Message delivery of the API: use cases that create and retry messages,  *)
(* the outbox dispatcher, the broker, and the workers that hand attempts   *)
(* to a provider.                                                          *)
(*                                                                         *)
(* A transaction or a broker script is one step.  A worker is several      *)
(* steps: it reads the attempt, claims it, prepares the message, calls the *)
(* provider, records the outcome and settles the receipt, and it may crash *)
(* or stall between any two of them.                                       *)
(***************************************************************************)
EXTENDS Integers, FiniteSets

CONSTANTS
    Messages,     \* messages, each named by its idempotency key of creation
    Workers,      \* workers of all API processes
    Nothing,      \* "nothing"
    Idempotent,   \* the provider deduplicates by attempt id (production: FALSE)
    MaxAttempts,  \* bound: attempts of a message
    MaxCopies,    \* bound: publications of one attempt
    MaxTroubles   \* bound: crashes, stalls, failing dependencies

Attempts == Messages \X (1 .. MaxAttempts)
Entries == Attempts \X (1 .. MaxCopies)

ASSUME DeliveryAssumption ==
    /\ Idempotent \in BOOLEAN
    /\ MaxAttempts \in Nat \ {0} /\ MaxCopies \in Nat \ {0} /\ MaxTroubles \in Nat

VARIABLES
    message,   \* row of outbound_messages
    attempt,   \* row of delivery_attempts
    outbox,    \* row of delivery_outbox
    posting,   \* entry of the broker's stream
    worker,    \* where each worker is in Process, and what it read
    accepted,  \* how often the provider accepted an attempt
    troubles   \* faults so far

deliveryVars == <<message, attempt, outbox, posting, worker, accepted, troubles>>

Open == {"queued", "retrying"}
FinishedStatuses == {"sent", "failed"}
Outcomes == {"succeeded", "failed", "unknown"}
Places == {"idle", "read", "claim", "prepare", "reconcile", "send", "complete",
           "requeue", "ack", "nack"}

\* seen: what GetAttempt read; fresh: this worker took it from queued to
\* sending; receipt: the broker still knows the worker's receipt.
IdleWorker == [at |-> "idle", entry |-> Nothing, receipt |-> FALSE, seen |-> Nothing,
         fresh |-> FALSE, outcome |-> Nothing]

DeliveryTypeOK ==
    /\ message \in [Messages -> [status : {"none"} \cup Open \cup FinishedStatuses,
                                 attempts : 0 .. MaxAttempts, unknown : BOOLEAN]]
    /\ attempt \in [Attempts -> [status : {"none", "queued", "sending", "succeeded", "failed"},
                                 claims : 0 .. MaxTroubles + 1, stale : BOOLEAN]]
    /\ outbox \in [Attempts -> {"none", "pending", "published"}]
    /\ posting \in [Entries -> {"none", "ready", "pending", "acked"}]
    /\ \A w \in Workers :
        /\ worker[w].at \in Places
        /\ worker[w].entry \in Entries \cup {Nothing}
        /\ worker[w].receipt \in BOOLEAN /\ worker[w].fresh \in BOOLEAN
        /\ worker[w].outcome \in Outcomes \cup {Nothing}
    /\ accepted \in [Attempts -> 0 .. MaxTroubles + 1]
    /\ troubles \in 0 .. MaxTroubles

DeliveryInit ==
    /\ message = [m \in Messages |-> [status |-> "none", attempts |-> 0, unknown |-> FALSE]]
    /\ attempt = [a \in Attempts |-> [status |-> "none", claims |-> 0, stale |-> FALSE]]
    /\ outbox = [a \in Attempts |-> "none"]
    /\ posting = [e \in Entries |-> "none"]
    /\ worker = [w \in Workers |-> IdleWorker]
    /\ accepted = [a \in Attempts |-> 0]
    /\ troubles = 0

Trouble == troubles < MaxTroubles /\ troubles' = troubles + 1
AttemptOf(w) == worker[w].entry[1]

-----------------------------------------------------------------------------
\* Use cases.

NewAttempt(m, n) ==
    /\ attempt' = [attempt EXCEPT ![<<m, n>>].status = "queued"]
    /\ outbox' = [outbox EXCEPT ![<<m, n>>] = "pending"]
    /\ UNCHANGED <<posting, worker, accepted, troubles>>

\* Create: message, first attempt and outbox row in one transaction.  A
\* repeated request finds the message by its key and changes nothing.
Create(m) ==
    /\ message[m].status = "none"
    /\ message' = [message EXCEPT ![m] = [@ EXCEPT !.status = "queued", !.attempts = 1]]
    /\ NewAttempt(m, 1)

\* A failed message may be tried again, unless its acceptance is unknown.
Retryable(m) == message[m].status = "failed" /\ ~message[m].unknown

CreateRetry(m) ==
    LET n == message[m].attempts + 1 IN
    /\ Retryable(m) /\ n <= MaxAttempts
    /\ message' = [message EXCEPT ![m] = [@ EXCEPT !.status = "retrying", !.attempts = n]]
    /\ NewAttempt(m, n)

-----------------------------------------------------------------------------
\* OutboxDispatcher: an attempt is published before its row is marked; a row
\* that stays unmarked, or that two dispatchers claim, is published again.

DispatchOutbox(a) ==
    /\ outbox[a] = "pending"
    /\ \E k \in 1 .. MaxCopies :
        /\ posting[<<a, k>>] = "none"
        /\ posting' = [posting EXCEPT ![<<a, k>>] = "ready"]
    /\ \/ outbox' = [outbox EXCEPT ![a] = "published"] /\ UNCHANGED troubles
       \/ UNCHANGED outbox /\ Trouble /\ \E k \in 1 .. MaxCopies : posting'[<<a, k>>] = "none"
    /\ UNCHANGED <<message, attempt, worker, accepted>>

-----------------------------------------------------------------------------
\* The broker.

Holders(e) == {w \in Workers : worker[w].entry = e /\ worker[w].receipt}

\* ValkeyQueue.Receive: a new or promoted entry, or a pending one that nobody
\* settled for a while.  Its worker is gone, or merely slow (a fault).
ReceiveEntry(w, e) ==
    /\ worker[w].at = "idle"
    /\ \/ posting[e] = "ready" /\ UNCHANGED troubles
       \/ posting[e] = "pending" /\ Holders(e) = {} /\ UNCHANGED troubles
       \/ posting[e] = "pending" /\ Holders(e) # {} /\ Trouble
    /\ posting' = [posting EXCEPT ![e] = "pending"]
    /\ worker' = [worker EXCEPT ![w] = [IdleWorker EXCEPT !.at = "read", !.entry = e,
                                                    !.receipt = TRUE]]
    /\ UNCHANGED <<message, attempt, outbox, accepted>>

WorkerGoes(w, place) == worker' = [worker EXCEPT ![w].at = place]
WorkerLeaves(w) == worker' = [worker EXCEPT ![w] = IdleWorker]

\* XACK: the entry leaves the pending list; an error may hide that it did.
AckEntry(w) ==
    LET e == worker[w].entry
        acked == [posting EXCEPT ![e] =
                    IF @ = "pending" /\ worker[w].receipt THEN "acked" ELSE @]
    IN
    /\ worker[w].at = "ack"
    /\ \/ posting' = acked /\ UNCHANGED troubles
       \/ posting' \in {acked, posting} /\ Trouble
    /\ WorkerLeaves(w)
    /\ UNCHANGED <<message, attempt, outbox, accepted>>

\* The script replaces the entry, acknowledged or not, by a delayed copy that
\* is promoted later; every receipt of the old entry is void.
Nack(w) ==
    LET e == worker[w].entry IN
    /\ worker[w].at = "nack"
    /\ \/ /\ worker[w].receipt
          /\ posting' = [posting EXCEPT ![e] = "ready"]
          /\ worker' = [v \in Workers |->
                IF v = w THEN IdleWorker
                ELSE IF worker[v].entry = e THEN [worker[v] EXCEPT !.receipt = FALSE]
                ELSE worker[v]]
          /\ UNCHANGED troubles
       \/ ~worker[w].receipt /\ WorkerLeaves(w) /\ UNCHANGED <<posting, troubles>>
       \/ WorkerLeaves(w) /\ UNCHANGED posting /\ Trouble
    /\ UNCHANGED <<message, attempt, outbox, accepted>>

-----------------------------------------------------------------------------
\* The worker's process of one receipt.

\* GetAttempt, before the claim; a terminal attempt only needs its ACK.
Read(w) ==
    LET a == AttemptOf(w) IN
    /\ worker[w].at = "read"
    /\ \/ /\ attempt[a].status \in {"succeeded", "failed"}
          /\ WorkerGoes(w, "ack") /\ UNCHANGED troubles
       \/ /\ attempt[a].status \in {"queued", "sending"}
          /\ worker' = [worker EXCEPT ![w].at = "claim", ![w].seen =
                            [status |-> attempt[a].status, claims |-> attempt[a].claims]]
          /\ UNCHANGED troubles
       \/ WorkerGoes(w, "nack") /\ Trouble
    /\ UNCHANGED <<message, attempt, outbox, posting, accepted>>

\* Whether the sending lease this worker read is still active: a row claimed
\* again since then has a later start than the one the worker compares.
LeaseActive(w) ==
    LET a == AttemptOf(w) IN
    IF attempt[a].status = "sending" /\ attempt[a].claims = worker[w].seen.claims
    THEN {~attempt[a].stale} ELSE BOOLEAN

\* Bug: a receipt of an attempt another worker is sending counts as a duplicate.
ClaimConflict_AcksActiveSender(w) ==
    \/ worker[w].seen.status = "queued" /\ WorkerGoes(w, "ack")
    \/ /\ worker[w].seen.status = "sending"
       /\ \E active \in LeaseActive(w) :
            IF active THEN WorkerGoes(w, "ack")
            ELSE worker' = [worker EXCEPT ![w].at = "complete", ![w].outcome = "unknown"]

\* handleClaimConflict decides by the status read before the claim.
ClaimConflict(w) ==
    \/ worker[w].seen.status = "queued" /\ WorkerGoes(w, "ack")
    \/ /\ worker[w].seen.status = "sending" /\ ~Idempotent
       /\ \E active \in LeaseActive(w) :
            IF active THEN WorkerGoes(w, "nack")
            ELSE worker' = [worker EXCEPT ![w].at = "complete", ![w].outcome = "unknown"]
    \/ worker[w].seen.status = "sending" /\ Idempotent /\ WorkerGoes(w, "prepare")

\* ClaimAttempt moves the row from queued to sending, or conflicts.
ClaimAttempt(w) ==
    LET a == AttemptOf(w) IN
    /\ worker[w].at = "claim"
    /\ \/ /\ attempt[a].status = "queued"
          /\ attempt' = [attempt EXCEPT ![a] =
                [status |-> "sending", claims |-> @.claims + 1, stale |-> FALSE]]
          /\ worker' = [worker EXCEPT ![w].at = "prepare",
                                      ![w].fresh = worker[w].seen.status = "queued"]
          /\ UNCHANGED troubles
       \/ attempt[a].status # "queued" /\ ClaimConflict(w) /\ UNCHANGED <<attempt, troubles>>
       \/ WorkerGoes(w, "nack") /\ Trouble /\ UNCHANGED attempt
    /\ UNCHANGED <<message, outbox, posting, accepted>>

\* deliver, up to the provider: the message and its destination are read.
PrepareMessage(w) ==
    LET m == AttemptOf(w)[1] IN
    /\ worker[w].at = "prepare"
    /\ \/ /\ message[m].status \in FinishedStatuses
          /\ worker' = [worker EXCEPT ![w].at = "reconcile", ![w].outcome =
                IF message[m].status = "sent" THEN "succeeded" ELSE "failed"]
          /\ UNCHANGED troubles
       \/ message[m].status \in Open /\ WorkerGoes(w, "send") /\ UNCHANGED troubles
       \/ /\ message[m].status \in Open  \* the destination is gone
          /\ worker' = [worker EXCEPT ![w].at = "complete", ![w].outcome = "failed"]
          /\ UNCHANGED troubles
       \/ WorkerGoes(w, IF worker[w].fresh THEN "requeue" ELSE "nack") /\ Trouble
    /\ UNCHANGED <<message, attempt, outbox, posting, accepted>>

\* SetAttemptStatus copies the message's terminal state, whatever the row says.
ReconcileAttempt(w) ==
    /\ worker[w].at = "reconcile"
    /\ \/ /\ attempt' = [attempt EXCEPT ![AttemptOf(w)].status = worker[w].outcome]
          /\ WorkerGoes(w, "ack") /\ UNCHANGED troubles
       \/ UNCHANGED attempt /\ WorkerGoes(w, "nack") /\ Trouble
    /\ UNCHANGED <<message, outbox, posting, accepted>>

SendAnswer(w, outcome) == worker' = [worker EXCEPT ![w].at = "complete", ![w].outcome = outcome]

\* Bug: an error on the way requeues the attempt, as if nothing had been sent.
SendAttempt_RequeuesAmbiguous(w) ==
    /\ worker[w].at = "send"
    /\ \/ /\ accepted' = [accepted EXCEPT ![AttemptOf(w)] = @ + 1]
          /\ SendAnswer(w, "succeeded") /\ UNCHANGED troubles
       \/ /\ accepted' \in {accepted, [accepted EXCEPT ![AttemptOf(w)] = @ + 1]}
          /\ WorkerGoes(w, "requeue") /\ Trouble
    /\ UNCHANGED <<message, attempt, outbox, posting>>

\* Provider.Send: accepted, rejected, answered without knowing (SMTP after
\* DATA), failed on the way, or not configured.
SendAttempt(w) ==
    LET a == AttemptOf(w)
        Accepts == accepted' = [accepted EXCEPT ![a] = IF Idempotent THEN 1 ELSE @ + 1]
    IN
    /\ worker[w].at = "send"
    /\ \/ Accepts /\ SendAnswer(w, "succeeded") /\ UNCHANGED troubles
       \/ SendAnswer(w, "failed") /\ UNCHANGED <<accepted, troubles>>
       \/ (Accepts \/ UNCHANGED accepted) /\ SendAnswer(w, "unknown") /\ UNCHANGED troubles
       \/ (Accepts \/ UNCHANGED accepted) /\ WorkerGoes(w, "nack") /\ Trouble
       \/ UNCHANGED accepted /\ WorkerGoes(w, "requeue") /\ Trouble
    /\ UNCHANGED <<message, attempt, outbox, posting>>

\* CompleteAttempt: attempt and message in one transaction, and only while the
\* attempt is sending and the message open.
Recorded(w) ==
    LET a == AttemptOf(w)  m == a[1]  o == worker[w].outcome IN
    /\ attempt[a].status = "sending" /\ message[m].status \in Open
    /\ attempt' = [attempt EXCEPT ![a].status = IF o = "succeeded" THEN o ELSE "failed"]
    /\ message' = [message EXCEPT ![m] = [@ EXCEPT
            !.status = IF o = "succeeded" THEN "sent" ELSE "failed", !.unknown = o = "unknown"]]

CompleteSend(w) ==
    LET a == AttemptOf(w) IN
    /\ worker[w].at = "complete"
    /\ \/ Recorded(w) /\ WorkerGoes(w, "ack") /\ UNCHANGED troubles
       \/ /\ ~(attempt[a].status = "sending" /\ message[a[1]].status \in Open)
          /\ WorkerGoes(w, "nack") /\ UNCHANGED <<attempt, message, troubles>>
       \/ (Recorded(w) \/ UNCHANGED <<attempt, message>>) /\ WorkerGoes(w, "nack") /\ Trouble
    /\ UNCHANGED <<outbox, posting, accepted>>

\* retryBeforeProvider: RequeueAttempt is guarded by the status, not by the owner.
Requeue(w) ==
    LET a == AttemptOf(w) IN
    /\ worker[w].at = "requeue"
    /\ \/ /\ attempt' = [attempt EXCEPT ![a] =
                IF @.status = "sending" THEN [@ EXCEPT !.status = "queued", !.stale = FALSE] ELSE @]
          /\ UNCHANGED troubles
       \/ UNCHANGED attempt /\ Trouble
    /\ WorkerGoes(w, "nack")
    /\ UNCHANGED <<message, outbox, posting, accepted>>

\* The process of a worker ends: its receipt stays pending.
WorkerCrash(w) ==
    /\ worker[w].at # "idle"
    /\ Trouble /\ WorkerLeaves(w)
    /\ UNCHANGED <<message, attempt, outbox, posting, accepted>>

\* Five minutes pass on a sending row; a fault while its owner still works.
SendLeaseExpires(a) ==
    /\ attempt[a].status = "sending" /\ ~attempt[a].stale
    /\ attempt' = [attempt EXCEPT ![a].stale = TRUE]
    /\ IF \E w \in Workers : worker[w].entry # Nothing /\ AttemptOf(w) = a
                             /\ worker[w].at \in {"prepare", "send", "complete", "requeue"}
       THEN Trouble ELSE UNCHANGED troubles
    /\ UNCHANGED <<message, outbox, posting, worker, accepted>>

-----------------------------------------------------------------------------
DeliveryWorkerStep(w) ==
    \/ \E e \in Entries : ReceiveEntry(w, e)
    \/ Read(w) \/ ClaimAttempt(w) \/ PrepareMessage(w) \/ ReconcileAttempt(w) \/ SendAttempt(w)
    \/ CompleteSend(w) \/ Requeue(w) \/ AckEntry(w) \/ Nack(w)

DeliveryNext ==
    \/ \E m \in Messages : Create(m) \/ CreateRetry(m)
    \/ \E a \in Attempts : DispatchOutbox(a) \/ SendLeaseExpires(a)
    \/ \E w \in Workers : DeliveryWorkerStep(w) \/ WorkerCrash(w)

\* Dispatcher and workers are supervised loops; leases run out by themselves.
DeliveryFairness ==
    /\ \A a \in Attempts : WF_deliveryVars(DispatchOutbox(a)) /\ WF_deliveryVars(SendLeaseExpires(a))
    /\ \A w \in Workers : WF_deliveryVars(DeliveryWorkerStep(w))

DeliverySpec == DeliveryInit /\ [][DeliveryNext]_deliveryVars /\ DeliveryFairness

-----------------------------------------------------------------------------
\* A message reaches its recipient at most once over all its attempts,
\* redeliveries, lost acknowledgements, crashes and retries (worker.go:121,
\* 231; no provider of the ChannelRouter deduplicates).
AtMostOnce ==
    \A m \in Messages : \A n, k \in 1 .. MaxAttempts :
        /\ accepted[<<m, n>>] <= 1
        /\ n # k => accepted[<<m, n>>] = 0 \/ accepted[<<m, k>>] = 0

\* With one fault at most, a message is settled whatever the fault was: no
\* attempt stays in sending, no receipt is lost (worker.go:121, 197).
MessageSettles ==
    \A m \in Messages : message[m].status \in Open ~> (message[m].status \in FinishedStatuses \/ troubles > 1)
=============================================================================
