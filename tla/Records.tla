------------------------------ MODULE Records ------------------------------
(***************************************************************************)
(* Final turns of a session on their way into the records: the outbox      *)
(* the realtime process appends to, the workers that store a turn and      *)
(* schedule its delivery, the attribution tasks a stored turn leaves, the  *)
(* workers that resolve its speaker, and the corrections of the API.       *)
(*                                                                         *)
(* Both queues are tables leased for a minute by receipts.  A receipt is   *)
(* modelled by the number of claims of its row, which every claim raises.  *)
(***************************************************************************)
EXTENDS Integers, FiniteSets

CONSTANTS
    FinalTurns,     \* final turns of the session, each with its event
    SpeakerKeys,    \* speaker keys of the recognition provider
    RecordWorkers,  \* loops of all API processes that drain the two queues
    NoRecord,       \* "nothing"
    MaxTries,       \* claims after which a failing row is given up (code: 8)
    MaxSpeakers,    \* bound: participants of the session
    MaxIncidents    \* bound: crashes, stalls, failing dependencies

Queues == {"turn", "task"}
Speakers == 1 .. MaxSpeakers

ASSUME RecordsAssumption ==
    /\ IsFiniteSet(SpeakerKeys) /\ NoRecord \notin SpeakerKeys
    /\ MaxSpeakers \in Nat /\ MaxSpeakers >= Cardinality(SpeakerKeys)
    /\ MaxTries \in Nat \ {0} /\ MaxIncidents \in Nat

VARIABLES
    heard,      \* the provider's speaker key in the event of each turn
    row,        \* rows of final_turn_outbox and attribution_tasks
    kept,       \* row of voice_turns: status of attribution and participant
    scheduled,  \* turns whose delivery is scheduled
    speaker,    \* provider key of each row of voice_session_participants
    loop,       \* where each worker is, and what it holds
    asked,      \* participant of the latest explicit correction
    incidents   \* incidents so far

recordVars == <<heard, row, kept, scheduled, speaker, loop, asked, incidents>>

RestingLoop == [at |-> "receive", queue |-> NoRecord, turn |-> NoRecord, receipt |-> 0,
            participant |-> 0]

RecordsInit ==
    /\ heard \in [FinalTurns -> SpeakerKeys \cup {NoRecord}]
    /\ row = [q \in Queues |->
                [t \in FinalTurns |-> [status |-> "none", attempts |-> 0, expired |-> FALSE]]]
    /\ kept = [t \in FinalTurns |-> [status |-> "none", participant |-> 0]]
    /\ scheduled = {}
    /\ speaker = [s \in {} |-> NoRecord]
    /\ loop = [w \in RecordWorkers |-> RestingLoop]
    /\ asked = [t \in FinalTurns |-> 0]
    /\ incidents = 0

Incident == incidents < MaxIncidents /\ incidents' = incidents + 1
Moves(w, place) == loop' = [loop EXCEPT ![w].at = place]
Rests(w) == loop' = [loop EXCEPT ![w] = RestingLoop]

\* A failed item is tried again until its claims run out.
GivesBack(w) == Moves(w, IF loop[w].receipt >= MaxTries THEN "reject" ELSE "nack")

-----------------------------------------------------------------------------
\* The leased queues.

AppendFinal(t) ==
    /\ row["turn"][t].status = "none"
    /\ row' = [row EXCEPT !["turn"][t].status = "pending"]
    /\ UNCHANGED <<heard, kept, scheduled, speaker, loop, asked, incidents>>

\* Bug: a lease that expired is never taken over.
Claimable_PendingOnly(r) == r.status = "pending"
Claimable(r) == r.status = "pending" \/ (r.status = "processing" /\ r.expired)

\* The claim with SKIP LOCKED: one row, a new receipt, one more attempt.
ReceiveRow(w, q, t) ==
    LET n == row[q][t].attempts + 1 IN
    /\ loop[w].at = "receive"
    /\ Claimable(row[q][t])
    /\ row' = [row EXCEPT ![q][t] = [status |-> "processing", attempts |-> n, expired |-> FALSE]]
    /\ loop' = [loop EXCEPT ![w] = [at |-> IF q = "turn" THEN "store" ELSE "resolve",
                                    queue |-> q, turn |-> t, receipt |-> n, participant |-> 0]]
    /\ UNCHANGED <<heard, kept, scheduled, speaker, asked, incidents>>

Outcome == [ack |-> "done", nack |-> "pending", reject |-> "rejected"]

\* A settlement counts while its receipt is the row's; a stale one is ignored.
\* After an error, settled or not, the supervisor starts the loop anew.
SettleRow(w) ==
    LET q == loop[w].queue  t == loop[w].turn
        settled == IF row[q][t].status = "processing" /\ row[q][t].attempts = loop[w].receipt
                   THEN [row EXCEPT ![q][t] = [@ EXCEPT !.status = Outcome[loop[w].at],
                                                        !.expired = FALSE]]
                   ELSE row
    IN
    /\ loop[w].at \in DOMAIN Outcome
    /\ \/ row' = settled /\ UNCHANGED incidents
       \/ row' \in {settled, row} /\ Incident
    /\ Rests(w)
    /\ UNCHANGED <<heard, kept, scheduled, speaker, asked>>

-----------------------------------------------------------------------------
\* FinalTurnHandler: store the turn, schedule its delivery, then settle.

\* StoreFinalTurn inserts the turn once, and with it the attribution task of a
\* turn that has a speaker key; a replay of the same event changes nothing.
TurnStored(t) ==
    IF kept[t].status = "none"
    THEN /\ kept' = [kept EXCEPT ![t].status = "pending"]
         /\ row' = IF heard[t] = NoRecord THEN row ELSE [row EXCEPT !["task"][t].status = "pending"]
    ELSE UNCHANGED <<kept, row>>

StoreFinalTurn(w) ==
    /\ loop[w].at = "store"
    /\ \/ TurnStored(loop[w].turn) /\ Moves(w, "schedule") /\ UNCHANGED incidents
       \/ (TurnStored(loop[w].turn) \/ UNCHANGED <<kept, row>>) /\ GivesBack(w) /\ Incident
    /\ UNCHANGED <<heard, scheduled, speaker, asked>>

ScheduleFinalTurn(w) ==
    LET with == scheduled \cup {loop[w].turn} IN
    /\ loop[w].at = "schedule"
    /\ \/ scheduled' = with /\ Moves(w, "ack") /\ UNCHANGED incidents
       \/ scheduled' \in {scheduled, with} /\ GivesBack(w) /\ Incident
    /\ UNCHANGED <<heard, row, kept, speaker, asked>>

-----------------------------------------------------------------------------
\* AttributionWorker: read the turn, find its participant, apply the decision.

HandleAttribution(w) ==
    /\ loop[w].at = "resolve"
    /\ \/ Moves(w, IF kept[loop[w].turn].status = "pending" THEN "find" ELSE "ack")
          /\ UNCHANGED incidents
       \/ GivesBack(w) /\ Incident
    /\ UNCHANGED <<heard, row, kept, scheduled, speaker, asked>>

\* FindOrCreate, serialized per session: the participant that has the key, or
\* a new one whose number follows the count.
KnownSpeaker(k) == {s \in DOMAIN speaker : speaker[s] = k}
NextSpeaker == Cardinality(DOMAIN speaker) + 1
WithSpeaker(k) ==
    IF KnownSpeaker(k) # {} THEN speaker
    ELSE [s \in DOMAIN speaker \cup {NextSpeaker} |-> IF s \in DOMAIN speaker THEN speaker[s] ELSE k]

FindOrCreate(w) ==
    LET k == heard[loop[w].turn] IN
    /\ loop[w].at = "find"
    /\ \/ /\ speaker' = WithSpeaker(k)
          /\ loop' = [loop EXCEPT ![w].at = "apply",
                                  ![w].participant = CHOOSE s \in DOMAIN speaker' : speaker'[s] = k]
          /\ UNCHANGED incidents
       \/ speaker' \in {speaker, WithSpeaker(k)} /\ GivesBack(w) /\ Incident
    /\ UNCHANGED <<heard, row, kept, scheduled, asked>>

\* Bug: the asynchronous decision is applied to whatever the turn is now.
Attributed_Always(t, p) == kept' = [kept EXCEPT ![t] = [status |-> "resolved", participant |-> p]]

\* CorrectAttributionIfUnresolved; a turn resolved meanwhile is left alone.
Attributed(t, p) ==
    kept' = [kept EXCEPT ![t] =
        IF @.status = "pending" THEN [status |-> "resolved", participant |-> p] ELSE @]

Apply(w) ==
    /\ loop[w].at = "apply"
    /\ \/ Attributed(loop[w].turn, loop[w].participant) /\ Moves(w, "ack") /\ UNCHANGED incidents
       \/ /\ Attributed(loop[w].turn, loop[w].participant) \/ UNCHANGED kept
          /\ GivesBack(w) /\ Incident
    /\ UNCHANGED <<heard, row, scheduled, speaker, asked>>

-----------------------------------------------------------------------------
\* The API: an explicit correction, and a new key for a participant.

CorrectAttribution(t, p) ==
    /\ kept[t].status # "none" /\ p \in DOMAIN speaker
    /\ kept' = [kept EXCEPT ![t] = [status |-> "resolved", participant |-> p]]
    /\ asked' = [asked EXCEPT ![t] = p]
    /\ UNCHANGED <<heard, row, scheduled, speaker, loop, incidents>>

UpdateParticipant(p, k) ==
    /\ p \in DOMAIN speaker
    /\ k = NoRecord \/ KnownSpeaker(k) \subseteq {p}
    /\ speaker' = [speaker EXCEPT ![p] = k]
    /\ Cardinality(DOMAIN speaker)  \* bound: every key left without one fits
         + Cardinality(SpeakerKeys \ {speaker'[s] : s \in DOMAIN speaker}) <= MaxSpeakers
    /\ UNCHANGED <<heard, row, kept, scheduled, loop, asked, incidents>>

-----------------------------------------------------------------------------
\* A process ends: what it held stays leased until the lease runs out.
EndProcess(w) ==
    /\ loop[w].at # "receive"
    /\ Incident /\ Rests(w)
    /\ UNCHANGED <<heard, row, kept, scheduled, speaker, asked>>

\* A minute passes; an incident while the holder is still at work.
LeaseRunsOut(q, t) ==
    /\ row[q][t].status = "processing" /\ ~row[q][t].expired
    /\ row' = [row EXCEPT ![q][t].expired = TRUE]
    /\ IF \E w \in RecordWorkers : loop[w].queue = q /\ loop[w].turn = t
                                   /\ loop[w].receipt = row[q][t].attempts
       THEN Incident ELSE UNCHANGED incidents
    /\ UNCHANGED <<heard, kept, scheduled, speaker, loop, asked>>

-----------------------------------------------------------------------------
RecordWorkerStep(w) ==
    \/ \E q \in Queues, t \in FinalTurns : ReceiveRow(w, q, t)
    \/ StoreFinalTurn(w) \/ ScheduleFinalTurn(w)
    \/ HandleAttribution(w) \/ FindOrCreate(w) \/ Apply(w) \/ SettleRow(w)

RecordsNext ==
    \/ \E t \in FinalTurns : AppendFinal(t) \/ (\E q \in Queues : LeaseRunsOut(q, t))
    \/ \E t \in FinalTurns, p \in Speakers : CorrectAttribution(t, p)
    \/ \E p \in Speakers, k \in SpeakerKeys \cup {NoRecord} : UpdateParticipant(p, k)
    \/ \E w \in RecordWorkers : RecordWorkerStep(w) \/ EndProcess(w)

RecordsFairness ==
    /\ \A w \in RecordWorkers : WF_recordVars(RecordWorkerStep(w))
    /\ \A q \in Queues, t \in FinalTurns : WF_recordVars(LeaseRunsOut(q, t))

RecordsSpec == RecordsInit /\ [][RecordsNext]_recordVars /\ RecordsFairness

-----------------------------------------------------------------------------
\* An explicit correction of a turn's speaker stays until the next one: no
\* asynchronous decision, read before it or retried after it, overwrites it
\* (service.go:151, attribution_write.go:96).
CorrectionKept == \A t \in FinalTurns : asked[t] # 0 => kept[t].participant = asked[t]

\* Every appended turn is stored, scheduled and attributed, or given up with a
\* record of it, whatever crashes and stalls its workers meet
\* (final_turn_outbox.go:101, attribution_tasks.go:61).
TurnsRecorded ==
    \A t \in FinalTurns : row["turn"][t].status = "pending" ~>
        /\ \/ row["turn"][t].status = "done" /\ t \in scheduled
           \/ row["turn"][t].status = "rejected"
        /\ row["task"][t].status \in {"none", "done", "rejected"}
=============================================================================
