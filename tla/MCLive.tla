------------------------------- MODULE MCLive -------------------------------
(* What has to happen in the end: the lifecycle service with the realtime     *)
(* control plane, the delivery of messages, the queues behind the session     *)
(* records, the projection of mode events, the usage ledger, and the streams  *)
(* of the speech providers.  A behaviour is one of a single part, the others  *)
(* rest.                                                                      *)
EXTENDS SessionLifecycle, Delivery, Records, ModeSystem, UsageLedger, SpeechStreams

VARIABLE part

liveVars == <<part, vars, deliveryVars, recordVars, systemVars, ledgerVars, streamVars>>

LiveInit ==
    /\ part \in {"lifecycle", "delivery", "records", "modes", "usage", "hearing", "speaking"}
    /\ Init /\ DeliveryInit /\ RecordsInit /\ SystemInit /\ LedgerInit /\ StreamsInit
    /\ part # "records" => heard = [t \in FinalTurns |-> NoRecord]
    /\ part # "hearing" => ear.manual
    /\ part # "speaking" => voice.kind = "http"

InLifecycle(A) == part = "lifecycle" /\ A /\ UNCHANGED <<part, deliveryVars, recordVars, systemVars, ledgerVars, streamVars>>
InDelivery(A) == part = "delivery" /\ A /\ UNCHANGED <<part, vars, recordVars, systemVars, ledgerVars, streamVars>>
InRecords(A) == part = "records" /\ A /\ UNCHANGED <<part, vars, deliveryVars, systemVars, ledgerVars, streamVars>>
InModes(A) == part = "modes" /\ A /\ UNCHANGED <<part, vars, deliveryVars, recordVars, ledgerVars, streamVars>>
InUsage(A) == part = "usage" /\ A /\ UNCHANGED <<part, vars, deliveryVars, recordVars, systemVars, streamVars>>
InStreams(p, A) == part = p /\ A /\ UNCHANGED <<part, vars, deliveryVars, recordVars, systemVars, ledgerVars>>

\* The commands are spoken ones: what devices know has no part in the projection.
NoDevice == UNCHANGED <<view, retired, refreshed>>

LiveNext ==
    \/ InLifecycle(Next)
    \/ InDelivery(DeliveryNext)
    \/ InRecords(RecordsNext)
    \/ InModes(SystemNext /\ NoDevice)
    \/ InUsage(LedgerNext)
    \/ InStreams("hearing", EarNext)
    \/ InStreams("speaking", VoiceNext)

\* The fairness of FairSpec, DeliverySpec, RecordsSpec, LedgerSpec and StreamsSpec.
LiveFairness ==
    /\ \A r \in StartRequests : WF_liveVars(InLifecycle(StartStep(r)))
    /\ \A e \in EndRequests : WF_liveVars(InLifecycle(SaveIntent(e) \/ EndStep(e)))
    /\ \A i \in Instances : WF_liveVars(InLifecycle(WorkerStep(i)))
    /\ WF_liveVars(InLifecycle(RealtimeStep))
    /\ WF_liveVars(InLifecycle(LeaseExpiry))
    /\ \A a \in Attempts : /\ WF_liveVars(InDelivery(DispatchOutbox(a)))
                           /\ WF_liveVars(InDelivery(SendLeaseExpires(a)))
    /\ \A w \in Workers : WF_liveVars(InDelivery(DeliveryWorkerStep(w)))
    /\ \A w \in RecordWorkers : WF_liveVars(InRecords(RecordWorkerStep(w)))
    /\ \A q \in Queues, t \in FinalTurns : WF_liveVars(InRecords(LeaseRunsOut(q, t)))
    /\ \A w \in Ledgers : WF_liveVars(InUsage(LedgerStep(w)))
    /\ WF_liveVars(InStreams("hearing", EarStep))
    /\ WF_liveVars(InStreams("speaking", VoiceStep))
    /\ WF_liveVars(InStreams("speaking", VoiceTimesOut))

LiveSpec == LiveInit /\ [][LiveNext]_liveVars /\ LiveFairness
=============================================================================
