\* Lifecycle: both processes may crash and realtime may restart while an end is
\* carried out.  Delivery: two workers, two attempts, two publications of each, two
\* faults.  Records: a turn of which two workers may hold both rows, two speaker
\* keys, two incidents.  Modes: two runtimes, two spoken commands, two consumers, a
\* window of one result, a fault.  Usage: two facts, two consumers, two faults.
\* Streams: a channel of one partial and the final, one chunk, three messages.
CONSTANTS
    StartRequests = {r1}
    EndRequests = {e1}
    Instances = {i1, i2}
    Keys = {k1, k2}
    EndReason = user_requested
    OperatorCancelled = operator_cancelled
    None = None
    MaxFaults = 2
    RealtimeRestarts = TRUE
    Messages = {m1}
    Workers = {w1, w2}
    Nothing = Nothing
    Idempotent = FALSE
    MaxAttempts = 2
    MaxCopies = 2
    MaxTroubles = 2
    FinalTurns = {t1}
    SpeakerKeys = {s1, s2}
    RecordWorkers = {w1, w2}
    NoRecord = NoRecord
    MaxTries = 2
    MaxSpeakers = 3
    MaxIncidents = 2
    Ops = {v1, v2}
    VoiceOps = {v1, v2}
    Turns = {}
    Consumers = {c1, c2}
    Absent = Absent
    InitialMode = "assistant"
    Window = 1
    MaxInstances = 2
    MaxClock = 3
    MaxModeFaults = 1
    UsageFacts = {f1, f2}
    Ledgers = {l1, l2}
    Unbilled = Unbilled
    MaxHitches = 2
    EventRoom = 2
    ChunkRoom = 1
    MaxReplies = 3
SPECIFICATION LiveSpec
INVARIANTS
    AtMostOnce
    CorrectionKept
    ProjectionLatest
PROPERTIES
    ContractFulfilled
    MessageSettles
    TurnsRecorded
    UsageCounted
    StreamsAnswer
\* Requests are handled once, queues run empty, the bounds stop the rest.
CHECK_DEADLOCK FALSE
