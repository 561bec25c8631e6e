\* Mode: two runtimes, two operations, a turn, a window of one result and a fault.
\* Turns: two segments, a queue of one, an error and a refused phrase.  Runtimes:
\* four calls and two faults.  Connections: two offers, two closes, the candidates
\* of one page and a fault.  Control: four messages, a queue and a buffer of one.
\* Wake: two starts, two stops, a callback.
CONSTANTS
    Ops = {o1, o2}
    VoiceOps = {}
    Turns = {t}
    Consumers = {}
    Absent = Absent
    InitialMode = "assistant"
    Window = 1
    MaxInstances = 2
    MaxClock = 3
    MaxModeFaults = 1
    MaxTurns = 2
    MaxSegments = 2
    Scripts <- Spoken
    Pieces = 1
    Capacity = 1
    MaxErrors = 1
    MaxRefusals = 1
    StartOps = {"o1", "o2"}
    MaxCalls = 4
    MaxMediaFaults = 2
    MaxOpens = 2
    MaxCloses = 2
    OfferKeys = {"k1", "k2"}
    Followed = {2}
    MaxCandidates = 2
    MaxNetFaults = 1
    MaxRequests = 4
    QueueRoom = 1
    ResponseRoom = 1
    Starters = {a1, a2}
    Stoppers = {b1, b2}
    Wakes = {e1}
SPECIFICATION AudioSpec
INVARIANTS
    EventPerGeneration
    SpokenInOrder
    BilledOnce
    FinalsOutliveMedia
    MediaAccounted
    TransportsOwned
    RequestsAccounted
    WakeFenced
PROPERTIES
    NoStaleTurn
    ViewForward
    ReportsOwn
\* Sessions end, and the bounds stop the rest.
CHECK_DEADLOCK FALSE
