\* Automatic: one turn with two targets, which may fail apart and be retried, two
\* processes competing for its fallback, two user configurations, and either one
\* outage or one retry of a message by its user.
\* Playback: utterances of two phrases and of one, a queue of one, an
\* interruption and a fault.
\* Segments: six frames, of which any are speech, a pause of two ends an utterance
\* and three cut it; a wake word; a queue of one.
\* Channel: two playbacks of up to three chunks in two sessions, of which one is
\* interrupted twice, one tombstone.
\* Gate: two signals, of which one is forgotten and comes again.
CONSTANTS
    Turns = {t1}
    Targets = {x1, x2}
    Processes = {p1, p2}
    Nil = Nil
    MaxOutages = 1
    MaxRetries = 1
    MaxVersion = 2
    Utterances = {u1, u2}
    Brief = {u2}
    MaxPhrases = 2
    MaxQueue = 1
    MaxChunks = 1
    MaxPlayFaults = 1
    MaxCuts = 1
    SilenceAfter = 2
    Longest = 3
    Padding = 1
    QueueRoom = 1
    MaxFrames = 6
    MaxWakes = 1
    Playbacks = {y1, y2}
    Interrupted = {y1}
    MaxTombstones = 1
    MaxSpeech = 3
    MaxHalts = 2
    Signals = {s1, s2}
    RetentionLimit = 1
    MaxOpens = 3
SPECIFICATION SpeechSpec
INVARIANTS
    PlayedHeard
    SilentAfterInterrupt
    SpeechHeardOnce
    SettledSilent
    AnsweredOnce
PROPERTIES
    PhrasesInOrder
\* Runs and playbacks reach their end.
CHECK_DEADLOCK FALSE
