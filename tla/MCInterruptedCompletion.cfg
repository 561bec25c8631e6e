\* Two utterances of one phrase, one interruption, no failing provider.
CONSTANTS
    Utterances = {u1, u2}
    Brief = {u1, u2}
    MaxPhrases = 2
    MaxQueue = 1
    MaxChunks = 1
    MaxPlayFaults = 0
    MaxCuts = 1
SPECIFICATION PlaybackSpec
PROPERTY PhrasesSettle
\* Playbacks reach their end.
CHECK_DEADLOCK FALSE
