\* One utterance of a language whose words are separated by blanks.
CONSTANTS
    Letters = {"a"}
    Hesitation = "u"
    Replies = {}
    Spaced = TRUE
    MinRunes = 2
    LiveMin = 2
    LiveMax = 3
    MaxText = 8
    MaxRevisions = 0
SPECIFICATION StabilizerSpec
INVARIANT FlushConsumesAll
\* An utterance ends with its final text.
CHECK_DEADLOCK FALSE
