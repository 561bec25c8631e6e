\* One offer whose page gathers two candidates; nothing fails.
CONSTANTS
    MaxOpens = 1
    MaxCloses = 0
    OfferKeys = {"k1"}
    Followed = {1}
    MaxCandidates = 2
    MaxNetFaults = 0
SPECIFICATION ConnectionsSpec
INVARIANT EndComesLast
\* The page gathers its last candidate and the connection stays open.
CHECK_DEADLOCK FALSE
