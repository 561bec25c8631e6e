\* Two starts, of one operation or of two, two ends and two processes meet in
\* every order, with up to two crashes, timeouts, failing dependencies or
\* restarts of the realtime process.
CONSTANTS
    StartRequests = {r1, r2}
    EndRequests = {e1, e2}
    Instances = {i1, i2}
    Keys = {k1, k2}
    EndReason = user_requested
    OperatorCancelled = operator_cancelled
    None = None
    MaxFaults = 2
    RealtimeRestarts = TRUE
SPECIFICATION Spec
SYMMETRY Symmetric
INVARIANTS
    UnresolvedFreezes
    SingleEndDriver
    AckTruthful
    NoStopOfActivated
    ActiveMediaOwned
PROPERTIES
    ActiveEndReleased
    ContractRefined
\* Requests are handled once: when all have returned the session is at rest.
CHECK_DEADLOCK FALSE
