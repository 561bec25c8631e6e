\* One activation fails while the same start is retried in another process.
CONSTANTS
    StartRequests = {r1, r2}
    EndRequests = {}
    Instances = {i1, i2}
    Keys = {k1}
    EndReason = user_requested
    OperatorCancelled = operator_cancelled
    None = None
    MaxFaults = 1
    RealtimeRestarts = FALSE
SPECIFICATION Spec
INVARIANT OneCompensator
CHECK_DEADLOCK FALSE
