\* The end request carries the reason compensating Stops carry, as the web
\* client's does; one activation fails.
CONSTANTS
    StartRequests = {r1, r2}
    EndRequests = {e1}
    Instances = {i1}
    Keys = {k1, k2}
    EndReason = operator_cancelled
    OperatorCancelled = operator_cancelled
    None = None
    MaxFaults = 1
    RealtimeRestarts = FALSE
SPECIFICATION Spec
PROPERTY ActiveEndReleased
CHECK_DEADLOCK FALSE
