\* Two turns of two targets, no failure besides the providers' own.
CONSTANTS
    Turns = {t1, t2}
    Targets = {x1, x2}
    Processes = {p1}
    Nil = Nil
    MaxOutages = 0
    MaxRetries = 0
    MaxVersion = 1
SPECIFICATION AutomaticSpec
PROPERTY AllFailedReplayed
\* Runs reach their end.
CHECK_DEADLOCK FALSE
