SPECIFICATION Spec
CONSTANTS
    c1 = c1
    c2 = c2
    c3 = c3
    Callers <- TwoCallers
    FailureThreshold = 1
    SuccessThreshold = 1
    Timeout = 1
    Notify = FALSE
    MaxErrors = 2
    MaxPending = 0
INVARIANT
    SingleProbe
