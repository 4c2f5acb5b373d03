SPECIFICATION Spec
CONSTANTS
    w1 = w1
    w2 = w2
    Workers <- TwoWorkers
    Operations <- TwoOps
    ResultOps <- WithResult
    ContextOps <- WithContext
    OperationPolicies <- NoPolicies
    DefaultPolicy = 2
    Errors = {"retryable", "permanent"}
    HasSymLinker = FALSE
    HasGlobal = TRUE
    HasPerOperation = FALSE
    MaxOps = 3
    FailureThreshold = 1
    SuccessThreshold = 1
    Timeout = 1
CHECK_DEADLOCK FALSE
INVARIANT
    GivenUpIsReported
