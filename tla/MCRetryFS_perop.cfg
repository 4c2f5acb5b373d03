SPECIFICATION FairSpec
CONSTANTS
    w1 = w1
    w2 = w2
    Workers <- TwoWorkers
    Operations <- FiveOps
    ResultOps <- WithResult
    ContextOps <- WithContext
    OperationPolicies <- MkdirUnset
    DefaultPolicy = 2
    Errors = {"retryable", "permanent"}
    HasSymLinker = FALSE
    HasGlobal = TRUE
    HasPerOperation = TRUE
    MaxOps = 2
    FailureThreshold = 1
    SuccessThreshold = 1
    Timeout = 1
CHECK_DEADLOCK FALSE
INVARIANTS
    OpenForItsOwnFailures
    RetryBudget
    OperationsAccounted
PROPERTIES
    EveryOperationReturns
    UsesArray
