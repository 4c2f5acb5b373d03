SPECIFICATION CollectorSpec
CONSTANTS
    w1 = w1
    w2 = w2
    Workers <- TwoWorkers
    Operations <- TwoOps
    ResultOps = {"stat"}
    ContextOps = {}
    OperationPolicies <- NoPolicies
    DefaultPolicy = 2
    Errors = {"retryable"}
    HasSymLinker = TRUE
    HasGlobal = FALSE
    HasPerOperation = FALSE
    MaxOps = 2
    FailureThreshold = 1
    SuccessThreshold = 1
    Timeout = 0
    MaxScrapes = 2
CHECK_DEADLOCK FALSE
PROPERTY
    NoWriteDuringScrape
