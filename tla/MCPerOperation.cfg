SPECIFICATION FairSpec
CONSTANTS
    g1 = g1
    g2 = g2
    a1 = a1
    a2 = a2
    a3 = a3
    none = none
    Callers <- TwoCallers
    Operations <- TwoOps
    Addresses <- ThreeAddresses
    NoAddress = none
    Nobody = none
    FailureThreshold = 1
    SuccessThreshold = 1
    Timeout = 1
    MaxErrors = 2
INVARIANTS
    TypeOK
    OneBreakerPerOperation
PROPERTIES
    NoWriteDuringLoop
    MissingBreakerArrives
    ImplementsArray
