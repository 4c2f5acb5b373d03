SPECIFICATION FairSpec
CONSTANTS
    c1 = c1
    c2 = c2
    c3 = c3
    Callers <- ThreeCallers
    FailureThreshold = 2
    SuccessThreshold = 3
    Timeout = 2
    Notify = TRUE
    MaxErrors = 5
    MaxPending = 1
INVARIANTS
    TypeOK
    ClosedIsHealthy
    LateSuccessesBounded
    ClosesByThreshold
    NeverEarly
    NotificationsBalance
PROPERTIES
    ImplementsAbstract
    OpenIsTemporary
    RecoveryCloses
