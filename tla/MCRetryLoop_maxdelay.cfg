SPECIFICATION Spec
CONSTANTS
    w1 = w1
    w2 = w2
    w3 = w3
    nobody = nobody
    Workers = {w1, w2, w3}
    NoWorker = nobody
    Layers <- SomeLayers
    Task <- RemoveAndCreate
    Policy <- RetryOrNot
    Classifiers <- Returning
    Faults <- SomeFaults
    LostAnswers <- ALostAnswer
    NotFound <- NoSuchFile
CHECK_DEADLOCK FALSE
INVARIANT
    DelayAtMostMaxDelay
