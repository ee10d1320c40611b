CONSTANTS
    Trips = {t1}
    Kinds = {"full", "partial", "proposal"}
    Jobs = {j1}
    Workers = {w1, w2}
    NoJob = NoJob
    Manual = Manual
    DispatchMode = "queue"
    PublishFailOpen = FALSE
    MaxAttempts = 2
    MaxRevision = 1
    FaultKinds = {"crash", "publish"}
    MaxFaults = 3

SPECIFICATION FairSpec
INVARIANTS
    QueuedHasCarrier
    CancelledHasNoEffect
PROPERTIES
    EveryJobCloses
CHECK_DEADLOCK FALSE
