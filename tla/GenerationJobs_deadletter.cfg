CONSTANTS
    Trips = {t1}
    Kinds = {"full"}
    Jobs = {j1}
    Workers = {w1}
    NoJob = NoJob
    Manual = Manual
    DispatchMode = "queue"
    PublishFailOpen = FALSE
    MaxAttempts = 1
    MaxRevision = 0
    FaultKinds = {"db"}
    MaxFaults = 1

SPECIFICATION Spec
INVARIANTS
    DeadLettersAreClosed
CHECK_DEADLOCK FALSE
