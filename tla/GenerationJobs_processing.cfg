CONSTANTS
    Trips = {t1}
    Kinds = {"full"}
    Jobs = {j1}
    Workers = {w1}
    NoJob = NoJob
    Manual = Manual
    DispatchMode = "queue"
    PublishFailOpen = FALSE
    MaxAttempts = 1
    MaxRevision = 0
    FaultKinds = {}
    MaxFaults = 0

SPECIFICATION Spec
INVARIANTS
    ProcessingHasAJob
CHECK_DEADLOCK FALSE
