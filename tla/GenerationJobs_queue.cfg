CONSTANTS
    Trips = {t1}
    Kinds = {"full", "partial"}
    Jobs = {j1, j2}
    Workers = {w1, w2}
    NoJob = NoJob
    Manual = Manual
    DispatchMode = "queue"
    PublishFailOpen = TRUE
    MaxAttempts = 2
    MaxRevision = 1
    FaultKinds = {"crash", "link", "publish", "db", "commit", "api"}
    MaxFaults = 1

SPECIFICATION Spec
INVARIANTS
    ExclusiveExecution
    NoLostUpdate
PROPERTIES
    NeverReopened
SYMMETRY Symmetry
CHECK_DEADLOCK FALSE
