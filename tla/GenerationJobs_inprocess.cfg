CONSTANTS
    Trips = {t1}
    Kinds = {"full", "partial", "proposal"}
    Jobs = {j1, j2}
    Workers = {w1, w2}
    NoJob = NoJob
    Manual = Manual
    DispatchMode = "in_process"
    PublishFailOpen = FALSE
    MaxAttempts = 1
    MaxRevision = 2
    FaultKinds = {"crash", "db", "commit"}
    MaxFaults = 2

SPECIFICATION Spec
INVARIANTS
    ExclusiveExecution
SYMMETRY Symmetry
CHECK_DEADLOCK FALSE
