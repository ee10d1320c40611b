CONSTANTS
    Trips = {t1}
    Kinds = {"full", "partial", "proposal"}
    Jobs = {j1}
    Workers = {w1, w2}
    NoJob = NoJob
    Manual = Manual
    DispatchMode = "queue"
    PublishFailOpen = FALSE
    MaxAttempts = 2
    MaxRevision = 1
    FaultKinds = {"crash", "link", "publish", "db", "commit", "api"}
    MaxFaults = 3

SPECIFICATION Spec
INVARIANTS
    AppliedAtMostOnce
    CompletedMeansSaved
PROPERTIES
    ImplementsContract
SYMMETRY Symmetry
CHECK_DEADLOCK FALSE
