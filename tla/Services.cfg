CONSTANTS
    \* CleanupRuns
    Replicas = {x1, x2}
    LockTTL = 1
    MaxClock = 4
    MaxRuns = 3
    \* Collaboration
    Members = {u1, u2, u3}
    FirstOwner = u1
    Handlers = {x1, x2}
    MaxInvitations = 1
    MaxHandled = 4
    \* DataExports
    Exporters = {x1, x2}
    Sweeps = {x1, x2}
    MaxJobs = 2
    \* DeadLetters
    Letters = {m1, m2, m3}
    Operators = {x1, x2}
    PageSize = 2
    MaxActions = 3
    MaxLetterFaults = 1
    \* Digests
    Events = {e1, e2}
    Processors = {x1, x2}
    MaxAttempts = 2
    MaxHour = 4
    MaxDigestFaults = 2
    \* Expenses
    People = {1, 2, 3}
    Spenders = {1, 2}
    Amounts = {39999}
    Grain = 1
    Parts = {0, 10001}
    SplitTypes = {"selected_equal", "custom_percentages"}
    MaxExpenses = 1
    MaxRequests = 3
    \* NotificationDedupe
    Callers = {x1, x2}
    DedupeWindow = 2
    GroupingWindow = 3
    ClaimDelay = 1
    MaxMinute = 6
    MaxBatches = 4
    MaxNotifications = 2
    \* Proposals
    Trips = {t1}
    Appliers = {x1, x2}
    ProposalKinds = {"budget", "repair", "suggestion"}
    MaxProposals = 2
    MaxWrites = 3
    \* Reminders
    Keys = {k1}
    Passes = {x1, x2}
    Generators = {x1, x2}
    MaxReminders = 2
    MaxClicks = 2
    MaxNotified = 2
    \* Workspaces
    WorkUsers = {u1, u2, u3}
    Creator = u1
    GivenRoles = {"admin", "member"}
    Slots = {x1, x2}
    MaxRows = 4
    MaxWorkRequests = 3

SPECIFICATION ServicesSpec
INVARIANTS
    ServicesTypeOK
    OverlapsOutliveTheirLock
    AccessIsEarned
    EachLetterOnce
    DeliveredOnce
    ProcessingIsAttended
    SharesAddUpUnlessRaced
    SuggestionsSettle
    AppliedOnce
    StatusTellsEffect
    DecisionsStand
    NotifiedOnceUnlessOverlapped
    FilesFollowTheirJobs
    OneDeliveryPerWindow
    RolesComeFromTheOwner
PROPERTIES
    PaymentsReduceDebts
SYMMETRY ServicesSymmetry
CHECK_DEADLOCK FALSE
