CONSTANTS
    \* OfflineQueue
    Trips = {t1}
    Tabs = {b1, b2}
    Pages = {b1}
    Elsewhere = Elsewhere
    Merged = Merged
    MaxRecords = 2
    MaxEdits = 2
    MaxOnline = 1
    MAX_AUTOMATIC_ATTEMPTS = 1
    MaxClosedTabs = 1
    \* RefreshTokens
    Requests = {x1, x2}
    NoToken = NoToken
    MaxTokens = 3
    MaxLogins = 2
    \* EditLocks
    LockEditors = {x1, x2}
    MaxVisits = 1
    TTL = 2
    MaxTime = 3
    MaxRestarts = 1
    MaxCalls = 2
    \* Presence
    Viewers = {x1, x2}
    MaxConnectionsPerUserPerTrip = 1
    ClientBufferSize = 1
    MaxStreams = 2
    MaxUpdates = 1
    \* CalendarConnections, CalendarSync
    Accounts = {a1, a2}
    NoAccount = NoAccount
    CalendarRequests = {x1, x2}
    MaxConnects = 2
    MaxExpiries = 1
    MaxCalendarFaults = 1
    SyncKeys = {1, 2}
    MaxPlanRevision = 2
    MaxSyncs = 3

SPECIFICATION ClientsSpec
INVARIANTS
    ClientsTypeOK
    KeptUnlessRaced
    DuplicatesExplained
    SyncingIsAttended
    OneTokenPerSession
    EndedStaysEnded
    GrantsAreHonoured
    OwnersRenew
    ViewsAreCurrent
    EventsAreKnown
    InSyncMeansSynced
SYMMETRY ClientsSymmetry
CHECK_DEADLOCK FALSE
