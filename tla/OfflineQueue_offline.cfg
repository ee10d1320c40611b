CONSTANTS
    Trips = {t1}
    Tabs = {b1}
    Pages = {b1}
    Elsewhere = Elsewhere
    Merged = Merged
    MaxRecords = 1
    MaxEdits = 2
    MaxOnline = 0
    MAX_AUTOMATIC_ATTEMPTS = 1
    MaxClosedTabs = 0

SPECIFICATION OfflineSpec
INVARIANT
    SavedEditsAreKept
CHECK_DEADLOCK FALSE
