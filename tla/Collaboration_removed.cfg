CONSTANTS
    Members = {u1, u2}
    FirstOwner = u1
    Handlers = {h1}
    MaxInvitations = 1
    MaxHandled = 3

SPECIFICATION CollabSpec
INVARIANT
    RemovedStaysOut
CHECK_DEADLOCK FALSE
