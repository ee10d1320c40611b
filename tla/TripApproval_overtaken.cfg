CONSTANTS
    Trips = {t1}
    Editors = {u1, u2}
    Approvers = {u2, u3}
    Nobody = Nobody
    MaxRevision = 2
    MaxFaults = 0

SPECIFICATION Spec
INVARIANT
    ApprovedPlanIsCurrent
