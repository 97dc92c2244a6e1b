SPECIFICATION Spec
CONSTANTS
    Session = {s1}
    Cause = {k1}
    Capacity = 2
    MaxOut = 2
    MaxOpens = 1
    MaxChanges = 4
INVARIANTS ShowsTheFleet BadgeCountsTheWaiting ToastsFollowNotices
CHECK_DEADLOCK FALSE
