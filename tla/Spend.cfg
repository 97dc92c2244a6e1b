SPECIFICATION Spec
CONSTANTS
    Session = {s1}
    MaxRecords = 2
    MaxMinute = 2
    MaxCounted = 3
    PollSize = 1
    Budget = 1
    Ceiling = 2
    Window = 2
INVARIANTS CountedOnce WindowIsWhole
PROPERTIES OverrideStands CostCatchesUp
CHECK_DEADLOCK FALSE
