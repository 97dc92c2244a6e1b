CONSTANTS
    Session = {s1}
    Operator = operator
    Reports = {"Working"}
    Caps = {1}
    MaxRestarts = 1
    MaxGen = 3
    MaxMatched = 1
    ThreadsFail = TRUE
    StopFails = TRUE
SPECIFICATION FairSpec
INVARIANT OwnershipIsCurrent
PROPERTIES PreparationEnds BackoffEnds KillTakesEffect
CHECK_DEADLOCK FALSE
