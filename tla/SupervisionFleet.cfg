CONSTANTS
    Session = {s1, s2}
    Operator = operator
    Reports = {"RateLimited"}
    Caps = {1, 2}
    MaxRestarts = 1
    MaxGen = 1
    MaxMatched = 1
    ThreadsFail = FALSE
    StopFails = FALSE
SPECIFICATION Spec
SYMMETRY Symmetry
INVARIANTS ProcessOwned NobodyIsForgotten
PROPERTIES LiveHasProcess QueueIsServed NoOvercommit KillSticks
CHECK_DEADLOCK FALSE
