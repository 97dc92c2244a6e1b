CONSTANTS
    MaxPrompts = 2
    MaxQueued = 1
    MaxPumps = 1
    MaxCasts = 0
    Outputs = TRUE
    Types = TRUE
    Crashes = TRUE
SPECIFICATION Spec
PROPERTIES PauseIsTheOperators NoBurst
CHECK_DEADLOCK FALSE
