CONSTANTS
    MaxPrompts = 3
    MaxQueued = 2
    MaxPumps = 2
    MaxCasts = 1
    Outputs = TRUE
    Types = TRUE
    Crashes = FALSE
SPECIFICATION Spec
INVARIANT EveryPromptAccounted
PROPERTIES QueueIsPumped ImplementsPromptLife
CHECK_DEADLOCK FALSE
