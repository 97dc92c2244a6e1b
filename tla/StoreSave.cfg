SPECIFICATION FairSpec
CONSTANTS
    MaxId = 2
    MaxRev = 4
    MaxArchives = 1
    Capacity = 2
    Outputs = TRUE
    ThreadsFail = TRUE
    WritesFail = TRUE
    Crashes = TRUE
INVARIANTS
    NoSilentLoss
    IdsAreFresh
    NothingLeftBehind
PROPERTIES
    NoStaleOverwrite
    ShutdownEnds
    ChangesReachDisk
CHECK_DEADLOCK FALSE
