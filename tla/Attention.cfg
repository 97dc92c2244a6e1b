SPECIFICATION AttentionSpec
CONSTANTS
    Session = {s1, s2}
    Reports = {"Idle", "Working", "NeedsApproval", "AwaitingInput"}
INVARIANT NoticesAreCurrent
PROPERTIES WaitIsNoticed
CHECK_DEADLOCK FALSE
