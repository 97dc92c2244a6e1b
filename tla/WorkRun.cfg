\* Two projects, a command thread beside the bridge, a few commands, one firing.
SPECIFICATION Spec
CONSTANTS
    N = 2
    MaxSession = 2
    MaxAsks = 2
    Commands = {c1}
    Bridge = bridge
    MaxExits = 1
    MaxNow = 1
INVARIANTS NamesItsOwn NothingUntold
CHECK_DEADLOCK FALSE
PROPERTIES ExitIsRecorded ScheduleFires
