SPECIFICATION Spec
CONSTANTS
    feeder = feeder
    getter = getter
    Callers = {feeder, getter}
    Jobs <- OneFeeder
    HalTasks = 2
    FastMode = FALSE
    WaitDone = FALSE
    BufferCount = 1
    PortLimit = 1
    DisplayLimit = 0
    SlotCount = 2
    References = 0
    MaxPuts = 2
    MaxInfos = 1
    MaxResets = 1
    MaxCommands = 1
CHECK_DEADLOCK FALSE
INVARIANTS NobodyOversleeps CallsMatch ResetLeavesNothing
