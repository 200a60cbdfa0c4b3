SPECIFICATION Spec
CONSTANTS
    feeder = feeder
    getter = getter
    Callers = {feeder, getter}
    Jobs <- OneFeeder
    HalTasks = 2
    FastMode = FALSE
    WaitDone = FALSE
    BufferCount = 1
    PortLimit = 1
    DisplayLimit = 1
    SlotCount = 8
    References = 1
    MaxPuts = 2
    MaxInfos = 0
    MaxResets = 0
    MaxCommands = 1
CHECK_DEADLOCK FALSE
INVARIANTS NoLostWakeup
