SPECIFICATION FairSpec
CONSTANTS
    feeder = feeder
    getter = getter
    Callers = {feeder, getter}
    Jobs <- OneFeeder
    HalTasks = 2
    FastMode = TRUE
    WaitDone = TRUE
    BufferCount = 1
    PortLimit = 1
    DisplayLimit = 0
    SlotCount = 2
    References = 1
    MaxPuts = 2
    MaxInfos = 0
    MaxResets = 1
    MaxCommands = 0
CHECK_DEADLOCK FALSE
PROPERTIES  CallsReturn
