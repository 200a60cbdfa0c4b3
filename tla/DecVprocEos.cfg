SPECIFICATION FairSpec
CONSTANTS
    Slots = 7
    BufferCount = 10
    HalTasks = 3
    VprocTasks = 4
    DisplayLimit = 4
    EosKinds = {"empty"}
    OutputThread = TRUE
    MaxPics = 5
    MaxChanges = 0
    MaxResets = 0
PROPERTIES EosComesOut
CHECK_DEADLOCK FALSE
