SPECIFICATION FairSpec
CONSTANTS
    Buffers = {b1, b2}
    NoBuf = none
    SlotCount = 4
    Infos = {1, 2}
    HalTasks = 2
    FastMode = FALSE
    DisplayLimit = 1
    MaxPics = 2
    MaxResets = 1
    EosKinds = {"picture", "empty"}
CHECK_DEADLOCK FALSE
PROPERTIES EosComesOut ResetReturns
