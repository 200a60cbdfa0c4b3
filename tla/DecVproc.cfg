SPECIFICATION FairSpec
CONSTANTS
    Slots = 4
    BufferCount = 5
    HalTasks = 2
    VprocTasks = 2
    DisplayLimit = 1
    EosKinds = {"picture", "empty"}
    OutputThread = TRUE
    MaxPics = 4
    MaxChanges = 1
    MaxResets = 1
INVARIANTS UsesExact FramesInOrder NothingLeftBehind
PROPERTIES PicturesComeOut
CHECK_DEADLOCK FALSE
