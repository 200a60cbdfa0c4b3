SPECIFICATION Spec
CONSTANTS
    Buffers = {b1, b2, b3}
    NoBuf = none
    SlotCount = 4
    Infos = {1, 2}
    HalTasks = 3
    FastMode = TRUE
    DisplayLimit = 1
    MaxPics = 4
    MaxResets = 1
    EosKinds = {"picture", "empty"}
SYMMETRY BufferSymmetry
CHECK_DEADLOCK FALSE
INVARIANTS
    ShownInOrder
    EosAfterAllFrames
    SlotsExact
    BufferRefsExact
    PicturesIntact
PROPERTIES
    FlushWhileParserRests
