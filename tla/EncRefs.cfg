SPECIFICATION EncSpec
CONSTANTS
    MaxFrmNum = 16
    MaxFrameNum = 16
    Configs <- MCConfigs
    Igops <- MCIgops
    LayerSkips = FALSE
    MaxPictures = 11
    MaxEvents = 2
CHECK_DEADLOCK FALSE
INVARIANTS
    ReferencesHaveSlots
    ReferenceDecoded
    DecoderHasReferences
PROPERTIES
    DecoderKeepsRules
    IdrServed
