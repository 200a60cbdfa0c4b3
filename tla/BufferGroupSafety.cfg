SPECIFICATION FairSpec
CONSTANTS
    Threads = {parser, hal, app}
    Getters = {parser}
    Buffers = {b1, b2}
    NoBuffer = NoBuffer
    Sizes = {1, 2}
    Limits = {1, 2}
    MaxRef = 2
CHECK_DEADLOCK FALSE
INVARIANTS
    Consistent
    OffersSound
    GroupOutlivesUsers
    UnusedAnswerHolds
PROPERTIES
    ImplementsLife
    ReleaseEnds
