SPECIFICATION FairSpec
CONSTANTS
    TaskCount = 3
    InClients = {i1, i2}
    OutClients = {o1, o2}
CHECK_DEADLOCK FALSE
INVARIANTS
    Consistent
    NoLostWakeup
PROPERTIES
    ImplementsChannel
    SubmittedReturns
    BlockedUserServed
