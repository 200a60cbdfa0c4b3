SPECIFICATION FairSpec
CONSTANTS
    Sessions = {s1, s2}
    Spare = {s1}
    Tasks <- MCTasks
    Owner <- MCOwner
    MaxTaskInBatch = 2
    Faults = {"eio", "poll", "send"}
    MaxSwitches = 4
CHECK_DEADLOCK FALSE
INVARIANTS
    BatchesKept
    TasksAccounted
PROPERTIES
    ImplementsDevice
    SentReturns
