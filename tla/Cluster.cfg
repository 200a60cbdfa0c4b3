SPECIFICATION FairSpec
CONSTANTS
    Nodes = {n1, n2}
    NoNode = NoNode
    WorkerCount = 2
    Callers = {c1, c2}
CHECK_DEADLOCK FALSE
INVARIANTS
    NodesPlaced
    NoSleepOverWork
PROPERTIES
    QueuedRuns
