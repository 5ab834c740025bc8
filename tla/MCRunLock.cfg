SPECIFICATION Spec
CONSTANTS
    r1 = r1
    r2 = r2
    NoRun = NoRun
    Runs = {r1, r2}
    Paths <- MCPaths
    Pairs <- MCPairs
    Webroot <- MCOwnRoot
    MaxAttempts = 2
INVARIANTS
    TypeOK
    ExclusiveUse
    NoMutualRefusal
PROPERTIES
    AttemptEnds
    ImplementsMutex
CHECK_DEADLOCK FALSE
