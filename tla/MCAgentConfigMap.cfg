SPECIFICATION Spec
CONSTANTS
    Requests <- MCRequests
    Parts <- MCParts
    Contents <- MCContents
    pods <- RollingUpdate
    Unlucky <- MCUnlucky
    MaxRemovals = 1
    MaxRetries = 1
INVARIANTS
    TypeOK
    MapServesPod
    RefusedForAReason
PROPERTIES
    EveryRequestIsAnswered
    WritesOnceAdmitsAfter
\* When every request is answered and every bound used up nothing is left.
CHECK_DEADLOCK FALSE
