SPECIFICATION Spec
CONSTANTS
    Requests <- TwoRequests
    Parts <- MCParts
    Contents <- MCContents
    pods <- TwoControllers
    Unlucky <- NoRequests
    MaxRemovals = 0
    MaxRetries = 0
INVARIANTS
    MapBelongsToItsName
\* When every request is answered and every bound used up nothing is left.
CHECK_DEADLOCK FALSE
