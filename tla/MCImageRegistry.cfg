SPECIFICATION Spec
CONSTANTS
    Replicas <- MCReplicas
    Images <- MCImages
    Requests <- MCRequests
    calls <- MCCalls
    kinds <- MCKinds
    manifests <- MCManifests
    operatorSecret = TRUE
    accepts <- MCAccepts
    Unlucky <- MCUnlucky
    MaxRestarts = 1
INVARIANTS
    TypeOK
    RefusedForAReason
PROPERTIES
    AnswersAreFreshEnough
    SettledStaysSettled
\* When every call has been answered and every bound used up nothing is left.
CHECK_DEADLOCK FALSE
