SPECIFICATION Spec
CONSTANTS
    Hosts <- MCHosts
    class <- MCClass
    Objects <- MCObjects
    Operators <- MCOperators
INVARIANT
    TimeoutIsTheObjects
\* An object is parsed once.
CHECK_DEADLOCK FALSE
