SPECIFICATION Spec
CONSTANTS
    Hosts <- MCHosts
    class <- MCClass
    Objects <- MCObjects
    Operators <- MCOperators
INVARIANTS
    AddressIsSanctioned
    DefaultMayBeNamed
    TLSNeedsConsent
    ValueIsSourced
\* An object is parsed once.
CHECK_DEADLOCK FALSE
