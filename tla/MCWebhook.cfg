SPECIFICATION Spec
CONSTANTS
    Reviews = {r1}
    r1 = r1
    Samples <- MCSamples
    Ignoring = {"pod", "secret", "object"}
    MaxCrashes = 1
INVARIANTS
    TypeOK
    StoredIsAllOrNothing
    UnresolvedOnlyIfIgnored
    VerdictIsDetermined
    VaultOnlyWhenNeeded
PROPERTIES
    ReinvocationIsIdempotent
    EveryReviewIsAnswered
\* When the review has been answered twice nothing is left.
CHECK_DEADLOCK FALSE
