SPECIFICATION Spec
CONSTANTS
    Reviews = {r1}
    r1 = r1
    Samples <- DryRuns
    Ignoring = {"pod", "secret", "object"}
    MaxCrashes = 0
INVARIANT
    DryRunHasNoSideEffects
CHECK_DEADLOCK FALSE
