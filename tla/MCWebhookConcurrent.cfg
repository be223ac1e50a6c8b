SPECIFICATION Spec
CONSTANTS
    Reviews = {r1, r2, r3}
    r1 = r1
    r2 = r2
    r3 = r3
    Samples <- Concurrent
    Ignoring = {"pod", "secret", "object"}
    MaxCrashes = 1
SYMMETRY Symmetry
INVARIANTS
    AttemptsAddUp
    ClientsAreClosed
\* When every review has been answered twice nothing is left.
CHECK_DEADLOCK FALSE
