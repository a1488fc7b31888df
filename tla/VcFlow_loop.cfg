\* A loop verified for its first iteration only.
SPECIFICATION Spec
CONSTANTS
    W = 2
    Funcs <- Loops
INVARIANTS VerifiedIsSafe
CHECK_DEADLOCK FALSE
