\* A loop whose range stays that of its first steps.
SPECIFICATION Spec
CONSTANTS
    W = 7
    Funcs <- Skipping
INVARIANTS InferredHolds
CHECK_DEADLOCK FALSE
