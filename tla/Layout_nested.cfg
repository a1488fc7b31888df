SPECIFICATION Spec
CONSTANTS
    MovesEnums = FALSE
    Roots <- NestedRoots
INVARIANT AllTermsHold
CHECK_DEADLOCK FALSE
