\* A variant the program makes is read at an offset where it is not.
SPECIFICATION Spec
CONSTANTS
    MovesEnums = FALSE
    Roots <- EnumRoots
INVARIANT AllReadsLastStored
CHECK_DEADLOCK FALSE
