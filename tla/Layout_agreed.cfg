\* Objects of every shape: built, passed in, stored to, read and moved.
SPECIFICATION Spec
CONSTANTS
    MovesEnums = FALSE
    Roots <- AllRoots
INVARIANTS TypeOK ReadsLastStored TermsHold
CHECK_DEADLOCK FALSE
