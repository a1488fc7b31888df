SPECIFICATION Spec
CONSTANTS
    Var = {x}
    Grammars <- MCCondition
INVARIANTS
    SealedPredecessorsKnown
CHECK_DEADLOCK FALSE
