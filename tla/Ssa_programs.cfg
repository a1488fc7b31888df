SPECIFICATION Spec
CONSTANTS
    Var = {x}
    Grammars <- MCPrograms
INVARIANTS
    TypeOK
    SealedPredecessorsKnown
    PhiPerEdge
    ReadsLastWrite
CHECK_DEADLOCK FALSE
