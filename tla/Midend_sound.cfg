\* Loops, branches and constants, optimized, analyzed and run.
SPECIFICATION Spec
CONSTANTS
    W = 7
    Funcs <- AllFuncs
INVARIANTS TypeOK CompiledAsVerified OptimizedAgrees AnalysisSettles RangesHold InferredHolds
CHECK_DEADLOCK FALSE
