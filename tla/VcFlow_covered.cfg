\* Straight code, branches, calls, loops, raise and try, verified and run.
SPECIFICATION Spec
CONSTANTS
    W = 2
    Funcs <- AllFuncs
INVARIANTS TypeOK CoveredRunsAreSafe CounterexampleIsReal VerifiedHasRuns
CHECK_DEADLOCK FALSE
