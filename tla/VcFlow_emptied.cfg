\* A loop whose derived ranges contradict each other.
SPECIFICATION Spec
CONSTANTS
    W = 2
    Funcs <- Emptied
    \* Funcs <- Raises: a contract nobody checks, since an exception is taken to be pending
INVARIANTS VerifiedIsSafe
CHECK_DEADLOCK FALSE
