\* Equality of values of refined types is not excluded.
SPECIFICATION Spec
CONSTANTS
    W = 3
    MaxValues = 4
    NaN = NaN
    Excluded = {"wrap", "sign", "shift", "bool", "float", "slice", "alias", "text"}
    Literals <- MCLiterals
    Floats <- MCFloats
    Starts <- PositiveStarts
INVARIANT EveryRunCovered
CHECK_DEADLOCK FALSE
