\* Slices with any bounds.
SPECIFICATION Spec
CONSTANTS
    W = 3
    MaxValues = 4
    NaN = NaN
    Excluded = {"wrap", "sign", "shift", "bool", "float", "refined", "alias", "text"}
    Literals <- MCLiterals
    Floats <- MCFloats
    Starts <- ArrayStarts
INVARIANT FaultsAreFlagged
CHECK_DEADLOCK FALSE
