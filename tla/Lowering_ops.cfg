\* Every instruction on every small word.
SPECIFICATION Spec
CONSTANTS
    W = 3
    MaxValues = 4
    NaN = NaN
    Excluded = {"wrap", "sign", "shift", "bool", "float", "refined", "slice", "alias", "text"}
    Literals <- MCLiterals
    Floats <- MCFloats
    Starts <- AllStarts
INVARIANTS TypeOK EveryRunCovered FaultsAreFlagged FlagsAreReal
CHECK_DEADLOCK FALSE
