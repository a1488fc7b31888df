----------------------------- MODULE MCLowering ------------------------------
(***************************************************************************)
(* Parameters for the checks of Lowering.  A start leaves room for as many *)
(* instructions as its values leave of MaxValues.                          *)
(***************************************************************************)
EXTENDS Lowering

MCLiterals == {1, Half}
MCFloats == {-1, 0, 1, 2}

Param(r) == [regs |-> r, heap |-> <<>>]
Cells(n) == [k \in 0 .. n - 1 |-> k + 1]
With(r, n) == [regs |-> r, heap |-> <<Object(Cells(n))>>]
SomeFloats == MCFloats \cup (IF "float" \in Excluded THEN {} ELSE {NaN})

IntStarts == {Param(<<IntReg(a), IntReg(b)>>) : a, b \in Word}
PositiveStarts == {Param(<<RefinedReg(a), RefinedReg(b)>>) : a, b \in 1 .. Half - 1}
FloatStarts == {Param(<<Float(x), Float(y), Float(z)>>) : x, y, z \in SomeFloats}
BoolStarts ==
    {Param(<<Bool2(Bit(t), t), Bool2(Bit(u), u)>>) : t, u \in BOOLEAN}
        \cup {Param(<<Compared(t, t), Compared(u, u)>>) : t, u \in BOOLEAN}

ArrayStarts == {With(<<WholeArray(1, n, Cells(n), 0), IntReg(i)>>, n) : n \in 1 .. 3, i \in Word}
BufferStarts == {With(<<Sized("buffer", 1, n, 0), IntReg(i)>>, n) : n \in 0 .. 2, i \in Word}
ListStarts == {With(<<Sized("list", 1, n, 0), IntReg(i)>>, n) : n \in 0 .. 2, i \in Word}
StrStarts == {Param(<<Str(n, n), IntReg(i)>>) : n \in 0 .. 2, i \in Word}
PointerStarts ==
    {With(<<Pointer(1, Cells(2), 0), IntReg(0)>>, 2), With(<<Pointer(Null, Cells(2), 0), IntReg(0)>>, 2)}

AllStarts ==
    UNION {IntStarts, PositiveStarts, FloatStarts, BoolStarts, ArrayStarts, BufferStarts, ListStarts,
           StrStarts, PointerStarts}

=============================================================================
