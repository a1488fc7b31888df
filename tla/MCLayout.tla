------------------------------ MODULE MCLayout ------------------------------
(***************************************************************************)
(* Types for the checks of Layout: the shapes the tests of the repository  *)
(* use, and more with fields of one to eight bytes.                        *)
(***************************************************************************)
EXTENDS Layout

I8 == Scalar(1)
I16 == Scalar(2)
I32 == Scalar(4)
I64 == Scalar(8)
Point == Struct(<<I64, I64>>)

\* tests/python/type_system/test_enum_protocol.py: an enum whose payloads
\* differ in alignment
MyEnum == Enum(<<I64, I32>>)

\* Variants of equal alignment, of unequal, and with nothing in them: the
\* enums of test_adt.py and test_enums.py are among them.
Enums ==
    {MyEnum, Enum(<<I64, Tuple(<<I64, I64>>), Unit>>), Enum(<<Point, I64>>),
     Enum(<<Struct(<<I64>>), Struct(<<>>)>>), Enum(<<I64, Struct(<<I64>>)>>),
     Enum(<<I32, Tuple(<<I32, I8>>)>>), Enum(<<I32, Unit>>),
     Enum(<<I8, Struct(<<I32>>), Tuple(<<I16, I8>>)>>),
     Enum(<<Struct(<<I64, I64>>), Tuple(<<I64, I16>>), I64, Unit>>)}

AllRoots ==
    {Struct(<<a, b, c>>) : a, b, c \in {I8, I16, I64}}
        \cup {Struct(<<p, a>>) : p \in {Struct(<<I16, I8>>), Struct(<<I8, I64>>)}, a \in {I8, I32}}
        \cup {Struct(<<I8, Struct(<<I8, Struct(<<I32, I8>>)>>), I16>>),
              Struct(<<Tuple(<<I16, I8>>), I8, Tuple(<<I8, I32>>)>>),
              Struct(<<Tuple(<<Point, I8>>), I8>>),
              Tuple(<<I8, I32, I16>>), Tuple(<<I8, Point>>),
              Tuple(<<Tuple(<<I16, I16>>), I8>>),
              Optional(I32), Optional(Struct(<<I16, I8>>)),
              NamedTuple(<<I8, I64, I16>>),
              NamedTuple(<<NamedTuple(<<I32, I32>>), I8>>),
              NamedTuple(<<I64, Tuple(<<I16, I8>>)>>)}
        \cup Enums

EnumRoots == {MyEnum}

\* the object of tests/python/type_system/test_nested_layouts.py
NestedRoots == {Struct(<<Point, Tuple(<<I64, I64>>), I64>>)}

=============================================================================
