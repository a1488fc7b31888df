------------------------------ MODULE Scalars -------------------------------
(***************************************************************************)
(* A run of a straight piece of SSA code, seen by its two consumers at     *)
(* once: the machine code, which computes a value for each SSA value, and  *)
(* the verifier, which asserts a formula for each instruction and queues a *)
(* safety check for each hazard it knows.  No solver is needed: the run is *)
(* a valuation of the solver's constants.  A check that the run violates is*)
(* satisfiable, so the function is refused - as long as every formula that *)
(* was asserted holds of the run too; a run that breaks a formula is one   *)
(* the verdict says nothing about.                                         *)
(*                                                                         *)
(* Instructions are chosen freely, over all values in scope, one action per*)
(* family.  Here are integers, booleans and floats: what the instructions  *)
(* compute (lirien-backend, lower/arithmetic.rs) and what the verifier     *)
(* asserts of them (lirien-verify, verifier/arithmetic.rs).                *)
(*                                                                         *)
(* An operator of the source is asserted twice: as a bit-vector equation,  *)
(* and as the text the builder attached to the instruction, "(= v3 (+ v1   *)
(* v2))", which the refinement parser reads over the unbounded integers.   *)
(*                                                                         *)
(* Integers hold a word m in the machine and s in the solver.  A boolean   *)
(* is one solver bit, and in the machine a byte that is 1 when it is a     *)
(* literal or a parameter and all ones when a comparison made it.  Floats  *)
(* are counted in halves; the text attached to a float instruction, which  *)
(* the parser reads over integers of its own, is left out.                 *)
(***************************************************************************)
EXTENDS BitVectors, Sequences

CONSTANTS
    MaxValues, \* how many SSA values a run may define
    Literals,  \* the integer literals of the source
    Floats,    \* the floats, in halves, without NaN
    NaN,       \* not a number
    Excluded   \* the inputs that are left out, by name; see below

(* "wrap": results outside the signed range, and MIN // -1;                *)
(* "sign": % with a negative operand;  "shift": shifts by W or more;       *)
(* "bool": ~, not, ^, == and != of booleans no comparison made;            *)
(* "float": NaN, and an exp that underflows;                               *)
(* "refined": == and != of two values of refined types.                    *)
Exclusions ==
    {"wrap", "sign", "shift", "bool", "float", "refined", "slice", "alias", "text"}

ASSUME ScalarAssumption ==
    /\ MaxValues \in Nat
    /\ Literals \subseteq Word
    /\ Floats \subseteq Int /\ NaN \notin Floats /\ \A f \in Floats : Abs(f) \in Floats
    /\ Excluded \subseteq Exclusions

Keeps(exclusion, condition) == exclusion \in Excluded => condition

VARIABLES
    regs,     \* the SSA values defined so far, what each holds
    heap,     \* the memory the machine code works on, object by object
    held,     \* whether every formula asserted so far is true of the run
    flagged,  \* whether the run violates a safety check
    fault     \* what the machine did wrong, if anything

vars == <<regs, heap, held, flagged, fault>>

Faults == {"none", "trap", "out of bounds", "null", "domain"}

\* SSA values of a kind
Of(kind) == {r \in DOMAIN regs : regs[r].kind = kind}

\* The run goes on while nothing went wrong: a fault ends it, and a formula
\* that is false of it leaves the verdict open whatever comes next.
Running ==
    /\ fault = "none"
    /\ held
    /\ ~flagged
    /\ Len(regs) < MaxValues

\* One instruction: it defines reg, asserts the formula, queues checks of
\* which "violated" says whether one is true, faults or not, and leaves the
\* memory as given.
Effect(reg, formula, violated, wrong, memory) ==
    /\ Running
    /\ regs' = Append(regs, reg)
    /\ held' = formula
    /\ flagged' = violated
    /\ fault' = wrong
    /\ heap' = memory

Step(reg, formula, violated, wrong) == Effect(reg, formula, violated, wrong, heap)

\* one that the verifier only describes
Define(reg, formula) == Step(reg, formula, FALSE, "none")

----------------------------------------------------------------------------
\* refined: the value has a refinement, Positive = Refined[i64, x > 0]
Int2(m, s) == [kind |-> "int", m |-> m, s |-> s, refined |-> FALSE]
IntReg(w) == Int2(w, w)
RefinedReg(w) == [IntReg(w) EXCEPT !.refined = TRUE]
Float(f) == [kind |-> "float", m |-> f]
AllOnes == 2^W - 1
Bit(t) == IF t THEN 1 ELSE 0
Bool2(m, t) == [kind |-> "bool", m |-> m, s |-> Bit(t)]

\* lower_cmp and bmask: a comparison leaves a mask
Compared(t, s) == Bool2(IF t THEN AllOnes ELSE 0, s)
Masked(r) == regs[r].m \in {0, AllOnes}

(* What the interval analysis may know of a value, as far as it is asked.  *)
Knowledge == {"nothing", "positive", "negative"}
Knows(k, i) ==
    CASE k = "positive" -> i > 0
      [] k = "negative" -> i < 0
      [] OTHER -> TRUE
KnowsF(k, f) == k = "nothing" \/ (f # NaN /\ Knows(k, f))

(***************************************************************************)
(* The text of an instruction, as the refinement parser reads it.          *)
(***************************************************************************)
\* Z3's rem takes the sign of the divisor
ZRem(i, j) == IF j > 0 THEN i % j ELSE -(i % (-j))

\* parse_int_expr on (op l r), a variable being to_int(signed) of its word
ParseInt(op, l, r) ==
    CASE op = "+" -> Signed(l) + Signed(r)
      [] op = "-" -> Signed(l) - Signed(r)
      [] op = "*" -> Signed(l) * Signed(r)
      [] op = "%" -> ZRem(Signed(l), Signed(r))

\* parse_bv_expr, read back as a signed integer
ParseBv(op, l, r) ==
    Signed(CASE op = "&" -> BvAnd(l, r)
             [] op = "|" -> BvOr(l, r)
             [] op = "^" -> BvXor(l, r)
             [] op = "<<" -> BvShl(l, r)
             [] op = ">>" -> BvAShr(l, r))

\* translate_constraints: the result equals what the text says
Constraint(term, text) == Signed(term) = text

Relations == {"=", "!=", "<", "<=", ">", ">="}
Compare(op, i, j) ==
    CASE op = "=" -> i = j
      [] op = "!=" -> i # j
      [] op = "<" -> i < j
      [] op = "<=" -> i <= j
      [] op = ">" -> i > j
      [] op = ">=" -> i >= j

\* What the name of a value means where a boolean may stand: a value with a
\* refinement is there a number compared with zero, any other integer is not
\* a boolean.
ResolveBool(r) == IF r.refined THEN {r.s # 0} ELSE {}

\* parse_bool_expr on (op l r): as booleans if both names resolve to one
ParseCompare(op, l, r) ==
    LET asBools == \A x \in {l, r} : ResolveBool(x) # {}
    IN  IF op \in {"=", "!="} /\ asBools
        THEN (ResolveBool(l) = ResolveBool(r)) = (op = "=")
        ELSE Compare(op, Signed(l.s), Signed(r.s))

(***************************************************************************)
(* Integers.                                                               *)
(***************************************************************************)
Logic(op, a, b) ==
    CASE op = "&" -> BvAnd(a, b)
      [] op = "|" -> BvOr(a, b)
      [] op = "^" -> BvXor(a, b)

\* Add, Sub and Mul wrap, as bit-vectors
BvArithWide(op, l, r) ==
    CASE op = "+" -> l + r
      [] op = "-" -> ToWord(l - r)
      [] op = "*" -> ToWord(l * r)
BvArith(op, l, r) ==
    CASE op = "+" -> ToWord(l + r)
      [] op = "-" -> ToWord(l - r)
      [] op = "*" -> ToWord(l * r)

\* bin_op!: one machine instruction for each operator
Machine(op, a, b) ==
    CASE op \in {"+", "-", "*"} -> BvArith(op, a, b)
      [] op = "//" -> BvSDiv(a, b)
      [] op = "%" -> BvSRem(a, b)
      [] op \in {"&", "|", "^"} -> Logic(op, a, b)
      [] op = "<<" -> ClShl(a, b)
      [] op = ">>" -> ClAShr(a, b)
Traps(op, a, b) ==
    CASE op = "//" -> ClDivTraps(a, b)
      [] op = "%" -> ClRemTraps(a, b)

ConstInt ==
    \E w \in Literals : Define(IntReg(w), TRUE)

Arith ==
    \E op \in {"+", "-", "*"}, l, r \in Of("int") :
        LET exact == ParseInt(op, regs[l].m, regs[r].m)
            term == BvArith(op, regs[l].s, regs[r].s)
        IN  /\ Keeps("wrap", Fits(exact))
            /\ Define(Int2(Machine(op, regs[l].m, regs[r].m), term),
                      Constraint(term, ParseInt(op, regs[l].s, regs[r].s)))

\* FloorDiv and Mod of integers: SDiv and SRem.  The check of the divisor is
\* left out when its interval excludes zero.
DivRem ==
    \E op \in {"//", "%"}, l, r \in Of("int"), k \in Knowledge :
        LET a == regs[l]
            b == regs[r]
            zero == b.s = 0 /\ k = "nothing"
            term == IF op = "//" THEN BvSDiv(a.s, b.s) ELSE BvSRem(a.s, b.s)
        IN  /\ Knows(k, Signed(b.m))
            /\ Keeps("wrap", ~(a.m = MinInt /\ Signed(b.m) = -1))
            /\ Keeps("sign", op = "%" => Signed(a.m) >= 0 /\ Signed(b.m) >= 0)
            /\ Step(Int2(Machine(op, a.m, b.m), term),
                    op = "%" /\ b.s # 0 => Constraint(term, ParseInt(op, a.s, b.s)),
                    zero, IF Traps(op, a.m, b.m) THEN "trap" ELSE "none")

Neg ==
    \E r \in Of("int") :
        LET term == BvNeg(regs[r].s)
        IN  /\ Keeps("wrap", regs[r].m # MinInt)
            /\ Define(Int2(BvNeg(regs[r].m), term), Constraint(term, 0 - Signed(regs[r].s)))

\* abs, min and max of the source carry no text
BvAbs(w) == IF Signed(w) < 0 THEN BvNeg(w) ELSE w
AbsInt ==
    \E r \in Of("int") : Define(Int2(BvAbs(regs[r].m), BvAbs(regs[r].s)), TRUE)

Pick(op, a, b) ==
    IF (op = "min") = (Signed(a) < Signed(b)) THEN a ELSE b
MinMax ==
    \E op \in {"min", "max"}, l, r \in Of("int") :
        Define(Int2(Pick(op, regs[l].m, regs[r].m), Pick(op, regs[l].s, regs[r].s)), TRUE)

Avg ==
    \E l, r \in Of("int") :
        /\ Keeps("wrap", regs[l].m + regs[r].m + 1 < 2^W)
        /\ Define(Int2(ClAvg(regs[l].m, regs[r].m), BvAvg(regs[l].s, regs[r].s)), TRUE)

Bitwise ==
    \E op \in {"&", "|", "^"}, l, r \in Of("int") :
        LET term == Logic(op, regs[l].s, regs[r].s)
        IN  Define(Int2(Machine(op, regs[l].m, regs[r].m), term),
                   Constraint(term, ParseBv(op, regs[l].s, regs[r].s)))

Invert ==
    \E r \in Of("int") :
        Define(Int2(BvNot(regs[r].m), BvNot(regs[r].s)), TRUE)

\* << is Shl and >> is AShr
Shift ==
    \E op \in {"<<", ">>"}, l, r \in Of("int") :
        LET a == regs[l]
            n == regs[r]
            term == IF op = "<<" THEN BvShl(a.s, n.s) ELSE BvAShr(a.s, n.s)
        IN  /\ Keeps("shift", n.m < W)
            /\ Define(Int2(Machine(op, a.m, n.m), term),
                      Constraint(term, ParseBv(op, a.s, n.s)))

(***************************************************************************)
(* Booleans.                                                               *)
(***************************************************************************)
ConstBool ==
    \E t \in BOOLEAN : Define(Bool2(Bit(t), t), TRUE)

\* Comparisons of the source are the signed ones, whatever the type.
CompareInt ==
    \E op \in Relations, l, r \in Of("int") :
        LET a == regs[l]
            b == regs[r]
            t == Compare(op, Signed(a.s), Signed(b.s))
        IN  /\ Keeps("refined", op \in {"=", "!="} => ~(a.refined /\ b.refined))
            /\ Define(Compared(Compare(op, Signed(a.m), Signed(b.m)), t),
                      t = ParseCompare(op, a, b))

CompareBool ==
    \E op \in {"=", "!="}, l, r \in Of("bool") :
        /\ Keeps("bool", Masked(l) /\ Masked(r))
        /\ Define(Compared(Compare(op, regs[l].m, regs[r].m),
                           Compare(op, regs[l].s, regs[r].s)), TRUE)

\* & | ^ of booleans work on the bytes; the solver's And and Or are Boolean
LogicBool ==
    \E op \in {"&", "|", "^"}, l, r \in Of("bool") :
        /\ Keeps("bool", op = "^" => Masked(l) /\ Masked(r))
        /\ Define(Bool2(Machine(op, regs[l].m, regs[r].m),
                        Logic(op, regs[l].s, regs[r].s) = 1), TRUE)

\* not and ~ are the same instruction, a complement of the byte
NotBool ==
    \E r \in Of("bool") :
        /\ Keeps("bool", Masked(r))
        /\ Define(Bool2(BvNot(regs[r].m), regs[r].s = 0), TRUE)

(***************************************************************************)
(* Floats.  Results of the solver's side are unconstrained, but for the    *)
(* axioms of exp, sqrt and abs.                                            *)
(***************************************************************************)
FloatResults == Floats \cup (IF "float" \in Excluded THEN {} ELSE {NaN})
Pos(f) == f # NaN /\ f > 0
NonNeg(f) == f # NaN /\ f >= 0
Negative(f) == f # NaN /\ f < 0

FloatArith ==
    \E l, r \in Of("float"), f \in FloatResults : Define(Float(f), TRUE)

FDiv ==
    \E l, r \in Of("float"), f \in FloatResults, k \in Knowledge :
        /\ KnowsF(k, regs[r].m)
        /\ Step(Float(f), TRUE, k = "nothing" /\ regs[r].m = 0,
                IF regs[r].m = 0 THEN "domain" ELSE "none")

\* a root is positive, zero or NaN with its argument
FSqrt ==
    \E r \in Of("float"), f \in FloatResults, k \in {"nothing", "positive"} :
        LET x == regs[r].m
        IN  /\ KnowsF(k, x)
            /\ Pos(x) <=> Pos(f)
            /\ x = 0 => f = 0
            /\ Step(Float(f), Pos(x) => Pos(f), k = "nothing" /\ Negative(x),
                    IF Negative(x) THEN "domain" ELSE "none")

\* the domain the verifier gives pow: no negative base, and no zero base
\* with an exponent that is not positive
PowDomain(x, y) == ~Negative(x) /\ ~(x = 0 /\ (y = 0 \/ Negative(y)))
FPow ==
    \E l, r \in Of("float"), f \in FloatResults, k \in {"nothing", "positive"} :
        LET inside == PowDomain(regs[l].m, regs[r].m)
        IN  /\ KnowsF(k, regs[l].m)
            /\ Step(Float(f), TRUE, k = "nothing" /\ ~inside,
                    IF inside THEN "none" ELSE "domain")

FExp ==
    \E r \in Of("float"), f \in FloatResults :
        /\ regs[r].m = NaN <=> f = NaN
        /\ f # NaN => f >= 0
        /\ Keeps("float", f > 0)
        /\ Define(Float(f), Pos(f))

FAbs ==
    \E r \in Of("float") :
        LET x == regs[r].m
            f == IF x = NaN THEN NaN ELSE Abs(x)
        IN  Define(Float(f), NonNeg(f))

\* the machine compares as IEEE says; the equality of the solver is that of
\* its terms, of which NaN is one
Ieee(op, x, y) == IF NaN \in {x, y} THEN op = "!=" ELSE Compare(op, x, y)
FloatTerms(op, x, y) ==
    IF op \in {"=", "!="} THEN (x = y) = (op = "=") ELSE Ieee(op, x, y)
CompareFloat ==
    \E op \in Relations, l, r \in Of("float") :
        Define(Compared(Ieee(op, regs[l].m, regs[r].m), FloatTerms(op, regs[l].m, regs[r].m)), TRUE)

\* Conversions are unconstrained; the one to an integer traps on NaN.
IToF == \E r \in Of("int"), f \in Floats : Define(Float(f), TRUE)
FToI ==
    \E r \in Of("float") :
        IF regs[r].m = NaN
        THEN Step(IntReg(0), TRUE, FALSE, "trap")
        ELSE Define(IntReg(ToWord(Trunc(regs[r].m, 2))), TRUE)

(***************************************************************************)
(* The expressions of the source, which become one instruction or another  *)
(* by the types of their operands.                                         *)
(***************************************************************************)
Constant == ConstInt \/ ConstBool
VisitBinop == Arith \/ DivRem \/ Bitwise \/ Shift \/ LogicBool \/ FloatArith \/ FDiv
VisitUnaryOp == Neg \/ Invert \/ NotBool
MathCall == AbsInt \/ MinMax \/ Avg \/ FSqrt \/ FPow \/ FExp \/ FAbs
ScalarNext == Constant \/ VisitBinop \/ VisitUnaryOp \/ MathCall \/ IToF \/ FToI

=============================================================================
