------------------------------ MODULE Intervals ------------------------------
(***************************************************************************)
(* The interval analysis of lirien-ir (analysis/interval): a range for     *)
(* every SSA value, and narrower ones in blocks behind a comparison.  The  *)
(* verifier asserts the ranges and skips the checks they answer.           *)
(*                                                                         *)
(* A bound of the code is a double.  The words modelled here are narrower  *)
(* than its 53 bits, so bounds are exact integers.                         *)
(***************************************************************************)
EXTENDS IrFunctions

Inf == 2^(2 * W + 8)  \* PosInf; finite bounds stay below it
Interval(low, high) == [low |-> low, high |-> high]
Everything == Interval(-Inf, Inf)
Point(i) == Interval(i, i)
OfType == Interval(-Half, Half - 1)

Larger(i, j) == IF i < j THEN j ELSE i
Smaller(i, j) == IF i < j THEN i ELSE j
Meet(x, y) == Interval(Larger(x.low, y.low), Smaller(x.high, y.high))
Join(x, y) == Interval(Smaller(x.low, y.low), Larger(x.high, y.high))
Widen(x, y) == Interval(IF y.low < x.low THEN -Inf ELSE x.low,
                        IF y.high > x.high THEN Inf ELSE x.high)

\* the infinity that decides a sum is looked for first
Plus(a, b, inf) ==
    IF inf \in {a, b} THEN inf ELSE IF -inf \in {a, b} THEN -inf ELSE a + b
AddRange(x, y) == Interval(Plus(x.low, y.low, -Inf), Plus(x.high, y.high, Inf))
NegRange(x) == Interval(-x.high, -x.low)
SubRange(x, y) == AddRange(x, NegRange(y))
MulRange(x, y) ==
    IF {x.low, x.high, y.low, y.high} \cap {-Inf, Inf} = {}
    THEN LET P == {q[1] * q[2] : q \in {x.low, x.high} \X {y.low, y.high}}
         IN  Interval(Min(P), Max(P))
    ELSE Interval(IF x.low >= 0 /\ y.low >= 0 THEN x.low * y.low ELSE -Inf, Inf)
SquareRange(x) == LET p == MulRange(x, x) IN Interval(Larger(p.low, 0), p.high)
AbsRange(x) ==
    Interval(IF x.low >= 0 THEN x.low ELSE IF x.high <= 0 THEN -x.high ELSE 0,
             IF x.low = -Inf \/ x.high = Inf THEN Inf ELSE Larger(Abs(x.low), Abs(x.high)))

\* a bound beyond the type on its own side is given up, on the other side it
\* is moved to the end of the type
Clamp(x) ==
    Interval(IF x.low < -Half THEN -Inf ELSE Smaller(x.low, Half - 1),
             IF x.high >= Half THEN Inf ELSE Larger(x.high, -Half))

\* the numbers that compare with n as the operation says
SideStrict(op, n) ==  \* <= read as <
    IF op \in {"<", "<="} THEN Interval(-Inf, n - 1)
    ELSE IF op = ">" THEN Interval(n + 1, Inf)
    ELSE IF op = ">=" THEN Interval(n, Inf)
    ELSE IF op = "=" THEN Point(n) ELSE Everything
Side(op, n) ==
    CASE op = "<" -> Interval(-Inf, n - 1)
      [] op = "<=" -> Interval(-Inf, n)
      [] op = ">" -> Interval(n + 1, Inf)
      [] op = ">=" -> Interval(n, Inf)
      [] op = "=" -> Point(n)
      [] op = "#" -> Everything
Mirror == [o \in {"<", "<=", ">", ">=", "=", "#"} |->
    CASE o = "<" -> ">" [] o = "<=" -> ">=" [] o = ">" -> "<" [] o = ">=" -> "<=" [] OTHER -> o]
Negate == [o \in {"<", "<=", ">", ">=", "=", "#"} |->
    CASE o = "<" -> ">=" [] o = "<=" -> ">" [] o = ">" -> "<=" [] o = ">=" -> "<"
      [] o = "=" -> "#" [] o = "#" -> "="]

\* parse_refinement_bounds, of a conjunction: what it says of x and a literal
Bounds(ps, x) ==
    LET Of(p) == IF p.l = x /\ p.r.k = "lit" THEN Side(p.op, p.r.n)
                 ELSE IF p.r = x /\ p.l.k = "lit" THEN Side(Mirror[p.op], p.l.n)
                 ELSE Everything
    IN  FoldSet(LAMBDA p, i : Meet(i, Of(p)), Everything, ps)

(***************************************************************************)
(* The state of the analysis: iv has a range for some values, nar for some *)
(* values in some blocks.                                                  *)
(***************************************************************************)
NewAnalysis(f) ==
    [iv |-> [p \in Params(f) |-> Meet(OfType, Bounds(f.contract.refs, Val(p)))],
     nar |-> <<>>, changed |-> TRUE, iterations |-> 0]

Known(an, v, b) == <<v, b>> \in DOMAIN an.nar \/ v \in DOMAIN an.iv
RangeAt(an, v, b) == IF <<v, b>> \in DOMAIN an.nar THEN an.nar[<<v, b>>] ELSE an.iv[v]

\* the ranges of one block are those of another, where it has none yet
Carry(an, from, to) ==
    LET new == {<<v, to>> : v \in {k[1] : k \in {k \in DOMAIN an.nar : k[2] = from}}} \ DOMAIN an.nar
    IN  IF new = {} THEN an
        ELSE [an EXCEPT !.nar = @ @@ [k \in new |-> an.nar[<<k[1], from>>]], !.changed = TRUE]

Inherit(f, an, b) ==
    IF Cardinality(f.preds[b]) = 1 THEN Carry(an, CHOOSE p \in f.preds[b] : TRUE, b) ELSE an

\* the new range of what an instruction defines, if its operands have one
Transfer(f, an, b, inst) ==
    LET Of(v) == RangeAt(an, v, b)
        binary == Known(an, inst.a, b) /\ Known(an, inst.b, b)
    IN  CASE inst.op = "const" -> {Point(inst.a)}
          [] inst.op = "call" -> {Meet(OfType, Bounds(f.callee.ret, Result))}
          [] inst.op = "add" /\ binary -> {Clamp(AddRange(Of(inst.a), Of(inst.b)))}
          [] inst.op = "sub" /\ binary -> {Clamp(SubRange(Of(inst.a), Of(inst.b)))}
          [] inst.op = "mul" /\ binary ->
                {Clamp(IF inst.a = inst.b THEN SquareRange(Of(inst.a))
                                          ELSE MulRange(Of(inst.a), Of(inst.b)))}
          [] inst.op = "neg" /\ binary -> {Clamp(NegRange(Of(inst.a)))}
          [] inst.op = "abs" /\ binary -> {Clamp(AbsRange(Of(inst.a)))}
          [] OTHER -> {}

\* a phi joins the ranges of its operands, those that have one, and is
\* widened after ten passes
WidenAfter == 10
TransferPhiKept(an, phi) ==  \* never widened
    LET known == {p \in DOMAIN phi.in : Known(an, phi.in[p], p)}
        ranges == {RangeAt(an, phi.in[p], p) : p \in known}
    IN  IF known = {} THEN {} ELSE {FoldSet(Join, CHOOSE r \in ranges : TRUE, ranges)}
TransferPhi(an, phi) ==
    LET known == {p \in DOMAIN phi.in : Known(an, phi.in[p], p)}
        ranges == {RangeAt(an, phi.in[p], p) : p \in known}
        joined == FoldSet(Join, CHOOSE r \in ranges : TRUE, ranges)
    IN  IF known = {} THEN {}
        ELSE IF an.iterations > WidenAfter /\ phi.d \in DOMAIN an.iv
             THEN {Widen(an.iv[phi.d], joined)} ELSE {joined}

Update(an, v, ranges) ==
    IF ranges = {} \/ (v \in DOMAIN an.iv /\ {an.iv[v]} = ranges) THEN an
    ELSE [an EXCEPT !.iv = (v :> CHOOSE r \in ranges : TRUE) @@ @, !.changed = TRUE]

\* narrow_branch_intervals: the left operand is narrowed on both sides of a
\* branch, for an equality the right one too
NarrowBranch(an, c, then, else) ==
    LET Global(v) == IF v \in DOMAIN an.iv THEN an.iv[v] ELSE Everything
        l == Global(c.a)
        r == Global(c.b)
        Order(op, to) == LET n == IF op \in {"<", "<="} THEN r.high ELSE r.low
                         IN  IF n \in {-Inf, Inf} THEN <<>>
                             ELSE <<c.a, to>> :> Meet(l, Side(op, n))
        n == r.low
        new == CASE c.op \in {"<", "<=", ">", ">="} -> Order(c.op, then) @@ Order(Negate[c.op], else)
                 [] c.op = "=" -> (<<c.a, then>> :> Meet(l, r)) @@ (<<c.b, then>> :> Meet(l, r))
                 [] c.op = "#" /\ r = Point(n) ->
                       (<<c.a, else>> :> r) @@
                       (IF l.low = n THEN <<c.a, then>> :> Interval(n + 1, l.high)
                        ELSE IF l.high = n THEN <<c.a, then>> :> Interval(l.low, n - 1) ELSE <<>>)
                 [] OTHER -> <<>>
    IN  [an EXCEPT !.nar = new @@ @]

Leave(f, an, b) ==
    LET term == f.blocks[b].term
        tests == {i \in Range(f.blocks[b].code) :
                     i.op \in DOMAIN Negate /\ i.d = term.c}
    IN  CASE term.k = "jump" -> Carry(an, b, term.to[1])
          [] term.k = "branch" /\ tests # {} ->
                NarrowBranch(an, CHOOSE c \in tests : TRUE, term.to[1], term.to[2])
          [] OTHER -> an

VisitBlock(f, an, b) ==
    LET phis == FoldLeft(LAMBDA a, phi : Update(a, phi.d, TransferPhi(a, phi)),
                         Inherit(f, an, b), f.blocks[b].phis)
        code == FoldLeft(LAMBDA a, inst : Update(a, inst.d, Transfer(f, a, b, inst)),
                         phis, f.blocks[b].code)
    IN  Leave(f, code, b)

\* one round of the loop of analyze
Pass(f, an) ==
    FoldLeft(LAMBDA a, b : VisitBlock(f, a, b),
             [an EXCEPT !.changed = FALSE, !.iterations = @ + 1], [b \in DOMAIN f.blocks |-> b])

MaxIterations == 50
Unfinished(an) == an.changed /\ an.iterations < MaxIterations

(***************************************************************************)
(* What the verifier makes of it.                                          *)
(***************************************************************************)
\* the bounds are asserted as words
In(w, x) ==
    /\ x.low # -Inf => Signed(ToWord(x.low)) <= Signed(w)
    /\ x.high # Inf => Signed(w) <= Signed(ToWord(x.high))

\* the divisor is known not to be zero, so the check is skipped
NeverNegative(an, v) == v \in DOMAIN an.iv /\ (an.iv[v].low >= 0 \/ an.iv[v].high < 0)  \* or zero
NeverZero(an, v) == v \in DOMAIN an.iv /\ (an.iv[v].low > 0 \/ an.iv[v].high < 0)

\* infer_return_refinement: what the caller will be told of the result
Returns(f, an) ==
    {b \in DOMAIN f.blocks : f.blocks[b].term.k = "return" /\ Known(an, f.blocks[b].term.v, b)}
InferredLast(f, an) ==  \* of the last return only
    LET b == Max(Returns(f, an)) IN RangeAt(an, f.blocks[b].term.v, b)
InferredReturn(f, an) ==
    LET ranges == {RangeAt(an, f.blocks[b].term.v, b) : b \in Returns(f, an)}
    IN  IF ranges = {} THEN Everything ELSE FoldSet(Join, CHOOSE r \in ranges : TRUE, ranges)

=============================================================================
