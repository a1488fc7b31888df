------------------------------ MODULE MCVcFlow -------------------------------
(***************************************************************************)
(* Functions for the checks of VcFlow, each as the builder leaves it.      *)
(***************************************************************************)
EXTENDS VcFlow

Opt(S) == {{}} \cup {{p} : p \in S}
NonZero(v) == Pred("#", Val(v), Lit(0))
Positive(v) == Pred("<", Lit(0), Val(v))
Below(v, w) == Pred("<", Val(v), Val(w))
ResultIsNot0 == Pred("#", Result, Lit(0))

Callee(refs, pre, ret, raises) == [refs |-> refs, pre |-> pre, ret |-> ret, raises |-> raises]
NoCallee == Callee({}, {}, {}, {})

\* return a // b
Straight ==
    {Function(2, Contract(refs, pre, ret, {}, {}), NoCallee,
        <<Block(<<>>, <<Div(3, 1, 2)>>, Return(3))>>) :
            refs \in Opt({Positive(1), Pred("<", Lit(1), Lit(0))}),
            pre \in Opt({NonZero(2), Below(1, 2), Below(1, 1)}),
            ret \in Opt({ResultIsNot0})}

\* x = k if a op b else a + b;  a // x;  return x
Diamonds ==
    {Function(2, Contract({}, pre, ret, post, {}), NoCallee,
        <<Block(<<>>, <<Test(op, 3, 1, 2)>>, Branch(3, 2, 3)),
          Block(<<>>, <<Const(4, k)>>, Jump(4)),
          Block(<<>>, <<Add(5, 1, 2)>>, Jump(4)),
          Block(<<Phi(6, (2 :> 4) @@ (3 :> 5))>>, <<Div(7, 1, 6)>>, Return(6))>>) :
            op \in {"<", "#"}, k \in {0, 1},
            pre \in Opt({Positive(1)}),
            ret \in Opt({ResultIsNot0}),
            post \in Opt({Pred("<=", Val(2), Result)})}

\* x = a + b;  assert x op y;  return a // x
Asserts ==
    {Function(2, Contract({}, pre, {}, {}, {}), NoCallee,
        <<Block(<<>>, <<Add(3, 1, 2), Const(6, 0), Test(op, 4, 3, y), Check(4), Div(5, 1, 3)>>,
                Return(5))>>) :
            op \in {"#", "<"}, y \in {2, 6}, pre \in Opt({NonZero(1), NonZero(2)})}

\* r = f(...);  a // r;  return r
Propagated(args, contract, callee) ==
    Function(2, contract, callee,
        <<Block(<<>>, <<Const(3, 1), Add(4, 1, 3), Call(5, args), GetExc(6), Const(7, 0), Test("#", 8, 6, 7)>>,
                Branch(8, 3, 2)),
          Block(<<>>, <<Div(9, 1, 5)>>, Return(5)),
          Block(<<>>, <<Const(10, 0)>>, Return(10))>>)
\* none of these puts one parameter in the place of another
Calls ==
    {Propagated(args, Contract({}, pre, ret, {}, {}), Callee(refs, cpre, cret, raises)) :
        args \in {<<1, 2>>, <<4, 3>>},
        pre \in {{Positive(1)}},
        refs \in Opt({Positive(1)}),
        cpre \in Opt({Below(2, 1)}),
        ret \in Opt({ResultIsNot0}), cret \in Opt({ResultIsNot0}),
        raises \in {{}, {1}}}

\* i = -2; while i < a: assert inv; a // x; i = i + 1.  b // y;  return i
Loops ==
    {Function(2, Contract({}, pre, {}, post, invs), NoCallee,
        <<Block(<<>>, <<Const(3, -2)>>, Jump(2)),
          Block(<<Phi(4, (1 :> 3) @@ (3 :> 6))>>, <<Test("<", 5, 4, 1)>>, Branch(5, 3, 4)),
          Block(<<>>, <<Div(8, 1, x), Const(7, 1), Add(6, 4, 7)>>, Jump(2)),
          Block(<<>>, <<Div(9, 2, y)>>, Return(4))>>) :
            x \in {1, 2, 4}, y \in {1, 4},
            pre \in Opt({Positive(1), NonZero(2)}),
            post \in Opt({Pred("<=", Val(1), Result)}),
            invs \in Opt({[header |-> 2, pred |-> Pred("<=", Val(4), Val(1))],
                          [header |-> 2, pred |-> Pred("#", Val(4), Lit(0))],
                          [header |-> 2, pred |-> Pred("<=", Val(4), Val(2))]})}

\* i and j from -2:  for i < a: for j < b: a // x.  a // y
Nested ==
    {Function(2, Contract({}, pre, {}, {}, {}), NoCallee,
        <<Block(<<>>, <<Const(3, -2), Const(4, 1)>>, Jump(2)),
          Block(<<Phi(5, (1 :> 3) @@ (6 :> 11))>>, <<Test("<", 6, 5, 1)>>, Branch(6, 3, 7)),
          Block(<<>>, <<>>, Jump(4)),
          Block(<<Phi(7, (3 :> 3) @@ (5 :> 9))>>, <<Test("<", 8, 7, 2)>>, Branch(8, 5, 6)),
          Block(<<>>, <<Div(10, 1, x), Add(9, 7, 4)>>, Jump(4)),
          Block(<<>>, <<Add(11, 5, 4)>>, Jump(2)),
          Block(<<>>, <<Div(12, 1, y)>>, Return(5))>>) :
            x \in {1, 2, 7}, y \in {2, 4}, pre \in Opt({NonZero(2)})}

\* if a op b: raise E1.  if b == 0: raise E2.  return a // b
Raises ==
    {Function(2, Contract({}, {}, ret, {}, {}), NoCallee,
        <<Block(<<>>, <<Test(op, 3, 1, 2)>>, Branch(3, 2, 3)),
          Block(<<>>, <<Const(4, 1), SetExc(4), Const(5, 0)>>, Return(5)),
          Block(<<>>, <<Const(6, 0), Test("=", 7, 2, x)>>, Branch(7, 4, 5)),
          Block(<<>>, <<Const(8, 2), SetExc(8), Const(9, 0)>>, Return(9)),
          Block(<<>>, <<Div(10, 1, 2)>>, Return(1))>>) :
            op \in {"<", "#"}, x \in {1, 6}, ret \in Opt({ResultIsNot0, Pred("<=", Val(2), Result)})}

\* try: if a op b: raise E  except E': ...  merge: a // phi
Tries ==
    {Function(2, Contract({}, {NonZero(2)}, ret, {}, {}), NoCallee,
        <<Block(<<>>, <<Test(op, 3, 1, 2)>>, Branch(3, 3, 4)),
          Block(<<>>, <<GetExc(5), Const(6, 1), Test("=", 7, 5, 6)>>, Branch(7, 6, 7)),
          Block(<<>>, <<Const(4, tag), SetExc(4)>>, Jump(2)),
          Block(<<>>, <<>>, Jump(5)),
          Block(<<Phi(10, (4 :> 2) @@ (6 :> x))>>, <<Div(11, 1, 10)>>, Return(10)),
          Block(<<>>, <<Const(8, 0), SetExc(8)>>, Jump(5)),
          Block(<<>>, <<Const(9, 0)>>, Return(9))>>) :
            op \in {"<", "#", "="}, x \in {1, 6}, tag \in {1, 2}, ret \in Opt({ResultIsNot0})}

\* try: r = f(a, b)  except E: r = a.  f(...) again, and a // r
CaughtCalls ==
    {Function(2, Contract({}, {}, ret, {}, {}), Callee({}, {}, cret, raises),
        <<Block(<<>>, <<Call(3, <<1, 2>>), GetExc(4), Const(5, 0), Test("#", 6, 4, 5)>>, Branch(6, 2, 3)),
          Block(<<>>, <<GetExc(7), Const(8, 1), Test("=", 9, 7, 8)>>, Branch(9, 5, 6)),
          Block(<<>>, <<>>, Jump(4)),
          Block(<<Phi(10, (3 :> 3) @@ (5 :> x))>>,
                <<Call(11, <<1, 10>>), GetExc(12), Const(13, 0), Test("#", 14, 12, 13)>>, Branch(14, 8, 7)),
          Block(<<>>, <<Const(15, 0), SetExc(15)>>, Jump(4)),
          Block(<<>>, <<Const(16, 0)>>, Return(16)),
          Block(<<>>, <<Div(17, 1, 10)>>, Return(11)),
          Block(<<>>, <<Const(18, 0)>>, Return(18))>>) :
            x \in {1, 8}, ret \in Opt({ResultIsNot0}),
            cret \in Opt({ResultIsNot0}), raises \in {{1}, {1, 2}}}

\* if a op k: return b // a.  return a // x, where x is made of a
Narrowed ==
    {Function(2, Contract(refs, {}, ret, {}, {}), NoCallee,
        <<Block(<<>>, <<Const(3, k), Test(op, 4, 1, 3)>>, Branch(4, 2, 3)),
          Block(<<>>, <<Div(5, 2, 1)>>, Return(2)),
          Block(<<>>, <<made, Div(7, 1, 6)>>, Return(6))>>) :
            k \in {-1, 0}, op \in {"<", "<=", ">", ">=", "=", "#"},
            made \in {Neg(6, 1), AbsOf(6, 1), Sub(6, 3, 1)},
            refs \in Opt({NonZero(2), Positive(2)}), ret \in Opt({ResultIsNot0})}

\* s = a op b;  t = s + s;  return a // t
Sums ==
    {Function(2, Contract(refs, {}, {}, {}, {}), NoCallee,
        <<Block(<<>>, <<op, Add(4, 3, 3), Div(5, 1, 4)>>, Return(4))>>) :
            op \in {Add(3, 1, 2), Mul(3, 1, 2), Mul(3, 1, 1), Sub(3, 1, 2)},
            refs \in {{Positive(1), Positive(2)}, {Pred("<", Val(1), Lit(0)), Positive(2)}}}

\* if a op 0: x = 1  else: x = -1.  return x // a
Joined ==
    {Function(1, Contract({}, {}, {}, {}, {}), NoCallee,
        <<Block(<<>>, <<Const(2, 0), Test(op, 3, 1, 2)>>, Branch(3, 2, 3)),
          Block(<<>>, <<Const(4, 1)>>, Jump(4)),
          Block(<<>>, <<Const(5, -1)>>, Jump(4)),
          Block(<<Phi(6, (2 :> 4) @@ (3 :> 5))>>, <<Div(7, 6, 1)>>, Return(7))>>) :
            op \in {">", "#"}}

\* a // b;  i = -2;  while i < a: if i = 1: skip.  i = i + 1
Emptied ==
    {Function(2, Contract({}, {}, ret, {}, {}), NoCallee,
        <<Block(<<>>, <<Div(3, 1, 2), Const(4, -2), Const(5, 1)>>, Jump(2)),
          Block(<<Phi(6, (1 :> 4) @@ (5 :> 9))>>, <<Test("<", 7, 6, 1)>>, Branch(7, 3, 6)),
          Block(<<>>, <<Test("=", 8, 6, 5)>>, Branch(8, 4, 5)),
          Block(<<>>, <<>>, Jump(5)),
          Block(<<>>, <<Add(9, 6, 5)>>, Jump(2)),
          Block(<<>>, <<>>, Return(2))>>) : ret \in Opt({ResultIsNot0})}

\* f(b, a), of a function that asks a <= b, or a < b
Swapped ==
    {Propagated(<<2, 1>>, NoContract, Callee({}, {Pred(op, Val(1), Val(2))}, {ResultIsNot0}, {})) :
        op \in {"<=", "<"}}

Plain == Straight \cup Diamonds \cup Asserts \cup Calls
AllFuncs == Plain \cup Narrowed \cup Sums \cup Joined \cup Emptied \cup Loops \cup Nested \cup Raises \cup Tries \cup CaughtCalls

=============================================================================
