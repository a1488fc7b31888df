------------------------------ MODULE MCMidend -------------------------------
(***************************************************************************)
(* Functions of one parameter for the checks of Midend.                    *)
(***************************************************************************)
EXTENDS Midend

NoCallee == NoContract
Of(refs, blocks) == Function(1, Contract(refs, {}, {}, {}, {}), NoCallee, blocks)
AtLeast(k) == Pred(">=", Val(1), Lit(k))
AtMost(k) == Pred(">=", Lit(k), Val(1))

\* i = start; while i op a: i = i + step;  b = i * 2 - step;  return b or i
Counting ==
    {Of(refs, <<Block(<<>>, <<Const(2, k[2]), Const(3, k[3])>>, Jump(2)),
                Block(<<Phi(4, (1 :> 2) @@ (3 :> 6))>>, <<Test(k[1], 5, 4, 1)>>, Branch(5, 3, 4)),
                Block(<<>>, <<Add(6, 4, 3)>>, Jump(2)),
                Block(<<>>, <<Const(7, 2), Mul(8, 4, 7), Sub(9, 8, 3)>>, Return(r))>>) :
        k \in {<<"<", 0, 1>>, <<"<=", -3, 1>>, <<"<", 0, 5>>, <<">", 9, -1>>, <<">=", 3, -2>>, <<"#", 0, 1>>},
        r \in {4, 9},
        refs \in {{}, {AtLeast(0), AtMost(20)}}}

\* s = start; i = 0;  while i < a: s = s op i;  i = i + 1.  return s or |s|
Summing ==
    {Of({AtMost(20)},
        <<Block(<<>>, <<Const(2, k), Const(3, 1), Const(4, 0)>>, Jump(2)),
          Block(<<Phi(5, (1 :> 4) @@ (3 :> 9)), Phi(6, (1 :> 2) @@ (3 :> 8))>>,
                <<Test("<", 7, 5, 1)>>, Branch(7, 3, 4)),
          Block(<<>>, <<op, Add(9, 5, 3)>>, Jump(2)),
          Block(<<>>, <<AbsOf(10, 6)>>, Return(r))>>) :
        k \in {0, 7}, op \in {Add(8, 6, 5), Sub(8, 5, 6), Mul(8, 6, 6), Neg(8, 6)}, r \in {6, 10}}

\* if a op k: return the one.  if a op' k': return the other.  return a
Clamping ==
    {Of({}, <<Block(<<>>, <<Const(2, k), Test(o, 3, 1, 2)>>, Branch(3, 2, 3)),
              Block(<<>>, <<Neg(4, 1)>>, Return(r)),
              Block(<<>>, <<Const(5, 9), Test(p, 6, 1, 5)>>, Branch(6, 4, 5)),
              Block(<<>>, <<AbsOf(7, 1), Mul(8, 1, 1)>>, Return(s)),
              Block(<<>>, <<Sub(9, 2, 1)>>, Return(1))>>) :
        k \in {-64, 1}, o \in DOMAIN Negate, p \in DOMAIN Negate, r \in {2, 4}, s \in {5, 7}}

\* constants, calls, values nobody uses, and a division among them
Folding ==
    {Of({}, <<Block(<<>>, <<Const(2, k), Const(3, 5), op, Neg(5, 4), Div(6, 1, 4), Call(7, <<1, 5>>)>>, Jump(2)),
              Block(<<>>, <<Add(8, 4, 1), Add(9, 5, 3), Test("<", 10, 1, x)>>, Branch(10, 3, 4)),
              Block(<<>>, <<Call(11, <<9>>), Check(10), Mul(12, 9, 2)>>, Jump(5)),
              Block(<<>>, <<Sub(13, 3, 2), Add(14, 13, 7)>>, Jump(5)),
              Block(<<Phi(15, (3 :> 12) @@ (4 :> 13)), Phi(16, (3 :> 8) @@ (4 :> 14))>>,
                    <<Test("<", 17, 1, 15), Check(17)>>, Return(r))>>) :
        k \in {-2, 3}, op \in {Add(4, 2, 3), Sub(4, 3, 2), Mul(4, 2, 3)}, x \in {5, 8}, r \in {15, 16}}

AllFuncs == Counting \cup Summing \cup Clamping \cup Folding

\* i = 0;  while i < a: if i = k: skip.  i = i + 1.  return i
Skipping ==
    {Of({AtMost(20)},
        <<Block(<<>>, <<Const(2, 0), Const(3, 1), Const(4, k)>>, Jump(2)),
          Block(<<Phi(5, (1 :> 2) @@ (5 :> 8))>>, <<Test("<", 6, 5, 1)>>, Branch(6, 3, 6)),
          Block(<<>>, <<Test("=", 7, 5, 4)>>, Branch(7, 4, 5)),
          Block(<<>>, <<>>, Jump(5)),
          Block(<<>>, <<Add(8, 5, 3)>>, Jump(2)),
          Block(<<>>, <<>>, Return(5))>>) :
        k \in {0, 7}}

=============================================================================
