------------------------- MODULE MCCompilePipeline -------------------------
(* Sources for the runs: a callee g in three versions (two with the same     *)
(* signature), a caller f, a recursive h in two versions, and a caller m     *)
(* with a nested function in two versions.                                   *)
EXTENDS CompilePipeline, TLC

CONSTANTS p1, p2, f, g, h, m, lam,
          f1, g1, g2, g3, h1, h2, m1, m2, s1, s2

\* An unverified compilation infers no return refinement, so g1 has another
\* signature when it is compiled by @jit.
Same(s) == [b \in BOOLEAN |-> s]
Fn(n, cs, ph, sg) == [name |-> n, calls |-> cs, phis |-> ph, sig |-> sg]

AllParts ==
  f1 :> <<Fn(f, {g}, FALSE, Same(s1))>> @@
  g1 :> <<Fn(g, {}, FALSE, [b \in BOOLEAN |-> IF b THEN s1 ELSE s2])>> @@
  g2 :> <<Fn(g, {}, FALSE, Same(s1))>> @@
  g3 :> <<Fn(g, {}, FALSE, Same(s2))>> @@
  h1 :> <<Fn(h, {h}, TRUE, Same(s1))>> @@
  h2 :> <<Fn(h, {h}, TRUE, Same(s2))>> @@
  m1 :> <<Fn(lam, {}, FALSE, Same(s1)), Fn(m, {lam, g}, TRUE, Same(s1))>> @@
  m2 :> <<Fn(lam, {}, FALSE, Same(s2)), Fn(m, {lam, g}, TRUE, Same(s1))>>

MCParts == [d \in Def |-> AllParts[d]]
MCMain  == [d \in Def |-> AllParts[d][Len(AllParts[d])].name]
Symm == Permutations(Proc)
=============================================================================
