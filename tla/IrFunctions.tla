----------------------------- MODULE IrFunctions -----------------------------
(***************************************************************************)
(* The functions of lirien-ir as the passes, the verifier and the machine  *)
(* read them, with the contracts the builder records for them.             *)
(*                                                                         *)
(* A function is a sequence of blocks, in the order the builder made them; *)
(* block 1 is the entry.  Its SSA values are numbered, the parameters      *)
(* first; value 0 is the pointer to the exception word.                    *)
(***************************************************************************)
EXTENDS BitVectors, Sequences, SequencesExt

(***************************************************************************)
(* Contracts: comparisons of two values, literals, or the result.          *)
(***************************************************************************)
Val(n) == [k |-> "val", n |-> n]
Lit(i) == [k |-> "lit", n |-> i]
Result == [k |-> "result", n |-> 0]
Pred(op, l, r) == [op |-> op, l |-> l, r |-> r]

Bit(t) == IF t THEN 1 ELSE 0
Compare(op, i, j) ==
    CASE op = "<" -> i < j
      [] op = "<=" -> i <= j
      [] op = ">" -> i > j
      [] op = ">=" -> i >= j
      [] op = "=" -> i = j
      [] op = "#" -> i # j

Denotes(x, env, result) ==
    CASE x.k = "val" -> Signed(env[x.n])
      [] x.k = "lit" -> x.n
      [] x.k = "result" -> Signed(result)
Holds(p, env, result) == Compare(p.op, Denotes(p.l, env, result), Denotes(p.r, env, result))
Satisfied(ps, env) == \A p \in ps : Holds(p, env, 0)

(***************************************************************************)
(* Functions.  The code of a block is a sequence of instructions; phis and *)
(* the terminator are kept apart.                                          *)
(***************************************************************************)
Inst(op, d, a, b) == [op |-> op, d |-> d, a |-> a, b |-> b, args |-> <<>>]
Const(d, i) == Inst("const", d, i, 0)
Add(d, a, b) == Inst("add", d, a, b)
Sub(d, a, b) == Inst("sub", d, a, b)
Mul(d, a, b) == Inst("mul", d, a, b)
Neg(d, a) == Inst("neg", d, a, a)
AbsOf(d, a) == Inst("abs", d, a, a)
Test(op, d, a, b) == Inst(op, d, a, b)   \* op is one of < <= > >= = #
Div(d, a, b) == Inst("div", d, a, b)
Check(c) == Inst("assert", 0, c, 0)
SetExc(a) == Inst("setexc", 0, a, 0)      \* PointerStore(v0, a)
GetExc(d) == Inst("getexc", d, 0, 0)      \* PointerLoad(d, v0)
Call(d, args) == [Inst("call", d, 0, 0) EXCEPT !.args = args]
Phi(d, in) == [op |-> "phi", d |-> d, in |-> in]

Jump(t) == [k |-> "jump", c |-> 0, to |-> <<t>>, v |-> 0]
Branch(c, t, f) == [k |-> "branch", c |-> c, to |-> <<t, f>>, v |-> 0]
Return(v) == [k |-> "return", c |-> 0, to |-> <<>>, v |-> v]
Block(phis, code, term) == [phis |-> phis, code |-> code, term |-> term]

Defines(inst) == inst.op \notin {"assert", "setexc"}

\* What the builder's tables say of a function: its own contract, that of
\* the function it calls, and the order verify_with_context translates in.
Function(args, contract, callee, blocks) ==
    LET B == DOMAIN blocks
        edges == UNION {{<<s, t>> : t \in Range(blocks[s].term.to)} : s \in B}
        longer(R) == {<<q[1][1], q[2][2]>> : q \in {q \in R \X edges : q[1][2] = q[2][1]}}
        paths == FoldLeft(LAMBDA R, b : R \cup longer(R), {<<b, b>> : b \in B}, blocks)
        site(b) == LET insts == blocks[b].phis \o blocks[b].code
                   IN  [i \in DOMAIN insts |-> [b |-> b, inst |-> insts[i]]]
        sites == FlattenSeq([b \in B |-> site(b)])
    IN  [args |-> args, contract |-> contract, callee |-> callee, blocks |-> blocks,
         reach |-> [s \in B |-> {t \in B : <<s, t>> \in paths}],
         preds |-> [t \in B |-> {s \in B : <<s, t>> \in edges}],
         sites |-> sites]

\* A contract: conditions on the parameters, of their types (refs) and of
\* the function (pre); conditions on the result, of its type (ret) and of
\* the function (post); and loop invariants with the header they belong to.
Contract(refs, pre, ret, post, invs) ==
    [refs |-> refs, pre |-> pre, ret |-> ret, post |-> post, invs |-> invs]
NoContract == Contract({}, {}, {}, {}, {})

Params(f) == 1 .. f.args
Inputs(f) ==
    {env \in [{0} \cup Params(f) -> Word] :
        env[0] = 0 /\ Satisfied(f.contract.refs \cup f.contract.pre, env)}

Back(f, b) == {p \in f.preds[b] : p \in f.reach[b]}
Entries(f, b) == f.preds[b] \ Back(f, b)

\* what an instruction without effects computes, in the formulas of the
\* verifier and on the machine: a number, cut to a word
Exact(inst, env) ==
    LET a == Signed(env[inst.a])
        b == Signed(env[inst.b])
    IN  CASE inst.op = "const" -> inst.a
          [] inst.op = "add" -> a + b
          [] inst.op = "sub" -> a - b
          [] inst.op = "mul" -> a * b
          [] inst.op = "neg" -> -a
          [] inst.op = "abs" -> Abs(a)
          [] inst.op = "div" -> Signed(BvSDiv(env[inst.a], env[inst.b]))
          [] OTHER -> Bit(Compare(inst.op, a, b))
Computes(inst, env) == ToWord(Exact(inst, env))

=============================================================================
