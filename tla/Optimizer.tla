------------------------------ MODULE Optimizer ------------------------------
(***************************************************************************)
(* The optimizer of lirien-ir (optimization): constant folding and dead    *)
(* code elimination, which run before the verifier sees a function and     *)
(* again behind it.  Type propagation and the fusion of tensor operations  *)
(* do not touch the scalars modelled here; loops are never unrolled (see   *)
(* the README).                                                            *)
(***************************************************************************)
EXTENDS IrFunctions

Rebuilt(f, blocks) == Function(f.args, f.contract, f.callee, blocks)

(***************************************************************************)
(* fold_constants: block by block, with the constants found so far.        *)
(***************************************************************************)
FoldedSwapped(consts, inst) ==  \* a subtraction the wrong way round
    LET a == consts[inst.a]
        b == consts[inst.b]
        known == {inst.a, inst.b} \subseteq DOMAIN consts
    IN  CASE inst.op = "const" -> {inst.a}
          [] inst.op = "add" /\ known -> {a + b}
          [] inst.op = "sub" /\ known -> {b - a}
          [] inst.op = "mul" /\ known -> {a * b}
          [] OTHER -> {}
Folded(consts, inst) ==
    LET a == consts[inst.a]
        b == consts[inst.b]
        known == {inst.a, inst.b} \subseteq DOMAIN consts
    IN  CASE inst.op = "const" -> {inst.a}
          [] inst.op = "add" /\ known -> {a + b}
          [] inst.op = "sub" /\ known -> {a - b}
          [] inst.op = "mul" /\ known -> {a * b}
          [] inst.op = "neg" /\ known -> {-a}
          [] OTHER -> {}

FoldInst(s, inst) ==
    LET value == Folded(s.consts, inst)
    IN  IF value = {} THEN [s EXCEPT !.code = Append(@, inst)]
        ELSE LET i == CHOOSE i \in value : TRUE
             IN  [s EXCEPT !.code = Append(@, Const(inst.d, i)), !.consts = (inst.d :> i) @@ @]

FoldConstants(f) ==
    LET block(s, b) ==
            LET t == FoldLeft(FoldInst, [consts |-> s.consts, code |-> <<>>], b.code)
            IN  [consts |-> t.consts, blocks |-> Append(s.blocks, [b EXCEPT !.code = t.code])]
    IN  Rebuilt(f, FoldLeft(block, [consts |-> <<>>, blocks |-> <<>>], f.blocks).blocks)

(***************************************************************************)
(* eliminate_dead_code.                                                    *)
(***************************************************************************)
\* get_operands; a phi uses all that comes in
Uses(inst) ==
    CASE inst.op = "phi" -> Range(inst.in)
      [] inst.op = "const" -> {}
      [] inst.op = "call" -> Range(inst.args)
      [] inst.op = "getexc" -> {0}
      [] inst.op = "setexc" -> {0, inst.a}
      [] inst.op = "assert" -> {inst.a}
      [] OTHER -> {inst.a, inst.b}

HasSideEffects(inst) == inst.op \in {"call", "setexc", "assert"}

\* the values a side effect, a branch or a return needs, and what they are
\* made of
Required(f) ==
    UNION {Uses(s.inst) : s \in {s \in Range(f.sites) : HasSideEffects(s.inst)}}
        \cup {f.blocks[b].term.c : b \in {b \in DOMAIN f.blocks : f.blocks[b].term.k = "branch"}}
        \cup {f.blocks[b].term.v : b \in {b \in DOMAIN f.blocks : f.blocks[b].term.k = "return"}}
LiveUsed(f) ==  \* what any instruction uses, dead ones too
    Required(f) \cup UNION {Uses(s.inst) : s \in Range(f.sites)}
Live(f) ==
    FoldLeft(LAMBDA live, s : live \cup UNION {Uses(t.inst) : t \in {t \in Range(f.sites) :
                                                   Defines(t.inst) /\ t.inst.d \in live}},
             Required(f), f.sites)

EliminateDeadCode(f) ==
    LET live == Live(f)
        Kept(inst) == HasSideEffects(inst) \/ (Defines(inst) /\ inst.d \in live)
    IN  Rebuilt(f, [b \in DOMAIN f.blocks |->
            [f.blocks[b] EXCEPT !.phis = SelectSeq(@, Kept), !.code = SelectSeq(@, Kept)]])

\* optimize; unroll_verified_loops does the same
Optimize(f) == EliminateDeadCode(FoldConstants(f))

=============================================================================
