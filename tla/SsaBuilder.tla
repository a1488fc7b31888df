------------------------------ MODULE SsaBuilder ------------------------------
(***************************************************************************)
(* The CFGBuilder of lirien-ir: basic blocks, their predecessor lists, and *)
(* the on-the-fly SSA construction that resolves the name of a variable to *)
(* the value it holds in a block.  A builder is one record:                *)
(*                                                                         *)
(*   instrs      block -> its instructions other than phis, in order       *)
(*   preds       block -> the predecessors link_blocks recorded, in order  *)
(*   defs        <<variable, block>> -> value      (variable_defs)         *)
(*   phis        <<variable, block>> -> (predecessor -> value)             *)
(*   incomplete  the phis whose operands seal_block has still to fill in   *)
(*   sealed      the blocks whose predecessors are all known               *)
(*   cur         current_block                                             *)
(*   loops       loop_stack, pairs <<continue target, break target>>       *)
(*   tries       try_stack, the handler blocks of the enclosing trys       *)
(*   values      how many values were numbered so far                      *)
(*   err         UnboundVariable was returned: the build is abandoned      *)
(*                                                                         *)
(* Phis stand at the head of their block, so they are kept apart from the  *)
(* other instructions; a block has at most one per variable.  A value is   *)
(* <<variable, block, number>>, the number 0 for phis.  Types, locations   *)
(* and the operands of ordinary instructions are left out.                 *)
(***************************************************************************)
EXTENDS Naturals, Sequences, SequencesExt, FiniteSets, TLC

CONSTANTS
    Var     \* the variables of the source function

ASSUME VarAssumption == Var # {}

BoolTmp == "bool_op_tmp"            \* the variable visit_bool_op writes

Names == Var \cup {BoolTmp}

Entry == 0

Blocks(s) == DOMAIN s.instrs

Param(v) == <<v, Entry, 1>>
PhiOf(v, k) == <<v, k, 0>>

(***************************************************************************)
(* Instructions.  A terminator is known by the blocks it may go to.        *)
(***************************************************************************)
WriteInstr(v, val) == [op |-> "write", var |-> v, val |-> val]
UseInstr(v, val) == [op |-> "use", var |-> v, val |-> val]
Terminator(targets) == [op |-> "go", to |-> targets]

Emit(s, instr) == [s EXCEPT !.instrs[s.cur] = Append(@, instr)]

IsTerminated(s, k) ==
    /\ s.instrs[k] # <<>>
    /\ Last(s.instrs[k]).op = "go"

(***************************************************************************)
(* CFGBuilder::new and visit_function_def: an entry block, sealed, in      *)
(* which every argument is written.                                        *)
(***************************************************************************)
NewBuilder ==
    [instrs |-> Entry :> <<>>,
     preds |-> Entry :> <<>>,
     defs |-> [vk \in Var \X {Entry} |-> Param(vk[1])],
     phis |-> <<>>,
     incomplete |-> {},
     sealed |-> {Entry},
     cur |-> Entry,
     loops |-> <<>>,
     tries |-> <<>>,
     values |-> 1,
     err |-> FALSE]

NextBlock(s) == Cardinality(Blocks(s))

CreateBlocks(s, n) ==
    LET new == NextBlock(s) .. (NextBlock(s) + n - 1)
    IN  [s EXCEPT !.instrs = @ @@ [k \in new |-> <<>>],
                  !.preds = @ @@ [k \in new |-> <<>>]]

StartBlock(s, k) == [s EXCEPT !.cur = k]

LinkBlocks(s, from, to) ==
    [s EXCEPT !.preds[to] = IF Contains(@, from) THEN @ ELSE Append(@, from)]

-------------------------------------------------------------------------------
(***************************************************************************)
(* Reading and writing a variable in a block.  A read returns the builder  *)
(* it leaves, in which phis may have been added, and the value.            *)
(***************************************************************************)
WriteVariable(s, v, k, val) == [s EXCEPT !.defs = (<<v, k>> :> val) @@ @]

AddPhi(s, v, k) == [s EXCEPT !.phis = @ @@ (<<v, k>> :> <<>>)]

Unbound(s, v, k) == [bld |-> [s EXCEPT !.err = TRUE], val |-> PhiOf(v, k)]

RECURSIVE ReadVariable(_, _, _), ReadVariableRecursive(_, _, _), AddPhiOperands(_, _, _),
          AddOperand(_, _, _)

ReadVariable(s, v, k) ==
    IF <<v, k>> \in DOMAIN s.defs
    THEN [bld |-> s, val |-> s.defs[<<v, k>>]]
    ELSE ReadVariableRecursive(s, v, k)

ReadVariableRecursive(s, v, k) ==
    LET ops == s.preds[k]
        phi == PhiOf(v, k)
        res == CASE k \notin s.sealed ->
                      [bld |-> [AddPhi(s, v, k) EXCEPT !.incomplete = @ \cup {<<v, k>>}],
                       val |-> phi]
                 [] k \in s.sealed /\ Len(ops) = 0 -> Unbound(s, v, k)
                 [] k \in s.sealed /\ Len(ops) = 1 -> ReadVariable(s, v, ops[1])
                 [] k \in s.sealed /\ Len(ops) > 1 ->
                      [bld |-> AddPhiOperands(AddPhi(WriteVariable(s, v, k, phi), v, k), v, k),
                       val |-> phi]
    IN  IF res.bld.err THEN res
        ELSE [res EXCEPT !.bld = WriteVariable(res.bld, v, k, res.val)]

\* Slip: the last predecessor is missed.
AddPhiOperandsShort(s, v, k) ==
    LET from == Front(s.preds[k])
        got[n \in 0 .. Len(from)] ==
            IF n = 0 THEN [bld |-> s, ops |-> <<>>]
            ELSE AddOperand(got[n - 1], v, from[n])
        all == got[Len(from)]
    IN  [all.bld EXCEPT !.phis[<<v, k>>] = all.ops]

AddPhiOperands(s, v, k) ==
    LET from == s.preds[k]
        got[n \in 0 .. Len(from)] ==
            IF n = 0 THEN [bld |-> s, ops |-> <<>>]
            ELSE AddOperand(got[n - 1], v, from[n])
        all == got[Len(from)]
    IN  [all.bld EXCEPT !.phis[<<v, k>>] = all.ops]

AddOperand(got, v, p) ==
    IF got.bld.err THEN got
    ELSE LET r == ReadVariable(got.bld, v, p)
         IN  [bld |-> r.bld, ops |-> (p :> r.val) @@ got.ops]

(***************************************************************************)
(* seal_block.  The block is marked first; its incomplete phis leave the   *)
(* map before their operands are read.  The order in which the HashMap     *)
(* yields them is immaterial: a value does not depend on when it is made.  *)
(***************************************************************************)
SealBlock(s, k) ==
    LET mine == SetToSeq({vk \in s.incomplete : vk[2] = k})
        done[n \in 0 .. Len(mine)] ==
            IF n = 0 THEN [s EXCEPT !.sealed = @ \cup {k},
                                    !.incomplete = {vk \in @ : vk[2] # k}]
            ELSE AddPhiOperands(done[n - 1], mine[n][1], k)
    IN  done[Len(mine)]

-------------------------------------------------------------------------------
(***************************************************************************)
(* What the visitors ask of the builder.                                   *)
(***************************************************************************)
\* Slip: the value is not numbered.
AssignUncounted(s, v) ==
    LET val == <<v, s.cur, s.values + 1>>
    IN  WriteVariable(Emit(s, WriteInstr(v, val)), v, s.cur, val)

Assign(s, v) ==                     \* v = <a fresh value>
    LET val == <<v, s.cur, s.values + 1>>
        fresh == [s EXCEPT !.values = @ + 1]
    IN  WriteVariable(Emit(fresh, WriteInstr(v, val)), v, s.cur, val)

Use(s, v) ==                        \* an expression that names v
    LET r == ReadVariable(s, v, s.cur)
    IN  Emit(r.bld, UseInstr(v, r.val))

Jump(s, to) == LinkBlocks(Emit(s, Terminator({to})), s.cur, to)

Branch(s, t, f) == LinkBlocks(LinkBlocks(Emit(s, Terminator({t, f})), s.cur, t), s.cur, f)

JumpUnlessTerminated(s, to) == IF IsTerminated(s, s.cur) THEN s ELSE Jump(s, to)

Do(s, step) ==
    CASE step[1] = "create_block" -> CreateBlocks(s, step[2])
      [] step[1] = "start_block" -> StartBlock(s, step[2])
      [] step[1] = "link_blocks" -> LinkBlocks(s, step[2], step[3])
      [] step[1] = "seal_block" -> SealBlock(s, step[2])
      [] step[1] = "assign" -> Assign(s, step[2])
      [] step[1] = "use" -> Use(s, step[2])
      [] step[1] = "go" -> Emit(s, Terminator(step[2]))
      [] step[1] = "jump" -> Jump(s, step[2])
      [] step[1] = "branch" -> Branch(s, step[2], step[3])
      [] step[1] = "fall_through" -> JumpUnlessTerminated(s, step[2])
      [] step[1] = "push_loop" -> [s EXCEPT !.loops = Append(@, <<step[2], step[3]>>)]
      [] step[1] = "pop_loop" -> [s EXCEPT !.loops = Front(@)]
      [] step[1] = "push_try" -> [s EXCEPT !.tries = Append(@, step[2])]
      [] step[1] = "pop_try" -> [s EXCEPT !.tries = Front(@)]

\* the builder after these calls
Perform(s, steps) ==
    LET after[n \in 0 .. Len(steps)] ==
            IF n = 0 THEN s ELSE Do(after[n - 1], steps[n])
    IN  after[Len(steps)]

ReturnSteps == << <<"go", {}>> >>

-------------------------------------------------------------------------------
(***************************************************************************)
(* What follows every call of a user function: a test of the exception     *)
(* slot that leaves for the handler (or, outside every try, for a block    *)
(* that returns at once) and goes on in a block of its own.                *)
(***************************************************************************)
\* Slip: the edge to the handler is not recorded.
PropagateUnlinked(s) ==
    LET next == NextBlock(s)
        ret == next + 1
    IN  IF s.tries # <<>>
        THEN << <<"create_block", 1>>, <<"go", {Last(s.tries), next}>>,
                <<"link_blocks", s.cur, next>>,
                <<"seal_block", next>>, <<"start_block", next>> >>
        ELSE << <<"create_block", 2>>, <<"start_block", ret>> >> \o ReturnSteps \o
             << <<"seal_block", ret>>, <<"start_block", s.cur>>, <<"branch", ret, next>>,
                <<"seal_block", next>>, <<"start_block", next>> >>

CheckAndPropagateException(s) ==
    LET next == NextBlock(s)
        ret == next + 1
    IN  IF s.tries # <<>>
        THEN << <<"create_block", 1>>, <<"branch", Last(s.tries), next>>,
                <<"seal_block", next>>, <<"start_block", next>> >>
        ELSE << <<"create_block", 2>>, <<"start_block", ret>> >> \o ReturnSteps \o
             << <<"seal_block", ret>>, <<"start_block", s.cur>>, <<"branch", ret, next>>,
                <<"seal_block", next>>, <<"start_block", next>> >>

(***************************************************************************)
(* A two-operand "and" or "or": the first operand is evaluated here, the   *)
(* second in a block of its own, and both reach the merge block through a  *)
(* variable of the builder's.                                              *)
(***************************************************************************)
VisitBoolOp(s, v) ==
    LET merge == NextBlock(s)
        next == merge + 1
    IN  << <<"create_block", 2>>,
           <<"use", v>>, <<"assign", BoolTmp>>, <<"branch", next, merge>>,
           <<"seal_block", next>>, <<"start_block", next>>,
           <<"use", v>>, <<"assign", BoolTmp>>, <<"jump", merge>>,
           <<"seal_block", merge>>, <<"start_block", merge>>, <<"use", BoolTmp>> >>

(***************************************************************************)
(* The condition of an if or a while, by what evaluating it does to the    *)
(* control flow graph.  Reading a name makes no block.                     *)
(***************************************************************************)
TestKinds == {"plain", "call", "boolop"}

VisitTest(s, test, v) ==
    CASE test = "plain" -> << <<"use", v>> >>
      [] test = "call" -> << <<"use", v>> >> \o CheckAndPropagateException(s)
      [] test = "boolop" -> VisitBoolOp(s, v)
===============================================================================
