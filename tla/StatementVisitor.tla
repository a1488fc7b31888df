--------------------------- MODULE StatementVisitor ---------------------------
(***************************************************************************)
(* The statement visitors of lirien-ir, which turn the body of a function  *)
(* into a control flow graph in SSA form, and the execution of that graph. *)
(*                                                                         *)
(* The source program is whatever sequence of visits is taken: an action   *)
(* is the code a visitor runs between two recursive calls to visit_block,  *)
(* and "open" is the stack of visitors that are active.  Once the function *)
(* is built a walk executes its instructions along the terminators, as the *)
(* generated code does, passing phis the operand of the edge it takes.     *)
(*                                                                         *)
(* The functions built have no statement after a return, raise, break or   *)
(* continue of the same suite, and at most grammar.max statements.         *)
(***************************************************************************)
EXTENDS SsaBuilder

CONSTANT Grammars  \* which programs are built: of these kinds of statement and
                   \* condition, and so many statements at most

StmtKinds == {"assign", "use", "call", "if", "while", "for", "break", "continue",
              "return", "raise", "try", "orelse"}

ASSUME GrammarsAssumption ==
    Grammars \subseteq [stmts : SUBSET StmtKinds, ifs : SUBSET TestKinds,
                        whiles : SUBSET TestKinds, max : Nat]

VARIABLES
    grammar,    \* the kind of program
    bld,        \* the builder
    open,       \* the visitors that are active, innermost last
    used,       \* how many statements were visited
    walk        \* where execution stands: a block, the index of an instruction
                \* of it, and the values that hold what their variable holds

vars == <<grammar, bld, open, used, walk>>

NotRun == [block |-> Entry, at |-> 0, current |-> {}]

Init ==
    /\ grammar \in Grammars
    /\ bld = NewBuilder
    /\ open = <<>>
    /\ used = 0
    /\ walk = NotRun

Building == walk = NotRun /\ ~bld.err

\* visit_stmt on a statement of this kind
Visit(kind) ==
    /\ Building
    /\ kind \in grammar.stmts
    /\ used < grammar.max
    /\ used' = used + 1
    /\ UNCHANGED <<grammar, walk>>

Statement(kind) == Visit(kind) /\ ~IsTerminated(bld, bld.cur)

Build(steps) == bld' = Perform(bld, steps)

\* visit_block returned to the visitor on top of the stack, in this stage
Resume(stage) ==
    /\ Building
    /\ open # <<>>
    /\ Last(open).stage = stage
    /\ UNCHANGED <<grammar, used, walk>>

Enter(frame) == open' = Append(open, frame)
Continue(frame) == open' = Append(Front(open), frame)
Leave == open' = Front(open)

-------------------------------------------------------------------------------
(***************************************************************************)
(* Straight-line statements, and those that leave the suite.               *)
(***************************************************************************)
VisitAssign ==
    /\ Statement("assign")
    /\ \E v \in Var : Build(<< <<"assign", v>> >>)
    /\ UNCHANGED open

VisitExpr ==
    /\ Statement("use")
    /\ \E v \in Var : Build(<< <<"use", v>> >>)
    /\ UNCHANGED open

VisitCall ==
    /\ Statement("call")
    /\ Build(CheckAndPropagateException(bld))
    /\ UNCHANGED open

VisitReturn ==
    /\ Statement("return")
    /\ Build(ReturnSteps)
    /\ UNCHANGED open

VisitBreak ==
    /\ Statement("break")
    /\ bld.loops # <<>>
    /\ Build(<< <<"jump", Last(bld.loops)[2]>> >>)
    /\ UNCHANGED open

VisitContinue ==
    /\ Statement("continue")
    /\ bld.loops # <<>>
    /\ Build(<< <<"jump", Last(bld.loops)[1]>> >>)
    /\ UNCHANGED open

\* an exception leaves for the handlers of the enclosing try, or the function
Leaving(s) == IF s.tries # <<>> THEN << <<"jump", Last(s.tries)>> >> ELSE ReturnSteps

VisitRaise ==
    /\ Statement("raise")
    /\ Build(Leaving(bld))
    /\ UNCHANGED open

-------------------------------------------------------------------------------
(***************************************************************************)
(* visit_if.  The current block is noted after the condition is visited.   *)
(* An if on a constant compiles to the statements of one suite; a test for *)
(* None gives the variable the same contents under a narrower type.        *)
(***************************************************************************)
VisitIf ==
    /\ Statement("if")
    /\ \E v \in Var, test \in grammar.ifs :
         \E tested \in {Perform(bld, VisitTest(bld, test, v))} :
           LET true == NextBlock(tested)
               false == true + 1
               merge == true + 2
           IN  /\ bld' = Perform(tested,
                          << <<"create_block", 3>>, <<"branch", true, false>>,
                             <<"seal_block", true>>, <<"seal_block", false>>,
                             <<"start_block", true>> >>)
               /\ Enter([stage |-> "then", else |-> false, merge |-> merge])

IfElse ==
    /\ Resume("then")
    /\ LET f == Last(open)
       IN  /\ Build(<< <<"fall_through", f.merge>>, <<"start_block", f.else>> >>)
           /\ Continue([stage |-> "else", merge |-> f.merge])

IfEnd ==
    /\ Resume("else")
    /\ LET merge == Last(open).merge
       IN  Build(<< <<"fall_through", merge>>, <<"seal_block", merge>>,
                    <<"start_block", merge>> >>)
    /\ Leave

-------------------------------------------------------------------------------
(***************************************************************************)
(* visit_while.  The edges of the branch are recorded as leaving the       *)
(* header, whichever block the condition ended in.                         *)
(***************************************************************************)
OpenBody(header, body, exit) ==
    << <<"go", {body, exit}>>, <<"link_blocks", header, body>>,
       <<"link_blocks", header, exit>>, <<"seal_block", body>>, <<"start_block", body>> >>

VisitWhile ==
    /\ Statement("while")
    /\ \E v \in Var, test \in grammar.whiles :
         LET header == NextBlock(bld)
             body == header + 1
             exit == header + 2
         IN  \E entered \in {Perform(bld,
                    << <<"create_block", 3>>, <<"jump", header>>,
                       <<"push_loop", header, exit>>, <<"start_block", header>> >>)} :
               /\ bld' = Perform(entered, VisitTest(entered, test, v)
                                              \o OpenBody(header, body, exit))
               /\ Enter([stage |-> "while", header |-> header, exit |-> exit])

CloseLoop(header, exit) ==
    << <<"pop_loop">>, <<"seal_block", header>>, <<"start_block", exit>>,
       <<"seal_block", exit>> >>

WhileEnd ==
    /\ Resume("while")
    /\ LET f == Last(open)
       IN  Build(<< <<"fall_through", f.header>> >> \o CloseLoop(f.header, f.exit))
    /\ Leave

(***************************************************************************)
(* visit_for over a range that is not unrolled.  "continue" goes to the    *)
(* increment block, which reads the index and steps it.                    *)
(***************************************************************************)
\* Slip: the header is sealed before its back edge exists.
ForSealsHeader ==
    /\ Statement("for")
    /\ \E idx \in Var :
         LET header == NextBlock(bld)
             body == header + 1
             increment == header + 2
             exit == header + 3
         IN  /\ Build(<< <<"assign", idx>>, <<"create_block", 4>>, <<"jump", header>>,
                         <<"push_loop", increment, exit>>, <<"start_block", header>>,
                         <<"seal_block", header>>, <<"use", idx>> >>
                      \o OpenBody(header, body, exit))
             /\ Enter([stage |-> "for", header |-> header, increment |-> increment,
                       exit |-> exit, idx |-> idx])

VisitFor ==
    /\ Statement("for")
    /\ \E idx \in Var :
         LET header == NextBlock(bld)
             body == header + 1
             increment == header + 2
             exit == header + 3
         IN  /\ Build(<< <<"assign", idx>>, <<"create_block", 4>>, <<"jump", header>>,
                         <<"push_loop", increment, exit>>, <<"start_block", header>>,
                         <<"use", idx>> >>
                      \o OpenBody(header, body, exit))
             /\ Enter([stage |-> "for", header |-> header, increment |-> increment,
                       exit |-> exit, idx |-> idx])

ForEnd ==
    /\ Resume("for")
    /\ LET f == Last(open)
       IN  Build(<< <<"fall_through", f.increment>>, <<"start_block", f.increment>>,
                    <<"seal_block", f.increment>>,
                    <<"use", f.idx>>, <<"assign", f.idx>>, <<"jump", f.header>> >>
                 \o CloseLoop(f.header, f.exit))
    /\ Leave

-------------------------------------------------------------------------------
(***************************************************************************)
(* visit_try.  The handler chain starts in the dispatch block, which every *)
(* raise and every call of the body is linked to before it is sealed.      *)
(***************************************************************************)
VisitTry ==
    /\ Statement("try")
    /\ Build(<< <<"create_block", 1>>, <<"push_try", NextBlock(bld)>> >>)
    /\ Enter([stage |-> "try", dispatch |-> NextBlock(bld)])

\* the body is done and falls through to an else suite
TryOrElse ==
    /\ Visit("orelse")
    /\ open # <<>>
    /\ Last(open).stage = "try"
    /\ ~IsTerminated(bld, bld.cur)
    /\ Build(<< <<"pop_try">>, <<"create_block", 1>> >>)
    /\ Continue([stage |-> "orelse", dispatch |-> Last(open).dispatch,
                 merge |-> NextBlock(bld)])

\* one except clause: the test of the exception, then the body of the clause
OpenHandler(from, match, next) ==
    << <<"start_block", from>>, <<"create_block", 2>>, <<"branch", match, next>>,
       <<"seal_block", match>>, <<"start_block", match>> >>

\* match is the next block to be created
FirstHandler(before, dispatch, merge, match) ==
    /\ Build(before \o << <<"fall_through", merge>>, <<"seal_block", dispatch>> >>
                    \o OpenHandler(dispatch, match, match + 1))
    /\ Continue([stage |-> "handler", next |-> match + 1, merge |-> merge])

TryHandlers ==
    /\ Resume("try")
    /\ LET merge == NextBlock(bld)
       IN  FirstHandler(<< <<"pop_try">>, <<"create_block", 1>> >>, Last(open).dispatch,
                        merge, merge + 1)

OrElseHandlers ==
    /\ Resume("orelse")
    /\ FirstHandler(<<>>, Last(open).dispatch, Last(open).merge, NextBlock(bld))

EndOfHandler(f) == << <<"fall_through", f.merge>>, <<"seal_block", f.next>> >>

NextHandler ==
    /\ Visit("try")
    /\ open # <<>>
    /\ Last(open).stage = "handler"
    /\ LET f == Last(open)
           match == NextBlock(bld)
       IN  /\ Build(EndOfHandler(f) \o OpenHandler(f.next, match, match + 1))
           /\ Continue([stage |-> "handler", next |-> match + 1, merge |-> f.merge])

\* an exception that no clause catches leaves; the block after the last test is
\* new, so it is not terminated
TryEnd ==
    /\ Resume("handler")
    /\ LET f == Last(open)
       IN  Build(EndOfHandler(f) \o << <<"start_block", f.next>> >> \o Leaving(bld)
                   \o << <<"seal_block", f.merge>>, <<"start_block", f.merge>> >>)
    /\ Leave

-------------------------------------------------------------------------------
(***************************************************************************)
(* visit_function_def returns, and the walk of what it built.  A value is  *)
(* current while it equals what its variable holds.                        *)
(***************************************************************************)
FinishFunction ==
    /\ Building
    /\ open = <<>>
    /\ Build(IF IsTerminated(bld, bld.cur) THEN <<>> ELSE ReturnSteps)
    /\ walk' = [block |-> Entry, at |-> 1, current |-> {Param(v) : v \in Var}]
    /\ UNCHANGED <<grammar, open, used>>

Running == walk # NotRun

Executing == bld.instrs[walk.block][walk.at]

ExecuteWrite ==
    /\ Running
    /\ Executing.op = "write"
    /\ walk' = [walk EXCEPT
                  !.at = @ + 1,
                  !.current = {x \in @ : x[1] # Executing.var} \cup {Executing.val}]
    /\ UNCHANGED <<grammar, bld, open, used>>

ExecuteUse ==
    /\ Running
    /\ Executing.op = "use"
    /\ walk' = [walk EXCEPT !.at = @ + 1]
    /\ UNCHANGED <<grammar, bld, open, used>>

\* the phis of the target take, all at once, their operand for this edge;
\* a phi without one is left with nothing that means anything
ExecuteJump ==
    /\ Running
    /\ Executing.op = "go"
    /\ \E to \in Executing.to :
         LET phis == {vk \in DOMAIN bld.phis : vk[2] = to}
             Gets(vk) == /\ walk.block \in DOMAIN bld.phis[vk]
                         /\ bld.phis[vk][walk.block] \in walk.current
             fresh == {PhiOf(vk[1], to) : vk \in {x \in phis : Gets(x)}}
             stale == {PhiOf(vk[1], to) : vk \in phis}
         IN  walk' = [block |-> to, at |-> 1, current |-> (walk.current \ stale) \cup fresh]
    /\ UNCHANGED <<grammar, bld, open, used>>

Next ==
    \/ VisitAssign
    \/ VisitExpr
    \/ VisitCall
    \/ VisitReturn
    \/ VisitBreak
    \/ VisitContinue
    \/ VisitRaise
    \/ VisitIf
    \/ IfElse
    \/ IfEnd
    \/ VisitWhile
    \/ WhileEnd
    \/ VisitFor
    \/ ForEnd
    \/ VisitTry
    \/ TryOrElse
    \/ TryHandlers
    \/ OrElseHandlers
    \/ NextHandler
    \/ TryEnd
    \/ FinishFunction
    \/ ExecuteWrite
    \/ ExecuteUse
    \/ ExecuteJump

Spec == Init /\ [][Next]_vars

-------------------------------------------------------------------------------
Value == Names \X Blocks(bld) \X (0 .. bld.values)

\* Types.
TypeOK ==
    /\ bld.cur \in Blocks(bld)
    /\ bld.sealed \subseteq Blocks(bld)
    /\ DOMAIN bld.preds = Blocks(bld)
    /\ DOMAIN bld.defs \subseteq Names \X Blocks(bld)
    /\ \A vk \in DOMAIN bld.defs : bld.defs[vk] \in Value
    /\ DOMAIN bld.phis \subseteq DOMAIN bld.defs
    /\ bld.incomplete \subseteq DOMAIN bld.phis
    /\ used \in 0 .. grammar.max
    /\ walk.block \in Blocks(bld)
    /\ Running => walk.at \in DOMAIN bld.instrs[walk.block]

\* Where control can go: the jumps that were emitted, whatever was recorded.
Edges ==
    UNION {{k} \X UNION {bld.instrs[k][n].to :
                            n \in {m \in DOMAIN bld.instrs[k] : bld.instrs[k][m].op = "go"}}
           : k \in Blocks(bld)}

\* A sealed block has exactly the predecessors that jump to it: sealing says
\* they are all known, and none is linked, or jumps there unlinked, later.
SealedPredecessorsKnown ==
    {e \in Edges : e[2] \in bld.sealed}
        = UNION {Range(bld.preds[k]) \X {k} : k \in bld.sealed}

\* Every phi of a finished function has an operand for every block that jumps
\* to it: code generation passes one argument per phi along each edge.
PhiPerEdge ==
    Running =>
        \A e \in Edges, v \in Names :
            <<v, e[2]>> \in DOMAIN bld.phis => e[1] \in DOMAIN bld.phis[<<v, e[2]>>]

\* A name reads what was last written to it on the path that was executed,
\* round loops, past breaks and through handlers.
ReadsLastWrite ==
    Running /\ Executing.op = "use" => Executing.val \in walk.current

===============================================================================
