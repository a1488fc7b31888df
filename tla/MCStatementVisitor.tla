------------------------- MODULE MCStatementVisitor --------------------------
(***************************************************************************)
(* The programs for the checks of StatementVisitor.                        *)
(***************************************************************************)
EXTENDS StatementVisitor

Grammar(stmts, ifs, whiles, max) == [stmts |-> stmts, ifs |-> ifs, whiles |-> whiles, max |-> max]

\* short programs of every statement, longer ones that raise and handle
MCPrograms ==
    {Grammar(StmtKinds, {"plain", "boolop"}, {"plain"}, 4),
     Grammar({"assign", "use", "call", "try", "orelse", "raise", "return", "while", "break"},
             {"plain"}, {"plain"}, 5)}

\* a loop whose condition takes more than one block
MCCondition == {Grammar({"while"}, {"plain"}, {"call", "boolop"}, 1)}

=============================================================================
