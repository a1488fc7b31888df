----------------------------- MODULE MCDispatch -----------------------------
(* Programs for the runs.  main and sub are functions, a and b kinds of       *)
(* arguments; a world says what the functions are and who calls them.         *)
EXTENDS Dispatch, TLC

CONSTANTS main, sub, a, b, t1, t2

All(set, x) == [e \in set |-> x]
Same == [i \in {a, b, Base} |-> i]
Takes(key, args) == [key |-> key, accepts |-> args]

\* A world in which everything succeeds; the others say where they differ.
World(kinds, calls) ==
  LET fns == DOMAIN kinds
  IN  [fns |-> fns, kind |-> kinds, calls |-> [f \in fns |-> All(Versions, calls[f])], overloads |-> All(fns, <<>>),
       label |-> Same, refused |-> {}, strict |-> TRUE, pre |-> All(fns, "none"),
       vers |-> All(fns, 1), args |-> {a}, flags |-> {TRUE}, threads |-> {t1}, depth |-> 0, budget |-> 4]

Pair(x, y) == main :> x @@ sub :> y
Generics == Pair("generic", "generic")
Calling == Pair(<<sub>>, <<>>)

\* One thread: main calls sub, and both are redefined.
Redefined ==
  [World(Generics, Calling) EXCEPT !.vers = Pair(1, 2), !.budget = 6]

\* Two threads define and call main, which calls sub, for arguments whose
\* specialized names are the same.
Shared ==
  [World(Generics, Calling) EXCEPT !.threads = {t1, t2}, !.args = {a, b},
     !.label = (a :> a @@ b :> a @@ Base :> Base), !.budget = 5]

\* Two threads define, run and nest no_verification blocks.
Blocks == [World(main :> "generic", main :> <<>>) EXCEPT
             !.threads = {t1, t2}, !.flags = BOOLEAN, !.depth = 2, !.budget = 4]

\* main calls sub, sub calls main, or main calls itself and sub.
Mutual == [World(Generics, Pair(<<sub>>, <<main>>)) EXCEPT !.threads = {t1, t2}, !.budget = 5]
Recursive == [World(Generics, Pair(<<main, sub>>, <<>>)) EXCEPT !.threads = {t1, t2}, !.budget = 5]

\* The second version of sub is refused while another thread calls main.
Refusing == [World(Generics, Calling) EXCEPT
               !.threads = {t1, t2}, !.vers = Pair(1, 2), !.refused = {<<sub, 2>>}]

\* An overloaded main that calls a plain sub, whose second version is refused.
Overloaded ==
  [World(Pair("overload", "plain"), Calling) EXCEPT
     !.overloads = Pair(<<Takes(a, {a}), Takes(b, {a, b})>>, <<>>),
     !.args = {a, b, Base}, !.vers = Pair(1, 2), !.refused = {<<sub, 2>>}, !.budget = 5,
     !.pre = Pair("below", "above")]
Fallback == [Overloaded EXCEPT !.strict = FALSE, !.pre = Pair("none", "below")]

\* A generic main that calls an overloaded sub.
Unlinked == [World(Pair("generic", "overload"), Calling) EXCEPT
               !.overloads = Pair(<<>>, <<Takes(a, {a})>>), !.pre = Pair("below", "below")]

\* Refusing with one thread, and with @requires above @verify.
Redefining == [Refusing EXCEPT !.threads = {t1}, !.budget = 6, !.pre = Pair("above", "none")]

\* Redefined with a sub that calls main, and a sub that calls itself.
Turning == [Redefined EXCEPT !.calls = Pair(All(Versions, <<sub>>), <<<<>>, <<main>>>>), !.vers = Pair(2, 2)]
Looping == [Redefined EXCEPT !.calls = Pair(<<<<>>, <<sub, main>>>>, <<<<sub>>, <<>>>>), !.vers = Pair(2, 2)]

Collisions == {Shared}
Turns == {Turning}
Refusals == {Redefining}
MCWorlds == {Redefined, Shared, Blocks, Mutual, Recursive, Refusing, Overloaded, Fallback, Unlinked, Looping}
=============================================================================
