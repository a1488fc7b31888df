------------------------------- MODULE Midend --------------------------------
(***************************************************************************)
(* A function between the builder and the machine: it is optimized (lib.rs *)
(* of lirien-ir), analyzed for the verifier (lib.rs of lirien-verify), and *)
(* optimized once more before it is compiled (bridge/mod.rs).              *)
(*                                                                         *)
(* The function of the builder and the one that is compiled then run side  *)
(* by side, a block at a time.                                             *)
(***************************************************************************)
EXTENDS Intervals, Optimizer

CONSTANT Funcs  \* the functions the builder makes

VARIABLES
    source,   \* the function of the builder
    func,     \* the function that is verified
    compiled, \* the function that is compiled
    phase,    \* what happens to it next
    derived,  \* the analysis
    runs      \* the run of source and the run of compiled

vars == <<source, func, compiled, phase, derived, runs>>

(***************************************************************************)
(* A run: where it is, what the values hold, the calls it has made, what   *)
(* it ended in, and whether an operation left the range of its type.       *)
(***************************************************************************)
NewRun(env) ==
    [at |-> 1, val |-> env, calls |-> <<>>, end |-> "none", result |-> 0, wrapped |-> FALSE]

\* a call is seen from outside; what it returns is its first argument here
RunInst(r, inst) ==
    IF r.end # "none" THEN r
    ELSE CASE inst.op = "assert" -> IF r.val[inst.a] = 1 THEN r ELSE [r EXCEPT !.end = "assert"]
           [] inst.op = "call" ->
                 [r EXCEPT !.calls = Append(@, [i \in DOMAIN inst.args |-> r.val[inst.args[i]]]),
                           !.val = (inst.d :> r.val[inst.args[1]]) @@ @]
           [] inst.op = "div" /\ ClDivTraps(r.val[inst.a], r.val[inst.b]) -> [r EXCEPT !.end = "div"]
           [] OTHER -> [r EXCEPT !.val = (inst.d :> Computes(inst, r.val)) @@ @,
                                 !.wrapped = @ \/ ~Fits(Exact(inst, r.val))]

Leaving(r, term) ==
    IF r.end # "none" THEN r
    ELSE CASE term.k = "return" -> [r EXCEPT !.end = "returned", !.result = r.val[term.v]]
           [] term.k = "jump" -> [r EXCEPT !.at = term.to[1]]
           [] OTHER -> [r EXCEPT !.at = IF r.val[term.c] = 1 THEN term.to[1] ELSE term.to[2]]

Entering(f, r, from) ==
    LET phis == f.blocks[r.at].phis
    IN  IF r.end # "none" THEN r
        ELSE [r EXCEPT !.val = [d \in {phis[i].d : i \in DOMAIN phis} |->
                  r.val[(CHOOSE phi \in Range(phis) : phi.d = d).in[from]]] @@ @]

RunBlock(f, r) ==
    IF r.end # "none" THEN r
    ELSE LET done == FoldLeft(RunInst, r, f.blocks[r.at].code)
         IN  Entering(f, Leaving(done, f.blocks[r.at].term), r.at)

(***************************************************************************)
(* The phases.                                                             *)
(***************************************************************************)
OptimizeFirst ==
    /\ phase = "optimize"
    /\ func' = Optimize(source)
    /\ derived' = NewAnalysis(func')
    /\ phase' = "analyze"
    /\ UNCHANGED <<source, compiled, runs>>

Analyze ==
    /\ phase = "analyze"
    /\ derived' = Pass(func, derived)
    /\ phase' = IF Unfinished(derived') THEN "analyze" ELSE "finish"
    /\ UNCHANGED <<source, func, compiled, runs>>

OptimizeAgain ==
    /\ phase = "finish"
    /\ compiled' = Optimize(func)
    /\ phase' = "ready"
    /\ UNCHANGED <<source, func, derived, runs>>

Start ==
    /\ phase = "ready"
    /\ \E env \in Inputs(source) : runs' = <<NewRun(env), NewRun(env)>>
    /\ phase' = "run"
    /\ UNCHANGED <<source, func, compiled, derived>>

Step ==
    /\ phase = "run"
    /\ \E i \in {1, 2} : runs[i].end = "none"
    /\ runs' = <<RunBlock(source, runs[1]), RunBlock(compiled, runs[2])>>
    /\ UNCHANGED <<source, func, compiled, phase, derived>>

Init ==
    /\ source \in Funcs
    /\ func = source /\ compiled = source
    /\ phase = "optimize"
    /\ derived = NewAnalysis(source)
    /\ runs = <<>>

Next == OptimizeFirst \/ Analyze \/ OptimizeAgain \/ Start \/ Step
Spec == Init /\ [][Next]_vars

TypeOK ==
    /\ source \in Funcs
    /\ phase \in {"optimize", "analyze", "finish", "ready", "run"}
    /\ derived.iterations \in 0 .. MaxIterations
    /\ \A i \in DOMAIN runs :
          /\ runs[i].at \in DOMAIN source.blocks
          /\ Range(runs[i].val) \subseteq Word
          /\ runs[i].end \in {"none", "returned", "div", "assert"}

\* What is compiled is what was verified: the passes behind the verifier
\* (bridge/mod.rs:150) find nothing left to do.
CompiledAsVerified == phase \in {"ready", "run"} => compiled = func

\* The optimized function returns what the function of the builder returns and
\* makes the same calls, up to the first trap of the latter (a division
\* whose result nobody uses is gone).
OptimizedAgrees ==
    \A i \in DOMAIN runs :
        runs[1].end \in {"none", "returned", "assert"} =>
            /\ runs[2].end = runs[1].end
            /\ runs[2].at = runs[1].at
            /\ runs[2].result = runs[1].result
            /\ runs[2].calls = runs[1].calls

\* The analysis ends because nothing changes any more, not because of the
\* limit of 50 passes (mod.rs:62-64): widening is in time.
AnalysisSettles == phase # "analyze" /\ phase # "optimize" => ~derived.changed

\* The operands of the comparison that led into a block.
BranchedOn(f, b) ==
    LET tests == {t \in UNION {Range(f.blocks[p].code) : p \in f.preds[b]} :
                     t.op \in DOMAIN Negate /\ \E p \in f.preds[b] : t.d = f.blocks[p].term.c}
    IN  IF Cardinality(f.preds[b]) = 1 THEN UNION {{t.a, t.b} : t \in tests} ELSE {}

\* Every value of a run in which no operation overflows is in the range that
\* is asserted for it, and behind a comparison in the narrower one.
RangesHold ==
    phase = "run" /\ ~runs[2].wrapped =>
        LET r == runs[2]
        IN  /\ \A v \in DOMAIN r.val \cap DOMAIN derived.iv : In(r.val[v], derived.iv[v])
            /\ \A v \in BranchedOn(func, r.at) :
                  <<v, r.at>> \in DOMAIN derived.nar => In(r.val[v], derived.nar[<<v, r.at>>])

\* What infer_return_refinement tells the callers holds of the result.
InferredHolds ==
    phase = "run" /\ runs[2].end = "returned" /\ ~runs[2].wrapped =>
        In(runs[2].result, InferredReturn(func, derived))

=============================================================================
