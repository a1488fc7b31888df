------------------------------- MODULE VcFlow --------------------------------
(***************************************************************************)
(* What a verdict is worth: the verifier of lirien-verify (verifier/mod.rs,*)
(* cfg.rs, control_flow.rs, returns.rs, calls.rs) against the control flow *)
(* the back end generates (lirien-backend, lower/control_flow.rs).         *)
(*                                                                         *)
(* The solver is not modelled: Models(f) is the set of all assignments     *)
(* that satisfy the formulas the verifier asserts, and a check is          *)
(* satisfiable iff one of them violates it.  An assignment says which      *)
(* blocks are on its path and gives every SSA value a word.  All formulas  *)
(* of an instruction are guarded by the path condition of its block, so    *)
(* off the path a value is any word that the interval analysis leaves it.  *)
(***************************************************************************)
EXTENDS Intervals

CONSTANT Funcs  \* the functions to verify

VARIABLES
    func,     \* the function
    derived,  \* what the interval analysis found
    models,   \* the assignments the solver finds, while it is asked
    phase,    \* what verify_with_context does next
    verdict,  \* what it answered
    cex,      \* the counterexample of a refusal
    at,       \* the block the machine is in, 0 when it is not running
    pos,      \* the instruction it executes next
    val,      \* what the SSA values hold
    seen,     \* the blocks it has been in
    exc,      \* the exception word
    told,     \* what the solver's term for that word must be, store by store
    blind,    \* whether no assignment of the solver stands for the run
    outcome   \* how the run ended: the promise it broke, if any

vars == <<func, derived, models, phase, verdict, cex, at, pos, val, seen, exc, told, blind, outcome>>
solver == <<derived, models, phase, verdict, cex>>
machine == <<at, pos, val, seen, exc, told, blind, outcome>>

\* a map with other values in the place of some
Override(env, new) ==
    [v \in DOMAIN new \cup DOMAIN env |-> IF v \in DOMAIN new THEN new[v] ELSE env[v]]
With(env, d, w) == Override(env, [v \in {d} |-> w])

\* substitute_var: every whole word "v<from>" of the text becomes "v<to>"
SubstituteVar(p, from, to) ==
    LET Put(x) == IF x = Val(from) THEN Val(to) ELSE x
    IN  Pred(p.op, Put(p.l), Put(p.r))

\* one after the other
Substitute(p, puts) ==
    LET after[k \in 0 .. Len(puts)] ==
            IF k = 0 THEN p ELSE SubstituteVar(after[k - 1], puts[k][1], puts[k][2])
    IN  after[Len(puts)]
ArgPuts(args) == [i \in DOMAIN args |-> <<i, args[i]>>]
SubstituteArgs(p, args) == Substitute(p, ArgPuts(args))

\* refined parameters alone do not count
HasRefinements(f) ==
    f.contract.pre \cup f.contract.ret \cup f.contract.post \cup f.contract.invs # {}

(***************************************************************************)
(* The exception word in the formulas: a load reads what the last store    *)
(* before it in the order of the translation has put there, on whatever    *)
(* path that store is; with no store before it, the word the function was  *)
(* called with.  The term is named by the value stored, or 0.              *)
(***************************************************************************)
ExcTerm(f, k) ==
    LET stores == {j \in 1 .. k - 1 : f.sites[j].inst.op = "setexc"}
    IN  IF stores = {} THEN 0
        ELSE f.sites[CHOOSE j \in stores : \A i \in stores : i <= j].inst.a
LastExcTerm(f) == ExcTerm(f, Len(f.sites) + 1)

(***************************************************************************)
(* Models: the assignments that satisfy every formula.                     *)
(***************************************************************************)
\* What is asserted of a call is the return refinement of the callee.  Its
\* postconditions are asserted of names that stand for no value.
CallResults(f) == {w \in Word : \A p \in f.callee.ret : Holds(p, <<>>, w)}

\* The edge conditions: a jump is taken when its block is on the path, a
\* branch to the side its condition says.
EdgeEither(f, on, env, p, b) == p \in on  \* both sides of a branch
EdgeOn(f, on, env, p, b) ==
    LET term == f.blocks[p].term
    IN  /\ p \in on
        /\ term.k = "branch" => (env[term.c] = 1) = (b = term.to[1])

\* cfg.rs: a block is on the path iff an edge into it is
BlockHolds(f, on, env, b) ==
    b # 1 => (b \in on) = (\E p \in f.preds[b] : EdgeOn(f, on, env, p, b))

\* Phi: the value that comes in over the edge that is taken; into a loop
\* header, the entries only
Sources(f, b) == IF Back(f, b) # {} THEN Entries(f, b) ELSE f.preds[b]
PhiHolds(f, on, env, b, phi, w, from) ==
    \A p \in Sources(f, b) \cap from : EdgeOn(f, on, env, p, b) => w = env[phi.in[p]]

\* assert_derived_intervals: the range of a value binds it on every path, the
\* narrower ones where their block is on the path
Allowed(an, on, v, w) ==
    /\ v \in DOMAIN an.iv => In(w, an.iv[v])
    /\ \A b \in on : <<v, b>> \in DOMAIN an.nar => In(w, an.nar[<<v, b>>])

\* translate_instructions: an instruction on the path defines its value; a
\* call returns anything its contract allows, and a phi takes what comes from
\* the blocks before it (FlowHolds adds the blocks after).  Off the path one
\* word stands for all: no check looks at it, unless it was stored as the
\* exception word.
ExcTerms(f) == {s.inst.a : s \in {s \in Range(f.sites) : s.inst.op = "setexc"}}
Given(f, an, k, on, env) ==
    LET b == f.sites[k].b
        inst == f.sites[k].inst
        words == IF b \notin on THEN Word
                 ELSE CASE inst.op = "phi" -> {w \in Word : PhiHolds(f, on, env, b, inst, w, 1 .. b - 1)}
                        [] inst.op = "call" -> CallResults(f)
                        [] inst.op = "getexc" -> {env[ExcTerm(f, k)]}
                        [] OTHER -> {Computes(inst, env)}
        allowed == {w \in words : Allowed(an, on, inst.d, w)}
    IN  IF b \in on \/ inst.d \in ExcTerms(f) \/ allowed = {} THEN allowed
        ELSE {CHOOSE w \in allowed : TRUE}

Translate(f, an, k, on, envs) ==
    LET inst == f.sites[k].inst
        b == f.sites[k].b
        sofar == IF f.preds[b] \subseteq 1 .. b - 1
                 THEN {env \in envs : BlockHolds(f, on, env, b)} ELSE envs
    IN  CASE inst.op = "setexc" -> sofar
          [] inst.op = "assert" -> {env \in sofar : b \in on => env[inst.a] = 1}
          [] OTHER -> UNION {{With(env, inst.d, w) : w \in Given(f, an, k, on, env)} : env \in sofar}

\* Phi: a back edge into a header with entries needs one of them
BackHolds(f, m, b) ==
    (\E p \in Back(f, b) : EdgeOn(f, m.on, m.env, p, b)) /\ Entries(f, b) # {} =>
        \E p \in Entries(f, b) : EdgeOn(f, m.on, m.env, p, b)

\* verify_loop_invariants assumes them at the header, on every visit
InvariantsHold(f, m) ==
    \A inv \in f.contract.invs : inv.header \in m.on => Holds(inv.pred, m.env, 0)

FlowHolds(f, m) ==
    /\ \A b \in DOMAIN f.blocks : BlockHolds(f, m.on, m.env, b)
    /\ \A s \in Range(f.sites) :
          s.inst.op = "phi" /\ s.b \in m.on =>
              /\ PhiHolds(f, m.on, m.env, s.b, s.inst, m.env[s.inst.d], DOMAIN f.blocks)
              /\ BackHolds(f, m, s.b)
    /\ InvariantsHold(f, m)

\* the paths worth trying: from the entry, and on to somewhere
Paths(f) ==
    {on \in SUBSET DOMAIN f.blocks :
        /\ 1 \in on
        /\ \A b \in on \ {1} : f.preds[b] \cap on # {}
        /\ \A b \in on : f.blocks[b].term.k # "return" => Range(f.blocks[b].term.to) \cap on # {}}

Starts(f, an, on) ==
    {env \in [{0} \cup Params(f) -> Word] :
        /\ Satisfied(f.contract.refs \cup f.contract.pre, env)
        /\ \A v \in Params(f) : Allowed(an, on, v, env[v])}

\* one instruction after the other
Assignments(f, an, on) ==
    LET after[k \in 0 .. Len(f.sites)] ==
            IF k = 0 THEN Starts(f, an, on) ELSE Translate(f, an, k, on, after[k - 1])
    IN  after[Len(f.sites)]

Models(f, an) ==
    {m \in UNION {{[on |-> on, env |-> env] : env \in Assignments(f, an, on)} : on \in Paths(f)} :
        FlowHolds(f, m)}

(***************************************************************************)
(* The checks: each is the set of the models that violate it.              *)
(***************************************************************************)
\* no check where the range of the divisor has no zero
DivViolated(f, an, m) ==
    \E s \in Range(f.sites) :
        s.b \in m.on /\ s.inst.op = "div" /\ ~NeverZero(an, s.inst.b) /\ m.env[s.inst.b] = 0
AssertViolated(f, m) ==
    \E s \in Range(f.sites) : s.b \in m.on /\ s.inst.op = "assert" /\ m.env[s.inst.a] # 1

\* on a back edge, the phis of the header are replaced by what comes in
PhiPuts(f, b, p) == LET phis == f.blocks[b].phis IN [i \in DOMAIN phis |-> <<phis[i].d, phis[i].in[p]>>]
NextVisit(f, inv, p) == Substitute(inv.pred, PhiPuts(f, inv.header, p))
InvariantViolated(f, m) ==
    \E inv \in f.contract.invs : \E p \in f.preds[inv.header] :
        /\ EdgeOn(f, m.on, m.env, p, inv.header)
        /\ ~Holds(IF p \in Back(f, inv.header) THEN NextVisit(f, inv, p) ELSE inv.pred, m.env, 0)

SafetyViolated(f, an, m) == DivViolated(f, an, m) \/ AssertViolated(f, m) \/ InvariantViolated(f, m)

\* returns.rs: with no exception pending, as far as the last term tells
ReturnViolated(f, m) ==
    \E b \in m.on :
        /\ f.blocks[b].term.k = "return"
        /\ m.env[LastExcTerm(f)] = 0
        /\ \E p \in f.contract.ret \cup f.contract.post : ~Holds(p, m.env, m.env[f.blocks[b].term.v])

\* calls.rs
Bound(args, env) == [i \in DOMAIN args |-> env[args[i]]]
ArgumentViolated(f, m, args) == ~Satisfied(f.callee.refs, Bound(args, m.env))
PreconditionViolated(f, m, args) == ~Satisfied({SubstituteArgs(p, args) : p \in f.callee.pre}, m.env)
CallViolated(f, m) ==
    \E s \in Range(f.sites) :
        /\ s.b \in m.on
        /\ s.inst.op = "call"
        /\ ArgumentViolated(f, m, s.inst.args) \/ PreconditionViolated(f, m, s.inst.args)

(***************************************************************************)
(* verify_with_context.                                                    *)
(***************************************************************************)
Analyze ==
    /\ phase = "analyze"
    /\ derived' = Pass(func, derived)
    /\ phase' = IF Unfinished(derived') THEN "analyze" ELSE "translate"
    /\ UNCHANGED <<func, models, verdict, cex, machine>>

AskSolver ==
    /\ phase = "translate"
    /\ models' = Models(func, derived)
    /\ phase' = "safety"
    /\ UNCHANGED <<func, derived, verdict, cex, machine>>

Refuse(m) ==
    /\ verdict' = "refused"
    /\ cex' = m.env
    /\ phase' = "done"
    /\ models' = {}

\* One kind of check after the other; the first that is satisfiable ends it.
CheckAll(here, next, violated(_)) ==
    /\ phase = here
    /\ LET bad == {m \in models : violated(m)}
       IN  IF bad = {} THEN phase' = next /\ UNCHANGED <<models, verdict, cex>>
                       ELSE \E m \in bad : Refuse(m)
    /\ UNCHANGED <<func, derived, machine>>

CheckSafety == CheckAll("safety", "returns", LAMBDA m : SafetyViolated(func, derived, m))
VerifyReturnRefinements == CheckAll("returns", "calls", LAMBDA m : ReturnViolated(func, m))
VerifyCallArguments == CheckAll("calls", "consistency", LAMBDA m : CallViolated(func, m))

\* a function with a contract must have a run
CheckConsistencySkipped ==  \* and nobody asks
    /\ phase = "consistency"
    /\ verdict' = "verified"
    /\ phase' = "done"
    /\ models' = {}
    /\ UNCHANGED <<func, derived, cex, machine>>
CheckConsistency ==
    /\ phase = "consistency"
    /\ verdict' = IF HasRefinements(func) /\ models = {} THEN "refused" ELSE "verified"
    /\ phase' = "done"
    /\ models' = {}
    /\ UNCHANGED <<func, derived, cex, machine>>

(***************************************************************************)
(* The machine.  It runs a verified function on any input the contract     *)
(* allows, and a refused one on the counterexample, when that determines   *)
(* the run: no loop, no exception.  The first fault is its outcome; where  *)
(* the formulas go on behind it, so does the machine, to the end of the    *)
(* path they speak of.                                                     *)
(***************************************************************************)
Replayable(f) ==
    /\ cex # <<>> /\ cex[0] = 0
    /\ \A s \in Range(f.sites) : s.inst.op # "setexc"
    /\ \A b \in DOMAIN f.blocks : Back(f, b) = {}

Start ==
    /\ phase = "done"
    /\ at = 0
    /\ outcome = "none"
    /\ \/ verdict = "verified" /\ val' \in Inputs(func)
       \/ /\ verdict = "refused" /\ Replayable(func)
          /\ val' = [v \in {0} \cup Params(func) |-> IF v = 0 THEN 0 ELSE cex[v]]
    /\ at' = 1
    /\ pos' = 1
    /\ seen' = {1}
    /\ UNCHANGED <<func, solver, exc, told, blind, outcome>>

Running == at # 0
Code == func.blocks[at].code
First(fault) == IF outcome = "none" THEN fault ELSE outcome

\* where the instruction is in the order of the translation
Here == CHOOSE k \in DOMAIN func.sites :
            func.sites[k].b = at /\ func.sites[k].inst = Code[pos]

Run(ops) == Running /\ pos \in DOMAIN Code /\ Code[pos].op \in ops /\ pos' = pos + 1

Pure == {"const", "add", "sub", "mul", "neg", "abs"} \cup DOMAIN Negate
RunPure ==
    /\ Run(Pure)
    /\ val' = With(val, Code[pos].d, Computes(Code[pos], val))
    /\ UNCHANGED <<func, solver, at, seen, exc, told, blind, outcome>>

\* sdiv traps on a zero divisor, and on MIN // -1, which no check is about
RunDiv ==
    /\ Run({"div"})
    /\ LET a == val[Code[pos].a]
           b == val[Code[pos].b]
       IN  /\ outcome' = First(IF b = 0 THEN "div" ELSE IF ClDivTraps(a, b) THEN "overflow" ELSE "none")
           /\ val' = With(val, Code[pos].d, Computes(Code[pos], val))
    /\ at' = IF outcome' = "overflow" THEN 0 ELSE at
    /\ UNCHANGED <<func, solver, seen, exc, told, blind>>

\* The trap of a false assertion.  The solver takes it to be true, on the
\* path behind it and on the path before it.
RunAssert ==
    /\ Run({"assert"})
    /\ IF val[Code[pos].a] = 1 THEN UNCHANGED <<at, blind, outcome>>
       ELSE at' = 0 /\ blind' = TRUE /\ outcome' = First("assert")
    /\ UNCHANGED <<func, solver, val, seen, exc, told>>

\* What a verified callee does when it is called as its contract says: it
\* returns a result of its type, or raises, and nobody looks at the result.
RunCall ==
    /\ Run({"call"})
    /\ LET given == Bound(Code[pos].args, val)
       IN  outcome' = First(IF ~Satisfied(func.callee.refs, given) THEN "argument"
                           ELSE IF ~Satisfied(func.callee.pre, given) THEN "precondition" ELSE "none")
    /\ \/ /\ \E w \in CallResults(func) :
                /\ verdict = "refused" => w = cex[Code[pos].d]
                /\ val' = With(val, Code[pos].d, w)
          /\ exc' = 0
       \/ /\ func.callee.raises # {} /\ verdict = "verified"
          /\ exc' \in func.callee.raises
          /\ UNCHANGED val
    /\ UNCHANGED <<func, solver, at, seen, told, blind>>

\* The run fixes what the solver's term is: by the store, or by the first
\* load that comes before it.
Tell(t, w) ==
    /\ told' = With(told, t, w)
    /\ blind' = (blind \/ (t \in DOMAIN told /\ told[t] # w))

RunSetExc ==
    /\ Run({"setexc"})
    /\ exc' = val[Code[pos].a]
    /\ Tell(Code[pos].a, exc')
    /\ UNCHANGED <<func, solver, at, val, seen, outcome>>

RunGetExc ==
    /\ Run({"getexc"})
    /\ val' = With(val, Code[pos].d, exc)
    /\ Tell(ExcTerm(func, Here), exc)
    /\ UNCHANGED <<func, solver, at, seen, exc, outcome>>

AtEnd(k) == Running /\ pos > Len(Code) /\ func.blocks[at].term.k = k

IsHeader(f, b) == Entries(f, b) # {} /\ f.blocks[b].phis # <<>>

\* lower/control_flow.rs: the phis of the target are the parameters of its
\* block.  The formulas take an invariant to be true on entry, check it on the
\* back edge, and do not follow a back edge into a header that has both phis
\* and an entry.
Enter(b) ==
    LET phis == func.blocks[b].phis
        came == [d \in {phis[i].d : i \in DOMAIN phis} |->
                    val[(CHOOSE phi \in Range(phis) : phi.d = d).in[at]]]
        back == at \in Back(func, b)
        false == \E inv \in func.contract.invs : inv.header = b /\ ~Holds(inv.pred, Override(val, came), 0)
        unseen == back /\ IsHeader(func, b)
    IN  /\ outcome' = First(IF ~false THEN "none" ELSE IF back THEN "preserved" ELSE "invariant")
        /\ blind' = (blind \/ (false /\ ~back) \/ (unseen /\ outcome' = "none"))
        /\ at' = IF false \/ (unseen /\ outcome' # "none") THEN 0 ELSE b
        /\ val' = IF at' = 0 THEN val ELSE Override(val, came)
        /\ seen' = seen \cup {b}
        /\ pos' = 1
        /\ UNCHANGED <<func, solver, exc, told>>

RunJump == AtEnd("jump") /\ Enter(func.blocks[at].term.to[1])
RunBranch ==
    /\ AtEnd("branch")
    /\ LET term == func.blocks[at].term
       IN  Enter(IF val[term.c] = 1 THEN term.to[1] ELSE term.to[2])

\* The caller looks at the result when no exception is pending.
RunReturn ==
    /\ AtEnd("return")
    /\ LET result == val[func.blocks[at].term.v]
           Kept(ps) == \A p \in ps : Holds(p, val, result)
       IN  outcome' = First(IF exc # 0 THEN "raised"
                           ELSE IF ~Kept(func.contract.ret) THEN "result"
                           ELSE IF ~Kept(func.contract.post) THEN "postcondition" ELSE "kept")
    /\ Tell(LastExcTerm(func), exc)
    /\ at' = 0
    /\ pos' = 1
    /\ UNCHANGED <<func, solver, val, seen, exc>>

-------------------------------------------------------------------------------
(***************************************************************************)
(* What the builder leaves: a control flow graph in SSA form, with every   *)
(* operand available where it is used, and made before it in the order of  *)
(* the translation.                                                        *)
(***************************************************************************)
PhisOf(f, b) == f.blocks[b].phis
CodeOf(f, b) == f.blocks[b].code
To(f, b) == Range(f.blocks[b].term.to)

Operands(inst) ==
    CASE inst.op \in {"const", "getexc"} -> {}
      [] inst.op = "call" -> Range(inst.args)
      [] inst.op \in {"assert", "setexc"} -> {inst.a}
      [] OTHER -> {inst.a, inst.b}
Mentions(p) == {x.n : x \in {x \in {p.l, p.r} : x.k = "val"}}

\* every way to b leads through c: without c, it does not leave S
Cuts(f, c, S) == c \notin S /\ (c = 1 \/ 1 \in S) /\ \A p \in S : To(f, p) \ {c} \subseteq S
Dominates(f, c, b) == c = b \/ \E S \in SUBSET DOMAIN f.blocks : Cuts(f, c, S) /\ b \notin S

\* the first n instructions of a block make v, whatever a call does
Made(f, b, n, v) ==
    \E i \in 1 .. n : LET inst == CodeOf(f, b)[i]
                      IN  Defines(inst) /\ inst.op # "call" /\ inst.d = v
\* v is there once control is in c: a phi of it, or the result of a call,
\* unless it raised
Gives(f, c, v) ==
    \/ \E phi \in Range(PhisOf(f, c)) : phi.d = v
    \/ \E p \in f.preds[c] : \E inst \in Range(CodeOf(f, p)) :
          inst.op = "call" /\ inst.d = v /\ c = f.blocks[p].term.to[2]
Available(f, v, b) ==
    \/ v \in Params(f)
    \/ \E c \in DOMAIN f.blocks :
          Dominates(f, c, b) /\ (Gives(f, c, v) \/ (c # b /\ Made(f, c, Len(CodeOf(f, c)), v)))
Ready(f, b, n, v) == Available(f, v, b) \/ Made(f, b, n, v)
AtEndOf(f, b, v) == Ready(f, b, Len(CodeOf(f, b)), v)

\* an instruction before the k-th makes v, in a block up to the b-th
Earlier(f, k, b, v) ==
    \/ v \in Params(f)
    \/ \E j \in 1 .. k - 1 :
          f.sites[j].b <= b /\ Defines(f.sites[j].inst) /\ f.sites[j].inst.d = v

TermForm(f, b) ==
    LET term == f.blocks[b].term
    IN  /\ To(f, b) \subseteq DOMAIN f.blocks
        /\ \/ term.k = "jump" /\ DOMAIN term.to = {1}
           \/ term.k = "branch" /\ DOMAIN term.to = {1, 2} /\ term.to[1] # term.to[2]
              /\ AtEndOf(f, b, term.c)
           \/ term.k = "return" /\ DOMAIN term.to = {} /\ AtEndOf(f, b, term.v)

\* loops are entered through their header; reach is what can be reached
GraphForm(f) ==
    /\ 1 \in DOMAIN f.blocks /\ f.preds[1] = {} /\ PhisOf(f, 1) = <<>>
    /\ f.blocks \in Seq(Range(f.blocks))
    /\ f.preds = [b \in DOMAIN f.blocks |-> {p \in DOMAIN f.blocks : b \in To(f, p)}]
    /\ \A b \in DOMAIN f.blocks :
          /\ TermForm(f, b)
          /\ {b} \cup To(f, b) \subseteq f.reach[b] /\ \A p \in f.reach[b] : f.reach[p] \subseteq f.reach[b]
          /\ IsHeader(f, b) => \A p \in Back(f, b) : Dominates(f, b, p)

DefinedOnce(f) ==
    /\ \A k \in DOMAIN f.sites :
          Defines(f.sites[k].inst) =>
              /\ f.sites[k].inst.d \notin {0} \cup Params(f)
              /\ \A j \in DOMAIN f.sites :
                    Defines(f.sites[j].inst) /\ f.sites[j].inst.d = f.sites[k].inst.d => j = k
    /\ \A b, c \in DOMAIN f.blocks :
          /\ \A i \in DOMAIN PhisOf(f, b), j \in DOMAIN PhisOf(f, c) :
                PhisOf(f, b)[i].d = PhisOf(f, c)[j].d => b = c /\ i = j
          /\ \A i \in DOMAIN PhisOf(f, b), j \in DOMAIN CodeOf(f, c) :
                Defines(CodeOf(f, c)[j]) => PhisOf(f, b)[i].d # CodeOf(f, c)[j].d
          /\ \A i \in DOMAIN CodeOf(f, b), j \in DOMAIN CodeOf(f, c) :
                Defines(CodeOf(f, b)[i]) /\ Defines(CodeOf(f, c)[j])
                /\ CodeOf(f, b)[i].d = CodeOf(f, c)[j].d => b = c /\ i = j

\* the sites are the instructions, block by block
SiteForm(f) ==
    /\ f.sites \in Seq(Range(f.sites))
    /\ \A k \in DOMAIN f.sites :
          LET s == f.sites[k]
          IN  /\ s.b \in DOMAIN f.blocks
              /\ s.inst \in Range(IF s.inst.op = "phi" THEN PhisOf(f, s.b) ELSE CodeOf(f, s.b))
              /\ \A j \in 1 .. k : f.sites[j].b <= s.b
              /\ s.inst.op # "phi" => \A v \in Operands(s.inst) : Earlier(f, k, s.b, v)
    /\ \A b \in DOMAIN f.blocks :
          \A inst \in Range(PhisOf(f, b)) \cup Range(CodeOf(f, b)) :
              \E k \in DOMAIN f.sites : f.sites[k].b = b /\ f.sites[k].inst = inst

\* f() and what follows it: if the exception word is not 0, leave
CallForm(f, b, i) ==
    LET code == CodeOf(f, b)
        term == f.blocks[b].term
    IN  /\ code[i].args \in Seq(Range(code[i].args))
        /\ Len(code) = i + 3 /\ term.k = "branch" /\ f.preds[term.to[2]] = {b}
        /\ code[i + 1].op = "getexc" /\ code[i + 2].op = "const" /\ code[i + 2].a = 0
        /\ code[i + 3].op = "#" /\ code[i + 3].a = code[i + 1].d /\ code[i + 3].b = code[i + 2].d
        /\ term.c = code[i + 3].d
        /\ \A p \in f.callee.refs \cup f.callee.pre : Mentions(p) \subseteq DOMAIN code[i].args

InstForm(f, b, i) ==
    LET inst == CodeOf(f, b)[i]
    IN  /\ inst.op \in Pure \cup {"div", "assert", "call", "setexc", "getexc"}
        /\ \A v \in Operands(inst) : Ready(f, b, i - 1, v)
        /\ inst.op = "const" => inst.a \in Int
        /\ inst.op = "call" => CallForm(f, b, i)
        /\ inst.op = "setexc" =>  \* of the number of a class of exceptions
              \E j \in 1 .. i - 1 : CodeOf(f, b)[j].op = "const" /\ CodeOf(f, b)[j].d = inst.a

BlockForm(f, b) ==
    /\ CodeOf(f, b) \in Seq(Range(CodeOf(f, b))) /\ PhisOf(f, b) \in Seq(Range(PhisOf(f, b)))
    /\ \A i \in DOMAIN CodeOf(f, b) : InstForm(f, b, i)
    /\ \A phi \in Range(PhisOf(f, b)) :
          /\ phi.op = "phi" /\ DOMAIN phi.in = f.preds[b]
          /\ \A p \in f.preds[b] : AtEndOf(f, p, phi.in[p]) /\ Earlier(f, Len(f.sites) + 1, p, phi.in[p])
    /\ f.blocks[b].term.k = "branch" => Earlier(f, Len(f.sites) + 1, b, f.blocks[b].term.c)

Term == [k : {"val", "lit", "result"}, n : Int]
PredicateForm(f) ==
    /\ f.contract.refs \cup f.contract.pre \cup f.contract.ret \cup f.contract.post
          \cup f.callee.refs \cup f.callee.pre \cup f.callee.ret
          \cup {inv.pred : inv \in f.contract.invs}
       \subseteq [op : DOMAIN Negate, l : Term, r : Term]
    /\ \A p \in f.contract.refs \cup f.contract.pre \cup f.contract.ret \cup f.contract.post :
          Mentions(p) \subseteq Params(f)
    /\ \A p \in f.callee.ret : Mentions(p) = {}
    /\ \A inv \in f.contract.invs :
          inv.header \in DOMAIN f.blocks /\ \A v \in Mentions(inv.pred) : Available(f, v, inv.header)

WellFormed(f) ==
    /\ GraphForm(f) /\ DefinedOnce(f) /\ SiteForm(f) /\ PredicateForm(f)
    /\ \A b \in DOMAIN f.blocks : BlockForm(f, b)
    /\ f.args \in Nat /\ f.callee.raises \subseteq Word \ {0}

ASSUME FuncsAssumption == \A f \in Funcs : WellFormed(f)

\* Functions whose loops the formulas cut at their header, all of them: no loop
\* in a loop, and none without a phi; where an invariant is of such a header,
\* and no substitution puts a name in the place of one that is replaced later.
Followed(f, p, b) == ~(p \in Back(f, b) /\ IsHeader(f, b))
Closed(f, T) == \A p \in T : \A b \in To(f, p) : Followed(f, p, b) => b \in T
Acyclic(f) ==
    \A b \in DOMAIN f.blocks : \A p \in f.preds[b] :
        Followed(f, p, b) => \E T \in SUBSET DOMAIN f.blocks : b \in T /\ p \notin T /\ Closed(f, T)
Apart(puts) == \A i, j \in DOMAIN puts : i < j => puts[i][2] # puts[j][1]
ArgumentsApart(f) == \A s \in Range(f.sites) : s.inst.op = "call" => Apart(ArgPuts(s.inst.args))
Regular(f) ==
    /\ Acyclic(f) /\ ArgumentsApart(f)
    /\ \A inv \in f.contract.invs :
          IsHeader(f, inv.header) /\ \A p \in Back(f, inv.header) : Apart(PhiPuts(f, inv.header, p))

-------------------------------------------------------------------------------
Init ==
    /\ func \in Funcs
    /\ derived = NewAnalysis(func)
    /\ models = {} /\ phase = "analyze" /\ verdict = "none" /\ cex = <<>>
    /\ at = 0 /\ pos = 1 /\ val = <<>> /\ seen = {} /\ exc = 0 /\ told = <<>>
    /\ blind = FALSE /\ outcome = "none"

Verify ==
    Analyze \/ AskSolver \/ CheckSafety \/ VerifyReturnRefinements \/ VerifyCallArguments \/ CheckConsistency
Execute ==
    \/ Start \/ RunPure \/ RunDiv \/ RunAssert \/ RunCall \/ RunSetExc \/ RunGetExc
    \/ RunJump \/ RunBranch \/ RunReturn

Next == Verify \/ Execute
Spec == Init /\ [][Next]_vars

\* what the checks are there to exclude, and what they take for granted
Checked == {"div", "argument", "precondition", "preserved", "result", "postcondition"}
Assumed == {"assert", "invariant"}
Outcomes == {"none", "kept", "raised", "overflow"} \cup Checked \cup Assumed

TypeOK ==
    /\ func \in Funcs
    /\ phase \in {"analyze", "translate", "safety", "returns", "calls", "consistency", "done"}
    /\ verdict \in {"none", "verified", "refused"}
    /\ \A m \in models : m.on \subseteq DOMAIN func.blocks /\ Range(m.env) \subseteq Word
    /\ at \in {0} \cup DOMAIN func.blocks
    /\ at # 0 => pos \in 1 .. Len(Code) + 1
    /\ Range(val) \subseteq Word /\ Range(told) \subseteq Word /\ exc \in Word
    /\ blind \in BOOLEAN
    /\ outcome \in Outcomes

\* The run is one of the assignments the verifier asks about: its values are
\* within the ranges derived for them, as words and as numbers, and the values
\* that were not made, in other blocks or by calls that raised, could be.
Over == outcome # "none" /\ at = 0
Within(w, x) == ~ (x.low > Signed(w) \/ x.high < Signed(w))
Represented ==
    /\ \A v \in DOMAIN val : Allowed(derived, seen, v, val[v])
    /\ \A v \in DOMAIN val \cap DOMAIN derived.iv : Within(val[v], derived.iv[v])
    /\ \A t \in DOMAIN told : Allowed(derived, seen, t, told[t])
    /\ \A s \in Range(func.sites) :
          Defines(s.inst) /\ s.inst.d \notin DOMAIN val =>
              \E w \in IF s.b \in seen THEN CallResults(func) ELSE Word :
                  Allowed(derived, seen, s.inst.d, w)

\* A verified function keeps what was checked, on every run that some
\* assignment of the solver stands for: it divides by no zero, calls as the
\* callees ask, returns what it promised (mod.rs:256-288).  The check a
\* range answers is among them: it is skipped for such runs only.
CoveredRunsAreSafe == verdict = "verified" /\ Over /\ ~blind /\ Represented => outcome \notin Checked

\* A refusal is about a run: the machine breaks a promise on the
\* counterexample that get_counterexample_string prints.  A callee may return
\* what its return refinement allows: it has no postconditions.
CounterexampleIsReal == verdict = "refused" => outcome # "kept"

\* A function with a contract of its own is not verified for want of runs
\* (the final consistency check, mod.rs:282-288).
VerifiedHasRuns == verdict = "verified" /\ HasRefinements(func) => Inputs(func) # {}

\* docs/core_concepts.md:69, of the generation of the obligations: "The
\* compiler validates preconditions at call sites, loop invariants on block
\* entries and back-edges, and postconditions at function boundaries."
VerifiedIsSafe == verdict = "verified" => outcome \notin Checked

\* docs/core_concepts.md:68: "promotes standard Python `assert` statements to
\* static theorem proofs"
AssertsAreProved == verdict = "verified" => outcome # "assert"

=============================================================================
