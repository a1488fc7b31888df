---------------------------- MODULE VcFlow_proofs -----------------------------
(***************************************************************************)
(* Proofs about VcFlow.                                                    *)
(***************************************************************************)
EXTENDS VcFlow, NumberFacts, TLAPS

(***************************************************************************)
(* The verdict: what is known of the assignments, check after check.       *)
(***************************************************************************)
SafetyPassed == \A m \in Models(func, derived) : ~SafetyViolated(func, derived, m)
ReturnsPassed == \A m \in Models(func, derived) : ~ReturnViolated(func, m)
CallsPassed == \A m \in Models(func, derived) : ~CallViolated(func, m)
VerdictInv ==
    /\ func \in Funcs
    /\ phase \in {"analyze", "translate", "safety", "returns", "calls", "consistency", "done"}
    /\ verdict \in {"none", "verified", "refused"}
    /\ verdict # "none" => phase = "done"
    /\ phase \in {"safety", "returns", "calls", "consistency"} => models = Models(func, derived)
    /\ phase \in {"analyze", "translate", "done"} => models = {}
    /\ phase \in {"returns", "calls", "consistency"} \/ verdict = "verified" => SafetyPassed
    /\ phase \in {"calls", "consistency"} \/ verdict = "verified" => ReturnsPassed
    /\ phase = "consistency" \/ verdict = "verified" => CallsPassed
    /\ verdict = "verified" /\ HasRefinements(func) => Models(func, derived) # {}
    /\ cex # <<>> => phase = "done" /\ \E m \in Models(func, derived) : cex = m.env

(***************************************************************************)
(* The machine: what control is in has the values it needs.                *)
(***************************************************************************)
Executed(b, i) == b \in seen /\ i \in DOMAIN CodeOf(func, b) /\ (b = at => i < pos)
Left == seen \ {at}

Started == at # 0 \/ outcome # "none"
PlaceInv ==
    /\ at \in {0} \cup DOMAIN func.blocks /\ seen \subseteq DOMAIN func.blocks
    /\ at # 0 => at \in seen /\ pos \in 1 .. Len(CodeOf(func, at)) + 1
    /\ Started => phase = "done" /\ verdict # "none" /\ 1 \in seen
    /\ ~Started => seen = {} /\ ~blind /\ told = <<>> /\ val = <<>>
    /\ blind \in BOOLEAN /\ outcome \in Outcomes
\* what dominates a block that was entered was entered
DomInv == \A c \in DOMAIN func.blocks, S \in SUBSET DOMAIN func.blocks :
              Cuts(func, c, S) /\ c \notin seen => seen \subseteq S
WordInv ==
    /\ \A v \in DOMAIN val : val[v] \in Word
    /\ \A t \in DOMAIN told : told[t] \in Word
    /\ exc \in Word
Complete ==
    /\ \A b \in seen : \A v : Gives(func, b, v) \/ Available(func, v, b) => v \in DOMAIN val
    /\ \A b, i : Executed(b, i) =>
          LET inst == CodeOf(func, b)[i]
          IN  Defines(inst) /\ inst.op # "call" => inst.d \in DOMAIN val
\* a call that raised has made no value, and its exception is found
RaisedInv ==
    at # 0 => \A i \in DOMAIN CodeOf(func, at) :
        LET code == CodeOf(func, at)
        IN  i < pos /\ code[i].op = "call" /\ code[i].d \notin DOMAIN val =>
              /\ exc # 0
              /\ i + 1 < pos => val[code[i + 1].d] = exc
              /\ i + 2 < pos => val[code[i + 2].d] = 0
              /\ i + 3 < pos => val[code[i + 3].d] = 1
MachineInv ==
    /\ PlaceInv /\ DomInv /\ WordInv /\ RaisedInv
    /\ Started => {0} \cup Params(func) \subseteq DOMAIN val
    /\ at # 0 => Complete

(***************************************************************************)
(* The evidence of a run of a verified function, as long as some assignment *)
(* stands for it.                                                          *)
(***************************************************************************)
\* where a block leaves to
Takes(f, env, p, b) ==
    LET term == f.blocks[p].term
    IN  \/ term.k = "jump" /\ b = term.to[1]
        \/ term.k = "branch" /\ b = IF env[term.c] = 1 THEN term.to[1] ELSE term.to[2]

Fulfilled(inst) ==
    /\ inst.op \in Pure \cup {"div"} => val[inst.d] = Computes(inst, val)
    /\ inst.op = "assert" => val[inst.a] = 1
    /\ inst.op = "call" => (inst.d \in DOMAIN val => val[inst.d] \in CallResults(func))
    /\ inst.op = "setexc" => inst.a \in DOMAIN told /\ told[inst.a] = val[inst.a]
    /\ inst.op = "getexc" =>
          \A k \in DOMAIN func.sites : func.sites[k].inst = inst =>
              ExcTerm(func, k) \in DOMAIN told /\ val[inst.d] = told[ExcTerm(func, k)]

PathInv ==
    /\ \A p \in Left : func.blocks[p].term.k # "return" => \E b \in seen : Takes(func, val, p, b)
    /\ \A b \in seen \ {1} : \E p \in Left \cap func.preds[b] :
          Followed(func, p, b) /\ Takes(func, val, p, b)
    /\ at # 0 => \A c \in seen, T \in SUBSET DOMAIN func.blocks :
          c \in T /\ Closed(func, T) => at \in T
    /\ \A p \in Left : func.blocks[p].term.k = "return" => at = 0
ValueInv ==
    /\ Satisfied(func.contract.refs \cup func.contract.pre, val)
    /\ \A b, i : Executed(b, i) => Fulfilled(CodeOf(func, b)[i])
    /\ \A b \in seen : \A phi \in Range(PhisOf(func, b)) : \A p \in Entries(func, b) \cap Left :
          Takes(func, val, p, b) => val[phi.d] = val[phi.in[p]]
    /\ \A inv \in func.contract.invs : inv.header \in seen => Holds(inv.pred, val, 0)
\* values are made once
FreshInv ==
    /\ \A v \in DOMAIN val :
          \/ v \in {0} \cup Params(func)
          \/ \E b \in seen : \E phi \in Range(PhisOf(func, b)) : phi.d = v
          \/ \E b \in seen : \E i \in DOMAIN CodeOf(func, b) :
                Executed(b, i) /\ Defines(CodeOf(func, b)[i]) /\ CodeOf(func, b)[i].d = v
    /\ DOMAIN told \subseteq {0} \cup ExcTerms(func)

ArgumentsFit(inst, ps) == Satisfied(ps, Bound(inst.args, val))
Fault(b, i) ==
    LET inst == CodeOf(func, b)[i]
    IN  \/ outcome = "div" /\ inst.op = "div" /\ val[inst.b] = 0
        \/ outcome = "argument" /\ inst.op = "call" /\ ~ArgumentsFit(inst, func.callee.refs)
        \/ outcome = "precondition" /\ inst.op = "call" /\ ~ArgumentsFit(inst, func.callee.pre)
FaultInv ==
    /\ outcome \in {"div", "argument", "precondition"} =>
          \E b \in seen : \E i \in DOMAIN CodeOf(func, b) : Executed(b, i) /\ Fault(b, i)
    /\ outcome = "preserved" =>
          \E inv \in func.contract.invs : \E p \in Left \cap Back(func, inv.header) :
              Takes(func, val, p, inv.header) /\ ~Holds(NextVisit(func, inv, p), val, 0)
    /\ outcome \in {"result", "postcondition"} =>
          \E b \in Left :
              /\ func.blocks[b].term.k = "return"
              /\ LastExcTerm(func) \in DOMAIN told /\ told[LastExcTerm(func)] = 0
              /\ \E p \in func.contract.ret \cup func.contract.post :
                    ~Holds(p, val, val[func.blocks[b].term.v])
    /\ at # 0 => outcome \in {"none", "div", "argument", "precondition"}

Clean == Started /\ verdict = "verified" /\ ~blind /\ outcome # "overflow"
EvidenceInv == Clean => Complete /\ PathInv /\ ValueInv /\ FreshInv /\ FaultInv

-------------------------------------------------------------------------------
(***************************************************************************)
(* The recursive definitions, unfolded.                                    *)
(***************************************************************************)
Unfolds(g, f, an, on, n) ==
    g = [k \in 0 .. n |-> IF k = 0 THEN Starts(f, an, on) ELSE Translate(f, an, k, on, g[k - 1])]

\* There is a function that does what the definition of Assignments says.
LEMMA UnfoldsExists ==
  ASSUME NEW f, NEW an, NEW on, NEW n \in Nat
  PROVE  \E g : Unfolds(g, f, an, on, n)
<1> DEFINE Bad == {m \in Nat : ~ \E g : Unfolds(g, f, an, on, m)}
<1> SUFFICES ASSUME Bad # {} PROVE FALSE
  OBVIOUS
<1>1. PICK m \in Bad : \A y \in Bad : m <= y
  BY LeastNatural
<1>2. CASE m = 0
  <2>1. PICK g : g = [k \in 0 .. 0 |-> Starts(f, an, on)]
    OBVIOUS
  <2>2. \A k \in 0 .. 0 : k = 0
    OBVIOUS
  <2>3. Unfolds(g, f, an, on, 0)
    BY <2>1, <2>2 DEF Unfolds
  <2> QED BY <1>2, <2>3
<1>3. CASE m # 0
  <2>1. m - 1 \in Nat /\ m - 1 \notin Bad
    BY <1>1, <1>3
  <2>2. PICK g : Unfolds(g, f, an, on, m - 1)
    BY <2>1
  <2>3. PICK h : h = [k \in 0 .. m |-> IF k = m THEN Translate(f, an, m, on, g[m - 1]) ELSE g[k]]
    OBVIOUS
  <2>4. \A k \in 0 .. m - 1 : g[k] = IF k = 0 THEN Starts(f, an, on) ELSE Translate(f, an, k, on, g[k - 1])
    BY <2>2 DEF Unfolds
  <2>5. \A k \in 0 .. m - 1 : h[k] = g[k]
    BY <2>1, <2>3
  <2>6. ASSUME NEW k \in 0 .. m
        PROVE  h[k] = IF k = 0 THEN Starts(f, an, on) ELSE Translate(f, an, k, on, h[k - 1])
    <3>1. CASE k = m
      <4>1. h[k] = Translate(f, an, m, on, g[m - 1]) /\ h[m - 1] = g[m - 1]
        BY <2>1, <2>3, <2>5, <3>1
      <4> QED BY <1>3, <3>1, <4>1
    <3>2. CASE k # m
      <4>1. k \in 0 .. m - 1 /\ (k # 0 => k - 1 \in 0 .. m - 1)
        BY <2>1, <3>2
      <4> QED BY <2>4, <2>5, <4>1
    <3> QED BY <3>1, <3>2
  <2>7. h = [k \in 0 .. m |-> IF k = 0 THEN Starts(f, an, on) ELSE Translate(f, an, k, on, h[k - 1])]
    <3>1. h = [k \in 0 .. m |-> h[k]]
      BY <2>3
    <3> QED BY <2>6, <3>1
  <2> QED BY <1>1, <2>7 DEF Unfolds
<1> QED BY <1>2, <1>3

\* So the assignments are made instruction by instruction.
LEMMA AssignmentsUnfold ==
  ASSUME NEW f, NEW an, NEW on, Len(f.sites) \in Nat
  PROVE  \E g : /\ g[0] = Starts(f, an, on)
                /\ \A k \in 1 .. Len(f.sites) : g[k] = Translate(f, an, k, on, g[k - 1])
                /\ Assignments(f, an, on) = g[Len(f.sites)]
<1> PICK n \in Nat : n = Len(f.sites)
  OBVIOUS
<1> DEFINE g == CHOOSE g : Unfolds(g, f, an, on, n)
<1>1. Unfolds(g, f, an, on, n)
  BY UnfoldsExists
<1>2. Assignments(f, an, on) = g[n]
  BY DEF Assignments, Unfolds
<1>3. g[0] = Starts(f, an, on) /\ \A k \in 1 .. n : g[k] = Translate(f, an, k, on, g[k - 1])
  <2> HIDE DEF g
  <2>1. \A k \in 0 .. n : g[k] = IF k = 0 THEN Starts(f, an, on) ELSE Translate(f, an, k, on, g[k - 1])
    BY <1>1 DEF Unfolds
  <2>2. \A k \in 1 .. n : k \in 0 .. n /\ k # 0
    OBVIOUS
  <2> QED BY <2>1, <2>2
<1> QED BY <1>2, <1>3

AfterPuts(g, p, puts, n) ==
    g = [k \in 0 .. n |-> IF k = 0 THEN p ELSE SubstituteVar(g[k - 1], puts[k][1], puts[k][2])]

\* There is a function that does what the definition of Substitute says.
LEMMA AfterPutsExists ==
  ASSUME NEW p, NEW puts, NEW n \in Nat
  PROVE  \E g : AfterPuts(g, p, puts, n)
<1> DEFINE Bad == {m \in Nat : ~ \E g : AfterPuts(g, p, puts, m)}
           Put(k, q) == SubstituteVar(q, puts[k][1], puts[k][2])
<1> SUFFICES ASSUME Bad # {} PROVE FALSE
  OBVIOUS
<1>1. PICK m \in Bad : \A y \in Bad : m <= y
  BY LeastNatural
<1>2. CASE m = 0
  <2>1. PICK g : g = [k \in 0 .. 0 |-> p]
    OBVIOUS
  <2>2. \A k \in 0 .. 0 : k = 0
    OBVIOUS
  <2>3. AfterPuts(g, p, puts, 0)
    BY <2>1, <2>2 DEF AfterPuts
  <2> QED BY <1>2, <2>3
<1>3. CASE m # 0
  <2>1. m - 1 \in Nat /\ m - 1 \notin Bad
    BY <1>1, <1>3
  <2>2. PICK g : AfterPuts(g, p, puts, m - 1)
    BY <2>1
  <2>3. PICK h : h = [k \in 0 .. m |-> IF k = m THEN Put(m, g[m - 1]) ELSE g[k]]
    OBVIOUS
  <2>4. \A k \in 0 .. m - 1 : g[k] = IF k = 0 THEN p ELSE Put(k, g[k - 1])
    BY <2>2 DEF AfterPuts
  <2> HIDE DEF Put
  <2>5. \A k \in 0 .. m - 1 : h[k] = g[k]
    BY <2>1, <2>3
  <2>6. ASSUME NEW k \in 0 .. m
        PROVE  h[k] = IF k = 0 THEN p ELSE Put(k, h[k - 1])
    <3>1. CASE k = m
      <4>1. h[k] = Put(m, g[m - 1]) /\ h[m - 1] = g[m - 1]
        BY <2>1, <2>3, <2>5, <3>1
      <4> QED BY <1>3, <3>1, <4>1
    <3>2. CASE k # m
      <4>1. k \in 0 .. m - 1 /\ (k # 0 => k - 1 \in 0 .. m - 1)
        BY <2>1, <3>2
      <4> QED BY <2>4, <2>5, <4>1
    <3> QED BY <3>1, <3>2
  <2>7. h = [k \in 0 .. m |-> IF k = 0 THEN p ELSE Put(k, h[k - 1])]
    <3>1. h = [k \in 0 .. m |-> h[k]]
      BY <2>3
    <3> QED BY <2>6, <3>1
  <2> QED BY <1>1, <2>7 DEF AfterPuts, Put
<1> QED BY <1>2, <1>3

LEMMA SubstituteUnfold ==
  ASSUME NEW p, NEW puts, Len(puts) \in Nat
  PROVE  \E g : /\ g[0] = p
                /\ \A k \in 1 .. Len(puts) : g[k] = SubstituteVar(g[k - 1], puts[k][1], puts[k][2])
                /\ Substitute(p, puts) = g[Len(puts)]
<1> PICK n \in Nat : n = Len(puts)
  OBVIOUS
<1> DEFINE g == CHOOSE g : AfterPuts(g, p, puts, n)
<1>1. AfterPuts(g, p, puts, n)
  BY AfterPutsExists
<1>2. Substitute(p, puts) = g[n]
  BY DEF Substitute, AfterPuts
<1>3. g[0] = p /\ \A k \in 1 .. n : g[k] = SubstituteVar(g[k - 1], puts[k][1], puts[k][2])
  <2> HIDE DEF g
  <2>1. \A k \in 0 .. n : g[k] = IF k = 0 THEN p ELSE SubstituteVar(g[k - 1], puts[k][1], puts[k][2])
    BY <1>1 DEF AfterPuts
  <2>2. \A k \in 1 .. n : k \in 0 .. n /\ k # 0
    OBVIOUS
  <2> QED BY <2>1, <2>2
<1> QED BY <1>2, <1>3

-------------------------------------------------------------------------------
(***************************************************************************)
(* What a substitution means.                                              *)
(***************************************************************************)
\* x has become y when the first k names were put in
Became(puts, k, x, y) ==
    \/ \E i \in 1 .. k : x = Val(puts[i][1]) /\ y = Val(puts[i][2])
    \/ y = x /\ \A i \in 1 .. k : x # Val(puts[i][1])

LEMMA ValInjective == \A a, b : Val(a) = Val(b) => a = b
BY DEF Val

LEMMA BecameStep ==
  ASSUME NEW puts, NEW k \in Nat \ {0}, NEW x, NEW y, Became(puts, k - 1, x, y),
         \A i \in 1 .. k - 1 : puts[i][2] # puts[k][1]
  PROVE  Became(puts, k, x, IF y = Val(puts[k][1]) THEN Val(puts[k][2]) ELSE y)
<1>1. \A i \in 1 .. k : i = k \/ i \in 1 .. k - 1
  OBVIOUS
<1>2. \A i \in 1 .. k - 1 : i \in 1 .. k
  OBVIOUS
<1>3. CASE \E i \in 1 .. k - 1 : x = Val(puts[i][1]) /\ y = Val(puts[i][2])
  <2>1. PICK i \in 1 .. k - 1 : x = Val(puts[i][1]) /\ y = Val(puts[i][2])
    BY <1>3
  <2>2. y # Val(puts[k][1])
    BY <2>1, ValInjective
  <2> QED BY <1>2, <2>1, <2>2 DEF Became
<1>4. CASE y = x /\ \A i \in 1 .. k - 1 : x # Val(puts[i][1])
  <2>1. CASE x = Val(puts[k][1])
    <3>1. k \in 1 .. k
      OBVIOUS
    <3> QED BY <1>4, <2>1, <3>1 DEF Became
  <2>2. CASE x # Val(puts[k][1])
    BY <1>1, <1>4, <2>2 DEF Became
  <2> QED BY <2>1, <2>2
<1> QED BY <1>3, <1>4 DEF Became

\* A predicate with names put in, where none is in the place of one that is
\* replaced later, says of the values put in what it says of the names.
LEMMA SubstituteMeans ==
  ASSUME NEW p, p.l \in Term, p.r \in Term, NEW puts, Len(puts) \in Nat,
         DOMAIN puts = 1 .. Len(puts), Apart(puts),
         NEW env, NEW new, NEW result,
         \A i \in DOMAIN puts : new[puts[i][1]] = env[puts[i][2]],
         \A n \in Mentions(p) : (\A i \in DOMAIN puts : puts[i][1] # n) => new[n] = env[n]
  PROVE  Holds(Substitute(p, puts), env, result) = Holds(p, new, result)
<1> PICK len \in Nat : len = Len(puts)
  OBVIOUS
<1>1. PICK g : /\ g[0] = p
               /\ \A k \in 1 .. len : g[k] = SubstituteVar(g[k - 1], puts[k][1], puts[k][2])
               /\ Substitute(p, puts) = g[len]
  BY SubstituteUnfold
<1> DEFINE Ok(k) == /\ g[k].op = p.op
                    /\ Became(puts, k, p.l, g[k].l) /\ Became(puts, k, p.r, g[k].r)
           Bad == {k \in 0 .. len : ~ Ok(k)}
<1>2. Bad = {}
  <2> SUFFICES ASSUME Bad # {} PROVE FALSE
    OBVIOUS
  <2>0. Bad \subseteq Nat
    OBVIOUS
  <2>1. PICK m \in Bad : \A y \in Bad : m <= y
    BY <2>0, LeastNatural
  <2>2. CASE m = 0
    <3>1. \A i \in 1 .. 0 : FALSE
      OBVIOUS
    <3> QED BY <1>1, <2>1, <2>2, <3>1 DEF Became
  <2>3. CASE m # 0
    <3>1. m \in Nat \ {0} /\ m - 1 \in 0 .. len /\ m - 1 \notin Bad /\ m \in 1 .. len
      BY <2>1, <2>3
    <3>2. g[m] = SubstituteVar(g[m - 1], puts[m][1], puts[m][2])
      BY <1>1, <3>1
    <3>3. \A i \in 1 .. m - 1 : puts[i][2] # puts[m][1]
      BY <3>1 DEF Apart
    <3>4. Ok(m - 1)
      BY <3>1
    <3>5. /\ Became(puts, m, p.l, IF g[m - 1].l = Val(puts[m][1]) THEN Val(puts[m][2]) ELSE g[m - 1].l)
          /\ Became(puts, m, p.r, IF g[m - 1].r = Val(puts[m][1]) THEN Val(puts[m][2]) ELSE g[m - 1].r)
      BY <3>1, <3>3, <3>4, BecameStep
    <3>6. /\ g[m].op = p.op
          /\ g[m].l = IF g[m - 1].l = Val(puts[m][1]) THEN Val(puts[m][2]) ELSE g[m - 1].l
          /\ g[m].r = IF g[m - 1].r = Val(puts[m][1]) THEN Val(puts[m][2]) ELSE g[m - 1].r
      BY <3>2, <3>4 DEF SubstituteVar, Pred
    <3>7. Ok(m)
      BY <3>5, <3>6
    <3> QED BY <2>1, <3>7
  <2> QED BY <2>2, <2>3
<1>3. Ok(len)
  <2>1. len \in 0 .. len
    OBVIOUS
  <2> QED BY <1>2, <2>1
<1>4. ASSUME NEW x \in {p.l, p.r}, NEW y, Became(puts, len, x, y)
      PROVE  Denotes(y, env, result) = Denotes(x, new, result)
  <2>1. CASE \E i \in 1 .. len : x = Val(puts[i][1]) /\ y = Val(puts[i][2])
    <3>1. PICK i \in 1 .. len : x = Val(puts[i][1]) /\ y = Val(puts[i][2])
      BY <2>1
    <3>2. x.k = "val" /\ x.n = puts[i][1] /\ y.k = "val" /\ y.n = puts[i][2]
      BY <3>1 DEF Val
    <3>3. new[x.n] = env[y.n]
      BY <3>2
    <3> QED BY <3>2, <3>3 DEF Denotes
  <2>2. CASE y = x /\ \A i \in 1 .. len : x # Val(puts[i][1])
    <3>1. CASE x.k = "val"
      <4>1. x = Val(x.n)
        BY <3>1 DEF Term, Val
      <4>2. x.n \in Mentions(p)
        BY <3>1 DEF Mentions
      <4>3. new[x.n] = env[x.n]
        BY <2>2, <4>1, <4>2
      <4> QED BY <2>2, <3>1, <4>3 DEF Denotes
    <3>2. CASE x.k # "val"
      <4>1. x.k \in {"lit", "result"}
        BY <3>2 DEF Term
      <4> QED BY <2>2, <4>1 DEF Denotes
    <3> QED BY <3>1, <3>2
  <2> QED BY <1>4, <2>1, <2>2 DEF Became
<1>5. /\ Denotes(g[len].l, env, result) = Denotes(p.l, new, result)
      /\ Denotes(g[len].r, env, result) = Denotes(p.r, new, result)
  BY <1>3, <1>4
<1> QED BY <1>1, <1>3, <1>5 DEF Holds

\* new has the values put in, and else agrees with env
Replaces(p, puts, env, new) ==
    /\ p.l \in Term /\ p.r \in Term /\ Len(puts) \in Nat /\ DOMAIN puts = 1 .. Len(puts) /\ Apart(puts)
    /\ \A i \in DOMAIN puts : new[puts[i][1]] = env[puts[i][2]]
    /\ \A n \in Mentions(p) : (\A i \in DOMAIN puts : puts[i][1] # n) => new[n] = env[n]
LEMMA SubstituteReplaces ==
  ASSUME NEW p, NEW puts, NEW env, NEW new, Replaces(p, puts, env, new), NEW result
  PROVE  Holds(Substitute(p, puts), env, result) = Holds(p, new, result)
BY SubstituteMeans DEF Replaces

-------------------------------------------------------------------------------
(***************************************************************************)
(* Words.                                                                  *)
(***************************************************************************)
LEMMA WordFacts ==
  /\ 2^W \in Nat /\ 2^W > 1 /\ Half \in Nat /\ Half > 0
  /\ 0 \in Word /\ 1 \in Word /\ Word \subseteq Nat
  /\ Signed(0) = 0 /\ \A w \in Word : Signed(w) \in Int /\ (w # 0 => Signed(w) # 0)
  /\ \A i \in Int : ToWord(i) \in Word
  /\ ToWord(0) = 0 /\ ToWord(1) = 1
<1>0. W \in Nat /\ W > 0 /\ W - 1 \in Nat
  BY WAssumption
<1>1. 2^W \in Nat /\ 2^W > 1
  BY <1>0, PowerFacts
<1>2. Half \in Nat /\ Half > 0
  BY <1>0, PowerFacts DEF Half
<1> PICK n \in Nat : n = 2^W
  BY <1>1
<1> PICK h \in Nat : h = Half
  BY <1>2
<1>3. n > 1 /\ h > 0
  BY <1>1, <1>2
<1>4. Word = 0 .. n - 1 /\ (\A i : ToWord(i) = i % n) /\ \A w : Signed(w) = IF w >= h THEN w - n ELSE w
  BY DEF Word, ToWord, Signed
<1>5. \A i \in Int : i % n \in 0 .. n - 1
  BY <1>3
<1>6. 0 % n = 0 /\ 1 % n = 1
  BY <1>3
<1>7. 0 \in 0 .. n - 1 /\ 1 \in 0 .. n - 1 /\ 0 .. n - 1 \subseteq Nat
  BY <1>3
<1>8. \A w \in 0 .. n - 1 : LET s == IF w >= h THEN w - n ELSE w IN s \in Int /\ (w # 0 => s # 0)
  BY <1>3
<1>9. ~ (0 >= h)
  BY <1>3
<1> QED BY <1>1, <1>2, <1>4, <1>5, <1>6, <1>7, <1>8, <1>9

-------------------------------------------------------------------------------
(***************************************************************************)
(* Predicates and the verdict.                                             *)
(***************************************************************************)
\* A predicate looks at the values it mentions.
LEMMA HoldsSame ==
  ASSUME NEW p, p.l \in Term, p.r \in Term, NEW env, NEW new, NEW result,
         \A n \in Mentions(p) : new[n] = env[n]
  PROVE  Holds(p, new, result) = Holds(p, env, result)
<1>1. ASSUME NEW x \in {p.l, p.r}
      PROVE  Denotes(x, new, result) = Denotes(x, env, result)
  <2>1. CASE x.k = "val"
    <3>1. x.n \in Mentions(p)
      BY <2>1 DEF Mentions
    <3> QED BY <2>1, <3>1 DEF Denotes
  <2>2. CASE x.k # "val"
    <3>1. x.k \in {"lit", "result"}
      BY <2>2 DEF Term
    <3> QED BY <3>1 DEF Denotes
  <2> QED BY <2>1, <2>2
<1>2. Denotes(p.l, new, result) = Denotes(p.l, env, result)
  BY <1>1
<1>3. Denotes(p.r, new, result) = Denotes(p.r, env, result)
  BY <1>1
<1> QED BY <1>2, <1>3 DEF Holds

\* The step of each action of the verifier.
LEMMA VerdictInit == Init => VerdictInv
BY DEF Init, VerdictInv

LEMMA VerdictAnalyze == ASSUME VerdictInv, Analyze PROVE VerdictInv'
BY DEF VerdictInv, Analyze, SafetyPassed, ReturnsPassed, CallsPassed, machine

LEMMA VerdictAsk == ASSUME VerdictInv, AskSolver PROVE VerdictInv'
<1>1. phase = "translate" /\ models' = Models(func, derived) /\ phase' = "safety"
      /\ UNCHANGED <<func, derived, verdict, cex>>
  BY DEF AskSolver, machine
<1>2. verdict = "none" /\ cex = <<>> /\ func \in Funcs
  BY <1>1 DEF VerdictInv
<1> QED BY <1>1, <1>2 DEF VerdictInv

\* A check passes when no assignment violates it, and else there is one.
LEMMA VerdictCheck ==
  ASSUME VerdictInv, CheckSafety \/ VerifyReturnRefinements \/ VerifyCallArguments
  PROVE  VerdictInv'
<1>1. /\ phase \in {"safety", "returns", "calls"} /\ UNCHANGED <<func, derived>>
      /\ \/ phase' \in {"returns", "calls", "consistency"} /\ UNCHANGED <<models, verdict, cex>>
         \/ \E m \in models : Refuse(m)
  BY DEF CheckSafety, VerifyReturnRefinements, VerifyCallArguments, CheckAll
<1>2. verdict = "none" /\ cex = <<>> /\ func \in Funcs /\ models = Models(func, derived)
  BY <1>1 DEF VerdictInv
<1>3. CASE \E m \in models : Refuse(m)
  <2>1. PICK m \in models : Refuse(m)
    BY <1>3
  <2>2. verdict' = "refused" /\ cex' = m.env /\ phase' = "done" /\ models' = {}
    BY <2>1 DEF Refuse
  <2> QED BY <1>1, <1>2, <2>2 DEF VerdictInv
<1>4. CASE phase' \in {"returns", "calls", "consistency"} /\ UNCHANGED <<models, verdict, cex>>
  <2>1. CASE CheckSafety
    <3>1. phase = "safety"
      BY <2>1 DEF CheckSafety, CheckAll
    <3>2. phase' = "returns" /\ \A m \in models : ~SafetyViolated(func, derived, m)
      BY <1>4, <2>1 DEF CheckSafety, CheckAll, Refuse
    <3>3. SafetyPassed'
      BY <1>1, <1>2, <3>2 DEF SafetyPassed
    <3> QED BY <1>1, <1>2, <1>4, <3>2, <3>3 DEF VerdictInv
  <2>2. CASE VerifyReturnRefinements
    <3>1. phase = "returns" /\ SafetyPassed
      BY <2>2 DEF VerifyReturnRefinements, CheckAll, VerdictInv
    <3>2. phase' = "calls" /\ \A m \in models : ~ReturnViolated(func, m)
      BY <1>4, <2>2 DEF VerifyReturnRefinements, CheckAll, Refuse
    <3>3. SafetyPassed' /\ ReturnsPassed'
      BY <1>1, <1>2, <3>1, <3>2 DEF SafetyPassed, ReturnsPassed
    <3> QED BY <1>1, <1>2, <1>4, <3>2, <3>3 DEF VerdictInv
  <2>3. CASE VerifyCallArguments
    <3>1. phase = "calls" /\ SafetyPassed /\ ReturnsPassed
      BY <2>3 DEF VerifyCallArguments, CheckAll, VerdictInv
    <3>2. phase' = "consistency" /\ \A m \in models : ~CallViolated(func, m)
      BY <1>4, <2>3 DEF VerifyCallArguments, CheckAll, Refuse
    <3>3. SafetyPassed' /\ ReturnsPassed' /\ CallsPassed'
      BY <1>1, <1>2, <3>1, <3>2 DEF SafetyPassed, ReturnsPassed, CallsPassed
    <3> QED BY <1>1, <1>2, <1>4, <3>2, <3>3 DEF VerdictInv
  <2> QED BY <2>1, <2>2, <2>3
<1> QED BY <1>1, <1>3, <1>4

LEMMA VerdictConsistency == ASSUME VerdictInv, CheckConsistency PROVE VerdictInv'
<1>1. /\ phase = "consistency" /\ phase' = "done" /\ models' = {} /\ UNCHANGED <<func, derived, cex>>
      /\ verdict' = IF HasRefinements(func) /\ models = {} THEN "refused" ELSE "verified"
  BY DEF CheckConsistency
<1>2. /\ SafetyPassed /\ ReturnsPassed /\ CallsPassed /\ cex = <<>> /\ func \in Funcs
      /\ models = Models(func, derived)
  BY <1>1 DEF VerdictInv
<1>3. SafetyPassed' /\ ReturnsPassed' /\ CallsPassed'
  BY <1>1, <1>2 DEF SafetyPassed, ReturnsPassed, CallsPassed
<1> QED BY <1>1, <1>2, <1>3 DEF VerdictInv

\* The machine, and steps that change nothing, leave the verdict alone.
LEMMA VerdictKept ==
  ASSUME VerdictInv, UNCHANGED <<func, derived, models, phase, verdict, cex>>
  PROVE  VerdictInv'
BY DEF VerdictInv, SafetyPassed, ReturnsPassed, CallsPassed

LEMMA MachineKeeps ==
  Execute \/ UNCHANGED vars => UNCHANGED <<func, derived, models, phase, verdict, cex>>
<1>1. \A b : Enter(b) => UNCHANGED <<func, solver>>
  BY DEF Enter
<1>2. Execute => UNCHANGED <<func, solver>>
  BY <1>1 DEF Execute, Start, RunPure, RunDiv, RunAssert, RunCall, RunSetExc, RunGetExc, RunJump,
              RunBranch, RunReturn
<1> QED BY <1>2 DEF solver, vars

LEMMA VerdictStep == ASSUME VerdictInv, [Next]_vars PROVE VerdictInv'
BY VerdictAnalyze, VerdictAsk, VerdictCheck, VerdictConsistency, VerdictKept, MachineKeeps
   DEF Next, Verify

\* What the verifier has found, whenever it says it.
THEOREM VerdictKnown == Spec => []VerdictInv
<1>1. VerdictInv /\ [Next]_vars => VerdictInv'
  BY VerdictStep
<1> QED BY VerdictInit, <1>1, PTL DEF Spec

-------------------------------------------------------------------------------
(***************************************************************************)
(* The sites of a function.                                                *)
(***************************************************************************)
\* what the first k instructions make, and what is there before them
MadeBefore(f, k) ==
    {0} \cup Params(f) \cup {f.sites[j].inst.d : j \in {j \in 1 .. k : Defines(f.sites[j].inst)}}

LEMMA SitesAreSeq ==
  ASSUME NEW f \in Funcs
  PROVE  Len(f.sites) \in Nat /\ DOMAIN f.sites = 1 .. Len(f.sites)
<1>1. f.sites \in Seq(Range(f.sites))
  BY FuncsAssumption DEF WellFormed, SiteForm
<1> QED BY <1>1

\* An instruction at its site, whatever its block.
LEMMA SiteFacts ==
  ASSUME NEW f \in Funcs, NEW k \in DOMAIN f.sites
  PROVE  LET b == f.sites[k].b
             inst == f.sites[k].inst
         IN  /\ b \in DOMAIN f.blocks
             /\ Defines(inst) => inst.d \notin {0} \cup Params(f)
             /\ inst.op = "phi" => inst \in Range(PhisOf(f, b))
             /\ inst.op # "phi" =>
                   /\ \E i \in DOMAIN CodeOf(f, b) : inst = CodeOf(f, b)[i] /\ InstForm(f, b, i)
                   /\ inst.op \in Pure \cup {"div", "assert", "call", "setexc", "getexc"}
                   /\ \A v \in Operands(inst) : v \in MadeBefore(f, k - 1)
                   /\ inst.op = "const" => inst.a \in Int
<1> DEFINE b == f.sites[k].b
           inst == f.sites[k].inst
<1>1. SiteForm(f) /\ DefinedOnce(f) /\ \A c \in DOMAIN f.blocks : BlockForm(f, c)
  BY FuncsAssumption DEF WellFormed
<1>2. /\ b \in DOMAIN f.blocks
      /\ inst \in Range(IF inst.op = "phi" THEN PhisOf(f, b) ELSE CodeOf(f, b))
      /\ inst.op # "phi" => \A v \in Operands(inst) : Earlier(f, k, b, v)
  BY <1>1 DEF SiteForm
<1>3. Defines(inst) => inst.d \notin {0} \cup Params(f)
  BY <1>1 DEF DefinedOnce, Range
<1>4. ASSUME inst.op # "phi"
      PROVE  /\ \E i \in DOMAIN CodeOf(f, b) : inst = CodeOf(f, b)[i] /\ InstForm(f, b, i)
             /\ inst.op \in Pure \cup {"div", "assert", "call", "setexc", "getexc"}
             /\ inst.op = "const" => inst.a \in Int
  <2>1. inst \in Range(CodeOf(f, b))
    BY <1>2, <1>4
  <2>2. PICK i \in DOMAIN CodeOf(f, b) : inst = CodeOf(f, b)[i]
    BY <2>1 DEF Range
  <2>3. InstForm(f, b, i)
    BY <1>1, <1>2, <2>2 DEF BlockForm
  <2> QED BY <2>2, <2>3 DEF InstForm
<1>5. \A v : Earlier(f, k, b, v) => v \in MadeBefore(f, k - 1)
  BY DEF Earlier, MadeBefore
<1> QED BY <1>2, <1>3, <1>4, <1>5

\* The term of the exception word is that of a store before, or 0.
LEMMA ExcTermFacts ==
  ASSUME NEW f \in Funcs, NEW k \in 1 .. Len(f.sites) + 1
  PROVE  \/ ExcTerm(f, k) = 0 /\ \A j \in 1 .. k - 1 : f.sites[j].inst.op # "setexc"
         \/ \E j \in 1 .. k - 1 :
               /\ f.sites[j].inst.op = "setexc" /\ ExcTerm(f, k) = f.sites[j].inst.a
               /\ \A i \in 1 .. k - 1 : f.sites[i].inst.op = "setexc" => i <= j
<1> PICK n \in Nat : n = Len(f.sites)
  BY SitesAreSeq
<1> PICK stores : stores = {j \in 1 .. k - 1 : f.sites[j].inst.op = "setexc"}
  OBVIOUS
<1> DEFINE last == CHOOSE j \in stores : \A i \in stores : i <= j
<1>1. ExcTerm(f, k) = IF stores = {} THEN 0
                      ELSE f.sites[last].inst.a
  BY DEF ExcTerm
<1>2. CASE stores = {}
  BY <1>1, <1>2
<1>3. CASE stores # {}
  <2>1. stores \subseteq Nat /\ \A i \in stores : i <= k
    OBVIOUS
  <2>2. Max(stores) \in stores /\ \A i \in stores : i <= Max(stores)
    BY <1>3, <2>1, k \in Nat, MaxOfBounded
  <2>3. last \in stores /\ \A i \in stores : i <= last
    BY <2>2
  <2>4. ExcTerm(f, k) = f.sites[last].inst.a
    BY <1>1, <1>3
  <2> HIDE DEF last
  <2>5. last \in 1 .. k - 1 /\ f.sites[last].inst.op = "setexc"
    BY <2>3
  <2>6. \A i \in 1 .. k - 1 : f.sites[i].inst.op = "setexc" => i <= last
    BY <2>3
  <2> QED BY <2>4, <2>5, <2>6
<1> QED BY <1>2, <1>3

\* Division has a word for every two words.
LEMMA DivisionIsWord == \A x, y \in Word : BvSDiv(x, y) \in Word
<1> SUFFICES ASSUME NEW x \in Word, NEW y \in Word PROVE BvSDiv(x, y) \in Word
  OBVIOUS
<1>1. CASE y = 0
  <2>1. -1 \in Int
    OBVIOUS
  <2> QED BY <1>1, <2>1, WordFacts DEF BvSDiv
<1>2. CASE y # 0
  <2>1. PICK i \in Int : i = Signed(x)
    BY WordFacts
  <2>2. PICK j \in Int : j = Signed(y) /\ j # 0
    BY <1>2, WordFacts
  <2>3. Abs(i) \in Nat /\ Abs(j) \in Nat \ {0}
    BY <2>2 DEF Abs
  <2>4. \A a \in Nat, b \in Nat \ {0} : a \div b \in Int /\ -(a \div b) \in Int
    OBVIOUS
  <2>5. Trunc(i, j) \in Int
    BY <2>3, <2>4 DEF Trunc
  <2>6. BvSDiv(x, y) = ToWord(Trunc(i, j))
    BY <1>2, <2>1, <2>2 DEF BvSDiv
  <2> QED BY <2>5, <2>6, WordFacts
<1> QED BY <1>1, <1>2

\* What an instruction computes from words is a word.
LEMMA ComputesWord ==
  ASSUME NEW inst, inst.op \in Pure \cup {"div"}, NEW env,
         inst.op = "const" => inst.a \in Int,
         inst.op # "const" => env[inst.a] \in Word /\ env[inst.b] \in Word
  PROVE  Computes(inst, env) \in Word
<1>1. \A i, j \in Int : -i \in Int /\ i + j \in Int /\ i - j \in Int /\ i * j \in Int /\ Abs(i) \in Int
  BY DEF Abs
<1>2. CASE inst.op = "const"
  BY <1>2, WordFacts DEF Computes, Exact
<1>3. CASE inst.op # "const"
  <2>1. PICK i \in Int : i = Signed(env[inst.a])
    BY <1>3, WordFacts
  <2>2. PICK j \in Int : j = Signed(env[inst.b])
    BY <1>3, WordFacts
  <2>3. \A t : Bit(t) \in Int
    BY DEF Bit
  <2>4. inst.op = "div" => Signed(BvSDiv(env[inst.a], env[inst.b])) \in Int
    BY <1>3, DivisionIsWord, WordFacts
  <2>5. /\ inst.op = "add" => Exact(inst, env) = i + j
        /\ inst.op = "sub" => Exact(inst, env) = i - j
        /\ inst.op = "mul" => Exact(inst, env) = i * j
        /\ inst.op = "neg" => Exact(inst, env) = -i
        /\ inst.op = "abs" => Exact(inst, env) = Abs(i)
        /\ inst.op = "div" => Exact(inst, env) = Signed(BvSDiv(env[inst.a], env[inst.b]))
        /\ inst.op \notin {"const", "add", "sub", "mul", "neg", "abs", "div"} =>
              Exact(inst, env) = Bit(Compare(inst.op, i, j))
    BY <1>3, <2>1, <2>2 DEF Exact
  <2>6. Exact(inst, env) \in Int
    <3>1. CASE inst.op \in {"add", "sub", "mul", "neg", "abs"}
      BY <1>1, <2>5, <3>1
    <3>2. CASE inst.op = "div"
      BY <2>4, <2>5, <3>2
    <3>3. CASE inst.op \notin {"const", "add", "sub", "mul", "neg", "abs", "div"}
      BY <2>3, <2>5, <3>3
    <3> QED BY <1>3, <3>1, <3>2, <3>3
  <2> QED BY <2>6, WordFacts DEF Computes
<1> QED BY <1>2, <1>3

-------------------------------------------------------------------------------
(***************************************************************************)
(* The assignments, instruction by instruction.                            *)
(***************************************************************************)
TypedEnv(f, an, on, k, env) ==
    /\ DOMAIN env = MadeBefore(f, k)
    /\ \A v \in MadeBefore(f, k) : env[v] \in Word
    /\ \E start \in Starts(f, an, on) : \A v \in {0} \cup Params(f) : env[v] = start[v]

\* What a load reads is known when it is translated.
LEMMA ExcTermBefore ==
  ASSUME NEW f \in Funcs, NEW k \in 1 .. Len(f.sites) + 1
  PROVE  ExcTerm(f, k) \in MadeBefore(f, k - 1)
<1>1. CASE ExcTerm(f, k) = 0
  BY <1>1 DEF MadeBefore
<1>2. CASE \E j \in 1 .. k - 1 : f.sites[j].inst.op = "setexc" /\ ExcTerm(f, k) = f.sites[j].inst.a
  <2>1. PICK j \in 1 .. k - 1 : f.sites[j].inst.op = "setexc" /\ ExcTerm(f, k) = f.sites[j].inst.a
    BY <1>2
  <2>2. j \in DOMAIN f.sites /\ j \in Nat /\ k \in Nat /\ j < k
    BY SitesAreSeq
  <2>3. ExcTerm(f, k) \in Operands(f.sites[j].inst)
    BY <2>1 DEF Operands
  <2>4. ExcTerm(f, k) \in MadeBefore(f, j - 1)
    BY <2>1, <2>2, <2>3, SiteFacts
  <2>5. MadeBefore(f, j - 1) \subseteq MadeBefore(f, k - 1)
    <3>1. 1 .. j - 1 \subseteq 1 .. k - 1
      BY <2>2
    <3> QED BY <3>1 DEF MadeBefore
  <2> QED BY <2>4, <2>5
<1> QED BY <1>1, <1>2, ExcTermFacts

\* the words an instruction may give
Words(f, k, on, env) ==
    LET b == f.sites[k].b
        inst == f.sites[k].inst
    IN  IF b \notin on THEN Word
        ELSE CASE inst.op = "phi" -> {w \in Word : PhiHolds(f, on, env, b, inst, w, 1 .. b - 1)}
               [] inst.op = "call" -> CallResults(f)
               [] inst.op = "getexc" -> {env[ExcTerm(f, k)]}
               [] OTHER -> {Computes(inst, env)}

\* An instruction is given a word.
LEMMA GivenTyped ==
  ASSUME NEW f \in Funcs, NEW an, NEW on, NEW k \in DOMAIN f.sites, NEW env,
         TypedEnv(f, an, on, k - 1, env), Defines(f.sites[k].inst)
  PROVE  Given(f, an, k, on, env) \subseteq Word
<1> DEFINE b == f.sites[k].b
           inst == f.sites[k].inst
           words == Words(f, k, on, env)
           allowed == {w \in words : Allowed(an, on, inst.d, w)}
<1>1. Given(f, an, k, on, env) =
         IF b \in on \/ inst.d \in ExcTerms(f) \/ allowed = {} THEN allowed
         ELSE {CHOOSE w \in allowed : TRUE}
  BY DEF Given, Words
<1>2. words \subseteq Word
  <2>1. CASE inst.op = "getexc"
    <3>1. ExcTerm(f, k) \in MadeBefore(f, k - 1)
      <4>1. k \in 1 .. Len(f.sites) + 1
        BY SitesAreSeq
      <4> QED BY <4>1, ExcTermBefore
    <3>2. env[ExcTerm(f, k)] \in Word
      BY <3>1 DEF TypedEnv
    <3> QED BY <2>1, <3>2 DEF Words
  <2>2. CASE inst.op = "phi"
    BY <2>2 DEF Words
  <2>3. CASE inst.op = "call"
    BY <2>3 DEF CallResults, Words
  <2>4. CASE inst.op \notin {"phi", "call", "getexc"}
    <3>1. /\ inst.op \in Pure \cup {"div"} /\ (inst.op = "const" => inst.a \in Int)
          /\ \A v \in Operands(inst) : v \in MadeBefore(f, k - 1)
      BY <2>4, SiteFacts DEF Defines
    <3>2. inst.op # "const" => inst.a \in Operands(inst) /\ inst.b \in Operands(inst)
      BY <2>4, <3>1 DEF Operands, Pure, Negate
    <3>3. inst.op # "const" => env[inst.a] \in Word /\ env[inst.b] \in Word
      BY <3>1, <3>2 DEF TypedEnv
    <3>4. Computes(inst, env) \in Word
      BY <3>1, <3>3, ComputesWord
    <3> QED BY <2>4, <3>4 DEF Words
  <2> QED BY <2>1, <2>2, <2>3, <2>4
<1>3. allowed \subseteq Word
  BY <1>2
<1> HIDE DEF allowed
<1>4. allowed # {} => (CHOOSE w \in allowed : TRUE) \in allowed
  OBVIOUS
<1> QED BY <1>1, <1>3, <1>4

\* What one instruction makes of an assignment.
Extends(f, an, k, on, env, new) ==
    LET inst == f.sites[k].inst
        b == f.sites[k].b
    IN  /\ f.preds[b] \subseteq 1 .. b - 1 => BlockHolds(f, on, env, b)
        /\ CASE inst.op = "setexc" -> new = env
             [] inst.op = "assert" -> new = env /\ (b \in on => env[inst.a] = 1)
             [] OTHER -> \E w \in Given(f, an, k, on, env) : new = With(env, inst.d, w)

LEMMA TranslateIs ==
  ASSUME NEW f, NEW an, NEW k, NEW on, NEW envs
  PROVE  \A new : new \in Translate(f, an, k, on, envs) <=> \E env \in envs : Extends(f, an, k, on, env, new)
<1> DEFINE inst == f.sites[k].inst
           b == f.sites[k].b
           sofar == IF f.preds[b] \subseteq 1 .. b - 1
                    THEN {env \in envs : BlockHolds(f, on, env, b)} ELSE envs
           Made3 == UNION {{With(env, inst.d, w) : w \in Given(f, an, k, on, env)} : env \in sofar}
<1>1. \A env : env \in sofar <=> env \in envs /\ (f.preds[b] \subseteq 1 .. b - 1 => BlockHolds(f, on, env, b))
  OBVIOUS
<1>2. \A new : new \in Made3 <=>
         \E env \in sofar : \E w \in Given(f, an, k, on, env) : new = With(env, inst.d, w)
  OBVIOUS
<1>3. /\ inst.op = "setexc" => Translate(f, an, k, on, envs) = sofar
      /\ inst.op = "assert" => Translate(f, an, k, on, envs) = {env \in sofar : b \in on => env[inst.a] = 1}
      /\ inst.op \notin {"setexc", "assert"} => Translate(f, an, k, on, envs) = Made3
  BY DEF Translate
<1> HIDE DEF sofar, Made3
<1>4. \A env, new : Extends(f, an, k, on, env, new) <=>
         /\ f.preds[b] \subseteq 1 .. b - 1 => BlockHolds(f, on, env, b)
         /\ inst.op = "setexc" => new = env
         /\ inst.op = "assert" => new = env /\ (b \in on => env[inst.a] = 1)
         /\ inst.op \notin {"setexc", "assert"} =>
               \E w \in Given(f, an, k, on, env) : new = With(env, inst.d, w)
  BY DEF Extends
<1> HIDE DEF inst, b
<1> QED BY <1>1, <1>2, <1>3, <1>4

LEMMA MadeBeforeStep ==
  ASSUME NEW f, NEW k \in Nat \ {0}
  PROVE  /\ Defines(f.sites[k].inst) => MadeBefore(f, k) = {f.sites[k].inst.d} \cup MadeBefore(f, k - 1)
         /\ ~Defines(f.sites[k].inst) => MadeBefore(f, k) = MadeBefore(f, k - 1)
<1>1. \A j : j \in 1 .. k <=> j = k \/ j \in 1 .. k - 1
  OBVIOUS
<1> QED BY <1>1 DEF MadeBefore

LEMMA TypedStep ==
  ASSUME NEW f \in Funcs, NEW an, NEW on, NEW k \in DOMAIN f.sites, NEW env, NEW new,
         TypedEnv(f, an, on, k - 1, env), Extends(f, an, k, on, env, new)
  PROVE  TypedEnv(f, an, on, k, new)
<1> DEFINE inst == f.sites[k].inst
<1>1. k \in Nat \ {0}
  BY SitesAreSeq
<1>2. CASE ~Defines(inst)
  <2>1. new = env
    BY <1>2 DEF Extends, Defines
  <2>2. MadeBefore(f, k) = MadeBefore(f, k - 1)
    BY <1>1, <1>2, MadeBeforeStep
  <2> QED BY <2>1, <2>2 DEF TypedEnv
<1>3. CASE Defines(inst)
  <2>1. PICK w \in Given(f, an, k, on, env) : new = With(env, inst.d, w)
    BY <1>3 DEF Extends, Defines
  <2>2. w \in Word
    BY <1>3, GivenTyped
  <2>3. inst.d \notin {0} \cup Params(f)
    BY <1>3, SiteFacts
  <2>4. MadeBefore(f, k) = {inst.d} \cup MadeBefore(f, k - 1)
    BY <1>1, <1>3, MadeBeforeStep
  <2>5. {0} \cup Params(f) \subseteq MadeBefore(f, k - 1)
    BY DEF MadeBefore
  <2> PICK d : d = inst.d
    OBVIOUS
  <2>7. new = With(env, d, w)
    BY <2>1
  <2>6. /\ DOMAIN new = {d} \cup DOMAIN env /\ new[d] = w
        /\ \A v \in DOMAIN env : v # d => new[v] = env[v]
    BY <2>7 DEF With, Override
  <2> QED BY <2>2, <2>3, <2>4, <2>5, <2>6 DEF TypedEnv
<1> QED BY <1>2, <1>3

\* An assignment gives every value a word, and the inputs one of the starts.
LEMMA AssignmentsTyped ==
  ASSUME NEW f \in Funcs, NEW an, NEW on, NEW env \in Assignments(f, an, on)
  PROVE  TypedEnv(f, an, on, Len(f.sites), env)
<1> PICK n \in Nat : n = Len(f.sites) /\ DOMAIN f.sites = 1 .. n
  BY SitesAreSeq
<1>1. PICK g : /\ g[0] = Starts(f, an, on)
               /\ \A k \in 1 .. n : g[k] = Translate(f, an, k, on, g[k - 1])
               /\ Assignments(f, an, on) = g[n]
  BY AssignmentsUnfold
<1> DEFINE Ok(k) == \A e \in g[k] : TypedEnv(f, an, on, k, e)
           Bad == {k \in 0 .. n : ~ Ok(k)}
<1>2. Bad = {}
  <2> SUFFICES ASSUME Bad # {} PROVE FALSE
    OBVIOUS
  <2>0. Bad \subseteq Nat
    OBVIOUS
  <2>1. PICK m \in Bad : \A y \in Bad : m <= y
    BY <2>0, LeastNatural
  <2>2. CASE m = 0
    <3>1. MadeBefore(f, 0) = {0} \cup Params(f)
      BY DEF MadeBefore
    <3>2. \A e \in Starts(f, an, on) : DOMAIN e = {0} \cup Params(f) /\ \A v \in {0} \cup Params(f) : e[v] \in Word
      BY DEF Starts
    <3>3. Ok(0)
      BY <1>1, <3>1, <3>2 DEF TypedEnv
    <3> QED BY <2>1, <2>2, <3>3
  <2>3. CASE m # 0
    <3>1. m - 1 \in 0 .. n /\ m - 1 \notin Bad /\ m \in 1 .. n
      BY <2>1, <2>3
    <3>2. Ok(m - 1) /\ g[m] = Translate(f, an, m, on, g[m - 1])
      BY <1>1, <3>1
    <3>3. Ok(m)
      BY <3>1, <3>2, TranslateIs, TypedStep
    <3> QED BY <2>1, <3>3
  <2> QED BY <2>2, <2>3
<1>3. n \in 0 .. n
  OBVIOUS
<1> QED BY <1>1, <1>2, <1>3

LEMMA ModelsTyped ==
  ASSUME NEW f \in Funcs, NEW an, NEW m \in Models(f, an)
  PROVE  /\ m.on \in Paths(f) /\ m.env \in Assignments(f, an, m.on) /\ FlowHolds(f, m)
         /\ m.on \subseteq DOMAIN f.blocks
         /\ TypedEnv(f, an, m.on, Len(f.sites), m.env)
<1>1. PICK on \in Paths(f) : \E env \in Assignments(f, an, on) : m = [on |-> on, env |-> env]
  BY DEF Models
<1>2. m.on \in Paths(f) /\ m.env \in Assignments(f, an, m.on) /\ FlowHolds(f, m)
  BY <1>1 DEF Models
<1> QED BY <1>2, AssignmentsTyped DEF Paths

\* The predicates of a function and of its callee.
AllPredicates(f) ==
    f.contract.refs \cup f.contract.pre \cup f.contract.ret \cup f.contract.post
        \cup f.callee.refs \cup f.callee.pre \cup f.callee.ret
        \cup {inv.pred : inv \in f.contract.invs}

LEMMA PredicateTerms ==
  ASSUME NEW f \in Funcs, NEW p \in AllPredicates(f)
  PROVE  p.l \in Term /\ p.r \in Term
<1>1. AllPredicates(f) \subseteq [op : DOMAIN Negate, l : Term, r : Term]
  BY FuncsAssumption DEF WellFormed, PredicateForm, AllPredicates
<1>2. p \in [op : DOMAIN Negate, l : Term, r : Term]
  BY <1>1
<1> QED BY <1>2

\* A start is an input, but for the exception word, which no contract mentions.
LEMMA StartIsInput ==
  ASSUME NEW f \in Funcs, NEW an, NEW on, NEW start \in Starts(f, an, on)
  PROVE  [start EXCEPT ![0] = 0] \in Inputs(f)
<1>0. PICK env : env = [start EXCEPT ![0] = 0]
  OBVIOUS
<1>1. start \in [{0} \cup Params(f) -> Word] /\ Satisfied(f.contract.refs \cup f.contract.pre, start)
  BY DEF Starts
<1>2. 0 \notin Params(f)
  BY DEF Params
<1>3. env[0] = 0 /\ env \in [{0} \cup Params(f) -> Word] /\ \A v \in Params(f) : env[v] = start[v]
  BY <1>0, <1>1, <1>2, WordFacts
<1>4. ASSUME NEW p \in f.contract.refs \cup f.contract.pre
      PROVE  Holds(p, env, 0)
  <2>1. PredicateForm(f)
    BY FuncsAssumption DEF WellFormed
  <2>2. Mentions(p) \subseteq Params(f)
    BY <2>1 DEF PredicateForm
  <2>0. p.l \in Term /\ p.r \in Term
    BY PredicateTerms DEF AllPredicates
  <2>3. Holds(p, start, 0)
    BY <1>1 DEF Satisfied
  <2>4. \A n \in Mentions(p) : env[n] = start[n]
    BY <1>3, <2>2
  <2>5. Holds(p, env, 0) = Holds(p, start, 0)
    BY <2>0, <2>4, HoldsSame
  <2> QED BY <2>3, <2>5
<1> QED BY <1>0, <1>3, <1>4 DEF Inputs, Satisfied

\* A function with a contract of its own is not verified for want of runs: it
\* has an input that the contract allows (the last check of
\* verify_with_context).
THEOREM VerifiedFunctionsHaveRuns == Spec => []VerifiedHasRuns
<1>1. VerdictInv => VerifiedHasRuns
  <2> SUFFICES ASSUME VerdictInv, verdict = "verified", HasRefinements(func)
               PROVE  Inputs(func) # {}
    BY DEF VerifiedHasRuns
  <2>1. PICK m : m \in Models(func, derived)
    BY DEF VerdictInv
  <2>2. func \in Funcs
    BY DEF VerdictInv
  <2>3. PICK start : start \in Starts(func, derived, m.on)
    BY <2>1, <2>2, ModelsTyped DEF TypedEnv
  <2> QED BY <2>2, <2>3, StartIsInput
<1> QED BY <1>1, VerdictKnown, PTL

-------------------------------------------------------------------------------
(***************************************************************************)
(* The code of a function.                                                 *)
(***************************************************************************)
LEMMA BlockFacts ==
  ASSUME NEW f \in Funcs, NEW b \in DOMAIN f.blocks
  PROVE  /\ Len(CodeOf(f, b)) \in Nat /\ DOMAIN CodeOf(f, b) = 1 .. Len(CodeOf(f, b))
         /\ Len(PhisOf(f, b)) \in Nat /\ DOMAIN PhisOf(f, b) = 1 .. Len(PhisOf(f, b))
         /\ \A i \in DOMAIN CodeOf(f, b) : InstForm(f, b, i)
         /\ BlockForm(f, b) /\ TermForm(f, b)
         /\ To(f, b) \subseteq DOMAIN f.blocks
         /\ f.preds[b] = {p \in DOMAIN f.blocks : b \in To(f, p)}
<1>1. BlockForm(f, b) /\ GraphForm(f)
  BY FuncsAssumption DEF WellFormed
<1>2. CodeOf(f, b) \in Seq(Range(CodeOf(f, b))) /\ PhisOf(f, b) \in Seq(Range(PhisOf(f, b)))
  BY <1>1 DEF BlockForm
<1>3. /\ Len(CodeOf(f, b)) \in Nat /\ DOMAIN CodeOf(f, b) = 1 .. Len(CodeOf(f, b))
      /\ Len(PhisOf(f, b)) \in Nat /\ DOMAIN PhisOf(f, b) = 1 .. Len(PhisOf(f, b))
  BY <1>2
<1>4. TermForm(f, b) /\ f.preds[b] = {p \in DOMAIN f.blocks : b \in To(f, p)}
  BY <1>1 DEF GraphForm
<1>5. To(f, b) \subseteq DOMAIN f.blocks
  BY <1>4 DEF TermForm
<1>6. \A i \in DOMAIN CodeOf(f, b) : InstForm(f, b, i)
  BY <1>1 DEF BlockForm
<1> QED BY <1>1, <1>3, <1>4, <1>5, <1>6

LEMMA BlocksAreSeq ==
  ASSUME NEW f \in Funcs
  PROVE  Len(f.blocks) \in Nat /\ DOMAIN f.blocks = 1 .. Len(f.blocks) /\ 0 \notin DOMAIN f.blocks
                             /\ 1 \in DOMAIN f.blocks
<1>1. f.blocks \in Seq(Range(f.blocks)) /\ 1 \in DOMAIN f.blocks
  BY FuncsAssumption DEF WellFormed, GraphForm
<1>2. Len(f.blocks) \in Nat /\ DOMAIN f.blocks = 1 .. Len(f.blocks)
  BY <1>1
<1> QED BY <1>1, <1>2

\* Where an edge leads.
LEMMA EdgeFacts ==
  ASSUME NEW f \in Funcs, NEW p \in DOMAIN f.blocks, NEW b \in To(f, p)
  PROVE  /\ b \in DOMAIN f.blocks /\ p \in f.preds[b] /\ b # 1
         /\ \A phi \in Range(PhisOf(f, b)) : p \in DOMAIN phi.in /\ AtEndOf(f, p, phi.in[p])
<1>1. b \in DOMAIN f.blocks
  BY BlockFacts
<1>2. p \in f.preds[b]
  BY <1>1, BlockFacts
<1>3. f.preds[1] = {}
  BY FuncsAssumption DEF WellFormed, GraphForm
<1>4. BlockForm(f, b)
  BY <1>1, BlockFacts
<1>5. \A phi \in Range(PhisOf(f, b)) : p \in DOMAIN phi.in /\ AtEndOf(f, p, phi.in[p])
  BY <1>2, <1>4 DEF BlockForm
<1> QED BY <1>1, <1>2, <1>3, <1>5

\* What is ready for the next instruction has a word.
LEMMA OperandThere ==
  ASSUME func \in Funcs, MachineInv, at # 0, NEW n \in Nat, n < pos, NEW v, Ready(func, at, n, v),
         n <= Len(CodeOf(func, at))
  PROVE  v \in DOMAIN val /\ val[v] \in Word
<1>1. at \in DOMAIN func.blocks /\ at \in seen /\ Complete /\ pos \in 1 .. Len(CodeOf(func, at)) + 1
  BY DEF MachineInv, PlaceInv
<1>2. CASE Available(func, v, at)
  <2>1. v \in DOMAIN val
    BY <1>1, <1>2 DEF Complete
  <2> QED BY <2>1 DEF MachineInv, WordInv
<1>3. CASE Made(func, at, n, v)
  <2>1. PICK i \in 1 .. n : LET inst == CodeOf(func, at)[i]
                            IN  Defines(inst) /\ inst.op # "call" /\ inst.d = v
    BY <1>3 DEF Made
  <2>2. Len(CodeOf(func, at)) \in Nat /\ DOMAIN CodeOf(func, at) = 1 .. Len(CodeOf(func, at))
    BY <1>1, BlockFacts
  <2>3. i \in DOMAIN CodeOf(func, at) /\ i < pos
    BY <1>1, <2>2
  <2>4. Executed(at, i)
    BY <1>1, <2>3 DEF Executed
  <2>5. v \in DOMAIN val
    BY <1>1, <2>1, <2>4 DEF Complete
  <2> QED BY <2>5 DEF MachineInv, WordInv
<1> QED BY <1>2, <1>3 DEF Ready

-------------------------------------------------------------------------------
(***************************************************************************)
(* The machine keeps its invariant.                                        *)
(***************************************************************************)
\* What executing an instruction comes to.
StepForm ==
    LET inst == CodeOf(func, at)[pos]
    IN  /\ at # 0 /\ pos \in DOMAIN CodeOf(func, at) /\ pos' = pos + 1 /\ seen' = seen
        /\ at' \in {0, at} /\ UNCHANGED <<func, solver>>
        /\ outcome' \in Outcomes /\ blind' \in BOOLEAN /\ (at' = 0 => outcome' # "none")
        /\ exc' \in Word /\ \A t \in DOMAIN told' : told'[t] \in Word
        /\ \/ val' = val /\ (Defines(inst) => inst.op = "call" /\ exc' # 0)
           \/ Defines(inst) /\ \E w \in Word : val' = With(val, inst.d, w)
        /\ inst.op = "getexc" => val'[inst.d] = exc
        /\ inst.op \in Pure => val'[inst.d] = Computes(inst, val)
        /\ inst.op \notin {"setexc", "call"} => exc' = exc

\* Where the machine is when it executes one.
LEMMA AtInstruction ==
  ASSUME func \in Funcs, MachineInv, at # 0, pos \in DOMAIN CodeOf(func, at)
  PROVE  LET inst == CodeOf(func, at)[pos]
         IN  /\ at \in DOMAIN func.blocks /\ at \in seen /\ pos \in Nat \ {0} /\ InstForm(func, at, pos)
             /\ \A v \in Operands(inst) : v \in DOMAIN val /\ val[v] \in Word
             /\ 0 \in DOMAIN val /\ exc \in Word /\ outcome \in Outcomes /\ blind \in BOOLEAN
             /\ \A t \in DOMAIN told : told[t] \in Word
<1>1. at \in DOMAIN func.blocks /\ at \in seen /\ pos \in 1 .. Len(CodeOf(func, at)) + 1
  BY DEF MachineInv, PlaceInv
<1>2. Len(CodeOf(func, at)) \in Nat /\ InstForm(func, at, pos) /\ DOMAIN CodeOf(func, at) = 1 .. Len(CodeOf(func, at))
  BY <1>1, BlockFacts
<1>3. pos \in Nat \ {0} /\ pos - 1 \in Nat /\ pos - 1 < pos /\ pos - 1 <= Len(CodeOf(func, at))
  BY <1>1, <1>2
<1>4. \A v \in Operands(CodeOf(func, at)[pos]) : Ready(func, at, pos - 1, v)
  BY <1>2 DEF InstForm
<1>5. \A v \in Operands(CodeOf(func, at)[pos]) : v \in DOMAIN val /\ val[v] \in Word
  BY <1>3, <1>4, OperandThere
<1>6. 0 \in DOMAIN val /\ exc \in Word /\ outcome \in Outcomes /\ blind \in BOOLEAN
      /\ \A t \in DOMAIN told : told[t] \in Word
  BY DEF MachineInv, PlaceInv, WordInv, Started
<1> QED BY <1>1, <1>2, <1>3, <1>5, <1>6

LEMMA OutcomeFacts == \A fault : fault \in Outcomes /\ outcome \in Outcomes => First(fault) \in Outcomes
BY DEF First

\* What an instruction without effects computes.
LEMMA ComputesThere ==
  ASSUME func \in Funcs, MachineInv, at # 0, pos \in DOMAIN CodeOf(func, at),
         CodeOf(func, at)[pos].op \in Pure \cup {"div"}
  PROVE  Computes(CodeOf(func, at)[pos], val) \in Word
<1> PICK inst : inst = CodeOf(func, at)[pos]
  OBVIOUS
<1>1. InstForm(func, at, pos) /\ \A v \in Operands(inst) : v \in DOMAIN val /\ val[v] \in Word
  BY AtInstruction
<1>2. inst.op = "const" => inst.a \in Int
  BY <1>1 DEF InstForm
<1>3. inst.op # "const" => inst.a \in Operands(inst) /\ inst.b \in Operands(inst)
  BY DEF Operands, Pure, Negate
<1>4. inst.op # "const" => val[inst.a] \in Word /\ val[inst.b] \in Word
  BY <1>1, <1>3
<1> QED BY <1>2, <1>4, ComputesWord

LEMMA RunPureForm == ASSUME func \in Funcs, MachineInv, RunPure PROVE StepForm
<1> PICK inst : inst = CodeOf(func, at)[pos]
  OBVIOUS
<1>1. /\ at # 0 /\ pos \in DOMAIN CodeOf(func, at) /\ pos' = pos + 1 /\ inst.op \in Pure
      /\ val' = With(val, inst.d, Computes(inst, val))
      /\ UNCHANGED <<func, solver, at, seen, exc, told, blind, outcome>>
  BY DEF RunPure, Run, Running, Code, CodeOf
<1>2. Computes(inst, val) \in Word
  BY <1>1, ComputesThere
<1>3. exc \in Word /\ outcome \in Outcomes /\ blind \in BOOLEAN /\ \A t \in DOMAIN told : told[t] \in Word
  BY <1>1, AtInstruction
<1>4. Defines(inst) /\ inst.op # "getexc"
  BY <1>1 DEF Defines, Pure, Negate
<1>5. val'[inst.d] = Computes(inst, val)
  BY <1>1 DEF With, Override
<1> QED BY <1>1, <1>2, <1>3, <1>4, <1>5 DEF StepForm

LEMMA RunDivForm == ASSUME func \in Funcs, MachineInv, RunDiv PROVE StepForm
<1> PICK inst : inst = CodeOf(func, at)[pos]
  OBVIOUS
<1>1. /\ at # 0 /\ pos \in DOMAIN CodeOf(func, at) /\ pos' = pos + 1 /\ inst.op = "div"
      /\ val' = With(val, inst.d, Computes(inst, val))
      /\ \E fault \in {"div", "overflow", "none"} : outcome' = First(fault)
      /\ at' = (IF outcome' = "overflow" THEN 0 ELSE at)
      /\ UNCHANGED <<func, solver, seen, exc, told, blind>>
  BY DEF RunDiv, Run, Running, Code, CodeOf
<1>2. Computes(inst, val) \in Word
  BY <1>1, ComputesThere
<1>3. exc \in Word /\ outcome \in Outcomes /\ blind \in BOOLEAN /\ \A t \in DOMAIN told : told[t] \in Word
  BY <1>1, AtInstruction
<1>4. Defines(inst) /\ inst.op \notin Pure
  BY <1>1 DEF Defines, Pure, Negate
<1>5. outcome' \in Outcomes /\ (at' = 0 => outcome' # "none")
  BY <1>1, <1>3, OutcomeFacts DEF Outcomes, Checked
<1> QED BY <1>1, <1>2, <1>3, <1>4, <1>5 DEF StepForm

LEMMA RunAssertForm == ASSUME func \in Funcs, MachineInv, RunAssert PROVE StepForm
<1> PICK inst : inst = CodeOf(func, at)[pos]
  OBVIOUS
<1>1. /\ at # 0 /\ pos \in DOMAIN CodeOf(func, at) /\ pos' = pos + 1 /\ inst.op = "assert"
      /\ \/ UNCHANGED <<at, blind, outcome>>
         \/ at' = 0 /\ blind' = TRUE /\ outcome' = First("assert")
      /\ UNCHANGED <<func, solver, val, seen, exc, told>>
  BY DEF RunAssert, Run, Running, Code, CodeOf
<1>3. exc \in Word /\ outcome \in Outcomes /\ blind \in BOOLEAN /\ \A t \in DOMAIN told : told[t] \in Word
  BY <1>1, AtInstruction
<1>4. ~Defines(inst) /\ inst.op \notin Pure
  BY <1>1 DEF Defines, Pure, Negate
<1>2. "assert" \in Outcomes
  BY DEF Outcomes, Assumed
<1>5. blind' \in BOOLEAN /\ at' \in {0, at}
  BY <1>1, <1>3
<1>7. outcome' \in Outcomes
  BY <1>1, <1>2, <1>3, OutcomeFacts
<1>8. at' = 0 => outcome' # "none"
  BY <1>1 DEF First
<1>6. inst.op # "getexc" /\ val' = val /\ told' = told /\ exc' = exc /\ UNCHANGED <<func, solver>>
  BY <1>1
<1> QED BY <1>1, <1>3, <1>4, <1>5, <1>6, <1>7, <1>8 DEF StepForm

LEMMA RunCallForm == ASSUME func \in Funcs, MachineInv, RunCall PROVE StepForm
<1> PICK inst : inst = CodeOf(func, at)[pos]
  OBVIOUS
<1>1. /\ at # 0 /\ pos \in DOMAIN CodeOf(func, at) /\ pos' = pos + 1 /\ inst.op = "call"
      /\ \E fault \in {"argument", "precondition", "none"} : outcome' = First(fault)
      /\ \/ (\E w \in CallResults(func) : val' = With(val, inst.d, w)) /\ exc' = 0
         \/ exc' \in func.callee.raises /\ UNCHANGED val
      /\ UNCHANGED <<func, solver, at, seen, told, blind>>
  BY DEF RunCall, Run, Running, Code, CodeOf
<1>2. CallResults(func) \subseteq Word
  BY DEF CallResults
<1>3. exc \in Word /\ outcome \in Outcomes /\ blind \in BOOLEAN /\ \A t \in DOMAIN told : told[t] \in Word
  BY <1>1, AtInstruction
<1>4. Defines(inst) /\ inst.op \notin Pure
  BY <1>1 DEF Defines, Pure, Negate
<1>5. outcome' \in Outcomes
  <2>1. {"argument", "precondition", "none"} \subseteq Outcomes
    BY DEF Outcomes, Checked
  <2> QED BY <1>1, <1>3, <2>1, OutcomeFacts
<1>6. func.callee.raises \subseteq Word \ {0}
  BY FuncsAssumption DEF WellFormed
<1>7. exc' \in Word
  BY <1>1, <1>6, WordFacts
<1>8. \/ val' = val /\ exc' # 0
      \/ \E w \in Word : val' = With(val, inst.d, w)
  BY <1>1, <1>2, <1>6
<1> QED BY <1>1, <1>3, <1>4, <1>5, <1>7, <1>8 DEF StepForm

\* What is told is a word.
LEMMA TellWord ==
  ASSUME NEW t, NEW w \in Word, Tell(t, w), \A u \in DOMAIN told : told[u] \in Word, blind \in BOOLEAN
  PROVE  (\A u \in DOMAIN told' : told'[u] \in Word) /\ blind' \in BOOLEAN
<1>1. told' = With(told, t, w) /\ blind' \in BOOLEAN
  BY DEF Tell
<1>2. \A u \in DOMAIN told' : told'[u] \in Word
  BY <1>1 DEF With, Override
<1> QED BY <1>1, <1>2

LEMMA RunSetExcForm == ASSUME func \in Funcs, MachineInv, RunSetExc PROVE StepForm
<1> PICK inst : inst = CodeOf(func, at)[pos]
  OBVIOUS
<1>1. /\ at # 0 /\ pos \in DOMAIN CodeOf(func, at) /\ pos' = pos + 1 /\ inst.op = "setexc"
      /\ exc' = val[inst.a] /\ Tell(inst.a, val[inst.a])
      /\ UNCHANGED <<func, solver, at, val, seen, outcome>>
  BY DEF RunSetExc, Run, Running, Code, CodeOf
<1>2. inst.a \in Operands(inst)
  BY <1>1 DEF Operands
<1>3. /\ val[inst.a] \in Word /\ outcome \in Outcomes /\ blind \in BOOLEAN
      /\ \A t \in DOMAIN told : told[t] \in Word
  BY <1>1, <1>2, AtInstruction
<1>4. ~Defines(inst) /\ inst.op \notin Pure
  BY <1>1 DEF Defines, Pure, Negate
<1>5. (\A u \in DOMAIN told' : told'[u] \in Word) /\ blind' \in BOOLEAN
  BY <1>1, <1>3, TellWord
<1> QED BY <1>1, <1>3, <1>4, <1>5 DEF StepForm

LEMMA RunGetExcForm == ASSUME func \in Funcs, MachineInv, RunGetExc PROVE StepForm
<1> PICK inst : inst = CodeOf(func, at)[pos]
  OBVIOUS
<1>1. /\ at # 0 /\ pos \in DOMAIN CodeOf(func, at) /\ pos' = pos + 1 /\ inst.op = "getexc"
      /\ val' = With(val, inst.d, exc) /\ Tell(ExcTerm(func, Here), exc)
      /\ UNCHANGED <<func, solver, at, seen, exc, outcome>>
  BY DEF RunGetExc, Run, Running, Code, CodeOf
<1>3. /\ exc \in Word /\ outcome \in Outcomes /\ blind \in BOOLEAN
      /\ \A t \in DOMAIN told : told[t] \in Word
  BY <1>1, AtInstruction
<1>4. Defines(inst) /\ inst.op \notin Pure
  BY <1>1 DEF Defines, Pure, Negate
<1>5. (\A u \in DOMAIN told' : told'[u] \in Word) /\ blind' \in BOOLEAN
  BY <1>1, <1>3, TellWord
<1>6. val'[inst.d] = exc
  BY <1>1 DEF With, Override
<1> QED BY <1>1, <1>3, <1>4, <1>5, <1>6 DEF StepForm

RunStep == RunPure \/ RunDiv \/ RunAssert \/ RunCall \/ RunSetExc \/ RunGetExc
LEMMA RunStepForm == ASSUME func \in Funcs, MachineInv, RunStep PROVE StepForm
BY RunPureForm, RunDivForm, RunAssertForm, RunCallForm, RunSetExcForm, RunGetExcForm DEF RunStep

\* What has been executed after a step.
LEMMA StepExecutes ==
  ASSUME func \in Funcs, MachineInv, StepForm, at' = at, NEW b, NEW i, Executed(b, i)'
  PROVE  i \in DOMAIN CodeOf(func, b) /\ (Executed(b, i) \/ (b = at /\ i = pos))
<1>1. at \in DOMAIN func.blocks /\ pos \in Nat \ {0} /\ at \in seen
  BY AtInstruction DEF StepForm
<1>2. pos' = pos + 1 /\ seen' = seen /\ func' = func
  BY DEF StepForm
<1>3. b \in seen /\ i \in DOMAIN CodeOf(func, b) /\ (b = at => i < pos + 1)
  BY <1>2 DEF Executed, CodeOf
<1>4. b = at => i \in Nat
  BY <1>1, <1>3, BlockFacts
<1>5. b = at => i < pos \/ i = pos
  BY <1>1, <1>3, <1>4
<1> QED BY <1>3, <1>5 DEF Executed

LEMMA StepValues ==
  ASSUME StepForm
  PROVE  /\ DOMAIN val \subseteq DOMAIN val'
         /\ LET inst == CodeOf(func, at)[pos]
            IN  /\ \A v \in DOMAIN val' : v \in DOMAIN val \/ (v = inst.d /\ Defines(inst))
                /\ \A v \in DOMAIN val : ~Defines(inst) \/ v # inst.d => val'[v] = val[v]
                /\ Defines(inst) /\ inst.op # "call" => inst.d \in DOMAIN val'
                /\ \A v \in DOMAIN val' : (v \in DOMAIN val => val[v] \in Word) => val'[v] \in Word
<1> PICK inst : inst = CodeOf(func, at)[pos]
  OBVIOUS
<1>1. \/ val' = val /\ (Defines(inst) => inst.op = "call")
      \/ Defines(inst) /\ \E w \in Word : val' = With(val, inst.d, w)
  BY DEF StepForm
<1>2. CASE val' = val /\ (Defines(inst) => inst.op = "call")
  BY <1>2
<1>3. CASE Defines(inst) /\ \E w \in Word : val' = With(val, inst.d, w)
  <2>1. PICK w \in Word : val' = With(val, inst.d, w)
    BY <1>3
  <2> PICK d : d = inst.d
    OBVIOUS
  <2>2. val' = [v \in {d} \cup DOMAIN val |-> IF v \in {d} THEN w ELSE val[v]]
    BY <2>1 DEF With, Override
  <2> QED BY <1>3, <2>2
<1> QED BY <1>1, <1>2, <1>3

LEMMA StepComplete ==
  ASSUME func \in Funcs, MachineInv, StepForm, at' = at
  PROVE  Complete'
<1>1. Complete /\ func' = func /\ seen' = seen /\ DOMAIN val \subseteq DOMAIN val'
  BY StepValues DEF MachineInv, StepForm
<1>2. ASSUME NEW b \in seen', NEW v, (Gives(func, b, v) \/ Available(func, v, b))'
      PROVE  v \in DOMAIN val'
  <2>1. b \in seen /\ (Gives(func, b, v) \/ Available(func, v, b))
    BY <1>1, <1>2
  <2> QED BY <1>1, <2>1 DEF Complete
<1>3. ASSUME NEW b, NEW i, Executed(b, i)',
             Defines(CodeOf(func, b)[i]), CodeOf(func, b)[i].op # "call"
      PROVE  CodeOf(func, b)[i].d \in DOMAIN val'
  <2>1. CASE Executed(b, i)
    BY <1>1, <1>3, <2>1 DEF Complete
  <2>2. CASE b = at /\ i = pos
    BY <1>3, <2>2, StepValues
  <2> QED BY <1>3, <2>1, <2>2, StepExecutes
<1>4. \A b, i : CodeOf(func, b)[i]' = CodeOf(func, b)[i]
  BY <1>1 DEF CodeOf
<1> QED BY <1>2, <1>3, <1>4 DEF Complete

LEMMA DefinesApart ==
  ASSUME NEW f \in Funcs, NEW b \in DOMAIN f.blocks, NEW i \in DOMAIN CodeOf(f, b),
         NEW c \in DOMAIN f.blocks, NEW j \in DOMAIN CodeOf(f, c),
         Defines(CodeOf(f, b)[i]), Defines(CodeOf(f, c)[j]), CodeOf(f, b)[i].d = CodeOf(f, c)[j].d
  PROVE  b = c /\ i = j
BY FuncsAssumption DEF WellFormed, DefinedOnce

\* The words of the test that follows a call.
LEMMA TestWords ==
  /\ \A inst, env : inst.op = "const" /\ inst.a = 0 => Computes(inst, env) = 0
  /\ \A inst, env : /\ inst.op = "#" /\ env[inst.a] \in Word \ {0} /\ env[inst.b] = 0
                    => Computes(inst, env) = 1
<1>1. \A inst, env : inst.op = "const" /\ inst.a = 0 => Exact(inst, env) = 0
  BY DEF Exact
<1>2. ASSUME NEW inst, NEW env, inst.op = "#", env[inst.a] \in Word \ {0}, env[inst.b] = 0
      PROVE  Exact(inst, env) = 1
  <2>1. Exact(inst, env) = Bit(Compare("#", Signed(env[inst.a]), Signed(env[inst.b])))
    BY <1>2 DEF Exact
  <2>2. Signed(env[inst.a]) # Signed(env[inst.b])
    BY <1>2, WordFacts
  <2>3. Bit(Compare("#", Signed(env[inst.a]), Signed(env[inst.b]))) = 1
    BY <2>2 DEF Compare, Bit
  <2> QED BY <2>1, <2>3
<1> QED BY <1>1, <1>2, WordFacts DEF Computes

LEMMA StepRaised ==
  ASSUME func \in Funcs, MachineInv, StepForm, at' = at,
         NEW i \in DOMAIN CodeOf(func, at), i < pos',
         CodeOf(func, at)[i].op = "call", CodeOf(func, at)[i].d \notin DOMAIN val'
  PROVE  LET code == CodeOf(func, at)
         IN  /\ exc' # 0
             /\ i + 1 < pos' => val'[code[i + 1].d] = exc'
             /\ i + 2 < pos' => val'[code[i + 2].d] = 0
             /\ i + 3 < pos' => val'[code[i + 3].d] = 1
<1> PICK code : code = CodeOf(func, at)
  OBVIOUS
<1>1. /\ at \in DOMAIN func.blocks /\ at \in seen /\ pos \in Nat \ {0} /\ pos \in DOMAIN code
      /\ pos' = pos + 1 /\ at # 0
  BY AtInstruction DEF StepForm
<1>2. Len(code) \in Nat /\ DOMAIN code = 1 .. Len(code) /\ InstForm(func, at, i)
  BY <1>1, BlockFacts
<1>3. CallForm(func, at, i)
  BY <1>2 DEF InstForm
<1>4. /\ Len(code) = i + 3 /\ i \in Nat
      /\ code[i + 1].op = "getexc" /\ code[i + 2].op = "const" /\ code[i + 2].a = 0
      /\ code[i + 3].op = "#" /\ code[i + 3].a = code[i + 1].d /\ code[i + 3].b = code[i + 2].d
  BY <1>2, <1>3 DEF CallForm
<1>5. CASE i = pos
  <2>1. exc' # 0
    <3>1. ~ \E w \in Word : val' = With(val, code[i].d, w)
      <4>1. ASSUME NEW w \in Word, NEW d, val' = With(val, d, w) PROVE d \in DOMAIN val'
        BY <4>1 DEF With, Override
      <4> QED BY <4>1
    <3>2. Defines(code[i])
      BY DEF Defines
    <3> QED BY <1>5, <3>1, <3>2 DEF StepForm
  <2> QED BY <1>1, <1>5, <2>1
<1>6. CASE i # pos
  <2>1. pos \in {i + 1, i + 2, i + 3}
    BY <1>1, <1>2, <1>4, <1>6
  <2>2. code[i].d \notin DOMAIN val
    BY StepValues
  <2>3. /\ exc # 0
        /\ i + 1 < pos => val[code[i + 1].d] = exc
        /\ i + 2 < pos => val[code[i + 2].d] = 0
    <3>1. i < pos
      BY <1>1, <1>4, <1>6
    <3> QED BY <1>1, <2>2, <3>1 DEF MachineInv, RaisedInv
  <2>4. exc' = exc
    BY <1>4, <2>1 DEF StepForm, Pure, Negate
  <2>5. exc \in Word
    BY DEF MachineInv, WordInv
  <2>6. i + 1 \in DOMAIN code /\ i + 2 \in DOMAIN code /\ i + 3 \in DOMAIN code
    BY <1>2, <1>4
  <2>7. Defines(code[i + 1]) /\ Defines(code[i + 2]) /\ Defines(code[i + 3])
    BY <1>4 DEF Defines
  <2>8. ASSUME NEW j \in {i + 1, i + 2}, j < pos
        PROVE  val'[code[j].d] = val[code[j].d]
    <3>1. code[j].d # code[pos].d
      BY <1>1, <1>4, <2>1, <2>6, <2>7, <2>8, DefinesApart
    <3>2. code[j].d \in DOMAIN val
      <4>1. Executed(at, j)
        BY <1>1, <2>6, <2>8 DEF Executed
      <4>2. Complete /\ code[j].op # "call"
        BY <1>1, <1>4 DEF MachineInv
      <4> QED BY <2>7, <4>1, <4>2 DEF Complete
    <3> QED BY <3>1, <3>2, StepValues
  <2>9. CASE pos = i + 1
    <3>1. val'[code[i + 1].d] = exc
      BY <1>4, <2>9 DEF StepForm
    <3> QED BY <1>1, <1>4, <2>3, <2>4, <2>9, <3>1
  <2>10. CASE pos = i + 2
    <3>1. val'[code[i + 2].d] = 0
      BY <1>4, <2>10, TestWords DEF StepForm, Pure
    <3>2. val'[code[i + 1].d] = exc
      BY <1>4, <2>3, <2>8, <2>10
    <3> QED BY <1>1, <1>4, <2>3, <2>4, <2>10, <3>1, <3>2
  <2>11. CASE pos = i + 3
    <3>1. val[code[i + 1].d] = exc /\ val[code[i + 2].d] = 0
      BY <1>4, <2>3, <2>11
    <3>2. val'[code[i + 3].d] = 1
      <4>1. code[pos].op \in Pure
        BY <1>4, <2>11 DEF Pure, Negate
      <4>2. val'[code[pos].d] = Computes(code[pos], val)
        BY <4>1 DEF StepForm
      <4>3. Computes(code[pos], val) = 1
        BY <1>4, <2>3, <2>5, <2>11, <3>1, TestWords
      <4> QED BY <2>11, <4>2, <4>3
    <3>3. val'[code[i + 1].d] = exc /\ val'[code[i + 2].d] = 0
      BY <1>4, <2>8, <2>11, <3>1
    <3> QED BY <1>1, <1>4, <2>3, <2>4, <2>11, <3>2, <3>3
  <2> QED BY <2>1, <2>9, <2>10, <2>11
<1> QED BY <1>5, <1>6

LEMMA StepMachine == ASSUME func \in Funcs, MachineInv, StepForm PROVE MachineInv'
<1>1. /\ at \in DOMAIN func.blocks /\ at \in seen /\ pos \in Nat \ {0} /\ at # 0
      /\ pos \in DOMAIN CodeOf(func, at) /\ pos' = pos + 1 /\ seen' = seen /\ at' \in {0, at}
      /\ func' = func /\ phase' = phase /\ verdict' = verdict
      /\ outcome' \in Outcomes /\ blind' \in BOOLEAN /\ (at' = 0 => outcome' # "none")
  BY AtInstruction DEF StepForm, solver
<1>2. pos' \in 1 .. Len(CodeOf(func, at)) + 1
  BY <1>1, BlockFacts
<1>3. PlaceInv'
  <2>1. Started /\ PlaceInv
    BY <1>1 DEF Started, MachineInv
  <2>2. Started'
    BY <1>1 DEF Started
  <2> QED BY <1>1, <1>2, <2>1, <2>2 DEF PlaceInv, CodeOf
<1>4. DomInv'
  <2>1. DomInv
    BY DEF MachineInv
  <2> QED BY <1>1, <2>1 DEF DomInv, Cuts, To
<1>5. WordInv'
  <2>1. \A v \in DOMAIN val : val[v] \in Word
    BY DEF MachineInv, WordInv
  <2>2. \A v \in DOMAIN val' : val'[v] \in Word
    BY <2>1, StepValues
  <2> QED BY <2>2 DEF StepForm, WordInv
<1>6. RaisedInv'
  <2>1. CASE at' = 0
    BY <2>1 DEF RaisedInv
  <2>2. CASE at' = at
    BY <1>1, <2>2, StepRaised DEF RaisedInv, CodeOf
  <2> QED BY <1>1, <2>1, <2>2
<1>7. Started' => ({0} \cup Params(func) \subseteq DOMAIN val)'
  <2>1. {0} \cup Params(func) \subseteq DOMAIN val
    BY <1>1 DEF MachineInv, Started
  <2> QED BY <1>1, <2>1, StepValues
<1>8. at' # 0 => Complete'
  BY <1>1, StepComplete
<1> QED BY <1>3, <1>4, <1>5, <1>6, <1>7, <1>8 DEF MachineInv

-------------------------------------------------------------------------------
(***************************************************************************)
(* From block to block.                                                    *)
(***************************************************************************)
\* The values of the phis of b, on the way from at.
Came(b) ==
    LET phis == func.blocks[b].phis
    IN  [d \in {phis[i].d : i \in DOMAIN phis} |->
            val[(CHOOSE phi \in Range(phis) : phi.d = d).in[at]]]
Broken(b) == \E inv \in func.contract.invs : inv.header = b /\ ~Holds(inv.pred, Override(val, Came(b)), 0)
Unseen(b) == at \in Back(func, b) /\ IsHeader(func, b)

\* Which way control leaves a block.
Leaves(b) ==
    /\ at # 0 /\ pos > Len(CodeOf(func, at)) /\ b \in To(func, at) /\ Enter(b)
    /\ Takes(func, val, at, b)
    /\ func.blocks[at].term.k # "return"

LEMMA EnterIs ==
  ASSUME NEW b, Enter(b)
  PROVE  LET fault == IF ~Broken(b) THEN "none" ELSE IF at \in Back(func, b) THEN "preserved" ELSE "invariant"
         IN  /\ outcome' = First(fault)
             /\ blind' = (blind \/ (Broken(b) /\ at \notin Back(func, b)) \/ (Unseen(b) /\ outcome' = "none"))
             /\ at' = IF Broken(b) \/ (Unseen(b) /\ outcome' # "none") THEN 0 ELSE b
             /\ val' = IF at' = 0 THEN val ELSE Override(val, Came(b))
             /\ seen' = seen \cup {b} /\ pos' = 1
             /\ UNCHANGED <<func, solver, exc, told>>
BY DEF Enter, Came, Broken, Unseen

LEMMA ControlLeaves ==
  ASSUME func \in Funcs, MachineInv, RunJump \/ RunBranch
  PROVE  \E b : Leaves(b)
<1> DEFINE term == func.blocks[at].term
<1>1. at # 0 /\ pos > Len(CodeOf(func, at))
  BY DEF RunJump, RunBranch, AtEnd, Running, Code, CodeOf
<1>2. at \in DOMAIN func.blocks
  BY <1>1 DEF MachineInv, PlaceInv
<1>3. TermForm(func, at)
  BY <1>2, BlockFacts
<1>4. CASE RunJump
  <2>1. term.k = "jump" /\ Enter(term.to[1])
    BY <1>4 DEF RunJump, AtEnd
  <2>2. DOMAIN term.to = {1}
    BY <1>3, <2>1 DEF TermForm
  <2>3. term.to[1] \in To(func, at)
    BY <2>2 DEF To, Range
  <2> QED BY <1>1, <2>1, <2>3 DEF Leaves, Takes
<1>5. CASE RunBranch
  <2>1. term.k = "branch" /\ Enter(IF val[term.c] = 1 THEN term.to[1] ELSE term.to[2])
    BY <1>5 DEF RunBranch, AtEnd
  <2>2. DOMAIN term.to = {1, 2}
    BY <1>3, <2>1 DEF TermForm
  <2>3. term.to[1] \in To(func, at) /\ term.to[2] \in To(func, at)
    BY <2>2 DEF To, Range
  <2>4. PICK b : b = IF val[term.c] = 1 THEN term.to[1] ELSE term.to[2]
    OBVIOUS
  <2>5. b \in To(func, at) /\ Enter(b)
    BY <2>1, <2>3, <2>4
  <2> QED BY <1>1, <2>1, <2>4, <2>5 DEF Leaves, Takes
<1> QED BY <1>4, <1>5

LEMMA LeaveFacts ==
  ASSUME func \in Funcs, MachineInv, NEW b, Leaves(b)
  PROVE  /\ at \in DOMAIN func.blocks /\ at \in seen /\ at # 0 /\ pos > Len(CodeOf(func, at)) /\ pos \in Nat
         /\ Len(CodeOf(func, at)) \in Nat
         /\ b \in DOMAIN func.blocks /\ at \in func.preds[b] /\ b # 1 /\ b \in To(func, at)
         /\ \A v : AtEndOf(func, at, v) => v \in DOMAIN val /\ val[v] \in Word
         /\ \A i \in DOMAIN CodeOf(func, at) : i < pos
         /\ seen' = seen \cup {b} /\ pos' = 1 /\ UNCHANGED <<func, solver, exc, told>>
<1>1. at \in DOMAIN func.blocks /\ at \in seen /\ at # 0 /\ pos > Len(CodeOf(func, at)) /\ b \in To(func, at)
      /\ pos \in 1 .. Len(CodeOf(func, at)) + 1
  BY DEF Leaves, MachineInv, PlaceInv
<1>2. Len(CodeOf(func, at)) \in Nat /\ DOMAIN CodeOf(func, at) = 1 .. Len(CodeOf(func, at))
  BY <1>1, BlockFacts
<1>3. pos \in Nat /\ Len(CodeOf(func, at)) < pos /\ \A i \in DOMAIN CodeOf(func, at) : i < pos
  BY <1>1, <1>2
<1>4. b \in DOMAIN func.blocks /\ at \in func.preds[b] /\ b # 1
  BY <1>1, EdgeFacts
<1>5. \A v : AtEndOf(func, at, v) => v \in DOMAIN val /\ val[v] \in Word
  <2>1. Len(CodeOf(func, at)) <= Len(CodeOf(func, at))
    BY <1>2
  <2> QED BY <1>1, <1>2, <1>3, <2>1, OperandThere DEF AtEndOf
<1>6. seen' = seen \cup {b} /\ pos' = 1 /\ UNCHANGED <<func, solver, exc, told>>
  BY DEF Leaves, Enter
<1> QED BY <1>1, <1>2, <1>3, <1>4, <1>5, <1>6

\* The values that come in are those of the edge.
LEMMA CameFacts ==
  ASSUME func \in Funcs, MachineInv, NEW b, Leaves(b)
  PROVE  /\ DOMAIN Came(b) = {phi.d : phi \in Range(PhisOf(func, b))}
         /\ \A phi \in Range(PhisOf(func, b)) :
               Came(b)[phi.d] = val[phi.in[at]] /\ phi.in[at] \in DOMAIN val
         /\ \A d \in DOMAIN Came(b) : Came(b)[d] \in Word
<1> PICK phis : phis = PhisOf(func, b)
  OBVIOUS
<1>1. b \in DOMAIN func.blocks /\ at \in DOMAIN func.blocks /\ b \in To(func, at)
      /\ \A v : AtEndOf(func, at, v) => v \in DOMAIN val /\ val[v] \in Word
  BY LeaveFacts
<1>2. \A phi \in Range(phis) : phi.in[at] \in DOMAIN val /\ val[phi.in[at]] \in Word
  BY <1>1, EdgeFacts
<1>3. Came(b) = [d \in {phis[i].d : i \in DOMAIN phis} |-> val[(CHOOSE phi \in Range(phis) : phi.d = d).in[at]]]
  BY DEF Came, PhisOf
<1>4. {phis[i].d : i \in DOMAIN phis} = {phi.d : phi \in Range(phis)}
  BY DEF Range
<1>5. ASSUME NEW phi \in Range(phis)
      PROVE  (CHOOSE other \in Range(phis) : other.d = phi.d) = phi
  <2>1. \A i, j \in DOMAIN phis : phis[i].d = phis[j].d => i = j
    BY <1>1, FuncsAssumption DEF WellFormed, DefinedOnce
  <2>2. ASSUME NEW other \in Range(phis), other.d = phi.d PROVE other = phi
    <3>1. PICK i \in DOMAIN phis : phi = phis[i]
      BY DEF Range
    <3>2. PICK j \in DOMAIN phis : other = phis[j]
      BY DEF Range
    <3>3. i = j
      BY <2>1, <2>2, <3>1, <3>2
    <3> QED BY <3>1, <3>2, <3>3
  <2> QED BY <2>2
<1>6. ASSUME NEW phi \in Range(phis) PROVE Came(b)[phi.d] = val[phi.in[at]]
  <2>1. phi.d \in {phis[i].d : i \in DOMAIN phis}
    BY <1>4
  <2>2. Came(b)[phi.d] = val[(CHOOSE other \in Range(phis) : other.d = phi.d).in[at]]
    BY <1>3, <2>1
  <2> QED BY <1>5, <2>2
<1>7. ASSUME NEW d \in DOMAIN Came(b) PROVE Came(b)[d] \in Word
  <2>1. PICK phi \in Range(phis) : d = phi.d
    BY <1>3, <1>4
  <2> QED BY <1>2, <1>6, <2>1
<1> QED BY <1>2, <1>3, <1>4, <1>6, <1>7

LEMMA EnterDominators ==
  ASSUME func \in Funcs, MachineInv, NEW b, Leaves(b), NEW c, NEW S, Cuts(func, c, S),
         c \in DOMAIN func.blocks, S \in SUBSET DOMAIN func.blocks, c \notin seen \cup {b}
  PROVE  seen \cup {b} \subseteq S
<1>1. at \in seen /\ b \in To(func, at)
  BY LeaveFacts
<1>2. seen \subseteq S
  BY DEF MachineInv, DomInv
<1>3. b \in S
  BY <1>1, <1>2 DEF Cuts
<1> QED BY <1>2, <1>3

\* The result of a call is there where control goes on behind it.
LEMMA CallReturned ==
  ASSUME func \in Funcs, MachineInv, NEW b, Leaves(b), NEW p \in func.preds[b],
         NEW inst \in Range(CodeOf(func, p)), inst.op = "call", b = func.blocks[p].term.to[2]
  PROVE  inst.d \in DOMAIN val
<1>1. at \in DOMAIN func.blocks /\ at \in func.preds[b] /\ b \in DOMAIN func.blocks /\ at # 0
      /\ (\A i \in DOMAIN CodeOf(func, at) : i < pos) /\ pos \in Nat /\ pos > Len(CodeOf(func, at))
  BY LeaveFacts
<1>2. p \in DOMAIN func.blocks
  BY <1>1, BlockFacts
<1>3. PICK i \in DOMAIN CodeOf(func, p) : inst = CodeOf(func, p)[i]
  BY DEF Range
<1>4. CallForm(func, p, i)
  <2>1. InstForm(func, p, i)
    BY <1>2, BlockFacts
  <2> QED BY <1>3, <2>1 DEF InstForm
<1>5. /\ func.preds[b] = {p} /\ func.blocks[p].term.k = "branch"
      /\ Len(CodeOf(func, p)) = i + 3
      /\ func.blocks[p].term.c = CodeOf(func, p)[i + 3].d
  BY <1>4 DEF CallForm
<1>6. at = p
  BY <1>1, <1>5
<1>7. i \in Nat
  BY <1>2, BlockFacts
<1>8. i < pos /\ i + 1 < pos /\ i + 2 < pos /\ i + 3 < pos
  BY <1>1, <1>5, <1>6, <1>7
<1>9. func.blocks[p].term.to[1] # func.blocks[p].term.to[2]
  <2>1. TermForm(func, p)
    BY <1>2, BlockFacts
  <2> QED BY <1>5, <2>1 DEF TermForm
<1>10. val[func.blocks[p].term.c] # 1
  BY <1>5, <1>6, <1>9 DEF Leaves, Takes
<1>11. ASSUME inst.d \notin DOMAIN val PROVE FALSE
  <2>1. val[CodeOf(func, p)[i + 3].d] = 1
    BY <1>1, <1>3, <1>6, <1>8, <1>11 DEF MachineInv, RaisedInv
  <2> QED BY <1>5, <1>10, <2>1
<1> QED BY <1>11

\* What is executed when control has left a block.
LEMMA LeaveExecutes ==
  ASSUME func \in Funcs, MachineInv, NEW b, Leaves(b), at' \in {0, b}, at' = 0 => b \in seen,
         NEW c, NEW i, Executed(c, i)'
  PROVE  Executed(c, i)
<1>1. seen' = seen \cup {b} /\ pos' = 1 /\ func' = func /\ b \in DOMAIN func.blocks
      /\ \A j \in DOMAIN CodeOf(func, at) : j < pos
  BY LeaveFacts DEF solver
<1>2. c \in seen' /\ i \in DOMAIN CodeOf(func, c) /\ (c = at' => i < 1)
  BY <1>1 DEF Executed, CodeOf
<1>3. c # at' \/ at' = 0
  <2>1. ASSUME c = at', at' # 0 PROVE FALSE
    <3>1. i \in 1 .. Len(CodeOf(func, c)) /\ Len(CodeOf(func, c)) \in Nat
      BY <1>1, <1>2, <2>1, BlockFacts
    <3> QED BY <1>2, <2>1, <3>1
  <2> QED BY <2>1
<1>4. c \in seen
  BY <1>1, <1>2, <1>3
<1> QED BY <1>1, <1>2, <1>4 DEF Executed

LEMMA EnterComplete ==
  ASSUME func \in Funcs, MachineInv, NEW b, Leaves(b), at' \in {0, b}, at' = 0 => b \in seen,
         DOMAIN val \subseteq DOMAIN val', at' # 0 => DOMAIN Came(b) \subseteq DOMAIN val'
  PROVE  Complete'
<1>1. /\ at \in DOMAIN func.blocks /\ at \in seen /\ b \in DOMAIN func.blocks /\ at \in func.preds[b]
      /\ seen' = seen \cup {b} /\ func' = func /\ at # 0
  BY LeaveFacts DEF solver
<1>2. Complete
  BY <1>1 DEF MachineInv
<1>3. seen \subseteq DOMAIN func.blocks /\ {0} \cup Params(func) \subseteq DOMAIN val
  BY <1>1 DEF MachineInv, PlaceInv, Started
<1>4. ASSUME NEW v, Gives(func, b, v), b \notin seen \/ at' # 0 PROVE v \in DOMAIN val'
  <2>1. at' # 0
    BY <1>1, <1>4
  <2>2. CASE \E phi \in Range(PhisOf(func, b)) : phi.d = v
    BY <2>1, <2>2, CameFacts
  <2>3. CASE \E p \in func.preds[b] : \E inst \in Range(CodeOf(func, p)) :
                inst.op = "call" /\ inst.d = v /\ b = func.blocks[p].term.to[2]
    <3>1. v \in DOMAIN val
      BY <2>3, CallReturned
    <3> QED BY <3>1
  <2> QED BY <1>4, <2>2, <2>3 DEF Gives
<1>5. ASSUME NEW v, Available(func, v, b), b \notin seen \/ at' # 0 PROVE v \in DOMAIN val'
  <2>1. CASE v \in Params(func)
    BY <1>3, <2>1
  <2>2. CASE \E c \in DOMAIN func.blocks :
                Dominates(func, c, b) /\ (Gives(func, c, v) \/ (c # b /\ Made(func, c, Len(CodeOf(func, c)), v)))
    <3>1. PICK c \in DOMAIN func.blocks :
                Dominates(func, c, b) /\ (Gives(func, c, v) \/ (c # b /\ Made(func, c, Len(CodeOf(func, c)), v)))
      BY <2>2
    <3>2. CASE c = b
      BY <1>4, <1>5, <3>1, <3>2
    <3>3. CASE c # b
      <4>1. c \in seen
        <5>1. ASSUME c \notin seen PROVE FALSE
          <6>1. PICK S \in SUBSET DOMAIN func.blocks : Cuts(func, c, S) /\ b \notin S
            BY <3>1, <3>3 DEF Dominates
          <6>2. seen \cup {b} \subseteq S
            BY <3>3, <5>1, <6>1, EnterDominators
          <6> QED BY <6>1, <6>2
        <5> QED BY <5>1
      <4>2. CASE Gives(func, c, v)
        BY <1>2, <4>1, <4>2 DEF Complete
      <4>3. CASE Made(func, c, Len(CodeOf(func, c)), v)
        <5>1. PICK i \in 1 .. Len(CodeOf(func, c)) :
                LET inst == CodeOf(func, c)[i]
                IN  Defines(inst) /\ inst.op # "call" /\ inst.d = v
          BY <4>3 DEF Made
        <5>2. i \in DOMAIN CodeOf(func, c)
          BY BlockFacts
        <5>3. c = at => i < pos
          BY <5>2, LeaveFacts
        <5>4. Executed(c, i)
          BY <4>1, <5>2, <5>3 DEF Executed
        <5> QED BY <1>2, <5>1, <5>4 DEF Complete
      <4> QED BY <3>1, <3>3, <4>2, <4>3
    <3> QED BY <3>2, <3>3
  <2> QED BY <1>5, <2>1, <2>2 DEF Available
<1>6. ASSUME NEW c \in seen', NEW v, (Gives(func, c, v) \/ Available(func, v, c))'
      PROVE  v \in DOMAIN val'
  <2>1. Gives(func, c, v) \/ Available(func, v, c)
    BY <1>1, <1>6
  <2>2. CASE c \in seen
    BY <1>2, <2>1, <2>2 DEF Complete
  <2>3. CASE c \notin seen
    BY <1>1, <1>4, <1>5, <2>1, <2>3
  <2> QED BY <2>2, <2>3
<1>7. ASSUME NEW c, NEW i, Executed(c, i)', Defines(CodeOf(func, c)[i]), CodeOf(func, c)[i].op # "call"
      PROVE  CodeOf(func, c)[i].d \in DOMAIN val'
  <2>1. Executed(c, i)
    BY <1>7, LeaveExecutes
  <2> QED BY <1>2, <1>7, <2>1 DEF Complete
<1>8. \A c, i : CodeOf(func, c)[i]' = CodeOf(func, c)[i]
  BY <1>1 DEF CodeOf
<1> QED BY <1>6, <1>7, <1>8 DEF Complete

LEMMA EnterMachine == ASSUME func \in Funcs, MachineInv, NEW b, Leaves(b) PROVE MachineInv'
<1>1. /\ at \in DOMAIN func.blocks /\ at \in seen /\ b \in DOMAIN func.blocks /\ at # 0
      /\ seen' = seen \cup {b} /\ pos' = 1 /\ func' = func /\ phase' = phase /\ verdict' = verdict
      /\ exc' = exc /\ told' = told
  BY LeaveFacts DEF solver
<1>2. PICK fault \in {"none", "preserved", "invariant"} :
         outcome' = First(fault) /\ (Broken(b) => fault # "none")
  BY EnterIs DEF Leaves
<1>3. /\ blind' = (blind \/ (Broken(b) /\ at \notin Back(func, b)) \/ (Unseen(b) /\ outcome' = "none"))
      /\ at' = IF Broken(b) \/ (Unseen(b) /\ outcome' # "none") THEN 0 ELSE b
      /\ val' = IF at' = 0 THEN val ELSE Override(val, Came(b))
  BY EnterIs DEF Leaves
<1>4. Started /\ PlaceInv /\ DomInv /\ WordInv
  BY <1>1 DEF Started, MachineInv
<1>5. outcome' \in Outcomes
  <2>1. {"none", "preserved", "invariant"} \subseteq Outcomes
    BY DEF Outcomes, Checked, Assumed
  <2>2. outcome \in Outcomes
    BY <1>4 DEF PlaceInv
  <2>3. fault \in Outcomes
    BY <2>1
  <2> QED BY <1>2, <2>2, <2>3, OutcomeFacts
<1>6. at' = 0 => outcome' # "none"
  <2>1. b # 0
    BY <1>1, BlocksAreSeq
  <2>2. fault # "none" => outcome' # "none"
    BY <1>2 DEF First
  <2> QED BY <1>2, <1>3, <2>1, <2>2
<1>7. at' \in {0, b} /\ blind' \in BOOLEAN /\ (at' # 0 => at' = b)
  BY <1>3
<1>8. /\ at' # 0 => DOMAIN val' = DOMAIN Came(b) \cup DOMAIN val
      /\ DOMAIN val \subseteq DOMAIN val'
      /\ \A v \in DOMAIN val' : (val'[v] = val[v] /\ v \in DOMAIN val) \/ (v \in DOMAIN Came(b) /\ val'[v] = Came(b)[v])
  <2>1. CASE at' = 0
    <3>1. val' = val
      BY <1>3, <2>1
    <3> QED BY <2>1, <3>1
  <2>2. CASE at' # 0
    <3>1. val' = Override(val, Came(b))
      BY <1>3, <2>2
    <3> QED BY <2>2, <3>1 DEF Override
  <2> QED BY <2>1, <2>2
<1>9. PlaceInv'
  <2>1. Started'
    BY <1>6 DEF Started
  <2>2. Len(CodeOf(func, b)) \in Nat
    BY <1>1, BlockFacts
  <2>3. 1 \in 1 .. Len(CodeOf(func, b)) + 1
    BY <2>2
  <2>4. /\ phase = "done" /\ verdict # "none" /\ 1 \in seen /\ seen \subseteq DOMAIN func.blocks
    BY <1>4 DEF PlaceInv
  <2>5. at' # 0 => at' \in seen' /\ pos' \in 1 .. Len(CodeOf(func, at')) + 1
    BY <1>1, <1>7, <2>3
  <2>6. at' \in {0} \cup DOMAIN func.blocks /\ seen' \subseteq DOMAIN func.blocks
    BY <1>1, <1>7, <2>4
  <2> QED BY <1>1, <1>5, <1>7, <2>1, <2>4, <2>5, <2>6 DEF PlaceInv, CodeOf
<1>10. DomInv'
  BY <1>1, EnterDominators DEF DomInv, Cuts, To
<1>11. WordInv'
  BY <1>1, <1>4, <1>8, CameFacts DEF WordInv
<1>12. RaisedInv'
  <2>1. ASSUME at' # 0, NEW i \in DOMAIN CodeOf(func, b), i < 1 PROVE FALSE
    BY <1>1, <2>1, BlockFacts
  <2> QED BY <1>1, <1>7, <2>1 DEF RaisedInv, CodeOf
<1>13. Started' => ({0} \cup Params(func) \subseteq DOMAIN val)'
  <2>1. {0} \cup Params(func) \subseteq DOMAIN val
    BY <1>4 DEF MachineInv
  <2> QED BY <1>1, <1>8, <2>1
<1>14. at' # 0 => Complete'
  BY <1>7, <1>8, EnterComplete
<1> QED BY <1>9, <1>10, <1>11, <1>12, <1>13, <1>14 DEF MachineInv

LEMMA ReturnMachine == ASSUME func \in Funcs, MachineInv, RunReturn PROVE MachineInv'
<1>1. /\ at # 0 /\ at' = 0 /\ Tell(LastExcTerm(func), exc) /\ UNCHANGED <<func, solver, val, seen, exc>>
      /\ \E fault \in {"raised", "result", "postcondition", "kept"} : outcome' = First(fault)
  BY DEF RunReturn, AtEnd, Running
<1>2. Started /\ PlaceInv /\ DomInv /\ WordInv
  BY <1>1 DEF Started, MachineInv
<1>3. outcome' \in Outcomes
  <2>1. {"raised", "result", "postcondition", "kept"} \subseteq Outcomes
    BY DEF Outcomes, Checked
  <2>2. outcome \in Outcomes
    BY <1>2 DEF PlaceInv
  <2> QED BY <1>1, <2>1, <2>2, OutcomeFacts
<1>4. outcome' # "none"
  BY <1>1 DEF First
<1>5. (\A u \in DOMAIN told' : told'[u] \in Word) /\ blind' \in BOOLEAN
  BY <1>1, <1>2, TellWord DEF WordInv, PlaceInv
<1>6. PlaceInv'
  BY <1>1, <1>2, <1>3, <1>4, <1>5 DEF PlaceInv, Started, solver
<1>7. DomInv'
  BY <1>1, <1>2 DEF DomInv, Cuts, To
<1>8. WordInv'
  BY <1>1, <1>2, <1>5 DEF WordInv
<1>9. (Started => {0} \cup Params(func) \subseteq DOMAIN val)'
  BY <1>1, <1>2 DEF MachineInv
<1> QED BY <1>1, <1>6, <1>7, <1>8, <1>9 DEF MachineInv, RaisedInv

\* The machine starts on words, on an input or on the counterexample.
LEMMA StartsOnWords ==
  ASSUME VerdictInv, Start
  PROVE  /\ DOMAIN val' = {0} \cup Params(func)
         /\ \A v \in DOMAIN val' : val'[v] \in Word
         /\ verdict # "none"
<1>0. func \in Funcs
  BY DEF VerdictInv
<1>1. CASE verdict = "verified" /\ val' \in Inputs(func)
  BY <1>1 DEF Inputs
<1>2. CASE /\ verdict = "refused" /\ Replayable(func)
           /\ val' = [v \in {0} \cup Params(func) |-> IF v = 0 THEN 0 ELSE cex[v]]
  <2>1. PICK m \in Models(func, derived) : cex = m.env
    BY <1>2 DEF VerdictInv, Replayable
  <2>2. TypedEnv(func, derived, m.on, Len(func.sites), m.env)
    BY <1>0, ModelsTyped
  <2>3. \A v \in Params(func) : m.env[v] \in Word
    BY <2>2 DEF TypedEnv, MadeBefore
  <2> QED BY <1>2, <2>1, <2>3, WordFacts
<1> QED BY <1>1, <1>2 DEF Start

LEMMA StartMachine == ASSUME VerdictInv, MachineInv, Start PROVE MachineInv'
<1>1. /\ func \in Funcs /\ phase = "done" /\ at = 0 /\ outcome = "none" /\ at' = 1 /\ pos' = 1 /\ seen' = {1}
      /\ UNCHANGED <<func, derived, models, phase, verdict, cex, exc, told, blind, outcome>>
  BY DEF VerdictInv, Start, solver
<1>2. /\ DOMAIN val' = {0} \cup Params(func) /\ verdict # "none"
      /\ \A v \in DOMAIN val' : val'[v] \in Word
  BY StartsOnWords
<1>3. 1 \in DOMAIN func.blocks /\ func.preds[1] = {} /\ PhisOf(func, 1) = <<>>
  BY <1>1, FuncsAssumption DEF WellFormed, GraphForm
<1>4. Len(CodeOf(func, 1)) \in Nat /\ DOMAIN CodeOf(func, 1) = 1 .. Len(CodeOf(func, 1))
  BY <1>1, <1>3, BlockFacts
<1>5. PlaceInv /\ WordInv
  BY DEF MachineInv
<1>6. PlaceInv'
  <2>1. 1 \in 1 .. Len(CodeOf(func, 1)) + 1
    BY <1>4
  <2> QED BY <1>1, <1>2, <1>3, <1>5, <2>1 DEF PlaceInv, Started, CodeOf
<1>7. DomInv'
  BY <1>1 DEF DomInv, Cuts
<1>8. WordInv'
  BY <1>1, <1>2, <1>5 DEF WordInv
<1>9. RaisedInv'
  <2>1. ASSUME NEW i \in DOMAIN CodeOf(func, 1), i < 1 PROVE FALSE
    BY <1>4, <2>1
  <2> QED BY <1>1, <2>1 DEF RaisedInv, CodeOf
<1>10. Complete'
  <2>1. \A v : ~Gives(func, 1, v)
    <3>1. Range(PhisOf(func, 1)) = {}
      BY <1>3 DEF Range
    <3> QED BY <1>3, <3>1 DEF Gives
  <2>2. ASSUME NEW v, Available(func, v, 1) PROVE v \in DOMAIN val'
    <3>1. \A c : Dominates(func, c, 1) => c = 1
      BY DEF Dominates, Cuts
    <3>2. v \in Params(func)
      BY <2>1, <2>2, <3>1 DEF Available
    <3> QED BY <1>2, <3>2
  <2>3. ASSUME NEW i \in DOMAIN CodeOf(func, 1), i < 1 PROVE FALSE
    BY <1>4, <2>3
  <2>4. \A b \in seen' : \A v : (Gives(func, b, v) \/ Available(func, v, b))' => v \in DOMAIN val'
    <3>1. \A v : Gives(func, 1, v)' = Gives(func, 1, v) /\ Available(func, v, 1)' = Available(func, v, 1)
      BY <1>1 DEF Gives, Available, Dominates, Cuts, Made, To, CodeOf, PhisOf, Params
    <3> QED BY <1>1, <2>1, <2>2, <3>1
  <2>5. \A b, i : ~Executed(b, i)'
    BY <1>1, <2>3 DEF Executed, CodeOf
  <2> QED BY <2>4, <2>5 DEF Complete
<1>11. (Started => {0} \cup Params(func) \subseteq DOMAIN val)'
  BY <1>1, <1>2
<1> QED BY <1>6, <1>7, <1>8, <1>9, <1>10, <1>11 DEF MachineInv

\* The machine does not run while the verifier works.
LEMMA VerifyMachine == ASSUME VerdictInv, MachineInv, Verify PROVE MachineInv' /\ UNCHANGED <<func, machine>>
                                                                   /\ ~Started
<1>1. UNCHANGED <<func, machine>> /\ phase # "done"
  BY DEF Verify, Analyze, AskSolver, CheckSafety, VerifyReturnRefinements, VerifyCallArguments, CheckAll,
         CheckConsistency
<1>2. ~Started
  BY <1>1 DEF MachineInv, PlaceInv
<1>3. UNCHANGED <<func, at, pos, val, seen, exc, told, blind, outcome>>
  BY <1>1 DEF machine
<1>4. ~Started'
  BY <1>2, <1>3 DEF Started
<1>5. at = 0
  BY <1>2 DEF Started
<1>6. PlaceInv'
  BY <1>2, <1>3, <1>4 DEF MachineInv, PlaceInv, CodeOf
<1>7. DomInv' /\ WordInv'
  BY <1>3 DEF MachineInv, DomInv, WordInv, Cuts, To
<1> QED BY <1>1, <1>2, <1>3, <1>4, <1>5, <1>6, <1>7 DEF MachineInv, RaisedInv

LEMMA MachineInit == Init => MachineInv
<1> SUFFICES ASSUME Init PROVE MachineInv
  OBVIOUS
<1>1. /\ at = 0 /\ pos = 1 /\ val = <<>> /\ seen = {} /\ exc = 0 /\ told = <<>>
      /\ blind = FALSE /\ outcome = "none"
  BY DEF Init
<1>2. ~Started
  BY <1>1 DEF Started
<1>3. PlaceInv
  BY <1>1, <1>2 DEF PlaceInv, Outcomes
<1>4. DomInv
  BY <1>1 DEF DomInv
<1>5. WordInv
  BY <1>1, WordFacts DEF WordInv
<1> QED BY <1>1, <1>2, <1>3, <1>4, <1>5 DEF MachineInv, RaisedInv

LEMMA MachineStep == ASSUME VerdictInv, MachineInv, [Next]_vars PROVE MachineInv'
<1>0. func \in Funcs
  BY DEF VerdictInv
<1>1. CASE Verify
  BY <1>1, VerifyMachine
<1>2. CASE Start
  BY <1>2, StartMachine
<1>3. CASE RunStep
  BY <1>0, <1>3, RunStepForm, StepMachine
<1>4. CASE RunJump \/ RunBranch
  BY <1>0, <1>4, ControlLeaves, EnterMachine
<1>5. CASE RunReturn
  BY <1>0, <1>5, ReturnMachine
<1>6. CASE UNCHANGED vars
  <2>1. UNCHANGED <<func, phase, verdict, at, pos, val, seen, exc, told, blind, outcome>>
    BY <1>6 DEF vars
  <2> QED BY <2>1 DEF MachineInv, PlaceInv, DomInv, WordInv, RaisedInv, Complete, Started, Executed
<1> QED BY <1>1, <1>2, <1>3, <1>4, <1>5, <1>6 DEF Next, Execute, RunStep

\* What control has reached, and what it finds there, on every run: the
\* operands of an instruction have been made (the type invariant with what it
\* needs).
THEOREM MachineKnown == Spec => [](VerdictInv /\ MachineInv)
<1>1. Init => VerdictInv /\ MachineInv
  BY VerdictInit, MachineInit
<1>2. VerdictInv /\ MachineInv /\ [Next]_vars => (VerdictInv /\ MachineInv)'
  BY VerdictStep, MachineStep
<1> QED BY <1>1, <1>2, PTL DEF Spec

\* Type correctness: assignments of the solver and values of the machine are
\* words, and the machine is at an instruction of the function.
THEOREM TypesAreCorrect == Spec => []TypeOK
<1>1. VerdictInv /\ MachineInv => TypeOK
  <2> SUFFICES ASSUME VerdictInv, MachineInv PROVE TypeOK
    OBVIOUS
  <2>1. /\ func \in Funcs
        /\ phase \in {"analyze", "translate", "safety", "returns", "calls", "consistency", "done"}
        /\ verdict \in {"none", "verified", "refused"}
        /\ models \subseteq Models(func, derived)
    BY DEF VerdictInv
  <2>2. \A m \in models : m.on \subseteq DOMAIN func.blocks /\ Range(m.env) \subseteq Word
    <3>1. ASSUME NEW m \in models PROVE m.on \subseteq DOMAIN func.blocks /\ Range(m.env) \subseteq Word
      <4>1. m.on \subseteq DOMAIN func.blocks /\ TypedEnv(func, derived, m.on, Len(func.sites), m.env)
        BY <2>1, ModelsTyped
      <4> QED BY <4>1 DEF TypedEnv, Range
    <3> QED BY <3>1
  <2>3. /\ at \in {0} \cup DOMAIN func.blocks
        /\ at # 0 => pos \in 1 .. Len(Code) + 1
        /\ blind \in BOOLEAN /\ outcome \in Outcomes
    BY DEF MachineInv, PlaceInv, Code, CodeOf
  <2>4. Range(val) \subseteq Word /\ Range(told) \subseteq Word /\ exc \in Word
    BY DEF MachineInv, WordInv, Range
  <2> QED BY <2>1, <2>2, <2>3, <2>4 DEF TypeOK
<1> QED BY <1>1, MachineKnown, PTL

-------------------------------------------------------------------------------
(***************************************************************************)
(* The evidence grows: nothing that was found out is taken back.           *)
(***************************************************************************)
Grown ==
    /\ func' = func
    /\ DOMAIN val \subseteq DOMAIN val' /\ \A v \in DOMAIN val : val'[v] = val[v]
    /\ DOMAIN told \subseteq DOMAIN told' /\ \A t \in DOMAIN told : told'[t] = told[t]

\* control has been through the block
Finished(p) == p \in seen /\ (p = at => pos > Len(CodeOf(func, p)))

LEMMA ExecutedOperands ==
  ASSUME func \in Funcs, MachineInv, Complete, NEW b, NEW i, Executed(b, i)
  PROVE  LET inst == CodeOf(func, b)[i]
         IN  /\ b \in DOMAIN func.blocks /\ b \in seen /\ i \in DOMAIN CodeOf(func, b) /\ InstForm(func, b, i)
             /\ \A v \in Operands(inst) : v \in DOMAIN val
             /\ Defines(inst) /\ inst.op # "call" => inst.d \in DOMAIN val
<1>1. b \in DOMAIN func.blocks /\ b \in seen /\ i \in DOMAIN CodeOf(func, b) /\ (b = at => i < pos)
  BY DEF Executed, MachineInv, PlaceInv
<1>2. InstForm(func, b, i) /\ DOMAIN CodeOf(func, b) = 1 .. Len(CodeOf(func, b)) /\ Len(CodeOf(func, b)) \in Nat
  BY <1>1, BlockFacts
<1>3. b = at => pos \in Nat
  <2>1. b = at => at # 0 /\ Len(CodeOf(func, at)) \in Nat
    BY <1>1, <1>2, BlocksAreSeq
  <2>2. at # 0 => pos \in 1 .. Len(CodeOf(func, at)) + 1
    BY DEF MachineInv, PlaceInv
  <2> QED BY <2>1, <2>2
<1>4. ASSUME NEW v \in Operands(CodeOf(func, b)[i]) PROVE v \in DOMAIN val
  <2>1. Ready(func, b, i - 1, v)
    BY <1>2 DEF InstForm
  <2>2. CASE Available(func, v, b)
    BY <1>1, <2>2 DEF Complete
  <2>3. CASE Made(func, b, i - 1, v)
    <3>1. PICK j \in 1 .. i - 1 : LET inst == CodeOf(func, b)[j]
                                  IN  Defines(inst) /\ inst.op # "call" /\ inst.d = v
      BY <2>3 DEF Made
    <3>2. j \in DOMAIN CodeOf(func, b) /\ (b = at => j < pos)
      BY <1>1, <1>2, <1>3
    <3>3. Executed(b, j)
      BY <1>1, <3>2 DEF Executed
    <3> QED BY <3>1, <3>3 DEF Complete
  <2> QED BY <2>1, <2>2, <2>3 DEF Ready
<1> QED BY <1>1, <1>2, <1>4 DEF Complete

LEMMA FinishedValues ==
  ASSUME func \in Funcs, MachineInv, Complete, NEW p, Finished(p), NEW v, AtEndOf(func, p, v)
  PROVE  p \in DOMAIN func.blocks /\ v \in DOMAIN val
<1>1. p \in DOMAIN func.blocks /\ p \in seen /\ (p = at => pos > Len(CodeOf(func, p)))
  BY DEF Finished, MachineInv, PlaceInv
<1>2. DOMAIN CodeOf(func, p) = 1 .. Len(CodeOf(func, p)) /\ Len(CodeOf(func, p)) \in Nat
  BY <1>1, BlockFacts
<1>3. p = at => pos \in Nat
  <2>1. p = at => at # 0
    BY <1>1, BlocksAreSeq
  <2>2. at # 0 => pos \in 1 .. Len(CodeOf(func, at)) + 1
    BY DEF MachineInv, PlaceInv
  <2> QED BY <1>2, <2>1, <2>2
<1>4. CASE Available(func, v, p)
  BY <1>1, <1>4 DEF Complete
<1>5. CASE Made(func, p, Len(CodeOf(func, p)), v)
  <2>1. PICK j \in 1 .. Len(CodeOf(func, p)) : LET inst == CodeOf(func, p)[j]
                                               IN  Defines(inst) /\ inst.op # "call" /\ inst.d = v
    BY <1>5 DEF Made
  <2>2. j \in DOMAIN CodeOf(func, p) /\ (p = at => j < pos)
    BY <1>1, <1>2, <1>3
  <2>3. Executed(p, j)
    BY <1>1, <2>2 DEF Executed
  <2> QED BY <1>1, <2>1, <2>3 DEF Complete
<1> QED BY <1>1, <1>4, <1>5 DEF AtEndOf, Ready

\* A finished block leaves to where it left.
LEMMA TakesGrown ==
  ASSUME func \in Funcs, MachineInv, Complete, Grown, NEW p, Finished(p), NEW b
  PROVE  Takes(func, val', p, b) <=> Takes(func, val, p, b)
<1>1. p \in DOMAIN func.blocks
  BY DEF Finished, MachineInv, PlaceInv
<1>2. TermForm(func, p)
  BY <1>1, BlockFacts
<1>3. func.blocks[p].term.k = "branch" => AtEndOf(func, p, func.blocks[p].term.c)
  BY <1>2 DEF TermForm
<1>4. func.blocks[p].term.k = "branch" => val'[func.blocks[p].term.c] = val[func.blocks[p].term.c]
  BY <1>3, FinishedValues DEF Grown
<1> QED BY <1>4 DEF Takes

LEMMA TakesOne ==
  ASSUME NEW f, NEW env, NEW p, NEW b, NEW c, Takes(f, env, p, b), Takes(f, env, p, c)
  PROVE  b = c
BY DEF Takes

LEMMA ComputesSame ==
  ASSUME NEW inst, NEW env, NEW new,
         inst.op # "const" => new[inst.a] = env[inst.a] /\ new[inst.b] = env[inst.b]
  PROVE  Computes(inst, new) = Computes(inst, env)
<1>1. CASE inst.op = "const"
  BY <1>1 DEF Computes, Exact
<1>2. CASE inst.op # "const"
  BY <1>2 DEF Computes, Exact
<1> QED BY <1>1, <1>2

LEMMA BoundGrown ==
  ASSUME func \in Funcs, MachineInv, Complete, Grown, NEW b, NEW i, Executed(b, i),
         CodeOf(func, b)[i].op = "call"
  PROVE  Bound(CodeOf(func, b)[i].args, val') = Bound(CodeOf(func, b)[i].args, val)
<1> PICK inst : inst = CodeOf(func, b)[i]
  OBVIOUS
<1>1. \A v \in Operands(inst) : v \in DOMAIN val
  BY ExecutedOperands
<1>2. \A j \in DOMAIN inst.args : inst.args[j] \in Operands(inst)
  BY DEF Operands, Range
<1>3. \A j \in DOMAIN inst.args : val'[inst.args[j]] = val[inst.args[j]]
  BY <1>1, <1>2 DEF Grown
<1> QED BY <1>3 DEF Bound

LEMMA FulfilledGrown ==
  ASSUME func \in Funcs, MachineInv, Complete, Grown, NEW b, NEW i, Executed(b, i),
         Fulfilled(CodeOf(func, b)[i]), CodeOf(func, b)[i].op = "call" =>
            (CodeOf(func, b)[i].d \in DOMAIN val' => CodeOf(func, b)[i].d \in DOMAIN val)
  PROVE  Fulfilled(CodeOf(func, b)[i])'
<1> PICK inst : inst = CodeOf(func, b)[i]
  OBVIOUS
<1>1. /\ \A v \in Operands(inst) : v \in DOMAIN val
      /\ Defines(inst) /\ inst.op # "call" => inst.d \in DOMAIN val
      /\ InstForm(func, b, i)
  BY ExecutedOperands
<1>2. inst.op \in Pure \cup {"div", "assert", "call", "setexc", "getexc"}
  BY <1>1 DEF InstForm
<1>3. \A v \in DOMAIN val : val'[v] = val[v]
  BY DEF Grown
<1>0. func' = func /\ (CodeOf(func, b)[i])' = inst
  BY DEF Grown, CodeOf
<1>9. inst.op \in {"assert", "call", "setexc", "getexc"} => inst.op \notin Pure \cup {"div"}
  BY DEF Pure, Negate
<1>4. CASE inst.op \in Pure \cup {"div"}
  <2>1. Defines(inst) /\ inst.op # "call"
    BY <1>4 DEF Defines, Pure, Negate
  <2>2. inst.op # "const" => inst.a \in Operands(inst) /\ inst.b \in Operands(inst)
    BY <1>4 DEF Operands, Pure, Negate
  <2>3. Computes(inst, val') = Computes(inst, val)
    BY <1>1, <1>3, <2>2, ComputesSame
  <2>4. val[inst.d] = Computes(inst, val)
    BY <1>4 DEF Fulfilled
  <2>5. val'[inst.d] = Computes(inst, val')
    BY <1>1, <1>3, <2>1, <2>3, <2>4
  <2> QED BY <1>0, <1>4, <1>9, <2>5 DEF Fulfilled
<1>5. CASE inst.op = "assert"
  <2>1. inst.a \in Operands(inst) /\ val[inst.a] = 1
    BY <1>5 DEF Operands, Fulfilled
  <2>2. val'[inst.a] = 1
    BY <1>1, <1>3, <2>1
  <2> QED BY <1>0, <1>5, <1>9, <2>2 DEF Fulfilled
<1>6. CASE inst.op = "call"
  <2>1. inst.d \in DOMAIN val => val[inst.d] \in CallResults(func)
    BY <1>6 DEF Fulfilled
  <2>2. inst.d \in DOMAIN val' => val'[inst.d] \in CallResults(func)
    BY <1>3, <1>6, <2>1
  <2> QED BY <1>0, <1>6, <1>9, <2>2 DEF Fulfilled
<1>7. CASE inst.op = "setexc"
  <2>1. inst.a \in Operands(inst) /\ inst.a \in DOMAIN told /\ told[inst.a] = val[inst.a]
    BY <1>7 DEF Operands, Fulfilled
  <2>2. inst.a \in DOMAIN told' /\ told'[inst.a] = val'[inst.a]
    BY <1>1, <2>1 DEF Grown
  <2> QED BY <1>0, <1>7, <1>9, <2>2 DEF Fulfilled
<1>8. CASE inst.op = "getexc"
  <2>1. inst.d \in DOMAIN val
    BY <1>1, <1>8 DEF Defines
  <2>2. ASSUME NEW k \in DOMAIN func.sites, func.sites[k].inst = inst
        PROVE  ExcTerm(func, k) \in DOMAIN told' /\ val'[inst.d] = told'[ExcTerm(func, k)]
    <3>1. ExcTerm(func, k) \in DOMAIN told /\ val[inst.d] = told[ExcTerm(func, k)]
      BY <1>8, <2>2 DEF Fulfilled
    <3> QED BY <2>1, <3>1 DEF Grown
  <2> QED BY <1>0, <1>8, <1>9, <2>2 DEF Fulfilled
<1> QED BY <1>2, <1>4, <1>5, <1>6, <1>7, <1>8

LEMMA FaultGrown ==
  ASSUME func \in Funcs, MachineInv, Complete, Grown, NEW b, NEW i, Executed(b, i), Fault(b, i),
         outcome' = outcome
  PROVE  Fault(b, i)'
<1> PICK inst : inst = CodeOf(func, b)[i]
  OBVIOUS
<1>0. func' = func /\ (CodeOf(func, b)[i])' = inst
  BY DEF Grown, CodeOf
<1>1. \A v \in Operands(inst) : v \in DOMAIN val
  BY ExecutedOperands
<1>2. inst.op = "div" => val'[inst.b] = val[inst.b]
  <2>1. inst.op = "div" => inst.b \in Operands(inst)
    BY DEF Operands
  <2> QED BY <1>1, <2>1 DEF Grown
<1>3. inst.op = "call" => Bound(inst.args, val') = Bound(inst.args, val)
  BY BoundGrown
<1> QED BY <1>0, <1>2, <1>3 DEF Fault, ArgumentsFit

\* A predicate of available values.
LEMMA HoldsGrown ==
  ASSUME func \in Funcs, Grown, NEW p \in AllPredicates(func), Mentions(p) \subseteq DOMAIN val, NEW result
  PROVE  Holds(p, val', result) = Holds(p, val, result)
<1>1. p.l \in Term /\ p.r \in Term
  BY PredicateTerms
<1>2. \A n \in Mentions(p) : val'[n] = val[n]
  BY DEF Grown
<1> QED BY <1>1, <1>2, HoldsSame

LEMMA MentionedThere ==
  ASSUME func \in Funcs, MachineInv, Started
  PROVE  /\ \A p \in func.contract.refs \cup func.contract.pre \cup func.contract.ret \cup func.contract.post :
               p \in AllPredicates(func) /\ Mentions(p) \subseteq DOMAIN val
         /\ \A inv \in func.contract.invs :
               /\ inv.pred \in AllPredicates(func)
               /\ inv.header \in DOMAIN func.blocks
               /\ Complete /\ inv.header \in seen => Mentions(inv.pred) \subseteq DOMAIN val
<1>1. PredicateForm(func)
  BY FuncsAssumption DEF WellFormed
<1>2. \A p \in func.contract.refs \cup func.contract.pre \cup func.contract.ret \cup func.contract.post :
        p \in AllPredicates(func) /\ Mentions(p) \subseteq Params(func)
  BY <1>1 DEF PredicateForm, AllPredicates
<1>3. Params(func) \subseteq DOMAIN val
  BY DEF MachineInv
<1>4. ASSUME NEW inv \in func.contract.invs
      PROVE  /\ inv.pred \in AllPredicates(func) /\ inv.header \in DOMAIN func.blocks
             /\ \A v \in Mentions(inv.pred) : Available(func, v, inv.header)
  BY <1>1 DEF PredicateForm, AllPredicates
<1> QED BY <1>2, <1>3, <1>4 DEF Complete

\* no call that raised is given a result afterwards
CallsKept ==
    \A b, i : /\ Executed(b, i) /\ CodeOf(func, b)[i].op = "call"
              /\ CodeOf(func, b)[i].d \in DOMAIN val'
              => CodeOf(func, b)[i].d \in DOMAIN val

\* What is known of the values stays known.
LEMMA ValuesGrown ==
  ASSUME func \in Funcs, MachineInv, Started, Complete, ValueInv, Grown, CallsKept
  PROVE  /\ Satisfied(func.contract.refs \cup func.contract.pre, val')
         /\ \A b, i : Executed(b, i) => Fulfilled(CodeOf(func, b)[i])'
         /\ \A b \in seen : \A phi \in Range(PhisOf(func, b)) : \A p \in Entries(func, b) \cap seen :
               Finished(p) /\ Takes(func, val, p, b) /\ val[phi.d] = val[phi.in[p]] =>
                  val'[phi.d] = val'[phi.in[p]]
         /\ \A inv \in func.contract.invs : inv.header \in seen => Holds(inv.pred, val', 0)
<1>1. Satisfied(func.contract.refs \cup func.contract.pre, val')
  <2>1. ASSUME NEW p \in func.contract.refs \cup func.contract.pre PROVE Holds(p, val', 0)
    <3>1. Holds(p, val, 0)
      BY DEF ValueInv, Satisfied
    <3>2. p \in AllPredicates(func) /\ Mentions(p) \subseteq DOMAIN val
      BY MentionedThere
    <3> QED BY <3>1, <3>2, HoldsGrown
  <2> QED BY <2>1 DEF Satisfied
<1>2. \A b, i : Executed(b, i) => Fulfilled(CodeOf(func, b)[i])'
  BY FulfilledGrown DEF ValueInv, CallsKept
<1>3. ASSUME NEW b \in seen, NEW phi \in Range(PhisOf(func, b)), NEW p \in Entries(func, b) \cap seen,
             Finished(p), val[phi.d] = val[phi.in[p]]
      PROVE  val'[phi.d] = val'[phi.in[p]]
  <2>1. phi.d \in DOMAIN val
    BY DEF Complete, Gives
  <2>2. p \in func.preds[b] /\ b \in DOMAIN func.blocks
    BY DEF Entries, MachineInv, PlaceInv
  <2>3. p \in DOMAIN func.blocks /\ b \in To(func, p)
    BY <2>2, BlockFacts
  <2>4. AtEndOf(func, p, phi.in[p])
    BY <2>3, EdgeFacts
  <2>5. phi.in[p] \in DOMAIN val
    BY <1>3, <2>4, FinishedValues
  <2> QED BY <1>3, <2>1, <2>5 DEF Grown
<1>4. ASSUME NEW inv \in func.contract.invs, inv.header \in seen PROVE Holds(inv.pred, val', 0)
  <2>1. Holds(inv.pred, val, 0)
    BY <1>4 DEF ValueInv
  <2>2. inv.pred \in AllPredicates(func) /\ Mentions(inv.pred) \subseteq DOMAIN val
    BY <1>4, MentionedThere
  <2> QED BY <2>1, <2>2, HoldsGrown
<1> QED BY <1>1, <1>2, <1>3, <1>4

\* Every instruction and every phi has its site.
LEMMA SiteOf ==
  ASSUME NEW f \in Funcs, NEW b \in DOMAIN f.blocks,
         NEW inst \in Range(PhisOf(f, b)) \cup Range(CodeOf(f, b))
  PROVE  /\ \E k \in DOMAIN f.sites : f.sites[k].b = b /\ f.sites[k].inst = inst
         /\ Defines(inst) => inst.d \notin {0} \cup Params(f)
         /\ inst.op = "setexc" => inst.a \in ExcTerms(f)
<1>1. PICK k \in DOMAIN f.sites : f.sites[k].b = b /\ f.sites[k].inst = inst
  BY FuncsAssumption DEF WellFormed, SiteForm
<1>2. Defines(inst) => inst.d \notin {0} \cup Params(f)
  BY <1>1, SiteFacts
<1>3. f.sites[k] \in Range(f.sites)
  BY DEF Range
<1> QED BY <1>1, <1>2, <1>3 DEF ExcTerms

LEMMA PhisAndCode ==
  ASSUME NEW f \in Funcs, NEW b \in DOMAIN f.blocks, NEW phi \in Range(PhisOf(f, b)), NEW c \in DOMAIN f.blocks
  PROVE  /\ phi.op = "phi" /\ Defines(phi)
         /\ \A j \in DOMAIN CodeOf(f, c) : Defines(CodeOf(f, c)[j]) => phi.d # CodeOf(f, c)[j].d
         /\ \A other \in Range(PhisOf(f, c)) : phi.d = other.d => b = c /\ phi = other
<1>1. DefinedOnce(f) /\ BlockForm(f, b)
  BY FuncsAssumption DEF WellFormed
<1>2. phi.op = "phi"
  BY <1>1 DEF BlockForm
<1>3. PICK i \in DOMAIN PhisOf(f, b) : phi = PhisOf(f, b)[i]
  BY DEF Range
<1>4. \A j \in DOMAIN CodeOf(f, c) : Defines(CodeOf(f, c)[j]) => phi.d # CodeOf(f, c)[j].d
  BY <1>1, <1>3 DEF DefinedOnce
<1>5. ASSUME NEW other \in Range(PhisOf(f, c)), phi.d = other.d PROVE b = c /\ phi = other
  <2>1. PICK j \in DOMAIN PhisOf(f, c) : other = PhisOf(f, c)[j]
    BY DEF Range
  <2>2. b = c /\ i = j
    BY <1>1, <1>3, <1>5, <2>1 DEF DefinedOnce
  <2> QED BY <1>3, <2>1, <2>2
<1> QED BY <1>2, <1>4, <1>5 DEF Defines

\* A value is made by an instruction that has not been executed.
LEMMA MadeFresh ==
  ASSUME func \in Funcs, MachineInv, FreshInv, NEW b \in DOMAIN func.blocks, NEW i \in DOMAIN CodeOf(func, b),
         ~Executed(b, i), Defines(CodeOf(func, b)[i])
  PROVE  CodeOf(func, b)[i].d \notin DOMAIN val
<1> PICK inst : inst = CodeOf(func, b)[i]
  OBVIOUS
<1>1. inst \in Range(CodeOf(func, b))
  BY DEF Range
<1>2. inst.d \notin {0} \cup Params(func)
  BY <1>1, SiteOf
<1>3. ASSUME NEW c \in seen, NEW phi \in Range(PhisOf(func, c)) PROVE phi.d # inst.d
  <2>1. c \in DOMAIN func.blocks
    BY DEF MachineInv, PlaceInv
  <2> QED BY <2>1, PhisAndCode
<1>4. ASSUME NEW c \in seen, NEW j \in DOMAIN CodeOf(func, c), Executed(c, j), Defines(CodeOf(func, c)[j])
      PROVE  CodeOf(func, c)[j].d # inst.d
  <2>1. c \in DOMAIN func.blocks
    BY DEF MachineInv, PlaceInv
  <2> QED BY <1>4, <2>1, DefinesApart
<1> QED BY <1>2, <1>3, <1>4 DEF FreshInv

-------------------------------------------------------------------------------
(***************************************************************************)
(* An instruction adds to the evidence.                                    *)
(***************************************************************************)
LEMMA ToldGrown ==
  ASSUME NEW t, NEW w, Tell(t, w), ~blind'
  PROVE  /\ DOMAIN told' = {t} \cup DOMAIN told /\ told'[t] = w
         /\ \A u \in DOMAIN told : told'[u] = told[u]
         /\ ~blind
<1>1. told' = With(told, t, w) /\ ~blind /\ (t \in DOMAIN told => told[t] = w)
  BY DEF Tell
<1>2. DOMAIN told' = {t} \cup DOMAIN told /\ told'[t] = w
      /\ \A u \in DOMAIN told : u # t => told'[u] = told[u]
  BY <1>1 DEF With, Override
<1> QED BY <1>1, <1>2

LEMMA CleanBefore ==
  ASSUME at # 0, RunStep \/ RunJump \/ RunBranch \/ RunReturn, Clean', MachineInv
  PROVE  Clean
<1>1. verdict' = verdict
  BY DEF RunStep, RunPure, RunDiv, RunAssert, RunCall, RunSetExc, RunGetExc, RunJump, RunBranch, RunReturn,
         Enter, solver
<1>2. blind => blind'
  <2>1. \A b : Enter(b) => (blind => blind')
    BY DEF Enter
  <2> QED BY <2>1 DEF RunStep, RunPure, RunDiv, RunAssert, RunCall, RunSetExc, RunGetExc, RunJump, RunBranch,
                      RunReturn, Tell
<1>3. outcome = "overflow" => outcome' = "overflow"
  <2>1. \A b : Enter(b) => (outcome = "overflow" => outcome' = "overflow")
    BY DEF Enter, First
  <2> QED BY <2>1 DEF RunStep, RunPure, RunDiv, RunAssert, RunCall, RunSetExc, RunGetExc, RunJump, RunBranch,
                      RunReturn, First
<1> QED BY <1>1, <1>2, <1>3 DEF Clean, Started

\* What the i-th instruction of b leaves behind.
StepEvidence(b, i) ==
    /\ DOMAIN told \subseteq DOMAIN told' /\ \A t \in DOMAIN told : told'[t] = told[t]
    /\ DOMAIN told' \subseteq DOMAIN told \cup {0} \cup ExcTerms(func)
    /\ Fulfilled(CodeOf(func, b)[i])'
    /\ \/ outcome' = outcome
       \/ outcome = "none" /\ outcome' \in {"div", "argument", "precondition"} /\ Fault(b, i)'

\* Values stay as they are.
StepGrown ==
    /\ at' = at /\ func' = func
    /\ DOMAIN val \subseteq DOMAIN val' /\ \A v \in DOMAIN val : val'[v] = val[v]

LEMMA StepGrows ==
  ASSUME func \in Funcs, MachineInv, FreshInv, StepForm, Clean', ~(at' = 0)
  PROVE  StepGrown /\ ~Executed(at, pos)
<1>1. at \in DOMAIN func.blocks /\ pos \in Nat \ {0} /\ pos \in DOMAIN CodeOf(func, at)
  BY AtInstruction DEF StepForm
<1>2. ~Executed(at, pos)
  BY <1>1 DEF Executed
<1>3. Defines(CodeOf(func, at)[pos]) => CodeOf(func, at)[pos].d \notin DOMAIN val
  BY <1>1, <1>2, MadeFresh
<1>4. \A v \in DOMAIN val : val'[v] = val[v]
  BY <1>3, StepValues
<1> QED BY <1>2, <1>4, StepValues DEF StepForm, StepGrown

\* A step on a run that some assignment stands for does not stop the machine.
LEMMA StepGoesOn ==
  ASSUME RunStep, Clean', at # 0, MachineInv
  PROVE  at' = at
<1>1. outcome' # "overflow" /\ ~blind'
  BY DEF Clean
<1> QED BY <1>1 DEF RunStep, RunPure, RunDiv, RunAssert, RunCall, RunSetExc, RunGetExc

LEMMA PureEvidence ==
  ASSUME func \in Funcs, MachineInv, FreshInv, Clean', at' = at, RunPure, NEW b, NEW i, b = at, i = pos
  PROVE  StepEvidence(b, i)
<1> PICK inst : inst = CodeOf(func, b)[i]
  OBVIOUS
<1>1. /\ at # 0 /\ pos \in DOMAIN CodeOf(func, at) /\ inst.op \in Pure
      /\ val' = With(val, inst.d, Computes(inst, val))
      /\ UNCHANGED <<func, solver, at, seen, exc, told, blind, outcome>>
  BY DEF RunPure, Run, Running, Code, CodeOf
<1>2. func' = func /\ (CodeOf(func, b)[i])' = inst
  BY <1>1 DEF CodeOf
<1>3. StepForm
  BY RunPureForm
<1>4. ~Executed(b, i) /\ \A v \in DOMAIN val : val'[v] = val[v]
  BY <1>3, StepGrows, BlocksAreSeq, <1>1 DEF StepGrown
<1>5. \A v \in Operands(inst) : v \in DOMAIN val
  BY <1>1, AtInstruction
<1>6. inst.op # "const" => inst.a \in Operands(inst) /\ inst.b \in Operands(inst)
  BY <1>1 DEF Operands, Pure, Negate
<1>7. Computes(inst, val') = Computes(inst, val)
  BY <1>4, <1>5, <1>6, ComputesSame
<1>8. val'[inst.d] = Computes(inst, val')
  BY <1>1, <1>7 DEF With, Override
<1>9. inst.op \notin {"div", "assert", "call", "setexc", "getexc"}
  BY <1>1 DEF Pure, Negate
<1>10. Fulfilled(CodeOf(func, b)[i])'
  BY <1>2, <1>8, <1>9 DEF Fulfilled
<1> QED BY <1>1, <1>10 DEF StepEvidence

LEMMA DivEvidence ==
  ASSUME func \in Funcs, MachineInv, FreshInv, Clean', at' = at, RunDiv, NEW b, NEW i, b = at, i = pos
  PROVE  StepEvidence(b, i)
<1> PICK inst : inst = CodeOf(func, b)[i]
  OBVIOUS
<1>1. /\ at # 0 /\ pos \in DOMAIN CodeOf(func, at) /\ inst.op = "div"
      /\ val' = With(val, inst.d, Computes(inst, val))
      /\ \/ val[inst.b] = 0 /\ outcome' = First("div")
         \/ outcome' = First("overflow") \/ outcome' = First("none")
      /\ UNCHANGED <<func, solver, seen, exc, told, blind>>
  BY DEF RunDiv, Run, Running, Code, CodeOf
<1>2. func' = func /\ (CodeOf(func, b)[i])' = inst
  BY <1>1 DEF CodeOf
<1>3. StepForm
  BY RunDivForm
<1>4. ~Executed(b, i) /\ \A v \in DOMAIN val : val'[v] = val[v]
  BY <1>3, StepGrows, BlocksAreSeq, <1>1 DEF StepGrown
<1>5. \A v \in Operands(inst) : v \in DOMAIN val
  BY <1>1, AtInstruction
<1>6. inst.a \in Operands(inst) /\ inst.b \in Operands(inst)
  BY <1>1 DEF Operands
<1>7. Computes(inst, val') = Computes(inst, val)
  BY <1>4, <1>5, <1>6, ComputesSame
<1>8. val'[inst.d] = Computes(inst, val')
  BY <1>1, <1>7 DEF With, Override
<1>10. Fulfilled(CodeOf(func, b)[i])'
  BY <1>1, <1>2, <1>8 DEF Fulfilled
<1>11. outcome' # "overflow"
  BY DEF Clean
<1>12. val'[inst.b] = val[inst.b]
  BY <1>4, <1>5, <1>6
<1>13. \/ outcome' = outcome
       \/ outcome = "none" /\ outcome' = "div" /\ val'[inst.b] = 0
  BY <1>1, <1>11, <1>12 DEF First
<1>14. outcome' = "div" /\ val'[inst.b] = 0 => Fault(b, i)'
  BY <1>1, <1>2 DEF Fault
<1> QED BY <1>1, <1>10, <1>13, <1>14 DEF StepEvidence

LEMMA AssertEvidence ==
  ASSUME func \in Funcs, MachineInv, FreshInv, Clean', at' = at, RunAssert, NEW b, NEW i, b = at, i = pos
  PROVE  StepEvidence(b, i)
<1> PICK inst : inst = CodeOf(func, b)[i]
  OBVIOUS
<1>1. /\ at # 0 /\ inst.op = "assert" /\ (val[inst.a] = 1 \/ at' = 0)
      /\ (val[inst.a] = 1 => outcome' = outcome)
      /\ UNCHANGED <<func, solver, val, seen, exc, told>>
  BY DEF RunAssert, Run, Running, Code, CodeOf
<1>2. func' = func /\ (CodeOf(func, b)[i])' = inst
  BY <1>1 DEF CodeOf
<1>3. inst.op \notin Pure \cup {"div"}
  BY <1>1 DEF Pure, Negate
<1>4. val'[inst.a] = 1 /\ outcome' = outcome
  BY <1>1
<1>5. Fulfilled(CodeOf(func, b)[i])'
  BY <1>1, <1>2, <1>3, <1>4 DEF Fulfilled
<1> QED BY <1>1, <1>4, <1>5 DEF StepEvidence

LEMMA CallEvidence ==
  ASSUME func \in Funcs, MachineInv, FreshInv, Clean', at' = at, RunCall, NEW b, NEW i, b = at, i = pos
  PROVE  StepEvidence(b, i)
<1> PICK inst : inst = CodeOf(func, b)[i]
  OBVIOUS
<1>1. /\ at # 0 /\ pos \in DOMAIN CodeOf(func, at) /\ inst.op = "call"
      /\ \/ outcome' = First("none")
         \/ outcome' = First("argument") /\ ~ArgumentsFit(inst, func.callee.refs)
         \/ outcome' = First("precondition") /\ ~ArgumentsFit(inst, func.callee.pre)
      /\ \/ (\E w \in CallResults(func) : val' = With(val, inst.d, w))
         \/ UNCHANGED val
      /\ UNCHANGED <<func, solver, at, seen, told, blind>>
  BY DEF RunCall, Run, Running, Code, CodeOf, ArgumentsFit
<1>2. func' = func /\ (CodeOf(func, b)[i])' = inst
  BY <1>1 DEF CodeOf
<1>3. StepForm
  BY RunCallForm
<1>4. ~Executed(b, i) /\ \A v \in DOMAIN val : val'[v] = val[v]
  BY <1>3, StepGrows, BlocksAreSeq, <1>1 DEF StepGrown
<1>5. \A v \in Operands(inst) : v \in DOMAIN val
  BY <1>1, AtInstruction
<1>6. \A j \in DOMAIN inst.args : inst.args[j] \in Operands(inst)
  BY <1>1 DEF Operands, Range
<1>7. Bound(inst.args, val') = Bound(inst.args, val)
  BY <1>4, <1>5, <1>6 DEF Bound
<1>8. inst.op \notin Pure \cup {"div"}
  BY <1>1 DEF Pure, Negate
<1>9. inst.d \notin DOMAIN val
  <2>1. Defines(inst)
    BY <1>1 DEF Defines
  <2>2. at \in DOMAIN func.blocks
    BY <1>1, AtInstruction
  <2> QED BY <1>1, <1>4, <2>1, <2>2, MadeFresh
<1>10. inst.d \in DOMAIN val' => val'[inst.d] \in CallResults(func)
  BY <1>1, <1>9 DEF With, Override
<1>11. Fulfilled(CodeOf(func, b)[i])'
  <2>1. CallResults(func)' = CallResults(func)
    BY <1>1 DEF CallResults
  <2> QED BY <1>1, <1>2, <1>8, <1>10, <2>1 DEF Fulfilled
<1>12. \A ps : ArgumentsFit(inst, ps) = Satisfied(ps, Bound(inst.args, val'))
  BY <1>7 DEF ArgumentsFit
<1>13. \/ outcome' = outcome
       \/ outcome = "none" /\ outcome' = "argument" /\ ~Satisfied(func.callee.refs, Bound(inst.args, val'))
       \/ outcome = "none" /\ outcome' = "precondition" /\ ~Satisfied(func.callee.pre, Bound(inst.args, val'))
  BY <1>1, <1>12 DEF First
<1>14. outcome' = "argument" /\ ~Satisfied(func.callee.refs, Bound(inst.args, val')) => Fault(b, i)'
  BY <1>1, <1>2 DEF Fault, ArgumentsFit
<1>15. outcome' = "precondition" /\ ~Satisfied(func.callee.pre, Bound(inst.args, val')) => Fault(b, i)'
  BY <1>1, <1>2 DEF Fault, ArgumentsFit
<1> QED BY <1>1, <1>11, <1>13, <1>14, <1>15 DEF StepEvidence

\* The term of a load is 0 or that of a store.
LEMMA ExcTermIs ==
  ASSUME NEW f \in Funcs, NEW k \in 1 .. Len(f.sites) + 1
  PROVE  ExcTerm(f, k) \in {0} \cup ExcTerms(f)
<1>1. CASE \E j \in 1 .. k - 1 : f.sites[j].inst.op = "setexc" /\ ExcTerm(f, k) = f.sites[j].inst.a
  <2>1. PICK j \in 1 .. k - 1 : f.sites[j].inst.op = "setexc" /\ ExcTerm(f, k) = f.sites[j].inst.a
    BY <1>1
  <2>2. j \in DOMAIN f.sites
    BY SitesAreSeq
  <2>3. f.sites[j] \in Range(f.sites)
    BY <2>2 DEF Range
  <2> QED BY <2>1, <2>3 DEF ExcTerms
<1> QED BY <1>1, ExcTermFacts

\* An instruction that makes a value has one site.
LEMMA OneSite ==
  ASSUME NEW f \in Funcs, NEW j \in DOMAIN f.sites, NEW k \in DOMAIN f.sites,
         Defines(f.sites[j].inst), Defines(f.sites[k].inst), f.sites[j].inst.d = f.sites[k].inst.d
  PROVE  j = k
BY FuncsAssumption DEF WellFormed, DefinedOnce

LEMMA SetExcEvidence ==
  ASSUME func \in Funcs, MachineInv, FreshInv, Clean', at' = at, RunSetExc, NEW b, NEW i, b = at, i = pos
  PROVE  StepEvidence(b, i)
<1> PICK inst : inst = CodeOf(func, b)[i]
  OBVIOUS
<1>1. /\ at # 0 /\ pos \in DOMAIN CodeOf(func, at) /\ inst.op = "setexc"
      /\ Tell(inst.a, val[inst.a])
      /\ UNCHANGED <<func, solver, at, val, seen, outcome>>
  BY DEF RunSetExc, Run, Running, Code, CodeOf
<1>2. func' = func /\ (CodeOf(func, b)[i])' = inst
  BY <1>1 DEF CodeOf
<1>3. ~blind'
  BY DEF Clean
<1>4. /\ DOMAIN told' = {inst.a} \cup DOMAIN told /\ told'[inst.a] = val[inst.a]
      /\ \A u \in DOMAIN told : told'[u] = told[u]
  BY <1>1, <1>3, ToldGrown
<1>5. inst.a \in ExcTerms(func)
  <2>1. inst \in Range(CodeOf(func, at)) /\ at \in DOMAIN func.blocks
    BY <1>1, AtInstruction DEF Range
  <2> QED BY <1>1, <2>1, SiteOf
<1>6. inst.op \notin Pure \cup {"div"}
  BY <1>1 DEF Pure, Negate
<1>7. Fulfilled(CodeOf(func, b)[i])'
  BY <1>1, <1>2, <1>4, <1>6 DEF Fulfilled
<1> QED BY <1>1, <1>4, <1>5, <1>7 DEF StepEvidence

LEMMA GetExcEvidence ==
  ASSUME func \in Funcs, MachineInv, FreshInv, Clean', at' = at, RunGetExc, NEW b, NEW i, b = at, i = pos
  PROVE  StepEvidence(b, i)
<1> PICK inst : inst = CodeOf(func, b)[i]
  OBVIOUS
<1>1. /\ at # 0 /\ pos \in DOMAIN CodeOf(func, at) /\ inst.op = "getexc"
      /\ val' = With(val, inst.d, exc) /\ Tell(ExcTerm(func, Here), exc)
      /\ UNCHANGED <<func, solver, at, seen, exc, outcome>>
  BY DEF RunGetExc, Run, Running, Code, CodeOf
<1>2. func' = func /\ (CodeOf(func, b)[i])' = inst
  BY <1>1 DEF CodeOf
<1>3. ~blind'
  BY DEF Clean
<1> PICK here : here = Here
  OBVIOUS
<1>4. here \in DOMAIN func.sites /\ func.sites[here].inst = inst
  <2>1. inst \in Range(CodeOf(func, at)) /\ at \in DOMAIN func.blocks
    BY <1>1, AtInstruction DEF Range
  <2>2. \E k \in DOMAIN func.sites : func.sites[k].b = at /\ func.sites[k].inst = inst
    BY <2>1, SiteOf
  <2> QED BY <2>2 DEF Here, Code, CodeOf
<1>5. here \in 1 .. Len(func.sites) + 1
  BY <1>4, SitesAreSeq
<1> PICK t : t = ExcTerm(func, here)
  OBVIOUS
<1>6. /\ DOMAIN told' = {t} \cup DOMAIN told /\ told'[t] = exc
      /\ \A u \in DOMAIN told : told'[u] = told[u]
  BY <1>1, <1>3, ToldGrown
<1>7. t \in {0} \cup ExcTerms(func)
  BY <1>5, ExcTermIs
<1>8. inst.op \notin Pure \cup {"div"} /\ Defines(inst)
  BY <1>1 DEF Pure, Negate, Defines
<1>9. val'[inst.d] = exc
  BY <1>1 DEF With, Override
<1>10. \A k \in DOMAIN func.sites : func.sites[k].inst = inst => k = here
  BY <1>4, <1>8, OneSite
<1>11. Fulfilled(CodeOf(func, b)[i])'
  <2>1. \A k \in DOMAIN func.sites : func.sites[k].inst = inst =>
           ExcTerm(func, k) \in DOMAIN told' /\ val'[inst.d] = told'[ExcTerm(func, k)]
    BY <1>6, <1>9, <1>10
  <2> QED BY <1>1, <1>2, <1>8, <2>1 DEF Fulfilled
<1> QED BY <1>1, <1>6, <1>7, <1>11 DEF StepEvidence

LEMMA RunStepEvidence ==
  ASSUME func \in Funcs, MachineInv, FreshInv, Clean', at' = at, RunStep, NEW b, NEW i, b = at, i = pos
  PROVE  StepEvidence(b, i)
BY PureEvidence, DivEvidence, AssertEvidence, CallEvidence, SetExcEvidence, GetExcEvidence DEF RunStep

LEMMA StepPath ==
  ASSUME func \in Funcs, MachineInv, Complete, PathInv, Grown, UNCHANGED <<at, seen>>
  PROVE  PathInv'
<1>1. func' = func /\ Left' = Left
  BY DEF Grown, Left
<1>2. \A p \in Left : Finished(p)
  BY DEF Left, Finished
<1>3. \A p \in Left : \A b : Takes(func, val', p, b) <=> Takes(func, val, p, b)
  BY <1>2, TakesGrown
<1>4. \A p \in Left : func.blocks[p].term.k # "return" => \E b \in seen : Takes(func, val', p, b)
  BY <1>3 DEF PathInv
<1>5. \A b \in seen \ {1} : \E p \in Left \cap func.preds[b] :
          Followed(func, p, b) /\ Takes(func, val', p, b)
  <2>1. ASSUME NEW b \in seen \ {1}
        PROVE  \E p \in Left \cap func.preds[b] : Followed(func, p, b) /\ Takes(func, val', p, b)
    <3>1. PICK p \in Left \cap func.preds[b] : Followed(func, p, b) /\ Takes(func, val, p, b)
      BY DEF PathInv
    <3> QED BY <1>3, <3>1
  <2> QED BY <2>1
<1>6. /\ at # 0 => \A c \in seen, T \in SUBSET DOMAIN func.blocks :
          c \in T /\ Closed(func, T) => at \in T
      /\ \A p \in Left : func.blocks[p].term.k = "return" => at = 0
  BY DEF PathInv
<1> QED BY <1>1, <1>4, <1>5, <1>6 DEF PathInv

LEMMA StepCallsKept ==
  ASSUME func \in Funcs, MachineInv, FreshInv, StepForm, Clean', ~(at' = 0)
  PROVE  CallsKept
<1> SUFFICES ASSUME NEW b, NEW i, Executed(b, i), CodeOf(func, b)[i].op = "call",
                    CodeOf(func, b)[i].d \in DOMAIN val', CodeOf(func, b)[i].d \notin DOMAIN val
             PROVE  FALSE
  BY DEF CallsKept
<1>1. at \in DOMAIN func.blocks /\ pos \in DOMAIN CodeOf(func, at)
  BY AtInstruction DEF StepForm
<1>2. b \in DOMAIN func.blocks /\ i \in DOMAIN CodeOf(func, b)
  BY DEF Executed, MachineInv, PlaceInv
<1>3. CodeOf(func, b)[i].d = CodeOf(func, at)[pos].d /\ Defines(CodeOf(func, at)[pos])
  BY StepValues
<1>4. Defines(CodeOf(func, b)[i])
  BY DEF Defines
<1>5. b = at /\ i = pos
  BY <1>1, <1>2, <1>3, <1>4, DefinesApart
<1> QED BY <1>5, StepGrows

LEMMA StepKeepsValues ==
  ASSUME func \in Funcs, MachineInv, Complete, ValueInv, Started, Grown, CallsKept, StepForm, at' = at,
         \A b, i : b = at /\ i = pos => Fulfilled(CodeOf(func, b)[i])'
  PROVE  ValueInv'
<1>1. func' = func /\ Left' = Left /\ seen' = seen
  BY DEF Grown, Left, StepForm
<1>2. \A p \in Left : Finished(p) /\ p \in seen
  BY DEF Left, Finished
<1>3. \A p \in Left : \A b : Takes(func, val', p, b) <=> Takes(func, val, p, b)
  BY <1>2, TakesGrown
<1>4. Satisfied(func.contract.refs \cup func.contract.pre, val')
  BY ValuesGrown
<1>5. \A inv \in func.contract.invs : inv.header \in seen => Holds(inv.pred, val', 0)
  BY ValuesGrown
<1>6. ASSUME NEW b, NEW i, Executed(b, i)' PROVE Fulfilled(CodeOf(func, b)[i])'
  <2>1. CASE Executed(b, i)
    BY <2>1, ValuesGrown
  <2>2. CASE b = at /\ i = pos
    BY <2>2
  <2> QED BY <1>6, <2>1, <2>2, StepExecutes
<1>7. ASSUME NEW b \in seen, NEW phi \in Range(PhisOf(func, b)), NEW p \in Entries(func, b) \cap Left,
             Takes(func, val', p, b)
      PROVE  val'[phi.d] = val'[phi.in[p]]
  <2>1. Takes(func, val, p, b) /\ Finished(p) /\ p \in seen
    BY <1>2, <1>3, <1>7
  <2>2. val[phi.d] = val[phi.in[p]]
    BY <2>1 DEF ValueInv
  <2> QED BY <2>1, <2>2, ValuesGrown
<1>8. (\A b, i : Executed(b, i) => Fulfilled(CodeOf(func, b)[i]))'
  BY <1>6
<1> QED BY <1>1, <1>4, <1>5, <1>7, <1>8 DEF ValueInv, PhisOf

LEMMA StepFresh ==
  ASSUME func \in Funcs, MachineInv, FreshInv, StepForm, at' = at,
         DOMAIN told' \subseteq DOMAIN told \cup {0} \cup ExcTerms(func)
  PROVE  FreshInv'
<1>1. func' = func /\ seen' = seen /\ pos' = pos + 1 /\ pos \in Nat \ {0} /\ at \in seen
      /\ at \in DOMAIN func.blocks /\ pos \in DOMAIN CodeOf(func, at)
  BY AtInstruction DEF StepForm
<1>2. \A b, i : Executed(b, i) => Executed(b, i)'
  <2>1. ASSUME NEW b, NEW i, Executed(b, i) PROVE b = at => i < pos + 1
    <3>1. b = at => i \in Nat
      BY <1>1, <2>1, BlockFacts DEF Executed
    <3> QED BY <1>1, <2>1, <3>1 DEF Executed
  <2> QED BY <1>1, <2>1 DEF Executed, CodeOf
<1>4. ASSUME NEW v \in DOMAIN val'
      PROVE  \/ v \in {0} \cup Params(func)
             \/ \E b \in seen : \E phi \in Range(PhisOf(func, b)) : phi.d = v
             \/ \E b \in seen : \E i \in DOMAIN CodeOf(func, b) :
                   Executed(b, i)' /\ Defines(CodeOf(func, b)[i]) /\ CodeOf(func, b)[i].d = v
  <2>1. CASE v \in DOMAIN val
    <3>1. \/ v \in {0} \cup Params(func)
          \/ \E b \in seen : \E phi \in Range(PhisOf(func, b)) : phi.d = v
          \/ \E b \in seen : \E i \in DOMAIN CodeOf(func, b) :
                Executed(b, i) /\ Defines(CodeOf(func, b)[i]) /\ CodeOf(func, b)[i].d = v
      BY <2>1 DEF FreshInv
    <3> QED BY <1>2, <3>1
  <2>2. CASE v = CodeOf(func, at)[pos].d /\ Defines(CodeOf(func, at)[pos])
    <3>1. \A b \in seen : \A i \in DOMAIN CodeOf(func, b) : b = at /\ i = pos => Executed(b, i)'
      BY <1>1 DEF Executed, CodeOf
    <3> QED BY <1>1, <2>2, <3>1
  <2> QED BY <2>1, <2>2, StepValues
<1>5. DOMAIN told' \subseteq {0} \cup ExcTerms(func)
  BY DEF FreshInv
<1>6. \A b, i : (CodeOf(func, b)[i])' = CodeOf(func, b)[i] /\ PhisOf(func, b)' = PhisOf(func, b)
  BY <1>1 DEF CodeOf, PhisOf
<1>7. \A v \in DOMAIN val' :
         \/ v \in {0} \cup Params(func')
         \/ \E b \in seen' : \E phi \in Range(PhisOf(func', b)) : phi.d = v
         \/ (\E b \in seen : \E i \in DOMAIN CodeOf(func, b) :
                   Executed(b, i) /\ Defines(CodeOf(func, b)[i]) /\ CodeOf(func, b)[i].d = v)'
  BY <1>1, <1>4
<1> QED BY <1>1, <1>5, <1>7 DEF FreshInv

\* A fault that was found is still there.
LEMMA FaultThere ==
  ASSUME func \in Funcs, MachineInv, Complete, Grown, NEW b, NEW i, Executed(b, i), Executed(b, i)', Fault(b, i),
         outcome' = outcome, seen \subseteq seen'
  PROVE  (\E c \in seen : \E j \in DOMAIN CodeOf(func, c) : Executed(c, j) /\ Fault(c, j))'
<1>1. Fault(b, i)'
  BY FaultGrown
<1>2. b \in seen' /\ i \in DOMAIN CodeOf(func, b)'
  BY DEF Executed, Grown, CodeOf
<1> QED BY <1>1, <1>2

LEMMA StepFault ==
  ASSUME func \in Funcs, MachineInv, Complete, FaultInv, Grown, StepForm, at' = at,
         \/ outcome' = outcome
         \/ outcome = "none" /\ outcome' \in {"div", "argument", "precondition"}
            /\ \A b, i : b = at /\ i = pos => Fault(b, i)'
  PROVE  FaultInv'
<1>1. func' = func /\ seen' = seen /\ pos' = pos + 1 /\ pos \in Nat \ {0} /\ at \in seen
      /\ at \in DOMAIN func.blocks /\ pos \in DOMAIN CodeOf(func, at) /\ at # 0
  BY AtInstruction DEF StepForm
<1>2. outcome \in {"none", "div", "argument", "precondition"}
  BY <1>1 DEF FaultInv
<1>3. outcome' \in {"none", "div", "argument", "precondition"}
  BY <1>2
<1>4. ASSUME outcome' \in {"div", "argument", "precondition"}
      PROVE  (\E c \in seen : \E j \in DOMAIN CodeOf(func, c) : Executed(c, j) /\ Fault(c, j))'
  <2>1. CASE outcome' = outcome
    <3>1. PICK b \in seen : \E i \in DOMAIN CodeOf(func, b) : Executed(b, i) /\ Fault(b, i)
      BY <1>4, <2>1 DEF FaultInv
    <3>2. PICK i \in DOMAIN CodeOf(func, b) : Executed(b, i) /\ Fault(b, i)
      BY <3>1
    <3>3. b = at => i < pos + 1
      <4>1. b = at => i \in Nat
        BY <1>1, <3>2, BlockFacts DEF Executed
      <4> QED BY <1>1, <3>2, <4>1 DEF Executed
    <3>4. Executed(b, i)'
      BY <1>1, <3>2, <3>3 DEF Executed, CodeOf
    <3> QED BY <1>1, <2>1, <3>2, <3>4, FaultThere
  <2>2. CASE \A b, i : b = at /\ i = pos => Fault(b, i)'
    <3>1. PICK b, i : b = at /\ i = pos
      OBVIOUS
    <3>2. Executed(b, i)' /\ Fault(b, i)'
      BY <1>1, <2>2, <3>1 DEF Executed, CodeOf
    <3>3. b \in seen' /\ i \in DOMAIN CodeOf(func, b)'
      BY <1>1, <3>1 DEF CodeOf
    <3> QED BY <3>2, <3>3
  <2> QED BY <1>4, <2>1, <2>2
<1> QED BY <1>3, <1>4 DEF FaultInv

LEMMA StepEvidenceInv ==
  ASSUME func \in Funcs, MachineInv, EvidenceInv, RunStep
  PROVE  EvidenceInv'
<1> SUFFICES ASSUME Clean' PROVE (Complete /\ PathInv /\ ValueInv /\ FreshInv /\ FaultInv)'
  BY DEF EvidenceInv
<1>1. StepForm /\ at # 0
  BY RunStepForm DEF StepForm
<1>2. Clean /\ Started
  BY <1>1, CleanBefore DEF Started
<1>3. Complete /\ PathInv /\ ValueInv /\ FreshInv /\ FaultInv
  BY <1>2 DEF EvidenceInv
<1>4. at' = at /\ seen' = seen /\ func' = func
  BY <1>1, StepGoesOn DEF StepForm
<1>5. StepGrown
  BY <1>1, <1>3, <1>4, StepGrows
<1>7. \A b, i : b = at /\ i = pos => StepEvidence(b, i)
  BY <1>3, <1>4, RunStepEvidence
<1>6. /\ DOMAIN told \subseteq DOMAIN told' /\ \A t \in DOMAIN told : told'[t] = told[t]
      /\ DOMAIN told' \subseteq DOMAIN told \cup {0} \cup ExcTerms(func)
  <2>1. PICK b, i : b = at /\ i = pos
    OBVIOUS
  <2>2. StepEvidence(b, i)
    BY <1>7, <2>1
  <2> QED BY <2>2 DEF StepEvidence
<1>8. Grown
  BY <1>5, <1>6 DEF Grown, StepGrown
<1>9. CallsKept
  BY <1>1, <1>3, <1>4, StepCallsKept
<1>11. \A b, i : b = at /\ i = pos => Fulfilled(CodeOf(func, b)[i])'
  BY <1>7 DEF StepEvidence
<1>12. \/ outcome' = outcome
       \/ outcome = "none" /\ outcome' \in {"div", "argument", "precondition"}
          /\ \A b, i : b = at /\ i = pos => Fault(b, i)'
  BY <1>7 DEF StepEvidence
<1>13. Complete'
  BY <1>1, <1>4, StepComplete
<1>14. PathInv'
  BY <1>3, <1>4, <1>8, StepPath
<1>15. ValueInv'
  BY <1>1, <1>2, <1>3, <1>4, <1>8, <1>9, <1>11, StepKeepsValues
<1>16. FreshInv'
  BY <1>1, <1>3, <1>4, <1>6, StepFresh
<1>17. FaultInv'
  BY <1>1, <1>3, <1>4, <1>8, <1>12, StepFault
<1> QED BY <1>13, <1>14, <1>15, <1>16, <1>17

-------------------------------------------------------------------------------
(***************************************************************************)
(* A block that is entered adds to the evidence.                           *)
(***************************************************************************)
\* control that goes on in b, where it has not been
GoesOn(b) ==
    /\ at' = b /\ b \notin seen /\ Followed(func, at, b) /\ outcome' = outcome
    /\ val' = Override(val, Came(b)) /\ ~Broken(b)
\* control that is back at b, and has been there
ComesBack(b) ==
    /\ at' = 0 /\ b \in seen /\ at \in Back(func, b) /\ val' = val
    /\ outcome' = outcome \/ (outcome = "none" /\ outcome' = "preserved" /\ Broken(b))

LEMMA CameBack ==
  ASSUME func \in Funcs, MachineInv, NEW b, Leaves(b), at \in Back(func, b), IsHeader(func, b)
  PROVE  b \in seen
<1>1. at \in DOMAIN func.blocks /\ at \in seen /\ b \in DOMAIN func.blocks
  BY LeaveFacts
<1>2. Dominates(func, b, at)
  BY <1>1, FuncsAssumption DEF WellFormed, GraphForm
<1>3. CASE \E S \in SUBSET DOMAIN func.blocks : Cuts(func, b, S) /\ at \notin S
  BY <1>1, <1>3 DEF MachineInv, DomInv
<1> QED BY <1>1, <1>2, <1>3 DEF Dominates

LEMMA NotBefore ==
  ASSUME func \in Funcs, MachineInv, PathInv, Acyclic(func), NEW b, Leaves(b), Followed(func, at, b)
  PROVE  b \notin seen
<1>1. b \in DOMAIN func.blocks /\ at \in func.preds[b] /\ at # 0
  BY LeaveFacts
<1>2. PICK T \in SUBSET DOMAIN func.blocks : b \in T /\ at \notin T /\ Closed(func, T)
  BY <1>1 DEF Acyclic
<1> QED BY <1>1, <1>2 DEF PathInv

LEMMA EnterWays ==
  ASSUME func \in Funcs, Regular(func), MachineInv, PathInv, FaultInv, NEW b, Leaves(b), Clean'
  PROVE  GoesOn(b) \/ ComesBack(b)
<1>1. /\ b # 0 /\ at # 0
      /\ outcome' = First(IF ~Broken(b) THEN "none" ELSE IF at \in Back(func, b) THEN "preserved" ELSE "invariant")
      /\ ~(Broken(b) /\ at \notin Back(func, b)) /\ ~(Unseen(b) /\ outcome' = "none")
      /\ at' = IF Broken(b) \/ (Unseen(b) /\ outcome' # "none") THEN 0 ELSE b
      /\ val' = IF at' = 0 THEN val ELSE Override(val, Came(b))
  <2>1. b # 0 /\ at # 0
    BY LeaveFacts, BlocksAreSeq
  <2>2. ~blind' /\ Enter(b)
    BY DEF Clean, Leaves
  <2> QED BY <2>1, <2>2, EnterIs
<1>2. Broken(b) => Unseen(b)
  <2>1. \A inv \in func.contract.invs : IsHeader(func, inv.header)
    BY DEF Regular
  <2> QED BY <1>1, <2>1 DEF Broken, Unseen
<1>3. CASE Unseen(b)
  <2>1. at \in Back(func, b) /\ b \in seen
    BY <1>3, CameBack DEF Unseen
  <2>2. at' = 0 /\ val' = val
    BY <1>1, <1>3
  <2>3. outcome' = outcome \/ (outcome = "none" /\ outcome' = "preserved" /\ Broken(b))
    BY <1>1, <1>3, <2>1 DEF First
  <2> QED BY <2>1, <2>2, <2>3 DEF ComesBack
<1>4. CASE ~Unseen(b)
  <2>1. ~Broken(b) /\ at' = b /\ val' = Override(val, Came(b)) /\ outcome' = outcome
    BY <1>1, <1>2, <1>4 DEF First
  <2>2. Followed(func, at, b)
    BY <1>4 DEF Followed, Unseen
  <2>3. b \notin seen
    BY <2>2, NotBefore DEF Regular
  <2> QED BY <2>1, <2>2, <2>3 DEF GoesOn
<1> QED BY <1>3, <1>4

\* What was executed stays so.
LEMMA StillExecuted ==
  ASSUME func \in Funcs, MachineInv, NEW b, Leaves(b), GoesOn(b) \/ ComesBack(b), NEW c, NEW i, Executed(c, i)
  PROVE  Executed(c, i)'
<1>1. seen' = seen \cup {b} /\ func' = func
  BY LeaveFacts DEF solver
<1>2. c \in seen /\ i \in DOMAIN CodeOf(func, c) /\ c # 0
  BY BlocksAreSeq DEF Executed, MachineInv, PlaceInv
<1>3. c # at'
  BY <1>2 DEF GoesOn, ComesBack
<1> QED BY <1>1, <1>2, <1>3 DEF Executed, CodeOf

\* The phis of a block where control has not been are fresh.
LEMMA PhisFresh ==
  ASSUME func \in Funcs, MachineInv, FreshInv, NEW b \in DOMAIN func.blocks, b \notin seen,
         NEW phi \in Range(PhisOf(func, b))
  PROVE  phi.d \notin DOMAIN val
<1>1. Defines(phi) /\ phi.d \notin {0} \cup Params(func)
  BY SiteOf, PhisAndCode
<1>2. ASSUME NEW c \in seen, NEW other \in Range(PhisOf(func, c)) PROVE other.d # phi.d
  BY PhisAndCode DEF MachineInv, PlaceInv
<1>3. ASSUME NEW c \in seen, NEW j \in DOMAIN CodeOf(func, c), Defines(CodeOf(func, c)[j])
      PROVE  CodeOf(func, c)[j].d # phi.d
  BY <1>3, PhisAndCode DEF MachineInv, PlaceInv
<1> QED BY <1>1, <1>2, <1>3 DEF FreshInv

LEMMA EnterGrows ==
  ASSUME func \in Funcs, MachineInv, FreshInv, NEW b, Leaves(b), GoesOn(b) \/ ComesBack(b)
  PROVE  /\ Grown
         /\ \A v \in DOMAIN val' : v \in DOMAIN val \/ (GoesOn(b) /\ v \in DOMAIN Came(b))
         /\ GoesOn(b) => \A d \in DOMAIN Came(b) : d \in DOMAIN val' /\ val'[d] = Came(b)[d]
<1>1. b \in DOMAIN func.blocks /\ func' = func /\ told' = told
  BY LeaveFacts DEF solver
<1>2. CASE ComesBack(b)
  <2>1. val' = val /\ ~GoesOn(b)
    BY <1>2 DEF ComesBack, GoesOn
  <2> QED BY <1>1, <2>1 DEF Grown
<1>3. CASE GoesOn(b)
  <2>0. b \notin seen
    BY <1>3 DEF GoesOn
  <2>1. ASSUME NEW d \in DOMAIN Came(b) PROVE d \notin DOMAIN val
    <3>1. DOMAIN Came(b) = {phi.d : phi \in Range(PhisOf(func, b))}
      BY CameFacts
    <3>2. PICK phi \in Range(PhisOf(func, b)) : phi.d = d
      BY <3>1
    <3> QED BY <1>1, <2>0, <3>2, PhisFresh
  <2>2. val' = Override(val, Came(b))
    BY <1>3 DEF GoesOn
  <2>3. /\ DOMAIN val' = DOMAIN Came(b) \cup DOMAIN val
        /\ \A d \in DOMAIN Came(b) : val'[d] = Came(b)[d]
        /\ \A v \in DOMAIN val : v \notin DOMAIN Came(b) => val'[v] = val[v]
    BY <2>2 DEF Override
  <2> QED BY <1>1, <1>3, <2>1, <2>3 DEF Grown
<1> QED BY <1>2, <1>3

\* What leaves where, before and after.
LEMMA EnterTakes ==
  ASSUME func \in Funcs, MachineInv, Complete, Grown, NEW b, Leaves(b), GoesOn(b) \/ ComesBack(b)
  PROVE  /\ Left' = seen /\ Left = seen \ {at} /\ at \in seen
         /\ \A p \in seen : Finished(p)
         /\ \A p \in seen : \A c : Takes(func, val', p, c) <=> Takes(func, val, p, c)
         /\ Takes(func, val, at, b)
<1>1. at \in seen /\ seen' = seen \cup {b} /\ 0 \notin seen /\ pos > Len(CodeOf(func, at))
  BY LeaveFacts, BlocksAreSeq DEF MachineInv, PlaceInv
<1>2. Left' = seen
  BY <1>1 DEF Left, GoesOn, ComesBack
<1>3. \A p \in seen : Finished(p)
  BY <1>1 DEF Finished
<1>4. \A p \in seen : \A c : Takes(func, val', p, c) <=> Takes(func, val, p, c)
  BY <1>3, TakesGrown
<1> QED BY <1>1, <1>2, <1>3, <1>4 DEF Left, Leaves

LEMMA EnterPath ==
  ASSUME func \in Funcs, MachineInv, Complete, PathInv, Grown, NEW b, Leaves(b), GoesOn(b) \/ ComesBack(b)
  PROVE  PathInv'
<1>1. /\ Left' = seen /\ Left = seen \ {at} /\ at \in seen /\ seen' = seen \cup {b} /\ func' = func
      /\ at \in func.preds[b] /\ b \in To(func, at) /\ at # 0
  BY EnterTakes, LeaveFacts DEF Grown
<1>2. \A p \in seen : \A c : Takes(func, val', p, c) <=> Takes(func, val, p, c)
  BY EnterTakes
<1>3. Takes(func, val, at, b) /\ func.blocks[at].term.k # "return"
  BY DEF Leaves
<1>4. ASSUME NEW p \in seen, func.blocks[p].term.k # "return" PROVE \E c \in seen' : Takes(func, val', p, c)
  <2>1. CASE p = at
    BY <1>1, <1>2, <1>3, <2>1
  <2>2. CASE p # at
    <3>1. PICK c \in seen : Takes(func, val, p, c)
      BY <1>1, <1>4, <2>2 DEF PathInv
    <3> QED BY <1>1, <1>2, <3>1
  <2> QED BY <2>1, <2>2
<1>5. ASSUME NEW c \in seen' \ {1}
      PROVE  \E p \in seen \cap func.preds[c] : Followed(func, p, c) /\ Takes(func, val', p, c)
  <2>1. CASE c \in seen
    <3>1. PICK p \in Left \cap func.preds[c] : Followed(func, p, c) /\ Takes(func, val, p, c)
      BY <2>1 DEF PathInv
    <3> QED BY <1>1, <1>2, <3>1
  <2>2. CASE c \notin seen
    <3>1. c = b /\ Followed(func, at, b)
      BY <1>1, <2>2 DEF GoesOn, ComesBack
    <3> QED BY <1>1, <1>2, <1>3, <3>1
  <2> QED BY <2>1, <2>2
<1>6. ASSUME at' # 0, NEW c \in seen', NEW T \in SUBSET DOMAIN func.blocks, c \in T, Closed(func, T)
      PROVE  at' \in T
  <2>1. at' = b /\ Followed(func, at, b)
    BY <1>6 DEF GoesOn, ComesBack
  <2>2. CASE c \in seen
    <3>1. at \in T
      BY <1>1, <1>6, <2>2 DEF PathInv
    <3> QED BY <1>1, <1>6, <2>1, <3>1 DEF Closed
  <2>3. CASE c = b
    BY <1>6, <2>1, <2>3
  <2> QED BY <1>1, <2>2, <2>3
<1>7. ASSUME NEW p \in seen PROVE func.blocks[p].term.k # "return"
  BY <1>1, <1>3 DEF PathInv
<1> QED BY <1>1, <1>4, <1>5, <1>6, <1>7 DEF PathInv

LEMMA EnterCallsKept ==
  ASSUME func \in Funcs, MachineInv, FreshInv, NEW b, Leaves(b), GoesOn(b) \/ ComesBack(b)
  PROVE  CallsKept
<1> SUFFICES ASSUME NEW c, NEW i, Executed(c, i), CodeOf(func, c)[i].op = "call",
                    CodeOf(func, c)[i].d \in DOMAIN val', CodeOf(func, c)[i].d \notin DOMAIN val
             PROVE  FALSE
  BY DEF CallsKept
<1>1. CodeOf(func, c)[i].d \in DOMAIN Came(b)
  BY EnterGrows
<1>2. DOMAIN Came(b) = {phi.d : phi \in Range(PhisOf(func, b))}
  BY CameFacts
<1>3. PICK phi \in Range(PhisOf(func, b)) : phi.d = CodeOf(func, c)[i].d
  BY <1>1, <1>2
<1>4. c \in DOMAIN func.blocks /\ i \in DOMAIN CodeOf(func, c) /\ b \in DOMAIN func.blocks
  BY LeaveFacts DEF Executed, MachineInv, PlaceInv
<1>5. Defines(CodeOf(func, c)[i])
  BY DEF Defines
<1> QED BY <1>3, <1>4, <1>5, PhisAndCode

LEMMA EnterFresh ==
  ASSUME func \in Funcs, MachineInv, FreshInv, NEW b, Leaves(b), GoesOn(b) \/ ComesBack(b)
  PROVE  FreshInv'
<1>1. func' = func /\ seen' = seen \cup {b} /\ told' = told
  BY LeaveFacts DEF solver
<1>2. \A c, i : Executed(c, i) => Executed(c, i)'
  BY StillExecuted
<1>3. DOMAIN Came(b) = {phi.d : phi \in Range(PhisOf(func, b))}
  BY CameFacts
<1>4. ASSUME NEW v \in DOMAIN val'
      PROVE  \/ v \in {0} \cup Params(func)
             \/ \E c \in seen' : \E phi \in Range(PhisOf(func, c)) : phi.d = v
             \/ \E c \in seen : \E i \in DOMAIN CodeOf(func, c) :
                   Executed(c, i)' /\ Defines(CodeOf(func, c)[i]) /\ CodeOf(func, c)[i].d = v
  <2>1. CASE v \in DOMAIN val
    <3>1. \/ v \in {0} \cup Params(func)
          \/ \E c \in seen : \E phi \in Range(PhisOf(func, c)) : phi.d = v
          \/ \E c \in seen : \E i \in DOMAIN CodeOf(func, c) :
                Executed(c, i) /\ Defines(CodeOf(func, c)[i]) /\ CodeOf(func, c)[i].d = v
      BY <2>1 DEF FreshInv
    <3> QED BY <1>1, <1>2, <3>1
  <2>2. CASE v \in DOMAIN Came(b)
    BY <1>1, <1>3, <2>2
  <2> QED BY <2>1, <2>2, EnterGrows
<1>5. \A v \in DOMAIN val' :
         \/ v \in {0} \cup Params(func')
         \/ \E c \in seen' : \E phi \in Range(PhisOf(func', c)) : phi.d = v
         \/ (\E c \in seen : \E i \in DOMAIN CodeOf(func, c) :
                   Executed(c, i) /\ Defines(CodeOf(func, c)[i]) /\ CodeOf(func, c)[i].d = v)'
  <2>1. \A c, i : (CodeOf(func, c)[i])' = CodeOf(func, c)[i]
    BY <1>1 DEF CodeOf
  <2> QED BY <1>1, <1>4, <2>1
<1>6. DOMAIN told' \subseteq {0} \cup ExcTerms(func')
  BY <1>1 DEF FreshInv
<1> QED BY <1>5, <1>6 DEF FreshInv

LEMMA EnterPhis ==
  ASSUME func \in Funcs, MachineInv, Complete, PathInv, ValueInv, FreshInv, Grown, CallsKept, Started,
         NEW b, Leaves(b), GoesOn(b) \/ ComesBack(b),
         NEW c \in seen', NEW phi \in Range(PhisOf(func, c)), NEW p \in Entries(func, c) \cap seen,
         Takes(func, val', p, c)
  PROVE  val'[phi.d] = val'[phi.in[p]]
<1>1. /\ Left = seen \ {at} /\ at \in seen /\ seen' = seen \cup {b} /\ Takes(func, val, at, b)
      /\ Finished(p) /\ Takes(func, val, p, c)
  BY EnterTakes, LeaveFacts
<1>2. CASE p # at /\ c \in seen
  <2>1. p \in Left
    BY <1>1, <1>2
  <2>2. val[phi.d] = val[phi.in[p]]
    BY <1>1, <1>2, <2>1 DEF ValueInv
  <2> QED BY <1>1, <1>2, <2>2, ValuesGrown
<1>3. CASE p # at /\ c \notin seen
  <2>1. p \in Left /\ c = b
    BY <1>1, <1>3
  <2>2. func.blocks[p].term.k # "return"
    BY <1>1 DEF Takes
  <2>3. PICK other \in seen : Takes(func, val, p, other)
    BY <2>1, <2>2 DEF PathInv
  <2>4. other = c
    BY <1>1, <2>3, TakesOne
  <2> QED BY <1>3, <2>3, <2>4
<1>4. CASE p = at
  <2>1. c = b
    BY <1>1, <1>4, TakesOne
  <2>2. GoesOn(b)
    BY <1>4, <2>1 DEF ComesBack, Entries
  <2>3. Came(b)[phi.d] = val[phi.in[at]] /\ phi.in[at] \in DOMAIN val /\ phi.d \in DOMAIN Came(b)
    BY <2>1, CameFacts
  <2>4. val'[phi.d] = Came(b)[phi.d]
    BY <2>2, <2>3, EnterGrows
  <2>5. val'[phi.in[at]] = val[phi.in[at]]
    BY <2>3 DEF Grown
  <2> QED BY <1>4, <2>3, <2>4, <2>5
<1> QED BY <1>2, <1>3, <1>4

LEMMA EnterValues ==
  ASSUME func \in Funcs, MachineInv, Complete, PathInv, ValueInv, FreshInv, Grown, CallsKept, Started,
         NEW b, Leaves(b), GoesOn(b) \/ ComesBack(b)
  PROVE  ValueInv'
<1>1. func' = func /\ Left' = seen /\ seen' = seen \cup {b}
  BY EnterTakes, LeaveFacts DEF Grown
<1>2. Satisfied(func.contract.refs \cup func.contract.pre, val')
  BY ValuesGrown
<1>3. ASSUME NEW c, NEW i, Executed(c, i)' PROVE Fulfilled(CodeOf(func, c)[i])'
  <2>1. at' \in {0, b} /\ (at' = 0 => b \in seen)
    BY LeaveFacts, BlocksAreSeq DEF GoesOn, ComesBack
  <2>2. Executed(c, i)
    BY <1>3, <2>1, LeaveExecutes
  <2> QED BY <2>2, ValuesGrown
<1>4. (\A c, i : Executed(c, i) => Fulfilled(CodeOf(func, c)[i]))'
  BY <1>3
<1>5. \A c \in seen' : \A phi \in Range(PhisOf(func, c)) : \A p \in Entries(func, c) \cap seen :
         Takes(func, val', p, c) => val'[phi.d] = val'[phi.in[p]]
  BY EnterPhis
<1>6. ASSUME NEW inv \in func.contract.invs, inv.header \in seen' PROVE Holds(inv.pred, val', 0)
  <2>1. CASE inv.header \in seen
    BY <2>1, ValuesGrown
  <2>2. CASE inv.header \notin seen
    <3>1. inv.header = b /\ GoesOn(b)
      BY <1>1, <1>6, <2>2 DEF ComesBack
    <3> QED BY <3>1 DEF GoesOn, Broken
  <2> QED BY <2>1, <2>2
<1> QED BY <1>1, <1>2, <1>4, <1>5, <1>6 DEF ValueInv, PhisOf

\* A loop invariant that is broken on the way back is broken by what its check
\* puts in.
LEMMA NextVisitMeans ==
  ASSUME func \in Funcs, Regular(func), MachineInv, Complete, Started, NEW b, Leaves(b), at \in Back(func, b),
         b \in seen, NEW inv \in func.contract.invs, inv.header = b
  PROVE  Holds(NextVisit(func, inv, at), val, 0) = Holds(inv.pred, Override(val, Came(b)), 0)
<1> PICK phis : phis = PhisOf(func, b)
  OBVIOUS
<1> PICK p : p = at
  OBVIOUS
<1> PICK puts : puts = PhiPuts(func, b, p)
  OBVIOUS
<1> PICK new : new = Override(val, Came(b))
  OBVIOUS
<1> PICK n \in Nat : n = Len(phis) /\ DOMAIN phis = 1 .. n
  BY LeaveFacts, BlockFacts
<1>1. puts = [i \in 1 .. n |-> <<phis[i].d, phis[i].in[p]>>]
  BY DEF PhiPuts, PhisOf
<1>2. Len(puts) = n /\ DOMAIN puts = 1 .. n
  <2>1. puts \in Seq(Range(puts))
    BY <1>1 DEF Range
  <2> QED BY <1>1, <2>1
<1>3. Apart(puts)
  BY DEF Regular
<1>4. inv.pred.l \in Term /\ inv.pred.r \in Term /\ Mentions(inv.pred) \subseteq DOMAIN val
  BY MentionedThere, PredicateTerms
<1>5. /\ DOMAIN Came(b) = {phi.d : phi \in Range(phis)}
      /\ \A phi \in Range(phis) : Came(b)[phi.d] = val[phi.in[p]]
  BY CameFacts
<1>6. \A i \in 1 .. n : phis[i] \in Range(phis) /\ puts[i][1] = phis[i].d /\ puts[i][2] = phis[i].in[p]
  BY <1>1 DEF Range
<1>7. ASSUME NEW i \in DOMAIN puts PROVE new[puts[i][1]] = val[puts[i][2]]
  <2>1. PICK phi \in Range(phis) : puts[i][1] = phi.d /\ puts[i][2] = phi.in[p]
    BY <1>2, <1>6
  <2>2. phi.d \in DOMAIN Came(b) /\ Came(b)[phi.d] = val[phi.in[p]]
    BY <1>5
  <2>3. new[phi.d] = Came(b)[phi.d]
    BY <2>2 DEF Override
  <2> QED BY <2>1, <2>2, <2>3
<1>8. ASSUME NEW v \in Mentions(inv.pred), \A i \in DOMAIN puts : puts[i][1] # v
      PROVE  new[v] = val[v]
  <2>1. v \notin DOMAIN Came(b)
    <3>1. ASSUME NEW phi \in Range(phis) PROVE phi.d # v
      <4>1. PICK i \in 1 .. n : phi = phis[i]
        BY DEF Range
      <4> QED BY <1>2, <1>6, <1>8, <4>1
    <3> QED BY <1>5, <3>1
  <2>2. v \in DOMAIN val
    BY <1>4
  <2> QED BY <2>1, <2>2 DEF Override
<1>9. Holds(Substitute(inv.pred, puts), val, 0) = Holds(inv.pred, new, 0)
  <2>1. Len(puts) \in Nat /\ DOMAIN puts = 1 .. Len(puts)
    BY <1>2
  <2>2. \A i \in DOMAIN puts : new[puts[i][1]] = val[puts[i][2]]
    BY <1>7
  <2>3. \A v \in Mentions(inv.pred) : (\A i \in DOMAIN puts : puts[i][1] # v) => new[v] = val[v]
    BY <1>8
  <2>4. Replaces(inv.pred, puts, val, new)
    BY <1>3, <1>4, <2>1, <2>2, <2>3 DEF Replaces
  <2> QED BY <2>4, SubstituteReplaces
<1> QED BY <1>9 DEF NextVisit

LEMMA EnterFault ==
  ASSUME func \in Funcs, Regular(func), MachineInv, Complete, Started, FaultInv, Grown,
         NEW b, Leaves(b), GoesOn(b) \/ ComesBack(b)
  PROVE  FaultInv'
<1>1. /\ func' = func /\ Left' = seen /\ seen' = seen \cup {b} /\ at \in seen /\ at # 0
      /\ Takes(func, val', at, b)
  BY EnterTakes, LeaveFacts DEF Grown
<1>2. outcome \in {"none", "div", "argument", "precondition"}
  BY <1>1 DEF FaultInv
<1>3. outcome' = outcome \/ outcome' = "preserved"
  BY DEF GoesOn, ComesBack
<1>4. ASSUME outcome' \in {"div", "argument", "precondition"}
      PROVE  (\E c \in seen : \E j \in DOMAIN CodeOf(func, c) : Executed(c, j) /\ Fault(c, j))'
  <2>1. outcome' = outcome
    BY <1>3, <1>4
  <2>2. PICK c \in seen : \E i \in DOMAIN CodeOf(func, c) : Executed(c, i) /\ Fault(c, i)
    BY <1>4, <2>1 DEF FaultInv
  <2>3. PICK i \in DOMAIN CodeOf(func, c) : Executed(c, i) /\ Fault(c, i)
    BY <2>2
  <2>4. Executed(c, i)'
    BY <2>3, StillExecuted
  <2> QED BY <1>1, <2>1, <2>3, <2>4, FaultThere
<1>5. ASSUME outcome' = "preserved"
      PROVE  \E inv \in func.contract.invs : \E p \in seen \cap Back(func, inv.header) :
                Takes(func, val', p, inv.header) /\ ~Holds(NextVisit(func, inv, p), val', 0)
  <2>1. ComesBack(b) /\ Broken(b)
    BY <1>2, <1>5 DEF GoesOn, ComesBack
  <2>2. val' = val /\ b \in seen /\ at \in Back(func, b)
    BY <2>1 DEF ComesBack
  <2>3. PICK inv \in func.contract.invs : inv.header = b /\ ~Holds(inv.pred, Override(val, Came(b)), 0)
    BY <2>1 DEF Broken
  <2>4. ~Holds(NextVisit(func, inv, at), val, 0)
    BY <2>2, <2>3, NextVisitMeans
  <2> QED BY <1>1, <2>2, <2>3, <2>4
<1>6. at' # 0 => outcome' \in {"none", "div", "argument", "precondition"}
  BY <1>1, <1>2, LeaveFacts, BlocksAreSeq DEF GoesOn, ComesBack
<1> QED BY <1>1, <1>2, <1>3, <1>4, <1>5, <1>6 DEF FaultInv

LEMMA EnterEvidence ==
  ASSUME func \in Funcs, Regular(func), MachineInv, EvidenceInv, RunJump \/ RunBranch
  PROVE  EvidenceInv'
<1> SUFFICES ASSUME Clean' PROVE (Complete /\ PathInv /\ ValueInv /\ FreshInv /\ FaultInv)'
  BY DEF EvidenceInv
<1>1. PICK b : Leaves(b)
  BY ControlLeaves
<1>2. at # 0 /\ at' \in {0, b}
  BY <1>1, EnterIs DEF Leaves
<1>3. Clean /\ Started
  BY <1>2, CleanBefore DEF Started
<1>4. Complete /\ PathInv /\ ValueInv /\ FreshInv /\ FaultInv
  BY <1>3 DEF EvidenceInv
<1>5. GoesOn(b) \/ ComesBack(b)
  BY <1>1, <1>4, EnterWays
<1>6. Grown
  BY <1>1, <1>4, <1>5, EnterGrows
<1>7. CallsKept
  BY <1>1, <1>4, <1>5, EnterCallsKept
<1>8. Complete'
  <2>1. at' = 0 => b \in seen
    BY <1>1, <1>5, LeaveFacts, BlocksAreSeq DEF GoesOn, ComesBack
  <2>2. at' # 0 => DOMAIN Came(b) \subseteq DOMAIN val'
    BY <1>1, <1>4, <1>5, EnterGrows DEF ComesBack
  <2> QED BY <1>1, <1>2, <1>6, <2>1, <2>2, EnterComplete DEF Grown
<1>9. PathInv'
  BY <1>1, <1>4, <1>5, <1>6, EnterPath
<1>10. ValueInv'
  BY <1>1, <1>3, <1>4, <1>5, <1>6, <1>7, EnterValues
<1>11. FreshInv'
  BY <1>1, <1>4, <1>5, EnterFresh
<1>12. FaultInv'
  BY <1>1, <1>3, <1>4, <1>5, <1>6, EnterFault
<1> QED BY <1>8, <1>9, <1>10, <1>11, <1>12

LEMMA ReturnExecutes ==
  ASSUME func \in Funcs, MachineInv, RunReturn, NEW c, NEW i
  PROVE  Executed(c, i)' <=> Executed(c, i)
<1>1. at # 0 /\ at' = 0 /\ seen' = seen /\ func' = func /\ pos > Len(CodeOf(func, at))
  BY DEF RunReturn, AtEnd, Running, Code, CodeOf
<1>2. at \in DOMAIN func.blocks /\ 0 \notin seen /\ pos \in Nat
  BY <1>1, BlocksAreSeq DEF MachineInv, PlaceInv
<1>3. \A j \in DOMAIN CodeOf(func, at) : j < pos
  BY <1>1, <1>2, BlockFacts
<1>4. Executed(c, i)' <=> c \in seen /\ i \in DOMAIN CodeOf(func, c) /\ (c = 0 => i < pos')
  BY <1>1 DEF Executed, CodeOf
<1> QED BY <1>2, <1>3, <1>4 DEF Executed

LEMMA ReturnFault ==
  ASSUME func \in Funcs, MachineInv, Complete, FaultInv, Grown, RunReturn, ~blind'
  PROVE  FaultInv'
<1> PICK result : result = val[func.blocks[at].term.v]
  OBVIOUS
<1>1. /\ at # 0 /\ at' = 0 /\ val' = val /\ seen' = seen /\ func' = func
      /\ func.blocks[at].term.k = "return" /\ at \in seen /\ Tell(LastExcTerm(func), exc)
      /\ \/ outcome' = First("raised") \/ outcome' = First("kept")
         \/ /\ exc = 0 /\ outcome' = First("result")
            /\ \E p \in func.contract.ret : ~Holds(p, val, result)
         \/ /\ exc = 0 /\ outcome' = First("postcondition")
            /\ \E p \in func.contract.post : ~Holds(p, val, result)
  BY DEF RunReturn, AtEnd, Running, MachineInv, PlaceInv
<1>2. outcome \in {"none", "div", "argument", "precondition"}
  BY <1>1 DEF FaultInv
<1>3. ASSUME outcome' \in {"div", "argument", "precondition"}
      PROVE  (\E c \in seen : \E j \in DOMAIN CodeOf(func, c) : Executed(c, j) /\ Fault(c, j))'
  <2>1. outcome' = outcome
    BY <1>1, <1>3 DEF First
  <2>2. PICK c \in seen : \E i \in DOMAIN CodeOf(func, c) : Executed(c, i) /\ Fault(c, i)
    BY <1>3, <2>1 DEF FaultInv
  <2>3. PICK i \in DOMAIN CodeOf(func, c) : Executed(c, i) /\ Fault(c, i)
    BY <2>2
  <2>4. Executed(c, i)'
    BY <2>3, ReturnExecutes
  <2> QED BY <1>1, <2>1, <2>3, <2>4, FaultThere
<1>4. outcome' # "preserved"
  BY <1>1, <1>2 DEF First
<1>5. ASSUME outcome' \in {"result", "postcondition"}
      PROVE  \E b \in seen :
              /\ func.blocks[b].term.k = "return"
              /\ LastExcTerm(func) \in DOMAIN told' /\ told'[LastExcTerm(func)] = 0
              /\ \E p \in func.contract.ret \cup func.contract.post :
                    ~Holds(p, val, val[func.blocks[b].term.v])
  <2>1. exc = 0 /\ \E p \in func.contract.ret \cup func.contract.post : ~Holds(p, val, result)
    BY <1>1, <1>2, <1>5 DEF First
  <2>2. LastExcTerm(func) \in DOMAIN told' /\ told'[LastExcTerm(func)] = exc
    BY <1>1, ToldGrown
  <2> QED BY <1>1, <2>1, <2>2
<1>6. Left' = seen
  <2>1. 0 \notin seen
    BY BlocksAreSeq DEF MachineInv, PlaceInv
  <2> QED BY <1>1, <2>1 DEF Left
<1> QED BY <1>1, <1>3, <1>4, <1>5, <1>6 DEF FaultInv

LEMMA ReturnEvidence ==
  ASSUME func \in Funcs, MachineInv, EvidenceInv, RunReturn
  PROVE  EvidenceInv'
<1> SUFFICES ASSUME Clean' PROVE (Complete /\ PathInv /\ ValueInv /\ FreshInv /\ FaultInv)'
  BY DEF EvidenceInv
<1>1. /\ at # 0 /\ at' = 0 /\ val' = val /\ seen' = seen /\ func' = func
      /\ func.blocks[at].term.k = "return" /\ Tell(LastExcTerm(func), exc) /\ at \in seen /\ ~blind'
  BY DEF RunReturn, AtEnd, Running, MachineInv, PlaceInv, Clean
<1>2. Clean /\ Started
  BY <1>1, CleanBefore DEF Started
<1>3. Complete /\ PathInv /\ ValueInv /\ FreshInv /\ FaultInv
  BY <1>2 DEF EvidenceInv
<1>4. Left' = seen /\ Left = seen \ {at}
  <2>1. 0 \notin seen
    BY BlocksAreSeq DEF MachineInv, PlaceInv
  <2> QED BY <1>1, <2>1 DEF Left
<1>5. DOMAIN told' = {LastExcTerm(func)} \cup DOMAIN told /\ \A u \in DOMAIN told : told'[u] = told[u]
  BY <1>1, ToldGrown
<1>6. Grown
  BY <1>1, <1>5 DEF Grown
<1>7. CallsKept
  BY <1>1 DEF CallsKept
<1>8. \A b, i : (CodeOf(func, b)[i])' = CodeOf(func, b)[i]
  BY <1>1 DEF CodeOf
<1>9. \A b, i : Executed(b, i)' <=> Executed(b, i)
  BY ReturnExecutes
<1>10. Complete'
  <2>1. \A b \in seen' : \A v : (Gives(func, b, v) \/ Available(func, v, b))' => v \in DOMAIN val'
    BY <1>1, <1>3 DEF Complete
  <2> QED BY <1>1, <1>3, <1>8, <1>9, <2>1 DEF Complete
<1>11. \A p, b : Takes(func, val', p, b) <=> Takes(func, val, p, b)
  BY <1>1
<1>12. \A b : ~Takes(func, val, at, b)
  BY <1>1 DEF Takes
<1>13. PathInv'
  <2>1. \A p \in seen : func.blocks[p].term.k # "return" => \E b \in seen : Takes(func, val, p, b)
    BY <1>1, <1>3, <1>4 DEF PathInv
  <2>2. \A b \in seen \ {1} : \E p \in seen \cap func.preds[b] : Followed(func, p, b) /\ Takes(func, val, p, b)
    BY <1>3, <1>4 DEF PathInv
  <2> QED BY <1>1, <1>4, <2>1, <2>2 DEF PathInv
<1>14. ValueInv'
  <2>1. \A b, i : Executed(b, i) => Fulfilled(CodeOf(func, b)[i])'
    BY <1>2, <1>3, <1>6, <1>7, ValuesGrown
  <2>2. (\A b, i : Executed(b, i) => Fulfilled(CodeOf(func, b)[i]))'
    BY <1>9, <2>1
  <2>3. \A b \in seen : \A phi \in Range(PhisOf(func, b)) : \A p \in Entries(func, b) \cap seen :
          Takes(func, val, p, b) => val[phi.d] = val[phi.in[p]]
    BY <1>3, <1>4, <1>12 DEF ValueInv
  <2>4. /\ Satisfied(func.contract.refs \cup func.contract.pre, val)
        /\ \A inv \in func.contract.invs : inv.header \in seen => Holds(inv.pred, val, 0)
    BY <1>3 DEF ValueInv
  <2> QED BY <1>1, <1>4, <2>2, <2>3, <2>4 DEF ValueInv, PhisOf
<1>15. FreshInv'
  <2>1. LastExcTerm(func) \in {0} \cup ExcTerms(func)
    <3>1. Len(func.sites) + 1 \in 1 .. Len(func.sites) + 1
      BY SitesAreSeq
    <3> QED BY <3>1, ExcTermIs DEF LastExcTerm
  <2>2. DOMAIN told' \subseteq {0} \cup ExcTerms(func)
    BY <1>3, <1>5, <2>1 DEF FreshInv
  <2>3. (\A v \in DOMAIN val :
          \/ v \in {0} \cup Params(func)
          \/ \E b \in seen : \E phi \in Range(PhisOf(func, b)) : phi.d = v
          \/ \E b \in seen : \E i \in DOMAIN CodeOf(func, b) :
                Executed(b, i) /\ Defines(CodeOf(func, b)[i]) /\ CodeOf(func, b)[i].d = v)'
    BY <1>1, <1>3, <1>8, <1>9 DEF FreshInv
  <2> QED BY <1>1, <2>2, <2>3 DEF FreshInv
<1>16. FaultInv'
  BY <1>1, <1>3, <1>6, ReturnFault
<1> QED BY <1>10, <1>13, <1>14, <1>15, <1>16

LEMMA StartEvidence ==
  ASSUME VerdictInv, MachineInv, Regular(func), Start
  PROVE  EvidenceInv'
<1> SUFFICES ASSUME Clean' PROVE (Complete /\ PathInv /\ ValueInv /\ FreshInv /\ FaultInv)'
  BY DEF EvidenceInv
<1>1. /\ func \in Funcs /\ at = 0 /\ outcome = "none" /\ at' = 1 /\ pos' = 1 /\ seen' = {1}
      /\ func' = func /\ verdict' = verdict /\ told' = told /\ outcome' = outcome
  BY DEF VerdictInv, Start, solver
<1>2. verdict = "verified" /\ val' \in Inputs(func)
  BY <1>1 DEF Clean, Start
<1>3. 1 \in DOMAIN func.blocks /\ PhisOf(func, 1) = <<>>
  BY <1>1, FuncsAssumption DEF WellFormed, GraphForm
<1>4. told = <<>>
  BY <1>1 DEF MachineInv, PlaceInv, Started
<1>5. Complete'
  BY <1>1, StartMachine DEF MachineInv
<1>6. Left' = {}
  BY <1>1 DEF Left
<1>7. PathInv'
  BY <1>1, <1>6 DEF PathInv
<1>8. ASSUME NEW b, NEW i, Executed(b, i)' PROVE FALSE
  <2>1. b = 1 /\ i \in DOMAIN CodeOf(func, 1) /\ i < 1
    BY <1>1, <1>8 DEF Executed, CodeOf
  <2>2. i \in 1 .. Len(CodeOf(func, 1)) /\ Len(CodeOf(func, 1)) \in Nat
    BY <1>1, <1>3, <2>1, BlockFacts
  <2> QED BY <2>1, <2>2
<1>9. ValueInv'
  <2>1. Satisfied(func.contract.refs \cup func.contract.pre, val')
    BY <1>2 DEF Inputs
  <2>2. (\A b, i : Executed(b, i) => Fulfilled(CodeOf(func, b)[i]))'
    BY <1>8
  <2>3. \A inv \in func.contract.invs : inv.header # 1
    BY <1>3 DEF Regular, IsHeader, PhisOf
  <2> QED BY <1>1, <1>6, <2>1, <2>2, <2>3 DEF ValueInv
<1>10. FreshInv'
  <2>1. DOMAIN val' = {0} \cup Params(func)
    BY <1>2 DEF Inputs
  <2>2. DOMAIN told' = {}
    BY <1>1, <1>4
  <2> QED BY <1>1, <2>1, <2>2 DEF FreshInv
<1>11. FaultInv'
  BY <1>1 DEF FaultInv
<1> QED BY <1>5, <1>7, <1>9, <1>10, <1>11

LEMMA EvidenceStep ==
  ASSUME VerdictInv, MachineInv, Regular(func), EvidenceInv, [Next]_vars
  PROVE  EvidenceInv'
<1>0. func \in Funcs
  BY DEF VerdictInv
<1>1. CASE Verify
  <2>1. UNCHANGED machine /\ ~Started
    BY <1>1, VerifyMachine
  <2>2. ~Started'
    BY <2>1 DEF machine, Started
  <2> QED BY <2>2 DEF EvidenceInv, Clean
<1>2. CASE Start
  BY <1>2, StartEvidence
<1>3. CASE RunStep
  BY <1>0, <1>3, StepEvidenceInv
<1>4. CASE RunJump \/ RunBranch
  BY <1>0, <1>4, EnterEvidence
<1>5. CASE RunReturn
  BY <1>0, <1>5, ReturnEvidence
<1>6. CASE UNCHANGED vars
  <2>1. UNCHANGED <<func, verdict, at, pos, val, seen, told, blind, outcome>>
    BY <1>6 DEF vars
  <2>2. Clean' => Clean
    BY <2>1 DEF Clean, Started
  <2>3. Complete => Complete'
    BY <2>1 DEF Complete, Executed, CodeOf, Gives, Available, Dominates, Cuts, Made, To, PhisOf, Params
  <2>4. PathInv => PathInv'
    BY <2>1 DEF PathInv, Left
  <2>5. \A b, i : Executed(b, i)' <=> Executed(b, i)
    BY <2>1 DEF Executed, CodeOf
  <2>6. \A b, i : Fulfilled(CodeOf(func, b)[i])' <=> Fulfilled(CodeOf(func, b)[i])
    BY <2>1 DEF Fulfilled, CodeOf, CallResults
  <2>7. ValueInv => ValueInv'
    BY <2>1, <2>5, <2>6 DEF ValueInv, Left, PhisOf
  <2>8. FreshInv => FreshInv'
    BY <2>1, <2>5 DEF FreshInv, PhisOf, CodeOf
  <2>9. FaultInv => FaultInv'
    <3>1. \A b, i : Fault(b, i)' <=> Fault(b, i)
      BY <2>1 DEF Fault, ArgumentsFit, CodeOf
    <3> QED BY <2>1, <2>5, <3>1 DEF FaultInv, Left, CodeOf
  <2> QED BY <2>2, <2>3, <2>4, <2>7, <2>8, <2>9 DEF EvidenceInv
<1> QED BY <1>1, <1>2, <1>3, <1>4, <1>5, <1>6 DEF Next, Execute, RunStep

\* What a run of a verified function leaves behind, as long as some assignment
\* stands for it: every block was left to the block after it, every instruction
\* has done what its formula says, and a promise that was broken was broken by
\* values that are still there.
THEOREM EvidenceKnown == Spec => [](VerdictInv /\ MachineInv /\ (Regular(func) => EvidenceInv))
<1>1. Init => VerdictInv /\ MachineInv /\ (Regular(func) => EvidenceInv)
  <2>1. Init => ~Started
    BY DEF Init, Started
  <2> QED BY <2>1, VerdictInit, MachineInit DEF EvidenceInv, Clean
<1>2. VerdictInv /\ MachineInv /\ (Regular(func) => EvidenceInv) /\ [Next]_vars
      => (VerdictInv /\ MachineInv /\ (Regular(func) => EvidenceInv))'
  <2> SUFFICES ASSUME VerdictInv, MachineInv, Regular(func) => EvidenceInv, [Next]_vars
               PROVE  (VerdictInv /\ MachineInv /\ (Regular(func) => EvidenceInv))'
    OBVIOUS
  <2>1. func' = func
    <3>1. CASE Verify
      BY <3>1, VerifyMachine
    <3>2. CASE Execute \/ UNCHANGED vars
      BY <3>2, MachineKeeps
    <3> QED BY <3>1, <3>2 DEF Next
  <2>2. Regular(func)' => Regular(func)
    BY <2>1
  <2> QED BY <2>2, VerdictStep, MachineStep, EvidenceStep
<1> QED BY <1>1, <1>2, PTL DEF Spec

-------------------------------------------------------------------------------
(***************************************************************************)
(* From the evidence to an assignment: the run is one of those the         *)
(* verifier has asked about.                                               *)
(***************************************************************************)
Ended ==
    /\ VerdictInv /\ MachineInv /\ EvidenceInv /\ Regular(func)
    /\ Clean /\ Over /\ Represented

LEMMA EndedFacts ==
  ASSUME Ended
  PROVE  /\ func \in Funcs /\ MachineInv /\ Started /\ at = 0 /\ Left = seen /\ 0 \notin seen
         /\ seen \subseteq DOMAIN func.blocks /\ 1 \in seen /\ {0} \cup Params(func) \subseteq DOMAIN val
         /\ \A v \in DOMAIN val : val[v] \in Word
         /\ \A t \in DOMAIN told : told[t] \in Word
         /\ Complete /\ PathInv /\ ValueInv /\ FreshInv /\ FaultInv
         /\ \A p \in seen : Finished(p)
         /\ \A b \in seen : \A i \in DOMAIN CodeOf(func, b) : Executed(b, i)
<1>1. func \in Funcs /\ MachineInv /\ Started /\ at = 0
  BY DEF Ended, VerdictInv, Clean, Over
<1>2. Complete /\ PathInv /\ ValueInv /\ FreshInv /\ FaultInv
  BY DEF Ended, EvidenceInv
<1>3. seen \subseteq DOMAIN func.blocks /\ 1 \in seen /\ {0} \cup Params(func) \subseteq DOMAIN val
      /\ (\A v \in DOMAIN val : val[v] \in Word) /\ (\A t \in DOMAIN told : told[t] \in Word)
  BY <1>1 DEF MachineInv, PlaceInv, WordInv
<1>4. 0 \notin seen
  BY <1>1, <1>3, BlocksAreSeq
<1> QED BY <1>1, <1>2, <1>3, <1>4 DEF Left, Finished, Executed

\* A value has been made by an instruction of a block control has been in.
LEMMA ValueHasSite ==
  ASSUME Ended, NEW v \in DOMAIN val, v \notin {0} \cup Params(func)
  PROVE  \E k \in DOMAIN func.sites :
            func.sites[k].b \in seen /\ Defines(func.sites[k].inst) /\ func.sites[k].inst.d = v
<1>1. func \in Funcs /\ FreshInv /\ seen \subseteq DOMAIN func.blocks
  BY EndedFacts
<1>2. CASE \E b \in seen : \E phi \in Range(PhisOf(func, b)) : phi.d = v
  <2>1. PICK b \in seen : \E phi \in Range(PhisOf(func, b)) : phi.d = v
    BY <1>2
  <2>2. PICK phi \in Range(PhisOf(func, b)) : phi.d = v
    BY <2>1
  <2>3. b \in DOMAIN func.blocks
    BY <1>1
  <2>4. Defines(phi)
    BY <1>1, <2>3, PhisAndCode
  <2>5. \E k \in DOMAIN func.sites : func.sites[k].b = b /\ func.sites[k].inst = phi
    BY <1>1, <2>3, SiteOf
  <2> QED BY <2>2, <2>4, <2>5
<1>3. CASE \E b \in seen : \E i \in DOMAIN CodeOf(func, b) :
              Executed(b, i) /\ Defines(CodeOf(func, b)[i]) /\ CodeOf(func, b)[i].d = v
  <2>1. PICK b \in seen : \E i \in DOMAIN CodeOf(func, b) : Defines(CodeOf(func, b)[i]) /\ CodeOf(func, b)[i].d = v
    BY <1>3
  <2>2. PICK inst \in Range(CodeOf(func, b)) : Defines(inst) /\ inst.d = v
    BY <2>1 DEF Range
  <2>3. b \in DOMAIN func.blocks
    BY <1>1
  <2>4. \E k \in DOMAIN func.sites : func.sites[k].b = b /\ func.sites[k].inst = inst
    BY <1>1, <2>3, SiteOf
  <2> QED BY <2>2, <2>4
<1> QED BY <1>1, <1>2, <1>3 DEF FreshInv

\* A term of the exception word is made by a constant, in the block that
\* stores it.
LEMMA ExcTermMade ==
  ASSUME NEW f \in Funcs, NEW t \in ExcTerms(f)
  PROVE  \E j, k \in DOMAIN f.sites :
            /\ f.sites[j].inst.op = "const" /\ f.sites[j].inst.d = t
            /\ f.sites[k].inst.op = "setexc" /\ f.sites[k].inst.a = t
            /\ f.sites[j].b = f.sites[k].b
<1>1. PICK k \in DOMAIN f.sites : f.sites[k].inst.op = "setexc" /\ f.sites[k].inst.a = t
  BY DEF ExcTerms, Range
<1> PICK b : b = f.sites[k].b
  OBVIOUS
<1>2. b \in DOMAIN f.blocks
  BY SiteFacts
<1>3. PICK i \in DOMAIN CodeOf(f, b) : f.sites[k].inst = CodeOf(f, b)[i] /\ InstForm(f, b, i)
  BY <1>1, SiteFacts
<1>4. PICK n \in 1 .. i - 1 : CodeOf(f, b)[n].op = "const" /\ CodeOf(f, b)[n].d = t
  BY <1>1, <1>3 DEF InstForm
<1>5. n \in DOMAIN CodeOf(f, b)
  BY <1>2, <1>3, <1>4, BlockFacts
<1>6. CodeOf(f, b)[n] \in Range(CodeOf(f, b))
  BY <1>5 DEF Range
<1>7. PICK j \in DOMAIN f.sites : f.sites[j].b = b /\ f.sites[j].inst = CodeOf(f, b)[n]
  BY <1>2, <1>6, SiteOf
<1> QED BY <1>1, <1>4, <1>7

\* Where the term of a store is a value of the run, it is that value.
LEMMA ToldIsValue ==
  ASSUME Ended, NEW t \in DOMAIN told, t \in DOMAIN val, t # 0
  PROVE  told[t] = val[t]
<1>1. func \in Funcs /\ t \in ExcTerms(func)
  BY EndedFacts DEF FreshInv
<1>2. PICK j, k \in DOMAIN func.sites :
            /\ func.sites[j].inst.op = "const" /\ func.sites[j].inst.d = t
            /\ func.sites[k].inst.op = "setexc" /\ func.sites[k].inst.a = t
            /\ func.sites[j].b = func.sites[k].b
  BY <1>1, ExcTermMade
<1>3. Defines(func.sites[j].inst)
  BY <1>2 DEF Defines
<1>4. t \notin {0} \cup Params(func)
  BY <1>1, <1>2, <1>3, SiteFacts
<1>5. PICK m \in DOMAIN func.sites :
            func.sites[m].b \in seen /\ Defines(func.sites[m].inst) /\ func.sites[m].inst.d = t
  BY <1>4, ValueHasSite
<1>6. m = j
  BY <1>1, <1>2, <1>3, <1>5, OneSite
<1> PICK b : b = func.sites[k].b
  OBVIOUS
<1>7. b \in seen
  BY <1>2, <1>5, <1>6
<1>8. PICK i \in DOMAIN CodeOf(func, b) : func.sites[k].inst = CodeOf(func, b)[i]
  BY <1>1, <1>2, SiteFacts
<1>9. Executed(b, i) /\ ValueInv
  BY <1>7, EndedFacts
<1>10. Fulfilled(CodeOf(func, b)[i])
  BY <1>9 DEF ValueInv
<1> QED BY <1>2, <1>8, <1>10 DEF Fulfilled

\* What is ready is a value, and 0 is none.
LEMMA ReadyIsValue ==
  ASSUME NEW f \in Funcs, NEW b \in DOMAIN f.blocks, NEW n \in 0 .. Len(CodeOf(f, b)), NEW v, Ready(f, b, n, v)
  PROVE  v # 0
<1>1. 0 \notin Params(f)
  BY DEF Params
<1>2. ASSUME NEW c \in DOMAIN f.blocks, NEW inst \in Range(PhisOf(f, c)) \cup Range(CodeOf(f, c)), Defines(inst)
      PROVE  inst.d # 0
  BY <1>2, SiteOf
<1>3. ASSUME NEW c \in DOMAIN f.blocks, NEW m \in 0 .. Len(CodeOf(f, c)), Made(f, c, m, v) PROVE v # 0
  <2>1. PICK i \in 1 .. m : Defines(CodeOf(f, c)[i]) /\ CodeOf(f, c)[i].d = v
    BY <1>3 DEF Made
  <2>2. i \in DOMAIN CodeOf(f, c)
    BY BlockFacts
  <2>3. CodeOf(f, c)[i] \in Range(CodeOf(f, c))
    BY <2>2 DEF Range
  <2> QED BY <1>2, <2>1, <2>3
<1>4. ASSUME NEW c \in DOMAIN f.blocks, Gives(f, c, v) PROVE v # 0
  <2>1. CASE \E phi \in Range(PhisOf(f, c)) : phi.d = v
    BY <1>2, <2>1, PhisAndCode
  <2>2. CASE \E p \in f.preds[c] : \E inst \in Range(CodeOf(f, p)) : inst.op = "call" /\ inst.d = v
    <3>1. f.preds[c] \subseteq DOMAIN f.blocks
      BY BlockFacts
    <3> QED BY <1>2, <2>2, <3>1 DEF Defines
  <2> QED BY <1>4, <2>1, <2>2 DEF Gives
<1>5. CASE Available(f, v, b)
  <2>1. \A c \in DOMAIN f.blocks : Len(CodeOf(f, c)) \in 0 .. Len(CodeOf(f, c))
    BY BlockFacts
  <2> QED BY <1>1, <1>3, <1>4, <1>5, <2>1 DEF Available
<1> QED BY <1>3, <1>5 DEF Ready

\* the values that the first k instructions give are those of the run
Stands(k, env) ==
    /\ DOMAIN env = MadeBefore(func, k)
    /\ \A v \in DOMAIN env : v \in DOMAIN val /\ v # 0 => env[v] = val[v]
    /\ \A t \in DOMAIN env : t \in DOMAIN told => env[t] = told[t]

\* What is made before a block is there when its instructions are translated.
LEMMA BlockEarlier ==
  ASSUME NEW f \in Funcs, NEW k \in DOMAIN f.sites, NEW p \in DOMAIN f.blocks, p < f.sites[k].b, NEW v,
         Earlier(f, Len(f.sites) + 1, p, v)
  PROVE  v \in MadeBefore(f, k - 1)
<1> PICK n \in Nat : n = Len(f.sites) /\ DOMAIN f.sites = 1 .. n
  BY SitesAreSeq
<1>1. CASE v \in Params(f)
  BY <1>1 DEF MadeBefore
<1>2. CASE \E j \in 1 .. n : f.sites[j].b <= p /\ Defines(f.sites[j].inst) /\ f.sites[j].inst.d = v
  <2>1. PICK j \in 1 .. n : f.sites[j].b <= p /\ Defines(f.sites[j].inst) /\ f.sites[j].inst.d = v
    BY <1>2
  <2>2. SiteForm(f)
    BY FuncsAssumption DEF WellFormed
  <2>3. \A i \in 1 .. j : f.sites[i].b <= f.sites[j].b
    BY <2>2 DEF SiteForm
  <2>4. f.sites[j].b \in Int /\ f.sites[k].b \in Int /\ p \in Int
    BY SiteFacts, BlocksAreSeq
  <2>5. k \notin 1 .. j
    BY <2>1, <2>3, <2>4
  <2>6. j \in 1 .. k - 1
    BY <2>5
  <2> QED BY <2>1, <2>6 DEF MadeBefore
<1>3. n + 1 - 1 = n
  OBVIOUS
<1> QED BY <1>1, <1>2, <1>3 DEF Earlier

LEMMA EarlierAll ==
  ASSUME NEW f \in Funcs, NEW p, NEW v, Earlier(f, Len(f.sites) + 1, p, v)
  PROVE  v \in MadeBefore(f, Len(f.sites))
<1>1. Len(f.sites) + 1 - 1 = Len(f.sites)
  BY SitesAreSeq
<1> QED BY <1>1 DEF Earlier, MadeBefore

\* the condition of the branch that ends p, if one does, is known
Decided(p, env) == func.blocks[p].term.k = "branch" => func.blocks[p].term.c \in DOMAIN env

\* An edge is taken in the formulas iff the run takes it.
LEMMA EdgeMeans ==
  ASSUME Ended, NEW k, NEW env, Stands(k, env), NEW b \in DOMAIN func.blocks, NEW p \in func.preds[b],
         Decided(p, env)
  PROVE  EdgeOn(func, seen, env, p, b) <=> p \in seen /\ Takes(func, val, p, b)
<1> PICK term : term = func.blocks[p].term
  OBVIOUS
<1>1. p \in DOMAIN func.blocks /\ b \in To(func, p) /\ TermForm(func, p) /\ func \in Funcs
  BY EndedFacts, BlockFacts
<1>2. ASSUME p \in seen, term.k = "branch" PROVE env[term.c] = val[term.c]
  <2>1. AtEndOf(func, p, term.c)
    BY <1>1, <1>2 DEF TermForm
  <2>2. term.c \in DOMAIN val
    BY <1>2, <2>1, EndedFacts, FinishedValues
  <2>3. Len(CodeOf(func, p)) \in 0 .. Len(CodeOf(func, p))
    BY <1>1, BlockFacts
  <2>4. term.c # 0
    BY <1>1, <2>1, <2>3, ReadyIsValue DEF AtEndOf
  <2> QED BY <1>2, <2>2, <2>4 DEF Stands, Decided
<1>3. term.k = "jump" => b = term.to[1]
  BY <1>1 DEF TermForm, To, Range
<1>4. term.k = "branch" => b \in {term.to[1], term.to[2]} /\ term.to[1] # term.to[2]
  BY <1>1 DEF TermForm, To, Range
<1>5. term.k \in {"jump", "branch"}
  BY <1>1 DEF TermForm, To, Range
<1>6. EdgeOn(func, seen, env, p, b) <=>
         p \in seen /\ (term.k = "branch" => ((env[term.c] = 1) = (b = term.to[1])))
  BY DEF EdgeOn
<1>7. CASE term.k = "jump"
  BY <1>3, <1>6, <1>7 DEF Takes
<1>8. CASE term.k = "branch"
  BY <1>2, <1>4, <1>6, <1>8 DEF Takes
<1> QED BY <1>5, <1>7, <1>8

LEMMA TakenToSeen ==
  ASSUME Ended, NEW p \in seen, NEW b, Takes(func, val, p, b)
  PROVE  b \in seen
<1>1. PathInv /\ Left = seen
  BY EndedFacts
<1>2. func.blocks[p].term.k # "return"
  BY DEF Takes
<1>3. PICK c \in seen : Takes(func, val, p, c)
  BY <1>1, <1>2 DEF PathInv
<1> QED BY <1>3, TakesOne

\* A block is on the path iff the run has been there.
LEMMA BlockMeans ==
  ASSUME Ended, NEW k, NEW env, Stands(k, env), NEW b \in DOMAIN func.blocks,
         \A p \in func.preds[b] : Decided(p, env)
  PROVE  BlockHolds(func, seen, env, b)
<1>1. ASSUME b # 1, b \in seen PROVE \E p \in func.preds[b] : EdgeOn(func, seen, env, p, b)
  <2>1. PathInv /\ Left = seen
    BY EndedFacts
  <2>2. PICK p \in seen \cap func.preds[b] : Takes(func, val, p, b)
    BY <1>1, <2>1 DEF PathInv
  <2>3. p \in seen /\ p \in func.preds[b] /\ Decided(p, env)
    OBVIOUS
  <2>4. EdgeOn(func, seen, env, p, b)
    BY <2>2, <2>3, EdgeMeans
  <2> QED BY <2>3, <2>4
<1>2. ASSUME NEW p \in func.preds[b], EdgeOn(func, seen, env, p, b) PROVE b \in seen
  <2>1. Decided(p, env)
    OBVIOUS
  <2>2. p \in seen /\ Takes(func, val, p, b)
    BY <1>2, <2>1, EdgeMeans
  <2> QED BY <2>2, TakenToSeen
<1> DEFINE there == \E p \in func.preds[b] : EdgeOn(func, seen, env, p, b)
<1>3. b # 1 => (b \in seen <=> there)
  BY <1>1, <1>2
<1>4. BlockHolds(func, seen, env, b) <=> (b # 1 => (b \in seen) = there)
  BY DEF BlockHolds
<1>5. there \in BOOLEAN /\ (b \in seen) \in BOOLEAN
  OBVIOUS
<1> HIDE DEF there
<1> QED BY <1>3, <1>4, <1>5

\* A phi has what came in.
LEMMA PhiMeans ==
  ASSUME Ended, NEW k, NEW env, Stands(k, env), NEW b \in seen, NEW phi \in Range(PhisOf(func, b)), NEW from,
         \A p \in func.preds[b] \cap from : Decided(p, env) /\ phi.in[p] \in DOMAIN env
  PROVE  PhiHolds(func, seen, env, b, phi, val[phi.d], from)
<1>1. /\ func \in Funcs /\ b \in DOMAIN func.blocks /\ ValueInv /\ Left = seen /\ Complete /\ MachineInv
      /\ \A p \in seen : Finished(p)
  BY EndedFacts
<1>2. ASSUME NEW p \in Sources(func, b) \cap from, EdgeOn(func, seen, env, p, b)
      PROVE  val[phi.d] = env[phi.in[p]]
  <2>1. p \in func.preds[b] /\ p \in Entries(func, b)
    BY DEF Sources, Entries
  <2>2. p \in seen /\ Takes(func, val, p, b)
    BY <1>1, <1>2, <2>1, EdgeMeans
  <2>3. val[phi.d] = val[phi.in[p]]
    BY <1>1, <2>1, <2>2 DEF ValueInv
  <2>4. p \in DOMAIN func.blocks /\ b \in To(func, p)
    BY <1>1, <2>1, BlockFacts
  <2>5. AtEndOf(func, p, phi.in[p])
    BY <1>1, <2>4, EdgeFacts
  <2>6. phi.in[p] \in DOMAIN val
    BY <1>1, <2>2, <2>5, FinishedValues
  <2>7. Len(CodeOf(func, p)) \in 0 .. Len(CodeOf(func, p))
    BY <1>1, <2>4, BlockFacts
  <2>8. phi.in[p] # 0
    BY <1>1, <2>4, <2>5, <2>7, ReadyIsValue DEF AtEndOf
  <2>9. env[phi.in[p]] = val[phi.in[p]]
    BY <2>1, <2>6, <2>8 DEF Stands
  <2> QED BY <2>3, <2>9
<1> QED BY <1>2 DEF PhiHolds

\* What is known where an instruction is translated: the conditions of the
\* branches before its block, and what comes into the phis from there.
LEMMA KnownBefore ==
  ASSUME NEW f \in Funcs, NEW k \in DOMAIN f.sites, NEW p \in f.preds[f.sites[k].b] \cap 1 .. f.sites[k].b - 1
  PROVE  /\ f.blocks[p].term.k = "branch" => f.blocks[p].term.c \in MadeBefore(f, k - 1)
         /\ \A phi \in Range(PhisOf(f, f.sites[k].b)) : phi.in[p] \in MadeBefore(f, k - 1)
<1> PICK b : b = f.sites[k].b
  OBVIOUS
<1>1. b \in DOMAIN f.blocks
  BY SiteFacts
<1>2. p \in DOMAIN f.blocks
  BY <1>1, BlockFacts
<1>3. p < b
  BY <1>1, BlocksAreSeq
<1>4. BlockForm(f, p) /\ BlockForm(f, b)
  BY <1>1, <1>2, BlockFacts
<1>5. f.blocks[p].term.k = "branch" => Earlier(f, Len(f.sites) + 1, p, f.blocks[p].term.c)
  BY <1>4 DEF BlockForm
<1>6. \A phi \in Range(PhisOf(f, b)) : Earlier(f, Len(f.sites) + 1, p, phi.in[p])
  BY <1>4 DEF BlockForm
<1>7. \A v : Earlier(f, Len(f.sites) + 1, p, v) => v \in MadeBefore(f, k - 1)
  BY <1>2, <1>3, BlockEarlier
<1> QED BY <1>5, <1>6, <1>7

LEMMA BlockStands ==
  ASSUME Ended, NEW k \in DOMAIN func.sites, NEW env, Stands(k - 1, env),
         func.preds[func.sites[k].b] \subseteq 1 .. func.sites[k].b - 1
  PROVE  BlockHolds(func, seen, env, func.sites[k].b)
<1> PICK b : b = func.sites[k].b
  OBVIOUS
<1>1. func \in Funcs /\ b \in DOMAIN func.blocks
  BY EndedFacts, SiteFacts
<1>2. ASSUME NEW p \in func.preds[b] PROVE Decided(p, env)
  <2>1. p \in func.preds[func.sites[k].b] \cap 1 .. func.sites[k].b - 1
    OBVIOUS
  <2> QED BY <1>1, <2>1, KnownBefore DEF Decided, Stands
<1> QED BY <1>1, <1>2, BlockMeans

LEMMA GivenMeans ==
  ASSUME NEW f, NEW an, NEW k, NEW on, NEW env, NEW w \in Words(f, k, on, env),
         Allowed(an, on, f.sites[k].inst.d, w)
  PROVE  /\ f.sites[k].b \in on \/ f.sites[k].inst.d \in ExcTerms(f) => w \in Given(f, an, k, on, env)
         /\ \E x : x \in Given(f, an, k, on, env)
<1> DEFINE allowed == {x \in Words(f, k, on, env) : Allowed(an, on, f.sites[k].inst.d, x)}
<1>1. Given(f, an, k, on, env) =
         IF f.sites[k].b \in on \/ f.sites[k].inst.d \in ExcTerms(f) \/ allowed = {} THEN allowed
         ELSE {CHOOSE x \in allowed : TRUE}
  BY DEF Given, Words
<1>2. w \in allowed
  OBVIOUS
<1> HIDE DEF allowed
<1> QED BY <1>1, <1>2

\* What an instruction on the path has made is what its formula says.
LEMMA ValueWord ==
  ASSUME Ended, NEW k \in DOMAIN func.sites, NEW env, Stands(k - 1, env),
         Defines(func.sites[k].inst), func.sites[k].b \in seen, func.sites[k].inst.d \in DOMAIN val
  PROVE  val[func.sites[k].inst.d] \in Words(func, k, seen, env)
<1> PICK b : b = func.sites[k].b
  OBVIOUS
<1> PICK inst : inst = func.sites[k].inst
  OBVIOUS
<1>1. /\ func \in Funcs /\ b \in DOMAIN func.blocks /\ b \in seen /\ inst.d \in DOMAIN val /\ Defines(inst)
      /\ val[inst.d] \in Word /\ MachineInv /\ Complete /\ ValueInv
  BY EndedFacts, SiteFacts
<1>2. CASE inst.op = "phi"
  <2>1. inst \in Range(PhisOf(func, b))
    BY <1>1, <1>2, SiteFacts
  <2>2. \A p \in func.preds[b] \cap 1 .. b - 1 : Decided(p, env) /\ inst.in[p] \in DOMAIN env
    BY <1>1, <2>1, KnownBefore DEF Decided, Stands
  <2>3. PhiHolds(func, seen, env, b, inst, val[inst.d], 1 .. b - 1)
    BY <1>1, <2>1, <2>2, PhiMeans
  <2> QED BY <1>1, <1>2, <2>3 DEF Words
<1>3. CASE inst.op # "phi"
  <2>1. PICK i \in DOMAIN CodeOf(func, b) : inst = CodeOf(func, b)[i] /\ InstForm(func, b, i)
    BY <1>1, <1>3, SiteFacts
  <2>2. Executed(b, i)
    BY <1>1, EndedFacts
  <2>3. Fulfilled(inst)
    BY <1>1, <2>1, <2>2 DEF ValueInv
  <2>4. CASE inst.op = "call"
    BY <1>1, <2>3, <2>4 DEF Fulfilled, Words
  <2>5. CASE inst.op = "getexc"
    <3>1. ExcTerm(func, k) \in DOMAIN told /\ val[inst.d] = told[ExcTerm(func, k)]
      BY <2>3, <2>5 DEF Fulfilled
    <3>2. k \in 1 .. Len(func.sites) + 1
      BY <1>1, SitesAreSeq
    <3>3. ExcTerm(func, k) \in DOMAIN env
      BY <1>1, <3>2, ExcTermBefore DEF Stands
    <3>4. val[inst.d] = env[ExcTerm(func, k)]
      BY <3>1, <3>3 DEF Stands
    <3> QED BY <1>1, <2>5, <3>4 DEF Words
  <2>6. CASE inst.op \notin {"call", "getexc"}
    <3>1. inst.op \in Pure \cup {"div"} /\ \A v \in Operands(inst) : v \in MadeBefore(func, k - 1)
      BY <1>1, <1>3, <2>6, SiteFacts DEF Defines
    <3>2. \A v \in Operands(inst) : v \in DOMAIN env /\ v \in DOMAIN val
      BY <1>1, <2>1, <2>2, <3>1, ExecutedOperands DEF Stands
    <3>3. \A v \in Operands(inst) : v # 0
      <4>1. \A v \in Operands(inst) : Ready(func, b, i - 1, v)
        BY <2>1 DEF InstForm
      <4>2. i - 1 \in 0 .. Len(CodeOf(func, b))
        BY <1>1, <2>1, BlockFacts
      <4> QED BY <1>1, <4>1, <4>2, ReadyIsValue
    <3>4. \A v \in Operands(inst) : env[v] = val[v]
      BY <3>2, <3>3 DEF Stands
    <3>5. inst.op # "const" => inst.a \in Operands(inst) /\ inst.b \in Operands(inst)
      BY <3>1 DEF Operands, Pure, Negate
    <3>6. Computes(inst, env) = Computes(inst, val)
      BY <3>4, <3>5, ComputesSame
    <3>7. val[inst.d] = Computes(inst, env)
      BY <2>3, <3>1, <3>6 DEF Fulfilled
    <3> QED BY <1>1, <1>3, <2>6, <3>7 DEF Words
  <2> QED BY <2>4, <2>5, <2>6
<1> QED BY <1>2, <1>3

\* A word is given for every site: of a value of the run, its own.
LEMMA SiteValue ==
  ASSUME Ended, NEW k \in DOMAIN func.sites, NEW env, Stands(k - 1, env), Defines(func.sites[k].inst)
  PROVE  \E w \in Given(func, derived, k, seen, env) :
            /\ func.sites[k].inst.d \in DOMAIN val => w = val[func.sites[k].inst.d]
            /\ func.sites[k].inst.d \in DOMAIN told => w = told[func.sites[k].inst.d]
<1> PICK b : b = func.sites[k].b
  OBVIOUS
<1> PICK inst : inst = func.sites[k].inst
  OBVIOUS
<1>1. /\ func \in Funcs /\ Defines(inst) /\ inst.d \notin {0} \cup Params(func)
      /\ b \in DOMAIN func.blocks /\ Complete /\ FreshInv
  BY EndedFacts, SiteFacts
<1>2. Represented
  BY DEF Ended
<1>3. CASE inst.d \in DOMAIN val
  <2>1. PICK m \in DOMAIN func.sites :
            func.sites[m].b \in seen /\ Defines(func.sites[m].inst) /\ func.sites[m].inst.d = inst.d
    BY <1>1, <1>3, ValueHasSite
  <2>2. m = k
    BY <1>1, <2>1, OneSite
  <2>3. b \in seen
    BY <2>1, <2>2
  <2>4. val[inst.d] \in Words(func, k, seen, env)
    BY <1>1, <1>3, <2>3, ValueWord
  <2>5. Allowed(derived, seen, inst.d, val[inst.d])
    BY <1>2, <1>3 DEF Represented
  <2>6. val[inst.d] \in Given(func, derived, k, seen, env)
    BY <2>3, <2>4, <2>5, GivenMeans
  <2>7. inst.d \in DOMAIN told => val[inst.d] = told[inst.d]
    BY <1>1, <1>3, ToldIsValue
  <2> QED BY <2>6, <2>7
<1>5. CASE inst.d \notin DOMAIN val /\ b \in seen
  <2>1. inst.op = "call"
    <3>1. CASE inst.op = "phi"
      <4>1. inst \in Range(PhisOf(func, b))
        BY <1>1, <3>1, SiteFacts
      <4>2. Gives(func, b, inst.d)
        BY <4>1 DEF Gives
      <4> QED BY <1>1, <1>5, <4>2 DEF Complete
    <3>2. CASE inst.op # "phi"
      <4>1. PICK i \in DOMAIN CodeOf(func, b) : inst = CodeOf(func, b)[i]
        BY <1>1, <3>2, SiteFacts
      <4>2. Executed(b, i)
        BY <1>5, EndedFacts
      <4> QED BY <1>1, <1>5, <4>1, <4>2 DEF Complete
    <3> QED BY <3>1, <3>2
  <2>2. func.sites[k] \in Range(func.sites)
    BY DEF Range
  <2>3. PICK w \in CallResults(func) : Allowed(derived, seen, inst.d, w)
    BY <1>1, <1>2, <1>5, <2>2 DEF Represented
  <2>4. w \in Words(func, k, seen, env)
    BY <1>5, <2>1, <2>3 DEF Words
  <2>5. w \in Given(func, derived, k, seen, env)
    BY <1>5, <2>3, <2>4, GivenMeans
  <2>6. inst.d \notin DOMAIN told
    <3> SUFFICES ASSUME inst.d \in DOMAIN told PROVE FALSE
      OBVIOUS
    <3>1. inst.d \in ExcTerms(func)
      BY <1>1 DEF FreshInv
    <3>2. PICK j \in DOMAIN func.sites : func.sites[j].inst.op = "const" /\ func.sites[j].inst.d = inst.d
      BY <1>1, <3>1, ExcTermMade
    <3>3. Defines(func.sites[j].inst)
      BY <3>2 DEF Defines
    <3>4. j = k
      BY <1>1, <3>2, <3>3, OneSite
    <3> QED BY <2>1, <3>2, <3>4
  <2> QED BY <1>5, <2>5, <2>6
<1>6. CASE inst.d \notin DOMAIN val /\ b \notin seen
  <2>1. Words(func, k, seen, env) = Word
    BY <1>6 DEF Words
  <2>2. CASE inst.d \in DOMAIN told
    <3> PICK w : w = told[inst.d]
      OBVIOUS
    <3>1. w \in Word
      BY <2>2, EndedFacts
    <3>2. Allowed(derived, seen, inst.d, w)
      BY <1>2, <2>2 DEF Represented
    <3>3. inst.d \in ExcTerms(func)
      <4>1. inst.d \in {0} \cup ExcTerms(func)
        BY <1>1, <2>2 DEF FreshInv
      <4> QED BY <1>1, <4>1
    <3>4. w \in Given(func, derived, k, seen, env)
      BY <2>1, <3>1, <3>2, <3>3, GivenMeans
    <3> QED BY <1>6, <3>4
  <2>3. CASE inst.d \notin DOMAIN told
    <3>1. func.sites[k] \in Range(func.sites)
      BY DEF Range
    <3>2. PICK w \in Word : Allowed(derived, seen, inst.d, w)
      BY <1>1, <1>2, <1>6, <3>1 DEF Represented
    <3>3. \E x : x \in Given(func, derived, k, seen, env)
      BY <2>1, <3>2, GivenMeans
    <3> QED BY <1>6, <2>3, <3>3
  <2> QED BY <2>2, <2>3
<1> QED BY <1>3, <1>5, <1>6

\* The formulas of one instruction leave room for the run.
LEMMA StandsStep ==
  ASSUME Ended, NEW k \in DOMAIN func.sites, NEW env, Stands(k - 1, env)
  PROVE  \E new : Extends(func, derived, k, seen, env, new) /\ Stands(k, new)
<1> PICK b : b = func.sites[k].b
  OBVIOUS
<1> PICK inst : inst = func.sites[k].inst
  OBVIOUS
<1>1. func \in Funcs /\ b \in DOMAIN func.blocks /\ k \in Nat \ {0} /\ ValueInv
  BY EndedFacts, SiteFacts, SitesAreSeq
<1>2. func.preds[b] \subseteq 1 .. b - 1 => BlockHolds(func, seen, env, b)
  BY BlockStands
<1>3. CASE inst.op = "setexc"
  <2>1. MadeBefore(func, k) = MadeBefore(func, k - 1)
    BY <1>1, <1>3, MadeBeforeStep DEF Defines
  <2>2. Stands(k, env)
    BY <2>1 DEF Stands
  <2>3. Extends(func, derived, k, seen, env, env)
    BY <1>2, <1>3 DEF Extends
  <2> QED BY <2>2, <2>3
<1>4. CASE inst.op = "assert"
  <2>1. MadeBefore(func, k) = MadeBefore(func, k - 1)
    BY <1>1, <1>4, MadeBeforeStep DEF Defines
  <2>2. Stands(k, env)
    BY <2>1 DEF Stands
  <2>3. ASSUME b \in seen PROVE env[inst.a] = 1
    <3>1. PICK i \in DOMAIN CodeOf(func, b) : inst = CodeOf(func, b)[i] /\ InstForm(func, b, i)
      BY <1>1, <1>4, SiteFacts
    <3>2. Executed(b, i) /\ MachineInv /\ Complete
      BY <2>3, EndedFacts
    <3>3. val[inst.a] = 1
      BY <1>1, <1>4, <3>1, <3>2 DEF ValueInv, Fulfilled
    <3>4. inst.a \in Operands(inst)
      BY <1>4 DEF Operands
    <3>5. inst.a \in DOMAIN env
      BY <1>1, <1>4, <3>4, SiteFacts DEF Stands
    <3>6. inst.a \in DOMAIN val
      BY <1>1, <3>1, <3>2, <3>4, ExecutedOperands
    <3>7. Ready(func, b, i - 1, inst.a)
      BY <3>1, <3>4 DEF InstForm
    <3>8. i - 1 \in 0 .. Len(CodeOf(func, b))
      BY <1>1, <3>1, BlockFacts
    <3>9. inst.a # 0
      BY <1>1, <3>7, <3>8, ReadyIsValue
    <3> QED BY <3>3, <3>5, <3>6, <3>9 DEF Stands
  <2>4. Extends(func, derived, k, seen, env, env)
    BY <1>2, <1>4, <2>3 DEF Extends
  <2> QED BY <2>2, <2>4
<1>5. CASE inst.op \notin {"setexc", "assert"}
  <2>1. Defines(inst)
    BY <1>5 DEF Defines
  <2>2. PICK w \in Given(func, derived, k, seen, env) :
            /\ inst.d \in DOMAIN val => w = val[inst.d]
            /\ inst.d \in DOMAIN told => w = told[inst.d]
    BY <2>1, SiteValue
  <2> PICK new : new = With(env, inst.d, w)
    OBVIOUS
  <2>3. MadeBefore(func, k) = {inst.d} \cup MadeBefore(func, k - 1)
    BY <1>1, <2>1, MadeBeforeStep
  <2>4. DOMAIN new = {inst.d} \cup DOMAIN env
    BY DEF With, Override
  <2>5. new[inst.d] = w /\ \A v \in DOMAIN env : v # inst.d => new[v] = env[v]
    BY DEF With, Override
  <2>6. Stands(k, new)
    BY <2>2, <2>3, <2>4, <2>5 DEF Stands
  <2>7. Extends(func, derived, k, seen, env, new)
    BY <1>2, <1>5, <2>2 DEF Extends
  <2> QED BY <2>6, <2>7
<1> QED BY <1>3, <1>4, <1>5

\* The run starts as an assignment may.
LEMMA StandsStart ==
  ASSUME Ended
  PROVE  \E env \in Starts(func, derived, seen) : Stands(0, env)
<1> DEFINE env == [v \in {0} \cup Params(func) |->
                      IF v # 0 THEN val[v] ELSE IF 0 \in DOMAIN told THEN told[0] ELSE 0]
<1>1. func \in Funcs /\ {0} \cup Params(func) \subseteq DOMAIN val /\ ValueInv /\ FreshInv
      /\ (\A v \in DOMAIN val : val[v] \in Word) /\ (\A t \in DOMAIN told : told[t] \in Word)
  BY EndedFacts
<1>2. env \in [{0} \cup Params(func) -> Word]
  BY <1>1, WordFacts
<1>3. 0 \notin Params(func)
  BY DEF Params
<1>4. ASSUME NEW p \in func.contract.refs \cup func.contract.pre PROVE Holds(p, env, 0)
  <2>1. Holds(p, val, 0)
    BY <1>1, <1>4 DEF ValueInv, Satisfied
  <2>2. Mentions(p) \subseteq Params(func)
    BY <1>1, <1>4, FuncsAssumption DEF WellFormed, PredicateForm
  <2>3. p.l \in Term /\ p.r \in Term
    BY <1>1, <1>4, PredicateTerms DEF AllPredicates
  <2>4. \A n \in Mentions(p) : env[n] = val[n]
    BY <1>3, <2>2
  <2> HIDE DEF env
  <2> QED BY <2>1, <2>3, <2>4, HoldsSame
<1>5. \A v \in Params(func) : Allowed(derived, seen, v, env[v])
  <2>1. Represented
    BY DEF Ended
  <2>2. \A v \in Params(func) : env[v] = val[v]
    BY <1>3
  <2> HIDE DEF env
  <2> QED BY <1>1, <2>1, <2>2 DEF Represented
<1>6. env \in Starts(func, derived, seen)
  <2> HIDE DEF env
  <2> QED BY <1>2, <1>4, <1>5 DEF Starts, Satisfied
<1>7. Stands(0, env)
  <2>1. DOMAIN env = MadeBefore(func, 0)
    BY DEF MadeBefore
  <2>2. \A v \in DOMAIN env : v \in DOMAIN val /\ v # 0 => env[v] = val[v]
    OBVIOUS
  <2>3. ASSUME NEW t \in DOMAIN env, t \in DOMAIN told PROVE env[t] = told[t]
    <3>1. CASE t = 0
      BY <2>3, <3>1
    <3>2. CASE t # 0
      <4>1. t \in DOMAIN val
        BY <1>1
      <4>2. told[t] = val[t]
        BY <2>3, <3>2, <4>1, ToldIsValue
      <4> QED BY <3>2, <4>2
    <3> QED BY <3>1, <3>2
  <2> QED BY <2>1, <2>2, <2>3 DEF Stands
<1> QED BY <1>6, <1>7

\* The run is one of the assignments.
LEMMA RunIsAssignment ==
  ASSUME Ended
  PROVE  \E env \in Assignments(func, derived, seen) : Stands(Len(func.sites), env)
<1>0. func \in Funcs
  BY EndedFacts
<1> PICK n \in Nat : n = Len(func.sites) /\ DOMAIN func.sites = 1 .. n
  BY <1>0, SitesAreSeq
<1>1. PICK g : /\ g[0] = Starts(func, derived, seen)
               /\ \A k \in 1 .. n : g[k] = Translate(func, derived, k, seen, g[k - 1])
               /\ Assignments(func, derived, seen) = g[n]
  BY AssignmentsUnfold
<1> DEFINE Ok(k) == \E e \in g[k] : Stands(k, e)
           Bad == {k \in 0 .. n : ~ Ok(k)}
<1>2. Bad = {}
  <2> SUFFICES ASSUME Bad # {} PROVE FALSE
    OBVIOUS
  <2>0. Bad \subseteq Nat
    OBVIOUS
  <2>1. PICK m \in Bad : \A y \in Bad : m <= y
    BY <2>0, LeastNatural
  <2>2. CASE m = 0
    BY <1>1, <2>1, <2>2, StandsStart
  <2>3. CASE m # 0
    <3>1. m - 1 \in 0 .. n /\ m - 1 \notin Bad /\ m \in 1 .. n
      BY <2>1, <2>3
    <3>2. PICK e \in g[m - 1] : Stands(m - 1, e)
      BY <3>1
    <3>3. PICK new : Extends(func, derived, m, seen, e, new) /\ Stands(m, new)
      BY <3>1, <3>2, StandsStep
    <3>4. new \in Translate(func, derived, m, seen, g[m - 1])
      BY <3>2, <3>3, TranslateIs
    <3>5. Ok(m)
      BY <1>1, <3>1, <3>3, <3>4
    <3> QED BY <2>1, <3>5
  <2> QED BY <2>2, <2>3
<1>3. n \in 0 .. n
  OBVIOUS
<1> QED BY <1>1, <1>2, <1>3

\* at the end of the translation, all of it is known
LEMMA KnownAtEnd ==
  ASSUME NEW f \in Funcs, NEW b \in DOMAIN f.blocks, NEW p \in f.preds[b]
  PROVE  /\ f.blocks[p].term.k = "branch" => f.blocks[p].term.c \in MadeBefore(f, Len(f.sites))
         /\ \A phi \in Range(PhisOf(f, b)) : phi.in[p] \in MadeBefore(f, Len(f.sites))
<1>1. p \in DOMAIN f.blocks
  BY BlockFacts
<1>2. BlockForm(f, p) /\ BlockForm(f, b)
  BY <1>1, BlockFacts
<1>3. f.blocks[p].term.k = "branch" => Earlier(f, Len(f.sites) + 1, p, f.blocks[p].term.c)
  BY <1>2 DEF BlockForm
<1>4. \A phi \in Range(PhisOf(f, b)) : Earlier(f, Len(f.sites) + 1, p, phi.in[p])
  BY <1>2 DEF BlockForm
<1> QED BY <1>3, <1>4, EarlierAll

\* the assignment that stands for the whole run
StandsFor(env) == env \in Assignments(func, derived, seen) /\ Stands(Len(func.sites), env)

LEMMA DecidedAtEnd ==
  ASSUME Ended, NEW env, StandsFor(env), NEW b \in DOMAIN func.blocks, NEW p \in func.preds[b]
  PROVE  Decided(p, env)
<1>1. func \in Funcs
  BY EndedFacts
<1> QED BY <1>1, KnownAtEnd DEF Decided, StandsFor, Stands

\* A value of the run has the same word in the assignment.
LEMMA ValueSame ==
  ASSUME Ended, NEW env, StandsFor(env), NEW v \in DOMAIN val, v # 0
  PROVE  env[v] = val[v]
<1>1. func \in Funcs
  BY EndedFacts
<1>2. v \in MadeBefore(func, Len(func.sites))
  <2>1. CASE v \in Params(func)
    BY <2>1 DEF MadeBefore
  <2>2. CASE v \notin Params(func)
    <3>1. PICK k \in DOMAIN func.sites : Defines(func.sites[k].inst) /\ func.sites[k].inst.d = v
      BY <2>2, ValueHasSite
    <3>2. k \in 1 .. Len(func.sites)
      BY <1>1, SitesAreSeq
    <3> QED BY <3>1, <3>2 DEF MadeBefore
  <2> QED BY <2>1, <2>2
<1> QED BY <1>2 DEF StandsFor, Stands

LEMMA ReadySame ==
  ASSUME Ended, NEW env, StandsFor(env), NEW b \in DOMAIN func.blocks,
         NEW n \in 0 .. Len(CodeOf(func, b)), NEW v \in DOMAIN val, Ready(func, b, n, v)
  PROVE  env[v] = val[v]
<1>1. func \in Funcs
  BY EndedFacts
<1> QED BY <1>1, ReadyIsValue, ValueSame

\* The path is one that the solver tries.
LEMMA RunIsPath ==
  ASSUME Ended
  PROVE  seen \in Paths(func)
<1>1. func \in Funcs /\ seen \subseteq DOMAIN func.blocks /\ 1 \in seen /\ PathInv /\ Left = seen
  BY EndedFacts
<1>2. \A b \in seen \ {1} : func.preds[b] \cap seen # {}
  BY <1>1 DEF PathInv
<1>3. ASSUME NEW b \in seen, func.blocks[b].term.k # "return"
      PROVE  Range(func.blocks[b].term.to) \cap seen # {}
  <2>1. PICK c \in seen : Takes(func, val, b, c)
    BY <1>1, <1>3 DEF PathInv
  <2>2. TermForm(func, b)
    BY <1>1, BlockFacts
  <2>3. c \in Range(func.blocks[b].term.to)
    BY <2>1, <2>2 DEF TermForm, Takes, Range
  <2> QED BY <2>3
<1> QED BY <1>1, <1>2, <1>3 DEF Paths

\* An invariant that is true of the run is true of the assignment.
LEMMA InvariantSame ==
  ASSUME Ended, NEW env, StandsFor(env), NEW inv \in func.contract.invs, inv.header \in seen
  PROVE  Holds(inv.pred, env, 0)
<1>1. func \in Funcs /\ MachineInv /\ Started /\ Complete /\ ValueInv
  BY EndedFacts
<1>2. /\ inv.pred \in AllPredicates(func) /\ inv.header \in DOMAIN func.blocks
      /\ Mentions(inv.pred) \subseteq DOMAIN val
  BY <1>1, MentionedThere
<1>3. \A v \in Mentions(inv.pred) : Available(func, v, inv.header)
  BY <1>1, FuncsAssumption DEF WellFormed, PredicateForm
<1>4. 0 \in 0 .. Len(CodeOf(func, inv.header))
  BY <1>1, <1>2, BlockFacts
<1>5. \A v \in Mentions(inv.pred) : env[v] = val[v]
  BY <1>2, <1>3, <1>4, ReadySame DEF Ready
<1>6. Holds(inv.pred, val, 0)
  BY <1>1 DEF ValueInv
<1>7. inv.pred.l \in Term /\ inv.pred.r \in Term
  BY <1>1, <1>2, PredicateTerms
<1> QED BY <1>5, <1>6, <1>7, HoldsSame

LEMMA FlowStands ==
  ASSUME Ended, NEW env, StandsFor(env), NEW m, m = [on |-> seen, env |-> env]
  PROVE  FlowHolds(func, m)
<1>1. func \in Funcs /\ Complete /\ PathInv /\ Left = seen /\ seen \subseteq DOMAIN func.blocks
  BY EndedFacts
<1>2. ASSUME NEW b \in DOMAIN func.blocks PROVE BlockHolds(func, m.on, m.env, b)
  BY DecidedAtEnd, BlockMeans DEF StandsFor
<1>3. ASSUME NEW s \in Range(func.sites), s.inst.op = "phi", s.b \in seen
      PROVE  /\ PhiHolds(func, m.on, m.env, s.b, s.inst, m.env[s.inst.d], DOMAIN func.blocks)
             /\ BackHolds(func, m, s.b)
  <2> PICK b : b = s.b
    OBVIOUS
  <2> PICK phi : phi = s.inst
    OBVIOUS
  <2>1. PICK k \in DOMAIN func.sites : s = func.sites[k]
    BY <1>3 DEF Range
  <2>2. b \in DOMAIN func.blocks /\ b \in seen /\ phi \in Range(PhisOf(func, b))
    BY <1>1, <1>3, <2>1, SiteFacts
  <2>3. \A p \in func.preds[b] \cap DOMAIN func.blocks : Decided(p, env) /\ phi.in[p] \in DOMAIN env
    <3>1. \A p \in func.preds[b] : phi.in[p] \in MadeBefore(func, Len(func.sites))
      BY <1>1, <2>2, KnownAtEnd
    <3> QED BY <2>2, <3>1, DecidedAtEnd DEF StandsFor, Stands
  <2>4. PhiHolds(func, seen, env, b, phi, val[phi.d], DOMAIN func.blocks)
    BY <2>2, <2>3, PhiMeans DEF StandsFor
  <2>5. phi.d \in DOMAIN val
    <3>1. Gives(func, b, phi.d)
      BY <2>2 DEF Gives
    <3> QED BY <1>1, <2>2, <3>1 DEF Complete
  <2>6. phi.d # 0
    <3>1. Defines(phi)
      BY <1>1, <2>2, PhisAndCode
    <3> QED BY <1>1, <2>1, <3>1, SiteFacts
  <2>7. env[phi.d] = val[phi.d]
    BY <2>5, <2>6, ValueSame
  <2>8. BackHolds(func, m, b)
    <3> SUFFICES ASSUME Entries(func, b) # {}, NEW q \in Back(func, b)
                 PROVE  \E p \in Entries(func, b) : EdgeOn(func, m.on, m.env, p, b)
      BY DEF BackHolds
    <3>1. b # 1
      <4>1. func.preds[1] = {}
        BY <1>1, FuncsAssumption DEF WellFormed, GraphForm
      <4> QED BY <4>1 DEF Back
    <3>2. PICK p \in seen \cap func.preds[b] : Followed(func, p, b) /\ Takes(func, val, p, b)
      BY <1>1, <2>2, <3>1 DEF PathInv
    <3>3. IsHeader(func, b)
      BY <2>2 DEF IsHeader, PhisOf, Range
    <3>4. p \in Entries(func, b)
      BY <3>2, <3>3 DEF Followed, Entries
    <3>5. Decided(p, env)
      BY <2>2, <3>2, DecidedAtEnd
    <3>6. EdgeOn(func, seen, env, p, b)
      BY <2>2, <3>2, <3>5, EdgeMeans DEF StandsFor
    <3> QED BY <3>4, <3>6
  <2> QED BY <2>4, <2>7, <2>8
<1>4. InvariantsHold(func, m)
  BY InvariantSame DEF InvariantsHold
<1> QED BY <1>2, <1>3, <1>4 DEF FlowHolds

\* Some assignment that satisfies every formula stands for the run.
LEMMA RunIsModel ==
  ASSUME Ended
  PROVE  \E m \in Models(func, derived) : m.on = seen /\ StandsFor(m.env)
<1>1. PICK env \in Assignments(func, derived, seen) : Stands(Len(func.sites), env)
  BY RunIsAssignment
<1> PICK m : m = [on |-> seen, env |-> env]
  OBVIOUS
<1>2. StandsFor(env) /\ m.on = seen /\ m.env = env
  BY <1>1 DEF StandsFor
<1>3. FlowHolds(func, m)
  BY <1>2, FlowStands
<1>4. m \in Models(func, derived)
  BY <1>1, <1>3, RunIsPath DEF Models
<1> QED BY <1>2, <1>4

-------------------------------------------------------------------------------
(***************************************************************************)
(* The promises: a run that broke one would give the solver an assignment  *)
(* that violates a check.                                                  *)
(***************************************************************************)
\* an instruction of the run: its block is on the path, it has a place in the
\* order of the translation, and its operands have the words of the run
LEMMA RunInstruction ==
  ASSUME Ended, NEW env, StandsFor(env), NEW b \in seen, NEW i \in DOMAIN CodeOf(func, b)
  PROVE  /\ \E s \in Range(func.sites) : s.b = b /\ s.inst = CodeOf(func, b)[i]
         /\ InstForm(func, b, i)
         /\ \A v \in Operands(CodeOf(func, b)[i]) : v \in DOMAIN val /\ env[v] = val[v]
<1>1. func \in Funcs /\ MachineInv /\ Complete /\ b \in DOMAIN func.blocks /\ Executed(b, i)
  BY EndedFacts
<1>2. CodeOf(func, b)[i] \in Range(CodeOf(func, b))
  BY DEF Range
<1>3. \E s \in Range(func.sites) : s.b = b /\ s.inst = CodeOf(func, b)[i]
  <2>1. PICK k \in DOMAIN func.sites : func.sites[k].b = b /\ func.sites[k].inst = CodeOf(func, b)[i]
    BY <1>1, <1>2, SiteOf
  <2> QED BY <2>1 DEF Range
<1>4. InstForm(func, b, i) /\ i - 1 \in 0 .. Len(CodeOf(func, b))
  BY <1>1, BlockFacts
<1>5. \A v \in Operands(CodeOf(func, b)[i]) : v \in DOMAIN val /\ Ready(func, b, i - 1, v)
  BY <1>1, <1>4, ExecutedOperands DEF InstForm
<1> QED BY <1>1, <1>3, <1>4, <1>5, ReadySame

\* no run divides by zero
LEMMA DivNotBroken ==
  ASSUME Ended, NEW m \in Models(func, derived), m.on = seen, StandsFor(m.env),
         NEW b \in seen, NEW i \in DOMAIN CodeOf(func, b),
         CodeOf(func, b)[i].op = "div", val[CodeOf(func, b)[i].b] = 0
  PROVE  SafetyViolated(func, derived, m)
<1> PICK inst : inst = CodeOf(func, b)[i]
  OBVIOUS
<1>1. PICK s \in Range(func.sites) : s.b = b /\ s.inst = inst
  BY RunInstruction
<1>2. inst.b \in Operands(inst)
  BY DEF Operands
<1>3. inst.b \in DOMAIN val /\ m.env[inst.b] = 0
  BY <1>2, RunInstruction
<1>4. ~NeverZero(derived, inst.b)
  <2> SUFFICES ASSUME NeverZero(derived, inst.b) PROVE FALSE
    OBVIOUS
  <2>1. inst.b \in DOMAIN derived.iv /\ (derived.iv[inst.b].low > 0 \/ derived.iv[inst.b].high < 0)
    BY DEF NeverZero
  <2>2. Within(val[inst.b], derived.iv[inst.b])
    BY <1>3, <2>1 DEF Ended, Represented
  <2>3. Within(0, derived.iv[inst.b])
    BY <2>2
  <2> QED BY <2>1, <2>3, WordFacts DEF Within
<1> QED BY <1>1, <1>3, <1>4 DEF SafetyViolated, DivViolated

LEMMA SequenceLength ==
  ASSUME NEW n \in Nat, NEW s, s = [i \in 1 .. n |-> s[i]]
  PROVE  Len(s) = n /\ DOMAIN s = 1 .. n
<1>1. s \in Seq(Range(s))
  BY DEF Range
<1> QED BY <1>1

\* Arguments put in the place of the parameters, none of them named like one
\* that is replaced later: what is checked is what the callee asks.
LEMMA PreconditionMeans ==
  ASSUME NEW f \in Funcs, NEW b, NEW i, CallForm(f, b, i), NEW args, args = CodeOf(f, b)[i].args,
         Apart(ArgPuts(args)), NEW m
  PROVE  PreconditionViolated(f, m, args) <=> ~Satisfied(f.callee.pre, Bound(args, m.env))
<1> PICK n \in Nat : n = Len(args) /\ DOMAIN args = 1 .. n
  BY DEF CallForm
<1> PICK puts : puts = ArgPuts(args)
  OBVIOUS
<1> PICK new : new = Bound(args, m.env)
  OBVIOUS
<1>1. puts = [j \in 1 .. n |-> <<j, args[j]>>]
  BY DEF ArgPuts
<1>2. Len(puts) = n /\ DOMAIN puts = 1 .. n
  <2>1. puts = [j \in 1 .. n |-> puts[j]]
    BY <1>1
  <2> QED BY <2>1, SequenceLength
<1>3. \A j \in DOMAIN puts : new[puts[j][1]] = m.env[puts[j][2]]
  <2>1. \A j \in 1 .. n : puts[j][1] = j /\ puts[j][2] = args[j]
    BY <1>1
  <2>2. \A j \in 1 .. n : new[j] = m.env[args[j]]
    BY DEF Bound
  <2> QED BY <1>2, <2>1, <2>2
<1>4. ASSUME NEW p \in f.callee.pre PROVE Holds(SubstituteArgs(p, args), m.env, 0) = Holds(p, new, 0)
  <2>1. p.l \in Term /\ p.r \in Term
    BY PredicateTerms DEF AllPredicates
  <2>2. Mentions(p) \subseteq DOMAIN args
    BY DEF CallForm
  <2>3. \A v \in Mentions(p) : \E j \in DOMAIN puts : puts[j][1] = v
    BY <1>1, <2>2
  <2>4. Replaces(p, puts, m.env, new)
    BY <1>2, <1>3, <2>1, <2>3 DEF Replaces
  <2> QED BY <2>4, SubstituteReplaces DEF SubstituteArgs
<1> QED BY <1>4 DEF PreconditionViolated, Satisfied

\* no run calls with arguments the callee does not accept
LEMMA ArgumentNotBroken ==
  ASSUME Ended, NEW m \in Models(func, derived), m.on = seen, StandsFor(m.env),
         NEW b \in seen, NEW i \in DOMAIN CodeOf(func, b),
         CodeOf(func, b)[i].op = "call",
         \/ ~ArgumentsFit(CodeOf(func, b)[i], func.callee.refs)
         \/ ~ArgumentsFit(CodeOf(func, b)[i], func.callee.pre)
  PROVE  CallViolated(func, m)
<1> PICK inst : inst = CodeOf(func, b)[i]
  OBVIOUS
<1> PICK args : args = inst.args
  OBVIOUS
<1>0. func \in Funcs
  BY EndedFacts
<1>1. PICK s \in Range(func.sites) : s.b = b /\ s.inst = inst
  BY RunInstruction
<1>2. CallForm(func, b, i)
  BY RunInstruction DEF InstForm
<1> PICK n \in Nat : n = Len(args) /\ DOMAIN args = 1 .. n
  BY <1>2 DEF CallForm
<1>3. \A j \in DOMAIN args : args[j] \in Operands(inst)
  BY DEF Operands, Range
<1>4. \A j \in DOMAIN args : m.env[args[j]] = val[args[j]]
  BY <1>3, RunInstruction
<1>5. Bound(args, m.env) = Bound(args, val)
  BY <1>4 DEF Bound
<1>6. CASE ~ArgumentsFit(inst, func.callee.refs)
  BY <1>1, <1>5, <1>6 DEF ArgumentsFit, ArgumentViolated, CallViolated
<1>7. CASE ~ArgumentsFit(inst, func.callee.pre)
  <2>1. Apart(ArgPuts(args))
    BY <1>1 DEF Ended, Regular, ArgumentsApart
  <2>2. PreconditionViolated(func, m, args)
    BY <1>0, <1>2, <1>5, <1>7, <2>1, PreconditionMeans DEF ArgumentsFit
  <2> QED BY <1>1, <2>2 DEF CallViolated
<1> QED BY <1>6, <1>7

\* What an invariant says of the next visit is the same of the run and of the
\* assignment that stands for it.
LEMMA NextVisitSame ==
  ASSUME Ended, NEW env, StandsFor(env), NEW inv \in func.contract.invs, inv.header \in seen,
         NEW p \in seen, p \in Back(func, inv.header)
  PROVE  Holds(NextVisit(func, inv, p), env, 0) = Holds(NextVisit(func, inv, p), val, 0)
<1> PICK b : b = inv.header
  OBVIOUS
<1> PICK phis : phis = PhisOf(func, b)
  OBVIOUS
<1> PICK puts : puts = PhiPuts(func, b, p)
  OBVIOUS
<1>1. /\ func \in Funcs /\ MachineInv /\ Started /\ Complete /\ b \in DOMAIN func.blocks /\ Finished(p)
      /\ p \in DOMAIN func.blocks /\ b \in seen
  BY EndedFacts
<1> PICK n \in Nat : n = Len(phis) /\ DOMAIN phis = 1 .. n
  BY <1>1, BlockFacts
<1> PICK new : new = Override(val, [d \in {phi.d : phi \in Range(phis)} |->
                        val[(CHOOSE phi \in Range(phis) : phi.d = d).in[p]]])
  OBVIOUS
<1>2. puts = [i \in 1 .. n |-> <<phis[i].d, phis[i].in[p]>>]
  BY DEF PhiPuts, PhisOf
<1>3. Len(puts) = n /\ DOMAIN puts = 1 .. n
  <2>1. puts = [i \in 1 .. n |-> puts[i]]
    BY <1>2
  <2> QED BY <2>1, SequenceLength
<1>4. Apart(puts)
  BY DEF Ended, Regular
<1>5. inv.pred.l \in Term /\ inv.pred.r \in Term /\ Mentions(inv.pred) \subseteq DOMAIN val
  BY <1>1, MentionedThere, PredicateTerms
<1>6. ASSUME NEW v \in Mentions(inv.pred) PROVE env[v] = val[v]
  <2>1. Available(func, v, b)
    BY <1>1, FuncsAssumption DEF WellFormed, PredicateForm
  <2>2. 0 \in 0 .. Len(CodeOf(func, b))
    BY <1>1, BlockFacts
  <2> QED BY <1>1, <1>5, <2>1, <2>2, ReadySame DEF Ready
<1>7. ASSUME NEW phi \in Range(phis)
      PROVE  /\ new[phi.d] = val[phi.in[p]]
             /\ env[phi.in[p]] = val[phi.in[p]]
  <2>1. p \in func.preds[b]
    BY DEF Back
  <2>2. b \in To(func, p)
    BY <1>1, <2>1, BlockFacts
  <2>3. AtEndOf(func, p, phi.in[p])
    BY <1>1, <2>2, EdgeFacts
  <2>4. phi.in[p] \in DOMAIN val
    BY <1>1, <2>3, FinishedValues
  <2>5. Len(CodeOf(func, p)) \in 0 .. Len(CodeOf(func, p))
    BY <1>1, BlockFacts
  <2>6. env[phi.in[p]] = val[phi.in[p]]
    BY <1>1, <2>3, <2>4, <2>5, ReadySame DEF AtEndOf
  <2>7. \A other \in Range(phis) : other.d = phi.d => other = phi
    BY <1>1, PhisAndCode
  <2>8. (CHOOSE other \in Range(phis) : other.d = phi.d) = phi
    BY <2>7
  <2>9. new[phi.d] = val[phi.in[p]]
    BY <2>8 DEF Override
  <2> QED BY <2>6, <2>9
<1>8. ASSUME NEW i \in DOMAIN puts
      PROVE  new[puts[i][1]] = val[puts[i][2]] /\ new[puts[i][1]] = env[puts[i][2]]
  <2>1. i \in 1 .. n
    BY <1>3
  <2>2. PICK phi \in Range(phis) : phi = phis[i]
    BY <2>1 DEF Range
  <2>3. puts[i][1] = phi.d /\ puts[i][2] = phi.in[p]
    BY <1>2, <2>1, <2>2
  <2>4. new[phi.d] = val[phi.in[p]] /\ env[phi.in[p]] = val[phi.in[p]]
    BY <1>7
  <2> QED BY <2>3, <2>4
<1>9. ASSUME NEW v \in Mentions(inv.pred), \A i \in DOMAIN puts : puts[i][1] # v
      PROVE  new[v] = val[v] /\ new[v] = env[v]
  <2>1. \A phi \in Range(phis) : phi.d # v
    <3>1. \A i \in 1 .. n : puts[i][1] = phis[i].d
      BY <1>2
    <3> QED BY <1>3, <1>9, <3>1 DEF Range
  <2>2. new[v] = val[v]
    BY <1>5, <2>1 DEF Override
  <2> QED BY <1>6, <2>2
<1>10. Len(puts) \in Nat /\ DOMAIN puts = 1 .. Len(puts)
  BY <1>3
<1>11. Replaces(inv.pred, puts, val, new)
  BY <1>4, <1>5, <1>8, <1>9, <1>10 DEF Replaces
<1>12. Replaces(inv.pred, puts, env, new)
  BY <1>4, <1>5, <1>8, <1>9, <1>10 DEF Replaces
<1>13. Holds(Substitute(inv.pred, puts), val, 0) = Holds(inv.pred, new, 0)
  BY <1>11, SubstituteReplaces
<1>14. Holds(Substitute(inv.pred, puts), env, 0) = Holds(inv.pred, new, 0)
  BY <1>12, SubstituteReplaces
<1> QED BY <1>13, <1>14 DEF NextVisit

\* no run comes back to a header with its invariant broken
LEMMA PreservedNotBroken ==
  ASSUME Ended, NEW m \in Models(func, derived), m.on = seen, StandsFor(m.env),
         NEW inv \in func.contract.invs, NEW p \in seen, p \in Back(func, inv.header),
         Takes(func, val, p, inv.header), ~Holds(NextVisit(func, inv, p), val, 0)
  PROVE  SafetyViolated(func, derived, m)
<1> PICK b : b = inv.header
  OBVIOUS
<1>1. b \in seen /\ b \in DOMAIN func.blocks /\ p \in func.preds[b]
  BY TakenToSeen, EndedFacts DEF Back
<1>2. Decided(p, m.env)
  BY <1>1, DecidedAtEnd
<1>3. EdgeOn(func, m.on, m.env, p, b)
  BY <1>1, <1>2, EdgeMeans DEF StandsFor
<1>4. ~Holds(NextVisit(func, inv, p), m.env, 0)
  BY <1>1, NextVisitSame
<1>5. InvariantViolated(func, m)
  BY <1>1, <1>3, <1>4 DEF InvariantViolated
<1> QED BY <1>5 DEF SafetyViolated

\* no run returns, with no exception, what its contract excludes
LEMMA ReturnNotBroken ==
  ASSUME Ended, NEW m \in Models(func, derived), m.on = seen, StandsFor(m.env),
         NEW b \in seen, func.blocks[b].term.k = "return",
         LastExcTerm(func) \in DOMAIN told, told[LastExcTerm(func)] = 0,
         NEW p \in func.contract.ret \cup func.contract.post, ~Holds(p, val, val[func.blocks[b].term.v])
  PROVE  ReturnViolated(func, m)
<1> PICK v : v = func.blocks[b].term.v
  OBVIOUS
<1>1. /\ func \in Funcs /\ MachineInv /\ Started /\ Complete /\ b \in DOMAIN func.blocks /\ Finished(b)
      /\ Params(func) \subseteq DOMAIN val
  BY EndedFacts
<1>2. AtEndOf(func, b, v)
  BY <1>1, BlockFacts DEF TermForm
<1>3. v \in DOMAIN val
  BY <1>1, <1>2, FinishedValues
<1>4. Len(CodeOf(func, b)) \in 0 .. Len(CodeOf(func, b))
  BY <1>1, BlockFacts
<1>5. m.env[v] = val[v]
  BY <1>1, <1>2, <1>3, <1>4, ReadySame DEF AtEndOf
<1>6. LastExcTerm(func) \in DOMAIN m.env
  <2>1. Len(func.sites) + 1 \in 1 .. Len(func.sites) + 1 /\ Len(func.sites) + 1 - 1 = Len(func.sites)
    BY <1>1, SitesAreSeq
  <2>2. ExcTerm(func, Len(func.sites) + 1) \in MadeBefore(func, Len(func.sites) + 1 - 1)
    BY <1>1, <2>1, ExcTermBefore
  <2> QED BY <2>1, <2>2 DEF LastExcTerm, StandsFor, Stands
<1>7. m.env[LastExcTerm(func)] = 0
  BY <1>6 DEF StandsFor, Stands
<1>8. p.l \in Term /\ p.r \in Term
  BY <1>1, PredicateTerms DEF AllPredicates
<1>9. Mentions(p) \subseteq Params(func)
  BY <1>1, FuncsAssumption DEF WellFormed, PredicateForm
<1>10. \A x \in Mentions(p) : m.env[x] = val[x]
  <2>1. 0 \notin Params(func)
    BY DEF Params
  <2> QED BY <1>1, <1>9, <2>1, ValueSame
<1>11. Holds(p, m.env, val[v]) = Holds(p, val, val[v])
  BY <1>8, <1>10, HoldsSame
<1>12. ~Holds(p, m.env, m.env[v])
  BY <1>5, <1>11
<1> QED BY <1>7, <1>12 DEF ReturnViolated

\* No run that some assignment stands for breaks what was checked.
LEMMA EndedIsSafe ==
  ASSUME Ended
  PROVE  outcome \notin Checked
<1>1. PICK m \in Models(func, derived) : m.on = seen /\ StandsFor(m.env)
  BY RunIsModel
<1>2. ~SafetyViolated(func, derived, m) /\ ~ReturnViolated(func, m) /\ ~CallViolated(func, m)
  BY DEF Ended, Clean, VerdictInv, SafetyPassed, ReturnsPassed, CallsPassed
<1>3. FaultInv /\ Left = seen
  BY EndedFacts
<1>4. outcome \notin {"div", "argument", "precondition"}
  <2> SUFFICES ASSUME outcome \in {"div", "argument", "precondition"} PROVE FALSE
    OBVIOUS
  <2>0. PICK b \in seen : \E i \in DOMAIN CodeOf(func, b) : Fault(b, i)
    BY <1>3 DEF FaultInv
  <2>1. PICK i \in DOMAIN CodeOf(func, b) : Fault(b, i)
    BY <2>0
  <2>2. CASE CodeOf(func, b)[i].op = "div" /\ val[CodeOf(func, b)[i].b] = 0
    BY <1>1, <1>2, <2>2, DivNotBroken
  <2>3. CASE /\ CodeOf(func, b)[i].op = "call"
             /\ \/ ~ArgumentsFit(CodeOf(func, b)[i], func.callee.refs)
                \/ ~ArgumentsFit(CodeOf(func, b)[i], func.callee.pre)
    BY <1>1, <1>2, <2>3, ArgumentNotBroken
  <2> QED BY <2>1, <2>2, <2>3 DEF Fault
<1>5. outcome # "preserved"
  <2> SUFFICES ASSUME outcome = "preserved" PROVE FALSE
    OBVIOUS
  <2>1. PICK inv \in func.contract.invs, p \in seen :
            p \in Back(func, inv.header) /\ Takes(func, val, p, inv.header) /\ ~Holds(NextVisit(func, inv, p), val, 0)
    BY <1>3 DEF FaultInv
  <2> QED BY <1>1, <1>2, <2>1, PreservedNotBroken
<1>6. outcome \notin {"result", "postcondition"}
  <2> SUFFICES ASSUME outcome \in {"result", "postcondition"} PROVE FALSE
    OBVIOUS
  <2>1. PICK b \in seen :
            /\ func.blocks[b].term.k = "return"
            /\ LastExcTerm(func) \in DOMAIN told /\ told[LastExcTerm(func)] = 0
            /\ \E p \in func.contract.ret \cup func.contract.post : ~Holds(p, val, val[func.blocks[b].term.v])
    BY <1>3 DEF FaultInv
  <2>2. PICK p \in func.contract.ret \cup func.contract.post : ~Holds(p, val, val[func.blocks[b].term.v])
    BY <2>1
  <2> QED BY <1>1, <1>2, <2>1, <2>2, ReturnNotBroken
<1> QED BY <1>4, <1>5, <1>6 DEF Checked

\* A verified function keeps what was checked: every run of it that ends, and
\* that some assignment of the solver may stand for, has divided by no zero,
\* called as the callees ask, come back to its headers with the invariants
\* true, and returned what the contract promises.  Of functions whose loops
\* are all cut at their headers, of any shape, on words of any width.
THEOREM CoveredRunsKeepPromises == Spec => [](Regular(func) => CoveredRunsAreSafe)
<1>1. VerdictInv /\ MachineInv /\ (Regular(func) => EvidenceInv) => (Regular(func) => CoveredRunsAreSafe)
  <2> SUFFICES ASSUME VerdictInv, MachineInv, EvidenceInv, Regular(func), verdict = "verified", Over, ~blind, Represented
               PROVE  outcome \notin Checked
    BY DEF CoveredRunsAreSafe
  <2>1. CASE outcome = "overflow"
    BY <2>1 DEF Checked
  <2>2. CASE outcome # "overflow"
    <3>1. Started
      BY DEF Over, Started
    <3>2. Ended
      BY <2>2, <3>1 DEF Ended, Clean
    <3> QED BY <3>2, EndedIsSafe
  <2> QED BY <2>1, <2>2
<1> QED BY <1>1, EvidenceKnown, PTL

-------------------------------------------------------------------------------
(***************************************************************************)
(* A refusal: on the counterexample the machine does what the assignment   *)
(* says that the check has found, up to the promise that it breaks.        *)
(***************************************************************************)
\* what an instruction on the path says of the values
Means(f, k, on, env) ==
    f.sites[k].b \in on =>
        LET inst == f.sites[k].inst
        IN  /\ inst.op \in Pure \cup {"div"} => env[inst.d] = Computes(inst, env)
            /\ inst.op = "assert" => env[inst.a] = 1
            /\ inst.op = "getexc" => env[inst.d] = env[ExcTerm(f, k)]

\* A translated instruction leaves the values before it alone.
LEMMA ExtendsKeeps ==
  ASSUME NEW f \in Funcs, NEW an, NEW on, NEW k \in DOMAIN f.sites, NEW env, NEW new,
         TypedEnv(f, an, on, k - 1, env), Extends(f, an, k, on, env, new)
  PROVE  /\ \A v \in MadeBefore(f, k - 1) : new[v] = env[v]
         /\ Defines(f.sites[k].inst) => new[f.sites[k].inst.d] \in Given(f, an, k, on, env)
<1> PICK inst : inst = f.sites[k].inst
  OBVIOUS
<1> PICK d : d = inst.d
  OBVIOUS
<1>1. CASE ~Defines(inst)
  BY <1>1 DEF Extends, Defines
<1>2. CASE Defines(inst)
  <2>1. PICK w \in Given(f, an, k, on, env) : new = With(env, d, w)
    BY <1>2 DEF Extends, Defines
  <2>2. d \notin MadeBefore(f, k - 1)
    <3>1. d \notin {0} \cup Params(f)
      BY <1>2, SiteFacts
    <3>2. ASSUME NEW j \in 1 .. k - 1, Defines(f.sites[j].inst), f.sites[j].inst.d = d PROVE FALSE
      <4>1. j \in DOMAIN f.sites /\ j # k
        BY SitesAreSeq
      <4> QED BY <1>2, <3>2, <4>1, OneSite
    <3> QED BY <3>1, <3>2 DEF MadeBefore
  <2>3. new[d] = w /\ \A v \in DOMAIN env : v # d => new[v] = env[v]
    BY <2>1 DEF With, Override
  <2> QED BY <2>2, <2>3 DEF TypedEnv
<1> QED BY <1>1, <1>2

LEMMA MeansNow ==
  ASSUME NEW f \in Funcs, NEW an, NEW on, NEW k \in DOMAIN f.sites, NEW env, NEW new,
         TypedEnv(f, an, on, k - 1, env), Extends(f, an, k, on, env, new)
  PROVE  Means(f, k, on, new)
<1> PICK inst : inst = f.sites[k].inst
  OBVIOUS
<1> PICK b : b = f.sites[k].b
  OBVIOUS
<1>7. /\ \A v \in MadeBefore(f, k - 1) : new[v] = env[v]
      /\ Defines(f.sites[k].inst) => new[f.sites[k].inst.d] \in Given(f, an, k, on, env)
  BY ExtendsKeeps
<1>1. /\ \A v \in MadeBefore(f, k - 1) : new[v] = env[v]
      /\ Defines(inst) => new[inst.d] \in Given(f, an, k, on, env)
  BY <1>7
<1>2. inst.op # "phi" => \A v \in Operands(inst) : v \in MadeBefore(f, k - 1)
  BY SiteFacts
<1>3. ASSUME b \in on, Defines(inst) PROVE new[inst.d] \in Words(f, k, on, env)
  <2>1. Given(f, an, k, on, env) = {w \in Words(f, k, on, env) : Allowed(an, on, inst.d, w)}
    BY <1>3 DEF Given, Words
  <2> QED BY <1>1, <1>3, <2>1
<1>4. ASSUME b \in on, inst.op \in Pure \cup {"div"} PROVE new[inst.d] = Computes(inst, new)
  <2>1. Defines(inst) /\ inst.op \notin {"phi", "call", "getexc"}
    BY <1>4 DEF Defines, Pure, Negate
  <2>2. new[inst.d] = Computes(inst, env)
    BY <1>3, <1>4, <2>1 DEF Words
  <2>3. inst.op # "const" => inst.a \in Operands(inst) /\ inst.b \in Operands(inst)
    BY <1>4 DEF Operands, Pure, Negate
  <2>4. Computes(inst, new) = Computes(inst, env)
    BY <1>1, <1>2, <2>1, <2>3, ComputesSame
  <2> QED BY <2>2, <2>4
<1>5. ASSUME b \in on, inst.op = "assert" PROVE new[inst.a] = 1
  <2>1. new = env /\ env[inst.a] = 1
    BY <1>5 DEF Extends
  <2> QED BY <2>1
<1>6. ASSUME b \in on, inst.op = "getexc" PROVE new[inst.d] = new[ExcTerm(f, k)]
  <2>1. new[inst.d] = env[ExcTerm(f, k)]
    BY <1>3, <1>6 DEF Words, Defines
  <2>2. k \in 1 .. Len(f.sites) + 1
    BY SitesAreSeq
  <2>3. ExcTerm(f, k) \in MadeBefore(f, k - 1)
    BY <2>2, ExcTermBefore
  <2> QED BY <1>1, <2>1, <2>3
<1> QED BY <1>4, <1>5, <1>6 DEF Means

LEMMA MeansKept ==
  ASSUME NEW f \in Funcs, NEW an, NEW on, NEW k \in DOMAIN f.sites, NEW env, NEW new,
         TypedEnv(f, an, on, k - 1, env), Extends(f, an, k, on, env, new),
         NEW j \in 1 .. k - 1, Means(f, j, on, env)
  PROVE  Means(f, j, on, new)
<1> PICK inst : inst = f.sites[j].inst
  OBVIOUS
<1>1. \A v \in MadeBefore(f, k - 1) : new[v] = env[v]
  BY ExtendsKeeps
<1>2. j \in DOMAIN f.sites /\ j \in 1 .. Len(f.sites) + 1 /\ MadeBefore(f, j - 1) \subseteq MadeBefore(f, k - 1)
  <2>1. k \in Nat /\ DOMAIN f.sites = 1 .. Len(f.sites) /\ Len(f.sites) \in Nat
    BY SitesAreSeq
  <2>2. 1 .. j - 1 \subseteq 1 .. k - 1
    BY <2>1
  <2> QED BY <2>1, <2>2 DEF MadeBefore
<1>3. Defines(inst) => inst.d \in MadeBefore(f, k - 1)
  BY DEF MadeBefore
<1>4. inst.op # "phi" => \A v \in Operands(inst) : v \in MadeBefore(f, k - 1)
  BY <1>2, SiteFacts
<1>5. ASSUME f.sites[j].b \in on, inst.op \in Pure \cup {"div"} PROVE new[inst.d] = Computes(inst, new)
  <2>1. Defines(inst) /\ inst.op # "phi"
    BY <1>5 DEF Defines, Pure, Negate
  <2>2. env[inst.d] = Computes(inst, env)
    BY <1>5 DEF Means
  <2>3. inst.op # "const" => inst.a \in Operands(inst) /\ inst.b \in Operands(inst)
    BY <1>5 DEF Operands, Pure, Negate
  <2>4. Computes(inst, new) = Computes(inst, env)
    BY <1>1, <1>4, <2>1, <2>3, ComputesSame
  <2> QED BY <1>1, <1>3, <2>1, <2>2, <2>4
<1>6. ASSUME f.sites[j].b \in on, inst.op = "assert" PROVE new[inst.a] = 1
  <2>1. inst.a \in Operands(inst)
    BY <1>6 DEF Operands
  <2> QED BY <1>1, <1>4, <1>6, <2>1 DEF Means
<1>7. ASSUME f.sites[j].b \in on, inst.op = "getexc" PROVE new[inst.d] = new[ExcTerm(f, j)]
  <2>1. ExcTerm(f, j) \in MadeBefore(f, k - 1)
    BY <1>2, ExcTermBefore
  <2>2. env[inst.d] = env[ExcTerm(f, j)]
    BY <1>7 DEF Means
  <2> QED BY <1>1, <1>3, <1>7, <2>1, <2>2 DEF Defines
<1> QED BY <1>5, <1>6, <1>7 DEF Means

\* An assignment does what every instruction on its path says.
LEMMA AssignmentsMean ==
  ASSUME NEW f \in Funcs, NEW an, NEW on, NEW env \in Assignments(f, an, on)
  PROVE  \A k \in DOMAIN f.sites : Means(f, k, on, env)
<1> PICK n \in Nat : n = Len(f.sites) /\ DOMAIN f.sites = 1 .. n
  BY SitesAreSeq
<1>1. PICK g : /\ g[0] = Starts(f, an, on)
               /\ \A k \in 1 .. n : g[k] = Translate(f, an, k, on, g[k - 1])
               /\ Assignments(f, an, on) = g[n]
  BY AssignmentsUnfold
<1> DEFINE Ok(k) == \A e \in g[k] : TypedEnv(f, an, on, k, e) /\ \A j \in 1 .. k : Means(f, j, on, e)
           Bad == {k \in 0 .. n : ~ Ok(k)}
<1>2. Bad = {}
  <2> SUFFICES ASSUME Bad # {} PROVE FALSE
    OBVIOUS
  <2>0. Bad \subseteq Nat
    OBVIOUS
  <2>1. PICK m \in Bad : \A y \in Bad : m <= y
    BY <2>0, LeastNatural
  <2>2. CASE m = 0
    <3>1. MadeBefore(f, 0) = {0} \cup Params(f)
      BY DEF MadeBefore
    <3>2. \A e \in Starts(f, an, on) : DOMAIN e = {0} \cup Params(f) /\ \A v \in {0} \cup Params(f) : e[v] \in Word
      BY DEF Starts
    <3>4. \A j \in 1 .. 0 : FALSE
      OBVIOUS
    <3>5. \A e \in g[0] : TypedEnv(f, an, on, 0, e)
      BY <1>1, <3>1, <3>2 DEF TypedEnv
    <3>3. Ok(0)
      BY <3>4, <3>5
    <3> QED BY <2>1, <2>2, <3>3
  <2>3. CASE m # 0
    <3>1. m - 1 \in 0 .. n /\ m - 1 \notin Bad /\ m \in 1 .. n
      BY <2>1, <2>3
    <3>2. Ok(m - 1) /\ g[m] = Translate(f, an, m, on, g[m - 1])
      BY <1>1, <3>1
    <3>3. ASSUME NEW e \in g[m]
          PROVE  TypedEnv(f, an, on, m, e) /\ \A j \in 1 .. m : Means(f, j, on, e)
      <4>1. PICK old \in g[m - 1] : Extends(f, an, m, on, old, e)
        BY <3>2, TranslateIs
      <4>2. TypedEnv(f, an, on, m - 1, old) /\ \A j \in 1 .. m - 1 : Means(f, j, on, old)
        BY <3>2
      <4>3. TypedEnv(f, an, on, m, e)
        BY <3>1, <4>1, <4>2, TypedStep
      <4>4. Means(f, m, on, e)
        BY <3>1, <4>1, <4>2, MeansNow
      <4>5. \A j \in 1 .. m - 1 : Means(f, j, on, e)
        BY <3>1, <4>1, <4>2, MeansKept
      <4>6. \A j \in 1 .. m : j = m \/ j \in 1 .. m - 1
        BY <3>1
      <4> QED BY <4>3, <4>4, <4>5, <4>6
    <3> QED BY <2>1, <3>3
  <2> QED BY <2>2, <2>3
<1>3. n \in 0 .. n /\ n \notin Bad
  BY <1>2
<1>4. Ok(n)
  BY <1>3
<1> HIDE DEF Ok
<1> QED BY <1>1, <1>4 DEF Ok

\* What an assignment that satisfies every formula has along its path.
LEMMA ModelMeans ==
  ASSUME NEW f \in Funcs, NEW an, NEW m \in Models(f, an), NEW b \in m.on, NEW i \in DOMAIN CodeOf(f, b)
  PROVE  LET inst == CodeOf(f, b)[i]
         IN  /\ Defines(inst) => inst.d \in DOMAIN m.env
             /\ inst.op \in Pure \cup {"div"} => m.env[inst.d] = Computes(inst, m.env)
             /\ inst.op = "assert" => m.env[inst.a] = 1
             /\ inst.op = "getexc" /\ (\A s \in Range(f.sites) : s.inst.op # "setexc") => m.env[inst.d] = m.env[0]
<1> PICK inst : inst = CodeOf(f, b)[i]
  OBVIOUS
<1>1. /\ b \in DOMAIN f.blocks /\ m.env \in Assignments(f, an, m.on)
      /\ DOMAIN m.env = MadeBefore(f, Len(f.sites))
  BY ModelsTyped DEF TypedEnv
<1>2. inst \in Range(CodeOf(f, b))
  BY DEF Range
<1>3. PICK k \in DOMAIN f.sites : f.sites[k].b = b /\ f.sites[k].inst = inst
  BY <1>1, <1>2, SiteOf
<1>4. Means(f, k, m.on, m.env)
  BY <1>1, AssignmentsMean
<1>5. Defines(inst) => inst.d \in DOMAIN m.env
  <2>1. k \in 1 .. Len(f.sites)
    BY SitesAreSeq
  <2> QED BY <1>1, <1>3, <2>1 DEF MadeBefore
<1>6. ASSUME \A s \in Range(f.sites) : s.inst.op # "setexc" PROVE ExcTerm(f, k) = 0
  <2>1. k \in 1 .. Len(f.sites) + 1 /\ \A j \in 1 .. k - 1 : j \in DOMAIN f.sites
    BY SitesAreSeq
  <2>2. \A j \in 1 .. k - 1 : f.sites[j].inst.op # "setexc"
    BY <1>6, <2>1 DEF Range
  <2> QED BY <2>1, <2>2, ExcTermFacts
<1> QED BY <1>3, <1>4, <1>5, <1>6 DEF Means

LEMMA EdgeTaken ==
  ASSUME NEW f \in Funcs, NEW on, NEW env, NEW p \in DOMAIN f.blocks, NEW b \in To(f, p)
  PROVE  EdgeOn(f, on, env, p, b) <=> p \in on /\ Takes(f, env, p, b)
<1> PICK term : term = f.blocks[p].term
  OBVIOUS
<1>1. TermForm(f, p)
  BY BlockFacts
<1>2. term.k = "jump" => b = term.to[1]
  BY <1>1 DEF TermForm, To, Range
<1>3. term.k = "branch" => b \in {term.to[1], term.to[2]} /\ term.to[1] # term.to[2]
  BY <1>1 DEF TermForm, To, Range
<1>4. term.k \in {"jump", "branch"}
  BY <1>1 DEF TermForm, To, Range
<1>5. EdgeOn(f, on, env, p, b) <=> p \in on /\ (term.k = "branch" => ((env[term.c] = 1) = (b = term.to[1])))
  BY DEF EdgeOn
<1>6. CASE term.k = "jump"
  BY <1>2, <1>5, <1>6 DEF Takes
<1>7. CASE term.k = "branch"
  BY <1>3, <1>5, <1>7 DEF Takes
<1> QED BY <1>4, <1>6, <1>7

\* The path of an assignment goes on where its values say, and its phis have
\* what comes in there.
LEMMA ModelGoesOn ==
  ASSUME NEW f \in Funcs, NEW an, NEW m \in Models(f, an), NEW p \in m.on, NEW b \in To(f, p), Takes(f, m.env, p, b)
  PROVE  /\ b \in m.on
         /\ Back(f, b) = {} => \A phi \in Range(PhisOf(f, b)) : m.env[phi.d] = m.env[phi.in[p]]
<1>1. FlowHolds(f, m) /\ p \in DOMAIN f.blocks
  BY ModelsTyped
<1>2. b \in DOMAIN f.blocks /\ p \in f.preds[b] /\ b # 1
  BY <1>1, EdgeFacts
<1>3. EdgeOn(f, m.on, m.env, p, b)
  BY <1>1, EdgeTaken
<1>4. b \in m.on
  <2>1. BlockHolds(f, m.on, m.env, b)
    BY <1>1, <1>2 DEF FlowHolds
  <2> DEFINE there == \E q \in f.preds[b] : EdgeOn(f, m.on, m.env, q, b)
  <2>2. there
    BY <1>2, <1>3
  <2>3. (b \in m.on) = there
    BY <1>2, <2>1 DEF BlockHolds
  <2> HIDE DEF there
  <2> QED BY <2>2, <2>3
<1>5. ASSUME Back(f, b) = {}, NEW phi \in Range(PhisOf(f, b)) PROVE m.env[phi.d] = m.env[phi.in[p]]
  <2>1. PICK k \in DOMAIN f.sites : f.sites[k].b = b /\ f.sites[k].inst = phi
    BY <1>2, SiteOf
  <2>2. phi.op = "phi"
    BY <1>2, PhisAndCode
  <2>3. f.sites[k] \in Range(f.sites)
    BY DEF Range
  <2>4. PhiHolds(f, m.on, m.env, b, phi, m.env[phi.d], DOMAIN f.blocks)
    BY <1>1, <1>4, <2>1, <2>2, <2>3 DEF FlowHolds
  <2>5. p \in Sources(f, b) \cap DOMAIN f.blocks
    BY <1>1, <1>2, <1>5 DEF Sources
  <2> QED BY <1>3, <2>4, <2>5 DEF PhiHolds
<1> QED BY <1>4, <1>5

Refutes(m) == SafetyViolated(func, derived, m) \/ ReturnViolated(func, m) \/ CallViolated(func, m)
RefutedInv ==
    /\ cex # <<>> => \E m \in Models(func, derived) : cex = m.env /\ Refutes(m)
    /\ ~Started => exc = 0

\* what the machine has done, as long as it has kept its promises
Harmless(inst, env) ==
    /\ inst.op = "div" => env[inst.b] # 0
    /\ inst.op = "call" =>
          Satisfied(func.callee.refs, Bound(inst.args, env)) /\ Satisfied(func.callee.pre, Bound(inst.args, env))
Replays(m) ==
    /\ seen \subseteq m.on
    /\ \A v \in DOMAIN val : v \in DOMAIN m.env /\ val[v] = m.env[v]
    /\ exc = 0
    /\ \A p \in Left : \E b \in seen : Takes(func, m.env, p, b)
    /\ outcome = "none" =>
          /\ \A b, i : Executed(b, i) => Harmless(CodeOf(func, b)[i], m.env)
          /\ \A inv \in func.contract.invs : inv.header \in seen \ {1} => Holds(inv.pred, m.env, 0)
ReplayInv ==
    verdict = "refused" =>
        /\ outcome # "kept"
        /\ at # 0 => /\ Replayable(func)
                     /\ \E m \in Models(func, derived) : cex = m.env /\ Refutes(m) /\ Replays(m)

\* Every step of the machine is one of a run that has started.
LEMMA ExecuteStarts == ASSUME func \in Funcs, MachineInv, Execute PROVE Started'
<1>1. CASE Start
  BY <1>1 DEF Start, Started
<1>2. CASE RunStep
  BY <1>2, RunStepForm DEF StepForm, Started
<1>3. CASE RunJump \/ RunBranch
  <2>1. PICK b : Leaves(b)
    BY <1>3, ControlLeaves
  <2>2. b \in DOMAIN func.blocks /\ b # 0
    BY <2>1, LeaveFacts, BlocksAreSeq
  <2>3. /\ outcome' = First(IF ~Broken(b) THEN "none" ELSE IF at \in Back(func, b) THEN "preserved" ELSE "invariant")
        /\ at' = IF Broken(b) \/ (Unseen(b) /\ outcome' # "none") THEN 0 ELSE b
    BY <2>1, EnterIs DEF Leaves
  <2>4. Broken(b) => outcome' # "none"
    BY <2>3 DEF First
  <2> QED BY <2>2, <2>3, <2>4 DEF Started
<1>4. CASE RunReturn
  BY <1>4 DEF RunReturn, Started, First
<1> QED BY <1>1, <1>2, <1>3, <1>4 DEF Execute, RunStep

LEMMA RefutedStep == ASSUME VerdictInv, MachineInv, RefutedInv, [Next]_vars PROVE RefutedInv'
<1>1. CASE Execute \/ UNCHANGED vars
  <2>1. UNCHANGED <<func, derived, models, phase, verdict, cex>>
    BY <1>1, MachineKeeps
  <2>2. ~Started' => exc' = 0
    <3>1. CASE Execute
      BY <3>1, ExecuteStarts DEF VerdictInv
    <3>2. CASE UNCHANGED vars
      BY <3>2 DEF RefutedInv, Started, vars
    <3> QED BY <1>1, <3>1, <3>2
  <2> QED BY <2>1, <2>2 DEF RefutedInv, Refutes
<1>2. CASE Verify
  <2>1. UNCHANGED <<func, machine>>
    BY <1>2, VerifyMachine
  <2>2. ~Started' => exc' = 0
    BY <2>1 DEF RefutedInv, Started, machine
  <2>3. ASSUME cex' # <<>> PROVE (\E m \in Models(func, derived) : cex = m.env /\ Refutes(m))'
    <3>1. CASE Analyze \/ AskSolver \/ CheckConsistency
      <4>1. cex' = cex /\ phase # "done"
        BY <3>1 DEF Analyze, AskSolver, CheckConsistency
      <4> QED BY <2>3, <4>1 DEF VerdictInv
    <3>2. CASE CheckSafety \/ VerifyReturnRefinements \/ VerifyCallArguments
      <4>1. /\ phase \in {"safety", "returns", "calls"} /\ models = Models(func, derived)
            /\ UNCHANGED <<func, derived>>
        BY <3>2 DEF CheckSafety, VerifyReturnRefinements, VerifyCallArguments, CheckAll, VerdictInv
      <4>2. cex = <<>>
        BY <4>1 DEF VerdictInv
      <4>3. \E m \in models : cex' = m.env /\ Refutes(m)
        BY <2>3, <3>2, <4>2 DEF CheckSafety, VerifyReturnRefinements, VerifyCallArguments, CheckAll, Refuse, Refutes
      <4> QED BY <4>1, <4>3 DEF Refutes
    <3> QED BY <1>2, <3>1, <3>2 DEF Verify
  <2> QED BY <2>2, <2>3 DEF RefutedInv
<1> QED BY <1>1, <1>2 DEF Next

LEMMA StartReplays ==
  ASSUME VerdictInv, MachineInv, RefutedInv, Start
  PROVE  ReplayInv'
<1> SUFFICES ASSUME verdict' = "refused" PROVE ReplayInv'
  BY DEF ReplayInv
<1>1. /\ func \in Funcs /\ at = 0 /\ outcome = "none" /\ at' = 1 /\ pos' = 1 /\ seen' = {1}
      /\ UNCHANGED <<func, derived, models, phase, verdict, cex, exc, told, blind, outcome>>
      /\ verdict = "refused"
  BY DEF VerdictInv, Start, solver
<1>2. /\ Replayable(func)
      /\ val' = [v \in {0} \cup Params(func) |-> IF v = 0 THEN 0 ELSE cex[v]]
  BY <1>1 DEF Start
<1>3. cex # <<>> /\ cex[0] = 0
  BY <1>2 DEF Replayable
<1>4. PICK m \in Models(func, derived) : cex = m.env /\ Refutes(m)
  BY <1>3 DEF RefutedInv
<1>5. 1 \in m.on
  BY <1>1, ModelsTyped DEF Paths
<1>6. {0} \cup Params(func) \subseteq DOMAIN m.env
  BY <1>1, ModelsTyped DEF TypedEnv, MadeBefore
<1>7. \A v \in DOMAIN val' : v \in DOMAIN m.env /\ val'[v] = m.env[v]
  BY <1>2, <1>3, <1>4, <1>6
<1>8. exc' = 0
  BY <1>1 DEF RefutedInv, Started
<1>9. Left' = {}
  BY <1>1 DEF Left
<1>10. \A b, i : ~Executed(b, i)'
  <2>1. 1 \in DOMAIN func.blocks
    BY <1>1, BlocksAreSeq
  <2>2. DOMAIN CodeOf(func, 1) = 1 .. Len(CodeOf(func, 1))
    BY <1>1, <2>1, BlockFacts
  <2>3. \A i \in DOMAIN CodeOf(func, 1) : ~(i < 1)
    BY <2>2
  <2> QED BY <1>1, <2>3 DEF Executed, CodeOf
<1>11. Replays(m)'
  BY <1>1, <1>5, <1>7, <1>8, <1>9, <1>10 DEF Replays
<1>12. Refutes(m)' /\ Replayable(func)' /\ (Models(func, derived))' = Models(func, derived)
  BY <1>1, <1>2, <1>4 DEF Refutes, Replayable
<1> QED BY <1>1, <1>4, <1>11, <1>12 DEF ReplayInv

\* Where the machine executes an instruction, and the assignment with it.
Replaying(m) ==
    /\ func \in Funcs /\ MachineInv /\ at # 0 /\ verdict = "refused" /\ outcome # "kept" /\ Replayable(func)
    /\ m \in Models(func, derived) /\ cex = m.env /\ Refutes(m) /\ Replays(m)

LEMMA ReplayOperands ==
  ASSUME NEW m, Replaying(m), pos \in DOMAIN CodeOf(func, at)
  PROVE  LET inst == CodeOf(func, at)[pos]
         IN  /\ \A v \in Operands(inst) : v \in DOMAIN val /\ val[v] = m.env[v]
             /\ inst.op \in Pure \cup {"div"} => Computes(inst, val) = m.env[inst.d]
             /\ inst.op = "call" => Bound(inst.args, val) = Bound(inst.args, m.env)
             /\ inst.op = "getexc" => m.env[inst.d] = 0
             /\ inst.op # "setexc"
             /\ Defines(inst) => inst.d \in DOMAIN m.env
<1> PICK inst : inst = CodeOf(func, at)[pos]
  OBVIOUS
<1>1. func \in Funcs /\ MachineInv /\ at # 0 /\ at \in m.on /\ m \in Models(func, derived)
  BY AtInstruction DEF Replaying, Replays
<1>2. \A v \in Operands(inst) : v \in DOMAIN val /\ val[v] = m.env[v]
  BY <1>1, AtInstruction DEF Replaying, Replays
<1>3. /\ Defines(inst) => inst.d \in DOMAIN m.env
      /\ inst.op \in Pure \cup {"div"} => m.env[inst.d] = Computes(inst, m.env)
      /\ inst.op = "getexc" /\ (\A s \in Range(func.sites) : s.inst.op # "setexc") => m.env[inst.d] = m.env[0]
  BY <1>1, ModelMeans
<1>4. m.env[0] = 0 /\ \A s \in Range(func.sites) : s.inst.op # "setexc"
  BY DEF Replaying, Replayable
<1>5. ASSUME inst.op \in Pure \cup {"div"} PROVE Computes(inst, val) = m.env[inst.d]
  <2>1. inst.op # "const" => inst.a \in Operands(inst) /\ inst.b \in Operands(inst)
    BY <1>5 DEF Operands, Pure, Negate
  <2>2. Computes(inst, m.env) = Computes(inst, val)
    BY <1>2, <2>1, ComputesSame
  <2> QED BY <1>3, <1>5, <2>2
<1>6. ASSUME inst.op = "call" PROVE Bound(inst.args, val) = Bound(inst.args, m.env)
  <2>1. \A j \in DOMAIN inst.args : inst.args[j] \in Operands(inst)
    BY <1>6 DEF Operands, Range
  <2>2. \A j \in DOMAIN inst.args : val[inst.args[j]] = m.env[inst.args[j]]
    BY <1>2, <2>1
  <2> QED BY <2>2 DEF Bound
<1>7. inst.op # "setexc"
  <2>1. inst \in Range(CodeOf(func, at)) /\ at \in DOMAIN func.blocks
    BY <1>1, AtInstruction DEF Range
  <2>2. PICK k \in DOMAIN func.sites : func.sites[k].inst = inst
    BY <1>1, <2>1, SiteOf
  <2>3. func.sites[k] \in Range(func.sites)
    BY DEF Range
  <2> QED BY <1>4, <2>2, <2>3
<1> QED BY <1>2, <1>3, <1>4, <1>5, <1>6, <1>7

\* The values that a step makes are those of the assignment.
LEMMA StepReplaysValues ==
  ASSUME NEW m, Replaying(m), RunStep
  PROVE  /\ \A v \in DOMAIN val' : v \in DOMAIN m.env /\ val'[v] = m.env[v]
         /\ exc' = 0
<1> PICK inst : inst = CodeOf(func, at)[pos]
  OBVIOUS
<1>1. pos \in DOMAIN CodeOf(func, at)
  BY DEF RunStep, RunPure, RunDiv, RunAssert, RunCall, RunSetExc, RunGetExc, Run, Code, CodeOf
<1>2. /\ inst.op \in Pure \cup {"div"} => Computes(inst, val) = m.env[inst.d]
      /\ inst.op = "getexc" => m.env[inst.d] = 0
      /\ inst.op # "setexc"
      /\ Defines(inst) => inst.d \in DOMAIN m.env
  BY <1>1, ReplayOperands
<1>3. /\ exc = 0 /\ verdict = "refused" /\ cex = m.env
      /\ \A v \in DOMAIN val : v \in DOMAIN m.env /\ val[v] = m.env[v]
  BY DEF Replaying, Replays
<1>4. exc' = 0 /\ (val' = val \/ (Defines(inst) /\ val' = With(val, inst.d, m.env[inst.d])))
  <2>1. CASE RunPure
    <3>1. inst.op \in Pure /\ exc' = exc /\ val' = With(val, inst.d, Computes(inst, val))
      BY <2>1 DEF RunPure, Run, Code, CodeOf
    <3>2. Defines(inst)
      BY <3>1 DEF Defines, Pure, Negate
    <3> QED BY <1>2, <1>3, <3>1, <3>2
  <2>2. CASE RunDiv
    <3>1. inst.op = "div" /\ exc' = exc /\ val' = With(val, inst.d, Computes(inst, val))
      BY <2>2 DEF RunDiv, Run, Code, CodeOf
    <3> QED BY <1>2, <1>3, <3>1 DEF Defines
  <2>3. CASE RunAssert
    BY <1>3, <2>3 DEF RunAssert
  <2>4. CASE RunCall
    <3>1. /\ inst.op = "call" /\ exc' = 0
          /\ \E w : w = cex[inst.d] /\ val' = With(val, inst.d, w)
      BY <1>3, <2>4 DEF RunCall, Run, Code, CodeOf
    <3> QED BY <1>3, <3>1 DEF Defines
  <2>5. CASE RunSetExc
    BY <1>2, <2>5 DEF RunSetExc, Run, Code, CodeOf
  <2>6. CASE RunGetExc
    <3>1. inst.op = "getexc" /\ exc' = exc /\ val' = With(val, inst.d, exc)
      BY <2>6 DEF RunGetExc, Run, Code, CodeOf
    <3> QED BY <1>2, <1>3, <3>1 DEF Defines
  <2> QED BY <2>1, <2>2, <2>3, <2>4, <2>5, <2>6 DEF RunStep
<1>5. ASSUME Defines(inst), val' = With(val, inst.d, m.env[inst.d])
      PROVE  \A v \in DOMAIN val' : v \in DOMAIN m.env /\ val'[v] = m.env[v]
  <2> PICK d : d = inst.d
    OBVIOUS
  <2>1. DOMAIN val' = {d} \cup DOMAIN val /\ val'[d] = m.env[d] /\ \A v \in DOMAIN val : v # d => val'[v] = val[v]
    BY <1>5 DEF With, Override
  <2> QED BY <1>2, <1>3, <1>5, <2>1
<1> QED BY <1>3, <1>4, <1>5

\* An instruction that the machine executes without complaint is harmless in
\* the assignment.
LEMMA StepHarmless ==
  ASSUME NEW m, Replaying(m), RunStep, outcome' = "none"
  PROVE  outcome = "none" /\ Harmless(CodeOf(func, at)[pos], m.env)
<1> PICK inst : inst = CodeOf(func, at)[pos]
  OBVIOUS
<1>1. pos \in DOMAIN CodeOf(func, at)
  BY DEF RunStep, RunPure, RunDiv, RunAssert, RunCall, RunSetExc, RunGetExc, Run, Code, CodeOf
<1>2. /\ \A v \in Operands(inst) : v \in DOMAIN val /\ val[v] = m.env[v]
      /\ inst.op = "call" => Bound(inst.args, val) = Bound(inst.args, m.env)
  BY <1>1, ReplayOperands
<1>3. CASE RunDiv
  <2>1. inst.op = "div" /\ outcome = "none" /\ val[inst.b] # 0
    BY <1>3 DEF RunDiv, Run, Code, CodeOf, First
  <2>2. inst.b \in Operands(inst)
    BY <2>1 DEF Operands
  <2> QED BY <1>2, <2>1, <2>2 DEF Harmless
<1>4. CASE RunCall
  <2>1. /\ inst.op = "call" /\ outcome = "none"
        /\ Satisfied(func.callee.refs, Bound(inst.args, val)) /\ Satisfied(func.callee.pre, Bound(inst.args, val))
    BY <1>4 DEF RunCall, Run, Code, CodeOf, First
  <2> QED BY <1>2, <2>1 DEF Harmless
<1>5. CASE RunPure \/ RunAssert \/ RunSetExc \/ RunGetExc
  <2>1. outcome = "none"
    BY <1>5 DEF RunPure, RunAssert, RunSetExc, RunGetExc, First
  <2>2. inst.op \in Pure \cup {"assert", "setexc", "getexc"}
    BY <1>5 DEF RunPure, RunAssert, RunSetExc, RunGetExc, Run, Code, CodeOf
  <2>3. inst.op \notin {"div", "call"}
    BY <2>2 DEF Pure, Negate
  <2> QED BY <2>1, <2>3 DEF Harmless
<1> QED BY <1>3, <1>4, <1>5 DEF RunStep

LEMMA StepReplays ==
  ASSUME NEW m, Replaying(m), RunStep, at' = at
  PROVE  Replays(m)'
<1>1. func \in Funcs /\ MachineInv /\ StepForm
  BY RunStepForm DEF Replaying
<1>2. seen' = seen /\ func' = func
  BY <1>1 DEF StepForm
<1>3. (\A v \in DOMAIN val' : v \in DOMAIN m.env /\ val'[v] = m.env[v]) /\ exc' = 0
  BY StepReplaysValues
<1>4. seen \subseteq m.on /\ \A p \in Left : \E b \in seen : Takes(func, m.env, p, b)
  BY DEF Replaying, Replays
<1>5. Left' = Left
  BY <1>2 DEF Left
<1>6. ASSUME outcome' = "none", NEW b, NEW i, Executed(b, i)' PROVE Harmless(CodeOf(func, b)[i], m.env)'
  <2>1. outcome = "none" /\ Harmless(CodeOf(func, at)[pos], m.env)
    BY <1>6, StepHarmless
  <2>2. Executed(b, i) \/ (b = at /\ i = pos)
    BY <1>1, <1>6, StepExecutes
  <2>3. Harmless(CodeOf(func, b)[i], m.env)
    BY <2>1, <2>2 DEF Replaying, Replays
  <2> QED BY <1>2, <2>3 DEF Harmless, CodeOf
<1>7. ASSUME outcome' = "none", NEW inv \in func'.contract.invs, inv.header \in seen' \ {1}
      PROVE  Holds(inv.pred, m.env, 0)
  <2>1. outcome = "none"
    BY <1>7, StepHarmless
  <2> QED BY <1>2, <1>7, <2>1 DEF Replaying, Replays
<1>8. \A p \in Left' : \E b \in seen' : Takes(func, m.env, p, b)'
  BY <1>2, <1>4, <1>5 DEF Takes
<1> QED BY <1>2, <1>3, <1>4, <1>6, <1>7, <1>8 DEF Replays

\* Control goes where the path of the assignment goes.
LEMMA LeavesOnPath ==
  ASSUME NEW m, Replaying(m), NEW b, Leaves(b)
  PROVE  /\ Takes(func, m.env, at, b) /\ b \in m.on
         /\ \A d \in DOMAIN Came(b) : d \in DOMAIN m.env /\ Came(b)[d] = m.env[d]
<1>1. /\ func \in Funcs /\ MachineInv /\ m \in Models(func, derived) /\ at \in m.on
      /\ \A v \in DOMAIN val : v \in DOMAIN m.env /\ val[v] = m.env[v]
      /\ Back(func, b) = {}
  <2>1. at \in seen /\ b \in DOMAIN func.blocks
    BY LeaveFacts DEF Replaying
  <2> QED BY <2>1 DEF Replaying, Replays, Replayable
<1>2. at \in DOMAIN func.blocks /\ b \in DOMAIN func.blocks /\ b \in To(func, at)
      /\ \A v : AtEndOf(func, at, v) => v \in DOMAIN val
  BY <1>1, LeaveFacts
<1>3. Takes(func, m.env, at, b)
  <2>1. func.blocks[at].term.k = "branch" => AtEndOf(func, at, func.blocks[at].term.c)
    <3>1. TermForm(func, at)
      BY <1>1, <1>2, BlockFacts
    <3> QED BY <3>1 DEF TermForm
  <2>2. func.blocks[at].term.k = "branch" => m.env[func.blocks[at].term.c] = val[func.blocks[at].term.c]
    BY <1>1, <1>2, <2>1
  <2>3. Takes(func, val, at, b)
    BY DEF Leaves
  <2> QED BY <2>2, <2>3 DEF Takes
<1>4. b \in m.on /\ \A phi \in Range(PhisOf(func, b)) : m.env[phi.d] = m.env[phi.in[at]]
  BY <1>1, <1>2, <1>3, ModelGoesOn
<1>5. ASSUME NEW d \in DOMAIN Came(b) PROVE d \in DOMAIN m.env /\ Came(b)[d] = m.env[d]
  <2>0. DOMAIN Came(b) = {phi.d : phi \in Range(PhisOf(func, b))}
    BY <1>1, CameFacts
  <2>1. PICK phi \in Range(PhisOf(func, b)) : d = phi.d
    BY <1>5, <2>0
  <2>2. Came(b)[phi.d] = val[phi.in[at]] /\ phi.in[at] \in DOMAIN val
    BY <1>1, CameFacts
  <2>3. phi.d \in DOMAIN m.env
    <3>1. PICK k \in DOMAIN func.sites : func.sites[k].inst = phi
      BY <1>1, <1>2, SiteOf
    <3>2. Defines(phi)
      BY <1>1, <1>2, PhisAndCode
    <3>3. k \in 1 .. Len(func.sites)
      BY <1>1, SitesAreSeq
    <3>4. DOMAIN m.env = MadeBefore(func, Len(func.sites))
      BY <1>1, ModelsTyped DEF TypedEnv
    <3> QED BY <3>1, <3>2, <3>3, <3>4 DEF MadeBefore
  <2> QED BY <1>1, <1>4, <2>1, <2>2, <2>3
<1> QED BY <1>3, <1>4, <1>5

LEMMA EnterReplays ==
  ASSUME NEW m, Replaying(m), NEW b, Leaves(b), at' # 0
  PROVE  Replays(m)'
<1>1. /\ func \in Funcs /\ MachineInv /\ Replays(m)
  BY DEF Replaying
<1>2. /\ seen' = seen \cup {b} /\ pos' = 1 /\ UNCHANGED <<func, solver, exc, told>>
      /\ b \in DOMAIN func.blocks /\ b # 1 /\ at \in seen
  BY <1>1, LeaveFacts
<1>3. at' = b /\ ~Broken(b) /\ outcome' = outcome /\ val' = Override(val, Came(b))
  <2>1. /\ outcome' = First(IF ~Broken(b) THEN "none" ELSE IF at \in Back(func, b) THEN "preserved" ELSE "invariant")
        /\ at' = IF Broken(b) \/ (Unseen(b) /\ outcome' # "none") THEN 0 ELSE b
        /\ val' = IF at' = 0 THEN val ELSE Override(val, Came(b))
    BY EnterIs DEF Leaves
  <2> QED BY <2>1 DEF First
<1>4. /\ Takes(func, m.env, at, b) /\ b \in m.on
      /\ \A d \in DOMAIN Came(b) : d \in DOMAIN m.env /\ Came(b)[d] = m.env[d]
  BY LeavesOnPath
<1>5. \A v \in DOMAIN val' : v \in DOMAIN m.env /\ val'[v] = m.env[v]
  <2> PICK came : came = Came(b)
    OBVIOUS
  <2>1. /\ DOMAIN val' = DOMAIN came \cup DOMAIN val
        /\ \A v \in DOMAIN val' : val'[v] = IF v \in DOMAIN came THEN came[v] ELSE val[v]
    BY <1>3 DEF Override
  <2> QED BY <1>1, <1>4, <2>1 DEF Replays
<1>6. ASSUME NEW p \in Left' PROVE \E c \in seen' : Takes(func, m.env, p, c)'
  <2>1. p \in seen /\ (p = at \/ p \in Left)
    BY <1>2, <1>3, <1>6 DEF Left
  <2>2. CASE p = at
    BY <1>2, <1>4, <2>2 DEF Takes
  <2>3. CASE p \in Left
    <3>1. PICK c \in seen : Takes(func, m.env, p, c)
      BY <1>1, <2>3 DEF Replays
    <3> QED BY <1>2, <3>1 DEF Takes
  <2> QED BY <2>1, <2>2, <2>3
<1>7. ASSUME outcome' = "none", NEW c, NEW i, Executed(c, i)' PROVE Harmless(CodeOf(func, c)[i], m.env)'
  <2>1. Executed(c, i)
    BY <1>1, <1>3, <1>7, LeaveExecutes, b # 0, BlocksAreSeq, <1>2
  <2>2. Harmless(CodeOf(func, c)[i], m.env)
    BY <1>1, <1>3, <1>7, <2>1 DEF Replays
  <2> QED BY <1>2, <2>2 DEF Harmless, CodeOf
<1>8. ASSUME outcome' = "none", NEW inv \in func'.contract.invs, inv.header \in seen' \ {1}
      PROVE  Holds(inv.pred, m.env, 0)
  <2>1. CASE inv.header \in seen
    BY <1>1, <1>2, <1>3, <1>8, <2>1 DEF Replays
  <2>2. CASE inv.header = b
    <3>1. Holds(inv.pred, val', 0)
      BY <1>2, <1>3, <2>2 DEF Broken
    <3>2. inv.pred.l \in Term /\ inv.pred.r \in Term
      <4>1. inv.pred \in AllPredicates(func)
        BY <1>2 DEF AllPredicates
      <4> QED BY <1>1, <4>1, PredicateTerms
    <3>3. \A v \in Mentions(inv.pred) : v \in DOMAIN val'
      <4>1. PredicateForm(func)
        BY <1>1, FuncsAssumption DEF WellFormed
      <4>2. \A v \in Mentions(inv.pred) : Available(func, v, b)
        BY <1>2, <2>2, <4>1 DEF PredicateForm
      <4>3. Complete' /\ b \in seen'
        BY <1>1, <1>2, EnterMachine DEF MachineInv
      <4>4. \A v : Available(func, v, b)' = Available(func, v, b)
        BY <1>2 DEF Gives, Available, Dominates, Cuts, Made, To, CodeOf, PhisOf, Params
      <4> QED BY <4>2, <4>3, <4>4 DEF Complete
    <3>4. \A v \in Mentions(inv.pred) : val'[v] = m.env[v]
      BY <1>5, <3>3
    <3> QED BY <3>1, <3>2, <3>4, HoldsSame
  <2> QED BY <1>2, <1>8, <2>1, <2>2
<1> QED BY <1>1, <1>2, <1>4, <1>5, <1>6, <1>7, <1>8 DEF Replays

\* Without back edges, a set of blocks in which each has a predecessor is empty:
\* what reaches a block grows along the edges, so some block has none.
LEMMA NoEndlessWay ==
  ASSUME NEW f \in Funcs, \A b \in DOMAIN f.blocks : Back(f, b) = {},
         NEW X \in SUBSET DOMAIN f.blocks,
         \A b \in X : \E p \in X : p \in f.preds[b]
  PROVE  X = {}
<1> DEFINE B == DOMAIN f.blocks
           Off(b) == B \ f.reach[b]
           T == {Off(b) : b \in X}
           R == StrictSubsetOrdering(B)
<1>1. ASSUME NEW b \in X, NEW p \in X, p \in f.preds[b] PROVE Off(p) \subseteq Off(b) /\ p \in Off(b) \ Off(p)
  <2>1. p \in B /\ b \in B /\ b \in To(f, p)
    BY <1>1, BlockFacts
  <2>2. {p} \cup To(f, p) \subseteq f.reach[p] /\ \A c \in f.reach[p] : f.reach[c] \subseteq f.reach[p]
    BY <2>1, FuncsAssumption DEF WellFormed, GraphForm
  <2>3. f.reach[b] \subseteq f.reach[p] /\ p \in f.reach[p]
    BY <2>1, <2>2
  <2>4. p \notin f.reach[b]
    BY <1>1, <2>1 DEF Back
  <2> QED BY <2>1, <2>3, <2>4
<1>2. IsFiniteSet(B)
  BY BlocksAreSeq, FS_Interval
<1>3. IsWellFoundedOn(R, FiniteSubsetsOf(B)) /\ FiniteSubsetsOf(B) = SUBSET B
  BY <1>2, FS_StrictSubsetOrderingWellFounded, FS_FiniteSubsetsOfFinite
<1> SUFFICES ASSUME X # {} PROVE FALSE
  OBVIOUS
<1>4. T \subseteq SUBSET B /\ T # {}
  OBVIOUS
<1>5. PICK s \in T : \A y \in T : ~ (<<y, s>> \in R)
  <2> HIDE DEF R, T
  <2> QED BY <1>3, <1>4, WFMin
<1>6. PICK b \in X : s = Off(b)
  OBVIOUS
<1>7. PICK p \in X : p \in f.preds[b]
  OBVIOUS
<1>8. Off(p) \subseteq s /\ Off(p) # s
  BY <1>1, <1>6, <1>7
<1>9. <<Off(p), s>> \in R
  BY <1>4, <1>6, <1>8 DEF StrictSubsetOrdering
<1> QED BY <1>5, <1>7, <1>9

\* At the end of the function the path of the assignment is where the machine
\* has been: without loops, what else were on it had no way there.
LEMMA PathIsSeen ==
  ASSUME NEW m, Replaying(m), func.blocks[at].term.k = "return"
  PROVE  m.on \subseteq seen
<1>1. /\ func \in Funcs /\ MachineInv /\ m \in Models(func, derived) /\ at \in seen /\ 1 \in seen
      /\ \A b \in DOMAIN func.blocks : Back(func, b) = {}
      /\ \A p \in Left : \E c \in seen : Takes(func, m.env, p, c)
  BY DEF Replaying, Replayable, Replays, MachineInv, PlaceInv, Started
<1>2. m.on \subseteq DOMAIN func.blocks /\ \A b \in DOMAIN func.blocks : BlockHolds(func, m.on, m.env, b)
  BY <1>1, ModelsTyped DEF FlowHolds
<1>3. ASSUME NEW b \in m.on \ seen PROVE \E p \in m.on \ seen : p \in func.preds[b]
  <2>1. b # 1 /\ b \in DOMAIN func.blocks
    BY <1>1, <1>2, <1>3
  <2> DEFINE way == \E p \in func.preds[b] : EdgeOn(func, m.on, m.env, p, b)
  <2>2. (b \in m.on) = way
    BY <1>2, <2>1 DEF BlockHolds
  <2>3. way
    <3> HIDE DEF way
    <3> QED BY <1>3, <2>2
  <2>4. PICK p \in func.preds[b] : EdgeOn(func, m.on, m.env, p, b)
    BY <2>3
  <2>5. p \in DOMAIN func.blocks /\ b \in To(func, p)
    BY <1>1, <2>1, BlockFacts
  <2>6. p \in m.on /\ Takes(func, m.env, p, b)
    BY <1>1, <2>4, <2>5, EdgeTaken
  <2>7. p \notin seen
    <3>1. CASE p = at
      BY <2>6, <3>1 DEF Takes
    <3>2. CASE p \in Left
      <4>1. PICK c \in seen : Takes(func, m.env, p, c)
        BY <1>1, <3>2
      <4>2. c = b
        BY <2>6, <4>1 DEF Takes
      <4> QED BY <1>3, <4>1, <4>2
    <3> QED BY <3>1, <3>2 DEF Left
  <2> QED BY <2>6, <2>7
<1>4. m.on \ seen = {}
  BY <1>1, <1>2, <1>3, NoEndlessWay
<1> QED BY <1>4

\* At the end every instruction on the path has been executed, harmlessly.
LEMMA EndExecuted ==
  ASSUME NEW m, Replaying(m), pos > Len(CodeOf(func, at)), m.on \subseteq seen, outcome = "none",
         NEW s \in Range(func.sites), s.b \in m.on, s.inst.op # "phi"
  PROVE  /\ \E i \in DOMAIN CodeOf(func, s.b) : s.inst = CodeOf(func, s.b)[i] /\ InstForm(func, s.b, i)
         /\ Harmless(s.inst, m.env)
         /\ s.inst.op = "assert" => m.env[s.inst.a] = 1
<1>1. /\ func \in Funcs /\ MachineInv /\ m \in Models(func, derived) /\ Replays(m)
      /\ pos \in 1 .. Len(CodeOf(func, at)) + 1 /\ at \in DOMAIN func.blocks
  BY DEF Replaying, MachineInv, PlaceInv
<1>2. PICK k \in DOMAIN func.sites : s = func.sites[k]
  BY DEF Range
<1>3. \E i \in DOMAIN CodeOf(func, func.sites[k].b) :
         func.sites[k].inst = CodeOf(func, func.sites[k].b)[i] /\ InstForm(func, func.sites[k].b, i)
  BY <1>1, <1>2, SiteFacts
<1>4. PICK i \in DOMAIN CodeOf(func, s.b) : s.inst = CodeOf(func, s.b)[i] /\ InstForm(func, s.b, i)
  BY <1>2, <1>3
<1>5. Executed(s.b, i)
  <2>1. Len(CodeOf(func, at)) \in Nat /\ DOMAIN CodeOf(func, at) = 1 .. Len(CodeOf(func, at))
    BY <1>1, BlockFacts
  <2>2. s.b = at => i < pos
    BY <1>1, <2>1
  <2> QED BY <2>2 DEF Executed
<1>6. Harmless(s.inst, m.env)
  BY <1>1, <1>4, <1>5 DEF Replays
<1>7. s.inst.op = "assert" => m.env[s.inst.a] = 1
  <2>1. CodeOf(func, s.b)[i].op = "assert" => m.env[CodeOf(func, s.b)[i].a] = 1
    BY <1>1, ModelMeans
  <2> QED BY <1>4, <2>1
<1> QED BY <1>4, <1>6, <1>7

\* What the check has found would have been seen by then.
LEMMA EndSafe ==
  ASSUME NEW m, Replaying(m), pos > Len(CodeOf(func, at)), m.on \subseteq seen, outcome = "none"
  PROVE  ~SafetyViolated(func, derived, m)
<1>1. /\ func \in Funcs /\ m \in Models(func, derived) /\ Replays(m)
      /\ \A b \in DOMAIN func.blocks : Back(func, b) = {}
  BY DEF Replaying, Replayable
<1>2. ASSUME DivViolated(func, derived, m) PROVE FALSE
  <2>1. PICK s \in Range(func.sites) : s.b \in m.on /\ s.inst.op = "div" /\ m.env[s.inst.b] = 0
    BY <1>2 DEF DivViolated
  <2>2. Harmless(s.inst, m.env)
    BY <2>1, EndExecuted
  <2> QED BY <2>1, <2>2 DEF Harmless
<1>3. ASSUME AssertViolated(func, m) PROVE FALSE
  <2>1. PICK s \in Range(func.sites) : s.b \in m.on /\ s.inst.op = "assert" /\ m.env[s.inst.a] # 1
    BY <1>3 DEF AssertViolated
  <2> QED BY <2>1, EndExecuted
<1>4. ASSUME InvariantViolated(func, m) PROVE FALSE
  <2>1. PICK inv \in func.contract.invs : \E p \in func.preds[inv.header] :
            /\ EdgeOn(func, m.on, m.env, p, inv.header)
            /\ ~Holds(IF p \in Back(func, inv.header) THEN NextVisit(func, inv, p) ELSE inv.pred, m.env, 0)
    BY <1>4 DEF InvariantViolated
  <2> PICK h : h = inv.header
    OBVIOUS
  <2>2. h \in DOMAIN func.blocks
    BY <1>1, FuncsAssumption DEF WellFormed, PredicateForm
  <2>3. PICK p \in func.preds[h] : EdgeOn(func, m.on, m.env, p, h) /\ ~Holds(inv.pred, m.env, 0)
    BY <1>1, <2>1, <2>2
  <2>4. p \in DOMAIN func.blocks /\ h \in To(func, p)
    BY <1>1, <2>2, BlockFacts
  <2>5. p \in m.on /\ Takes(func, m.env, p, h)
    BY <1>1, <2>3, <2>4, EdgeTaken
  <2>6. h \in m.on /\ h # 1
    BY <1>1, <2>4, <2>5, ModelGoesOn, EdgeFacts
  <2>7. Holds(inv.pred, m.env, 0)
    BY <1>1, <2>6 DEF Replays
  <2> QED BY <2>3, <2>7
<1> QED BY <1>2, <1>3, <1>4 DEF SafetyViolated

LEMMA EndCallsFit ==
  ASSUME NEW m, Replaying(m), pos > Len(CodeOf(func, at)), m.on \subseteq seen, outcome = "none",
         ArgumentsApart(func)
  PROVE  ~CallViolated(func, m)
<1> SUFFICES ASSUME CallViolated(func, m) PROVE FALSE
  OBVIOUS
<1>1. PICK s \in Range(func.sites) :
          /\ s.b \in m.on /\ s.inst.op = "call"
          /\ ArgumentViolated(func, m, s.inst.args) \/ PreconditionViolated(func, m, s.inst.args)
  BY DEF CallViolated
<1> PICK args : args = s.inst.args
  OBVIOUS
<1>2. PICK i \in DOMAIN CodeOf(func, s.b) : s.inst = CodeOf(func, s.b)[i] /\ InstForm(func, s.b, i)
  BY <1>1, EndExecuted
<1>3. Satisfied(func.callee.refs, Bound(args, m.env)) /\ Satisfied(func.callee.pre, Bound(args, m.env))
  <2>1. Harmless(s.inst, m.env)
    BY <1>1, EndExecuted
  <2> QED BY <1>1, <2>1 DEF Harmless
<1>4. CallForm(func, s.b, i) /\ args = CodeOf(func, s.b)[i].args /\ Apart(ArgPuts(args)) /\ func \in Funcs
  BY <1>1, <1>2 DEF InstForm, ArgumentsApart, Replaying
<1>5. PreconditionViolated(func, m, args) <=> ~Satisfied(func.callee.pre, Bound(args, m.env))
  BY <1>4, PreconditionMeans
<1>6. ~ArgumentViolated(func, m, args)
  BY <1>3 DEF ArgumentViolated
<1> QED BY <1>1, <1>3, <1>5, <1>6

\* The machine does not keep every promise on a counterexample.
LEMMA ReturnNotKept ==
  ASSUME NEW m, Replaying(m), ArgumentsApart(func), RunReturn
  PROVE  outcome' # "kept"
<1> PICK v : v = func.blocks[at].term.v
  OBVIOUS
<1> PICK result : result = val[v]
  OBVIOUS
<1> SUFFICES ASSUME outcome' = "kept" PROVE FALSE
  OBVIOUS
<1>1. /\ func \in Funcs /\ MachineInv /\ m \in Models(func, derived) /\ Replays(m) /\ Refutes(m)
      /\ at # 0 /\ outcome # "kept" /\ at \in DOMAIN func.blocks
  <2>1. outcome # "kept"
    BY DEF Replaying
  <2> QED BY <2>1 DEF Replaying, MachineInv, PlaceInv
<1>2. pos > Len(CodeOf(func, at)) /\ func.blocks[at].term.k = "return"
  BY DEF RunReturn, AtEnd, Code, CodeOf
<1>3. outcome = "none" /\ \A p \in func.contract.ret \cup func.contract.post : Holds(p, val, result)
  BY <1>1 DEF RunReturn, First
<1>4. m.on \subseteq seen
  BY <1>2, PathIsSeen
<1>5. ~SafetyViolated(func, derived, m) /\ ~CallViolated(func, m)
  BY <1>2, <1>3, <1>4, EndSafe, EndCallsFit
<1>6. PICK b \in m.on : /\ func.blocks[b].term.k = "return"
                        /\ \E p \in func.contract.ret \cup func.contract.post :
                              ~Holds(p, m.env, m.env[func.blocks[b].term.v])
  BY <1>1, <1>5 DEF Refutes, ReturnViolated
<1>7. b = at
  <2> SUFFICES ASSUME b # at PROVE FALSE
    OBVIOUS
  <2>1. b \in Left
    BY <1>4 DEF Left
  <2>2. PICK c \in seen : Takes(func, m.env, b, c)
    BY <1>1, <2>1 DEF Replays
  <2> QED BY <1>6, <2>2 DEF Takes
<1>8. m.env[v] = result
  <2>1. AtEndOf(func, at, v)
    BY <1>1, <1>2, BlockFacts DEF TermForm
  <2>2. Len(CodeOf(func, at)) \in Nat /\ Len(CodeOf(func, at)) <= Len(CodeOf(func, at)) /\ pos \in Nat
    <3>1. Len(CodeOf(func, at)) \in Nat /\ pos \in 1 .. Len(CodeOf(func, at)) + 1
      BY <1>1, BlockFacts DEF MachineInv, PlaceInv
    <3> QED BY <3>1
  <2>3. v \in DOMAIN val
    BY <1>1, <1>2, <2>1, <2>2, OperandThere DEF AtEndOf
  <2> QED BY <1>1, <2>3 DEF Replays
<1>9. PICK p \in func.contract.ret \cup func.contract.post : ~Holds(p, m.env, result)
  BY <1>6, <1>7, <1>8
<1>10. p.l \in Term /\ p.r \in Term /\ Mentions(p) \subseteq Params(func)
  <2>1. Mentions(p) \subseteq Params(func)
    BY <1>1, FuncsAssumption DEF WellFormed, PredicateForm
  <2> QED BY <1>1, <2>1, PredicateTerms DEF AllPredicates
<1>11. \A x \in Mentions(p) : m.env[x] = val[x]
  BY <1>1, <1>10 DEF MachineInv, Started, Replays
<1>12. Holds(p, m.env, result) = Holds(p, val, result)
  BY <1>10, <1>11, HoldsSame
<1> QED BY <1>3, <1>9, <1>12

LEMMA ReplayStep ==
  ASSUME VerdictInv, MachineInv, RefutedInv, ArgumentsApart(func), ReplayInv, [Next]_vars
  PROVE  ReplayInv'
<1>0. func \in Funcs
  BY DEF VerdictInv
<1>1. CASE Verify
  <2>1. UNCHANGED machine /\ ~Started
    BY <1>1, VerifyMachine
  <2>2. at' = 0 /\ outcome' = "none"
    BY <2>1 DEF machine, Started
  <2> QED BY <2>2 DEF ReplayInv
<1>2. CASE Start
  BY <1>2, StartReplays
<1>3. CASE Execute \/ UNCHANGED vars
  <2> SUFFICES ASSUME verdict' = "refused", ~Start PROVE ReplayInv'
    BY <1>2 DEF ReplayInv
  <2>1. UNCHANGED <<func, derived, verdict, cex>>
    BY <1>3, MachineKeeps
  <2>2. outcome # "kept"
    BY <2>1 DEF ReplayInv
  <2>3. at # 0 => \E m : Replaying(m)
    BY <1>0, <2>1, <2>2 DEF ReplayInv, Replaying
  <2>4. ASSUME NEW m, Replaying(m), Replays(m)', outcome' # "kept" PROVE ReplayInv'
    <3>1. Replayable(func)' /\ Refutes(m)' /\ Models(func, derived)' = Models(func, derived)
      BY <2>1, <2>4 DEF Replaying, Replayable, Refutes
    <3> QED BY <2>1, <2>4, <3>1 DEF Replaying, ReplayInv
  <2>5. CASE RunStep
    <3>1. StepForm
      BY <1>0, <2>5, RunStepForm
    <3>2. PICK m : Replaying(m)
      BY <2>3, <3>1 DEF StepForm
    <3>3. outcome' # "kept"
      BY <2>2, <2>5 DEF RunStep, RunPure, RunDiv, RunAssert, RunCall, RunSetExc, RunGetExc, First
    <3>4. CASE at' = at
      BY <2>4, <2>5, <3>2, <3>3, <3>4, StepReplays
    <3>5. CASE at' = 0
      BY <3>3, <3>5 DEF ReplayInv
    <3> QED BY <3>1, <3>4, <3>5 DEF StepForm
  <2>6. CASE RunJump \/ RunBranch
    <3>1. PICK b : Leaves(b)
      BY <1>0, <2>6, ControlLeaves
    <3>2. PICK m : Replaying(m)
      BY <2>3, <3>1 DEF Leaves
    <3>3. outcome' # "kept"
      <4>1. outcome' = First(IF ~Broken(b) THEN "none" ELSE IF at \in Back(func, b) THEN "preserved" ELSE "invariant")
        BY <3>1, EnterIs DEF Leaves
      <4> QED BY <2>2, <4>1 DEF First
    <3>4. CASE at' # 0
      BY <2>4, <3>1, <3>2, <3>3, <3>4, EnterReplays
    <3>5. CASE at' = 0
      BY <3>3, <3>5 DEF ReplayInv
    <3> QED BY <3>4, <3>5
  <2>7. CASE RunReturn
    <3>1. at # 0 /\ at' = 0
      BY <2>7 DEF RunReturn, AtEnd, Running
    <3>2. outcome' # "kept"
      BY <2>3, <2>7, <3>1, ReturnNotKept
    <3> QED BY <3>1, <3>2 DEF ReplayInv
  <2>8. CASE UNCHANGED vars
    <3>1. UNCHANGED <<func, derived, verdict, cex, at, pos, val, seen, exc, outcome>>
      BY <2>8 DEF vars
    <3>2. CASE at = 0
      BY <2>2, <3>1, <3>2 DEF ReplayInv
    <3>3. CASE at # 0
      <4>1. PICK m : Replaying(m)
        BY <2>3, <3>3
      <4>2. \A b, i : Executed(b, i)' <=> Executed(b, i)
        BY <3>1 DEF Executed, CodeOf
      <4>3. Replays(m)'
        BY <3>1, <4>1, <4>2 DEF Replaying, Replays, Left, Harmless
      <4> QED BY <2>2, <2>4, <3>1, <4>1, <4>3
    <3> QED BY <3>2, <3>3
  <2> QED BY <1>3, <2>5, <2>6, <2>7, <2>8 DEF Execute, RunStep
<1> QED BY <1>1, <1>2, <1>3 DEF Next

\* A refusal is about a run: where the counterexample determines one, in a
\* function without loops and exceptions, the machine breaks a promise on it,
\* provided that no call passes a value that is named like a later parameter of
\* the callee, and callees have no postconditions.
THEOREM CounterexamplesAreReal == Spec => [](ArgumentsApart(func) => CounterexampleIsReal)
<1> DEFINE IInv == VerdictInv /\ MachineInv /\ RefutedInv /\ (ArgumentsApart(func) => ReplayInv)
<1>1. Init => IInv
  <2>1. Init => RefutedInv /\ ReplayInv
    BY DEF Init, RefutedInv, ReplayInv, Started
  <2> QED BY <2>1, VerdictInit, MachineInit
<1>2. IInv /\ [Next]_vars => IInv'
  <2> SUFFICES ASSUME IInv, [Next]_vars PROVE IInv'
    OBVIOUS
  <2>1. func' = func
    <3>1. CASE Verify
      BY <3>1, VerifyMachine
    <3>2. CASE Execute \/ UNCHANGED vars
      BY <3>2, MachineKeeps
    <3> QED BY <3>1, <3>2 DEF Next
  <2>2. ArgumentsApart(func)' => ArgumentsApart(func)
    BY <2>1
  <2> QED BY <2>2, VerdictStep, MachineStep, RefutedStep, ReplayStep
<1>3. IInv => (ArgumentsApart(func) => CounterexampleIsReal)
  BY DEF ReplayInv, CounterexampleIsReal
<1> QED BY <1>1, <1>2, <1>3, PTL DEF Spec

=============================================================================
