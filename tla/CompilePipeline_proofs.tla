----------------------- MODULE CompilePipeline_proofs -----------------------
(***************************************************************************)
(* Proofs about CompilePipeline, for any set of processes, names and       *)
(* sources, any number of functions in a source, and any bounds.           *)
(***************************************************************************)
EXTENDS CompilePipeline, NumberFacts, TLAPS

----------------------------------------------------------------------------
(***************************************************************************)
(* The inductive invariant.  Native code is never freed or changed, so     *)
(* what is true of code stays true; the registry changes only at the names *)
(* of the source that is being compiled.                                   *)
(***************************************************************************)

\* The names a source calls and does not define.
Outside(d) == Callees(d) \ PartNames(d)

\* s may be the signature of code of the name n.
SigFor(n, s) ==
  \E d \in Def : \E i \in DOMAIN Parts[d] :
    Parts[d][i].name = n /\ \E b \in Flags : Parts[d][i].sig[b] = s

\* The signature that a registry r gives a name, for code cs.
SigIn(cs, r, n) == IF r[n] = 0 THEN NoSig ELSE cs[r[n]].sig

\* ptrs are code of the first functions of the source of k, in order.
PartsAre(cs, k, ptrs) ==
  /\ Len(ptrs) <= Len(Parts[k[1]])
  /\ \A i \in DOMAIN ptrs :
       LET c == cs[ptrs[i]]
           x == Parts[k[1]][i]
       IN  /\ c.name = x.name /\ c.calls = x.calls /\ c.sig = x.sig[k[2]]
           /\ c.def = k[1] /\ c.flag = k[2]

\* No later pointer is code of the same name.
Newest(cs, ptrs, i) ==
  \A j \in DOMAIN ptrs : j > i => cs[ptrs[j]].name # cs[ptrs[i]].name

\* The newest code among ptrs is what is registered under its name.
Registered(cs, r, ptrs) ==
  \A i \in DOMAIN ptrs : Newest(cs, ptrs, i) => r[cs[ptrs[i]].name] = ptrs[i]

\* Dependencies are callees of the source, with signatures they may have.
DepsOf(d, ds) == \A n \in Name : ds[n] # NoSig => n \in Callees(d) /\ SigFor(n, ds[n])

\* A finished compilation: code for all functions of the source, the main one
\* linked to the newest code of the source, and elsewhere to code of the
\* recorded signatures.
EntryOK(cs, k, e) ==
  /\ Len(e.parts) = Len(Parts[k[1]])
  /\ PartsAre(cs, k, e.parts)
  /\ DepsOf(k[1], e.deps)
  /\ LET c == cs[Last(e.parts)] IN
       \A n \in c.calls \ {c.name} :
         /\ c.link[n] # 0
         /\ n \notin PartNames(k[1]) => e.deps[n] = cs[c.link[n]].sig
         /\ \A i \in DOMAIN e.parts :
              Newest(cs, e.parts, i) /\ cs[e.parts[i]].name = n => c.link[n] = e.parts[i]

\* The registry knows a name by code of that name.
RegOK(p) == \A n \in Name : reg[p][n] # 0 =>
  code[p][reg[p][n]].name = n /\ SigFor(n, code[p][reg[p][n]].sig)

\* The call in progress has no answer yet, and as many functions of its source
\* are compiled as its step says, each for the key of the call.
BuildOK(p) ==
  /\ pc[p] # "idle" => answer[p] = 0
  /\ pc[p] \notin {"compile", "store"} => made[p] = <<>>
  /\ pc[p] = "compile" => Len(made[p]) < Len(Parts[Source(p)])
  /\ pc[p] = "store" => Len(made[p]) = Len(Parts[Source(p)])
  /\ PartsAre(code[p], cur[p], made[p])

\* What the call in progress has compiled is registered, and what it calls
\* outside of the source is still what it was when the dependencies were taken.
CallOK(p) ==
  /\ Registered(code[p], reg[p], made[p])
  /\ pc[p] \in {"compile", "store"} =>
       /\ DepsOf(Source(p), deps[p])
       /\ \A n \in Outside(Source(p)) : deps[p][n] = SigIn(code[p], reg[p], n)

\* The main function is linked to what was registered just before it.
MainOK(p) == pc[p] = "store" =>
  LET c == code[p][Last(made[p])]
  IN  \A n \in c.calls \ {c.name} : c.link[n] # 0 /\ c.link[n] = reg[p][n]

L1OK(p) == \A k \in Key : l1[p][k] # NoEntry => EntryOK(code[p], k, l1[p][k])

\* After a call that did not fail, its L1 entry is the answer and still holds.
AnswerOK(p) == pc[p] = "idle" /\ answer[p] # 0 =>
  LET e == l1[p][cur[p]] IN
    /\ e # NoEntry /\ answer[p] = Last(e.parts)
    /\ Registered(code[p], reg[p], e.parts)
    /\ \A n \in Outside(Source(p)) : e.deps[n] # NoSig => SigIn(code[p], reg[p], n) = e.deps[n]

TypeInv == TypeOK /\ \A p \in Proc : BuildOK(p)

ProcInv(p) == BuildOK(p) /\ RegOK(p) /\ CallOK(p) /\ MainOK(p) /\ L1OK(p) /\ AnswerOK(p)
PipelineInv == TypeOK /\ \A p \in Proc : ProcInv(p)

\* Where callers compile the callees first: every entry of the disk was built
\* with all its callees registered, a call in progress is built against what is
\* registered, and all code is linked to the signatures it was built against.
Certified(d, r) == \A n \in Outside(d) : r.deps[n] # NoSig
DiskCertified   == \A k \in Key : disk[k] # NoEntry => Certified(k[1], disk[k])

BuiltOnRegistered(p) == pc[p] # "idle" =>
  \A n \in Outside(Source(p)) :
    /\ reg[p][n] # 0
    /\ pc[p] \in {"verify", "save", "compile"} => ir[p].deps[n] = SigOf(p, n)

LinksOK(p) == \A i \in 1 .. Len(code[p]) :
  LET c == code[p][i] IN \A n \in c.calls \ {c.name} : LinkOK(p, c, n)

VerifiedInv == DiskCertified /\ \A p \in Proc : BuiltOnRegistered(p) /\ LinksOK(p)

\* A function that its own source calls has one signature, however it is
\* redefined and compiled.
StableRecursion ==
  \A d \in Def : \A n \in Callees(d) \cap PartNames(d) :
    \A s, t \in Sig : SigFor(n, s) /\ SigFor(n, t) => s = t

----------------------------------------------------------------------------
\* A sequence of pointers is one also when there is more code.
LEMMA PointersStay ==
  ASSUME NEW m \in Nat, NEW n \in Nat, m <= n, NEW s \in Seq(1 .. m)
  PROVE  s \in Seq(1 .. n)
OBVIOUS

\* The list of pointers a process starts with is empty, whatever it may hold.
LEMMA NoPointers == \A S : <<>> \in Seq(S) /\ Len(<<>>) = 0
OBVIOUS

\* A key names a source and a flag; its source has functions, the main one last.
LEMMA KeyFacts ==
  ASSUME NEW k \in Key
  PROVE  /\ k[1] \in Def /\ k[2] \in Flags /\ k[2] \in BOOLEAN
         /\ k = <<k[1], k[2]>>
         /\ Parts[k[1]] \in Seq(Part)
         /\ Len(Parts[k[1]]) \in Nat \ {0}
         /\ DOMAIN Parts[k[1]] = 1 .. Len(Parts[k[1]])
         /\ Main[k[1]] \in Name
         /\ Parts[k[1]][Len(Parts[k[1]])].name = Main[k[1]]
BY PartsAssumption, FlagsAssumption DEF Key

\* Every function of a source is one.
LEMMA PartFacts ==
  ASSUME NEW d \in Def, NEW i \in DOMAIN Parts[d]
  PROVE  /\ Parts[d][i] \in Part
         /\ Parts[d][i].name \in PartNames(d) /\ Parts[d][i].name \in Name
         /\ Parts[d][i].calls \subseteq Callees(d) /\ Parts[d][i].calls \subseteq Name
         /\ \A b \in BOOLEAN : Parts[d][i].sig[b] \in Sig
<1>1. Parts[d] \in Seq(Part)
  BY PartsAssumption
<1>2. Parts[d][i] \in Part
  BY <1>1
<1> QED BY <1>2 DEF Part, PartNames, Callees

\* A source names functions only.
LEMMA NamesOf ==
  ASSUME NEW d \in Def
  PROVE  Callees(d) \subseteq Name /\ PartNames(d) \subseteq Name
BY PartFacts DEF Callees, PartNames

\* A registered signature is one.
LEMMA SigOfType ==
  ASSUME TypeOK, NEW p \in Proc, NEW n \in Name
  PROVE  /\ SigOf(p, n) \in Sig \cup {NoSig}
         /\ reg[p][n] # 0 => SigOf(p, n) \in Sig
         /\ SigOf(p, n) = NoSig <=> reg[p][n] = 0
<1>1. reg[p][n] \in 1 .. Len(code[p]) \cup {0} /\ code[p] \in Seq(Code)
  BY DEF TypeOK, PointersOK
<1>2. reg[p][n] # 0 => code[p][reg[p][n]] \in Code
  BY <1>1
<1>3. reg[p][n] # 0 => code[p][reg[p][n]].sig \in Sig
  BY <1>2 DEF Code
<1> QED BY <1>3, NoSigAssumption DEF SigOf

\* What collect_dependencies returns are dependencies.
LEMMA CollectType ==
  ASSUME TypeOK, NEW p \in Proc, NEW d
  PROVE  Collect(p, d) \in Deps
BY SigOfType DEF Collect, Deps

\* The verifier's caches are about a function of a source; they are so at the
\* latest when it has looked at one with loops or joins.
LEMMA AnalyseType ==
  ASSUME NEW d \in Def, NEW last \in [name : Name, def : Def] \cup {NoEntry},
         NEW i \in 0 .. Len(Parts[d])
  PROVE  /\ Analyse(last, d, i) \in [name : Name, def : Def] \cup {NoEntry}
         /\ i # 0 /\ Parts[d][i].phis => Analyse(last, d, i) \in [name : Name, def : Def]
<1> DEFINE looked == {j \in 1 .. i : Parts[d][j].phis}
<1>1. i \in Nat /\ looked \in SUBSET Nat /\ \A j \in looked : j <= i
  BY PartsAssumption
<1>2. looked # {} => Max(looked) \in looked
  <2> HIDE DEF looked
  <2> QED BY <1>1, MaxOfBounded
<1>3. looked # {} => Parts[d][Max(looked)].name \in Name
  BY <1>2, PartFacts, PartsAssumption
<1>4. i # 0 /\ Parts[d][i].phis => looked # {}
  BY <1>1
<1> QED BY <1>3, <1>4 DEF Analyse

\* The initial state has the types.
LEMMA TypeInit == Init => TypeOK
BY BoundsAssumption DEF Init, TypeOK, PointersOK, Blank, IR, Deps, Labels

\* The last of the pointers to code of a name, as Register and Store find it.
LEMMA LastNamedFacts ==
  ASSUME NEW p \in Proc, NEW m \in Nat, NEW ptrs \in Seq(1 .. m), NEW n,
         NEW i \in DOMAIN ptrs, code[p][ptrs[i]].name = n
  PROVE  \E l \in DOMAIN ptrs :
           /\ LastNamed(p, ptrs, n) = ptrs[l] /\ ptrs[l] \in 1 .. m
           /\ code[p][ptrs[l]].name = n /\ Newest(code[p], ptrs, l)
<1> DEFINE I == {j \in 1 .. Len(ptrs) : code[p][ptrs[j]].name = n}
<1>1. Len(ptrs) \in Nat /\ DOMAIN ptrs = 1 .. Len(ptrs)
  OBVIOUS
<1>2. I \in SUBSET Nat /\ I # {} /\ \A j \in I : j <= Len(ptrs)
  BY <1>1
<1>3. Max(I) \in I /\ \A j \in I : j <= Max(I)
  <2> HIDE DEF I
  <2> QED BY <1>1, <1>2, MaxOfBounded
<1>4. LastNamed(p, ptrs, n) = ptrs[Max(I)]
  BY <1>2 DEF LastNamed, SelectLastInSeq
<1>5. \A l \in I : l \in DOMAIN ptrs /\ ptrs[l] \in 1 .. m /\ code[p][ptrs[l]].name = n
  BY <1>1
<1>6. \A j \in DOMAIN ptrs : j > Max(I) => j \notin I
  <2> PICK top \in Nat : top = Max(I)
    BY <1>2, <1>3
  <2>1. \A j \in I : j <= top
    BY <1>3
  <2> HIDE DEF I
  <2>2. ASSUME NEW j \in Nat, j > top, j \in I PROVE FALSE
    BY <2>1, <2>2
  <2> QED BY <1>1, <2>2
<1>7. \A j \in DOMAIN ptrs : j > Max(I) => code[p][ptrs[j]].name # n
  BY <1>1, <1>6
<1> QED BY <1>3, <1>4, <1>5, <1>7 DEF Newest

\* A pointer with nothing newer behind it is the last one of its name.
LEMMA NewestIsLast ==
  ASSUME NEW p \in Proc, NEW m \in Nat, NEW ptrs \in Seq(1 .. m),
         NEW i \in DOMAIN ptrs, Newest(code[p], ptrs, i)
  PROVE  LastNamed(p, ptrs, code[p][ptrs[i]].name) = ptrs[i]
<1> DEFINE n == code[p][ptrs[i]].name
<1>1. PICK l \in DOMAIN ptrs : /\ LastNamed(p, ptrs, n) = ptrs[l]
                              /\ code[p][ptrs[l]].name = n /\ Newest(code[p], ptrs, l)
  BY LastNamedFacts
<1>2. ~ (l > i) /\ ~ (i > l) /\ l \in Nat /\ i \in Nat
  BY <1>1 DEF Newest
<1> QED BY <1>1, <1>2

\* A sequence of pointers to code for all functions of a source ends in the main
\* function, and nothing in it is a newer one.
LEMMA MainIsLast ==
  ASSUME NEW p \in Proc, NEW k \in Key, NEW m \in Nat, NEW ptrs \in Seq(1 .. m),
         Len(ptrs) = Len(Parts[k[1]]), PartsAre(code[p], k, ptrs)
  PROVE  /\ Len(ptrs) \in DOMAIN ptrs /\ Last(ptrs) = ptrs[Len(ptrs)]
         /\ Last(ptrs) \in 1 .. m /\ Newest(code[p], ptrs, Len(ptrs))
         /\ code[p][Last(ptrs)].name = Main[k[1]]
         /\ <<code[p][Last(ptrs)].def, code[p][Last(ptrs)].flag>> = k
         /\ code[p][Last(ptrs)].calls \subseteq Callees(k[1])
         /\ LastNamed(p, ptrs, Main[k[1]]) = Last(ptrs)
<1>1. /\ Len(ptrs) \in DOMAIN ptrs /\ ptrs[Len(ptrs)] \in 1 .. m
      /\ \A j \in DOMAIN ptrs : ~ (j > Len(ptrs))
  BY KeyFacts
<1>2. Last(ptrs) = ptrs[Len(ptrs)]
  BY DEF Last
<1>3. /\ code[p][Last(ptrs)].name = Main[k[1]]
      /\ code[p][Last(ptrs)].calls = Parts[k[1]][Len(ptrs)].calls
      /\ code[p][Last(ptrs)].def = k[1] /\ code[p][Last(ptrs)].flag = k[2]
  BY <1>1, <1>2, KeyFacts DEF PartsAre
<1>4. Newest(code[p], ptrs, Len(ptrs))
  BY <1>1 DEF Newest
<1>5. Parts[k[1]][Len(ptrs)].calls \subseteq Callees(k[1])
  BY KeyFacts, PartFacts
<1>6. LastNamed(p, ptrs, Main[k[1]]) = Last(ptrs)
  BY <1>1, <1>2, <1>3, <1>4, NewestIsLast
<1> QED BY <1>1, <1>2, <1>3, <1>4, <1>5, <1>6, KeyFacts

\* What Register makes of a name: the newest of the pointers, if there is one.
LEMMA RegisterFacts ==
  ASSUME NEW p \in Proc, NEW m \in Nat, NEW ptrs \in Seq(1 .. m), NEW n \in Name
  PROVE  \/ /\ \A i \in DOMAIN ptrs : code[p][ptrs[i]].name # n
            /\ Register(p, ptrs)[n] = reg[p][n]
         \/ \E l \in DOMAIN ptrs :
              /\ code[p][ptrs[l]].name = n /\ Newest(code[p], ptrs, l)
              /\ ptrs[l] \in 1 .. m /\ Register(p, ptrs)[n] = ptrs[l]
<1>1. CASE \A i \in DOMAIN ptrs : code[p][ptrs[i]].name # n
  BY <1>1 DEF Register
<1>2. CASE \E i \in DOMAIN ptrs : code[p][ptrs[i]].name = n
  <2>1. Register(p, ptrs)[n] = LastNamed(p, ptrs, n)
    BY <1>2 DEF Register
  <2> QED BY <1>2, <2>1, LastNamedFacts
<1> QED BY <1>1, <1>2

\* The types, process by process.
LEMMA TypesOf ==
  ASSUME TypeOK, NEW p \in Proc
  PROVE  /\ code[p] \in Seq(Code) /\ Len(code[p]) \in Nat
         /\ reg[p] \in [Name -> 1 .. Len(code[p]) \cup {0}]
         /\ \A k \in Key : l1[p][k] # NoEntry =>
              l1[p][k].parts \in Seq(1 .. Len(code[p])) /\ l1[p][k].deps \in Deps
         /\ made[p] \in Seq(1 .. Len(code[p]))
         /\ answer[p] \in 1 .. Len(code[p]) \cup {0}
         /\ cur[p] \in Key /\ Source(p) \in Def /\ cur[p][2] \in BOOLEAN
         /\ ir[p] \in IR /\ deps[p] \in Deps
<1>1. cur[p] \in Key /\ ir[p] \in IR /\ deps[p] \in Deps /\ code[p] \in Seq(Code)
  BY DEF TypeOK
<1>2. /\ reg[p] \in [Name -> Nat] /\ l1[p] \in [Key -> L1Entry \cup {NoEntry}] /\ PointersOK(p)
  BY DEF TypeOK
<1>3. \A k \in Key : l1[p][k] # NoEntry => l1[p][k].deps \in Deps
  BY <1>2 DEF L1Entry
<1>4. Source(p) \in Def /\ cur[p][2] \in BOOLEAN
  BY <1>1, KeyFacts DEF Source
<1>5. reg[p] \in [Name -> 1 .. Len(code[p]) \cup {0}]
  BY <1>2 DEF PointersOK
<1>6. /\ \A k \in Key : l1[p][k] # NoEntry => l1[p][k].parts \in Seq(1 .. Len(code[p]))
      /\ made[p] \in Seq(1 .. Len(code[p])) /\ answer[p] \in 1 .. Len(code[p]) \cup {0}
  BY <1>2 DEF PointersOK
<1>7. Len(code[p]) \in Nat
  BY <1>1
<1> QED BY <1>1, <1>3, <1>4, <1>5, <1>6, <1>7

\* The function that is compiled next is one of the source.
LEMMA CurrentFacts ==
  ASSUME TypeOK, NEW p \in Proc, BuildOK(p), pc[p] = "compile"
  PROVE  /\ Todo(p) \in DOMAIN Parts[Source(p)]
         /\ Current(p) \in Part
         /\ Current(p).name \in PartNames(Source(p)) /\ Current(p).name \in Name
         /\ Current(p).calls \subseteq Callees(Source(p)) /\ Current(p).calls \subseteq Name
         /\ Current(p).sig[cur[p][2]] \in Sig
<1>1. Source(p) \in Def /\ made[p] \in Seq(1 .. Len(code[p])) /\ cur[p][2] \in BOOLEAN
  BY TypesOf
<1>2. Len(made[p]) \in Nat /\ Len(made[p]) < Len(Parts[Source(p)])
  BY <1>1 DEF BuildOK
<1>3. Todo(p) \in DOMAIN Parts[Source(p)]
  BY <1>1, <1>2, PartsAssumption DEF Todo
<1> QED BY <1>1, <1>3, PartFacts DEF Current

\* Every step keeps the types; code is only added, so a pointer stays one.
LEMMA TypeNext == TypeInv /\ [Next]_vars => TypeOK'
<1> SUFFICES ASSUME TypeOK, \A p \in Proc : BuildOK(p), [Next]_vars PROVE TypeOK'
  BY DEF TypeInv
<1> USE DEF Goto
<1>1. ASSUME NEW p \in Proc, NEW d \in Def, NEW flag \in Flags, Call(p, d, flag) PROVE TypeOK'
  <2> DEFINE k == Hash(d, flag)
  <2>1. k \in Key
    BY DEF Hash, Key
  <2>2. CASE Hit(p, k)
    <3> DEFINE ptrs == l1[p][k].parts
    <3>1. ptrs \in Seq(1 .. Len(code[p])) /\ Len(code[p]) \in Nat
      BY <2>1, <2>2, TypesOf DEF Hit
    <3>2. Register(p, ptrs) \in [Name -> 1 .. Len(code[p]) \cup {0}]
      <4> HIDE DEF ptrs
      <4>1. ASSUME NEW n \in Name PROVE Register(p, ptrs)[n] \in 1 .. Len(code[p]) \cup {0}
        <5>1. reg[p][n] \in 1 .. Len(code[p]) \cup {0}
          BY TypesOf
        <5> HIDE DEF k
        <5>2. \/ Register(p, ptrs)[n] = reg[p][n]
              \/ Register(p, ptrs)[n] \in 1 .. Len(code[p])
          BY <3>1, RegisterFacts
        <5> QED BY <5>1, <5>2
      <4>2. Register(p, ptrs) = [n \in Name |-> Register(p, ptrs)[n]]
        BY DEF Register
      <4> QED BY <4>1, <4>2
    <3>3. Main[d] \in Name
      BY PartsAssumption
    <3>4. /\ reg' = [reg EXCEPT ![p] = Register(p, ptrs)]
          /\ answer' = [answer EXCEPT ![p] = reg'[p][Main[d]]]
          /\ cur' = [cur EXCEPT ![p] = k]
          /\ calls' = [calls EXCEPT ![p] = @ + 1] /\ calls[p] < MaxCalls
          /\ UNCHANGED <<pc, disk, code, l1, analysed, ir, made, deps, crashes>>
      BY <1>1, <2>2 DEF Call
    <3>5. \A q \in Proc : PointersOK(q)'
      <4> HIDE DEF ptrs, k
      <4> QED BY <3>2, <3>3, <3>4 DEF TypeOK, PointersOK
    <3>6. Register(p, ptrs) \in [Name -> Nat]
      BY <3>1, <3>2
    <3>7. TypeOK'
      <4> HIDE DEF ptrs, k
      <4> QED BY <2>1, <3>3, <3>4, <3>5, <3>6, BoundsAssumption DEF TypeOK
    <3> QED BY <3>7
  <2>3. CASE ~ Hit(p, k)
    <3>1. /\ answer' = [answer EXCEPT ![p] = 0]
          /\ cur' = [cur EXCEPT ![p] = k]
          /\ pc' = [pc EXCEPT ![p] = "load"]
          /\ calls' = [calls EXCEPT ![p] = @ + 1] /\ calls[p] < MaxCalls
          /\ UNCHANGED <<reg, disk, code, l1, analysed, ir, made, deps, crashes>>
      BY <1>1, <2>3 DEF Call
    <3>2. \A q \in Proc : PointersOK(q)'
      BY <3>1 DEF TypeOK, PointersOK
    <3> HIDE DEF k
    <3> QED BY <2>1, <3>1, <3>2, BoundsAssumption DEF TypeOK, Labels
  <2> QED BY <2>2, <2>3
<1>2. ASSUME NEW p \in Proc, LoadIR(p) PROVE TypeOK'
  <2>1. \A q \in Proc : PointersOK(q)'
    BY <1>2 DEF LoadIR, TypeOK, PointersOK
  <2>2. disk[cur[p]] \in IR \cup {NoEntry}
    BY DEF TypeOK
  <2>3. CASE disk[cur[p]] # NoEntry /\ DepsHold(p, disk[cur[p]].deps)
    <3>1. Collect(p, Source(p)) \in Deps
      BY CollectType
    <3> QED BY <1>2, <2>1, <2>2, <2>3, <3>1 DEF LoadIR, TypeOK, Labels
  <2>4. CASE ~ (disk[cur[p]] # NoEntry /\ DepsHold(p, disk[cur[p]].deps))
    BY <1>2, <2>1, <2>4 DEF LoadIR, TypeOK, Labels
  <2> QED BY <2>3, <2>4
<1>3. ASSUME NEW p \in Proc, Build(p) PROVE TypeOK'
  <2>1. CASE Transform(p)
    <3>1. \A q \in Proc : PointersOK(q)'
      BY <2>1 DEF Transform, TypeOK, PointersOK
    <3>2. [deps |-> Collect(p, Source(p)), cfgs |-> {}] \in IR
      BY CollectType DEF IR
    <3> QED BY <2>1, <3>1, <3>2 DEF Transform, TypeOK, Labels
  <2>2. CASE ParseError(p)
    BY <2>2 DEF ParseError, TypeOK, PointersOK, Labels, callVars
  <2>3. CASE TransformError(p)
    <3>1. \A q \in Proc : PointersOK(q)'
      BY <2>3 DEF TransformError, Forget, TypeOK, PointersOK, callVars
    <3> QED BY <2>3, <3>1 DEF TransformError, Forget, TypeOK, Labels, callVars
  <2>4. CASE VerifyOk(p)
    <3>1. \A q \in Proc : PointersOK(q)'
      BY <2>4 DEF VerifyOk, TypeOK, PointersOK
    <3>2. \A i \in 0 .. Len(Parts[Source(p)]) :
            Analyse(analysed[p], Source(p), i) \in [name : Name, def : Def] \cup {NoEntry}
      BY TypesOf, AnalyseType DEF TypeOK
    <3> DEFINE d == Source(p)
               seen(i) == Analyse(analysed[p], d, i)
               cfgs == {seen(i).def : i \in {j \in DOMAIN Parts[d] : Parts[d][j].phis}}
    <3>3. seen(Len(Parts[d])) \in [name : Name, def : Def] \cup {NoEntry} /\ cfgs \subseteq Def
      <4>1. d \in Def /\ Len(Parts[d]) \in Nat /\ DOMAIN Parts[d] = 1 .. Len(Parts[d])
        BY TypesOf, PartsAssumption
      <4>2. \A i \in DOMAIN Parts[d] : Parts[d][i].phis => seen(i) \in [name : Name, def : Def]
        <5>1. ASSUME NEW i \in DOMAIN Parts[d], Parts[d][i].phis
              PROVE  seen(i) \in [name : Name, def : Def]
          <6>1. i # 0 /\ i \in 0 .. Len(Parts[d]) /\ analysed[p] \in [name : Name, def : Def] \cup {NoEntry}
            BY <4>1 DEF TypeOK
          <6> QED BY <4>1, <5>1, <6>1, AnalyseType
        <5> QED BY <5>1
      <4> QED BY <3>2, <4>1, <4>2
    <3>4. /\ analysed' = [analysed EXCEPT ![p] = seen(Len(Parts[d]))]
          /\ ir' = [ir EXCEPT ![p].cfgs = cfgs]
          /\ pc' = [pc EXCEPT ![p] = "save"]
          /\ UNCHANGED <<disk, reg, code, l1, cur, made, deps, answer, calls, crashes>>
      BY <2>4 DEF VerifyOk
    <3> HIDE DEF seen, cfgs, d
    <3> QED BY <3>1, <3>3, <3>4 DEF TypeOK, Labels, IR
  <2>5. CASE VerifyError(p)
    <3>1. \A q \in Proc : PointersOK(q)'
      BY <2>5 DEF VerifyError, Forget, TypeOK, PointersOK, callVars
    <3>2. PICK i \in DOMAIN Parts[Source(p)] :
            analysed' = [analysed EXCEPT ![p] = Analyse(@, Source(p), i)]
      BY <2>5 DEF VerifyError
    <3>3. i \in 0 .. Len(Parts[Source(p)])
      BY TypesOf, PartsAssumption
    <3>4. Analyse(analysed[p], Source(p), i) \in [name : Name, def : Def] \cup {NoEntry}
      BY <3>3, TypesOf, AnalyseType DEF TypeOK
    <3> QED BY <2>5, <3>1, <3>2, <3>4 DEF VerifyError, Forget, TypeOK, Labels, callVars
  <2> QED BY <1>3, <2>1, <2>2, <2>3, <2>4, <2>5 DEF Build
<1>4. ASSUME NEW p \in Proc, SaveIR(p) PROVE TypeOK'
  <2>1. \A q \in Proc : PointersOK(q)'
    BY <1>4 DEF SaveIR, TypeOK, PointersOK
  <2> QED BY <1>4, <2>1, CollectType DEF SaveIR, TypeOK, Labels
<1>5. ASSUME NEW p \in Proc, Compile(p) PROVE TypeOK'
  <2>1. CASE CompilePart(p)
    <3> DEFINE x   == Current(p)
               ptr == Len(code[p]) + 1
               link == [n \in Name |-> IF n = x.name THEN ptr
                                       ELSE IF n \in x.calls THEN reg[p][n] ELSE 0]
               new == [name |-> x.name, def |-> Source(p), flag |-> cur[p][2],
                       sig |-> x.sig[cur[p][2]], calls |-> x.calls, ir |-> ir[p], link |-> link]
    <3>1. /\ code' = [code EXCEPT ![p] = Append(@, new)]
          /\ reg' = [reg EXCEPT ![p][x.name] = ptr]
          /\ made' = [made EXCEPT ![p] = Append(@, ptr)]
          /\ pc' = [pc EXCEPT ![p] = IF Todo(p) = Len(Parts[Source(p)]) THEN "store" ELSE "compile"]
          /\ UNCHANGED <<disk, l1, analysed, cur, ir, deps, answer, calls, crashes>>
      BY <2>1 DEF CompilePart
    <3>2. x \in Part /\ x.name \in Name /\ x.calls \subseteq Name /\ x.sig[cur[p][2]] \in Sig
      BY <2>1, CurrentFacts DEF CompilePart
    <3>3. ptr \in Nat /\ link \in [Name -> 1 .. ptr \cup {0}]
      BY <3>2, TypesOf
    <3>4. new \in Code
      <4> HIDE DEF x, link
      <4> QED BY <3>2, <3>3, TypesOf DEF Code
    <3>5. PointersOK(p)'
      <4>1. /\ code'[p] = Append(code[p], new) /\ Len(code'[p]) = ptr
            /\ reg'[p] = [reg[p] EXCEPT ![x.name] = ptr]
            /\ made'[p] = Append(made[p], ptr)
            /\ l1'[p] = l1[p] /\ answer'[p] = answer[p]
        <5> HIDE DEF x, new
        <5> QED BY <3>1, <3>2, TypesOf DEF TypeOK
      <4>2. /\ Len(code[p]) \in Nat /\ Len(code[p]) <= ptr /\ ptr \in 1 .. ptr
            /\ \A i \in 1 .. ptr : i = ptr \/ i \in 1 .. Len(code[p])
        BY TypesOf
      <4>3. \A n \in Name : reg'[p][n] \in 1 .. ptr \cup {0}
        BY <3>2, <4>1, <4>2, TypesOf
      <4>4. \A k \in Key : l1'[p][k] # NoEntry => l1'[p][k].parts \in Seq(1 .. ptr)
        BY <4>1, <4>2, TypesOf, PointersStay
      <4>5. made'[p] \in Seq(1 .. ptr)
        <5>1. made[p] \in Seq(1 .. ptr)
          BY <4>2, TypesOf, PointersStay
        <5> QED BY <4>1, <4>2, <5>1
      <4>6. answer'[p] \in 1 .. ptr \cup {0}
        BY <4>1, <4>2, TypesOf
      <4>7. ASSUME NEW i \in 1 .. ptr PROVE code'[p][i].link \in [Name -> 1 .. ptr \cup {0}]
        <5>1. CASE i = ptr
          <6>1. code'[p][i] = new
            BY <4>1, <5>1, TypesOf
          <6> QED BY <3>3, <6>1
        <5>2. CASE i \in 1 .. Len(code[p])
          <6>1. code'[p][i] = code[p][i]
            <7> HIDE DEF new
            <7> QED BY <4>1, <5>2, TypesOf
          <6>2. code[p][i].link \in [Name -> 1 .. Len(code[p]) \cup {0}]
            BY <5>2 DEF TypeOK, PointersOK
          <6> QED BY <4>2, <6>1, <6>2
        <5> QED BY <4>2, <5>1, <5>2
      <4> HIDE DEF ptr, new, x
      <4> QED BY <4>1, <4>3, <4>4, <4>5, <4>6, <4>7 DEF PointersOK
    <3>6. ASSUME NEW q \in Proc, q # p PROVE PointersOK(q)'
      BY <3>1, <3>6 DEF TypeOK, PointersOK
    <3> HIDE DEF new, link, ptr, x
    <3> QED BY <3>1, <3>2, <3>3, <3>4, <3>5, <3>6, SMTT(30) DEF TypeOK, Labels
  <2>2. CASE CompileError(p)
    <3>1. \A q \in Proc : PointersOK(q)'
      BY <2>2, NoPointers DEF CompileError, Fail, Forget, TypeOK, PointersOK
    <3> QED BY <2>2, <3>1 DEF CompileError, Fail, Forget, TypeOK, Labels
  <2>3. CASE LinkPanic(p)
    <3>1. \A q \in Proc : PointersOK(q)'
      BY <2>3, NoPointers DEF LinkPanic, Fail, TypeOK, PointersOK
    <3> QED BY <2>3, <3>1 DEF LinkPanic, Fail, TypeOK, Labels
  <2> QED BY <1>5, <2>1, <2>2, <2>3 DEF Compile
<1>6. ASSUME NEW p \in Proc, Store(p) PROVE TypeOK'
  <2> DEFINE entry == [parts |-> made[p], deps |-> deps[p]]
             main  == LastNamed(p, made[p], Main[Source(p)])
  <2>1. /\ l1' = [l1 EXCEPT ![p][cur[p]] = entry]
        /\ answer' = [answer EXCEPT ![p] = main]
        /\ made' = [made EXCEPT ![p] = <<>>]
        /\ pc' = [pc EXCEPT ![p] = "idle"]
        /\ UNCHANGED <<disk, reg, code, analysed, cur, ir, deps, calls, crashes>>
    BY <1>6 DEF Store
  <2>2. main \in 1 .. Len(code[p])
    <3>1. /\ made[p] \in Seq(1 .. Len(code[p])) /\ Len(code[p]) \in Nat
          /\ Len(made[p]) = Len(Parts[Source(p)])
      BY <1>6, TypesOf DEF Store, BuildOK
    <3>2. cur[p] \in Key /\ PartsAre(code[p], cur[p], made[p])
      BY TypesOf DEF BuildOK
    <3> QED BY <3>1, <3>2, MainIsLast, ZenonT(30) DEF Source
  <2>3. /\ entry.parts \in Seq(1 .. Len(code[p]))
        /\ entry \in L1Entry
    BY TypesOf DEF TypeOK, L1Entry
  <2>4. PointersOK(p)'
    BY <2>1, <2>2, <2>3, NoPointers DEF TypeOK, PointersOK
  <2>5. ASSUME NEW q \in Proc, q # p PROVE PointersOK(q)'
    BY <2>1, <2>5 DEF TypeOK, PointersOK
  <2> HIDE DEF entry, main
  <2> QED BY <2>1, <2>2, <2>3, <2>4, <2>5, TypesOf DEF TypeOK, Labels
<1>7. ASSUME NEW p \in Proc, Crash(p) PROVE TypeOK'
  <2>1. \A q \in Proc : PointersOK(q)'
    <3>1. PointersOK(p)'
      BY <1>7, NoPointers DEF Crash, TypeOK, PointersOK
    <3>2. ASSUME NEW q \in Proc, q # p PROVE PointersOK(q)'
      BY <1>7, <3>2, NoPointers DEF Crash, TypeOK, PointersOK
    <3> QED BY <3>1, <3>2
  <2> QED BY <1>7, <2>1, BoundsAssumption DEF Crash, TypeOK, Labels
<1>8. ASSUME NEW k \in Key, Vanish(k) PROVE TypeOK'
  BY <1>8 DEF Vanish, TypeOK, PointersOK, callVars
<1>9. CASE UNCHANGED vars
  BY <1>9 DEF vars, callVars, TypeOK, PointersOK
<1> QED BY <1>1, <1>2, <1>3, <1>4, <1>5, <1>6, <1>7, <1>8, <1>9 DEF Next, Step, Terminated

----------------------------------------------------------------------------
(***************************************************************************)
(* What is said of code stays true when code is added.                     *)
(***************************************************************************)
LEMMA PartsStay ==
  ASSUME NEW cs, NEW ds, NEW m \in Nat, \A i \in 1 .. m : ds[i] = cs[i],
         NEW ptrs \in Seq(1 .. m)
  PROVE  /\ \A k \in Key : PartsAre(cs, k, ptrs) => PartsAre(ds, k, ptrs)
         /\ \A i \in DOMAIN ptrs : Newest(ds, ptrs, i) <=> Newest(cs, ptrs, i)
<1>1. \A i \in DOMAIN ptrs : ds[ptrs[i]] = cs[ptrs[i]]
  OBVIOUS
<1> QED BY <1>1 DEF PartsAre, Newest

\* What an entry of a cache says of code objects is still true when there are
\* more of them: code is never changed.
LEMMA EntryStays ==
  ASSUME NEW cs, NEW ds, NEW m \in Nat, \A i \in 1 .. m : ds[i] = cs[i],
         \A i \in 1 .. m : cs[i].calls \subseteq Name /\ cs[i].link \in [Name -> 1 .. m \cup {0}],
         NEW k \in Key, NEW e, e.parts \in Seq(1 .. m), EntryOK(cs, k, e)
  PROVE  EntryOK(ds, k, e)
<1>1. Last(e.parts) \in 1 .. m
  <2>1. Len(e.parts) \in Nat \ {0}
    BY KeyFacts DEF EntryOK
  <2> QED BY <2>1 DEF Last
<1>2. ds[Last(e.parts)] = cs[Last(e.parts)]
  BY <1>1
<1>3. \A n \in cs[Last(e.parts)].calls : LET l == cs[Last(e.parts)].link[n] IN
        l # 0 => ds[l] = cs[l]
  BY <1>1
<1>4. /\ PartsAre(ds, k, e.parts)
      /\ \A i \in DOMAIN e.parts : Newest(ds, e.parts, i) <=> Newest(cs, e.parts, i)
  BY PartsStay DEF EntryOK
<1>5. \A i \in DOMAIN e.parts : ds[e.parts[i]] = cs[e.parts[i]]
  OBVIOUS
<1> QED BY <1>2, <1>3, <1>4, <1>5 DEF EntryOK

\* What collect_dependencies returns are the callees with what they have now.
LEMMA CollectFacts ==
  ASSUME TypeOK, NEW p \in Proc, RegOK(p)
  PROVE  /\ DepsOf(Source(p), Collect(p, Source(p)))
         /\ \A n \in Outside(Source(p)) :
              Collect(p, Source(p))[n] = SigIn(code[p], reg[p], n)
<1>1. \A n \in Name : Collect(p, Source(p))[n] # NoSig =>
        n \in Callees(Source(p)) /\ SigFor(n, Collect(p, Source(p))[n])
  BY DEF Collect, SigOf, RegOK
<1>2. Callees(Source(p)) \subseteq Name
  BY TypesOf, NamesOf
<1> QED BY <1>1, <1>2 DEF DepsOf, Outside, Collect, SigOf, SigIn

----------------------------------------------------------------------------
(***************************************************************************)
(* A step is one of one process; the others keep what the invariant is     *)
(* about.                                                                  *)
(***************************************************************************)
Same(q) == /\ code'[q] = code[q] /\ reg'[q] = reg[q] /\ l1'[q] = l1[q]
           /\ pc'[q] = pc[q] /\ cur'[q] = cur[q] /\ made'[q] = made[q]
           /\ ir'[q] = ir[q] /\ deps'[q] = deps[q] /\ answer'[q] = answer[q]

\* A process whose variables do not change keeps its invariant.
LEMMA SameKeeps ==
  ASSUME NEW q \in Proc, Same(q), ProcInv(q)
  PROVE  ProcInv(q)'
BY DEF Same, ProcInv, BuildOK, RegOK, CallOK, MainOK, L1OK, AnswerOK, Source

\* A step of p is a step of nobody else.
LEMMA OthersSame ==
  ASSUME TypeOK, NEW p \in Proc, NEW q \in Proc, q # p,
         (\E d \in Def, flag \in Flags : Call(p, d, flag)) \/ Step(p) \/ Crash(p)
  PROVE  Same(q)
<1> USE DEF TypeOK, Same, Goto, Forget, Fail, callVars
<1>1. CASE \E d \in Def, flag \in Flags : Call(p, d, flag)
  BY <1>1 DEF Call
<1>2. CASE LoadIR(p) \/ SaveIR(p) \/ Store(p) \/ Crash(p)
  BY <1>2 DEF LoadIR, SaveIR, Store, Crash
<1>3. CASE Transform(p) \/ ParseError(p) \/ TransformError(p) \/ VerifyOk(p) \/ VerifyError(p)
  BY <1>3 DEF Transform, ParseError, TransformError, VerifyOk, VerifyError
<1>4. CASE CompileError(p) \/ LinkPanic(p)
  BY <1>4 DEF CompileError, LinkPanic
<1>5. CASE CompilePart(p)
  BY <1>5 DEF CompilePart
<1> QED BY <1>1, <1>2, <1>3, <1>4, <1>5 DEF Step, Build, Compile

\* A step at which no code is made and none is registered, and the call goes on
\* before the compilation or ends without an answer.
LEMMA QuietKeeps ==
  ASSUME TypeOK, NEW p \in Proc, ProcInv(p), pc[p] # "idle",
         code'[p] = code[p] /\ reg'[p] = reg[p] /\ cur'[p] = cur[p] /\ answer'[p] = answer[p],
         \A k \in Key : l1'[p][k] \in {l1[p][k], NoEntry},
         pc'[p] \notin {"compile", "store"} /\ made'[p] = <<>>
  PROVE  ProcInv(p)'
<1>1. answer'[p] = 0
  BY DEF ProcInv, BuildOK
<1>2. BuildOK(p)'
  BY <1>1, TypesOf, KeyFacts, NoPointers DEF ProcInv, BuildOK, PartsAre, Source
<1>3. RegOK(p)'
  BY DEF ProcInv, RegOK
<1>4. CallOK(p)'
  BY NoPointers DEF ProcInv, CallOK, Registered
<1>5. MainOK(p)' /\ AnswerOK(p)'
  BY <1>1 DEF ProcInv, MainOK, AnswerOK
<1>6. L1OK(p)'
  BY DEF ProcInv, L1OK
<1> QED BY <1>2, <1>3, <1>4, <1>5, <1>6 DEF ProcInv

\* The compilation begins: the dependencies have just been collected.
LEMMA BeginKeeps ==
  ASSUME TypeOK, NEW p \in Proc, ProcInv(p), pc[p] \in {"load", "save"},
         code'[p] = code[p] /\ reg'[p] = reg[p] /\ cur'[p] = cur[p] /\ answer'[p] = answer[p],
         l1'[p] = l1[p] /\ made'[p] = made[p],
         deps'[p] = Collect(p, Source(p)), pc'[p] = "compile"
  PROVE  ProcInv(p)'
<1>1. answer'[p] = 0 /\ made'[p] = <<>>
  BY DEF ProcInv, BuildOK
<1>2. BuildOK(p)'
  BY <1>1, TypesOf, KeyFacts, NoPointers DEF ProcInv, BuildOK, PartsAre, Source
<1>3. RegOK(p)' /\ L1OK(p)'
  BY DEF ProcInv, RegOK, L1OK
<1>4. CallOK(p)'
  BY <1>1, CollectFacts, NoPointers DEF ProcInv, CallOK, Registered, Source
<1>5. MainOK(p)' /\ AnswerOK(p)'
  BY DEF MainOK, AnswerOK
<1> QED BY <1>2, <1>3, <1>4, <1>5 DEF ProcInv

\* A hit in L1: its code is registered again, and its dependencies hold.
LEMMA HitKeeps ==
  ASSUME TypeOK, NEW p \in Proc, ProcInv(p), NEW d \in Def, NEW flag \in Flags,
         Call(p, d, flag), Hit(p, Hash(d, flag))
  PROVE  ProcInv(p)'
<1> DEFINE k == Hash(d, flag)
           e == l1[p][k]
           new == Register(p, e.parts)
<1>1. /\ pc[p] = "idle" /\ pc' = pc
      /\ reg' = [reg EXCEPT ![p] = new] /\ cur' = [cur EXCEPT ![p] = k]
      /\ answer' = [answer EXCEPT ![p] = reg'[p][Main[d]]]
      /\ UNCHANGED <<code, l1, made, deps>>
  BY DEF Call
<1>2. k \in Key /\ k[1] = d /\ k[2] = flag
  BY DEF Hash, Key
<1>3. /\ reg'[p] = new /\ cur'[p] = k /\ answer'[p] = new[Main[d]]
      /\ pc'[p] = "idle" /\ made'[p] = <<>> /\ code'[p] = code[p] /\ l1'[p] = l1[p]
  <2> HIDE DEF new, k
  <2> QED BY <1>1 DEF TypeOK, ProcInv, BuildOK
<1>4. /\ e # NoEntry /\ EntryOK(code[p], k, e) /\ DepsHold(p, e.deps)
      /\ e.parts \in Seq(1 .. Len(code[p])) /\ e.deps \in Deps /\ Len(code[p]) \in Nat
  BY <1>2, TypesOf DEF Hit, ProcInv, L1OK
<1>5. \A n \in Name :
        \/ /\ \A i \in DOMAIN e.parts : code[p][e.parts[i]].name # n
           /\ new[n] = reg[p][n]
        \/ \E l \in DOMAIN e.parts :
             /\ code[p][e.parts[l]].name = n /\ Newest(code[p], e.parts, l)
             /\ new[n] = e.parts[l]
  BY <1>4, RegisterFacts
<1>6. \A i \in DOMAIN e.parts : LET c == code[p][e.parts[i]] IN
        c.name \in Name /\ c.name \in PartNames(d) /\ SigFor(c.name, c.sig)
  <2> SUFFICES ASSUME NEW i \in DOMAIN e.parts
               PROVE  LET c == code[p][e.parts[i]] IN
                        c.name \in Name /\ c.name \in PartNames(d) /\ SigFor(c.name, c.sig)
    OBVIOUS
  <2>1. i \in DOMAIN Parts[d]
    <3>1. Len(e.parts) = Len(Parts[d]) /\ DOMAIN Parts[d] = 1 .. Len(Parts[d])
      BY <1>2, <1>4, KeyFacts DEF EntryOK
    <3> HIDE DEF e
    <3> QED BY <1>4, <3>1
  <2>2. code[p][e.parts[i]].name = Parts[d][i].name /\ code[p][e.parts[i]].sig = Parts[d][i].sig[flag]
    BY <1>2, <1>4 DEF EntryOK, PartsAre
  <2> QED BY <2>1, <2>2, PartFacts DEF SigFor
<1>7. RegOK(p)'
  <2> SUFFICES ASSUME NEW n \in Name, new[n] # 0
               PROVE  code[p][new[n]].name = n /\ SigFor(n, code[p][new[n]].sig)
    BY <1>3 DEF RegOK
  <2>1. CASE new[n] = reg[p][n]
    BY <2>1 DEF ProcInv, RegOK
  <2>2. CASE \E l \in DOMAIN e.parts : code[p][e.parts[l]].name = n /\ new[n] = e.parts[l]
    BY <1>6, <2>2
  <2> QED BY <1>5, <2>1, <2>2
<1>8. Registered(code[p], new, e.parts)
  <2> SUFFICES ASSUME NEW i \in DOMAIN e.parts, Newest(code[p], e.parts, i)
               PROVE  new[code[p][e.parts[i]].name] = e.parts[i]
    BY DEF Registered
  <2>1. code[p][e.parts[i]].name \in Name
    BY <1>6
  <2>2. Register(p, e.parts)[code[p][e.parts[i]].name]
          = LastNamed(p, e.parts, code[p][e.parts[i]].name)
    BY <2>1 DEF Register
  <2> QED BY <1>4, <2>2, NewestIsLast
<1>9. new[Main[d]] = Last(e.parts)
  <2> PICK key \in Key : key = k
    BY <1>2
  <2> PICK ptrs \in Seq(1 .. Len(code[p])) : ptrs = e.parts
    BY <1>4
  <2>1. Len(ptrs) = Len(Parts[key[1]]) /\ PartsAre(code[p], key, ptrs)
    BY <1>4 DEF EntryOK
  <2> HIDE DEF k, e, new
  <2>2. /\ Len(ptrs) \in DOMAIN ptrs /\ Newest(code[p], ptrs, Len(ptrs))
        /\ Last(ptrs) = ptrs[Len(ptrs)] /\ code[p][Last(ptrs)].name = Main[key[1]]
    BY <1>4, <2>1, MainIsLast
  <2>3. Registered(code[p], new, ptrs) /\ key[1] = d
    BY <1>2, <1>8
  <2>4. new[Main[d]] = Last(ptrs)
    BY <2>2, <2>3 DEF Registered
  <2> QED BY <2>4
<1>10. \A n \in Outside(d) : e.deps[n] # NoSig => SigIn(code[p], new, n) = e.deps[n]
  <2> SUFFICES ASSUME NEW n \in Outside(d), e.deps[n] # NoSig
               PROVE  SigIn(code[p], new, n) = e.deps[n]
    OBVIOUS
  <2>1. n \in Name /\ n \notin PartNames(d)
    BY NamesOf DEF Outside
  <2>2. new[n] = reg[p][n]
    BY <1>5, <1>6, <2>1
  <2>3. SigOf(p, n) = e.deps[n]
    BY <1>4, <2>1 DEF DepsHold
  <2> QED BY <2>2, <2>3 DEF SigIn, SigOf
<1>11. AnswerOK(p)'
  BY <1>2, <1>3, <1>4, <1>8, <1>9, <1>10 DEF AnswerOK, Source
<1>12. BuildOK(p)'
  BY <1>2, <1>3, KeyFacts, NoPointers DEF BuildOK, PartsAre, Source
<1>13. CallOK(p)' /\ MainOK(p)'
  BY <1>3, NoPointers DEF CallOK, MainOK, Registered
<1>14. L1OK(p)'
  BY <1>3 DEF ProcInv, L1OK
<1> QED BY <1>7, <1>11, <1>12, <1>13, <1>14 DEF ProcInv

\* A call that is not answered from L1 begins.
LEMMA MissKeeps ==
  ASSUME TypeOK, NEW p \in Proc, ProcInv(p), NEW d \in Def, NEW flag \in Flags,
         Call(p, d, flag), ~ Hit(p, Hash(d, flag))
  PROVE  ProcInv(p)'
<1>1. /\ cur'[p] \in Key /\ answer'[p] = 0 /\ pc'[p] = "load" /\ pc[p] = "idle"
      /\ code'[p] = code[p] /\ reg'[p] = reg[p] /\ l1'[p] = l1[p] /\ made'[p] = made[p]
  BY DEF Call, Goto, TypeOK, Hash, Key
<1>2. made'[p] = <<>>
  BY <1>1 DEF ProcInv, BuildOK
<1>3. BuildOK(p)'
  BY <1>1, <1>2, KeyFacts, NoPointers DEF BuildOK, PartsAre, Source
<1>4. RegOK(p)' /\ L1OK(p)'
  BY <1>1 DEF ProcInv, RegOK, L1OK
<1>5. CallOK(p)' /\ MainOK(p)' /\ AnswerOK(p)'
  BY <1>1, <1>2, NoPointers DEF CallOK, MainOK, AnswerOK, Registered
<1> QED BY <1>3, <1>4, <1>5 DEF ProcInv

\* A function of the source is compiled and registered.
LEMMA CompileKeeps ==
  ASSUME TypeOK, NEW p \in Proc, ProcInv(p), CompilePart(p)
  PROVE  ProcInv(p)'
<1> DEFINE x   == Current(p)
           ptr == Len(code[p]) + 1
           link == [n \in Name |-> IF n = x.name THEN ptr
                                   ELSE IF n \in x.calls THEN reg[p][n] ELSE 0]
           new == [name |-> x.name, def |-> Source(p), flag |-> cur[p][2],
                   sig |-> x.sig[cur[p][2]], calls |-> x.calls, ir |-> ir[p], link |-> link]
           d == Source(p)
<1>1. /\ pc[p] = "compile" /\ Linkable(p, x)
      /\ code' = [code EXCEPT ![p] = Append(@, new)]
      /\ reg' = [reg EXCEPT ![p][x.name] = ptr]
      /\ made' = [made EXCEPT ![p] = Append(@, ptr)]
      /\ pc' = [pc EXCEPT ![p] = IF Todo(p) = Len(Parts[d]) THEN "store" ELSE "compile"]
      /\ UNCHANGED <<l1, cur, deps, answer>>
  BY DEF CompilePart, Goto
<1>2. /\ Todo(p) \in DOMAIN Parts[d] /\ x = Parts[d][Todo(p)]
      /\ x.name \in PartNames(d) /\ x.name \in Name /\ x.calls \subseteq Name
  BY <1>1, CurrentFacts DEF Current, ProcInv
<1>3. /\ cur[p] \in Key /\ d \in Def /\ d = cur[p][1] /\ cur[p][2] \in Flags
      /\ made[p] \in Seq(1 .. Len(code[p])) /\ Len(code[p]) \in Nat /\ ptr \in Nat
      /\ code[p] \in Seq(Code)
  BY TypesOf, KeyFacts DEF Source
<1>4. /\ code'[p] = Append(code[p], new)
      /\ reg'[p] = [reg[p] EXCEPT ![x.name] = ptr]
      /\ made'[p] = Append(made[p], ptr)
      /\ pc'[p] = IF Todo(p) = Len(Parts[d]) THEN "store" ELSE "compile"
      /\ l1'[p] = l1[p] /\ cur'[p] = cur[p] /\ deps'[p] = deps[p] /\ answer'[p] = answer[p]
  <2> HIDE DEF x, new, d
  <2> QED BY <1>1 DEF TypeOK
<1>5. /\ code'[p][ptr] = new /\ reg'[p][x.name] = ptr
      /\ \A i \in 1 .. Len(code[p]) : code'[p][i] = code[p][i]
      /\ \A n \in Name : n # x.name => reg'[p][n] = reg[p][n]
  <2> HIDE DEF x, new, d
  <2> QED BY <1>2, <1>3, <1>4, TypesOf
<1>6. /\ Todo(p) = Len(made[p]) + 1 /\ Len(made'[p]) = Todo(p) /\ Len(made[p]) \in Nat
      /\ DOMAIN made[p] = 1 .. Len(made[p]) /\ DOMAIN made'[p] = 1 .. Todo(p)
      /\ made'[p][Todo(p)] = ptr
      /\ \A i \in DOMAIN made[p] : made'[p][i] = made[p][i] /\ made[p][i] \in 1 .. Len(code[p])
  <2>1. made[p] \in Seq(1 .. Len(code[p])) /\ made'[p] = Append(made[p], ptr)
    BY <1>3, <1>4
  <2> HIDE DEF ptr
  <2> QED BY <2>1 DEF Todo
<1>7. \A n \in Name : reg[p][n] \in 1 .. Len(code[p]) \cup {0}
  BY TypesOf
<1>a. /\ new.name = x.name /\ new.calls = x.calls /\ new.sig = x.sig[cur[p][2]]
      /\ new.def = d /\ new.flag = cur[p][2] /\ new.link = link
  OBVIOUS
<1>b. \A n \in x.calls \ {x.name} : link[n] = reg[p][n] /\ reg[p][n] # 0 /\ n \in Name
  BY <1>1, <1>2 DEF Linkable
<1>c. SigFor(x.name, x.sig[cur[p][2]])
  BY <1>2, <1>3 DEF SigFor
<1>d. \A i \in 1 .. Len(code[p]) : /\ code[p][i].name \in Name /\ code[p][i].calls \subseteq Name
                                   /\ code[p][i].link \in [Name -> 1 .. Len(code[p]) \cup {0}]
  <2>1. \A i \in 1 .. Len(code[p]) : code[p][i] \in Code
    <3> HIDE DEF x, link, new, d, ptr
    <3> QED BY <1>3
  <2>2. \A i \in 1 .. Len(code[p]) : code[p][i].link \in [Name -> 1 .. Len(code[p]) \cup {0}]
    BY DEF TypeOK, PointersOK
  <2> HIDE DEF x, link, new, d, ptr
  <2> QED BY <2>1, <2>2 DEF Code
<1> HIDE DEF ptr, x, link, new, d
<1>8. BuildOK(p)'
  <2>1. PartsAre(code'[p], cur[p], made'[p])
    <3>1. PartsAre(code[p], cur[p], made[p])
      BY DEF ProcInv, BuildOK
    <3>2. Len(made'[p]) <= Len(Parts[cur[p][1]])
      BY <1>2, <1>3, <1>6, KeyFacts
    <3>3. ASSUME NEW i \in DOMAIN made'[p]
          PROVE  LET c == code'[p][made'[p][i]]
                     y == Parts[cur[p][1]][i]
                 IN  /\ c.name = y.name /\ c.calls = y.calls /\ c.sig = y.sig[cur[p][2]]
                     /\ c.def = cur[p][1] /\ c.flag = cur[p][2]
      <4>1. CASE i = Todo(p)
        BY <1>a, <1>2, <1>3, <1>5, <1>6, <4>1
      <4>2. CASE i \in DOMAIN made[p]
        <5>1. code'[p][made'[p][i]] = code[p][made[p][i]]
          BY <1>5, <1>6, <4>2
        <5> QED BY <3>1, <4>2, <5>1 DEF PartsAre
      <4> QED BY <1>6, <3>3, <4>1, <4>2
    <3> QED BY <3>2, <3>3 DEF PartsAre
  <2>2. answer'[p] = 0
    BY <1>1, <1>4 DEF ProcInv, BuildOK
  <2>3. Len(made'[p]) <= Len(Parts[d]) /\ Len(Parts[d]) \in Nat
    BY <1>2, <1>3, <1>6, KeyFacts
  <2> QED BY <1>1, <1>3, <1>4, <1>6, <2>1, <2>2, <2>3 DEF BuildOK, Source
<1>9. RegOK(p)'
  <2> SUFFICES ASSUME NEW n \in Name, reg'[p][n] # 0
               PROVE  code'[p][reg'[p][n]].name = n /\ SigFor(n, code'[p][reg'[p][n]].sig)
    BY DEF RegOK
  <2>1. CASE n = x.name
    BY <1>a, <1>c, <1>5, <2>1
  <2>2. CASE n # x.name
    BY <1>5, <1>7, <2>2 DEF ProcInv, RegOK
  <2> QED BY <2>1, <2>2
<1>10. CallOK(p)'
  <2>1. ASSUME NEW i \in DOMAIN made'[p], Newest(code'[p], made'[p], i)
        PROVE  reg'[p][code'[p][made'[p][i]].name] = made'[p][i]
    <3>1. CASE i = Todo(p)
      BY <1>a, <1>5, <1>6, <3>1
    <3>2. CASE i \in DOMAIN made[p]
      <4>1. Todo(p) \in DOMAIN made'[p] /\ Todo(p) > i
        BY <1>6, <3>2
      <4>2. code[p][made[p][i]].name # x.name
        <5>1. code'[p][made'[p][Todo(p)]].name # code'[p][made'[p][i]].name
          BY <2>1, <4>1 DEF Newest
        <5>2. made'[p][i] = made[p][i] /\ code'[p][made[p][i]] = code[p][made[p][i]]
          BY <1>5, <1>6, <3>2
        <5>3. made'[p][Todo(p)] = ptr /\ code'[p][ptr].name = x.name
          BY <1>a, <1>5, <1>6
        <5> HIDE DEF ptr, x, new
        <5> QED BY <5>1, <5>2, <5>3
      <4>3. Newest(code[p], made[p], i)
        <5>1. \A j \in DOMAIN made[p] : j > i => code'[p][made'[p][j]].name # code'[p][made'[p][i]].name
          BY <1>6, <2>1 DEF Newest
        <5>2. ASSUME NEW j \in DOMAIN made[p], j > i PROVE code[p][made[p][j]].name # code[p][made[p][i]].name
          <6>1. /\ made'[p][j] = made[p][j] /\ code'[p][made[p][j]] = code[p][made[p][j]]
                /\ made'[p][i] = made[p][i] /\ code'[p][made[p][i]] = code[p][made[p][i]]
            BY <1>5, <1>6, <3>2, <5>2
          <6> QED BY <5>1, <5>2, <6>1
        <5> QED BY <5>2 DEF Newest
      <4>4. reg[p][code[p][made[p][i]].name] = made[p][i]
        BY <3>2, <4>3 DEF ProcInv, CallOK, Registered
      <4>5. code[p][made[p][i]].name \in Name
        BY <1>d, <1>6, <3>2
      <4> QED BY <1>5, <1>6, <3>2, <4>2, <4>4, <4>5
    <3> QED BY <1>6, <2>1, <3>1, <3>2
  <2>2. DepsOf(d, deps[p]) /\ \A n \in Outside(d) : deps[p][n] = SigIn(code[p], reg[p], n)
    BY <1>1 DEF ProcInv, CallOK, d
  <2>3. \A n \in Outside(d) : n \in Name /\ n # x.name
    BY <1>2, <1>3, NamesOf DEF Outside
  <2>4. \A n \in Outside(d) : SigIn(code'[p], reg'[p], n) = SigIn(code[p], reg[p], n)
    BY <1>5, <1>7, <2>3 DEF SigIn
  <2> QED BY <1>3, <1>4, <2>1, <2>2, <2>4 DEF CallOK, Registered, Source
<1>11. MainOK(p)'
  <2>1. Last(made'[p]) = ptr
    BY <1>6 DEF Last
  <2>2. \A n \in x.calls \ {x.name} : link[n] # 0 /\ link[n] = reg'[p][n]
    BY <1>b, <1>5
  <2> QED BY <1>a, <1>5, <2>1, <2>2 DEF MainOK
<1>12. L1OK(p)'
  <2> SUFFICES ASSUME NEW k \in Key, l1[p][k] # NoEntry PROVE EntryOK(code'[p], k, l1[p][k])
    BY <1>4 DEF L1OK
  <2>2. EntryOK(code[p], k, l1[p][k]) /\ l1[p][k].parts \in Seq(1 .. Len(code[p]))
    BY TypesOf DEF ProcInv, L1OK
  <2> QED BY <1>d, <1>3, <1>5, <2>2, EntryStays
<1>13. AnswerOK(p)'
  BY <1>4 DEF AnswerOK
<1> QED BY <1>8, <1>9, <1>10, <1>11, <1>12, <1>13 DEF ProcInv

\* The finished compilation is stored and answered.
LEMMA StoreKeeps ==
  ASSUME TypeOK, NEW p \in Proc, ProcInv(p), Store(p)
  PROVE  ProcInv(p)'
<1> DEFINE k == cur[p]
           e == [parts |-> made[p], deps |-> deps[p]]
<1>1. /\ pc[p] = "store" /\ k \in Key /\ Source(p) = k[1] /\ Len(code[p]) \in Nat
      /\ e.parts \in Seq(1 .. Len(code[p])) /\ e.parts = made[p] /\ e.deps = deps[p]
      /\ Len(made[p]) = Len(Parts[k[1]]) /\ PartsAre(code[p], k, made[p])
  BY TypesOf DEF Store, ProcInv, BuildOK, Source
<1>2. /\ l1'[p] = [l1[p] EXCEPT ![k] = e] /\ answer'[p] = LastNamed(p, made[p], Main[k[1]])
      /\ made'[p] = <<>> /\ pc'[p] = "idle" /\ code'[p] = code[p] /\ reg'[p] = reg[p]
      /\ cur'[p] = k /\ deps'[p] = deps[p]
  BY DEF Store, TypeOK, Goto, Source
<1>3. l1'[p][k] = e /\ \A i \in Key : i # k => l1'[p][i] = l1[p][i]
  <2> HIDE DEF k, e
  <2> QED BY <1>1, <1>2 DEF TypeOK
<1> DEFINE c == code[p][Last(made[p])]
<1>4. /\ LastNamed(p, made[p], Main[k[1]]) = Last(made[p])
      /\ c.name = Main[k[1]] /\ c.calls \subseteq Callees(k[1]) /\ Callees(k[1]) \subseteq Name
  <2> HIDE DEF k
  <2> QED BY <1>1, MainIsLast, KeyFacts, NamesOf
<1>5. /\ DepsOf(k[1], deps[p])
      /\ \A n \in Outside(k[1]) : deps[p][n] = SigIn(code[p], reg[p], n)
      /\ \A n \in c.calls \ {c.name} : c.link[n] # 0 /\ c.link[n] = reg[p][n]
      /\ Registered(code[p], reg[p], made[p])
  BY <1>1 DEF ProcInv, CallOK, MainOK
<1>6. EntryOK(code[p], k, e)
  <2> SUFFICES ASSUME NEW n \in c.calls \ {c.name}
               PROVE  /\ c.link[n] # 0
                      /\ n \notin PartNames(k[1]) => deps[p][n] = code[p][c.link[n]].sig
                      /\ \A i \in DOMAIN made[p] :
                           Newest(code[p], made[p], i) /\ code[p][made[p][i]].name = n
                             => c.link[n] = made[p][i]
    BY <1>1, <1>5 DEF EntryOK
  <2>1. c.link[n] # 0 /\ c.link[n] = reg[p][n]
    BY <1>5
  <2>2. n \notin PartNames(k[1]) => n \in Outside(k[1])
    BY <1>4 DEF Outside
  <2> HIDE DEF c, k, e
  <2>3. n \notin PartNames(k[1]) => deps[p][n] = code[p][c.link[n]].sig
    BY <1>5, <2>1, <2>2 DEF SigIn
  <2>4. \A i \in DOMAIN made[p] :
          Newest(code[p], made[p], i) /\ code[p][made[p][i]].name = n => c.link[n] = made[p][i]
    BY <1>5, <2>1 DEF Registered
  <2> QED BY <2>1, <2>3, <2>4
<1> HIDE DEF k
<1>7. BuildOK(p)'
  BY <1>1, <1>2, KeyFacts, NoPointers DEF BuildOK, PartsAre, Source
<1>8. RegOK(p)'
  BY <1>2 DEF ProcInv, RegOK
<1>9. CallOK(p)' /\ MainOK(p)'
  BY <1>2, NoPointers DEF CallOK, MainOK, Registered
<1>10. L1OK(p)'
  <2> HIDE DEF e
  <2> QED BY <1>2, <1>3, <1>6 DEF ProcInv, L1OK
<1>11. AnswerOK(p)'
  <2>1. e # NoEntry
    BY <1>1, TypesOf, NoEntryAssumption DEF L1Entry
  <2>2. e.parts = made[p] /\ e.deps = deps[p]
    OBVIOUS
  <2> HIDE DEF e, c
  <2> QED BY <1>1, <1>2, <1>3, <1>4, <1>5, <2>1, <2>2 DEF AnswerOK, Source
<1> QED BY <1>7, <1>8, <1>9, <1>10, <1>11 DEF ProcInv

\* A new process knows nothing.
LEMMA CrashKeeps ==
  ASSUME TypeOK, NEW p \in Proc, Crash(p)
  PROVE  ProcInv(p)'
<1>1. /\ reg'[p] = [n \in Name |-> 0] /\ code'[p] = <<>> /\ l1'[p] = [k \in Key |-> NoEntry]
      /\ made'[p] = <<>> /\ answer'[p] = 0 /\ pc'[p] = "idle" /\ cur'[p] = cur[p] /\ cur[p] \in Key
  BY DEF Crash, Goto, TypeOK
<1> QED BY <1>1, KeyFacts, NoPointers
        DEF ProcInv, BuildOK, RegOK, CallOK, MainOK, L1OK, AnswerOK, PartsAre, Registered, Source

\* A registry, caches and pointers that are all empty agree with each other.
LEMMA PipelineInit == Init => PipelineInv
<1> SUFFICES ASSUME Init PROVE PipelineInv
  OBVIOUS
<1>1. ASSUME NEW p \in Proc PROVE ProcInv(p)
  <2>1. /\ reg[p] = [n \in Name |-> 0] /\ code[p] = <<>> /\ l1[p] = [k \in Key |-> NoEntry]
        /\ made[p] = <<>> /\ answer[p] = 0 /\ pc[p] = "idle" /\ cur[p] \in Key
    BY DEF Init
  <2> QED BY <2>1, KeyFacts, NoPointers
          DEF ProcInv, BuildOK, RegOK, CallOK, MainOK, L1OK, AnswerOK, PartsAre, Registered, Source
<1> QED BY <1>1, TypeInit DEF PipelineInv

\* Every step keeps the invariant of the pipeline.
LEMMA PipelineNext == PipelineInv /\ [Next]_vars => PipelineInv'
<1> SUFFICES ASSUME TypeOK, \A p \in Proc : ProcInv(p), [Next]_vars PROVE PipelineInv'
  BY DEF PipelineInv
<1>1. TypeOK'
  BY TypeNext DEF TypeInv, ProcInv
<1>2. ASSUME NEW p \in Proc,
             (\E d \in Def, flag \in Flags : Call(p, d, flag)) \/ Step(p) \/ Crash(p)
      PROVE  \A q \in Proc : ProcInv(q)'
  <2>1. ASSUME NEW q \in Proc, q # p PROVE ProcInv(q)'
    BY <1>2, <2>1, OthersSame, SameKeeps
  <2>2. ASSUME NEW d \in Def, NEW flag \in Flags, Call(p, d, flag) PROVE ProcInv(p)'
    BY <2>2, HitKeeps, MissKeeps
  <2>3. ASSUME LoadIR(p) PROVE ProcInv(p)'
    <3>1. CASE disk[cur[p]] # NoEntry /\ DepsHold(p, disk[cur[p]].deps)
      <4>1. /\ pc[p] = "load" /\ pc'[p] = "compile" /\ deps'[p] = Collect(p, Source(p))
            /\ UNCHANGED <<code, reg, l1, cur, made, answer>>
        BY <2>3, <3>1 DEF LoadIR, Goto, TypeOK
      <4> QED BY <4>1, BeginKeeps
    <3>2. CASE ~ (disk[cur[p]] # NoEntry /\ DepsHold(p, disk[cur[p]].deps))
      <4>1. /\ pc[p] = "load" /\ pc'[p] = "transform" /\ made[p] = <<>>
            /\ UNCHANGED <<code, reg, l1, cur, made, answer>>
        BY <2>3, <3>2 DEF LoadIR, Goto, TypeOK, ProcInv, BuildOK
      <4> QED BY <4>1, QuietKeeps
    <3> QED BY <3>1, <3>2
  <2>4. ASSUME Build(p) PROVE ProcInv(p)'
    <3>1. /\ pc[p] \in {"transform", "verify"} /\ pc'[p] \in {"idle", "verify", "save"}
          /\ \A k \in Key : l1'[p][k] \in {l1[p][k], NoEntry}
          /\ UNCHANGED <<code, reg, cur, made, answer>>
      BY <2>4 DEF Build, Transform, ParseError, TransformError, VerifyOk, VerifyError,
                  Forget, Goto, callVars, TypeOK
    <3>2. made[p] = <<>>
      BY <3>1 DEF ProcInv, BuildOK
    <3> QED BY <3>1, <3>2, QuietKeeps
  <2>5. ASSUME SaveIR(p) PROVE ProcInv(p)'
    <3>1. /\ pc[p] = "save" /\ pc'[p] = "compile" /\ deps'[p] = Collect(p, Source(p))
          /\ UNCHANGED <<code, reg, l1, cur, made, answer>>
      BY <2>5 DEF SaveIR, Goto, TypeOK
    <3> QED BY <3>1, BeginKeeps
  <2>6. ASSUME CompilePart(p) PROVE ProcInv(p)'
    BY <2>6, CompileKeeps
  <2>7. ASSUME CompileError(p) \/ LinkPanic(p) PROVE ProcInv(p)'
    <3>1. /\ pc[p] = "compile" /\ pc'[p] = "idle" /\ made'[p] = <<>>
          /\ \A k \in Key : l1'[p][k] \in {l1[p][k], NoEntry}
          /\ UNCHANGED <<code, reg, cur, answer>>
      BY <2>7 DEF CompileError, LinkPanic, Fail, Forget, Goto, TypeOK
    <3> QED BY <3>1, QuietKeeps
  <2>8. ASSUME Store(p) PROVE ProcInv(p)'
    BY <2>8, StoreKeeps
  <2>9. ASSUME Crash(p) PROVE ProcInv(p)'
    BY <2>9, CrashKeeps
  <2>10. ProcInv(p)'
    BY <1>2, <2>2, <2>3, <2>4, <2>5, <2>6, <2>7, <2>8, <2>9 DEF Step, Compile
  <2> QED BY <2>1, <2>10
<1>3. CASE UNCHANGED vars \/ \E k \in Key : Vanish(k)
  <2>1. \A q \in Proc : Same(q)
    BY <1>3 DEF vars, callVars, Vanish, Same
  <2> QED BY <1>1, <2>1, SameKeeps DEF PipelineInv
<1> QED BY <1>1, <1>2, <1>3 DEF Next, Terminated, PipelineInv

----------------------------------------------------------------------------
\* Everything the bridge keeps has its type, and no table of a process names
\* code that does not exist.
THEOREM TypesCorrect == Spec => []TypeOK
<1>1. PipelineInv => TypeOK
  BY DEF PipelineInv
<1> QED BY <1>1, PipelineInit, PipelineNext, PTL DEF Spec

\* Pointers to code of a name have a newest one, and where they are registered,
\* the name is known by it.
LEMMA HasNewest ==
  ASSUME NEW p \in Proc, NEW m \in Nat, NEW ptrs \in Seq(1 .. m), NEW n \in Name,
         \E i \in DOMAIN ptrs : code[p][ptrs[i]].name = n,
         Registered(code[p], reg[p], ptrs)
  PROVE  \E l \in DOMAIN ptrs :
           /\ code[p][ptrs[l]].name = n /\ Newest(code[p], ptrs, l)
           /\ reg[p][n] = ptrs[l] /\ reg[p][n] # 0
<1>1. PICK l \in DOMAIN ptrs :
        code[p][ptrs[l]].name = n /\ Newest(code[p], ptrs, l) /\ ptrs[l] \in 1 .. m
  BY RegisterFacts
<1>2. reg[p][n] = ptrs[l]
  BY <1>1 DEF Registered
<1> QED BY <1>1, <1>2

\* So it is for every function of a source whose code is registered.
LEMMA PartIsRegistered ==
  ASSUME TypeOK, NEW p \in Proc, NEW k \in Key, NEW ptrs \in Seq(1 .. Len(code[p])),
         Len(ptrs) = Len(Parts[k[1]]), PartsAre(code[p], k, ptrs),
         Registered(code[p], reg[p], ptrs), NEW n \in PartNames(k[1])
  PROVE  \E l \in DOMAIN ptrs :
           /\ code[p][ptrs[l]].name = n /\ Newest(code[p], ptrs, l)
           /\ reg[p][n] = ptrs[l] /\ reg[p][n] # 0
<1>1. Len(code[p]) \in Nat /\ n \in Name
  BY TypesOf, KeyFacts, NamesOf
<1>2. PICK i \in DOMAIN Parts[k[1]] : Parts[k[1]][i].name = n
  BY DEF PartNames
<1>3. i \in DOMAIN ptrs
  BY KeyFacts
<1>4. \E j \in DOMAIN ptrs : code[p][ptrs[j]].name = n
  BY <1>2, <1>3 DEF PartsAre
<1> QED BY <1>1, <1>4, HasNewest

\* An entry whose code is registered and whose dependencies hold is current.
LEMMA EntryIsCurrent ==
  ASSUME TypeOK, NEW p \in Proc, NEW k \in Key, NEW ptrs \in Seq(1 .. Len(code[p])),
         NEW e, e.parts = ptrs, EntryOK(code[p], k, e),
         Registered(code[p], reg[p], ptrs),
         \A n \in Outside(k[1]) : e.deps[n] # NoSig => SigIn(code[p], reg[p], n) = e.deps[n],
         NEW c, c = code[p][Last(ptrs)]
  PROVE  /\ reg[p][Main[k[1]]] = Last(ptrs)
         /\ <<c.def, c.flag>> = k
         /\ \A n \in c.calls \ {c.name} : code[p][c.link[n]].sig = SigOf(p, n)
<1>1. Len(code[p]) \in Nat /\ code[p] \in Seq(Code) /\ k[1] \in Def
  BY TypesOf, KeyFacts
<1>2. PartsAre(code[p], k, ptrs) /\ Len(ptrs) = Len(Parts[k[1]])
  BY DEF EntryOK
<1>3. /\ Len(ptrs) \in DOMAIN ptrs /\ Last(ptrs) = ptrs[Len(ptrs)]
      /\ Last(ptrs) \in 1 .. Len(code[p]) /\ Newest(code[p], ptrs, Len(ptrs))
      /\ c.name = Main[k[1]] /\ <<c.def, c.flag>> = k /\ c.calls \subseteq Callees(k[1])
  BY <1>1, <1>2, MainIsLast
<1>4. reg[p][Main[k[1]]] = Last(ptrs)
  BY <1>3 DEF Registered
<1>5. c.link \in [Name -> 1 .. Len(code[p]) \cup {0}]
  BY <1>3 DEF TypeOK, PointersOK
<1>6. ASSUME NEW n \in c.calls \ {c.name} PROVE code[p][c.link[n]].sig = SigOf(p, n)
  <2>1. /\ c.link[n] # 0
        /\ n \notin PartNames(k[1]) => e.deps[n] = code[p][c.link[n]].sig
        /\ \A i \in DOMAIN ptrs :
             Newest(code[p], ptrs, i) /\ code[p][ptrs[i]].name = n => c.link[n] = ptrs[i]
    BY <1>6 DEF EntryOK
  <2>2. n \in Name /\ n \in Callees(k[1])
    BY <1>1, <1>3, <1>6, NamesOf
  <2>3. ASSUME n \notin PartNames(k[1]) PROVE code[p][c.link[n]].sig = SigOf(p, n)
    <3>1. c.link[n] \in 1 .. Len(code[p])
      BY <1>5, <2>1, <2>2
    <3>2. code[p][c.link[n]] \in Code
      BY <1>1, <3>1
    <3>3. e.deps[n] # NoSig
      BY <2>1, <2>3, <3>2, NoSigAssumption DEF Code
    <3>4. SigIn(code[p], reg[p], n) = e.deps[n]
      BY <2>2, <2>3, <3>3 DEF Outside
    <3> QED BY <2>1, <2>3, <3>4 DEF SigIn, SigOf
  <2>4. ASSUME n \in PartNames(k[1]) PROVE code[p][c.link[n]].sig = SigOf(p, n)
    <3>1. PICK l \in DOMAIN ptrs : /\ code[p][ptrs[l]].name = n /\ Newest(code[p], ptrs, l)
                                  /\ reg[p][n] = ptrs[l] /\ reg[p][n] # 0
      <4>1. \A q \in PartNames(k[1]) : \E l \in DOMAIN ptrs :
              /\ code[p][ptrs[l]].name = q /\ Newest(code[p], ptrs, l)
              /\ reg[p][q] = ptrs[l] /\ reg[p][q] # 0
        BY <1>2, PartIsRegistered, ZenonT(30)
      <4> QED BY <2>4, <4>1
    <3>2. c.link[n] = ptrs[l]
      BY <2>1, <3>1
    <3> QED BY <3>1, <3>2 DEF SigOf
  <2> QED BY <2>3, <2>4
<1> QED BY <1>3, <1>4, <1>6

\* A successful answer is what is registered, of the source and flag that were
\* asked for, and linked to signatures that are still registered, also when it
\* comes from L1 (verify_and_compile, native_cache_lookup).
THEOREM AnswersAreCurrent == Spec => []AnswerIsCurrent
<1>1. ASSUME PipelineInv, NEW p \in Proc, pc[p] = "idle", answer[p] # 0,
             NEW c, c = code[p][answer[p]]
      PROVE  /\ reg[p][Main[Source(p)]] = answer[p]
             /\ <<c.def, c.flag>> = cur[p]
             /\ \A n \in c.calls \ {c.name} : code[p][c.link[n]].sig = SigOf(p, n)
  <2>1. TypeOK /\ ProcInv(p)
    BY <1>1 DEF PipelineInv
  <2>2. cur[p] \in Key
    BY <2>1, TypesOf
  <2>3. PICK e : e = l1[p][cur[p]]
    OBVIOUS
  <2>4. /\ e # NoEntry /\ answer[p] = Last(e.parts)
        /\ Registered(code[p], reg[p], e.parts)
        /\ \A n \in Outside(cur[p][1]) :
             e.deps[n] # NoSig => SigIn(code[p], reg[p], n) = e.deps[n]
    BY <1>1, <2>1, <2>3 DEF ProcInv, AnswerOK, Source
  <2>5. EntryOK(code[p], cur[p], e)
    BY <2>1, <2>2, <2>3, <2>4 DEF ProcInv, L1OK
  <2>6. PICK ptrs \in Seq(1 .. Len(code[p])) : ptrs = e.parts
    BY <2>1, <2>2, <2>3, <2>4, TypesOf
  <2>7. c = code[p][Last(ptrs)] /\ answer[p] = Last(ptrs)
    BY <1>1, <2>4, <2>6
  <2>8. Registered(code[p], reg[p], ptrs)
    BY <2>4, <2>6
  <2> QED BY <2>1, <2>2, <2>4, <2>5, <2>6, <2>7, <2>8, EntryIsCurrent DEF Source
<1>2. PipelineInv => AnswerIsCurrent
  BY <1>1 DEF AnswerIsCurrent
<1> QED BY <1>2, PipelineInit, PipelineNext, PTL DEF Spec

\* The caches spare work: a call that was just answered is answered from L1
\* when it is made again, in a program whose recursive functions keep their
\* signature (native_cache_store, native_cache_lookup).  Without that the
\* recorded signature of the function itself is the one it had before.
THEOREM RepeatedCallsHit == StableRecursion => (Spec => []RepeatHits)
<1> SUFFICES ASSUME StableRecursion PROVE Spec => []RepeatHits
  OBVIOUS
<1>1. ASSUME PipelineInv, NEW p \in Proc, pc[p] = "idle", answer[p] # 0
      PROVE  Hit(p, cur[p])
  <2>1. TypeOK /\ ProcInv(p)
    BY <1>1 DEF PipelineInv
  <2>2. PICK k \in Key : k = cur[p]
    BY <2>1, TypesOf
  <2>3. PICK e : e = l1[p][k]
    OBVIOUS
  <2>4. /\ e # NoEntry /\ Registered(code[p], reg[p], e.parts)
        /\ \A n \in Outside(k[1]) : e.deps[n] # NoSig => SigIn(code[p], reg[p], n) = e.deps[n]
    BY <1>1, <2>1, <2>2, <2>3 DEF ProcInv, AnswerOK, Source
  <2>5. EntryOK(code[p], k, e)
    BY <2>1, <2>3, <2>4 DEF ProcInv, L1OK
  <2>6. PICK ptrs \in Seq(1 .. Len(code[p])) : ptrs = e.parts
    BY <2>1, <2>3, <2>4, TypesOf
  <2>7. /\ PartsAre(code[p], k, ptrs) /\ Len(ptrs) = Len(Parts[k[1]])
        /\ Registered(code[p], reg[p], ptrs)
    BY <2>4, <2>5, <2>6 DEF EntryOK
  <2>8. DepsOf(k[1], e.deps) /\ e.deps \in Deps /\ k[1] \in Def
    BY <2>1, <2>3, <2>4, <2>5, TypesOf, KeyFacts DEF EntryOK
  <2>9. ASSUME NEW n \in Name, e.deps[n] # NoSig PROVE SigOf(p, n) = e.deps[n]
    <3>1. n \in Callees(k[1]) /\ SigFor(n, e.deps[n]) /\ e.deps[n] \in Sig
      BY <2>8, <2>9 DEF DepsOf, Deps
    <3>2. ASSUME n \notin PartNames(k[1]) PROVE SigOf(p, n) = e.deps[n]
      BY <2>4, <2>9, <3>1, <3>2 DEF Outside, SigIn, SigOf
    <3>3. ASSUME n \in PartNames(k[1]) PROVE SigOf(p, n) = e.deps[n]
      <4>1. reg[p][n] # 0
        BY <2>1, <2>7, <3>3, PartIsRegistered
      <4>2. SigFor(n, SigOf(p, n)) /\ SigOf(p, n) \in Sig
        BY <2>1, <4>1, SigOfType DEF ProcInv, RegOK, SigOf
      <4> QED BY <2>8, <3>1, <3>3, <4>2 DEF StableRecursion
    <3> QED BY <3>2, <3>3
  <2>10. DepsHold(p, e.deps)
    BY <2>9 DEF DepsHold
  <2> QED BY <2>2, <2>3, <2>4, <2>10 DEF Hit
<1>2. PipelineInv => RepeatHits
  BY <1>1 DEF RepeatHits
<1> QED BY <1>2, PipelineInit, PipelineNext, PTL DEF Spec

----------------------------------------------------------------------------
(***************************************************************************)
(* Modular verification.                                                   *)
(***************************************************************************)

\* What a step that adds no code keeps of the code, and of the other entries.
LEMMA LinksStay ==
  ASSUME NEW p \in Proc, LinksOK(p), code'[p] = code[p]
  PROVE  LinksOK(p)'
BY DEF LinksOK, LinkOK

\* A part is linked to the code its source was verified against.
LEMMA NewLinks ==
  ASSUME TypeOK, NEW p \in Proc, ProcInv(p), BuiltOnRegistered(p), LinksOK(p), CompilePart(p)
  PROVE  BuiltOnRegistered(p)' /\ LinksOK(p)'
<1> PICK x : x = Current(p)
  OBVIOUS
<1> PICK m \in Nat : m = Len(code[p])
  BY TypesOf
<1> DEFINE c == code'[p][m + 1]
<1>1. /\ code[p] \in Seq(Code) /\ reg[p] \in [Name -> 1 .. m \cup {0}]
      /\ \A i \in 1 .. m : code[p][i] \in Code /\ code[p][i].link \in [Name -> 1 .. m \cup {0}]
  BY TypesOf DEF TypeOK, PointersOK
<1>2. /\ x.name \in PartNames(Source(p)) /\ x.name \in Name /\ x.calls \subseteq Name
      /\ x.calls \subseteq Callees(Source(p))
      /\ pc[p] = "compile" /\ Linkable(p, x) /\ Source(p) \in Def
  BY CurrentFacts, TypesOf DEF CompilePart, ProcInv
<1>3. /\ Len(code'[p]) = m + 1 /\ \A i \in 1 .. m : code'[p][i] = code[p][i]
      /\ c.name = x.name /\ c.calls = x.calls /\ c.def = Source(p) /\ c.ir = ir[p]
      /\ \A n \in x.calls \ {x.name} : c.link[n] = reg[p][n]
      /\ \A n \in Name \ {x.name} : reg'[p][n] = reg[p][n]
      /\ pc'[p] \in {"store", "compile"} /\ Source(p)' = Source(p) /\ ir'[p] = ir[p]
  <2>1. \A new : Append(code[p], new)[m + 1] = new /\ Len(Append(code[p], new)) = m + 1
                 /\ \A i \in 1 .. m : Append(code[p], new)[i] = code[p][i]
    BY <1>1
  <2>2. PICK new : /\ code'[p] = Append(code[p], new)
                   /\ new.name = x.name /\ new.calls = x.calls /\ new.def = Source(p)
                   /\ new.ir = ir[p] /\ new.link = [n \in Name |-> IF n = x.name THEN m + 1
                                            ELSE IF n \in x.calls THEN reg[p][n] ELSE 0]
    <3> DEFINE part == [name |-> x.name, def |-> Source(p), flag |-> cur[p][2],
                       sig |-> x.sig[cur[p][2]], calls |-> x.calls, ir |-> ir[p],
                       link |-> [n \in Name |-> IF n = x.name THEN m + 1
                                                ELSE IF n \in x.calls THEN reg[p][n] ELSE 0]]
    <3>1. code' = [code EXCEPT ![p] = Append(@, part)]
      BY DEF CompilePart
    <3>2. code'[p] = Append(code[p], part)
      <4> HIDE DEF part
      <4> QED BY <3>1 DEF TypeOK
    <3>3. /\ part.name = x.name /\ part.calls = x.calls /\ part.def = Source(p)
          /\ part.ir = ir[p] /\ part.link = [n \in Name |-> IF n = x.name THEN m + 1
                                             ELSE IF n \in x.calls THEN reg[p][n] ELSE 0]
      OBVIOUS
    <3> HIDE DEF part
    <3> QED BY <3>2, <3>3
  <2>3. \A n \in x.calls \ {x.name} : new.link[n] = reg[p][n]
    BY <1>2, <2>2
  <2>4. \A n \in Name \ {x.name} : reg'[p][n] = reg[p][n]
    BY DEF CompilePart, TypeOK
  <2>5. pc'[p] \in {"store", "compile"} /\ Source(p)' = Source(p) /\ ir'[p] = ir[p]
    BY DEF CompilePart, TypeOK, Goto, Source
  <2> QED BY <2>1, <2>2, <2>3, <2>4, <2>5
<1>4. \A n \in Outside(Source(p)) : n \in Name /\ n # x.name /\ reg[p][n] \in 1 .. m
  BY <1>1, <1>2, NamesOf DEF BuiltOnRegistered, Outside
<1>5. \A n \in Outside(Source(p)) :
        reg'[p][n] = reg[p][n] /\ SigOf(p, n)' = SigOf(p, n) /\ SigOf(p, n) = code[p][reg[p][n]].sig
  <2> HIDE DEF c
  <2> QED BY <1>3, <1>4 DEF SigOf
<1>6. BuiltOnRegistered(p)'
  <2>1. \A n \in Outside(Source(p)) : reg[p][n] # 0 /\ ir[p].deps[n] = SigOf(p, n)
    BY <1>2 DEF BuiltOnRegistered
  <2> HIDE DEF c
  <2> QED BY <1>3, <1>5, <2>1 DEF BuiltOnRegistered
<1>7. ASSUME NEW n \in c.calls \ {c.name}
      PROVE  /\ c.link[n] \in 1 .. Len(code'[p])
             /\ n \notin PartNames(c.def) => c.ir.deps[n] = code'[p][c.link[n]].sig
  <2>1. n \in x.calls \ {x.name} /\ c.link[n] = reg[p][n] /\ reg[p][n] \in 1 .. m
    BY <1>1, <1>2, <1>3, <1>7 DEF Linkable
  <2>2. ASSUME n \notin PartNames(Source(p)) PROVE ir[p].deps[n] = code[p][reg[p][n]].sig
    BY <1>2, <1>5, <2>1, <2>2 DEF Outside, BuiltOnRegistered
  <2>3. c.link[n] \in 1 .. Len(code'[p]) /\ code'[p][c.link[n]] = code[p][reg[p][n]]
    <3> HIDE DEF c
    <3> QED BY <1>3, <2>1
  <2> HIDE DEF c
  <2> QED BY <1>3, <2>1, <2>2, <2>3
<1>8. ASSUME NEW i \in 1 .. m, NEW d, d = code[p][i], NEW n \in d.calls \ {d.name}
      PROVE  /\ d.link[n] \in 1 .. Len(code'[p])
             /\ n \notin PartNames(d.def) => d.ir.deps[n] = code'[p][d.link[n]].sig
  <2>1. LinkOK(p, d, n)
    BY <1>8 DEF LinksOK
  <2>2. /\ d.link[n] \in 1 .. m
        /\ n \notin PartNames(d.def) => d.ir.deps[n] = code[p][d.link[n]].sig
    BY <2>1 DEF LinkOK
  <2>3. code'[p][d.link[n]] = code[p][d.link[n]] /\ d.link[n] \in 1 .. Len(code'[p])
    <3> HIDE DEF c
    <3> QED BY <1>3, <2>2
  <2> QED BY <2>2, <2>3
<1>9. ASSUME NEW i \in 1 .. Len(code'[p]), NEW d, d = code'[p][i],
             NEW n \in d.calls \ {d.name}
      PROVE  /\ d.link[n] \in 1 .. Len(code'[p])
             /\ n \notin PartNames(d.def) => d.ir.deps[n] = code'[p][d.link[n]].sig
  <2>1. CASE i = m + 1
    BY <1>7, <1>9, <2>1
  <2>2. CASE i \in 1 .. m
    <3>1. d = code[p][i]
      <4> HIDE DEF c
      <4> QED BY <1>3, <1>9, <2>2
    <3> QED BY <1>8, <1>9, <2>2, <3>1
  <2>3. i = m + 1 \/ i \in 1 .. m
    BY <1>3
  <2> QED BY <2>1, <2>2, <2>3
<1>10. LinksOK(p)'
  <2> HIDE DEF c
  <2> SUFFICES ASSUME NEW i \in 1 .. Len(code'[p]), NEW n \in code'[p][i].calls \ {code'[p][i].name}
               PROVE  /\ code'[p][i].link[n] \in 1 .. Len(code'[p])
                      /\ n \notin PartNames(code'[p][i].def) =>
                           code'[p][i].ir.deps[n] = code'[p][code'[p][i].link[n]].sig
    BY DEF LinksOK, LinkOK
  <2> QED BY <1>9
<1> QED BY <1>6, <1>10

\* Each step of a process keeps its part of the invariant.
LEMMA VerifiedStep ==
  ASSUME ForwardCalls = FALSE, PipelineInv, VerifiedInv, NEW p \in Proc,
         (\E d \in Def, flag \in Flags : Call(p, d, flag)) \/ Step(p) \/ Crash(p)
  PROVE  DiskCertified' /\ BuiltOnRegistered(p)' /\ LinksOK(p)'
<1>1. /\ TypeOK /\ ProcInv(p) /\ BuiltOnRegistered(p) /\ LinksOK(p) /\ cur[p] \in Key
      /\ Outside(Source(p)) \subseteq Name
  BY TypesOf, NamesOf DEF PipelineInv, VerifiedInv, Outside
<1>2. ASSUME \A k \in Key : disk'[k] \in {disk[k], NoEntry} PROVE DiskCertified'
  BY <1>2 DEF VerifiedInv, DiskCertified
<1>3. ASSUME NEW d \in Def, NEW flag \in Flags, Call(p, d, flag)
      PROVE  DiskCertified' /\ BuiltOnRegistered(p)' /\ LinksOK(p)'
  <2>1. UNCHANGED <<disk, code>> /\ pc[p] = "idle" /\ (Hit(p, Hash(d, flag)) => UNCHANGED pc)
    BY <1>3 DEF Call
  <2>2. ~ Hit(p, Hash(d, flag)) =>
          pc'[p] = "load" /\ UNCHANGED reg /\ Source(p)' = d
    BY <1>1, <1>3 DEF Call, Goto, TypeOK, Source, Hash
  <2>3. \A n \in Outside(d) : reg[p][n] # 0
    BY <1>3 DEF Call, Outside
  <2>4. BuiltOnRegistered(p)'
    BY <2>1, <2>2, <2>3 DEF BuiltOnRegistered
  <2> QED BY <1>1, <1>2, <2>1, <2>4, LinksStay
<1>4. ASSUME LoadIR(p) PROVE DiskCertified' /\ BuiltOnRegistered(p)' /\ LinksOK(p)'
  <2>1. /\ pc[p] = "load" /\ UNCHANGED <<reg, code, cur>>
        /\ \A k \in Key : disk'[k] \in {disk[k], NoEntry}
    BY <1>1, <1>4 DEF LoadIR, TypeOK
  <2>2. \/ pc'[p] = "transform"
        \/ /\ pc'[p] = "compile" /\ disk[cur[p]] # NoEntry
           /\ ir'[p] = disk[cur[p]] /\ DepsHold(p, disk[cur[p]].deps)
    BY <1>1, <1>4 DEF LoadIR, TypeOK, Goto
  <2>3. disk[cur[p]] # NoEntry => Certified(Source(p), disk[cur[p]])
    BY <1>1 DEF VerifiedInv, DiskCertified, Source
  <2>4. BuiltOnRegistered(p)'
    BY <1>1, <2>1, <2>2, <2>3 DEF BuiltOnRegistered, Certified, DepsHold, SigOf, Source
  <2> QED BY <1>1, <1>2, <2>1, <2>4, LinksStay
<1>5. ASSUME Build(p) PROVE DiskCertified' /\ BuiltOnRegistered(p)' /\ LinksOK(p)'
  <2>1. /\ UNCHANGED <<reg, code, cur>> /\ \A k \in Key : disk'[k] \in {disk[k], NoEntry}
        /\ pc[p] # "idle"
    BY <1>1, <1>5 DEF Build, Transform, ParseError, TransformError, VerifyOk, VerifyError,
                      Forget, callVars, TypeOK
  <2>2. \/ pc'[p] = "idle"
        \/ ir'[p].deps = Collect(p, Source(p)) /\ pc'[p] # "compile"
        \/ ir'[p].deps = ir[p].deps /\ pc[p] = "verify" /\ pc'[p] = "save"
    BY <1>1, <1>5 DEF Build, Transform, ParseError, TransformError, VerifyOk, VerifyError,
                      Goto, TypeOK, IR
  <2>3. \A n \in Outside(Source(p)) : Collect(p, Source(p))[n] = SigOf(p, n)
    BY <1>1 DEF Collect, Outside
  <2>4. BuiltOnRegistered(p)'
    BY <1>1, <2>1, <2>2, <2>3 DEF BuiltOnRegistered, SigOf, Source
  <2> QED BY <1>1, <1>2, <2>1, <2>4, LinksStay
<1>6. ASSUME SaveIR(p) PROVE DiskCertified' /\ BuiltOnRegistered(p)' /\ LinksOK(p)'
  <2>1. /\ pc[p] = "save" /\ pc'[p] = "compile" /\ UNCHANGED <<reg, code, cur, ir>>
        /\ \A k \in Key : disk'[k] = disk[k] \/ (k = cur[p] /\ disk'[k] = ir[p])
    BY <1>1, <1>6 DEF SaveIR, TypeOK, Goto
  <2>2. Certified(Source(p), ir[p])
    BY <1>1, <2>1, SigOfType DEF BuiltOnRegistered, Certified
  <2>3. DiskCertified'
    BY <2>1, <2>2 DEF VerifiedInv, DiskCertified, Source
  <2>4. BuiltOnRegistered(p)'
    BY <1>1, <2>1 DEF BuiltOnRegistered, SigOf, Source
  <2> QED BY <1>1, <2>1, <2>3, <2>4, LinksStay
<1>7. ASSUME CompilePart(p) PROVE DiskCertified' /\ BuiltOnRegistered(p)' /\ LinksOK(p)'
  <2>1. UNCHANGED disk
    BY <1>7 DEF CompilePart
  <2> QED BY <1>1, <1>2, <1>7, <2>1, NewLinks
<1>8. ASSUME CompileError(p) \/ LinkPanic(p) \/ Store(p)
      PROVE  DiskCertified' /\ BuiltOnRegistered(p)' /\ LinksOK(p)'
  <2>1. /\ \A k \in Key : disk'[k] \in {disk[k], NoEntry}
        /\ UNCHANGED code /\ pc'[p] = "idle"
    BY <1>1, <1>8 DEF CompileError, LinkPanic, Store, Fail, Forget, Goto, TypeOK
  <2> QED BY <1>1, <1>2, <2>1, LinksStay DEF BuiltOnRegistered
<1>9. ASSUME Crash(p) PROVE DiskCertified' /\ BuiltOnRegistered(p)' /\ LinksOK(p)'
  <2>1. UNCHANGED disk /\ code'[p] = <<>> /\ pc'[p] = "idle"
    BY <1>1, <1>9 DEF Crash, Goto, TypeOK
  <2> QED BY <1>2, <2>1, NoPointers DEF BuiltOnRegistered, LinksOK
<1> QED BY <1>3, <1>4, <1>5, <1>6, <1>7, <1>8, <1>9 DEF Step, Compile

\* Code compiled with verify=true is linked to code with the contracts it was
\* verified against, through every redefinition, failure, cache hit and restart
\* (verify_and_compile, load_ir), in a program that compiles callees first.  In
\* one that does not, the claim is refuted by TLC.
THEOREM LinkedToVerified == ForwardCalls = FALSE => (Spec => []LinkedAsVerified)
<1> SUFFICES ASSUME ForwardCalls = FALSE PROVE Spec => []LinkedAsVerified
  OBVIOUS
<1>1. Init => VerifiedInv
  BY NoPointers DEF Init, VerifiedInv, DiskCertified, BuiltOnRegistered, LinksOK
<1>2. PipelineInv /\ VerifiedInv /\ [Next]_vars => VerifiedInv'
  <2> SUFFICES ASSUME PipelineInv, VerifiedInv, [Next]_vars PROVE VerifiedInv'
    OBVIOUS
  <2>1. ASSUME NEW p \in Proc,
               (\E d \in Def, flag \in Flags : Call(p, d, flag)) \/ Step(p) \/ Crash(p)
        PROVE  VerifiedInv'
    <3>1. DiskCertified' /\ BuiltOnRegistered(p)' /\ LinksOK(p)'
      BY <2>1, VerifiedStep
    <3>2. ASSUME NEW q \in Proc, q # p PROVE BuiltOnRegistered(q)' /\ LinksOK(q)'
      <4>1. Same(q) /\ BuiltOnRegistered(q) /\ LinksOK(q)
        BY <2>1, <3>2, OthersSame DEF PipelineInv, VerifiedInv
      <4> QED BY <4>1, LinksStay DEF Same, BuiltOnRegistered, SigOf, Source
    <3> QED BY <3>1, <3>2 DEF VerifiedInv
  <2>2. CASE UNCHANGED vars \/ \E k \in Key : Vanish(k)
    <3>1. /\ \A q \in Proc : Same(q) /\ BuiltOnRegistered(q) /\ LinksOK(q)
          /\ DiskCertified
      BY <2>2 DEF vars, callVars, Vanish, Same, VerifiedInv
    <3>2. \A q \in Proc : BuiltOnRegistered(q)' /\ LinksOK(q)'
      BY <3>1, LinksStay DEF Same, BuiltOnRegistered, SigOf, Source
    <3>3. \A k \in Key : disk'[k] \in {disk[k], NoEntry}
      BY <2>2 DEF vars, Vanish, PipelineInv, TypeOK
    <3> QED BY <3>1, <3>2, <3>3 DEF VerifiedInv, DiskCertified
  <2> QED BY <2>1, <2>2 DEF Next, Terminated
<1>3. VerifiedInv => LinkedAsVerified
  BY DEF VerifiedInv, LinksOK, LinkedAsVerified
<1> QED BY <1>1, <1>2, <1>3, PipelineInit, PipelineNext, PTL DEF Spec
=============================================================================
