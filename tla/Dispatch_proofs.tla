--------------------------- MODULE Dispatch_proofs ---------------------------
(***************************************************************************)
(* Proofs about Dispatch, for any functions, threads and programs.         *)
(***************************************************************************)
EXTENDS Dispatch, NumberFacts, FiniteSetTheorems, TLAPS

----------------------------------------------------------------------------
(***************************************************************************)
(* The inductive invariant.  Objects are only added; of an object only the *)
(* cache changes, and what has been absent once is never so again.         *)
(***************************************************************************)
Obs == DOMAIN objs

\* What a cache, a build or a call has for object o and key i is code of the
\* object's version of the function, for that key, verified as the object says.
CodeOf(e, o, i) == e \notin {Absent, Placeholder, Python} =>
  /\ e.id = [fn |-> objs[o].fn, inst |-> i, ver |-> objs[o].ver]
  /\ e.verified = objs[o].meant

\* The objects that names are bound to were made of the functions of the names.
Bound(names) == \A f \in Fn : names[f] # Absent =>
  names[f] \in Obs /\ objs[names[f]].fn = f

ObjectOK(j) == /\ objs[j].fn \in world.fns /\ objs[j].verify = objs[j].meant
               /\ \A i \in Labels : CodeOf(objs[j].cache[i], j, i)

\* A build is of an object; if it has found a callee missing, there is one.
BuildOK(fr) ==
  /\ fr.obj \in Obs /\ Bound(fr.scope) /\ CodeOf(fr.made, fr.obj, fr.inst)
  /\ fr.todo \in Seq(world.fns)
  /\ fr.missing => fr.todo # <<>> /\ Nested(fr, Head(fr.todo))

\* The object of the callee that a build looks at.
Callee(fr) == fr.scope[Head(fr.todo)]

\* Builds stand on each other for one key, each but the first for a callee
\* that its predecessor is at.  All of these have an entry under the key, so
\* the next one is not among them.
Chain(fs) ==
  /\ \A j \in DOMAIN fs : BuildOK(fs[j])
  /\ \A j \in DOMAIN fs : (fs[j].role = "nested" <=> j > 1) /\ fs[j].inst = fs[1].inst
  /\ \A j \in DOMAIN fs : j < Len(fs) => ~ fs[j].missing /\ fs[j].todo # <<>>
  /\ \A j, k \in DOMAIN fs : 1 < j /\ j < k => fs[j].obj # fs[k].obj
  /\ \A j \in DOMAIN fs : 1 < j => objs[fs[j].obj].cache[fs[j].inst] # Absent
  /\ \A j \in DOMAIN fs : 1 < j /\ fs[Len(fs)].missing => fs[j].obj # Callee(fs[Len(fs)])

\* A call is of an object, with the key of its argument.
GoalOK(g) ==
  /\ g.obj \in Obs /\ g.arg \in world.args
  /\ g.inst = KeyOf(objs[g.obj].fn, g.arg) /\ g.inst # Absent

\* The entry that a call was made for is there, or is being built for it.
Expected(t) ==
  LET g == thr[t].goal
      fs == thr[t].frames
  IN  \/ objs[g.obj].cache[g.inst] # Absent
      \/ fs # <<>> /\ fs[1].obj = g.obj /\ fs[1].inst = g.inst

RanOK(out) == out.how = "ran" =>
  /\ GoalOK(out.goal) /\ CodeOf(out.code, out.goal.obj, out.goal.inst)
  /\ out.code \notin {Absent, Placeholder, Python}

\* Verification is off exactly inside a block, and the outermost block found it on.
BlocksOK(t) ==
  /\ thr[t].off <=> thr[t].blocks # <<>>
  /\ \A j \in DOMAIN thr[t].blocks : thr[t].blocks[j] <=> j > 1

ThreadOK(t) ==
  /\ Chain(thr[t].frames) /\ BlocksOK(t) /\ RanOK(thr[t].out)
  /\ thr[t].goal # Absent => GoalOK(thr[t].goal) /\ Expected(t)

TypesOK ==
  /\ world \in Worlds /\ failed \in BOOLEAN /\ ops \in 0 .. world.budget
  /\ objs \in Seq(Object)
  /\ glob \in [Fn -> 1 .. Len(objs) \cup {Absent}]
  /\ reg \in [Names -> Identity \cup {Absent}]
  /\ thr \in [Thread -> ThreadState]
  /\ \A t \in Thread : Len(thr[t].blocks) <= world.depth

DispatchInv ==
  /\ TypesOK /\ Bound(glob)
  /\ \A j \in Obs : ObjectOK(j)
  /\ \A t \in Thread : ThreadOK(t)

----------------------------------------------------------------------------
\* The last element of a sequence, the rest, and the sequence with another one.
LEMMA FrontFacts ==
  ASSUME NEW S, NEW s \in Seq(S), s # <<>>
  PROVE  /\ Len(s) \in Nat \ {0} /\ Last(s) = s[Len(s)] /\ Last(s) \in S
         /\ Front(s) \in Seq(S) /\ Len(Front(s)) = Len(s) - 1
         /\ \A j \in 1 .. Len(s) - 1 : Front(s)[j] = s[j]
<1>1. Len(s) \in Nat \ {0} /\ Len(s) \in DOMAIN s
  OBVIOUS
<1>2. Last(s) = s[Len(s)] /\ Last(s) \in S
  BY <1>1 DEF Last
<1>3. Front(s) = SubSeq(s, 1, Len(s) - 1)
  BY DEF Front
<1>4. PICK n \in Nat : n = Len(s) - 1 /\ n <= Len(s)
  <2>1. \A k \in Nat \ {0} : k - 1 \in Nat /\ k - 1 <= k
    OBVIOUS
  <2> QED BY <1>1, <2>1
<1>5. SubSeq(s, 1, n) \in Seq(S) /\ Len(SubSeq(s, 1, n)) = n
  BY <1>4
<1>6. \A j \in 1 .. n : SubSeq(s, 1, n)[j] = s[j]
  BY <1>4
<1> QED BY <1>5, <1>6, <1>1, <1>2, <1>3, <1>4

\* An element more leaves a sequence in its type.
LEMMA AppendType ==
  ASSUME NEW S, NEW s \in Seq(S), NEW x \in S
  PROVE  Append(s, x) \in Seq(S)
OBVIOUS

\* An element less does, too.
LEMMA TailType ==
  ASSUME NEW S, NEW s \in Seq(S), s # <<>>
  PROVE  Tail(s) \in Seq(S)
OBVIOUS

\* A sequence whose last element is exchanged.
LEMMA TopFacts ==
  ASSUME NEW S, NEW s \in Seq(S), s # <<>>, NEW x \in S
  PROVE  /\ Append(Front(s), x) \in Seq(S) /\ Len(Append(Front(s), x)) = Len(s)
         /\ Append(Front(s), x)[Len(s)] = x
         /\ \A j \in 1 .. Len(s) - 1 : Append(Front(s), x)[j] = s[j]
<1>1. PICK f \in Seq(S) : f = Front(s)
  BY FrontFacts
<1>2. Len(s) \in Nat \ {0} /\ Len(f) = Len(s) - 1 /\ \A j \in 1 .. Len(s) - 1 : f[j] = s[j]
  BY <1>1, FrontFacts
<1>3. /\ Append(f, x) \in Seq(S) /\ Len(Append(f, x)) = Len(f) + 1 /\ Append(f, x)[Len(f) + 1] = x
      /\ \A j \in 1 .. Len(f) : Append(f, x)[j] = f[j]
  OBVIOUS
<1> QED BY <1>1, <1>2, <1>3

\* The parts of a world.
LEMMA WorldFacts ==
  ASSUME TypesOK
  PROVE  /\ world.fns \subseteq Fn /\ world.args \subseteq Labels
         /\ world.kind \in [world.fns -> Kind] /\ world.calls \in [world.fns -> [Versions -> Seq(world.fns)]]
         /\ world.overloads \in [world.fns -> Seq(Signature)]
         /\ world.label \in [Labels -> Labels] /\ Base \in Labels
BY WorldsAssumption DEF TypesOK, Labels

\* What an object's version of its function calls.
LEMMA CalleeFacts ==
  ASSUME TypesOK, NEW o \in Obs, ObjectOK(o)
  PROVE  /\ world.calls[objs[o].fn][objs[o].ver] \in Seq(world.fns)
         /\ CalleesOf(o) = Range(world.calls[objs[o].fn][objs[o].ver])
         /\ CalleesOf(o) \subseteq world.fns
<1>1. objs[o] \in Object
  BY DEF TypesOK, Obs
<1>2. PICK s \in Seq(world.fns) : s = world.calls[objs[o].fn][objs[o].ver]
  <2>1. objs[o].fn \in world.fns /\ objs[o].ver \in Versions
    BY <1>1 DEF ObjectOK, Object
  <2> QED BY <2>1, WorldFacts
<1>3. Range(s) \subseteq world.fns
  BY DEF Range
<1> QED BY <1>2, <1>3 DEF CalleesOf

\* The overload that is chosen takes the argument (_match_overload).
LEMMA MatchFacts ==
  ASSUME TypesOK, NEW f \in world.fns, NEW a, MatchOverload(f, a) # Absent
  PROVE  \E s \in Range(world.overloads[f]) :
           s \in Signature /\ s.key = MatchOverload(f, a) /\ a \in s.accepts
<1>1. PICK seq \in Seq(Signature) : seq = world.overloads[f]
  BY WorldFacts
<1> DEFINE I == {i \in 1 .. Len(seq) : a \in seq[i].accepts}
<1>2. SelectInSeq(seq, LAMBDA s : a \in s.accepts) = IF I # {} THEN Min(I) ELSE 0
  BY DEF SelectInSeq
<1>3. I # {} => Min(I) \in I
  <2>1. I \in SUBSET Nat
    OBVIOUS
  <2> HIDE DEF I
  <2> QED BY <2>1, MinOfNaturals
<1>4. I # {} /\ MatchOverload(f, a) = seq[Min(I)].key
  <2>1. MatchOverload(f, a) =
          IF (IF I # {} THEN Min(I) ELSE 0) = 0 THEN Absent ELSE seq[IF I # {} THEN Min(I) ELSE 0].key
    BY <1>1, <1>2 DEF MatchOverload
  <2> HIDE DEF I
  <2> QED BY <2>1
<1>5. Min(I) \in 1 .. Len(seq) /\ a \in seq[Min(I)].accepts
  BY <1>3, <1>4
<1>6. seq[Min(I)] \in Signature /\ seq[Min(I)] \in Range(seq)
  <2> HIDE DEF I
  <2> QED BY <1>5 DEF Range
<1> QED BY <1>1, <1>4, <1>5, <1>6

\* A key is a label.
LEMMA KeyType ==
  ASSUME TypesOK, NEW f \in world.fns, NEW a \in world.args, KeyOf(f, a) # Absent
  PROVE  KeyOf(f, a) \in Labels
<1>1. world.kind[f] \in {"plain", "generic", "overload"} /\ a \in Labels /\ Base \in Labels
  BY WorldFacts DEF Kind
<1>2. CASE world.kind[f] = "overload"
  <2>1. KeyOf(f, a) = MatchOverload(f, a)
    BY <1>2 DEF KeyOf
  <2> QED BY <2>1, MatchFacts DEF Signature
<1>3. CASE world.kind[f] # "overload"
  BY <1>1, <1>3 DEF KeyOf
<1> QED BY <1>2, <1>3

----------------------------------------------------------------------------
(***************************************************************************)
(* Objects stay what they are, and so does what is known of builds.        *)
(***************************************************************************)
Grows ==
  /\ world' = world /\ Len(objs) <= Len(objs')
  /\ \A j \in Obs :
       /\ objs'[j].fn = objs[j].fn /\ objs'[j].ver = objs[j].ver
       /\ objs'[j].verify = objs[j].verify /\ objs'[j].meant = objs[j].meant
       /\ \A i \in Labels : objs[j].cache[i] # Absent => objs'[j].cache[i] # Absent

\* No object of the decorators goes away.
LEMMA ObsStay ==
  ASSUME TypesOK, TypesOK', Grows
  PROVE  /\ Len(objs) \in Nat /\ Len(objs') \in Nat
         /\ Obs = 1 .. Len(objs) /\ Obs' = 1 .. Len(objs') /\ \A j \in Obs : j \in Obs'
BY DEF TypesOK, Obs, Grows

\* A build that is in order stays so while objects, code and cache entries
\* only come in addition.
LEMMA BuildStays ==
  ASSUME TypesOK, TypesOK', Grows, NEW fr, BuildOK(fr)
  PROVE  BuildOK(fr)'
<1>1. fr.obj \in Obs' /\ (fr.todo \in Seq(world.fns))'
  BY ObsStay DEF BuildOK, Grows
<1>2. Bound(fr.scope)'
  BY ObsStay DEF BuildOK, Bound, Grows
<1>3. CodeOf(fr.made, fr.obj, fr.inst)'
  BY DEF BuildOK, CodeOf, Grows
<1>4. (fr.missing => fr.todo # <<>> /\ Nested(fr, Head(fr.todo)))'
  BY DEF BuildOK, Nested, Generic, Grows
<1> QED BY <1>1, <1>2, <1>3, <1>4 DEF BuildOK

\* The same of the builds a thread has begun, one for the sake of the other,
LEMMA ChainStays ==
  ASSUME TypesOK, TypesOK', Grows, NEW fs \in Seq(Build), Chain(fs)
  PROVE  Chain(fs)'
<1>1. ASSUME NEW j \in DOMAIN fs PROVE BuildOK(fs[j])'
  <2>1. BuildOK(fs[j])
    BY DEF Chain
  <2> QED BY <2>1, BuildStays
<1>2. ASSUME NEW j \in DOMAIN fs PROVE fs[j].obj \in Obs /\ fs[j].inst \in Labels
  <2>1. BuildOK(fs[j]) /\ fs[j] \in Build
    BY DEF Chain
  <2> QED BY <2>1 DEF BuildOK, Build
<1>3. (\A j \in DOMAIN fs : 1 < j => objs[fs[j].obj].cache[fs[j].inst] # Absent)'
  BY <1>2 DEF Chain, Grows
<1> QED BY <1>1, <1>3 DEF Chain, Callee

\* and of the call that waits for them.
LEMMA GoalStays ==
  ASSUME TypesOK, TypesOK', Grows, NEW g, GoalOK(g)
  PROVE  GoalOK(g)'
<1>1. PICK f : f = objs[g.obj].fn
  OBVIOUS
<1>2. /\ g.obj \in Obs /\ g.arg \in world.args /\ g.inst = KeyOf(f, g.arg) /\ g.inst # Absent
  BY <1>1 DEF GoalOK
<1>3. g.obj \in Obs' /\ world' = world /\ objs'[g.obj].fn = f
  BY <1>1, <1>2, ObsStay DEF Grows
<1>4. KeyOf(f, g.arg)' = KeyOf(f, g.arg)
  BY <1>3 DEF KeyOf, MatchOverload
<1> QED BY <1>2, <1>3, <1>4 DEF GoalOK

\* What a thread has, that does nothing while objects are made and compiled.
LEMMA ThreadStays ==
  ASSUME TypesOK, TypesOK', Grows, NEW t \in Thread, thr'[t] = thr[t], ThreadOK(t)
  PROVE  ThreadOK(t)'
<1>1. PICK th \in ThreadState : th = thr[t]
  BY DEF TypesOK
<1>2. Chain(th.frames)'
  BY <1>1, ChainStays DEF ThreadOK, ThreadState
<1>3. BlocksOK(t)'
  BY DEF ThreadOK, BlocksOK
<1>4. RanOK(th.out)'
  BY <1>1, GoalStays DEF ThreadOK, RanOK, CodeOf, GoalOK, Grows
<1>5. ASSUME th.goal # Absent PROVE GoalOK(th.goal)' /\ Expected(t)'
  <2>1. GoalOK(th.goal) /\ Expected(t) /\ th.goal.inst \in Labels
    BY <1>1, <1>5 DEF ThreadOK, ThreadState, Goal
  <2> QED BY <1>1, <2>1, GoalStays DEF Expected, GoalOK, Grows
<1> QED BY <1>1, <1>2, <1>3, <1>4, <1>5 DEF ThreadOK

----------------------------------------------------------------------------
(***************************************************************************)
(* Steps of one thread.                                                    *)
(***************************************************************************)

\* What a step leaves to the other threads, and what it makes of its own.
Others(t) == \A q \in Thread : q # t => thr'[q] = thr[q]

\* If the objects are as they should be, it is the acting thread that matters.
LEMMA StepKeeps ==
  ASSUME DispatchInv, TypesOK', Grows, Bound(glob)', \A j \in Obs' : ObjectOK(j)',
         NEW t \in Thread, Others(t), ThreadOK(t)'
  PROVE  DispatchInv'
<1>1. ASSUME NEW q \in Thread PROVE ThreadOK(q)'
  <2>1. CASE q # t
    BY <2>1, ThreadStays DEF Others, DispatchInv
  <2>2. CASE q = t
    BY <2>2
  <2> QED BY <2>1, <2>2
<1> QED BY <1>1 DEF DispatchInv

\* Most steps leave the objects and the global names alone.
LEMMA QuietStep ==
  ASSUME DispatchInv, TypesOK', UNCHANGED <<world, objs, glob>>,
         NEW t \in Thread, Others(t), ThreadOK(t)'
  PROVE  DispatchInv'
<1>1. TypesOK /\ Grows /\ Bound(glob)' /\ \A j \in Obs' : ObjectOK(j)'
  BY DEF DispatchInv, Grows, Bound, Obs, ObjectOK, CodeOf, TypesOK
<1> QED BY <1>1, StepKeeps

\* A call that a thread is in stands on the entry it was made for.
Awaits(g, fs) ==
  g # Absent => /\ GoalOK(g)
                /\ \/ objs[g.obj].cache[g.inst] # Absent
                   \/ fs # <<>> /\ fs[1].obj = g.obj /\ fs[1].inst = g.inst

\* What the goal of a thread waits for, out of the invariant.
LEMMA AwaitsOf ==
  ASSUME DispatchInv, NEW t \in Thread
  PROVE  Awaits(thr[t].goal, thr[t].frames)
BY DEF DispatchInv, ThreadOK, Expected, Awaits

\* Where objects do not change, what is true of them is.
LEMMA QuietThread ==
  ASSUME TypesOK, TypesOK', UNCHANGED <<world, objs>>, NEW t \in Thread,
         NEW fs \in Seq(Build), thr'[t].frames = fs, Chain(fs),
         NEW g, thr'[t].goal = g, Awaits(g, fs),
         NEW out, thr'[t].out = out, RanOK(out), BlocksOK(t)'
  PROVE  ThreadOK(t)'
<1>1. Grows
  BY DEF Grows, TypesOK
<1>2. Chain(fs)'
  BY <1>1, ChainStays
<1>3. RanOK(out)'
  BY <1>1, GoalStays DEF RanOK, CodeOf
<1>4. ASSUME g # Absent PROVE GoalOK(g)' /\ Expected(t)'
  <2>1. GoalOK(g)'
    BY <1>1, <1>4, GoalStays DEF Awaits
  <2> QED BY <1>4, <2>1 DEF Awaits, Expected
<1> QED BY <1>2, <1>3, <1>4 DEF ThreadOK

\* The builds of a thread when the innermost one goes on.
LEMMA TopChain ==
  ASSUME TypesOK, NEW fs \in Seq(Build), fs # <<>>, Chain(fs),
         NEW fr \in Build, BuildOK(fr),
         fr.obj = Last(fs).obj /\ fr.inst = Last(fs).inst /\ fr.role = Last(fs).role,
         fr.missing => \A j \in DOMAIN fs : 1 < j => fs[j].obj # Callee(fr)
  PROVE  Append(Front(fs), fr) \in Seq(Build) /\ Chain(Append(Front(fs), fr))
<1>1. PICK n \in Nat \ {0} : n = Len(fs) /\ Last(fs) = fs[n] /\ DOMAIN fs = 1 .. n
  <2>1. Len(fs) \in Nat \ {0} /\ DOMAIN fs = 1 .. Len(fs)
    OBVIOUS
  <2> QED BY <2>1 DEF Last
<1>2. PICK gs \in Seq(Build) : gs = Append(Front(fs), fr)
  BY TopFacts
<1>3. /\ Len(gs) = n /\ gs[n] = fr /\ \A j \in 1 .. n - 1 : gs[j] = fs[j]
      /\ DOMAIN gs = 1 .. n
  BY <1>1, <1>2, TopFacts
<1>4. \A j \in 1 .. n : /\ gs[j].obj = fs[j].obj /\ gs[j].inst = fs[j].inst
                        /\ gs[j].role = fs[j].role
                        /\ j < n => gs[j] = fs[j]
  BY <1>1, <1>3
<1>5. ASSUME NEW j \in 1 .. n PROVE BuildOK(gs[j])
  <2>1. BuildOK(fs[j])
    BY <1>1 DEF Chain
  <2>2. gs[j] = fr \/ gs[j] = fs[j]
    BY <1>3
  <2> QED BY <2>1, <2>2
<1>6. /\ \A j \in 1 .. n : (fs[j].role = "nested" <=> j > 1) /\ fs[j].inst = fs[1].inst
      /\ \A j \in 1 .. n : j < n => ~ fs[j].missing /\ fs[j].todo # <<>>
      /\ \A j, k \in 1 .. n : 1 < j /\ j < k => fs[j].obj # fs[k].obj
      /\ \A j \in 1 .. n : 1 < j => objs[fs[j].obj].cache[fs[j].inst] # Absent
  BY <1>1, ZenonT(30) DEF Chain
<1>7. /\ \A j \in 1 .. n : (gs[j].role = "nested" <=> j > 1) /\ gs[j].inst = gs[1].inst
      /\ \A j \in 1 .. n : j < n => ~ gs[j].missing /\ gs[j].todo # <<>>
      /\ \A j, k \in 1 .. n : 1 < j /\ j < k => gs[j].obj # gs[k].obj
      /\ \A j \in 1 .. n : 1 < j => objs[gs[j].obj].cache[gs[j].inst] # Absent
      /\ \A j \in 1 .. n : 1 < j /\ gs[n].missing => gs[j].obj # Callee(gs[n])
  BY <1>1, <1>3, <1>4, <1>6
<1>8. Chain(gs)
  BY <1>3, <1>5, <1>7 DEF Chain
<1> QED BY <1>2, <1>8

\* The innermost build has its type, and is of an object and for a key.
LEMMA TopOf ==
  ASSUME DispatchInv, NEW t \in Thread, thr[t].frames # <<>>
  PROVE  /\ thr[t].frames \in Seq(Build) /\ Chain(thr[t].frames)
         /\ Top(t) \in Build /\ BuildOK(Top(t)) /\ Obj(t) \in Object
         /\ Len(thr[t].frames) \in Nat \ {0} /\ Top(t) = thr[t].frames[Len(thr[t].frames)]
         /\ objs \in Seq(Object) /\ Obs = 1 .. Len(objs) /\ Len(objs) \in Nat
         /\ Obj(t) = objs[Top(t).obj] /\ Top(t).obj \in 1 .. Len(objs) /\ Top(t).inst \in Labels
         /\ ObjectOK(Top(t).obj)
<1>1. TypesOK /\ Chain(thr[t].frames)
  BY DEF DispatchInv, ThreadOK
<1>2. thr[t].frames \in Seq(Build) /\ objs \in Seq(Object)
  BY <1>1 DEF TypesOK, ThreadState
<1>3. PICK fs \in Seq(Build) : fs = thr[t].frames
  BY <1>2
<1>4. /\ Len(fs) \in Nat \ {0} /\ Len(fs) \in DOMAIN fs /\ Top(t) = fs[Len(fs)] /\ Top(t) \in Build
  BY <1>3, FrontFacts DEF Top
<1>5. BuildOK(Top(t))
  BY <1>1, <1>3, <1>4 DEF Chain
<1>6. Obs = 1 .. Len(objs) /\ Len(objs) \in Nat
  BY <1>2 DEF Obs
<1>7. Top(t).obj \in 1 .. Len(objs) /\ Top(t).inst \in Labels
  BY <1>4, <1>5, <1>6 DEF BuildOK, Build
<1>8. ObjectOK(Top(t).obj)
  BY <1>6, <1>7 DEF DispatchInv
<1> QED BY <1>1, <1>2, <1>3, <1>4, <1>5, <1>6, <1>7, <1>8 DEF Obj

\* A no_verification block begins: what was on is off, and put back later.
LEMMA NoVerificationKeeps ==
  ASSUME DispatchInv, NEW t \in Thread, NoVerification(t)
  PROVE  DispatchInv'
<1> PICK th \in ThreadState : th = thr[t]
  BY DEF DispatchInv, TypesOK
<1>1. /\ th.blocks \in Seq(BOOLEAN) /\ th.off \in BOOLEAN /\ th.frames \in Seq(Build)
  BY DEF ThreadState
<1> PICK as \in Seq(BOOLEAN) : as = th.blocks
  BY <1>1
<1> PICK bs \in Seq(BOOLEAN) : bs = Append(as, th.off)
  BY <1>1, AppendType
<1>2. /\ Len(as) \in Nat /\ Len(bs) = Len(as) + 1 /\ bs[Len(as) + 1] = th.off
      /\ \A j \in 1 .. Len(as) : bs[j] = as[j]
  BY <1>1
<1>3. /\ thr' = [thr EXCEPT ![t].blocks = bs, ![t].off = TRUE]
      /\ UNCHANGED <<world, objs, glob, reg, failed, ops>> /\ Len(as) < world.depth
  BY DEF NoVerification
<1>4. /\ thr'[t].blocks = bs /\ thr'[t].off = TRUE /\ thr'[t].frames = thr[t].frames
      /\ thr'[t].goal = thr[t].goal /\ thr'[t].out = thr[t].out /\ Others(t)
      /\ thr' \in [Thread -> ThreadState]
  BY <1>3 DEF DispatchInv, TypesOK, ThreadState, Others
<1>5. world.depth \in Nat
  BY WorldsAssumption DEF DispatchInv, TypesOK
<1>6. TypesOK'
  BY <1>2, <1>3, <1>4, <1>5 DEF DispatchInv, TypesOK, Others
<1>7. BlocksOK(t)'
  <2>1. (th.off <=> as # <<>>) /\ \A j \in 1 .. Len(as) : as[j] <=> j > 1
    BY DEF DispatchInv, ThreadOK, BlocksOK
  <2>2. \A j \in 1 .. Len(bs) : bs[j] <=> j > 1
    BY <1>2, <2>1
  <2> QED BY <1>2, <1>4, <2>2 DEF BlocksOK
<1>8. ThreadOK(t)'
  BY <1>1, <1>3, <1>4, <1>6, <1>7, AwaitsOf, QuietThread DEF DispatchInv, ThreadOK
<1> QED BY <1>3, <1>4, <1>6, <1>8, QuietStep

\* It ends.
LEMMA LeaveKeeps ==
  ASSUME DispatchInv, NEW t \in Thread, LeaveNoVerification(t)
  PROVE  DispatchInv'
<1> PICK th \in ThreadState : th = thr[t]
  BY DEF DispatchInv, TypesOK
<1>1. PICK bs \in Seq(BOOLEAN) : bs = th.blocks /\ bs # <<>>
  BY DEF ThreadState, LeaveNoVerification
<1>2. PICK cs \in Seq(BOOLEAN) : cs = Front(bs)
  BY <1>1, FrontFacts
<1>3. /\ Len(bs) \in Nat \ {0} /\ Len(cs) = Len(bs) - 1 /\ Last(bs) = bs[Len(bs)]
      /\ \A j \in 1 .. Len(bs) - 1 : cs[j] = bs[j]
      /\ Last(bs) \in BOOLEAN
  BY <1>1, <1>2, FrontFacts
<1>4. /\ thr' = [thr EXCEPT ![t].blocks = cs, ![t].off = Last(bs)]
      /\ UNCHANGED <<world, objs, glob, reg, failed, ops>>
  BY <1>1, <1>2 DEF LeaveNoVerification
<1>5. /\ thr'[t].blocks = cs /\ thr'[t].off = Last(bs) /\ thr'[t].frames = thr[t].frames
      /\ thr'[t].goal = thr[t].goal /\ thr'[t].out = thr[t].out /\ Others(t)
      /\ thr' \in [Thread -> ThreadState]
  BY <1>3, <1>4 DEF DispatchInv, TypesOK, ThreadState, Others
<1>6. world.depth \in Nat /\ Len(bs) <= world.depth
  BY <1>1, WorldsAssumption DEF DispatchInv, TypesOK
<1>7. TypesOK'
  BY <1>3, <1>4, <1>5, <1>6 DEF DispatchInv, TypesOK, Others
<1>8. BlocksOK(t)'
  <2>1. \A j \in 1 .. Len(bs) : bs[j] <=> j > 1
    BY <1>1 DEF DispatchInv, ThreadOK, BlocksOK
  <2>2. \A j \in 1 .. Len(cs) : cs[j] <=> j > 1
    BY <1>3, <2>1
  <2>3. Last(bs) <=> cs # <<>>
    BY <1>3, <2>1
  <2> QED BY <1>5, <2>2, <2>3 DEF BlocksOK
<1>9. ThreadOK(t)'
  <2>1. thr[t].frames \in Seq(Build)
    BY DEF ThreadState
  <2> QED BY <1>4, <1>5, <1>7, <1>8, <2>1, AwaitsOf, QuietThread DEF DispatchInv, ThreadOK
<1> QED BY <1>4, <1>5, <1>7, <1>9, QuietStep

----------------------------------------------------------------------------
\* Calls and definitions that end without running compiled code.
Ends == {"none", "defined", "no overload", "refused", "panic", "not callable",
         "python", "precondition"}

\* A call that ends without running anything ran nothing wrong.
LEMMA EndFacts ==
  ASSUME NEW h \in Ends
  PROVE  [how |-> h] \in Outcome /\ RanOK([how |-> h])
<1>1. [how |-> h] \in [how : Ends]
  OBVIOUS
<1>2. h # "ran"
  BY DEF Ends
<1> QED BY <1>1, <1>2 DEF Outcome, Ends, RanOK

\* A thread gets other builds, another call and another outcome.
Updated(t, fs, g, out) ==
  thr' = [thr EXCEPT ![t].frames = fs, ![t].goal = g, ![t].out = out]

\* A step that gives a thread new builds, a new goal and an outcome leaves the
\* other threads, and the no_verification blocks, alone.
LEMMA ThreadUpdate ==
  ASSUME TypesOK, NEW t \in Thread, NEW fs \in Seq(Build), NEW g \in Goal \cup {Absent},
         NEW out \in Outcome, Updated(t, fs, g, out)
  PROVE  /\ thr'[t].frames = fs /\ thr'[t].goal = g /\ thr'[t].out = out
         /\ thr'[t].off = thr[t].off /\ thr'[t].blocks = thr[t].blocks
         /\ Others(t) /\ thr' \in [Thread -> ThreadState]
         /\ \A q \in Thread : thr'[q].blocks = thr[q].blocks
         /\ BlocksOK(t) => BlocksOK(t)'
<1>1. thr[t] \in ThreadState /\ thr \in [Thread -> ThreadState]
  BY DEF TypesOK
<1>2. PICK new : new = [thr[t] EXCEPT !.frames = fs, !.goal = g, !.out = out]
  OBVIOUS
<1>3. /\ new.frames = fs /\ new.goal = g /\ new.out = out /\ new.off = thr[t].off
      /\ new.blocks = thr[t].blocks /\ new \in ThreadState
  BY <1>1, <1>2 DEF ThreadState
<1>4. thr' = [thr EXCEPT ![t] = new]
  BY <1>1, <1>2 DEF ThreadState, Updated
<1>5. thr'[t] = new /\ Others(t) /\ thr' \in [Thread -> ThreadState]
  BY <1>1, <1>3, <1>4 DEF Others
<1>6. \A q \in Thread : thr'[q].blocks = thr[q].blocks
  BY <1>3, <1>5 DEF Others
<1> QED BY <1>3, <1>5, <1>6 DEF BlocksOK

\* The same for a call that has ended.
LEMMA EndUpdate ==
  ASSUME TypesOK, NEW t \in Thread, NEW out \in Outcome, Updated(t, <<>>, Absent, out)
  PROVE  /\ thr'[t].frames = <<>> /\ thr'[t].goal = Absent /\ thr'[t].out = out
         /\ Others(t) /\ thr' \in [Thread -> ThreadState]
         /\ \A q \in Thread : thr'[q].blocks = thr[q].blocks
         /\ BlocksOK(t) => BlocksOK(t)'
<1>1. thr[t] \in ThreadState /\ thr \in [Thread -> ThreadState] /\ <<>> \in Seq(Build)
  BY DEF TypesOK
<1>2. PICK new : new = [thr[t] EXCEPT !.frames = <<>>, !.goal = Absent, !.out = out]
  OBVIOUS
<1>3. /\ new.frames = <<>> /\ new.goal = Absent /\ new.out = out /\ new.off = thr[t].off
      /\ new.blocks = thr[t].blocks /\ new \in ThreadState
  BY <1>1, <1>2 DEF ThreadState
<1>4. thr' = [thr EXCEPT ![t] = new]
  BY <1>1, <1>2 DEF ThreadState, Updated
<1>5. thr'[t] = new /\ Others(t) /\ thr' \in [Thread -> ThreadState]
  BY <1>1, <1>3, <1>4 DEF Others
<1>6. \A q \in Thread : thr'[q].blocks = thr[q].blocks
  BY <1>3, <1>5 DEF Others
<1> QED BY <1>3, <1>5, <1>6 DEF BlocksOK

\* The first build of a definition or a call.
IsFrame(fr, o, f, v, i, role) == fr = Frame(o, f, v, i, role)

\* A build that has just begun.
LEMMA FrameFacts ==
  ASSUME TypesOK, NEW o \in Nat, NEW f \in world.fns, NEW v \in Versions, NEW i \in Labels,
         NEW role \in {"define", "call", "nested"}, NEW fr, IsFrame(fr, o, f, v, i, role)
  PROVE  /\ fr \in Build /\ fr.obj = o /\ fr.inst = i /\ fr.role = role /\ ~ fr.missing
         /\ fr.made = Absent /\ fr.scope = glob /\ fr.todo \in Seq(world.fns)
<1> PICK todo : todo = IF Generic(f) THEN world.calls[f][v] ELSE <<>>
  OBVIOUS
<1>1. todo \in Seq(world.fns)
  <2>1. world.calls[f][v] \in Seq(world.fns) /\ <<>> \in Seq(world.fns)
    BY WorldFacts
  <2> QED BY <2>1
<1>2. todo \in Seq(Fn)
  BY <1>1, WorldFacts
<1>3. glob \in [Fn -> Nat \cup {Absent}]
  BY DEF TypesOK
<1>4. Frame(o, f, v, i, role) = [obj |-> o, inst |-> i, role |-> role, scope |-> glob,
            todo |-> todo, missing |-> FALSE, made |-> Absent]
  BY DEF Frame
<1> QED BY <1>1, <1>2, <1>3, <1>4 DEF Build, Entry, IsFrame

\* The first build of a call is a chain by itself.
LEMMA FirstChain ==
  ASSUME NEW fr \in Build, BuildOK(fr), fr.role # "nested", ~ fr.missing
  PROVE  /\ <<fr>> \in Seq(Build) /\ <<fr>> # <<>> /\ <<fr>>[1] = fr
         /\ Chain(<<fr>>)
<1>1. Len(<<fr>>) = 1 /\ <<fr>>[1] = fr /\ DOMAIN <<fr>> = {1} /\ <<fr>> \in Seq(Build)
  OBVIOUS
<1> QED BY <1>1 DEF Chain

\* A thread without builds waits for nothing.
LEMMA NoBuilds == Chain(<<>>) /\ Awaits(Absent, <<>>) /\ <<>> \in Seq(Build)
BY DEF Chain, Awaits

----------------------------------------------------------------------------
\* The innermost build of a thread goes on.
LEMMA TopStep ==
  ASSUME DispatchInv, NEW t \in Thread, thr[t].frames # <<>>,
         NEW fr \in Build, BuildOK(fr),
         fr.obj = Top(t).obj /\ fr.inst = Top(t).inst /\ fr.role = Top(t).role,
         fr.missing => \A j \in DOMAIN thr[t].frames :
                         1 < j => thr[t].frames[j].obj # Callee(fr),
         SetTop(t, fr), UNCHANGED <<world, objs, glob, ops>>,
         failed' \in BOOLEAN, reg' \in [Names -> Identity \cup {Absent}]
  PROVE  DispatchInv'
<1> PICK fs \in Seq(Build) : fs = thr[t].frames
  BY TopOf
<1> PICK n \in Nat \ {0} : n = Len(fs)
  BY TopOf
<1> PICK gs : gs = Append(Front(fs), fr)
  OBVIOUS
<1>1. TypesOK /\ Chain(fs) /\ Top(t) = Last(fs)
  BY TopOf DEF DispatchInv, Top
<1>2. gs \in Seq(Build) /\ Chain(gs)
  BY <1>1, TopChain
<1>3. Len(gs) = n /\ gs[n] = fr /\ (\A j \in 1 .. n - 1 : gs[j] = fs[j]) /\ Last(fs) = fs[n]
  BY TopFacts DEF Last
<1>4. thr' = [thr EXCEPT ![t].frames = gs]
  BY DEF SetTop
<1>5. /\ thr'[t].frames = gs /\ thr'[t].goal = thr[t].goal /\ thr'[t].out = thr[t].out
      /\ thr'[t].off = thr[t].off /\ thr'[t].blocks = thr[t].blocks
      /\ Others(t) /\ thr' \in [Thread -> ThreadState]
  BY <1>1, <1>2, <1>4, ZenonT(30) DEF TypesOK, ThreadState, Others
<1>6. TypesOK'
  BY <1>1, <1>5 DEF TypesOK, Others
<1>7. BlocksOK(t)'
  BY <1>5 DEF DispatchInv, ThreadOK, BlocksOK
<1>8. Awaits(thr[t].goal, gs)
  <2>1. gs # <<>> /\ gs[1].obj = fs[1].obj /\ gs[1].inst = fs[1].inst
    BY <1>1, <1>3
  <2> QED BY <2>1, AwaitsOf DEF Awaits
<1>9. ThreadOK(t)'
  BY <1>1, <1>2, <1>5, <1>6, <1>7, <1>8, QuietThread DEF DispatchInv, ThreadOK
<1> QED BY <1>5, <1>6, <1>9, QuietStep

\* visit_Call: a build looks at a callee, and finds it missing or goes on.
LEMMA ExpandKeeps ==
  ASSUME DispatchInv, NEW t \in Thread, Expand(t)
  PROVE  DispatchInv'
<1> PICK fr \in Build : fr = Top(t)
  BY TopOf DEF Expand
<1> PICK fs \in Seq(Build) : fs = thr[t].frames
  BY TopOf DEF Expand
<1>1. /\ fs # <<>> /\ fr.todo # <<>> /\ ~ fr.missing /\ BuildOK(fr) /\ Chain(fs)
      /\ Len(fs) \in DOMAIN fs /\ fs[Len(fs)] = fr
      /\ UNCHANGED <<world, objs, glob, reg, failed, ops>>
  BY TopOf DEF Expand
<1>2. failed' \in BOOLEAN /\ reg' \in [Names -> Identity \cup {Absent}] /\ TypesOK
  BY <1>1 DEF DispatchInv, TypesOK
<1>3. ASSUME Missing(fr, Head(fr.todo)) PROVE DispatchInv'
  <2> PICK new : new = [fr EXCEPT !.missing = TRUE]
    OBVIOUS
  <2>1. /\ new \in Build /\ new.obj = fr.obj /\ new.inst = fr.inst /\ new.role = fr.role
        /\ new.scope = fr.scope /\ new.todo = fr.todo /\ new.made = fr.made
    BY DEF Build
  <2>2. BuildOK(new)
    BY <1>1, <1>3, <2>1 DEF BuildOK, Missing, Nested
  <2>3. objs[Callee(new)].cache[fr.inst] = Absent
    BY <1>3, <2>1 DEF Missing, Callee
  <2>4. ASSUME NEW j \in DOMAIN fs, 1 < j PROVE fs[j].obj # Callee(new)
    <3>1. /\ \A k \in DOMAIN fs : fs[k].inst = fs[1].inst
          /\ \A k \in DOMAIN fs : 1 < k => objs[fs[k].obj].cache[fs[k].inst] # Absent
      BY <1>1 DEF Chain
    <3>2. fs[j].inst = fr.inst
      BY <1>1, <2>4, <3>1
    <3> QED BY <2>3, <2>4, <3>1, <3>2
  <2>5. SetTop(t, new)
    BY <1>3 DEF Expand
  <2> QED BY <1>1, <1>2, <2>1, <2>2, <2>4, <2>5, TopStep
<1>4. ASSUME ~ Missing(fr, Head(fr.todo)) PROVE DispatchInv'
  <2> PICK new : new = [fr EXCEPT !.todo = Tail(@)]
    OBVIOUS
  <2>1. Tail(fr.todo) \in Seq(world.fns) /\ Tail(fr.todo) \in Seq(Fn)
    BY <1>1, <1>2 DEF BuildOK, Build
  <2>2. /\ new \in Build /\ new.obj = fr.obj /\ new.inst = fr.inst /\ new.role = fr.role
        /\ new.scope = fr.scope /\ new.todo = Tail(fr.todo) /\ new.made = fr.made
        /\ new.missing = fr.missing
    BY <2>1 DEF Build
  <2>3. BuildOK(new)
    BY <1>1, <2>1, <2>2 DEF BuildOK
  <2>4. SetTop(t, new)
    BY <1>4 DEF Expand
  <2> QED BY <1>1, <1>2, <2>2, <2>3, <2>4, TopStep
<1> QED BY <1>3, <1>4

\* A function is compiled, for the object and the key of the build.
LEMMA CompileMakes ==
  ASSUME DispatchInv, NEW t \in Thread, Compile(t)
  PROVE  \E code \in Code :
           /\ code.id = [fn |-> Obj(t).fn, inst |-> Top(t).inst, ver |-> Obj(t).ver]
           /\ code.verified = Obj(t).verify
           /\ SetTop(t, [Top(t) EXCEPT !.made = code])
           /\ reg' \in [Names -> Identity \cup {Absent}]
           /\ reg' = [reg EXCEPT ![NameOf(Obj(t).fn, Top(t).inst)] = Id(t)]
           /\ \A d \in Fn : d \in CalleesOf(Top(t).obj) =>
                code.links[d] = IF LinkName(Top(t), d) = NameOf(Obj(t).fn, Top(t).inst)
                                THEN Id(t) ELSE reg[LinkName(Top(t), d)]
<1>fr. PICK fr \in Build : fr = Top(t)
  BY TopOf DEF Compile, Ready
<1> DEFINE links == [d \in Fn |->
             IF d \notin CalleesOf(fr.obj) THEN Absent
             ELSE IF LinkName(fr, d) = NameOf(Obj(t).fn, fr.inst) THEN Id(t)
             ELSE reg[LinkName(fr, d)]]
           code == [id |-> Id(t), verified |-> Obj(t).verify, links |-> links]
<1>1. /\ TypesOK /\ Obj(t) \in Object /\ Obj(t) = objs[fr.obj] /\ ObjectOK(fr.obj)
      /\ fr.inst \in Labels
  BY <1>fr, TopOf DEF Compile, Ready, DispatchInv
<1>2. Id(t) \in Identity
  BY <1>1, <1>fr DEF Id, Identity, Object
<1>3. \A d \in CalleesOf(fr.obj) : LinkName(fr, d) \in Names
  <2>1. Obj(t).fn \in world.fns
    BY <1>1 DEF ObjectOK
  <2>2. CalleesOf(fr.obj) \subseteq Fn
    <3>1. fr.obj \in Obs
      BY <1>fr, TopOf DEF Compile, Ready
    <3> QED BY <1>1, <3>1, CalleeFacts, WorldFacts
  <2>3. world.label[fr.inst] \in Labels /\ Base \in Labels
    BY <1>1, WorldFacts
  <2> QED BY <2>2, <2>3 DEF LinkName, NameOf, Names
<1>4. links \in [Fn -> Identity \cup {Absent}]
  BY <1>1, <1>2, <1>3 DEF TypesOK
<1>5. code \in Code
  <2> HIDE DEF links
  <2> QED BY <1>1, <1>2, <1>4 DEF Code, Object
<1>6. /\ reg' = [reg EXCEPT ![NameOf(Obj(t).fn, fr.inst)] = Id(t)]
      /\ SetTop(t, [fr EXCEPT !.made = code])
  BY <1>fr DEF Compile
<1>7. code.id = [fn |-> Obj(t).fn, inst |-> fr.inst, ver |-> Obj(t).ver]
      /\ code.verified = Obj(t).verify
  BY <1>fr DEF Id
<1>8. reg' \in [Names -> Identity \cup {Absent}]
  BY <1>1, <1>2, <1>6 DEF TypesOK
<1>9. \A d \in Fn : d \in CalleesOf(fr.obj) =>
        code.links[d] = IF LinkName(fr, d) = NameOf(Obj(t).fn, fr.inst)
                        THEN Id(t) ELSE reg[LinkName(fr, d)]
  <2>1. code.links = links
    OBVIOUS
  <2> HIDE DEF code
  <2> QED BY <2>1
<1> HIDE DEF code
<1> QED BY <1>fr, <1>5, <1>6, <1>7, <1>8, <1>9

\* Compiling the specialization on top keeps the invariant.
LEMMA CompileKeeps ==
  ASSUME DispatchInv, NEW t \in Thread, Compile(t)
  PROVE  DispatchInv'
<1>fr. PICK fr \in Build : fr = Top(t)
  BY TopOf DEF Compile, Ready
<1>code. PICK code \in Code : /\ code.id = [fn |-> Obj(t).fn, inst |-> fr.inst, ver |-> Obj(t).ver]
                              /\ code.verified = Obj(t).verify
                              /\ SetTop(t, [fr EXCEPT !.made = code])
                              /\ reg' \in [Names -> Identity \cup {Absent}]
  BY <1>fr, CompileMakes
<1>new. PICK new : new = [fr EXCEPT !.made = code]
  OBVIOUS
<1>1. /\ thr[t].frames # <<>> /\ fr.todo = <<>> /\ BuildOK(fr) /\ Obj(t) = objs[fr.obj]
      /\ ObjectOK(fr.obj) /\ UNCHANGED <<world, objs, glob, failed, ops>> /\ TypesOK
  BY <1>fr, TopOf DEF Compile, Ready, DispatchInv
<1>2. /\ new \in Build /\ new.obj = fr.obj /\ new.inst = fr.inst /\ new.role = fr.role
      /\ new.scope = fr.scope /\ new.todo = fr.todo /\ new.made = code
      /\ new.missing = fr.missing
  BY <1>new DEF Build, Entry
<1>3. CodeOf(new.made, new.obj, new.inst)
  BY <1>1, <1>2, <1>code DEF CodeOf, ObjectOK
<1>4. BuildOK(new) /\ ~ new.missing
  BY <1>1, <1>2, <1>3 DEF BuildOK
<1>5. failed' \in BOOLEAN /\ reg' \in [Names -> Identity \cup {Absent}]
  BY <1>1, <1>code DEF TypesOK
<1>6. SetTop(t, new)
  BY <1>code, <1>new
<1> QED BY <1>fr, <1>1, <1>2, <1>4, <1>5, <1>6, TopStep

\* An exception ends all builds of the thread.
LEMMA RaiseKeeps ==
  ASSUME DispatchInv, NEW t \in Thread, NEW how \in {"refused", "panic"}, Raise(t, how)
  PROVE  DispatchInv'
<1>o. PICK out : out = [how |-> how]
  OBVIOUS
<1>1. /\ Updated(t, <<>>, Absent, out)
      /\ failed' = TRUE /\ UNCHANGED <<world, objs, glob, reg, ops>> /\ TypesOK
  BY <1>o DEF Raise, DispatchInv, Updated
<1>2. out \in Outcome /\ RanOK(out)
  BY <1>o, EndFacts DEF Ends
<1>3. /\ thr'[t].frames = <<>> /\ thr'[t].goal = Absent /\ thr'[t].out = out
      /\ Others(t) /\ thr' \in [Thread -> ThreadState]
      /\ \A q \in Thread : thr'[q].blocks = thr[q].blocks
      /\ BlocksOK(t)'
  BY <1>1, <1>2, EndUpdate DEF DispatchInv, ThreadOK
<1>4. TypesOK'
  BY <1>1, <1>3 DEF TypesOK
<1>5. ThreadOK(t)'
  BY <1>1, <1>2, <1>3, <1>4, NoBuilds, QuietThread
<1> QED BY <1>1, <1>3, <1>4, <1>5, QuietStep

\* The verifier refuses a function.
LEMMA RefuseKeeps ==
  ASSUME DispatchInv, NEW t \in Thread, Refuse(t)
  PROVE  DispatchInv'
<1>1. CASE world.strict
  BY <1>1, RaiseKeeps DEF Refuse
<1>2. CASE ~ world.strict
  <2> PICK fr \in Build : fr = Top(t)
    BY TopOf DEF Refuse, Ready
  <2> PICK new : new = [fr EXCEPT !.made = Python]
    OBVIOUS
  <2>1. /\ TypesOK /\ thr[t].frames # <<>> /\ fr.todo = <<>> /\ BuildOK(fr)
    BY TopOf DEF Refuse, Ready, DispatchInv
  <2>2. SetTop(t, new) /\ UNCHANGED <<world, objs, glob, reg, ops>> /\ failed' = TRUE
    BY <1>2 DEF Refuse
  <2>3. /\ new \in Build /\ new.obj = fr.obj /\ new.inst = fr.inst /\ new.role = fr.role
        /\ new.scope = fr.scope /\ new.todo = fr.todo /\ new.made = Python
        /\ new.missing = fr.missing
    BY DEF Build, Entry
  <2>4. BuildOK(new) /\ ~ new.missing
    BY <2>1, <2>3 DEF BuildOK, CodeOf
  <2>5. failed' \in BOOLEAN /\ reg' \in [Names -> Identity \cup {Absent}]
    BY <2>1, <2>2 DEF TypesOK
  <2> QED BY <2>1, <2>2, <2>3, <2>4, <2>5, TopStep
<1> QED BY <1>1, <1>2

\* __call__ up to the look into the cache.
LEMMA CallKeeps ==
  ASSUME DispatchInv, NEW t \in Thread, NEW f \in world.fns, NEW a \in world.args,
         NEW good \in BOOLEAN, Call(t, f, a, good)
  PROVE  DispatchInv'
<1>o. PICK o : o = glob[f]
  OBVIOUS
<1>i. PICK i : i = KeyOf(f, a)
  OBVIOUS
<1>v. PICK v : v = objs[o].ver
  OBVIOUS
<1>1. /\ TypesOK /\ Bound(glob) /\ o # Absent
      /\ thr[t].frames = <<>> /\ thr[t].goal = Absent
      /\ ops' = ops + 1 /\ ops < world.budget /\ UNCHANGED <<world, objs, glob, reg, failed>>
  BY <1>o DEF Call, Free, DispatchInv
<1>2. ops' \in 0 .. world.budget
  <2>1. world.budget \in Nat
    BY <1>1, WorldsAssumption DEF TypesOK
  <2> QED BY <1>1, <2>1 DEF TypesOK
<1>3. f \in Fn /\ a \in Labels
  BY <1>1, WorldFacts
<1>4. o \in Obs /\ objs[o].fn = f
  BY <1>1, <1>3, <1>o DEF Bound
<1>5. o \in Nat /\ v \in Versions
  <2>1. objs[o] \in Object
    BY <1>1, <1>4 DEF TypesOK, Obs
  <2> QED BY <1>1, <1>4, <1>v, <2>1 DEF TypesOK, Obs, Object
<1>6. CASE i = Absent
  <2>out. PICK out : out = [how |-> "no overload"]
    OBVIOUS
  <2>1. out \in Outcome /\ RanOK(out)
    BY <2>out, EndFacts DEF Ends
  <2>2. thr' = [thr EXCEPT ![t].out = out]
    BY <1>6, <1>i, <1>o, <2>out DEF Call
  <2>3. Updated(t, <<>>, Absent, out)
    BY <1>1, <2>2 DEF TypesOK, ThreadState, Updated
  <2>4. /\ thr'[t].frames = <<>> /\ thr'[t].goal = Absent /\ thr'[t].out = out
        /\ Others(t) /\ thr' \in [Thread -> ThreadState]
        /\ \A q \in Thread : thr'[q].blocks = thr[q].blocks
        /\ BlocksOK(t)'
    BY <1>1, <2>1, <2>3, EndUpdate DEF DispatchInv, ThreadOK
  <2>5. TypesOK'
    BY <1>1, <1>2, <2>4 DEF TypesOK
  <2>6. ThreadOK(t)'
    BY <1>1, <2>1, <2>4, <2>5, NoBuilds, QuietThread
  <2> QED BY <1>1, <2>4, <2>5, <2>6, QuietStep
<1>7. CASE i # Absent
  <2>g. PICK g : g = [obj |-> o, inst |-> i, arg |-> a, good |-> good]
    OBVIOUS
  <2>out. PICK out : out = [how |-> "none"]
    OBVIOUS
  <2>fr. PICK fr : IsFrame(fr, o, f, v, i, "call")
    BY DEF IsFrame
  <2>fs. PICK fs : fs = IF objs[o].cache[i] = Absent THEN <<fr>> ELSE <<>>
    OBVIOUS
  <2>1. i \in Labels
    BY <1>1, <1>7, <1>i, KeyType
  <2>2. /\ g \in Goal /\ g.obj = o /\ g.inst = i /\ g.arg = a
    BY <1>3, <1>5, <2>1, <2>g DEF Goal
  <2>3. out \in Outcome /\ RanOK(out)
    BY <2>out, EndFacts DEF Ends
  <2>4. /\ fr \in Build /\ fr.obj = o /\ fr.inst = i /\ fr.role = "call" /\ ~ fr.missing
        /\ fr.made = Absent /\ fr.scope = glob /\ fr.todo \in Seq(world.fns)
    <3>1. "call" \in {"define", "call", "nested"}
      OBVIOUS
    <3> QED BY <1>1, <1>5, <2>1, <2>fr, <3>1, FrameFacts
  <2>5. BuildOK(fr)
    BY <1>1, <1>4, <2>4 DEF BuildOK, CodeOf
  <2>6. /\ fs \in Seq(Build) /\ Chain(fs)
        /\ objs[o].cache[i] = Absent => fs # <<>> /\ fs[1] = fr
    <3>1. <<fr>> \in Seq(Build) /\ <<fr>> # <<>> /\ <<fr>>[1] = fr /\ Chain(<<fr>>)
      BY <2>4, <2>5, FirstChain
    <3> QED BY <2>fs, <3>1, NoBuilds
  <2>7. Updated(t, fs, g, out)
    <3>1. thr' = [thr EXCEPT ![t].goal = g, ![t].out = out, ![t].frames = fs]
      BY <1>7, <1>i, <1>o, <1>v, <2>out, <2>g, <2>fr, <2>fs DEF Call, IsFrame
    <3> QED BY <1>1, <3>1 DEF TypesOK, ThreadState, Updated
  <2>8. /\ thr'[t].frames = fs /\ thr'[t].goal = g /\ thr'[t].out = out
        /\ Others(t) /\ thr' \in [Thread -> ThreadState]
        /\ \A q \in Thread : thr'[q].blocks = thr[q].blocks
        /\ BlocksOK(t)'
    BY <1>1, <2>2, <2>3, <2>6, <2>7, ThreadUpdate DEF DispatchInv, ThreadOK
  <2>9. TypesOK'
    BY <1>1, <1>2, <2>8 DEF TypesOK
  <2>10. GoalOK(g)
    BY <1>4, <1>7, <1>i, <2>2 DEF GoalOK
  <2>11. Awaits(g, fs)
    BY <2>2, <2>4, <2>6, <2>10 DEF Awaits
  <2>12. ThreadOK(t)'
    BY <1>1, <2>3, <2>6, <2>8, <2>9, <2>11, QuietThread
  <2> QED BY <1>1, <2>8, <2>9, <2>12, QuietStep
<1> QED BY <1>6, <1>7

\* __call__ after the build, if there was one: the cache is read again.
LEMMA EnterKeeps ==
  ASSUME DispatchInv, NEW t \in Thread, Enter(t)
  PROVE  DispatchInv'
<1>1. /\ TypesOK /\ thr[t].frames = <<>> /\ thr[t].goal # Absent
      /\ UNCHANGED <<world, objs, glob, reg, failed, ops>>
  BY DEF Enter, DispatchInv
<1> PICK g \in Goal : g = thr[t].goal
  BY <1>1 DEF TypesOK, ThreadState
<1> PICK e : e = objs[g.obj].cache[g.inst]
  OBVIOUS
<1>2. GoalOK(g) /\ e # Absent
  BY <1>1, AwaitsOf DEF Awaits
<1>3. g.obj \in Obs /\ g.inst \in Labels /\ e \in Entry /\ CodeOf(e, g.obj, g.inst)
  <2>1. g.obj \in Obs /\ g.inst \in Labels
    BY <1>2 DEF GoalOK, Goal
  <2>2. objs[g.obj] \in Object /\ ObjectOK(g.obj)
    BY <1>1, <2>1 DEF DispatchInv, TypesOK, Obs
  <2> QED BY <2>1, <2>2 DEF Object, ObjectOK
<1>4. PICK out : /\ thr' = [thr EXCEPT ![t].goal = Absent, ![t].out = out]
                 /\ \/ \E h \in Ends : out = [how |-> h]
                    \/ /\ e \notin {Placeholder, Python}
                       /\ out = [how |-> "ran", goal |-> g, code |-> e]
  <2> DEFINE end == CASE e = Placeholder -> [how |-> "not callable"]
                      [] e = Python -> [how |-> "python"]
                      [] e \notin {Placeholder, Python} ->
                           IF Guarded(objs[g.obj].fn) /\ ~ g.good THEN [how |-> "precondition"]
                           ELSE [how |-> "ran", goal |-> g, code |-> e]
  <2>1. thr' = [thr EXCEPT ![t].goal = Absent, ![t].out = end]
    BY DEF Enter
  <2>2. Placeholder # Python
    BY EntriesAssumption
  <2>3. CASE e = Placeholder
    <3>1. end = [how |-> "not callable"]
      BY <2>2, <2>3
    <3> HIDE DEF end
    <3> QED BY <2>1, <3>1 DEF Ends
  <2>4. CASE e = Python
    <3>1. end = [how |-> "python"]
      BY <2>2, <2>4
    <3> HIDE DEF end
    <3> QED BY <2>1, <3>1 DEF Ends
  <2>5. CASE e \notin {Placeholder, Python} /\ Guarded(objs[g.obj].fn) /\ ~ g.good
    <3>1. end = [how |-> "precondition"]
      BY <2>5
    <3> HIDE DEF end
    <3> QED BY <2>1, <3>1 DEF Ends
  <2>6. CASE e \notin {Placeholder, Python} /\ ~ (Guarded(objs[g.obj].fn) /\ ~ g.good)
    <3>1. end = [how |-> "ran", goal |-> g, code |-> e]
      BY <2>6
    <3> HIDE DEF end
    <3> QED BY <2>1, <2>6, <3>1
  <2> QED BY <2>3, <2>4, <2>5, <2>6
<1>5. out \in Outcome /\ RanOK(out)
  <2>1. CASE \E h \in Ends : out = [how |-> h]
    BY <2>1, EndFacts
  <2>2. CASE out = [how |-> "ran", goal |-> g, code |-> e] /\ e \notin {Placeholder, Python}
    <3>1. out \in [how : {"ran"}, goal : Goal, code : Entry]
      BY <1>3, <2>2
    <3>2. out.goal = g /\ out.code = e
      BY <2>2
    <3>3. out \in Outcome
      BY <3>1 DEF Outcome
    <3> QED BY <1>2, <1>3, <2>2, <3>2, <3>3 DEF RanOK
  <2> QED BY <1>4, <2>1, <2>2
<1>6. Updated(t, <<>>, Absent, out)
  BY <1>1, <1>4 DEF TypesOK, ThreadState, Updated
<1>7. /\ thr'[t].frames = <<>> /\ thr'[t].goal = Absent /\ thr'[t].out = out
      /\ Others(t) /\ thr' \in [Thread -> ThreadState]
      /\ \A q \in Thread : thr'[q].blocks = thr[q].blocks
      /\ BlocksOK(t)'
  BY <1>1, <1>5, <1>6, EndUpdate DEF DispatchInv, ThreadOK
<1>8. TypesOK'
  BY <1>1, <1>7 DEF TypesOK
<1>9. ThreadOK(t)'
  BY <1>1, <1>5, <1>7, <1>8, NoBuilds, QuietThread
<1> QED BY <1>1, <1>7, <1>8, <1>9, QuietStep

----------------------------------------------------------------------------
(***************************************************************************)
(* Steps that change the objects.                                          *)
(***************************************************************************)

\* What is known of the acting thread holds of the objects as they are then.
LEMMA GrowThread ==
  ASSUME TypesOK, TypesOK', Grows, NEW t \in Thread,
         NEW fs \in Seq(Build), thr'[t].frames = fs, Chain(fs)',
         NEW g, thr'[t].goal = g,
         g # Absent => /\ GoalOK(g)
                       /\ \/ objs'[g.obj].cache[g.inst] # Absent
                          \/ fs # <<>> /\ fs[1].obj = g.obj /\ fs[1].inst = g.inst,
         NEW out, thr'[t].out = out, RanOK(out), BlocksOK(t)'
  PROVE  ThreadOK(t)'
<1>1. RanOK(out)'
  BY GoalStays DEF RanOK, CodeOf, GoalOK, Grows
<1>2. ASSUME g # Absent PROVE GoalOK(g)' /\ Expected(t)'
  <2>1. GoalOK(g)'
    BY <1>2, GoalStays
  <2> QED BY <1>2, <2>1 DEF Expected
<1> QED BY <1>1, <1>2 DEF ThreadOK

\* A new object has compiled nothing yet.
LEMMA ObjectAdded ==
  ASSUME DispatchInv, world' = world, NEW obj \in Object, objs' = Append(objs, obj),
         obj.fn \in world.fns, obj.verify = obj.meant, \A i \in Labels : obj.cache[i] = Absent
  PROVE  /\ objs' \in Seq(Object) /\ Len(objs) \in Nat /\ Len(objs') = Len(objs) + 1
         /\ objs'[Len(objs) + 1] = obj /\ Grows
         /\ Obs = 1 .. Len(objs) /\ Obs' = 1 .. Len(objs) + 1
         /\ \A names \in [Fn -> Nat \cup {Absent}] : Bound(names) => Bound(names)'
         /\ \A j \in Obs' : ObjectOK(j)'
<1> PICK os \in Seq(Object) : os = objs
  BY DEF DispatchInv, TypesOK
<1>1. /\ Append(os, obj) \in Seq(Object) /\ Len(os) \in Nat /\ Len(Append(os, obj)) = Len(os) + 1
      /\ Append(os, obj)[Len(os) + 1] = obj /\ \A j \in 1 .. Len(os) : Append(os, obj)[j] = os[j]
      /\ DOMAIN os = 1 .. Len(os) /\ DOMAIN Append(os, obj) = 1 .. Len(os) + 1
  OBVIOUS
<1>2. /\ objs' \in Seq(Object) /\ Len(objs) \in Nat /\ Len(objs') = Len(objs) + 1
      /\ objs'[Len(objs) + 1] = obj /\ \A j \in Obs : objs'[j] = objs[j]
      /\ Obs = 1 .. Len(objs) /\ Obs' = 1 .. Len(objs) + 1
  BY <1>1 DEF Obs
<1>3. Grows
  BY <1>2 DEF Grows
<1>4. \A names \in [Fn -> Nat \cup {Absent}] : Bound(names) => Bound(names)'
  BY <1>2 DEF Bound
<1>5. ASSUME NEW j \in Obs' PROVE ObjectOK(j)'
  <2>1. CASE j \in Obs
    <3>1. ObjectOK(j) /\ objs'[j] = objs[j]
      BY <1>2, <2>1 DEF DispatchInv
    <3> QED BY <3>1 DEF ObjectOK, CodeOf
  <2>2. CASE j = Len(objs) + 1
    BY <1>2, <2>2 DEF ObjectOK, CodeOf
  <2> QED BY <1>2, <2>1, <2>2
<1> QED BY <1>2, <1>3, <1>4, <1>5

\* The first build of a definition stands on an object of that step.
LEMMA FirstChainNext ==
  ASSUME NEW fr \in Build, BuildOK(fr)', fr.role # "nested", ~ fr.missing
  PROVE  <<fr>> \in Seq(Build) /\ Chain(<<fr>>)'
<1>1. Len(<<fr>>) = 1 /\ <<fr>>[1] = fr /\ DOMAIN <<fr>> = {1} /\ <<fr>> \in Seq(Build)
  OBVIOUS
<1> QED BY <1>1 DEF Chain

\* A thread whose builds are all gone after a step waits for nothing.
LEMMA NoBuildsNext == Chain(<<>>)'
BY DEF Chain

\* A definition: whether it is verified is settled for good.
LEMMA DecorateKeeps ==
  ASSUME DispatchInv, NEW t \in Thread, NEW f \in world.fns, NEW v \in Versions,
         NEW flag \in BOOLEAN, Decorate(t, f, v, flag)
  PROVE  DispatchInv'
<1>obj. PICK obj : obj = [fn |-> f, ver |-> v, verify |-> flag /\ ~ thr[t].off,
                          meant |-> flag /\ thr[t].blocks = <<>>,
                          cache |-> [i \in Labels |-> Absent]]
  OBVIOUS
<1>1. /\ TypesOK /\ Bound(glob) /\ thr[t].frames = <<>> /\ thr[t].goal = Absent
      /\ ops < world.budget /\ ops' = ops + 1 /\ objs' = Append(objs, obj)
      /\ UNCHANGED <<world, reg, failed>> /\ thr[t] \in ThreadState
  BY <1>obj DEF Decorate, Free, DispatchInv, TypesOK
<1>2. ops' \in 0 .. world.budget
  <2>1. world.budget \in Nat
    BY <1>1, WorldsAssumption DEF TypesOK
  <2> QED BY <1>1, <2>1 DEF TypesOK
<1>3. f \in Fn /\ Base \in Labels
  BY <1>1, WorldFacts
<1>4. thr[t].off \in BOOLEAN /\ (thr[t].off <=> thr[t].blocks # <<>>)
  BY <1>1 DEF ThreadState, DispatchInv, ThreadOK, BlocksOK
<1>5. obj.verify \in BOOLEAN /\ obj.meant \in BOOLEAN /\ obj.verify = obj.meant
  BY <1>4, <1>obj
<1>6. /\ obj.fn = f /\ obj.ver = v /\ obj.cache = [i \in Labels |-> Absent]
      /\ \A i \in Labels : obj.cache[i] = Absent
  BY <1>obj
<1>7. obj \in Object
  <2>1. obj.cache \in [Labels -> Entry]
    BY <1>6 DEF Entry
  <2> QED BY <1>3, <1>5, <1>6, <1>obj, <2>1 DEF Object
<1>n. PICK n \in Nat : n = Len(objs)
  BY <1>1 DEF TypesOK
<1>8. /\ objs' \in Seq(Object) /\ Len(objs') = n + 1 /\ objs'[n + 1] = obj /\ Grows
      /\ Obs = 1 .. n /\ Obs' = 1 .. n + 1
      /\ \A names \in [Fn -> Nat \cup {Absent}] : Bound(names) => Bound(names)'
      /\ \A j \in Obs' : ObjectOK(j)'
  BY <1>1, <1>5, <1>6, <1>7, <1>n, ObjectAdded
<1>9. glob \in [Fn -> Nat \cup {Absent}] /\ glob \in [Fn -> 1 .. n \cup {Absent}]
  BY <1>1, <1>n DEF TypesOK
<1>10. BlocksOK(t)
  BY DEF DispatchInv, ThreadOK
<1>11. CASE Lazy(f)
  <2>out. PICK out : out = [how |-> "defined"]
    OBVIOUS
  <2>1. out \in Outcome /\ RanOK(out)
    BY <2>out, EndFacts DEF Ends
  <2>2. glob' = [glob EXCEPT ![f] = n + 1] /\ thr' = [thr EXCEPT ![t].out = out]
    BY <1>8, <1>11, <2>out DEF Decorate
  <2>3. Updated(t, <<>>, Absent, out)
    BY <1>1, <2>2 DEF TypesOK, ThreadState, Updated
  <2>4. /\ thr'[t].frames = <<>> /\ thr'[t].goal = Absent /\ thr'[t].out = out
        /\ Others(t) /\ thr' \in [Thread -> ThreadState]
        /\ \A q \in Thread : thr'[q].blocks = thr[q].blocks
        /\ BlocksOK(t)'
    BY <1>1, <1>10, <2>1, <2>3, EndUpdate
  <2>5. glob' \in [Fn -> 1 .. Len(objs') \cup {Absent}]
    <3>1. glob \in [Fn -> 1 .. n + 1 \cup {Absent}]
      BY <1>9
    <3>2. n + 1 \in 1 .. n + 1 \cup {Absent}
      OBVIOUS
    <3>3. glob' \in [Fn -> 1 .. n + 1 \cup {Absent}]
      BY <2>2, <3>1, <3>2, Zenon
    <3> QED BY <1>8, <3>3
  <2>6. TypesOK'
    BY <1>1, <1>2, <1>8, <2>4, <2>5 DEF TypesOK
  <2>7. Bound(glob)'
    <3>1. Bound(glob) /\ \A h \in Fn : glob[h] # Absent => glob[h] \in Obs' /\ objs'[glob[h]].fn = h
      BY <1>1, <1>8, <1>9 DEF Bound
    <3> QED BY <1>3, <1>6, <1>8, <1>9, <2>2, <3>1 DEF Bound
  <2>8. ThreadOK(t)'
    BY <1>1, <1>8, <2>1, <2>4, <2>6, NoBuilds, NoBuildsNext, GrowThread
  <2> QED BY <1>8, <2>4, <2>6, <2>7, <2>8, StepKeeps
<1>12. CASE ~ Lazy(f)
  <2>out. PICK out : out = [how |-> "none"]
    OBVIOUS
  <2>fr. PICK fr : IsFrame(fr, n + 1, f, v, Base, "define")
    BY DEF IsFrame
  <2>1. out \in Outcome /\ RanOK(out)
    BY <2>out, EndFacts DEF Ends
  <2>2. glob' = glob /\ thr' = [thr EXCEPT ![t].frames = <<fr>>, ![t].out = out]
    BY <1>8, <1>12, <2>out, <2>fr DEF Decorate, IsFrame
  <2>3. /\ fr \in Build /\ fr.obj = n + 1 /\ fr.inst = Base /\ fr.role = "define" /\ ~ fr.missing
        /\ fr.made = Absent /\ fr.scope = glob /\ fr.todo \in Seq(world.fns)
    <3>1. "define" \in {"define", "call", "nested"} /\ n + 1 \in Nat
      OBVIOUS
    <3> QED BY <1>1, <1>3, <2>fr, <3>1, FrameFacts
  <2>4. BuildOK(fr)'
    <3>1. Bound(fr.scope)'
      BY <1>1, <1>8, <1>9, <2>3
    <3>2. CodeOf(fr.made, fr.obj, fr.inst)'
      BY <2>3 DEF CodeOf
    <3> QED BY <1>1, <1>8, <2>3, <3>1, <3>2 DEF BuildOK
  <2>5. <<fr>> \in Seq(Build) /\ Chain(<<fr>>)'
    BY <2>3, <2>4, FirstChainNext
  <2>fs. PICK fs \in Seq(Build) : fs = <<fr>>
    BY <2>5
  <2>g. PICK g \in Goal \cup {Absent} : g = Absent
    OBVIOUS
  <2>6. Updated(t, fs, g, out)
    BY <1>1, <2>2, <2>fs, <2>g DEF TypesOK, ThreadState, Updated
  <2>7. /\ thr'[t].frames = fs /\ thr'[t].goal = g /\ thr'[t].out = out
        /\ Others(t) /\ thr' \in [Thread -> ThreadState]
        /\ \A q \in Thread : thr'[q].blocks = thr[q].blocks
        /\ BlocksOK(t)'
    BY <1>1, <1>10, <2>1, <2>6, ThreadUpdate
  <2>8. glob' \in [Fn -> 1 .. Len(objs') \cup {Absent}]
    BY <1>8, <1>9, <2>2
  <2>9. TypesOK'
    BY <1>1, <1>2, <1>8, <2>7, <2>8 DEF TypesOK
  <2>10. Bound(glob)'
    <3>1. \A h \in Fn : glob[h] # Absent => glob[h] \in Obs' /\ objs'[glob[h]].fn = h
      BY <1>1, <1>8, <1>9 DEF Bound
    <3> QED BY <2>2, <3>1 DEF Bound
  <2>11. ThreadOK(t)'
    BY <1>1, <1>8, <2>1, <2>5, <2>fs, <2>g, <2>7, <2>9, GrowThread
  <2> QED BY <1>8, <2>7, <2>9, <2>10, <2>11, StepKeeps
<1> QED BY <1>11, <1>12

\* An entry is filled: with the None of a build, or with what was built.
LEMMA EntryFilled ==
  ASSUME DispatchInv, world' = world, NEW o \in Obs, NEW i \in Labels, NEW e \in Entry,
         e # Absent, CodeOf(e, o, i), objs' = [objs EXCEPT ![o].cache[i] = e]
  PROVE  /\ objs' \in Seq(Object) /\ Len(objs') = Len(objs) /\ Obs' = Obs /\ Grows
         /\ Obs = 1 .. Len(objs) /\ Len(objs) \in Nat
         /\ objs'[o].cache[i] = e /\ objs'[o].fn = objs[o].fn
         /\ \A names : Bound(names) => Bound(names)'
         /\ \A j \in Obs' : ObjectOK(j)'
<1>1. objs \in Seq(Object) /\ Obs = 1 .. Len(objs) /\ Len(objs) \in Nat /\ objs[o] \in Object
  BY DEF DispatchInv, TypesOK, Obs
<1>2. PICK x : x = [objs[o] EXCEPT !.cache[i] = e]
  OBVIOUS
<1>3. /\ x \in Object /\ x.fn = objs[o].fn /\ x.ver = objs[o].ver /\ x.verify = objs[o].verify
      /\ x.meant = objs[o].meant /\ x.cache[i] = e
      /\ \A k \in Labels : k # i => x.cache[k] = objs[o].cache[k]
  BY <1>1, <1>2 DEF Object
<1>4. objs' = [objs EXCEPT ![o] = x]
  BY <1>1, <1>2 DEF Object
<1>5. /\ objs' \in Seq(Object) /\ Len(objs') = Len(objs) /\ Obs' = Obs
      /\ objs'[o] = x /\ \A j \in Obs : j # o => objs'[j] = objs[j]
  BY <1>1, <1>3, <1>4 DEF Obs
<1>6. ASSUME NEW j \in Obs
      PROVE  /\ objs'[j].fn = objs[j].fn /\ objs'[j].ver = objs[j].ver
             /\ objs'[j].verify = objs[j].verify /\ objs'[j].meant = objs[j].meant
             /\ \A k \in Labels : <<j, k>> # <<o, i>> => objs'[j].cache[k] = objs[j].cache[k]
  BY <1>3, <1>5
<1>7. Grows
  <2>1. ASSUME NEW j \in Obs, NEW k \in Labels, objs[j].cache[k] # Absent
        PROVE  objs'[j].cache[k] # Absent
    BY <1>3, <1>5, <1>6, <2>1
  <2> QED BY <1>1, <1>5, <1>6, <2>1 DEF Grows
<1>8. \A names : Bound(names) => Bound(names)'
  BY <1>5, <1>6 DEF Bound
<1>9. ASSUME NEW j \in Obs PROVE ObjectOK(j)'
  <2>1. ObjectOK(j)
    BY DEF DispatchInv
  <2>2. ASSUME NEW k \in Labels PROVE CodeOf(objs[j].cache[k], j, k)'
    <3>1. CASE <<j, k>> # <<o, i>>
      BY <1>6, <2>1, <3>1 DEF ObjectOK, CodeOf
    <3>2. CASE j = o /\ k = i
      <4>1. /\ objs'[o].cache[i] = e /\ objs'[o].fn = objs[o].fn
            /\ objs'[o].ver = objs[o].ver /\ objs'[o].meant = objs[o].meant
        BY <1>3, <1>5
      <4>2. CodeOf(objs[o].cache[i], o, i)'
        BY <4>1 DEF CodeOf
      <4> QED BY <3>2, <4>2
    <3> QED BY <3>1, <3>2
  <2> QED BY <1>6, <2>1, <2>2 DEF ObjectOK
<1> QED BY <1>1, <1>3, <1>5, <1>7, <1>8, <1>9

\* A build for a callee stands on the others.
LEMMA PushChain ==
  ASSUME TypesOK, TypesOK', Grows, NEW fs \in Seq(Build), fs # <<>>, Chain(fs),
         ~ Last(fs).missing, Last(fs).todo # <<>>, NEW new \in Build, BuildOK(new)',
         new.role = "nested", new.inst = fs[1].inst, ~ new.missing,
         objs'[new.obj].cache[new.inst] # Absent,
         \A j \in DOMAIN fs : 1 < j => fs[j].obj # new.obj
  PROVE  /\ Append(fs, new) \in Seq(Build) /\ Chain(Append(fs, new))'
         /\ Append(fs, new) # <<>> /\ Append(fs, new)[1] = fs[1]
<1>n. PICK n \in Nat \ {0} : n = Len(fs) /\ Last(fs) = fs[n] /\ DOMAIN fs = 1 .. n
  <2>1. Len(fs) \in Nat \ {0} /\ DOMAIN fs = 1 .. Len(fs)
    OBVIOUS
  <2> QED BY <2>1 DEF Last
<1>gs. PICK gs \in Seq(Build) : gs = Append(fs, new)
  BY AppendType
<1>1. /\ Len(gs) = n + 1 /\ gs[n + 1] = new /\ (\A j \in 1 .. n : gs[j] = fs[j])
      /\ DOMAIN gs = 1 .. n + 1 /\ gs # <<>>
  BY <1>n, <1>gs
<1>2. Chain(fs)'
  BY ChainStays
<1>3. \A j \in 1 .. n : BuildOK(fs[j])'
  BY <1>2, <1>n DEF Chain
<1>4. /\ \A j \in 1 .. n : (fs[j].role = "nested" <=> j > 1) /\ fs[j].inst = fs[1].inst
      /\ \A j \in 1 .. n : ~ fs[j].missing /\ fs[j].todo # <<>>
      /\ \A j, k \in 1 .. n : 1 < j /\ j < k => fs[j].obj # fs[k].obj
      /\ \A j \in 1 .. n : 1 < j => objs'[fs[j].obj].cache[fs[j].inst] # Absent
  BY <1>2, <1>n DEF Chain
<1>5. \A j \in 1 .. n + 1 : BuildOK(gs[j])'
  <2>1. \A j \in 1 .. n + 1 : j \in 1 .. n \/ j = n + 1
    OBVIOUS
  <2> QED BY <1>1, <1>3, <2>1
<1>6. gs[1] = fs[1] /\ gs[1].inst = new.inst
  BY <1>1
<1>7. \A j \in 1 .. n + 1 : (gs[j].role = "nested" <=> j > 1) /\ gs[j].inst = gs[1].inst
  BY <1>1, <1>4, <1>6
<1>8. \A j \in 1 .. n + 1 : j < n + 1 => ~ gs[j].missing /\ gs[j].todo # <<>>
  BY <1>1, <1>4
<1>9. ASSUME NEW j \in 1 .. n + 1, NEW k \in 1 .. n + 1, 1 < j, j < k
      PROVE  gs[j].obj # gs[k].obj
  <2>1. j \in 1 .. n /\ gs[j] = fs[j]
    BY <1>1, <1>9
  <2>2. CASE k \in 1 .. n
    <3>1. gs[k] = fs[k]
      BY <1>1, <2>2
    <3> QED BY <1>4, <1>9, <2>1, <2>2, <3>1
  <2>3. CASE k = n + 1
    BY <1>1, <1>9, <1>n, <2>1, <2>3
  <2> QED BY <2>2, <2>3
<1>10. ASSUME NEW j \in 1 .. n + 1, 1 < j
       PROVE  objs'[gs[j].obj].cache[gs[j].inst] # Absent
  <2>1. CASE j \in 1 .. n
    <3>1. gs[j] = fs[j]
      BY <1>1, <2>1
    <3> QED BY <1>4, <1>10, <2>1, <3>1
  <2>2. CASE j = n + 1
    BY <1>1, <2>2
  <2> QED BY <2>1, <2>2
<1>11. Chain(gs)'
  BY <1>1, <1>5, <1>7, <1>8, <1>9, <1>10 DEF Chain
<1> QED BY <1>gs, <1>1, <1>11

\* visit_Call: the missing callee is marked, and its build begins.
LEMMA SpecializeKeeps ==
  ASSUME DispatchInv, NEW t \in Thread, Specialize(t)
  PROVE  DispatchInv'
<1>fs. PICK fs \in Seq(Build) : fs = thr[t].frames
  BY TopOf DEF Specialize
<1>fr. PICK fr \in Build : fr = Top(t)
  BY TopOf DEF Specialize
<1>d. PICK d : d = Head(fr.todo)
  OBVIOUS
<1>o. PICK o : o = fr.scope[d]
  OBVIOUS
<1>new. PICK new : IsFrame(new, o, d, objs[o].ver, fr.inst, "nested")
  BY DEF IsFrame
<1>top. PICK top : top = [fr EXCEPT !.missing = FALSE]
  OBVIOUS
<1>1. /\ TypesOK /\ Chain(fs) /\ fs # <<>> /\ BuildOK(fr) /\ fr.missing /\ fr = Last(fs)
      /\ Len(fs) \in DOMAIN fs /\ fs[Len(fs)] = fr /\ fr.inst \in Labels /\ 1 \in DOMAIN fs
  <2>1. TypesOK /\ thr[t].frames # <<>> /\ Top(t).missing
    BY DEF Specialize, DispatchInv
  <2>2. /\ Chain(thr[t].frames) /\ BuildOK(Top(t)) /\ Top(t).inst \in Labels
        /\ Len(thr[t].frames) \in Nat \ {0} /\ Top(t) = thr[t].frames[Len(thr[t].frames)]
    BY <2>1, TopOf
  <2>3. Top(t) = Last(thr[t].frames)
    BY DEF Top
  <2>4. Len(fs) \in DOMAIN fs /\ 1 \in DOMAIN fs
    BY <1>fs, <2>2
  <2> QED BY <1>fs, <1>fr, <2>1, <2>2, <2>3, <2>4
<1>2. /\ objs' = [objs EXCEPT ![o].cache[fr.inst] = Placeholder]
      /\ UNCHANGED <<world, glob, reg, failed, ops>>
      /\ thr' = [thr EXCEPT ![t].frames = Append(Append(Front(fs), top), new)]
  BY <1>fs, <1>fr, <1>d, <1>o, <1>new, <1>top DEF Specialize, IsFrame, Marked
<1>3. fr.todo # <<>> /\ fr.todo \in Seq(world.fns) /\ Nested(fr, d) /\ o = Callee(fr)
  BY <1>1, <1>d, <1>o DEF BuildOK, Callee
<1>4. d \in world.fns /\ d \in Fn
  BY <1>1, <1>3, <1>d, WorldFacts
<1>5. o \in Obs /\ objs[o].fn = d /\ o \in Nat
  BY <1>1, <1>3, <1>4, <1>o DEF BuildOK, Bound, Nested, Obs, TypesOK
<1>6. Placeholder \in Entry /\ Placeholder # Absent /\ CodeOf(Placeholder, o, fr.inst)
  BY EntriesAssumption DEF Entry, CodeOf
<1>7. /\ objs' \in Seq(Object) /\ Len(objs') = Len(objs) /\ Obs' = Obs /\ Grows
      /\ objs'[o].cache[fr.inst] # Absent /\ objs'[o].fn = d
      /\ (\A names : Bound(names) => Bound(names)') /\ \A j \in Obs' : ObjectOK(j)'
  BY <1>1, <1>2, <1>5, <1>6, EntryFilled
<1>8. /\ top \in Build /\ top.obj = fr.obj /\ top.inst = fr.inst /\ top.role = fr.role
      /\ top.scope = fr.scope /\ top.todo = fr.todo /\ top.made = fr.made /\ ~ top.missing
  BY <1>top DEF Build
<1>9. BuildOK(top)
  BY <1>1, <1>8 DEF BuildOK
<1>hs. PICK hs : hs = Append(Front(fs), top)
  OBVIOUS
<1>10. hs \in Seq(Build) /\ Chain(hs)
  BY <1>1, <1>8, <1>9, <1>hs, TopChain
<1>11. /\ Len(hs) = Len(fs) /\ hs[Len(fs)] = top
       /\ \A j \in 1 .. Len(fs) - 1 : hs[j] = fs[j]
  BY <1>1, <1>8, <1>hs, TopFacts
<1>12. /\ hs # <<>> /\ Last(hs) = top /\ DOMAIN hs = DOMAIN fs /\ 1 \in DOMAIN hs
       /\ \A j \in DOMAIN fs : hs[j].obj = fs[j].obj /\ hs[j].inst = fs[j].inst
  BY <1>1, <1>8, <1>10, <1>11 DEF Last
<1>13. /\ new \in Build /\ new.obj = o /\ new.inst = fr.inst /\ new.role = "nested"
       /\ ~ new.missing /\ new.made = Absent /\ new.scope = glob /\ new.todo \in Seq(world.fns)
  <2>1. "nested" \in {"define", "call", "nested"}
    OBVIOUS
  <2>2. PICK v \in Versions : v = objs[o].ver
    <3>1. objs[o] \in Object
      BY <1>1, <1>5 DEF TypesOK, Obs
    <3> QED BY <3>1 DEF Object
  <2>i. PICK i : i = fr.inst
    OBVIOUS
  <2>3. IsFrame(new, o, d, v, i, "nested")
    BY <1>new, <2>2, <2>i
  <2>4. TypesOK /\ o \in Nat /\ d \in world.fns /\ i \in Labels
    BY <1>1, <1>4, <1>5, <2>i
  <2>5. /\ new \in Build /\ new.obj = o /\ new.inst = i /\ new.role = "nested" /\ ~ new.missing
        /\ new.made = Absent /\ new.scope = glob /\ new.todo \in Seq(world.fns)
    BY <2>1, <2>3, <2>4, FrameFacts
  <2> QED BY <2>5, <2>i
<1>gs. PICK gs : gs = Append(hs, new)
  OBVIOUS
<1>14. gs \in Seq(Build)
  BY <1>10, <1>13, <1>gs, AppendType
<1>15. /\ thr' = [thr EXCEPT ![t].frames = gs] /\ thr'[t].frames = gs
       /\ thr'[t].goal = thr[t].goal /\ thr'[t].out = thr[t].out
       /\ thr'[t].off = thr[t].off /\ thr'[t].blocks = thr[t].blocks
       /\ Others(t) /\ thr' \in [Thread -> ThreadState]
  <2>1. thr' = [thr EXCEPT ![t].frames = gs]
    BY <1>2, <1>hs, <1>gs
  <2> QED BY <1>1, <1>14, <2>1 DEF TypesOK, ThreadState, Others
<1>16. TypesOK'
  BY <1>1, <1>2, <1>7, <1>15 DEF TypesOK, Others
<1>17. BuildOK(new)'
  <2>1. Bound(new.scope)'
    BY <1>7, <1>13 DEF DispatchInv
  <2>2. CodeOf(new.made, new.obj, new.inst)'
    BY <1>13 DEF CodeOf
  <2> QED BY <1>2, <1>5, <1>7, <1>13, <2>1, <2>2 DEF BuildOK
<1>18. \A j \in DOMAIN hs : 1 < j => hs[j].obj # new.obj
  <2>1. \A j \in DOMAIN fs : 1 < j /\ fs[Len(fs)].missing => fs[j].obj # Callee(fs[Len(fs)])
    BY <1>1 DEF Chain
  <2> QED BY <1>1, <1>3, <1>12, <1>13, <2>1
<1>19. new.inst = hs[1].inst
  <2>1. fs[Len(fs)].inst = fs[1].inst
    BY <1>1 DEF Chain
  <2> QED BY <1>1, <1>12, <1>13, <2>1
<1>20. Chain(gs)' /\ gs # <<>> /\ gs[1] = hs[1]
  <2>1. objs'[new.obj].cache[new.inst] # Absent /\ Last(hs).todo # <<>> /\ ~ Last(hs).missing
    BY <1>3, <1>7, <1>8, <1>12, <1>13
  <2> QED BY <1>1, <1>7, <1>10, <1>12, <1>13, <1>16, <1>17, <1>18, <1>19, <1>gs, <2>1, PushChain
<1>21. ThreadOK(t)'
  <2>g. PICK g : g = thr[t].goal
    OBVIOUS
  <2>1. g # Absent => /\ GoalOK(g) /\ g.obj \in Obs /\ g.inst \in Labels
                      /\ \/ objs[g.obj].cache[g.inst] # Absent
                         \/ fs # <<>> /\ fs[1].obj = g.obj /\ fs[1].inst = g.inst
    <3>1. g \in Goal \cup {Absent}
      BY <1>1, <2>g DEF TypesOK, ThreadState
    <3> QED BY <1>fs, <2>g, <3>1, AwaitsOf DEF Awaits, GoalOK, Goal
  <2>2. g # Absent => /\ GoalOK(g)
                      /\ \/ objs'[g.obj].cache[g.inst] # Absent
                         \/ gs # <<>> /\ gs[1].obj = g.obj /\ gs[1].inst = g.inst
    BY <1>1, <1>7, <1>12, <1>20, <2>1 DEF Grows
  <2>3. BlocksOK(t)' /\ RanOK(thr[t].out)
    BY <1>15 DEF DispatchInv, ThreadOK, BlocksOK
  <2> QED BY <1>1, <1>7, <1>14, <1>15, <1>16, <1>20, <2>g, <2>2, <2>3, GrowThread
<1>22. Bound(glob)'
  BY <1>2, <1>7 DEF DispatchInv, Bound
<1> QED BY <1>7, <1>15, <1>16, <1>21, <1>22, StepKeeps

\* The innermost build ends, and the one around it goes on to its next call.
IsResumed(rs, fs) == rs = [Front(fs) EXCEPT ![Len(Front(fs))].todo = Tail(@)]

\* When the top build of several is done, those below go on as a chain of the
\* same call.
LEMMA PopChain ==
  ASSUME TypesOK, NEW fs \in Seq(Build), Len(fs) > 1, Chain(fs), NEW rs, IsResumed(rs, fs)
  PROVE  /\ rs \in Seq(Build) /\ Chain(rs) /\ rs # <<>>
         /\ rs[1].obj = fs[1].obj /\ rs[1].inst = fs[1].inst
<1>n. PICK n \in Nat \ {0} : Len(fs) = n + 1 /\ DOMAIN fs = 1 .. n + 1
  <2>1. Len(fs) \in Nat /\ DOMAIN fs = 1 .. Len(fs)
    OBVIOUS
  <2>2. PICK m \in Nat : m = Len(fs) /\ m > 1
    BY <2>1
  <2>3. m - 1 \in Nat \ {0} /\ m = (m - 1) + 1
    BY <2>2
  <2> QED BY <2>1, <2>2, <2>3
<1>ms. PICK ms \in Seq(Build) : ms = Front(fs)
  BY <1>n, FrontFacts
<1>1. Len(ms) = n /\ DOMAIN ms = 1 .. n /\ \A j \in 1 .. n : ms[j] = fs[j]
  <2>1. Len(ms) = n /\ \A j \in 1 .. (n + 1) - 1 : ms[j] = fs[j]
    BY <1>n, <1>ms, FrontFacts
  <2> QED BY <2>1
<1>2. /\ \A j \in 1 .. n : BuildOK(ms[j])
      /\ \A j \in 1 .. n : (ms[j].role = "nested" <=> j > 1) /\ ms[j].inst = ms[1].inst
      /\ \A j \in 1 .. n : ~ ms[j].missing /\ ms[j].todo # <<>>
      /\ \A j, k \in 1 .. n : 1 < j /\ j < k => ms[j].obj # ms[k].obj
      /\ \A j \in 1 .. n : 1 < j => objs[ms[j].obj].cache[ms[j].inst] # Absent
  <2>1. \A j \in 1 .. n : j \in 1 .. n + 1 /\ j < n + 1
    OBVIOUS
  <2>2. 1 \in 1 .. n
    OBVIOUS
  <2> QED BY <1>n, <1>1, <2>1, <2>2 DEF Chain
<1>top. PICK top : top = [ms[n] EXCEPT !.todo = Tail(@)]
  OBVIOUS
<1>3. ms[n] \in Build /\ BuildOK(ms[n]) /\ ms[n].todo # <<>> /\ n \in 1 .. n
  BY <1>1, <1>2
<1>4. /\ Tail(ms[n].todo) \in Seq(world.fns) /\ Tail(ms[n].todo) \in Seq(Fn)
  <2>1. ms[n].todo \in Seq(world.fns) /\ ms[n].todo \in Seq(Fn)
    BY <1>3 DEF BuildOK, Build
  <2> QED BY <1>3, <2>1, TailType
<1>5. /\ top \in Build /\ top.obj = ms[n].obj /\ top.inst = ms[n].inst /\ top.role = ms[n].role
      /\ top.scope = ms[n].scope /\ top.made = ms[n].made /\ ~ top.missing
      /\ top.todo = Tail(ms[n].todo)
  BY <1>2, <1>3, <1>4, <1>top DEF Build
<1>6. rs = [ms EXCEPT ![n] = top]
  BY <1>1, <1>3, <1>ms, <1>top DEF IsResumed
<1>7. /\ rs \in Seq(Build) /\ Len(rs) = n /\ DOMAIN rs = 1 .. n /\ rs[n] = top
      /\ \A j \in 1 .. n : j # n => rs[j] = ms[j]
  BY <1>1, <1>3, <1>5, <1>6
<1>8. BuildOK(top)
  BY <1>3, <1>4, <1>5 DEF BuildOK
<1>9. \A j \in 1 .. n : BuildOK(rs[j])
  BY <1>2, <1>7, <1>8
<1>10. \A j \in 1 .. n : /\ rs[j].obj = ms[j].obj /\ rs[j].inst = ms[j].inst
                         /\ rs[j].role = ms[j].role /\ ~ rs[j].missing
                         /\ j < n => rs[j].todo # <<>>
  BY <1>2, <1>5, <1>7
<1>11. 1 \in 1 .. n
  OBVIOUS
<1>12. Chain(rs)
  <2>1. \A j \in 1 .. n : (rs[j].role = "nested" <=> j > 1) /\ rs[j].inst = rs[1].inst
    BY <1>2, <1>10, <1>11
  <2>2. \A j, k \in 1 .. n : 1 < j /\ j < k => rs[j].obj # rs[k].obj
    BY <1>2, <1>10
  <2>3. \A j \in 1 .. n : 1 < j => objs[rs[j].obj].cache[rs[j].inst] # Absent
    BY <1>2, <1>10
  <2>4. ~ rs[n].missing
    BY <1>3, <1>10
  <2> QED BY <1>7, <1>9, <1>10, <2>1, <2>2, <2>3, <2>4 DEF Chain
<1> QED BY <1>1, <1>7, <1>10, <1>11, <1>12

\* A build ends: its object has what was made under its key.
LEMMA FinishKeeps ==
  ASSUME DispatchInv, NEW t \in Thread, Finish(t)
  PROVE  DispatchInv'
<1>fs. PICK fs \in Seq(Build) : fs = thr[t].frames
  BY TopOf DEF Finish
<1>fr. PICK fr \in Build : fr = Top(t)
  BY TopOf DEF Finish
<1>gs. PICK gs : gs = IF fr.role = "nested" THEN Resumed(t) ELSE <<>>
  OBVIOUS
<1>1. /\ TypesOK /\ Chain(fs) /\ fs # <<>> /\ BuildOK(fr) /\ fr.made # Absent
      /\ Len(fs) \in Nat \ {0} /\ Len(fs) \in DOMAIN fs /\ fs[Len(fs)] = fr
      /\ fr.inst \in Labels /\ fr.obj \in Obs /\ fr.made \in Entry /\ CodeOf(fr.made, fr.obj, fr.inst)
  <2>1. fs # <<>> /\ fr.made # Absent /\ TypesOK
    BY <1>fs, <1>fr DEF Finish, DispatchInv
  <2>2. /\ Chain(fs) /\ BuildOK(fr) /\ Len(fs) \in Nat \ {0} /\ fs[Len(fs)] = fr
    BY <1>fs, <1>fr, <2>1, TopOf
  <2>3. fr.inst \in Labels /\ fr.made \in Entry
    BY DEF Build
  <2>4. fr.obj \in Obs /\ CodeOf(fr.made, fr.obj, fr.inst)
    BY <2>2 DEF BuildOK
  <2>5. Len(fs) \in DOMAIN fs
    BY <2>2
  <2> QED BY <2>1, <2>2, <2>3, <2>4, <2>5
<1>2. /\ objs' = [objs EXCEPT ![fr.obj].cache[fr.inst] = fr.made]
      /\ glob' = IF fr.role = "define" THEN [glob EXCEPT ![objs[fr.obj].fn] = fr.obj] ELSE glob
      /\ thr' = [thr EXCEPT ![t].frames = gs]
      /\ UNCHANGED <<world, reg, failed, ops>> /\ world' = world
  BY <1>fr, <1>gs DEF Finish, Stored, Obj
<1>3. /\ objs' \in Seq(Object) /\ Len(objs') = Len(objs) /\ Obs' = Obs /\ Grows
      /\ Obs = 1 .. Len(objs) /\ objs'[fr.obj].cache[fr.inst] # Absent
      /\ objs'[fr.obj].fn = objs[fr.obj].fn
      /\ (\A names : Bound(names) => Bound(names)') /\ \A j \in Obs' : ObjectOK(j)'
  <2>1. PICK o \in Obs : o = fr.obj
    BY <1>1
  <2>2. PICK i \in Labels : i = fr.inst
    BY <1>1
  <2>3. PICK e \in Entry : e = fr.made
    BY <1>1
  <2>4. world' = world /\ e # Absent /\ CodeOf(e, o, i) /\ objs' = [objs EXCEPT ![o].cache[i] = e]
    BY <1>1, <1>2, <2>1, <2>2, <2>3
  <2>5. /\ objs' \in Seq(Object) /\ Len(objs') = Len(objs) /\ Obs' = Obs /\ Grows
        /\ Obs = 1 .. Len(objs) /\ objs'[o].cache[i] = e /\ objs'[o].fn = objs[o].fn
        /\ (\A names : Bound(names) => Bound(names)') /\ \A j \in Obs' : ObjectOK(j)'
    BY <2>4, EntryFilled
  <2> QED BY <2>1, <2>2, <2>3, <2>4, <2>5
<1>4. fr.role = "nested" <=> Len(fs) > 1
  BY <1>1 DEF Chain
<1>5. /\ gs \in Seq(Build) /\ Chain(gs)
      /\ fr.role = "nested" => gs # <<>> /\ gs[1].obj = fs[1].obj /\ gs[1].inst = fs[1].inst
  <2>1. CASE fr.role = "nested"
    <3>1. IsResumed(gs, fs)
      BY <1>fs, <1>gs, <2>1 DEF Resumed, IsResumed
    <3> QED BY <1>1, <1>4, <2>1, <3>1, PopChain
  <2>2. CASE fr.role # "nested"
    BY <1>gs, <2>2, NoBuilds
  <2> QED BY <2>1, <2>2
<1>6. /\ thr'[t].frames = gs /\ thr'[t].goal = thr[t].goal /\ thr'[t].out = thr[t].out
      /\ thr'[t].off = thr[t].off /\ thr'[t].blocks = thr[t].blocks
      /\ Others(t) /\ thr' \in [Thread -> ThreadState]
  BY <1>1, <1>2, <1>5 DEF TypesOK, ThreadState, Others
<1>7. objs[fr.obj].fn \in world.fns /\ objs[fr.obj].fn \in Fn
  BY <1>1, WorldFacts DEF DispatchInv, ObjectOK
<1>8. glob' \in [Fn -> 1 .. Len(objs) \cup {Absent}]
  <2>1. glob \in [Fn -> 1 .. Len(objs) \cup {Absent}] /\ fr.obj \in 1 .. Len(objs) \cup {Absent}
    BY <1>1, <1>3 DEF TypesOK
  <2> QED BY <1>2, <2>1, Zenon
<1>9. TypesOK'
  BY <1>1, <1>2, <1>3, <1>6, <1>8 DEF TypesOK, Others
<1>10. Bound(glob)'
  <2>1. Bound(glob) /\ \A h \in Fn : glob[h] # Absent => glob[h] \in Obs' /\ objs'[glob[h]].fn = h
    BY <1>3 DEF DispatchInv, Bound
  <2>2. \A h \in Fn : glob'[h] = glob[h] \/ (h = objs[fr.obj].fn /\ glob'[h] = fr.obj)
    BY <1>1, <1>2 DEF TypesOK
  <2>3. \A h \in Fn : glob'[h] # Absent => glob'[h] \in Obs' /\ objs'[glob'[h]].fn = h
    BY <1>1, <1>3, <2>1, <2>2
  <2> QED BY <2>3 DEF Bound
<1>11. Chain(gs)'
  BY <1>1, <1>3, <1>5, <1>9, ChainStays
<1>12. ThreadOK(t)'
  <2>g. PICK g : g = thr[t].goal
    OBVIOUS
  <2>1. g # Absent => /\ GoalOK(g) /\ g.obj \in Obs /\ g.inst \in Labels
                      /\ \/ objs[g.obj].cache[g.inst] # Absent
                         \/ fs # <<>> /\ fs[1].obj = g.obj /\ fs[1].inst = g.inst
    <3>1. g \in Goal \cup {Absent}
      BY <1>1, <2>g DEF TypesOK, ThreadState
    <3> QED BY <1>fs, <2>g, <3>1, AwaitsOf DEF Awaits, GoalOK, Goal
  <2>2. ASSUME g # Absent
        PROVE  /\ GoalOK(g)
               /\ \/ objs'[g.obj].cache[g.inst] # Absent
                  \/ gs # <<>> /\ gs[1].obj = g.obj /\ gs[1].inst = g.inst
    <3>1. CASE objs[g.obj].cache[g.inst] # Absent
      BY <1>3, <2>1, <2>2, <3>1 DEF Grows
    <3>2. CASE fs[1].obj = g.obj /\ fs[1].inst = g.inst
      <4>1. CASE fr.role = "nested"
        BY <1>5, <2>1, <2>2, <3>2, <4>1
      <4>2. CASE fr.role # "nested"
        <5>1. Len(fs) = 1
          <6>1. ~ (Len(fs) > 1)
            BY <1>4, <4>2
          <6>2. PICK n \in Nat \ {0} : n = Len(fs)
            BY <1>1
          <6> QED BY <6>1, <6>2
        <5> QED BY <1>1, <1>3, <2>1, <2>2, <3>2, <5>1
      <4> QED BY <4>1, <4>2
    <3> QED BY <2>1, <2>2, <3>1, <3>2
  <2>3. BlocksOK(t)' /\ RanOK(thr[t].out)
    BY <1>6 DEF DispatchInv, ThreadOK, BlocksOK
  <2> QED BY <1>1, <1>3, <1>5, <1>6, <1>9, <1>11, <2>g, <2>2, <2>3, GrowThread
<1> QED BY <1>3, <1>6, <1>9, <1>10, <1>12, StepKeeps

----------------------------------------------------------------------------
\* Before the first decorator has run there is nothing to be wrong about.
LEMMA DispatchInit == Init => DispatchInv
<1> SUFFICES ASSUME Init PROVE DispatchInv
  OBVIOUS
<1>1. /\ world \in Worlds /\ objs = <<>> /\ glob = [f \in Fn |-> Absent]
      /\ reg = [n \in Names |-> Absent] /\ thr = [t \in Thread |-> Idle]
      /\ failed = FALSE /\ ops = 0
  BY DEF Init
<1>idle. PICK idle : idle = Idle
  OBVIOUS
<1>2. /\ idle.frames = <<>> /\ idle.goal = Absent /\ idle.off = FALSE /\ idle.blocks = <<>>
      /\ idle.out = [how |-> "none"] /\ idle \in ThreadState
  <2>1. [how |-> "none"] \in Outcome
    BY EndFacts DEF Ends
  <2>2. <<>> \in Seq(Build) /\ <<>> \in Seq(BOOLEAN)
    OBVIOUS
  <2> QED BY <1>idle, <2>1, <2>2 DEF Idle, ThreadState
<1>3. \A t \in Thread : thr[t] = idle
  BY <1>1, <1>idle
<1>4. thr \in [Thread -> ThreadState]
  BY <1>1, <1>2, <1>idle
<1>5. world.budget \in Nat /\ world.depth \in Nat
  BY <1>1, WorldsAssumption
<1>6. /\ objs \in Seq(Object) /\ Len(objs) = 0 /\ Obs = {}
      /\ glob \in [Fn -> 1 .. Len(objs) \cup {Absent}] /\ reg \in [Names -> Identity \cup {Absent}]
  BY <1>1 DEF Obs
<1>7. TypesOK
  <2>1. 0 \in 0 .. world.budget
    BY <1>5
  <2>2. \A t \in Thread : Len(thr[t].blocks) <= world.depth
    BY <1>2, <1>3, <1>5
  <2> QED BY <1>1, <1>4, <1>6, <2>1, <2>2 DEF TypesOK
<1>8. Bound(glob)
  BY <1>1 DEF Bound
<1>9. ASSUME NEW t \in Thread PROVE ThreadOK(t)
  <2>1. RanOK(idle.out)
    BY <1>2, EndFacts DEF Ends
  <2>2. BlocksOK(t)
    BY <1>2, <1>3 DEF BlocksOK
  <2> QED BY <1>2, <1>3, <2>1, <2>2, NoBuilds DEF ThreadOK
<1> QED BY <1>6, <1>7, <1>8, <1>9 DEF DispatchInv

\* Every step keeps the invariant of the decorators.
LEMMA DispatchNext == DispatchInv /\ [Next]_vars => DispatchInv'
<1> SUFFICES ASSUME DispatchInv, [Next]_vars PROVE DispatchInv'
  OBVIOUS
<1>1. CASE UNCHANGED vars
  <2>1. UNCHANGED <<world, objs, glob, reg, thr, failed, ops>> /\ TypesOK /\ TypesOK'
    BY <1>1 DEF vars, DispatchInv, TypesOK
  <2>2. Grows /\ Bound(glob)' /\ \A j \in Obs' : ObjectOK(j)'
    BY <2>1 DEF DispatchInv, Grows, Bound, Obs, ObjectOK, CodeOf, TypesOK
  <2>3. \A t \in Thread : ThreadOK(t)'
    BY <2>1, <2>2, ThreadStays DEF DispatchInv
  <2> QED BY <2>1, <2>2, <2>3 DEF DispatchInv
<1>2. ASSUME NEW t \in Thread, NoVerification(t) PROVE DispatchInv'
  BY <1>2, NoVerificationKeeps
<1>3. ASSUME NEW t \in Thread, LeaveNoVerification(t) PROVE DispatchInv'
  BY <1>3, LeaveKeeps
<1>4. ASSUME NEW t \in Thread, NEW f \in world.fns, NEW v \in Versions, NEW flag \in world.flags,
             Decorate(t, f, v, flag)
      PROVE  DispatchInv'
  <2>1. flag \in BOOLEAN
    BY WorldsAssumption DEF DispatchInv, TypesOK
  <2> QED BY <1>4, <2>1, DecorateKeeps
<1>5. ASSUME NEW t \in Thread, NEW f \in world.fns, NEW a \in world.args, NEW good \in BOOLEAN,
             Call(t, f, a, good)
      PROVE  DispatchInv'
  BY <1>5, CallKeeps
<1>6. ASSUME NEW t \in Thread, Expand(t) PROVE DispatchInv'
  BY <1>6, ExpandKeeps
<1>7. ASSUME NEW t \in Thread, Specialize(t) PROVE DispatchInv'
  BY <1>7, SpecializeKeeps
<1>8. ASSUME NEW t \in Thread, Compile(t) PROVE DispatchInv'
  BY <1>8, CompileKeeps
<1>9. ASSUME NEW t \in Thread, Refuse(t) PROVE DispatchInv'
  BY <1>9, RefuseKeeps
<1>10. ASSUME NEW t \in Thread, Panic(t) PROVE DispatchInv'
  BY <1>10, RaiseKeeps DEF Panic
<1>11. ASSUME NEW t \in Thread, Finish(t) PROVE DispatchInv'
  BY <1>11, FinishKeeps
<1>12. ASSUME NEW t \in Thread, Enter(t) PROVE DispatchInv'
  BY <1>12, EnterKeeps
<1> QED BY <1>1, <1>2, <1>3, <1>4, <1>5, <1>6, <1>7, <1>8, <1>9, <1>10, <1>11, <1>12
        DEF Next, Step

\* In every reachable state, objects, cache entries, code, builds in progress
\* and the calls that wait for them fit together, as DispatchInv says.
THEOREM Inductive == Spec => []DispatchInv
<1> QED BY DispatchInit, DispatchNext, PTL DEF Spec

----------------------------------------------------------------------------
(***************************************************************************)
(* What follows.                                                           *)
(***************************************************************************)

\* Numbers from 1 to n that are all different, given for 1 to m: m is at most n.
LEMMA DistinctFit ==
  ASSUME NEW m \in Nat, NEW n \in Nat, NEW f \in [1 .. m -> 1 .. n],
         \A j, k \in 1 .. m : j < k => f[j] # f[k]
  PROVE  m <= n
<1>1. SUFFICES ASSUME ~ (m <= n) PROVE FALSE
  OBVIOUS
<1>2. IsFiniteSet(1 .. m) /\ IsFiniteSet(1 .. n) /\ Cardinality(1 .. m) = m /\ Cardinality(1 .. n) = n
  BY FS_Interval
<1>3. PICK x, y \in 1 .. m : x # y /\ f[x] = f[y]
  BY <1>1, <1>2, FS_PigeonHole
<1>4. x < y \/ y < x
  BY <1>3
<1> QED BY <1>3, <1>4

\* Builds that stand on each other are of different objects.
LEMMA ChainBound ==
  ASSUME TypesOK, NEW fs \in Seq(Build), Chain(fs)
  PROVE  Len(fs) <= Len(objs) + 1
<1>n. PICK n \in Nat : n = Len(fs) /\ DOMAIN fs = 1 .. n
  OBVIOUS
<1>m. PICK m \in Nat : m = Len(objs) /\ Obs = 1 .. m
  BY DEF TypesOK, Obs
<1>1. CASE n <= 1
  BY <1>1, <1>n, <1>m
<1>2. CASE n > 1
  <2>k. PICK k \in Nat : n = k + 1
    <3>1. n - 1 \in Nat /\ n = (n - 1) + 1
      BY <1>2
    <3> QED BY <3>1
  <2> DEFINE f == [j \in 1 .. k |-> fs[j + 1].obj]
  <2>1. ASSUME NEW j \in 1 .. k PROVE j + 1 \in 1 .. n /\ fs[j + 1].obj \in 1 .. m
    <3>1. j + 1 \in 1 .. n
      BY <2>k
    <3>2. BuildOK(fs[j + 1])
      BY <3>1, <1>n DEF Chain
    <3> QED BY <3>1, <3>2, <1>m DEF BuildOK
  <2>2. ASSUME NEW j \in 1 .. k, NEW l \in 1 .. k, j < l PROVE fs[j + 1].obj # fs[l + 1].obj
    <3>1. \A x, y \in 1 .. n : 1 < x /\ x < y => fs[x].obj # fs[y].obj
      BY <1>n DEF Chain
    <3>2. 1 < j + 1 /\ j + 1 < l + 1
      BY <2>2
    <3> QED BY <2>1, <3>1, <3>2
  <2>3. f \in [1 .. k -> 1 .. m] /\ \A j, l \in 1 .. k : j < l => f[j] # f[l]
    BY <2>1, <2>2
  <2>4. k <= m
    <3> HIDE DEF f
    <3> QED BY <2>3, DistinctFit
  <2> QED BY <1>n, <1>m, <2>k, <2>4
<1> QED BY <1>1, <1>2

\* Types, and no build stands on more builds than there are objects, however
\* generic functions call each other (the None of visit_Call ends recursion).
THEOREM TypesCorrect == Spec => []TypeOK
<1>1. DispatchInv => TypeOK
  <2> SUFFICES ASSUME DispatchInv PROVE TypeOK
    OBVIOUS
  <2>1. TypesOK
    BY DEF DispatchInv
  <2>2. ASSUME NEW t \in Thread
        PROVE  /\ \A fr \in Frames(t) : fr.obj \in DOMAIN objs
               /\ Len(thr[t].frames) <= Len(objs) + 1
    <3>1. thr[t].frames \in Seq(Build) /\ Chain(thr[t].frames)
      BY <2>1 DEF DispatchInv, ThreadOK, TypesOK, ThreadState
    <3>2. \A fr \in Frames(t) : fr.obj \in DOMAIN objs
      BY <3>1 DEF Frames, Chain, BuildOK, Obs
    <3> QED BY <2>1, <3>1, <3>2, ChainBound
  <2> QED BY <2>1, <2>2 DEF TypesOK, TypeOK
<1> QED BY <1>1, Inductive, PTL

\* Code is verified exactly if the program asked for it where the function was
\* defined, whichever thread compiles it and inside whatever blocks
\* (no_verification in diagnostics.py, verify in decorators.py).
THEOREM CodeVerifiedAsMeant == Spec => []VerifiedAsMeant
<1>1. DispatchInv => VerifiedAsMeant
  BY DEF DispatchInv, VerifiedAsMeant, ObjectOK, CodeOf, Obs
<1> QED BY <1>1, Inductive, PTL

\* A call runs code of its own function and version, compiled for its own key,
\* which for an overloaded function is of an overload that takes the argument.
THEOREM CallsRunTheirCode == Spec => []RunsItsSpecialization
<1>1. DispatchInv => RunsItsSpecialization
  <2> SUFFICES ASSUME DispatchInv, NEW t \in Thread, Ran(t)
               PROVE  LET g == thr[t].out.goal
                          id == thr[t].out.code.id
                      IN  /\ id.fn = objs[g.obj].fn /\ id.ver = objs[g.obj].ver
                          /\ Generic(id.fn) => id.inst = g.arg
                          /\ world.kind[id.fn] = "overload" =>
                               \E s \in Range(world.overloads[id.fn]) :
                                 s.key = id.inst /\ g.arg \in s.accepts
    BY DEF RunsItsSpecialization
  <2>g. PICK g : g = thr[t].out.goal
    OBVIOUS
  <2>id. PICK id : id = thr[t].out.code.id
    OBVIOUS
  <2>f. PICK f : f = objs[g.obj].fn
    OBVIOUS
  <2>1. /\ TypesOK /\ GoalOK(g) /\ id = [fn |-> f, inst |-> g.inst, ver |-> objs[g.obj].ver]
    BY <2>g, <2>id, <2>f DEF Ran, DispatchInv, ThreadOK, RanOK, CodeOf
  <2>2. /\ id.fn = f /\ id.inst = g.inst /\ id.ver = objs[g.obj].ver
        /\ g.inst = KeyOf(f, g.arg) /\ g.inst # Absent /\ g.arg \in world.args
    BY <2>1, <2>f DEF GoalOK
  <2>3. f \in world.fns
    BY <2>1, <2>f DEF GoalOK, DispatchInv, ObjectOK
  <2>4. Generic(f) => g.inst = g.arg
    BY <2>2 DEF Generic, KeyOf
  <2>5. ASSUME world.kind[f] = "overload"
        PROVE  \E s \in Range(world.overloads[f]) : s.key = g.inst /\ g.arg \in s.accepts
    <3>1. g.inst = MatchOverload(f, g.arg)
      BY <2>2, <2>5 DEF KeyOf
    <3> QED BY <2>1, <2>2, <2>3, <3>1, MatchFacts
  <2> QED BY <2>g, <2>id, <2>f, <2>2, <2>4, <2>5
<1> QED BY <1>1, Inductive, PTL

----------------------------------------------------------------------------
(***************************************************************************)
(* While no build has failed, the None in a cache has a build on its way.  *)
(***************************************************************************)

\* Some thread builds object o for key i, as a callee.
BuiltFor(o, i) ==
  \E t \in Thread : \E fr \in Frames(t) : fr.role = "nested" /\ fr.obj = o /\ fr.inst = i

\* A build makes code or keeps the Python function, it never makes a None.
Productive == \A t \in Thread : \A fr \in Frames(t) : fr.made # Placeholder

BuildersInv ==
  /\ Productive
  /\ failed \/ \A o \in Obs : \A i \in Labels : objs[o].cache[i] = Placeholder => BuiltFor(o, i)

\* The new builds gs of a thread go on with the callees of its builds fs, but for
\* the entry that is filled by this step.
Continues(fs, gs, o, i) ==
  \A j \in DOMAIN fs : fs[j].role = "nested" /\ fs[j].obj = o /\ fs[j].inst = i =>
    \E k \in DOMAIN gs : gs[k].role = "nested" /\ gs[k].obj = o /\ gs[k].inst = i

\* A build goes on for the same specialization while its thread only puts more
\* builds on top, or takes them off again.
LEMMA BuilderStays ==
  ASSUME NEW t \in Thread, Others(t), NEW fs, fs = thr[t].frames, NEW gs, thr'[t].frames = gs,
         NEW o, NEW i, BuiltFor(o, i), Continues(fs, gs, o, i)
  PROVE  BuiltFor(o, i)'
<1>1. PICK q \in Thread : \E fr \in Frames(q) : fr.role = "nested" /\ fr.obj = o /\ fr.inst = i
  BY DEF BuiltFor
<1>2. CASE q # t
  <2>1. Frames(q)' = Frames(q)
    BY <1>2 DEF Others, Frames
  <2> QED BY <1>1, <2>1 DEF BuiltFor
<1>3. CASE q = t
  <2>1. PICK k \in DOMAIN gs : gs[k].role = "nested" /\ gs[k].obj = o /\ gs[k].inst = i
    BY <1>1, <1>3 DEF Frames, Continues
  <2>2. gs[k] \in Frames(t)'
    BY DEF Frames
  <2> QED BY <2>1, <2>2 DEF BuiltFor
<1> QED BY <1>2, <1>3

\* No build in progress has made a placeholder, if those of the thread that
\* moves have not.
LEMMA ProductiveStays ==
  ASSUME Productive, NEW t \in Thread, Others(t), NEW gs, thr'[t].frames = gs,
         \A k \in DOMAIN gs : gs[k].made # Placeholder
  PROVE  Productive'
<1>1. ASSUME NEW q \in Thread PROVE (\A fr \in Frames(q) : fr.made # Placeholder)'
  <2>1. CASE q # t
    BY <2>1 DEF Productive, Others, Frames
  <2>2. CASE q = t
    BY <2>2 DEF Frames
  <2> QED BY <2>1, <2>2
<1> QED BY <1>1 DEF Productive

\* Where no cache changes, the builds go on.
LEMMA BuildersGoOn ==
  ASSUME BuildersInv, objs' = objs, failed' = failed, NEW t \in Thread, Others(t),
         NEW fs, fs = thr[t].frames, NEW gs, thr'[t].frames = gs,
         \A o, i : Continues(fs, gs, o, i), \A k \in DOMAIN gs : gs[k].made # Placeholder
  PROVE  BuildersInv'
<1>1. Productive'
  BY ProductiveStays DEF BuildersInv
<1>2. ASSUME ~ failed, NEW o \in Obs, NEW i \in Labels, objs[o].cache[i] = Placeholder
      PROVE  BuiltFor(o, i)'
  <2>1. BuiltFor(o, i)
    BY <1>2 DEF BuildersInv
  <2> QED BY <2>1, BuilderStays
<1> QED BY <1>1, <1>2 DEF BuildersInv, Obs

\* As with the innermost build of a thread.
LEMMA TopGoesOn ==
  ASSUME DispatchInv, BuildersInv, objs' = objs, failed' = failed \/ failed' = TRUE,
         NEW t \in Thread, thr[t].frames # <<>>, NEW fr \in Build, SetTop(t, fr),
         fr.obj = Top(t).obj /\ fr.inst = Top(t).inst /\ fr.role = Top(t).role,
         fr.made # Placeholder
  PROVE  BuildersInv'
<1>fs. PICK fs \in Seq(Build) : fs = thr[t].frames
  BY TopOf
<1>gs. PICK gs : gs = Append(Front(fs), fr)
  OBVIOUS
<1>n. PICK n \in Nat \ {0} : n = Len(fs) /\ Top(t) = fs[n] /\ DOMAIN fs = 1 .. n
  BY <1>fs, TopOf
<1>1. /\ gs \in Seq(Build) /\ Len(gs) = n /\ gs[n] = fr /\ fs # <<>>
      /\ \A j \in 1 .. n - 1 : gs[j] = fs[j]
  BY <1>fs, <1>gs, <1>n, TopFacts
<1>2. DOMAIN gs = 1 .. n
  BY <1>1
<1>3. thr' = [thr EXCEPT ![t].frames = gs]
  BY <1>fs, <1>gs DEF SetTop
<1>4. thr'[t].frames = gs /\ Others(t)
  BY <1>3 DEF DispatchInv, TypesOK, ThreadState, Others
<1>5. \A j \in 1 .. n : /\ gs[j].role = fs[j].role /\ gs[j].obj = fs[j].obj
                        /\ gs[j].inst = fs[j].inst
  <2>1. \A j \in 1 .. n : j = n \/ j \in 1 .. n - 1
    OBVIOUS
  <2> QED BY <1>1, <1>n, <2>1
<1>6. \A o, i : Continues(fs, gs, o, i)
  BY <1>n, <1>2, <1>5 DEF Continues
<1>7. \A k \in DOMAIN gs : gs[k].made # Placeholder
  <2>1. \A j \in 1 .. n : fs[j].made # Placeholder
    BY <1>fs, <1>n DEF BuildersInv, Productive, Frames
  <2>2. \A j \in 1 .. n : j = n \/ j \in 1 .. n - 1
    OBVIOUS
  <2> QED BY <1>1, <1>2, <2>1, <2>2
<1>8. CASE failed' = failed
  BY <1>fs, <1>4, <1>6, <1>7, <1>8, BuildersGoOn
<1>9. CASE failed' = TRUE
  BY <1>4, <1>7, <1>9, ProductiveStays DEF BuildersInv
<1> QED BY <1>8, <1>9

\* Steps of a thread that leave its builds alone, and its first build.
LEMMA BuildersOutside ==
  ASSUME DispatchInv, BuildersInv, NEW t \in Thread,
         NoVerification(t) \/ LeaveNoVerification(t) \/ Enter(t)
  PROVE  BuildersInv'
<1>fs. PICK fs : fs = thr[t].frames
  OBVIOUS
<1>1. objs' = objs /\ failed' = failed
  BY DEF NoVerification, LeaveNoVerification, Enter
<1>2. thr'[t].frames = fs /\ Others(t)
  <2>1. PICK th : th = thr'[t]
    OBVIOUS
  <2>2. CASE NoVerification(t)
    BY <1>fs, <2>2 DEF NoVerification, DispatchInv, TypesOK, ThreadState, Others
  <2>3. CASE LeaveNoVerification(t)
    BY <1>fs, <2>3 DEF LeaveNoVerification, DispatchInv, TypesOK, ThreadState, Others
  <2>4. CASE Enter(t)
    <3>1. PICK out : thr' = [thr EXCEPT ![t].goal = Absent, ![t].out = out]
      BY <2>4, Zenon DEF Enter
    <3> QED BY <1>fs, <3>1 DEF DispatchInv, TypesOK, ThreadState, Others
  <2> QED BY <2>2, <2>3, <2>4
<1>3. \A o, i : Continues(fs, fs, o, i)
  BY DEF Continues
<1>4. \A k \in DOMAIN fs : fs[k].made # Placeholder
  BY <1>fs DEF BuildersInv, Productive, Frames
<1> QED BY <1>fs, <1>1, <1>2, <1>3, <1>4, BuildersGoOn

\* A call that starts a build puts the placeholder for it,
LEMMA BuildersCall ==
  ASSUME DispatchInv, BuildersInv, NEW t \in Thread, NEW f, NEW a, NEW good, Call(t, f, a, good)
  PROVE  BuildersInv'
<1>1. objs' = objs /\ failed' = failed /\ thr[t].frames = <<>>
  BY DEF Call, Free
<1>2. PICK fr, gs : /\ fr.made = Absent /\ gs \in {<<>>, <<fr>>}
                    /\ thr'[t].frames = gs /\ Others(t)
  <2>o. PICK o : o = glob[f]
    OBVIOUS
  <2>i. PICK i : i = KeyOf(f, a)
    OBVIOUS
  <2>fr. PICK fr : fr = Frame(o, f, objs[o].ver, i, "call")
    OBVIOUS
  <2>1. fr.made = Absent
    BY <2>fr DEF Frame
  <2>2. CASE i = Absent
    <3>1. PICK out : thr' = [thr EXCEPT ![t].out = out]
      BY <2>i, <2>o, <2>2, Zenon DEF Call
    <3>2. thr'[t].frames = <<>> /\ Others(t)
      BY <1>1, <3>1 DEF DispatchInv, TypesOK, ThreadState, Others
    <3> QED BY <2>1, <3>2
  <2>3. CASE i # Absent
    <3>gs. PICK gs : gs = IF objs[o].cache[i] = Absent THEN <<fr>> ELSE <<>>
      OBVIOUS
    <3>1. PICK g, out : thr' = [thr EXCEPT ![t].goal = g, ![t].out = out, ![t].frames = gs]
      BY <2>i, <2>o, <2>fr, <2>3, <3>gs DEF Call
    <3>2. thr'[t].frames = gs /\ Others(t)
      BY <3>1 DEF DispatchInv, TypesOK, ThreadState, Others
    <3>3. gs \in {<<>>, <<fr>>}
      BY <3>gs
    <3> QED BY <2>1, <3>2, <3>3
  <2> QED BY <2>2, <2>3
<1>3. \A o, i : Continues(<<>>, gs, o, i)
  BY DEF Continues
<1>4. \A k \in DOMAIN gs : gs[k].made # Placeholder
  <2>1. Absent # Placeholder
    BY EntriesAssumption
  <2>2. DOMAIN <<fr>> = {1} /\ <<fr>>[1] = fr /\ DOMAIN <<>> = {}
    OBVIOUS
  <2> QED BY <1>2, <2>1, <2>2
<1> QED BY <1>1, <1>2, <1>3, <1>4, BuildersGoOn

\* a definition puts none,
LEMMA BuildersDecorate ==
  ASSUME DispatchInv, DispatchInv', BuildersInv, NEW t \in Thread, NEW f \in world.fns, NEW v, NEW flag,
         Decorate(t, f, v, flag)
  PROVE  BuildersInv'
<1>obj. PICK obj : /\ objs' = Append(objs, obj) /\ obj.cache = [i \in Labels |-> Absent]
  BY DEF Decorate
<1>1. failed' = failed /\ thr[t].frames = <<>>
  BY DEF Decorate, Free
<1>2. PICK fr, gs : /\ fr.made = Absent /\ gs \in {<<>>, <<fr>>}
                    /\ thr'[t].frames = gs /\ Others(t)
  <2>fr. PICK fr : fr = Frame(Len(objs'), f, v, Base, "define")
    OBVIOUS
  <2>1. fr.made = Absent
    BY <2>fr DEF Frame
  <2>2. CASE Lazy(f)
    <3>1. PICK out : thr' = [thr EXCEPT ![t].out = out]
      BY <2>2 DEF Decorate
    <3>2. thr'[t].frames = <<>> /\ Others(t)
      BY <1>1, <3>1 DEF DispatchInv, TypesOK, ThreadState, Others
    <3> QED BY <2>1, <3>2
  <2>3. CASE ~ Lazy(f)
    <3>1. PICK out : thr' = [thr EXCEPT ![t].frames = <<fr>>, ![t].out = out]
      BY <2>fr, <2>3 DEF Decorate
    <3>2. thr'[t].frames = <<fr>> /\ Others(t)
      BY <3>1 DEF DispatchInv, TypesOK, ThreadState, Others
    <3> QED BY <2>1, <3>2
  <2> QED BY <2>2, <2>3
<1>3. \A o, i : Continues(<<>>, gs, o, i)
  BY DEF Continues
<1>4. Absent # Placeholder
  BY EntriesAssumption
<1>5. \A k \in DOMAIN gs : gs[k].made # Placeholder
  <2>1. DOMAIN <<fr>> = {1} /\ <<fr>>[1] = fr /\ DOMAIN <<>> = {}
    OBVIOUS
  <2> QED BY <1>2, <1>4, <2>1
<1>6. Productive'
  BY <1>2, <1>5, ProductiveStays DEF BuildersInv
<1>7. ASSUME ~ failed, NEW o \in Obs', NEW i \in Labels, objs'[o].cache[i] = Placeholder
      PROVE  BuiltFor(o, i)'
  <2>n. PICK n \in Nat : n = Len(objs) /\ Obs = 1 .. n
    BY DEF DispatchInv, TypesOK, Obs
  <2>1. /\ Obs' = 1 .. n + 1 /\ objs'[n + 1] = obj /\ \A j \in 1 .. n : objs'[j] = objs[j]
    BY <1>obj, <2>n DEF DispatchInv, TypesOK, Obs
  <2>2. o # n + 1
    BY <1>4, <1>7, <1>obj, <2>1, ZenonT(30)
  <2>3. o \in Obs /\ objs[o].cache[i] = Placeholder
    BY <1>7, <2>n, <2>1, <2>2
  <2>4. BuiltFor(o, i)
    BY <1>7, <2>3 DEF BuildersInv
  <2> QED BY <1>1, <1>2, <1>3, <2>4, BuilderStays
<1> QED BY <1>1, <1>6, <1>7 DEF BuildersInv

\* the steps of the build on top leave it where it is,
LEMMA BuildersTop ==
  ASSUME DispatchInv, BuildersInv, NEW t \in Thread, Expand(t) \/ Compile(t)
  PROVE  BuildersInv'
<1>fr. PICK fr \in Build : fr = Top(t)
  BY TopOf DEF Expand, Compile, Ready
<1>1. thr[t].frames # <<>> /\ objs' = objs /\ failed' = failed /\ fr.made # Placeholder
  <2>1. thr[t].frames # <<>> /\ objs' = objs /\ failed' = failed
    BY DEF Expand, Compile, Ready
  <2>2. fr \in Frames(t)
    BY <1>fr, <2>1, TopOf DEF Frames
  <2> QED BY <2>1, <2>2 DEF BuildersInv, Productive
<1>2. CASE Expand(t)
  <2>1. PICK new : /\ SetTop(t, new)
                   /\ \/ new = [fr EXCEPT !.missing = TRUE]
                      \/ new = [fr EXCEPT !.todo = Tail(@)]
    BY <1>2, <1>fr DEF Expand
  <2>2. new \in Build /\ new.obj = fr.obj /\ new.inst = fr.inst /\ new.role = fr.role
        /\ new.made = fr.made
    <3>1. Tail(fr.todo) \in Seq(Fn)
      <4>1. fr.todo \in Seq(Fn) /\ fr.todo # <<>>
        BY <1>2, <1>fr DEF Build, Expand
      <4> QED BY <4>1, TailType
    <3> QED BY <2>1, <3>1 DEF Build
  <2> QED BY <1>fr, <1>1, <2>1, <2>2, TopGoesOn
<1>3. CASE Compile(t)
  <2>1. PICK code \in Code : SetTop(t, [fr EXCEPT !.made = code])
    BY <1>3, <1>fr, CompileMakes
  <2>2. PICK new : new = [fr EXCEPT !.made = code]
    OBVIOUS
  <2>3. new \in Build /\ new.obj = fr.obj /\ new.inst = fr.inst /\ new.role = fr.role
        /\ new.made = code
    BY <2>2 DEF Build, Entry
  <2>4. code # Placeholder
    BY EntriesAssumption
  <2>5. SetTop(t, new)
    BY <2>1, <2>2
  <2> QED BY <1>fr, <1>1, <2>3, <2>4, <2>5, TopGoesOn
<1> QED BY <1>2, <1>3

\* and a build that fails leaves the placeholders to those that go on.
LEMMA BuildersRefuse ==
  ASSUME DispatchInv, BuildersInv, NEW t \in Thread, Refuse(t) \/ Panic(t)
  PROVE  BuildersInv'
<1>1. CASE \E how : Raise(t, how)
  <2>1. PICK how : Raise(t, how)
    BY <1>1
  <2>2. failed' = TRUE /\ \E out : thr' = [thr EXCEPT ![t].frames = <<>>, ![t].goal = Absent, ![t].out = out]
    BY <2>1 DEF Raise
  <2>3. thr'[t].frames = <<>> /\ Others(t)
    BY <2>2 DEF DispatchInv, TypesOK, ThreadState, Others
  <2>4. \A k \in DOMAIN <<>> : <<>>[k].made # Placeholder
    OBVIOUS
  <2>5. Productive /\ failed'
    BY <2>2 DEF BuildersInv
  <2>6. Productive'
    BY <2>3, <2>4, <2>5, ProductiveStays
  <2> QED BY <2>5, <2>6 DEF BuildersInv
<1>2. CASE Refuse(t) /\ ~ world.strict
  <2>fr. PICK fr \in Build : fr = Top(t)
    BY <1>2, TopOf DEF Refuse, Ready
  <2>new. PICK new : new = [fr EXCEPT !.made = Python]
    OBVIOUS
  <2>1. /\ new \in Build /\ new.obj = fr.obj /\ new.inst = fr.inst /\ new.role = fr.role
        /\ new.made = Python
    BY <2>new DEF Build, Entry
  <2>2. thr[t].frames # <<>> /\ objs' = objs /\ failed' = TRUE /\ SetTop(t, new)
    BY <1>2, <2>fr, <2>new DEF Refuse, Ready
  <2>3. Python # Placeholder
    BY EntriesAssumption
  <2> QED BY <2>fr, <2>1, <2>2, <2>3, TopGoesOn
<1> QED BY <1>1, <1>2 DEF Refuse, Panic

\* The callee that is marked is the one whose build begins.
LEMMA BuildersSpecialize ==
  ASSUME DispatchInv, DispatchInv', BuildersInv, NEW t \in Thread, Specialize(t)
  PROVE  BuildersInv'
<1>fs. PICK fs \in Seq(Build) : fs = thr[t].frames
  BY TopOf DEF Specialize
<1>fr. PICK fr \in Build : fr = Top(t)
  BY TopOf DEF Specialize
<1>o. PICK o : o = fr.scope[Head(fr.todo)]
  OBVIOUS
<1>new. PICK new : new = Frame(o, Head(fr.todo), objs[o].ver, fr.inst, "nested")
  OBVIOUS
<1>top. PICK top : top = [fr EXCEPT !.missing = FALSE]
  OBVIOUS
<1>hs. PICK hs : hs = Append(Front(fs), top)
  OBVIOUS
<1>gs. PICK gs : gs = Append(hs, new)
  OBVIOUS
<1>n. PICK n \in Nat \ {0} : n = Len(fs) /\ fr = fs[n] /\ DOMAIN fs = 1 .. n
  <2>1. thr[t].frames # <<>>
    BY DEF Specialize
  <2>2. Len(fs) \in Nat \ {0} /\ fr = fs[Len(fs)] /\ DOMAIN fs = 1 .. Len(fs)
    BY <1>fs, <1>fr, <2>1, TopOf
  <2> QED BY <2>2
<1>1. /\ objs' = [objs EXCEPT ![o].cache[fr.inst] = Placeholder] /\ failed' = failed
      /\ thr' = [thr EXCEPT ![t].frames = gs] /\ fs # <<>> /\ fr.inst \in Labels
  <2>1. objs' = Marked(o, fr.inst) /\ failed' = failed /\ thr[t].frames # <<>>
    BY <1>fr, <1>o DEF Specialize
  <2>2. thr' = [thr EXCEPT ![t].frames = Append(Append(Front(@), top), new)]
    BY <1>fr, <1>o, <1>new, <1>top DEF Specialize
  <2>3. thr' = [thr EXCEPT ![t].frames = Append(Append(Front(thr[t].frames), top), new)]
    BY <2>2
  <2>4. thr' = [thr EXCEPT ![t].frames = gs]
    BY <2>3, <1>fs, <1>hs, <1>gs
  <2> QED BY <1>fs, <1>fr, <2>1, <2>4 DEF Marked, Build
<1>2. /\ top \in Build /\ top.obj = fr.obj /\ top.inst = fr.inst /\ top.role = fr.role
      /\ top.made = fr.made
  BY <1>top DEF Build
<1>3. /\ hs \in Seq(Build) /\ Len(hs) = n /\ hs[n] = top
      /\ \A j \in 1 .. n - 1 : hs[j] = fs[j]
  BY <1>1, <1>2, <1>hs, <1>n, TopFacts
<1>4. /\ DOMAIN gs = 1 .. n + 1 /\ gs[n + 1] = new /\ \A j \in 1 .. n : gs[j] = hs[j]
  BY <1>3, <1>gs
<1>5. \A j \in 1 .. n : /\ gs[j].role = fs[j].role /\ gs[j].obj = fs[j].obj
                        /\ gs[j].inst = fs[j].inst /\ gs[j].made = fs[j].made
  <2>1. \A j \in 1 .. n : j = n \/ j \in 1 .. n - 1
    OBVIOUS
  <2> QED BY <1>2, <1>3, <1>4, <1>n, <2>1
<1>6. new.role = "nested" /\ new.obj = o /\ new.inst = fr.inst /\ new.made = Absent
  BY <1>new DEF Frame
<1>7. thr'[t].frames = gs /\ Others(t)
  BY <1>1 DEF DispatchInv, TypesOK, ThreadState, Others
<1>8. \A p, i : Continues(fs, gs, p, i)
  <2>1. \A j \in 1 .. n : j \in 1 .. n + 1
    OBVIOUS
  <2> QED BY <1>n, <1>4, <1>5, <2>1 DEF Continues
<1>9. \A k \in DOMAIN gs : gs[k].made # Placeholder
  <2>1. Absent # Placeholder
    BY EntriesAssumption
  <2>2. \A j \in 1 .. n : fs[j].made # Placeholder
    BY <1>fs, <1>n DEF BuildersInv, Productive, Frames
  <2>3. \A j \in 1 .. n + 1 : j \in 1 .. n \/ j = n + 1
    OBVIOUS
  <2> QED BY <1>4, <1>5, <1>6, <2>1, <2>2, <2>3
<1>10. Productive'
  BY <1>7, <1>9, ProductiveStays DEF BuildersInv
<1>11. BuiltFor(o, fr.inst)'
  <2>1. n + 1 \in 1 .. n + 1
    OBVIOUS
  <2>2. new \in Frames(t)'
    BY <1>4, <1>7, <2>1 DEF Frames
  <2> QED BY <1>6, <2>2 DEF BuiltFor
<1>12. ASSUME ~ failed, NEW p \in Obs', NEW i \in Labels, objs'[p].cache[i] = Placeholder
       PROVE  BuiltFor(p, i)'
  <2>1. Obs' = Obs /\ objs \in Seq(Object) /\ Obs = DOMAIN objs
    BY <1>1 DEF DispatchInv, TypesOK, Obs
  <2>2. CASE p = o /\ i = fr.inst
    BY <1>11, <2>2
  <2>3. CASE ~ (p = o /\ i = fr.inst)
    <3>1. objs[p].cache[i] = Placeholder /\ p \in Obs
      <4>1. objs[p] \in Object /\ p \in DOMAIN objs
        BY <2>1
      <4> QED BY <1>1, <1>12, <2>1, <2>3, <4>1 DEF Object
    <3>2. BuiltFor(p, i)
      BY <1>12, <3>1 DEF BuildersInv
    <3> QED BY <1>fs, <1>7, <1>8, <3>2, BuilderStays
  <2> QED BY <2>2, <2>3
<1> QED BY <1>1, <1>10, <1>12 DEF BuildersInv

\* The build that ends fills its own entry, with what is no None.
LEMMA BuildersFinish ==
  ASSUME DispatchInv, DispatchInv', BuildersInv, NEW t \in Thread, Finish(t)
  PROVE  BuildersInv'
<1>fs. PICK fs \in Seq(Build) : fs = thr[t].frames
  BY TopOf DEF Finish
<1>fr. PICK fr \in Build : fr = Top(t)
  BY TopOf DEF Finish
<1>gs. PICK gs : gs = IF fr.role = "nested" THEN Resumed(t) ELSE <<>>
  OBVIOUS
<1>n. PICK n \in Nat \ {0} : n = Len(fs) /\ fr = fs[n] /\ DOMAIN fs = 1 .. n
  BY <1>fs, <1>fr, TopOf DEF Finish
<1>1. /\ objs' = [objs EXCEPT ![fr.obj].cache[fr.inst] = fr.made] /\ failed' = failed
      /\ thr' = [thr EXCEPT ![t].frames = gs] /\ fs # <<>> /\ fr.inst \in Labels /\ fr.obj \in Obs
  <2>1. fr.obj \in Obs
    BY <1>fr, TopOf DEF Finish
  <2> QED BY <1>fs, <1>fr, <1>gs, <2>1 DEF Finish, Stored, Build
<1>2. thr'[t].frames = gs /\ Others(t)
  BY <1>1 DEF DispatchInv, TypesOK, ThreadState, Others
<1>3. \A j \in 1 .. n : fs[j].made # Placeholder /\ (fs[j].role = "nested" <=> j > 1)
  <2>1. \A j \in 1 .. n : fs[j].made # Placeholder
    BY <1>fs, <1>n DEF BuildersInv, Productive, Frames
  <2>2. Chain(fs)
    BY <1>fs DEF DispatchInv, ThreadOK
  <2>3. \A j \in 1 .. n : fs[j].role = "nested" <=> j > 1
    BY <1>n, <2>2 DEF Chain
  <2> QED BY <2>1, <2>3
<1>4. /\ \A k \in DOMAIN gs : gs[k].made # Placeholder
      /\ \A p, i : ~ (p = fr.obj /\ i = fr.inst) => Continues(fs, gs, p, i)
  <2>1. CASE fr.role = "nested"
    <3>ms. PICK ms : ms = Front(fs)
      OBVIOUS
    <3>1. PICK m \in Nat : n = m + 1 /\ m > 0
      <4>1. n \in 1 .. n /\ n > 1
        BY <1>3, <1>n, <2>1
      <4>2. n - 1 \in Nat /\ n = (n - 1) + 1 /\ n - 1 > 0
        BY <4>1
      <4> QED BY <4>2
    <3>2. /\ ms \in Seq(Build) /\ Len(ms) = m /\ \A j \in 1 .. m : ms[j] = fs[j]
      <4>1. /\ ms \in Seq(Build) /\ Len(ms) = Len(fs) - 1
            /\ \A j \in 1 .. Len(fs) - 1 : ms[j] = fs[j]
        BY <1>1, <3>ms, FrontFacts
      <4> QED BY <1>n, <3>1, <4>1
    <3>3. gs = [ms EXCEPT ![m].todo = Tail(@)]
      BY <1>fs, <1>gs, <2>1, <3>ms, <3>2 DEF Resumed
    <3>4. /\ DOMAIN gs = 1 .. m
          /\ \A j \in 1 .. m : /\ gs[j].role = fs[j].role /\ gs[j].obj = fs[j].obj
                               /\ gs[j].inst = fs[j].inst /\ gs[j].made = fs[j].made
      <4>1. ms[m] \in Build /\ DOMAIN ms = 1 .. m
        BY <3>1, <3>2
      <4>2. PICK top : top = [ms[m] EXCEPT !.todo = Tail(@)]
        OBVIOUS
      <4>3. /\ top.role = ms[m].role /\ top.obj = ms[m].obj /\ top.inst = ms[m].inst
            /\ top.made = ms[m].made
        BY <4>1, <4>2 DEF Build
      <4>4. gs = [ms EXCEPT ![m] = top]
        BY <3>3, <4>1, <4>2
      <4>5. DOMAIN gs = 1 .. m /\ gs[m] = top /\ \A j \in 1 .. m : j # m => gs[j] = ms[j]
        BY <3>1, <4>1, <4>4
      <4> QED BY <3>2, <4>3, <4>5
    <3>5. \A j \in 1 .. m : j \in 1 .. n
      BY <3>1
    <3>6. \A j \in 1 .. n : j = n \/ j \in 1 .. m
      BY <3>1
    <3>7. \A k \in DOMAIN gs : gs[k].made # Placeholder
      BY <1>3, <3>4, <3>5
    <3>8. ASSUME NEW p, NEW i, ~ (p = fr.obj /\ i = fr.inst) PROVE Continues(fs, gs, p, i)
      BY <1>n, <3>4, <3>6, <3>8 DEF Continues
    <3> QED BY <3>7, <3>8
  <2>2. CASE fr.role # "nested"
    <3>1. gs = <<>> /\ DOMAIN gs = {}
      BY <1>gs, <2>2
    <3>2. n = 1
      BY <1>3, <1>n, <2>2
    <3>3. \A p, i : Continues(fs, gs, p, i)
      BY <1>3, <1>n, <3>2 DEF Continues
    <3> QED BY <3>1, <3>3
  <2> QED BY <2>1, <2>2
<1>5. Productive'
  BY <1>2, <1>4, ProductiveStays DEF BuildersInv
<1>6. ASSUME ~ failed, NEW p \in Obs', NEW i \in Labels, objs'[p].cache[i] = Placeholder
      PROVE  BuiltFor(p, i)'
  <2>1. Obs' = Obs /\ objs \in Seq(Object) /\ Obs = DOMAIN objs
    BY <1>1 DEF DispatchInv, TypesOK, Obs
  <2>2. objs[p] \in Object /\ p \in DOMAIN objs
    BY <2>1
  <2>3. ~ (p = fr.obj /\ i = fr.inst)
    <3>1. fr.made # Placeholder
      BY <1>3, <1>n
    <3> QED BY <1>1, <1>6, <2>2, <3>1 DEF Object
  <2>4. objs[p].cache[i] = Placeholder
    BY <1>1, <1>6, <2>1, <2>2, <2>3 DEF Object
  <2>5. BuiltFor(p, i)
    BY <1>6, <2>1, <2>2, <2>4 DEF BuildersInv
  <2> QED BY <1>fs, <1>2, <1>4, <2>3, <2>5, BuilderStays
<1> QED BY <1>1, <1>5, <1>6 DEF BuildersInv

\* There are no placeholders at first.
LEMMA BuildersInit == Init => BuildersInv
<1> SUFFICES ASSUME Init PROVE BuildersInv
  OBVIOUS
<1>1. objs = <<>> /\ \A t \in Thread : thr[t].frames = <<>>
  BY DEF Init, Idle
<1>2. Obs = {} /\ \A t \in Thread : Frames(t) = {}
  BY <1>1 DEF Obs, Frames
<1> QED BY <1>2 DEF BuildersInv, Productive

\* Every step keeps a builder for every placeholder.
LEMMA BuildersNext == DispatchInv /\ DispatchInv' /\ BuildersInv /\ [Next]_vars => BuildersInv'
<1> SUFFICES ASSUME DispatchInv, DispatchInv', BuildersInv, [Next]_vars PROVE BuildersInv'
  OBVIOUS
<1>1. CASE UNCHANGED vars
  BY <1>1 DEF vars, BuildersInv, Productive, BuiltFor, Frames, Obs
<1>2. ASSUME NEW t \in Thread, NoVerification(t) \/ LeaveNoVerification(t) \/ Enter(t)
      PROVE  BuildersInv'
  BY <1>2, BuildersOutside
<1>3. ASSUME NEW t \in Thread, NEW f \in world.fns, NEW v, NEW flag, Decorate(t, f, v, flag)
      PROVE  BuildersInv'
  BY <1>3, BuildersDecorate
<1>4. ASSUME NEW t \in Thread, NEW f, NEW a, NEW good, Call(t, f, a, good) PROVE BuildersInv'
  BY <1>4, BuildersCall
<1>5. ASSUME NEW t \in Thread, Expand(t) \/ Compile(t) PROVE BuildersInv'
  BY <1>5, BuildersTop
<1>6. ASSUME NEW t \in Thread, Refuse(t) \/ Panic(t) PROVE BuildersInv'
  BY <1>6, BuildersRefuse
<1>7. ASSUME NEW t \in Thread, Specialize(t) PROVE BuildersInv'
  BY <1>7, BuildersSpecialize
<1>8. ASSUME NEW t \in Thread, Finish(t) PROVE BuildersInv'
  BY <1>8, BuildersFinish
<1> QED BY <1>1, <1>2, <1>3, <1>4, <1>5, <1>6, <1>7, <1>8 DEF Next, Step

\* As long as no build has failed, a call that finds the None in a cache has come
\* while some thread is on its way to replace it (visit_Call).
THEOREM NoneIsBeingReplaced == Spec => []PlaceholderHasBuilder
<1>1. Init => DispatchInv /\ BuildersInv
  BY DispatchInit, BuildersInit
<1>2. (DispatchInv /\ BuildersInv) /\ [Next]_vars => (DispatchInv /\ BuildersInv)'
  BY DispatchNext, BuildersNext
<1>3. BuildersInv => PlaceholderHasBuilder
  BY DEF BuildersInv, PlaceholderHasBuilder, BuiltFor, Obs
<1> QED BY <1>1, <1>2, <1>3, PTL DEF Spec

----------------------------------------------------------------------------
(***************************************************************************)
(* Preconditions.                                                          *)
(***************************************************************************)

\* No object stands for a function whose precondition is on the object itself,
\* where nothing looks for it.
RequiresWhereLooked ==
  \A w \in Worlds : \A f \in w.fns : w.pre[f] = "above" => w.kind[f] = "plain"

\* What a step, but for Enter, makes of the outcomes and of the objects.
OutcomesStay ==
  /\ world' = world
  /\ \A j \in Obs : j \in Obs' /\ objs'[j].fn = objs[j].fn
  /\ \A q \in Thread : thr'[q].out = thr[q].out \/ thr'[q].out.how # "ran"

\* An object keeps its function, whatever happens to the others and to its cache.
LEMMA ObjectsStay ==
  ASSUME TypesOK,
         \/ objs' = objs
         \/ \E obj : objs' = Append(objs, obj)
         \/ \E o \in Obs, i \in Labels : \E e : objs' = [objs EXCEPT ![o].cache[i] = e]
  PROVE  \A j \in Obs : j \in Obs' /\ objs'[j].fn = objs[j].fn
<1>1. objs \in Seq(Object) /\ Len(objs) \in Nat /\ Obs = 1 .. Len(objs) /\ Obs' = DOMAIN objs'
  BY DEF TypesOK, Obs
<1>2. CASE objs' = objs
  BY <1>1, <1>2 DEF Obs
<1>3. CASE \E obj : objs' = Append(objs, obj)
  BY <1>1, <1>3
<1>4. CASE \E o \in Obs, i \in Labels : \E e : objs' = [objs EXCEPT ![o].cache[i] = e]
  <2>1a. PICK o \in Obs, i \in Labels : \E e : objs' = [objs EXCEPT ![o].cache[i] = e]
    BY <1>4
  <2>1. PICK e : objs' = [objs EXCEPT ![o].cache[i] = e]
    BY <2>1a
  <2>2. objs[o] \in Object
    BY <1>1
  <2>3. DOMAIN objs' = DOMAIN objs
    BY <2>1
  <2>4. objs'[o].fn = objs[o].fn
    BY <1>1, <2>1, <2>2 DEF Object
  <2>5. \A j \in Obs : j # o => objs'[j] = objs[j]
    BY <1>1, <2>1
  <2> QED BY <1>1, <2>3, <2>4, <2>5
<1> QED BY <1>2, <1>3, <1>4

\* Only a thread that runs code records what it ran.
LEMMA OutcomesKept ==
  ASSUME DispatchInv, NEW t \in Thread,
         \/ NoVerification(t) \/ LeaveNoVerification(t)
         \/ \E f \in world.fns : \E v, flag : Decorate(t, f, v, flag)
         \/ \E f, a, good : Call(t, f, a, good)
         \/ Expand(t) \/ Specialize(t) \/ Compile(t) \/ Refuse(t) \/ Panic(t) \/ Finish(t)
  PROVE  OutcomesStay
<1>t. TypesOK
  BY DEF DispatchInv
<1>1. /\ world' = world
      /\ \/ objs' = objs
         \/ \E obj : objs' = Append(objs, obj)
         \/ \E o \in Obs, i \in Labels : \E e : objs' = [objs EXCEPT ![o].cache[i] = e]
  <2>1. CASE NoVerification(t) \/ LeaveNoVerification(t) \/ Expand(t) \/ Compile(t) \/ Panic(t)
    BY <2>1 DEF NoVerification, LeaveNoVerification, Expand, Compile, Panic, Raise
  <2>2. CASE Refuse(t)
    BY <2>2 DEF Refuse, Raise
  <2>3. CASE \E f \in world.fns : \E v, flag : Decorate(t, f, v, flag)
    BY <2>3 DEF Decorate
  <2>4. CASE \E f, a, good : Call(t, f, a, good)
    BY <2>4 DEF Call
  <2>5. CASE Finish(t)
    <3>1. Top(t).obj \in Obs /\ Top(t).inst \in Labels
      BY <2>5, TopOf DEF Finish
    <3> QED BY <2>5, <3>1 DEF Finish, Stored
  <2>6. CASE Specialize(t)
    <3>fr. PICK fr \in Build : fr = Top(t)
      BY <2>6, TopOf DEF Specialize
    <3>1. /\ BuildOK(fr) /\ fr.missing /\ fr.inst \in Labels
          /\ objs' = [objs EXCEPT ![fr.scope[Head(fr.todo)]].cache[fr.inst] = Placeholder]
          /\ world' = world
      BY <2>6, <3>fr, TopOf DEF Specialize, Marked
    <3>2. Head(fr.todo) \in Fn /\ fr.scope[Head(fr.todo)] # Absent
      <4>1. fr.todo \in Seq(world.fns) /\ fr.todo # <<>> /\ Nested(fr, Head(fr.todo))
        BY <3>1 DEF BuildOK
      <4>2. Head(fr.todo) \in world.fns
        BY <4>1
      <4> QED BY <1>t, <4>1, <4>2, WorldFacts DEF Nested
    <3>3. fr.scope[Head(fr.todo)] \in Obs
      BY <3>1, <3>2 DEF BuildOK, Bound
    <3> QED BY <3>1, <3>3
  <2> QED BY <2>1, <2>2, <2>3, <2>4, <2>5, <2>6
<1>2. Others(t) /\ (thr'[t].out = thr[t].out \/ thr'[t].out.how # "ran")
  <2>1. CASE \E fs : thr' = [thr EXCEPT ![t].frames = fs]
    <3>1. PICK fs : thr' = [thr EXCEPT ![t].frames = fs]
      BY <2>1
    <3> QED BY <1>t, <3>1 DEF TypesOK, ThreadState, Others
  <2>2. CASE NoVerification(t) \/ LeaveNoVerification(t)
    <3>1. PICK bs, off : thr' = [thr EXCEPT ![t].blocks = bs, ![t].off = off]
      BY <2>2 DEF NoVerification, LeaveNoVerification
    <3> QED BY <1>t, <3>1 DEF TypesOK, ThreadState, Others
  <2>3. CASE Expand(t) \/ Compile(t) \/ Specialize(t) \/ Finish(t)
    BY <2>1, <2>3 DEF Expand, Compile, Specialize, Finish, SetTop
  <2>4. CASE \E h : h # "ran" /\ Raise(t, h)
    <3>1. PICK h : /\ h # "ran"
                   /\ thr' = [thr EXCEPT ![t].frames = <<>>, ![t].goal = Absent, ![t].out = [how |-> h]]
      BY <2>4 DEF Raise
    <3> QED BY <1>t, <3>1 DEF TypesOK, ThreadState, Others
  <2>5. CASE Refuse(t) \/ Panic(t)
    BY <2>1, <2>4, <2>5 DEF Refuse, Panic, SetTop
  <2>6. CASE \E f \in world.fns : \E v, flag : Decorate(t, f, v, flag)
    <3>1a. PICK f \in world.fns : \E v, flag : Decorate(t, f, v, flag)
      BY <2>6
    <3>1. PICK v, flag : Decorate(t, f, v, flag)
      BY <3>1a
    <3>2. CASE Lazy(f)
      <4>1. thr' = [thr EXCEPT ![t].out = [how |-> "defined"]]
        BY <3>1, <3>2 DEF Decorate
      <4> QED BY <1>t, <4>1 DEF TypesOK, ThreadState, Others
    <3>3. CASE ~ Lazy(f)
      <4>1. PICK fs : thr' = [thr EXCEPT ![t].frames = fs, ![t].out = [how |-> "none"]]
        BY <3>1, <3>3 DEF Decorate
      <4> QED BY <1>t, <4>1 DEF TypesOK, ThreadState, Others
    <3> QED BY <3>2, <3>3
  <2>7. CASE \E f, a, good : Call(t, f, a, good)
    <3>1. PICK f, a, good : Call(t, f, a, good)
      BY <2>7
    <3>2. CASE KeyOf(f, a) = Absent
      <4>1. thr' = [thr EXCEPT ![t].out = [how |-> "no overload"]]
        BY <3>1, <3>2 DEF Call
      <4> QED BY <1>t, <4>1 DEF TypesOK, ThreadState, Others
    <3>3. CASE KeyOf(f, a) # Absent
      <4>1. PICK g, fs : thr' = [thr EXCEPT ![t].goal = g, ![t].out = [how |-> "none"], ![t].frames = fs]
        BY <3>1, <3>3 DEF Call
      <4> QED BY <1>t, <4>1 DEF TypesOK, ThreadState, Others
    <3> QED BY <3>2, <3>3
  <2> QED BY <2>2, <2>3, <2>5, <2>6, <2>7
<1> QED BY <1>t, <1>1, <1>2, ObjectsStay DEF OutcomesStay, Others

\* Compiled code, which was verified under the precondition of its function, is
\* not entered with arguments that violate it, if no precondition is put on the
\* object of a generic or overloaded function: _create_wrapper does not look
\* there, and a run shows what happens then.
THEOREM EntriesAreChecked ==
  ASSUME RequiresWhereLooked
  PROVE  Spec => []EntryChecked
<1>1. Init => EntryChecked
  <2> SUFFICES ASSUME Init, NEW t \in Thread PROVE ~ Ran(t)
    BY DEF EntryChecked
  <2>1. thr[t].out = [how |-> "none"]
    BY DEF Init, Idle
  <2> QED BY <2>1 DEF Ran
<1>2. DispatchInv /\ EntryChecked /\ [Next]_vars => EntryChecked'
  <2> SUFFICES ASSUME DispatchInv, EntryChecked, [Next]_vars PROVE EntryChecked'
    OBVIOUS
  <2>1. ASSUME OutcomesStay PROVE EntryChecked'
    <3> SUFFICES ASSUME NEW q \in Thread, Ran(q)'
                 PROVE  thr'[q].out.goal.good \/ world'.pre[objs'[thr'[q].out.goal.obj].fn] = "none"
      BY DEF EntryChecked
    <3>1. thr'[q].out = thr[q].out /\ Ran(q)
      BY <2>1 DEF OutcomesStay, Ran
    <3>2. thr[q].out.goal.obj \in Obs
      BY <3>1 DEF Ran, DispatchInv, ThreadOK, RanOK, GoalOK
    <3>3. thr[q].out.goal.good \/ world.pre[objs[thr[q].out.goal.obj].fn] = "none"
      BY <3>1 DEF EntryChecked
    <3> QED BY <2>1, <3>1, <3>2, <3>3 DEF OutcomesStay
  <2>2. CASE UNCHANGED vars
    BY <2>2 DEF vars, EntryChecked, Ran
  <2>3. ASSUME NEW t \in Thread, Enter(t) PROVE EntryChecked'
    <3>1. /\ TypesOK /\ thr[t].goal # Absent /\ objs' = objs /\ world' = world
      BY <2>3 DEF Enter, DispatchInv
    <3>g. PICK g \in Goal : g = thr[t].goal
      BY <3>1 DEF TypesOK, ThreadState
    <3>e. PICK e : e = objs[g.obj].cache[g.inst]
      OBVIOUS
    <3>f. PICK f : f = objs[g.obj].fn
      OBVIOUS
    <3>2. f \in world.fns
      BY <3>1, <3>g, <3>f, AwaitsOf DEF Awaits, GoalOK, DispatchInv, ObjectOK
    <3>3. Guarded(f) \/ world.pre[f] = "none"
      <4>1. world.pre[f] \in {"none", "below", "above"}
        BY <3>1, <3>2, WorldsAssumption DEF TypesOK
      <4>2. world.pre[f] = "above" => ~ Lazy(f)
        BY <3>1, <3>2 DEF RequiresWhereLooked, TypesOK, Lazy
      <4> QED BY <4>1, <4>2 DEF Guarded
    <3>4. PICK out : /\ thr' = [thr EXCEPT ![t].goal = Absent, ![t].out = out]
                     /\ out.how = "ran" => out.goal = g /\ ~ (Guarded(f) /\ ~ g.good)
      <4> DEFINE end == CASE e = Placeholder -> [how |-> "not callable"]
                          [] e = Python -> [how |-> "python"]
                          [] e \notin {Placeholder, Python} ->
                               IF Guarded(f) /\ ~ g.good THEN [how |-> "precondition"]
                               ELSE [how |-> "ran", goal |-> g, code |-> e]
      <4>1. thr' = [thr EXCEPT ![t].goal = Absent, ![t].out = end]
        BY <2>3, <3>g, <3>e, <3>f DEF Enter
      <4>2. end.how = "ran" => end.goal = g /\ ~ (Guarded(f) /\ ~ g.good)
        <5>1. Placeholder # Python
          BY EntriesAssumption
        <5>2. \/ end = [how |-> "not callable"] \/ end = [how |-> "python"]
              \/ end = [how |-> "precondition"]
              \/ end = [how |-> "ran", goal |-> g, code |-> e] /\ ~ (Guarded(f) /\ ~ g.good)
          BY <5>1
        <5> HIDE DEF end
        <5>3. ASSUME NEW h \in {"not callable", "python", "precondition"}, end = [how |-> h]
              PROVE  end.how # "ran"
          <6>1. end.how = h
            BY <5>3
          <6> QED BY <6>1
        <5>4. CASE end = [how |-> "ran", goal |-> g, code |-> e] /\ ~ (Guarded(f) /\ ~ g.good)
          <6>1. end.goal = g
            BY <5>4
          <6> QED BY <5>4, <6>1
        <5> QED BY <5>2, <5>3, <5>4
      <4> HIDE DEF end
      <4> QED BY <4>1, <4>2
    <3>5. thr'[t].out = out /\ Others(t)
      BY <3>1, <3>4 DEF TypesOK, ThreadState, Others
    <3> SUFFICES ASSUME NEW q \in Thread, Ran(q)'
                 PROVE  thr'[q].out.goal.good \/ world'.pre[objs'[thr'[q].out.goal.obj].fn] = "none"
      BY DEF EntryChecked
    <3>6. CASE q = t
      <4>1. out.goal = g /\ ~ (Guarded(f) /\ ~ g.good)
        BY <3>4, <3>5, <3>6 DEF Ran
      <4>2. g.good \in BOOLEAN
        BY DEF Goal
      <4> QED BY <3>1, <3>3, <3>5, <3>6, <3>f, <4>1, <4>2
    <3>7. CASE q # t
      <4>1. thr'[q].out = thr[q].out /\ Ran(q)
        BY <3>5, <3>7 DEF Others, Ran
      <4> QED BY <3>1, <4>1 DEF EntryChecked
    <3> QED BY <3>6, <3>7
  <2> QED BY <2>1, <2>2, <2>3, OutcomesKept DEF Next, Step
<1> QED BY <1>1, <1>2, Inductive, PTL DEF Spec
----------------------------------------------------------------------------
(***************************************************************************)
(* The inductive invariant.  While a thread builds, no name is bound, so   *)
(* each of its builds has the names of now.  A callee that a build has     *)
(* passed has an entry; that the entry is code, and not the None of a      *)
(* build below, is what the order of the functions gives.  And the code in *)
(* the cache of a function's present object is the code registered under   *)
(* its name.                                                               *)
(***************************************************************************)
Fun(fr) == objs[fr.obj].fn

Below == CHOOSE below \in SUBSET (world.fns \X world.fns) : Stacked(world, below)
AtMost(d, f) == d = f \/ <<d, f>> \in Below

\* A build is of the object its function's name is bound to, under the names of now.
CurrentOK(fr) == fr.scope = glob /\ (Lazy(Fun(fr)) => glob[Fun(fr)] = fr.obj)

\* The callees that a build has passed have an entry.
PassedOK(fr) ==
  /\ Range(fr.todo) \subseteq CalleesOf(fr.obj)
  /\ \A d \in CalleesOf(fr.obj) : Nested(fr, d) /\ d \notin Range(fr.todo) =>
       objs[fr.scope[d]].cache[fr.inst] # Absent

\* What a build has made is registered, and linked as it should be.
MadeOK(fr) == fr.made # Absent =>
  /\ fr.todo = <<>> /\ fr.made # Python
  /\ Lazy(Fun(fr)) => reg[NameOf(Fun(fr), fr.inst)] = fr.made.id
  /\ \A d \in CalleesOf(fr.obj) : Nested(fr, d) =>
       fr.made.links[d] = [fn |-> d, inst |-> fr.inst, ver |-> objs[fr.scope[d]].ver]

\* Each build is of the callee that the one below is at, and so not above it.
CallsOK(fs) ==
  \A j, k \in DOMAIN fs :
    /\ k = j + 1 => fs[k].obj = Callee(fs[j])
    /\ j < k => AtMost(Fun(fs[k]), Fun(fs[j]))

LinksOK(fs) ==
  /\ CallsOK(fs)
  /\ \A j \in DOMAIN fs : CurrentOK(fs[j]) /\ PassedOK(fs[j]) /\ MadeOK(fs[j])

\* No build failed, so no cache has a Python function.
NoPython == \A o \in Obs : \A i \in Labels : objs[o].cache[i] # Python

\* The code of a function's present object is what is registered for it.
Registered ==
  \A d \in Fn : glob[d] # Absent /\ Lazy(d) =>
    \A i \in Labels : objs[glob[d]].cache[i] \notin {Absent, Placeholder} =>
      reg[NameOf(d, i)] = [fn |-> d, inst |-> i, ver |-> objs[glob[d]].ver]

\* Only the threads of a world build.
Runners == \A q \in Thread : thr[q].frames # <<>> => q \in world.threads

SoleInv ==
  /\ Runners
  /\ Sole /\ Layered(world) =>
       NoPython /\ Registered /\ \A t \in Thread : LinksOK(thr[t].frames)

----------------------------------------------------------------------------
\* What a sequence has.
LEMMA RangeType ==
  ASSUME NEW S, NEW s \in Seq(S)
  PROVE  Range(s) \subseteq S
BY DEF Range

\* What a sequence has is its first element or in the rest.
LEMMA RangeSplit ==
  ASSUME NEW S, NEW s \in Seq(S), s # <<>>
  PROVE  \A x : x \in Range(s) <=> x = Head(s) \/ x \in Range(Tail(s))
<1>1. PICK n \in Nat \ {0} : n = Len(s) /\ DOMAIN s = 1 .. n
  OBVIOUS
<1>2. PICK r \in Seq(S) : r = Tail(s)
  BY TailType
<1>3. DOMAIN r = 1 .. n - 1 /\ Head(s) = s[1] /\ \A j \in 1 .. n - 1 : r[j] = s[j + 1]
  BY <1>1, <1>2
<1>4. \A j \in 1 .. n : j = 1 \/ (j - 1 \in 1 .. n - 1 /\ j = (j - 1) + 1)
  OBVIOUS
<1>5. 1 \in 1 .. n /\ \A j \in 1 .. n - 1 : j + 1 \in 1 .. n
  OBVIOUS
<1>6. ASSUME NEW x, x \in Range(s) PROVE x = Head(s) \/ x \in Range(r)
  <2>1. PICK j \in 1 .. n : x = s[j]
    BY <1>1, <1>6 DEF Range
  <2>2. j = 1 \/ (j - 1 \in 1 .. n - 1 /\ r[j - 1] = s[j])
    BY <1>3, <1>4
  <2> QED BY <1>3, <2>1, <2>2 DEF Range
<1>7. ASSUME NEW x, x = Head(s) \/ x \in Range(r) PROVE x \in Range(s)
  <2>1. CASE x = Head(s)
    BY <1>1, <1>3, <1>5, <2>1 DEF Range
  <2>2. CASE x \in Range(r)
    <3>1. PICK j \in 1 .. n - 1 : x = r[j]
      BY <1>3, <2>2 DEF Range
    <3>2. j + 1 \in DOMAIN s /\ x = s[j + 1]
      BY <1>1, <1>3, <1>5, <3>1
    <3> QED BY <3>2 DEF Range
  <2> QED BY <1>7, <2>1, <2>2
<1> QED BY <1>2, <1>6, <1>7

\* The order of the functions.
LEMMA BelowFacts ==
  ASSUME Layered(world)
  PROVE  Stacked(world, Below)
BY DEF Layered, Below

\* A function calls what is at most itself, and nothing it is itself below.
LEMMA AtMostFacts ==
  ASSUME Layered(world), NEW d \in world.fns, NEW f \in world.fns, AtMost(d, f)
  PROVE  /\ AtMost(f, d) => d = f
         /\ \A g \in world.fns : AtMost(f, g) => AtMost(d, g)
<1>1. /\ \A h \in world.fns : <<h, h>> \notin Below
      /\ \A x, y, z \in world.fns : <<x, y>> \in Below /\ <<y, z>> \in Below => <<x, z>> \in Below
  BY BelowFacts DEF Stacked
<1> QED BY <1>1 DEF AtMost

\* The functions of builds, and what they call.
LEMMA CallFacts ==
  ASSUME DispatchInv, NEW fr, BuildOK(fr)
  PROVE  /\ fr.obj \in Obs /\ Fun(fr) \in world.fns
         /\ CalleesOf(fr.obj) \subseteq world.fns /\ CalleesOf(fr.obj) \subseteq Fn
         /\ \A d \in Fn : Nested(fr, d) => fr.scope[d] \in Obs /\ objs[fr.scope[d]].fn = d
         /\ Layered(world) => \A d \in CalleesOf(fr.obj) : AtMost(d, Fun(fr))
<1>1. fr.obj \in Obs /\ ObjectOK(fr.obj) /\ Fun(fr) \in world.fns /\ TypesOK
  BY DEF BuildOK, DispatchInv, ObjectOK, Fun
<1>2. CalleesOf(fr.obj) = Range(world.calls[objs[fr.obj].fn][objs[fr.obj].ver])
      /\ CalleesOf(fr.obj) \subseteq world.fns
  BY <1>1, CalleeFacts
<1>3. \A d \in Fn : Nested(fr, d) => fr.scope[d] \in Obs /\ objs[fr.scope[d]].fn = d
  BY DEF Nested, BuildOK, Bound
<1>4. Layered(world) => \A d \in CalleesOf(fr.obj) : AtMost(d, Fun(fr))
  <2>1. objs[fr.obj] \in Object
    BY <1>1 DEF TypesOK, Obs
  <2>2. objs[fr.obj].ver \in Versions
    BY <2>1 DEF Object
  <2>3. Layered(world) => \A f \in world.fns : \A v \in Versions :
          \A d \in Range(world.calls[f][v]) : d = f \/ <<d, f>> \in Below
    BY BelowFacts DEF Stacked
  <2>4. Layered(world) => \A d \in Range(world.calls[Fun(fr)][objs[fr.obj].ver]) : AtMost(d, Fun(fr))
    BY <1>1, <2>2, <2>3 DEF AtMost
  <2> QED BY <1>2, <2>4 DEF Fun
<1> QED BY <1>1, <1>2, <1>3, <1>4, WorldFacts

\* What is known of builds stays while objects only get entries; so it does when
\* code is registered, if no build has made its own yet.
LEMMA LinksStay ==
  ASSUME DispatchInv, Grows, glob' = glob,
         NEW fs \in Seq(Build), Chain(fs), LinksOK(fs),
         reg' = reg \/ \A j \in DOMAIN fs : fs[j].made = Absent
  PROVE  LinksOK(fs)'
<1>1. ASSUME NEW j \in DOMAIN fs
      PROVE  /\ fs[j].obj \in Obs /\ fs[j].inst \in Labels /\ fs[j] \in Build
             /\ CalleesOf(fs[j].obj) \subseteq Fn /\ BuildOK(fs[j])
             /\ \A d \in Fn : Nested(fs[j], d) => fs[j].scope[d] \in Obs
  <2>1. BuildOK(fs[j]) /\ fs[j] \in Build
    BY DEF Chain
  <2> QED BY <2>1, CallFacts DEF Build
<1>2. ASSUME NEW j \in DOMAIN fs
      PROVE  /\ Fun(fs[j])' = Fun(fs[j]) /\ CalleesOf(fs[j].obj)' = CalleesOf(fs[j].obj)
             /\ \A d : Nested(fs[j], d)' <=> Nested(fs[j], d)
             /\ \A f : Lazy(f)' <=> Lazy(f)
  BY <1>1 DEF Grows, Fun, CalleesOf, Nested, Generic, Lazy
<1>3. CallsOK(fs)'
  <2>1. Below' = Below
    BY DEF Below, Grows
  <2> QED BY <1>2, <2>1 DEF LinksOK, CallsOK, AtMost, Callee
<1>4. ASSUME NEW j \in DOMAIN fs
      PROVE  CurrentOK(fs[j])' /\ PassedOK(fs[j])' /\ MadeOK(fs[j])'
  <2>fr. PICK fr : fr = fs[j]
    OBVIOUS
  <2>1. CurrentOK(fr) /\ PassedOK(fr) /\ MadeOK(fr)
    BY <2>fr DEF LinksOK
  <2>2. CurrentOK(fr)'
    BY <1>2, <2>fr, <2>1 DEF CurrentOK
  <2>3. PassedOK(fr)'
    BY <1>1, <1>2, <2>fr, <2>1 DEF PassedOK, Grows
  <2>4. MadeOK(fr)'
    <3>1. \A f, i : NameOf(f, i)' = NameOf(f, i)
      BY DEF NameOf, Lazy, Grows
    <3>2. ASSUME NEW d \in CalleesOf(fr.obj), Nested(fr, d)
          PROVE  objs'[fr.scope[d]].ver = objs[fr.scope[d]].ver
      BY <1>1, <2>fr, <3>2 DEF Grows
    <3>3. CASE reg' = reg
      BY <1>2, <2>fr, <2>1, <3>1, <3>2, <3>3 DEF MadeOK
    <3>4. CASE \A m \in DOMAIN fs : fs[m].made = Absent
      BY <2>fr, <3>4 DEF MadeOK
    <3> QED BY <3>3, <3>4
  <2> QED BY <2>fr, <2>2, <2>3, <2>4
<1> QED BY <1>3, <1>4 DEF LinksOK

\* The builds below the innermost one have made nothing yet.
LEMMA MadeOnTop ==
  ASSUME NEW fs, Chain(fs), LinksOK(fs), NEW j \in DOMAIN fs, j < Len(fs)
  PROVE  fs[j].made = Absent
BY DEF Chain, LinksOK, MadeOK

\* The innermost build goes on.
LEMMA TopLinks ==
  ASSUME NEW fs \in Seq(Build), fs # <<>>, LinksOK(fs)', NEW fr \in Build,
         fr.obj = Last(fs).obj, fr.scope = Last(fs).scope, PassedOK(fr)', MadeOK(fr)'
  PROVE  LinksOK(Append(Front(fs), fr))'
<1>1. PICK n \in Nat \ {0} : n = Len(fs) /\ Last(fs) = fs[n] /\ DOMAIN fs = 1 .. n
  <2>1. Len(fs) \in Nat \ {0} /\ DOMAIN fs = 1 .. Len(fs)
    OBVIOUS
  <2> QED BY <2>1 DEF Last
<1>2. PICK gs \in Seq(Build) : gs = Append(Front(fs), fr)
  BY TopFacts
<1>3. /\ Len(gs) = n /\ gs[n] = fr /\ \A j \in 1 .. n - 1 : gs[j] = fs[j]
      /\ DOMAIN gs = 1 .. n
  BY <1>1, <1>2, TopFacts
<1>4. \A j \in 1 .. n : gs[j].obj = fs[j].obj /\ (j < n => gs[j] = fs[j])
  BY <1>1, <1>3
<1>5. CallsOK(gs)'
  <2>1. \A j, k \in 1 .. n : (k = j + 1 \/ j < k) => j < n
    OBVIOUS
  <2> QED BY <1>1, <1>3, <1>4, <2>1 DEF LinksOK, CallsOK, AtMost, Fun, Callee
<1>6. CurrentOK(fr)'
  BY <1>1 DEF LinksOK, CurrentOK, Fun
<1>7. ASSUME NEW j \in 1 .. n PROVE CurrentOK(gs[j])' /\ PassedOK(gs[j])' /\ MadeOK(gs[j])'
  <2>1. CASE j = n
    BY <1>3, <1>6, <2>1
  <2>2. CASE j # n
    <3>1. gs[j] = fs[j]
      BY <1>3, <2>2
    <3> QED BY <1>1, <3>1 DEF LinksOK
  <2> QED BY <2>1, <2>2
<1> QED BY <1>2, <1>3, <1>5, <1>7 DEF LinksOK

\* A build begins on top of the others.
LEMMA PushLinks ==
  ASSUME NEW fs \in Seq(Build), fs # <<>>, LinksOK(fs)', NEW new \in Build,
         new.obj = Callee(Last(fs)), CurrentOK(new)', PassedOK(new)', MadeOK(new)',
         \A j \in DOMAIN fs : AtMost(Fun(new), Fun(fs[j]))'
  PROVE  LinksOK(Append(fs, new))'
<1>1. PICK n \in Nat \ {0} : n = Len(fs) /\ Last(fs) = fs[n] /\ DOMAIN fs = 1 .. n
  <2>1. Len(fs) \in Nat \ {0} /\ DOMAIN fs = 1 .. Len(fs)
    OBVIOUS
  <2> QED BY <2>1 DEF Last
<1>2. PICK gs \in Seq(Build) : gs = Append(fs, new)
  BY AppendType
<1>3. /\ gs[n + 1] = new /\ \A j \in 1 .. n : gs[j] = fs[j]
      /\ DOMAIN gs = 1 .. n + 1
  BY <1>1, <1>2
<1>4. \A j \in 1 .. n + 1 : j \in 1 .. n \/ j = n + 1
  OBVIOUS
<1>5. ASSUME NEW j \in 1 .. n + 1, NEW k \in 1 .. n + 1
      PROVE  /\ k = j + 1 => (gs[k].obj = Callee(gs[j]))'
             /\ j < k => AtMost(Fun(gs[k]), Fun(gs[j]))'
  <2>1. CASE k = n + 1
    <3>1. k = j + 1 => j = n
      BY <2>1
    <3>2. j < k => j \in 1 .. n
      BY <2>1
    <3> QED BY <1>1, <1>3, <2>1, <3>1, <3>2 DEF Callee
  <2>2. CASE k \in 1 .. n
    <3>1. k = j + 1 \/ j < k => j \in 1 .. n
      BY <2>2
    <3> QED BY <1>1, <1>3, <2>2, <3>1 DEF LinksOK, CallsOK
  <2> QED BY <1>4, <2>1, <2>2
<1>6. ASSUME NEW j \in 1 .. n + 1 PROVE CurrentOK(gs[j])' /\ PassedOK(gs[j])' /\ MadeOK(gs[j])'
  <2>1. CASE j = n + 1
    BY <1>3, <2>1
  <2>2. CASE j \in 1 .. n
    BY <1>1, <1>3, <2>2 DEF LinksOK
  <2> QED BY <1>4, <2>1, <2>2
<1> QED BY <1>2, <1>3, <1>5, <1>6 DEF LinksOK, CallsOK

\* The first build of a thread.
LEMMA FirstLinks ==
  ASSUME NEW fr, CurrentOK(fr)', PassedOK(fr)', MadeOK(fr)'
  PROVE  LinksOK(<<fr>>)'
<1>1. DOMAIN <<fr>> = {1} /\ <<fr>>[1] = fr
  OBVIOUS
<1> QED BY <1>1 DEF LinksOK, CallsOK

\* A thread without builds has linked nothing.
LEMMA NoLinks == LinksOK(<<>>)'
<1>1. DOMAIN <<>> = {}
  OBVIOUS
<1> QED BY <1>1 DEF LinksOK, CallsOK

----------------------------------------------------------------------------
\* Steps that leave the builds, the names and the code alone.
LEMMA QuietLinks ==
  ASSUME DispatchInv, SoleInv, UNCHANGED <<world, objs, glob, reg, failed>>,
         \A q \in Thread : thr'[q].frames = thr[q].frames
  PROVE  SoleInv'
<1>1. Runners'
  BY DEF Runners, SoleInv
<1>2. ASSUME Sole', Layered(world)' PROVE Sole /\ Layered(world)
  BY <1>2 DEF Sole
<1>3. ASSUME Sole, Layered(world)
      PROVE  NoPython' /\ Registered' /\ \A t \in Thread : LinksOK(thr[t].frames)'
  <2>1. NoPython /\ Registered /\ \A t \in Thread : LinksOK(thr[t].frames)
    BY <1>3 DEF SoleInv
  <2>2. NoPython' /\ Registered'
    BY <2>1 DEF NoPython, Registered, Lazy, NameOf, Obs
  <2>3. ASSUME NEW t \in Thread PROVE LinksOK(thr[t].frames)'
    <3>1. Chain(thr[t].frames) /\ thr[t].frames \in Seq(Build) /\ Grows
      BY DEF DispatchInv, ThreadOK, TypesOK, ThreadState, Grows
    <3>fs. PICK fs \in Seq(Build) : fs = thr[t].frames
      BY <3>1
    <3>2. LinksOK(fs)' /\ thr'[t].frames = fs
      BY <2>1, <3>1, <3>fs, LinksStay
    <3> QED BY <3>2
  <2> QED BY <2>2, <2>3
<1> QED BY <1>1, <1>2, <1>3 DEF SoleInv

\* The builds of one thread are all there are.
LEMMA SoleThread ==
  ASSUME SoleInv, NEW t \in Thread, t \in world.threads, world' = world, failed' = failed,
         Others(t), NEW gs, thr'[t].frames = gs,
         Sole /\ Layered(world) => NoPython' /\ Registered' /\ LinksOK(gs)'
  PROVE  SoleInv'
<1>1. Runners'
  BY DEF Runners, Others, SoleInv
<1>2. ASSUME Sole', Layered(world)' PROVE Sole /\ Layered(world)
  BY <1>2 DEF Sole
<1>3. ASSUME Sole, Layered(world) PROVE \A q \in Thread : LinksOK(thr[q].frames)'
  <2>1. ASSUME NEW q \in Thread PROVE LinksOK(thr[q].frames)'
    <3>1. CASE q = t
      BY <1>3, <3>1
    <3>2. CASE q # t
      <4>1. thr'[q].frames = <<>>
        BY <1>3, <3>2 DEF SoleInv, Runners, Sole, Others
      <4> QED BY <4>1, NoLinks
    <3> QED BY <3>1, <3>2
  <2> QED BY <2>1
<1> QED BY <1>1, <1>2, <1>3 DEF SoleInv

\* A callee is looked at: it has an entry, or is found missing.
LEMMA LinksExpand ==
  ASSUME DispatchInv, SoleInv, NEW t \in Thread, Expand(t)
  PROVE  SoleInv'
<1>fs. PICK fs \in Seq(Build) : fs = thr[t].frames
  BY TopOf DEF Expand
<1>fr. PICK fr \in Build : fr = Top(t)
  BY TopOf DEF Expand
<1>d. PICK d : d = Head(fr.todo)
  OBVIOUS
<1>new. PICK new : new = IF Missing(fr, d) THEN [fr EXCEPT !.missing = TRUE]
                                           ELSE [fr EXCEPT !.todo = Tail(@)]
  OBVIOUS
<1>1. /\ fs # <<>> /\ Chain(fs) /\ BuildOK(fr) /\ fr = Last(fs) /\ fr.todo # <<>>
      /\ Len(fs) \in DOMAIN fs /\ fs[Len(fs)] = fr /\ fr.todo \in Seq(Fn)
      /\ UNCHANGED <<world, objs, glob, reg, failed, ops>> /\ Grows
  BY <1>fs, <1>fr, TopOf DEF Expand, Top, Build, Grows
<1>2. thr' = [thr EXCEPT ![t].frames = Append(Front(fs), new)]
  BY <1>fs, <1>fr, <1>d, <1>new DEF Expand, SetTop
<1>3. /\ new \in Build /\ new.obj = fr.obj /\ new.inst = fr.inst /\ new.scope = fr.scope
      /\ new.made = fr.made
      /\ IF Missing(fr, d) THEN new.todo = fr.todo ELSE new.todo = Tail(fr.todo)
  <2>1. Tail(fr.todo) \in Seq(Fn)
    BY <1>1, TailType
  <2>2. CASE Missing(fr, d)
    BY <1>new, <2>2 DEF Build
  <2>3. CASE ~ Missing(fr, d)
    BY <1>new, <2>1, <2>3 DEF Build
  <2> QED BY <2>2, <2>3
<1>gs. PICK gs \in Seq(Build) : gs = Append(Front(fs), new)
  BY <1>1, <1>3, TopFacts
<1>4. thr'[t].frames = gs /\ Others(t) /\ t \in world.threads
  BY <1>fs, <1>1, <1>2, <1>gs DEF DispatchInv, TypesOK, ThreadState, Others, SoleInv, Runners
<1>5. ASSUME Sole, Layered(world) PROVE NoPython' /\ Registered' /\ LinksOK(gs)'
  <2>1. NoPython /\ Registered /\ LinksOK(fs) /\ PassedOK(fr) /\ MadeOK(fr)
    BY <1>fs, <1>1, <1>5 DEF SoleInv, LinksOK
  <2>2. NoPython' /\ Registered'
    BY <1>1, <2>1 DEF NoPython, Registered, Lazy, NameOf, Obs
  <2>3. fr.made = Absent
    BY <1>1, <2>1 DEF MadeOK
  <2>4. PassedOK(new)'
    <3>1. \A x \in Fn : x \in Range(fr.todo) <=> x = d \/ x \in Range(Tail(fr.todo))
      BY <1>1, <1>d, RangeSplit
    <3>2. CalleesOf(fr.obj) \subseteq Fn
      BY <1>1, CallFacts
    <3>3. Range(new.todo) \subseteq Range(fr.todo)
      BY <1>1, <1>3, <3>1, RangeType, TailType
    <3>4. ASSUME NEW x \in CalleesOf(fr.obj), Nested(fr, x), x \notin Range(new.todo)
          PROVE  objs[fr.scope[x]].cache[fr.inst] # Absent
      <4>1. CASE x \in Range(fr.todo)
        <5>1. x = d /\ ~ Missing(fr, d)
          BY <1>3, <3>1, <3>2, <3>4, <4>1
        <5> QED BY <3>4, <5>1 DEF Missing
      <4>2. CASE x \notin Range(fr.todo)
        BY <2>1, <3>4, <4>2 DEF PassedOK
      <4> QED BY <4>1, <4>2
    <3>5. PassedOK(new)
      BY <1>3, <2>1, <3>3, <3>4 DEF PassedOK, Nested
    <3> QED BY <1>1, <3>5 DEF PassedOK, Nested, CalleesOf, Generic
  <2>5. MadeOK(new)'
    BY <1>3, <2>3 DEF MadeOK
  <2>6. LinksOK(fs)'
    BY <1>1, <2>1, LinksStay
  <2> QED BY <1>1, <1>3, <1>gs, <2>2, <2>4, <2>5, <2>6, TopLinks
<1> QED BY <1>1, <1>4, <1>5, SoleThread

\* The object of a callee of a build holds code for it: what a build below it
\* was to fill has been filled, since none of these is of a callee.
LEMMA CalleeIsCode ==
  ASSUME DispatchInv, BuildersInv, SoleInv, Sole, Layered(world),
         NEW t \in Thread, thr[t].frames # <<>>, Top(t).todo = <<>>,
         NEW d \in CalleesOf(Top(t).obj), d # Fun(Top(t)), Nested(Top(t), d)
  PROVE  objs[Top(t).scope[d]].cache[Top(t).inst] \notin {Absent, Placeholder}
<1>fs. PICK fs \in Seq(Build) : fs = thr[t].frames
  BY TopOf
<1>fr. PICK fr \in Build : fr = Top(t)
  BY TopOf
<1>o. PICK o : o = fr.scope[d]
  OBVIOUS
<1>n. PICK n \in Nat \ {0} : n = Len(fs) /\ DOMAIN fs = 1 .. n /\ fs[n] = fr
  BY <1>fs, <1>fr, TopOf
<1>1. /\ Chain(fs) /\ LinksOK(fs) /\ BuildOK(fr) /\ PassedOK(fr) /\ fr.inst \in Labels
      /\ \A j \in 1 .. n : BuildOK(fs[j])
  <2>1. Chain(fs) /\ LinksOK(fs) /\ BuildOK(fr) /\ fr.inst \in Labels
    BY <1>fs, <1>fr, TopOf DEF SoleInv
  <2> QED BY <1>n, <2>1 DEF LinksOK, Chain
<1>2. /\ Fun(fr) \in world.fns /\ d \in world.fns /\ d \in Fn /\ o \in Obs /\ objs[o].fn = d
      /\ AtMost(d, Fun(fr))
  <2>1. d \in CalleesOf(fr.obj) /\ Nested(fr, d)
    BY <1>fr
  <2> QED BY <1>1, <1>o, <2>1, CallFacts
<1>3. objs[o].cache[fr.inst] # Absent
  <2>1. d \in CalleesOf(fr.obj) /\ Nested(fr, d) /\ d \notin Range(fr.todo)
    <3>1. Range(<<>>) = {}
      BY DEF Range
    <3> QED BY <1>fr, <3>1
  <2> QED BY <1>1, <1>o, <2>1 DEF PassedOK
<1>4. ASSUME objs[o].cache[fr.inst] = Placeholder PROVE FALSE
  <2>1. BuiltFor(o, fr.inst)
    BY <1>1, <1>2, <1>4 DEF BuildersInv, Sole
  <2>2. PICK q \in Thread : \E b \in Frames(q) : b.obj = o
    BY <2>1 DEF BuiltFor
  <2>3. PICK k \in DOMAIN thr[q].frames : thr[q].frames[k].obj = o
    BY <2>2 DEF Frames
  <2>4. q = t
    <3>1. thr[q].frames # <<>>
      BY <2>3
    <3> QED BY <3>1 DEF SoleInv, Runners, Sole
  <2>5. k \in 1 .. n /\ Fun(fs[k]) = d
    BY <1>fs, <1>n, <1>2, <2>3, <2>4 DEF Fun
  <2>6. k < n
    <3>1. k # n
      BY <1>fr, <1>n, <2>5
    <3> QED BY <2>5, <3>1
  <2>7. n \in 1 .. n
    OBVIOUS
  <2>8. AtMost(Fun(fr), d)
    BY <1>1, <1>n, <2>5, <2>6, <2>7 DEF LinksOK, CallsOK
  <2>9. d = Fun(fr)
    BY <1>2, <2>8, AtMostFacts
  <2> QED BY <1>fr, <2>9
<1> QED BY <1>fr, <1>o, <1>3, <1>4

\* A compilation is registered under its name, and linked to what is registered
\* under the names of its callees.
LEMMA LinksCompile ==
  ASSUME DispatchInv, BuildersInv, SoleInv, NEW t \in Thread, Compile(t)
  PROVE  SoleInv'
<1>fs. PICK fs \in Seq(Build) : fs = thr[t].frames
  BY TopOf DEF Compile, Ready
<1>fr. PICK fr \in Build : fr = Top(t)
  BY TopOf DEF Compile, Ready
<1>f. PICK f : f = Fun(fr)
  OBVIOUS
<1>i. PICK i : i = fr.inst
  OBVIOUS
<1>id. PICK id : id = [fn |-> f, inst |-> i, ver |-> objs[fr.obj].ver]
  OBVIOUS
<1>code. PICK code \in Code :
           /\ code.id = id
           /\ SetTop(t, [fr EXCEPT !.made = code])
           /\ reg' = [reg EXCEPT ![NameOf(f, i)] = id]
           /\ \A d \in Fn : d \in CalleesOf(fr.obj) =>
                code.links[d] = IF LinkName(fr, d) = NameOf(f, i)
                                THEN id ELSE reg[LinkName(fr, d)]
  <2>1. Id(t) = id /\ Obj(t).fn = f
    BY <1>fr, <1>f, <1>i, <1>id DEF Id, Obj, Fun
  <2>2. PICK c \in Code :
          /\ c.id = [fn |-> Obj(t).fn, inst |-> Top(t).inst, ver |-> Obj(t).ver]
          /\ SetTop(t, [Top(t) EXCEPT !.made = c])
          /\ reg' = [reg EXCEPT ![NameOf(Obj(t).fn, Top(t).inst)] = Id(t)]
          /\ \A d \in Fn : d \in CalleesOf(Top(t).obj) =>
               c.links[d] = IF LinkName(Top(t), d) = NameOf(Obj(t).fn, Top(t).inst)
                            THEN Id(t) ELSE reg[LinkName(Top(t), d)]
    BY CompileMakes
  <2>3. c.id = Id(t)
    BY <2>2 DEF Id
  <2> QED BY <1>fr, <1>i, <2>1, <2>2, <2>3
<1>new. PICK new : new = [fr EXCEPT !.made = code]
  OBVIOUS
<1>1. /\ fs # <<>> /\ Chain(fs) /\ BuildOK(fr) /\ fr = Last(fs) /\ fr.todo = <<>>
      /\ Len(fs) \in DOMAIN fs /\ fs[Len(fs)] = fr /\ fr.made = Absent /\ i \in Labels
      /\ UNCHANGED <<world, objs, glob, failed, ops>> /\ Grows
  BY <1>fs, <1>fr, <1>i, TopOf DEF Compile, Ready, Top, Build, Grows
<1>2. /\ new \in Build /\ new.obj = fr.obj /\ new.inst = i /\ new.scope = fr.scope
      /\ new.made = code /\ new.todo = <<>>
  BY <1>new, <1>1, <1>i DEF Build, Entry
<1>gs. PICK gs \in Seq(Build) : gs = Append(Front(fs), new)
  BY <1>1, <1>2, TopFacts
<1>3. thr'[t].frames = gs /\ Others(t) /\ t \in world.threads
  <2>1. thr' = [thr EXCEPT ![t].frames = gs]
    BY <1>fs, <1>code, <1>new, <1>gs DEF SetTop
  <2> QED BY <1>fs, <1>1, <2>1 DEF DispatchInv, TypesOK, ThreadState, Others, SoleInv, Runners
<1>4. /\ fr.obj \in Obs /\ f \in world.fns /\ CalleesOf(fr.obj) \subseteq Fn /\ f \in Fn
      /\ \A d \in Fn : Nested(fr, d) => fr.scope[d] \in Obs /\ objs[fr.scope[d]].fn = d
  BY <1>1, <1>f, CallFacts, WorldFacts DEF DispatchInv
<1>5. ASSUME Sole, Layered(world) PROVE NoPython' /\ Registered' /\ LinksOK(gs)'
  <2>1. NoPython /\ Registered /\ LinksOK(fs) /\ PassedOK(fr) /\ CurrentOK(fr)
    BY <1>fs, <1>1, <1>5 DEF SoleInv, LinksOK
  <2>2. NoPython'
    BY <1>1, <2>1 DEF NoPython, Obs
  <2>3. \A d \in Fn, l \in Labels : Lazy(d) /\ NameOf(d, l) = NameOf(f, i) => d = f /\ l = i
    <3>1. \A l \in Labels : world.label[l] = world.label[i] => l = i
      BY <1>1, <1>5, WorldFacts DEF Sole, IsInjective, DispatchInv
    <3> QED BY <3>1 DEF NameOf
  <2>4. /\ reg'[NameOf(f, i)] = id
        /\ \A d \in Fn, l \in Labels : ~ (d = f /\ l = i) /\ Lazy(d) => reg'[NameOf(d, l)] = reg[NameOf(d, l)]
    <3>1. \A d \in Fn, l \in Labels : NameOf(d, l) \in Names
      BY WorldFacts DEF NameOf, Names, DispatchInv
    <3>2. reg \in [Names -> Identity \cup {Absent}]
      BY DEF DispatchInv, TypesOK
    <3> QED BY <1>code, <1>1, <1>4, <2>3, <3>1, <3>2
  <2>5. Registered'
    <3>1. ASSUME NEW d \in Fn, glob[d] # Absent, Lazy(d), NEW l \in Labels,
                 objs[glob[d]].cache[l] \notin {Absent, Placeholder}
          PROVE  reg'[NameOf(d, l)] = [fn |-> d, inst |-> l, ver |-> objs[glob[d]].ver]
      <4>1. CASE d = f /\ l = i
        <5>1. glob[d] = fr.obj
          BY <1>f, <2>1, <3>1, <4>1 DEF CurrentOK
        <5> QED BY <1>id, <2>4, <4>1, <5>1
      <4>2. CASE ~ (d = f /\ l = i)
        BY <2>1, <2>4, <3>1, <4>2 DEF Registered
      <4> QED BY <4>1, <4>2
    <3> QED BY <1>1, <3>1 DEF Registered, Lazy, NameOf
  <2>6. code # Python
    BY EntriesAssumption
  <2>7. ASSUME NEW d \in CalleesOf(fr.obj), Nested(fr, d)
        PROVE  code.links[d] = [fn |-> d, inst |-> i, ver |-> objs[fr.scope[d]].ver]
    <3>1. d \in Fn /\ Lazy(d) /\ LinkName(fr, d) = NameOf(d, i)
      BY <1>4, <1>i, <2>7 DEF Nested, Generic, Lazy, LinkName, NameOf
    <3>2. glob = fr.scope /\ glob[d] # Absent
      BY <2>1, <2>7 DEF CurrentOK, Nested
    <3>3. CASE d = f
      <4>1. glob[d] = fr.obj
        BY <1>f, <2>1, <3>1, <3>3 DEF CurrentOK
      <4> QED BY <1>code, <1>id, <3>1, <3>2, <3>3, <4>1
    <3>4. CASE d # f
      <4>1. objs[glob[d]].cache[i] \notin {Absent, Placeholder}
        <5>1. Top(t).todo = <<>> /\ thr[t].frames # <<>> /\ d \in CalleesOf(Top(t).obj)
              /\ d # Fun(Top(t)) /\ Nested(Top(t), d)
          BY <1>fs, <1>fr, <1>f, <1>1, <2>7, <3>4
        <5> QED BY <1>5, <1>fr, <1>i, <3>2, <5>1, CalleeIsCode
      <4>2. reg[NameOf(d, i)] = [fn |-> d, inst |-> i, ver |-> objs[glob[d]].ver]
        BY <1>1, <2>1, <3>1, <3>2, <4>1 DEF Registered
      <4>3. NameOf(d, i) # NameOf(f, i)
        BY <3>4 DEF NameOf
      <4> QED BY <1>code, <3>1, <3>2, <4>2, <4>3
    <3> QED BY <3>3, <3>4
  <2>8. MadeOK(new)'
    <3>1. Fun(new)' = f /\ CalleesOf(new.obj)' = CalleesOf(fr.obj)
          /\ (\A d : Nested(new, d)' <=> Nested(fr, d)) /\ (\A g, l : NameOf(g, l)' = NameOf(g, l))
      BY <1>1, <1>2, <1>f DEF Fun, CalleesOf, Nested, Generic, NameOf, Lazy
    <3>2. reg'[NameOf(f, i)] = code.id
      BY <1>code, <2>4
    <3> QED BY <1>1, <1>2, <2>6, <2>7, <3>1, <3>2 DEF MadeOK
  <2>9. PassedOK(new)'
    <3>1. PassedOK(new)
      BY <1>i, <1>1, <1>2, <2>1 DEF PassedOK, Nested
    <3> QED BY <1>1, <3>1 DEF PassedOK, Nested, CalleesOf, Generic
  <2>10. LinksOK(fs)'
    <3>1. \A j \in DOMAIN fs : fs[j].made = Absent
      <4>1. \A j \in DOMAIN fs : j < Len(fs) \/ j = Len(fs)
        OBVIOUS
      <4> QED BY <1>1, <2>1, <4>1, MadeOnTop
    <3> QED BY <1>1, <2>1, <3>1, LinksStay
  <2> QED BY <1>1, <1>2, <1>gs, <2>2, <2>5, <2>8, <2>9, <2>10, TopLinks
<1> QED BY <1>1, <1>3, <1>5, SoleThread

\* A missing callee is marked, and its build begins on top of the others.
LEMMA LinksSpecialize ==
  ASSUME DispatchInv, SoleInv, NEW t \in Thread, Specialize(t)
  PROVE  SoleInv'
<1>fs. PICK fs \in Seq(Build) : fs = thr[t].frames
  BY TopOf DEF Specialize
<1>fr. PICK fr \in Build : fr = Top(t)
  BY TopOf DEF Specialize
<1>d. PICK d : d = Head(fr.todo)
  OBVIOUS
<1>o. PICK o : o = fr.scope[d]
  OBVIOUS
<1>new. PICK new : IsFrame(new, o, d, objs[o].ver, fr.inst, "nested")
  BY DEF IsFrame
<1>top. PICK top : top = [fr EXCEPT !.missing = FALSE]
  OBVIOUS
<1>1. /\ TypesOK /\ Chain(fs) /\ fs # <<>> /\ BuildOK(fr) /\ fr.missing /\ fr = Last(fs)
      /\ Len(fs) \in Nat \ {0} /\ fs[Len(fs)] = fr /\ fr.inst \in Labels
  BY <1>fs, <1>fr, TopOf DEF Specialize, DispatchInv, Top
<1>2. /\ objs' = [objs EXCEPT ![o].cache[fr.inst] = Placeholder]
      /\ UNCHANGED <<world, glob, reg, failed, ops>>
      /\ thr' = [thr EXCEPT ![t].frames = Append(Append(Front(fs), top), new)]
  BY <1>fs, <1>fr, <1>d, <1>o, <1>new, <1>top DEF Specialize, IsFrame, Marked
<1>3. fr.todo # <<>> /\ fr.todo \in Seq(world.fns) /\ Nested(fr, d) /\ o = Callee(fr)
  BY <1>1, <1>d, <1>o DEF BuildOK, Callee
<1>4. d \in world.fns /\ d \in Fn /\ d \in Range(fr.todo)
  BY <1>1, <1>3, <1>d, WorldFacts, RangeSplit
<1>5. o \in Obs /\ objs[o].fn = d /\ o \in Nat
  BY <1>1, <1>3, <1>4, <1>o DEF BuildOK, Bound, Nested, Obs, TypesOK
<1>6. Placeholder \in Entry /\ Placeholder # Absent /\ CodeOf(Placeholder, o, fr.inst)
  BY EntriesAssumption DEF Entry, CodeOf
<1>7. /\ Obs' = Obs /\ Grows /\ objs'[o].fn = d /\ objs[o].ver \in Versions
  <2>1. Obs' = Obs /\ Grows /\ objs'[o].fn = d
    BY <1>1, <1>2, <1>5, <1>6, EntryFilled
  <2>2. objs[o] \in Object
    BY <1>1, <1>5 DEF TypesOK, Obs
  <2> QED BY <2>1, <2>2 DEF Object
<1>8. /\ top \in Build /\ top.obj = fr.obj /\ top.inst = fr.inst
      /\ top.scope = fr.scope /\ top.todo = fr.todo /\ top.made = fr.made
  BY <1>top DEF Build
<1>9. /\ new \in Build /\ new.obj = o /\ new.inst = fr.inst /\ new.scope = glob /\ new.made = Absent
      /\ new.todo = IF Generic(d) THEN world.calls[d][objs[o].ver] ELSE <<>>
  BY <1>1, <1>4, <1>5, <1>7, <1>new, FrameFacts DEF IsFrame, Frame
<1>hs. PICK hs \in Seq(Build) : hs = Append(Front(fs), top)
  BY <1>1, <1>8, TopFacts
<1>gs. PICK gs \in Seq(Build) : gs = Append(hs, new)
  BY <1>9, AppendType
<1>10. thr'[t].frames = gs /\ Others(t) /\ t \in world.threads
  <2>1. thr' = [thr EXCEPT ![t].frames = gs]
    BY <1>2, <1>hs, <1>gs
  <2> QED BY <1>fs, <1>1, <2>1 DEF TypesOK, ThreadState, Others, SoleInv, Runners
<1>11. ASSUME Sole, Layered(world) PROVE NoPython' /\ Registered' /\ LinksOK(gs)'
  <2>1. NoPython /\ Registered /\ LinksOK(fs) /\ PassedOK(fr) /\ CurrentOK(fr) /\ MadeOK(fr)
    BY <1>fs, <1>1, <1>11 DEF SoleInv, LinksOK
  <2>2. \A j \in Obs, i \in Labels :
          objs'[j].cache[i] = objs[j].cache[i] \/ objs'[j].cache[i] = Placeholder
    BY <1>1, <1>2, <1>5 DEF TypesOK, Obs, Object
  <2>3. NoPython'
    BY <1>7, <2>1, <2>2, EntriesAssumption DEF NoPython
  <2>4. Registered'
    <3>1. \A d1 \in Fn : glob[d1] # Absent => glob[d1] \in Obs /\ objs'[glob[d1]].ver = objs[glob[d1]].ver
      BY <1>7 DEF DispatchInv, Bound, Grows
    <3> QED BY <1>2, <2>1, <2>2, <3>1 DEF Registered, Lazy, NameOf
  <2>5. fr.made = Absent
    BY <1>3, <2>1 DEF MadeOK
  <2>6. LinksOK(fs)'
    BY <1>2, <1>7, <1>1, <2>1, LinksStay
  <2>7. LinksOK(hs)'
    <3>1. PassedOK(fr)'
      BY <1>1, <2>6 DEF LinksOK
    <3>2. PassedOK(top)'
      BY <1>8, <3>1 DEF PassedOK, Nested
    <3>3. MadeOK(top)'
      BY <1>8, <2>5 DEF MadeOK
    <3> QED BY <1>1, <1>8, <1>hs, <2>6, <3>2, <3>3, TopLinks
  <2>8. CurrentOK(new)'
    <3>1. glob[d] = o
      BY <1>o, <2>1 DEF CurrentOK
    <3> QED BY <1>2, <1>7, <1>9, <3>1 DEF CurrentOK, Fun
  <2>9. PassedOK(new)'
    <3>1. CalleesOf(o)' = Range(world.calls[d][objs[o].ver])
      BY <1>2, <1>5, <1>7 DEF CalleesOf, Grows
    <3>2. Range(<<>>) = {}
      BY DEF Range
    <3>3. Generic(d)
      BY <1>3 DEF Nested
    <3> QED BY <1>9, <3>1, <3>2, <3>3 DEF PassedOK
  <2>10. MadeOK(new)'
    BY <1>9 DEF MadeOK
  <2>11. /\ hs # <<>> /\ Last(hs) = top /\ DOMAIN hs = DOMAIN fs
         /\ \A j \in DOMAIN fs : hs[j].obj = fs[j].obj
    <3>1. /\ Len(hs) = Len(fs) /\ hs[Len(fs)] = top
          /\ \A j \in 1 .. Len(fs) - 1 : hs[j] = fs[j]
      BY <1>1, <1>8, <1>hs, TopFacts
    <3> QED BY <1>1, <1>8, <3>1 DEF Last
  <2>12. new.obj = Callee(Last(hs))
    BY <1>3, <1>8, <1>9, <2>11 DEF Callee
  <2>13. ASSUME NEW j \in DOMAIN hs PROVE AtMost(Fun(new), Fun(hs[j]))'
    <3>1. BuildOK(fs[j]) /\ fs[j].obj \in Obs /\ Fun(fs[j]) \in world.fns /\ Fun(fr) \in world.fns
      <4>1. BuildOK(fs[j])
        BY <1>1, <2>11 DEF Chain
      <4> QED BY <1>1, <4>1, CallFacts
    <3>2. Fun(new)' = d /\ Fun(hs[j])' = Fun(fs[j])
      BY <1>7, <1>9, <2>11, <3>1 DEF Fun, Grows
    <3>3. AtMost(d, Fun(fr))
      <4>1. d \in CalleesOf(fr.obj)
        BY <1>4, <2>1 DEF PassedOK
      <4> QED BY <1>1, <1>11, <4>1, CallFacts
    <3>4. AtMost(Fun(fr), Fun(fs[j]))
      <4>1. j = Len(fs) \/ (j < Len(fs) /\ Len(fs) \in DOMAIN fs)
        BY <2>11, <1>1
      <4>2. CASE j = Len(fs)
        BY <1>1, <4>2 DEF AtMost
      <4>3. CASE j < Len(fs) /\ Len(fs) \in DOMAIN fs
        BY <1>1, <2>1, <2>11, <4>3 DEF LinksOK, CallsOK
      <4> QED BY <4>1, <4>2, <4>3
    <3>5. AtMost(d, Fun(fs[j]))
      BY <1>4, <1>11, <3>1, <3>3, <3>4, AtMostFacts
    <3> QED BY <1>2, <3>2, <3>5 DEF AtMost, Below
  <2> QED BY <1>9, <1>gs, <2>3, <2>4, <2>7, <2>8, <2>9, <2>10, <2>11, <2>12, <2>13, PushLinks
<1> QED BY <1>2, <1>10, <1>11, SoleThread

\* A callee has been built, and the build below goes on to its next call.
LEMMA PopLinks ==
  ASSUME DispatchInv, world' = world, NEW fs \in Seq(Build), Len(fs) > 1, Chain(fs), LinksOK(fs), LinksOK(fs)',
         Grows, objs'[Last(fs).obj].cache[Last(fs).inst] # Absent,
         NEW rs \in Seq(Build), IsResumed(rs, fs)
  PROVE  LinksOK(rs)'
<1>n. PICK n \in Nat \ {0} : Len(fs) = n + 1 /\ DOMAIN fs = 1 .. n + 1
  <2>1. Len(fs) \in Nat /\ DOMAIN fs = 1 .. Len(fs)
    OBVIOUS
  <2>2. PICK m \in Nat : m = Len(fs) /\ m > 1
    BY <2>1
  <2>3. m - 1 \in Nat \ {0} /\ m = (m - 1) + 1
    BY <2>2
  <2> QED BY <2>1, <2>2, <2>3
<1>ms. PICK ms \in Seq(Build) : ms = Front(fs)
  BY <1>n, FrontFacts
<1>1. Len(ms) = n /\ DOMAIN ms = 1 .. n /\ \A j \in 1 .. n : ms[j] = fs[j]
  <2>1. fs # <<>>
    BY <1>n
  <2>2. Len(ms) = (n + 1) - 1 /\ \A j \in 1 .. (n + 1) - 1 : ms[j] = fs[j]
    BY <1>n, <1>ms, <2>1, FrontFacts
  <2> QED BY <2>2
<1>fr. PICK fr \in Build : fr = fs[n]
  BY <1>n
<1>top. PICK top : top = [fr EXCEPT !.todo = Tail(@)]
  OBVIOUS
<1>2. /\ n \in 1 .. n + 1 /\ n + 1 \in 1 .. n + 1 /\ n \in 1 .. n /\ n < n + 1
      /\ Last(fs) = fs[n + 1]
  BY <1>n DEF Last
<1>3. fr.todo # <<>> /\ fr.todo \in Seq(Fn) /\ BuildOK(fr) /\ fr.made = Absent /\ fr.inst = fs[n + 1].inst
  <2>1. fr.todo # <<>> /\ BuildOK(fr) /\ fr.inst = fs[n + 1].inst
    BY <1>n, <1>fr, <1>2 DEF Chain
  <2>2. fr.made = Absent
    BY <1>n, <1>fr, <1>2, MadeOnTop
  <2> QED BY <2>1, <2>2 DEF Build
<1>4. /\ top.obj = fr.obj /\ top.inst = fr.inst /\ top.scope = fr.scope
      /\ top.made = Absent /\ top.todo = Tail(fr.todo)
  BY <1>3, <1>top DEF Build
<1>5. rs = [ms EXCEPT ![n] = top]
  BY <1>1, <1>2, <1>ms, <1>fr, <1>top DEF IsResumed
<1>6. /\ DOMAIN rs = 1 .. n /\ rs[n] = top
      /\ \A j \in 1 .. n : j # n => rs[j] = fs[j]
  BY <1>1, <1>2, <1>5
<1>7. \A j \in 1 .. n : rs[j].obj = fs[j].obj /\ (j < n => rs[j] = fs[j]) /\ j \in 1 .. n + 1
  BY <1>fr, <1>4, <1>6
<1>8. CallsOK(rs)'
  <2>1. ASSUME NEW j \in 1 .. n, NEW k \in 1 .. n
        PROVE  /\ k = j + 1 => (rs[k].obj = Callee(rs[j]))'
               /\ j < k => AtMost(Fun(rs[k]), Fun(rs[j]))'
    <3>1. rs[k].obj = fs[k].obj /\ rs[j].obj = fs[j].obj /\ j \in DOMAIN fs /\ k \in DOMAIN fs
      BY <1>n, <1>7
    <3>2. k = j + 1 => rs[j] = fs[j]
      BY <1>7
    <3>3. /\ k = j + 1 => (fs[k].obj = Callee(fs[j]))'
          /\ j < k => AtMost(Fun(fs[k]), Fun(fs[j]))'
      BY <3>1 DEF LinksOK, CallsOK
    <3> QED BY <3>1, <3>2, <3>3 DEF AtMost, Fun, Callee
  <2> QED BY <1>6, <2>1 DEF CallsOK
<1>9. CurrentOK(fr)' /\ PassedOK(fr)'
  BY <1>n, <1>fr, <1>2 DEF LinksOK
<1>10. CurrentOK(top)' /\ MadeOK(top)'
  BY <1>4, <1>9 DEF CurrentOK, Fun, MadeOK
<1>11. PassedOK(top)'
  <2>d. PICK d : d = Head(fr.todo)
    OBVIOUS
  <2>1. \A x : x \in Range(fr.todo) <=> x = d \/ x \in Range(top.todo)
    BY <1>3, <1>4, <2>d, RangeSplit
  <2>2. objs'[fr.scope[d]].cache[fr.inst] # Absent
    <3>1. fs[n + 1].obj = fr.scope[d]
      BY <1>n, <1>fr, <1>2, <2>d DEF LinksOK, CallsOK, Callee
    <3> QED BY <1>2, <1>3, <3>1
  <2> QED BY <1>4, <1>9, <2>1, <2>2 DEF PassedOK, Nested
<1>12. ASSUME NEW j \in 1 .. n PROVE CurrentOK(rs[j])' /\ PassedOK(rs[j])' /\ MadeOK(rs[j])'
  <2>1. CASE j = n
    BY <1>6, <1>10, <1>11, <2>1
  <2>2. CASE j # n
    <3>1. rs[j] = fs[j]
      BY <1>6, <2>2
    <3> QED BY <1>n, <1>7, <3>1 DEF LinksOK
  <2> QED BY <2>1, <2>2
<1> QED BY <1>6, <1>8, <1>12 DEF LinksOK

\* What a build has made is put where its name leads, and is what is registered.
LEMMA LinksFinish ==
  ASSUME DispatchInv, SoleInv, NEW t \in Thread, Finish(t)
  PROVE  SoleInv'
<1>fs. PICK fs \in Seq(Build) : fs = thr[t].frames
  BY TopOf DEF Finish
<1>fr. PICK fr \in Build : fr = Top(t)
  BY TopOf DEF Finish
<1>gs. PICK gs : gs = IF fr.role = "nested" THEN Resumed(t) ELSE <<>>
  OBVIOUS
<1>o. PICK o : o = fr.obj
  OBVIOUS
<1>i. PICK i \in Labels : i = fr.inst
  BY DEF Build
<1>e. PICK e \in Entry : e = fr.made
  BY DEF Build
<1>1. /\ TypesOK /\ Chain(fs) /\ fs # <<>> /\ BuildOK(fr) /\ e # Absent
      /\ Len(fs) \in Nat \ {0} /\ Len(fs) \in DOMAIN fs /\ fs[Len(fs)] = fr /\ fr = Last(fs)
  BY <1>fs, <1>fr, <1>e, TopOf DEF Finish, DispatchInv, Top
<1>2. /\ objs' = [objs EXCEPT ![o].cache[i] = e]
      /\ glob' = IF fr.role = "define" THEN [glob EXCEPT ![Fun(fr)] = o] ELSE glob
      /\ thr' = [thr EXCEPT ![t].frames = gs]
      /\ UNCHANGED <<world, reg, failed, ops>> /\ world' = world
  BY <1>fr, <1>gs, <1>o, <1>i, <1>e DEF Finish, Stored, Obj, Fun
<1>3. o \in Obs /\ CodeOf(e, o, i)
  BY <1>1, <1>o, <1>i, <1>e DEF BuildOK
<1>4. /\ Obs' = Obs /\ Grows /\ objs'[o].cache[i] # Absent
  BY <1>1, <1>2, <1>3, EntryFilled, ZenonT(30)
<1>5. fr.role = "nested" <=> Len(fs) > 1
  BY <1>1 DEF Chain
<1>6. /\ fr.role = "nested" => gs \in Seq(Build) /\ IsResumed(gs, fs)
      /\ fr.role # "nested" => gs = <<>>
  <2>1. CASE fr.role = "nested"
    <3>1. IsResumed(gs, fs)
      BY <1>fs, <1>gs, <2>1 DEF Resumed, IsResumed
    <3> QED BY <1>1, <1>5, <2>1, <3>1, PopChain
  <2>2. CASE fr.role # "nested"
    BY <1>gs, <2>2
  <2> QED BY <2>1, <2>2
<1>7. thr'[t].frames = gs /\ Others(t) /\ t \in world.threads
  BY <1>fs, <1>1, <1>2 DEF TypesOK, ThreadState, Others, SoleInv, Runners
<1>8. Fun(fr) \in Fn /\ objs[o].fn = Fun(fr)
  BY <1>1, <1>o, CallFacts, WorldFacts DEF Fun
<1>9. ASSUME Sole, Layered(world) PROVE NoPython' /\ Registered' /\ LinksOK(gs)'
  <2>1. NoPython /\ Registered /\ LinksOK(fs) /\ CurrentOK(fr) /\ MadeOK(fr)
    BY <1>fs, <1>1, <1>9 DEF SoleInv, LinksOK
  <2>2. /\ \A j \in Obs, l \in Labels : ~ (j = o /\ l = i) => objs'[j].cache[l] = objs[j].cache[l]
        /\ objs'[o].cache[i] = e
    <3>0. objs \in Seq(Object) /\ objs[o] \in Object
      BY <1>1, <1>3 DEF TypesOK, Obs
    <3>1. objs[o].cache \in [Labels -> Entry]
      BY <3>0 DEF Object
    <3>2. PICK new : new = [objs[o] EXCEPT !.cache[i] = e]
      OBVIOUS
    <3>3. new.cache = [objs[o].cache EXCEPT ![i] = e]
      BY <3>0, <3>2 DEF Object
    <3>4. objs' = [objs EXCEPT ![o] = new]
      BY <1>2, <1>3, <3>0, <3>2 DEF Obs
    <3> QED BY <1>3, <3>0, <3>1, <3>3, <3>4 DEF Obs
  <2>3. e # Python /\ (Lazy(Fun(fr)) => reg[NameOf(Fun(fr), i)] = e.id)
    BY <1>e, <1>i, <1>1, <2>1 DEF MadeOK
  <2>4. NoPython'
    BY <1>4, <2>1, <2>2, <2>3 DEF NoPython
  <2>5. \A d \in Fn : Lazy(d) => glob'[d] = glob[d]
    <3>1. glob \in [Fn -> 1 .. Len(objs) \cup {Absent}]
      BY <1>1 DEF TypesOK
    <3>2. Lazy(Fun(fr)) => glob[Fun(fr)] = o
      BY <1>o, <2>1 DEF CurrentOK
    <3> QED BY <1>2, <1>8, <3>1, <3>2
  <2>6. Registered'
    <3>1. ASSUME NEW d \in Fn, glob[d] # Absent, Lazy(d), NEW l \in Labels,
                 objs'[glob[d]].cache[l] \notin {Absent, Placeholder}
          PROVE  reg[NameOf(d, l)] = [fn |-> d, inst |-> l, ver |-> objs'[glob[d]].ver]
      <4>1. glob[d] \in Obs /\ objs[glob[d]].fn = d /\ objs'[glob[d]].ver = objs[glob[d]].ver
        BY <1>4, <3>1 DEF DispatchInv, Bound, Grows
      <4>2. CASE glob[d] = o /\ l = i
        <5>1. d = Fun(fr) /\ e \notin {Absent, Placeholder, Python}
          BY <1>1, <1>8, <2>2, <2>3, <3>1, <4>1, <4>2
        <5>2. e.id = [fn |-> objs[o].fn, inst |-> i, ver |-> objs[o].ver]
          BY <1>3, <5>1 DEF CodeOf
        <5> QED BY <1>8, <2>3, <3>1, <4>1, <4>2, <5>1, <5>2
      <4>3. CASE ~ (glob[d] = o /\ l = i)
        BY <2>1, <2>2, <3>1, <4>1, <4>3 DEF Registered
      <4> QED BY <4>2, <4>3
    <3> QED BY <1>2, <2>5, <3>1 DEF Registered, Lazy, NameOf
  <2>7. LinksOK(gs)'
    <3>1. CASE fr.role = "nested"
      <4>1. LinksOK(fs)'
        BY <1>1, <1>2, <1>4, <2>1, <3>1, LinksStay
      <4>2. objs'[Last(fs).obj].cache[Last(fs).inst] # Absent
        BY <1>o, <1>i, <1>1, <1>4
      <4> QED BY <1>1, <1>2, <1>4, <1>5, <1>6, <2>1, <3>1, <4>1, <4>2, PopLinks
    <3>2. CASE fr.role # "nested"
      BY <1>6, <3>2, NoLinks
    <3> QED BY <3>1, <3>2
  <2> QED BY <2>4, <2>6, <2>7
<1> QED BY <1>2, <1>7, <1>9, SoleThread

\* A definition binds the name of a generic or an overloaded function to an empty
\* cache, and begins the build of a plain one.
LEMMA LinksDecorate ==
  ASSUME DispatchInv, SoleInv, NEW t \in Thread, NEW f \in world.fns, NEW v \in Versions,
         NEW flag \in BOOLEAN, Decorate(t, f, v, flag)
  PROVE  SoleInv'
<1>obj. PICK obj : obj = [fn |-> f, ver |-> v, verify |-> flag /\ ~ thr[t].off,
                          meant |-> flag /\ thr[t].blocks = <<>>,
                          cache |-> [i \in Labels |-> Absent]]
  OBVIOUS
<1>n. PICK n \in Nat : n = Len(objs) /\ objs \in Seq(Object) /\ Obs = 1 .. n
  BY DEF DispatchInv, TypesOK, Obs
<1>1. /\ TypesOK /\ Bound(glob) /\ thr[t].frames = <<>> /\ objs' = Append(objs, obj)
      /\ UNCHANGED <<world, reg, failed>> /\ t \in world.threads
  BY <1>obj DEF Decorate, Free, DispatchInv
<1>2. f \in Fn /\ Base \in Labels
  BY <1>1, WorldFacts
<1>3. /\ obj.fn = f /\ \A i \in Labels : obj.cache[i] = Absent
  BY <1>obj
<1>4. /\ objs'[n + 1] = obj /\ n + 1 \notin Obs /\ Len(objs') = n + 1
      /\ (\A j \in Obs : objs'[j] = objs[j]) /\ Obs' = 1 .. n + 1
  BY <1>n, <1>1 DEF Obs
<1>5. glob \in [Fn -> Obs \cup {Absent}] /\ \A d \in Fn : glob[d] # Absent => glob[d] \in Obs
  BY <1>n, <1>1 DEF TypesOK
<1>6. NoPython => NoPython'
  <2>1. \A j \in 1 .. n + 1 : j \in Obs \/ j = n + 1
    BY <1>n
  <2> QED BY <1>3, <1>4, <2>1, EntriesAssumption DEF NoPython
<1>7. CASE Lazy(f)
  <2>1. /\ glob' = [glob EXCEPT ![f] = n + 1]
        /\ thr' = [thr EXCEPT ![t].out = [how |-> "defined"]]
    BY <1>4, <1>7 DEF Decorate
  <2>2. thr'[t].frames = <<>> /\ Others(t)
    BY <1>1, <2>1 DEF TypesOK, ThreadState, Others
  <2>3. ASSUME Registered PROVE Registered'
    <3>1. ASSUME NEW d \in Fn, glob'[d] # Absent, Lazy(d), NEW l \in Labels,
                 objs'[glob'[d]].cache[l] \notin {Absent, Placeholder}
          PROVE  reg[NameOf(d, l)] = [fn |-> d, inst |-> l, ver |-> objs'[glob'[d]].ver]
      <4>1. d # f
        BY <1>2, <1>3, <1>4, <1>5, <2>1, <3>1
      <4>2. glob'[d] = glob[d]
        BY <1>5, <2>1, <4>1
      <4>3. objs'[glob[d]] = objs[glob[d]]
        BY <1>4, <1>5, <3>1, <4>2
      <4> QED BY <2>3, <3>1, <4>2, <4>3 DEF Registered
    <3> QED BY <1>1, <3>1 DEF Registered, Lazy, NameOf
  <2>4. Sole /\ Layered(world) => NoPython' /\ Registered' /\ LinksOK(<<>>)'
    BY <1>6, <2>3, NoLinks DEF SoleInv
  <2> QED BY <1>1, <2>2, <2>4, SoleThread
<1>8. CASE ~ Lazy(f)
  <2>fr. PICK fr : IsFrame(fr, n + 1, f, v, Base, "define")
    BY DEF IsFrame
  <2>1. /\ glob' = glob
        /\ thr' = [thr EXCEPT ![t].frames = <<fr>>, ![t].out = [how |-> "none"]]
    BY <1>4, <1>8, <2>fr DEF Decorate, IsFrame
  <2>2. thr'[t].frames = <<fr>> /\ Others(t)
    BY <1>1, <2>1 DEF TypesOK, ThreadState, Others
  <2>3. fr.obj = n + 1 /\ fr.scope = glob /\ fr.made = Absent /\ fr.todo = <<>>
    BY <1>8, <2>fr DEF IsFrame, Frame, Lazy, Generic
  <2>4. ASSUME Registered PROVE Registered'
    <3>1. \A d \in Fn : glob[d] # Absent => objs'[glob[d]] = objs[glob[d]]
      BY <1>4, <1>5
    <3> QED BY <1>1, <2>1, <2>4, <3>1 DEF Registered, Lazy, NameOf
  <2>5. CurrentOK(fr)' /\ PassedOK(fr)' /\ MadeOK(fr)'
    <3>1. Range(<<>>) = {}
      BY DEF Range
    <3>2. objs'[fr.obj].fn = f
      BY <1>3, <1>4, <2>3
    <3>3. CurrentOK(fr)'
      BY <1>1, <1>8, <2>1, <2>3, <3>2 DEF CurrentOK, Fun, Lazy
    <3>4. PassedOK(fr)'
      BY <1>1, <1>8, <2>3, <3>1, <3>2 DEF PassedOK, Nested, Generic, Lazy
    <3> QED BY <2>3, <3>3, <3>4 DEF MadeOK
  <2>6. Sole /\ Layered(world) => NoPython' /\ Registered' /\ LinksOK(<<fr>>)'
    BY <1>6, <2>4, <2>5, FirstLinks DEF SoleInv
  <2> QED BY <1>1, <2>2, <2>6, SoleThread
<1> QED BY <1>7, <1>8

\* A call of a function that is not compiled begins its build.
LEMMA LinksCall ==
  ASSUME DispatchInv, SoleInv, NEW t \in Thread, NEW f \in world.fns, NEW a \in world.args,
         NEW good, Call(t, f, a, good)
  PROVE  SoleInv'
<1>o. PICK o : o = glob[f]
  OBVIOUS
<1>i. PICK i : i = KeyOf(f, a)
  OBVIOUS
<1>fr. PICK fr : IsFrame(fr, o, f, objs[o].ver, i, "call")
  BY DEF IsFrame
<1>1. /\ TypesOK /\ Bound(glob) /\ o # Absent /\ thr[t].frames = <<>>
      /\ UNCHANGED <<world, objs, glob, reg, failed>> /\ t \in world.threads
  BY <1>o DEF Call, Free, DispatchInv
<1>2. f \in Fn /\ o \in Obs /\ objs[o].fn = f
  <2>1. f \in Fn
    BY <1>1, WorldFacts
  <2> QED BY <1>1, <1>o, <2>1 DEF Bound
<1>3. Others(t) /\ (thr'[t].frames = <<fr>> \/ thr'[t].frames = <<>>)
  <2>1. CASE i = Absent
    <3>1. thr' = [thr EXCEPT ![t].out = [how |-> "no overload"]]
      BY <1>i, <2>1 DEF Call
    <3> QED BY <1>1, <3>1 DEF TypesOK, ThreadState, Others
  <2>2. CASE i # Absent
    <3>fs. PICK fs : fs = IF objs[o].cache[i] = Absent THEN <<fr>> ELSE <<>>
      OBVIOUS
    <3>1. thr' = [thr EXCEPT ![t].goal = [obj |-> o, inst |-> i, arg |-> a, good |-> good],
                             ![t].out = [how |-> "none"], ![t].frames = fs]
      BY <1>o, <1>i, <1>fr, <2>2, <3>fs DEF Call, IsFrame
    <3> QED BY <1>1, <3>fs, <3>1 DEF TypesOK, ThreadState, Others
  <2> QED BY <2>1, <2>2
<1>4. ASSUME Sole, Layered(world) PROVE NoPython' /\ Registered'
  <2>1. NoPython /\ Registered
    BY <1>4 DEF SoleInv
  <2> QED BY <1>1, <2>1 DEF NoPython, Registered, Lazy, NameOf, Obs
<1>5. fr.obj = o /\ fr.scope = glob /\ fr.made = Absent
      /\ fr.todo = IF Generic(f) THEN world.calls[f][objs[o].ver] ELSE <<>>
  BY <1>fr DEF IsFrame, Frame
<1>6. CurrentOK(fr)' /\ PassedOK(fr)' /\ MadeOK(fr)'
  <2>1. Range(<<>>) = {}
    BY DEF Range
  <2>2. CurrentOK(fr)
    BY <1>o, <1>2, <1>5 DEF CurrentOK, Fun
  <2>3. PassedOK(fr)
    BY <1>2, <1>5, <2>1 DEF PassedOK, Nested, CalleesOf
  <2>4. CurrentOK(fr)' /\ PassedOK(fr)'
    BY <1>1, <2>2, <2>3 DEF CurrentOK, Fun, Lazy, PassedOK, Nested, CalleesOf, Generic
  <2> QED BY <1>5, <2>4 DEF MadeOK
<1>7. CASE thr'[t].frames = <<fr>>
  <2>1. LinksOK(<<fr>>)'
    BY <1>6, FirstLinks
  <2> QED BY <1>1, <1>3, <1>4, <1>7, <2>1, SoleThread
<1>8. CASE thr'[t].frames = <<>>
  BY <1>1, <1>3, <1>4, <1>8, NoLinks, SoleThread
<1> QED BY <1>3, <1>7, <1>8

\* After a refused or a panicking build nothing is said.
LEMMA LinksRefuse ==
  ASSUME DispatchInv, SoleInv, NEW t \in Thread, Refuse(t) \/ Panic(t)
  PROVE  SoleInv'
<1>1. thr[t].frames # <<>> /\ t \in world.threads
  BY DEF Refuse, Panic, Ready, SoleInv, Runners
<1>2. failed' = TRUE /\ world' = world
  BY DEF Refuse, Panic, Raise
<1>3. Others(t)
  BY DEF Refuse, Panic, Raise, SetTop, DispatchInv, TypesOK, Others
<1>4. Runners'
  BY <1>1, <1>2, <1>3 DEF Runners, Others, SoleInv
<1> QED BY <1>2, <1>4 DEF SoleInv, Sole

\* A block begins or ends, or a call enters what is in the cache.
LEMMA LinksOutside ==
  ASSUME DispatchInv, SoleInv, NEW t \in Thread,
         NoVerification(t) \/ LeaveNoVerification(t) \/ Enter(t)
  PROVE  SoleInv'
<1>1. UNCHANGED <<world, objs, glob, reg, failed>>
  BY DEF NoVerification, LeaveNoVerification, Enter
<1>2. thr \in [Thread -> ThreadState]
  BY DEF DispatchInv, TypesOK
<1>3. ASSUME NEW q \in Thread PROVE thr'[q].frames = thr[q].frames
  <2>1. CASE NoVerification(t)
    BY <1>2, <2>1 DEF NoVerification, ThreadState
  <2>2. CASE LeaveNoVerification(t)
    BY <1>2, <2>2 DEF LeaveNoVerification, ThreadState
  <2>3. CASE Enter(t)
    <3>1. PICK end : thr' = [thr EXCEPT ![t].goal = Absent, ![t].out = end]
      BY <2>3 DEF Enter
    <3> QED BY <1>2, <3>1 DEF ThreadState
  <2> QED BY <2>1, <2>2, <2>3
<1> QED BY <1>1, <1>3, QuietLinks

----------------------------------------------------------------------------
\* Nothing is linked at first.
LEMMA SoleInit == Init => SoleInv
<1> SUFFICES ASSUME Init PROVE SoleInv
  OBVIOUS
<1>1. \A q \in Thread : thr[q].frames = <<>>
  BY DEF Init, Idle
<1>2. Obs = {}
  BY DEF Init, Obs
<1>3. NoPython /\ Registered
  BY <1>2 DEF NoPython, Registered, Init
<1>4. LinksOK(<<>>)
  <2>1. DOMAIN <<>> = {}
    OBVIOUS
  <2> QED BY <2>1 DEF LinksOK, CallsOK
<1> QED BY <1>1, <1>3, <1>4 DEF SoleInv, Runners

\* Every step links the calls of a specialization to what they name.
LEMMA SoleNext == DispatchInv /\ BuildersInv /\ SoleInv /\ [Next]_vars => SoleInv'
<1> SUFFICES ASSUME DispatchInv, BuildersInv, SoleInv, [Next]_vars PROVE SoleInv'
  OBVIOUS
<1>1. CASE UNCHANGED vars
  BY <1>1, QuietLinks DEF vars
<1>2. CASE Next
  <2>1. PICK t \in Thread :
          \/ NoVerification(t) \/ LeaveNoVerification(t)
          \/ \E f \in world.fns, v \in Versions, flag \in world.flags : Decorate(t, f, v, flag)
          \/ \E f \in world.fns, a \in world.args, good \in BOOLEAN : Call(t, f, a, good)
          \/ Step(t)
    BY <1>2 DEF Next
  <2>2. CASE NoVerification(t) \/ LeaveNoVerification(t)
    BY <2>2, LinksOutside
  <2>3. ASSUME NEW f \in world.fns, NEW v \in Versions, NEW flag \in world.flags,
               Decorate(t, f, v, flag)
        PROVE  SoleInv'
    <3>1. flag \in BOOLEAN
      BY WorldsAssumption DEF DispatchInv, TypesOK
    <3> QED BY <2>3, <3>1, LinksDecorate
  <2>4. ASSUME NEW f \in world.fns, NEW a \in world.args, NEW good \in BOOLEAN,
               Call(t, f, a, good)
        PROVE  SoleInv'
    BY <2>4, LinksCall
  <2>5. CASE Step(t)
    BY <2>5, LinksExpand, LinksSpecialize, LinksCompile, LinksRefuse, LinksFinish,
       LinksOutside DEF Step
  <2> QED BY <2>1, <2>2, <2>3, <2>4, <2>5
<1> QED BY <1>1, <1>2

\* LinkedAsDefined: while no build has failed, with one thread and specialized
\* names that differ, generic functions of which no two call each other are linked
\* to their callees as these were defined when the compilation began, for any
\* definitions, redefinitions and calls (_specialize, visit_Call).
THEOREM LinksAreAsDefined == Spec => []LinkedAsDefined
<1>1. DispatchInv /\ SoleInv => LinkedAsDefined
  <2> SUFFICES ASSUME DispatchInv, SoleInv, Sole, Layered(world), NEW t \in Thread,
                      NEW fr \in Frames(t), fr.made \notin {Absent, Python},
                      NEW d \in CalleesOf(fr.obj), Nested(fr, d)
               PROVE  fr.made.links[d] = [fn |-> d, inst |-> fr.inst, ver |-> objs[fr.scope[d]].ver]
    BY DEF LinkedAsDefined
  <2>1. LinksOK(thr[t].frames)
    BY DEF SoleInv
  <2>2. MadeOK(fr)
    BY <2>1 DEF LinksOK, Frames
  <2> QED BY <2>2 DEF MadeOK
<1>2. DispatchInv /\ [Next]_vars => DispatchInv'
  BY DispatchNext
<1>3. DispatchInv /\ DispatchInv' /\ BuildersInv /\ [Next]_vars => BuildersInv'
  BY BuildersNext
<1> QED BY <1>1, <1>2, <1>3, DispatchInit, BuildersInit, SoleInit, SoleNext, PTL DEF Spec
=============================================================================
