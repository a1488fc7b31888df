------------------------------ MODULE Dispatch ------------------------------
(***************************************************************************)
(* The decorators of the Python side.  @verify compiles a plain function   *)
(* at once; a generic or an overloaded one becomes an object with an empty *)
(* cache and is compiled, once for each key, when it is first called with  *)
(* arguments of that key.  Before a generic function is compiled its body  *)
(* is rewritten: every generic function it calls is specialized first, and *)
(* called by its specialized name.  Python threads share the objects, the  *)
(* globals and the registry of compiled functions; no lock is held.  The   *)
(* interpreter may switch threads between two steps of the model; the call *)
(* of the bridge keeps the interpreter, and is one step.                   *)
(*                                                                         *)
(* Of the code that is compiled the model keeps what it is a compilation   *)
(* of and what it is linked to.  Addresses, and so the reuse of finished   *)
(* compilations with equal signatures, are not told apart.                 *)
(***************************************************************************)
EXTENDS Naturals, Sequences, FiniteSets, SequencesExt

CONSTANTS
  Fn, Thread, Arg,   \* functions, threads, kinds of arguments
  Base,              \* the key of a plain function
  Absent,            \* no entry, no object, nothing
  Placeholder, Python,  \* see Entry
  Worlds             \* the programs and how they are used

Kind == {"plain", "generic", "overload"}
Versions == 1 .. 2
Labels == Arg \cup {Base}
Signature == [key : Labels, accepts : SUBSET Labels]

\* A world: the kind of each function, what the body of each version of it calls, in order,
\* the key a generic function gets from an argument, the overloads in order
\* with the arguments each accepts, what the specialized name keeps of a key,
\* the (function, version) pairs the verifier refuses, `strict`, where
\* @requires stands ("none", "below" or "above" the @verify), how many versions
\* of a function are defined, who runs, the values of `verify`, and the bounds
\* on nested no_verification blocks and on definitions and calls.
ASSUME WorldsAssumption ==
  \A w \in Worlds :
    /\ w.fns \subseteq Fn /\ w.threads \subseteq Thread
    /\ w.budget \in Nat /\ w.depth \in Nat
    /\ w.kind \in [w.fns -> Kind] /\ w.calls \in [w.fns -> [Versions -> Seq(w.fns)]]
    /\ w.args \subseteq Labels /\ w.label \in [Labels -> Labels]
    /\ w.overloads \in [w.fns -> Seq(Signature)]
    /\ \A f \in w.fns : w.kind[f] = "plain" => w.overloads[f] = <<>>
    /\ w.flags \subseteq BOOLEAN /\ w.strict \in BOOLEAN
    /\ w.pre \in [w.fns -> {"none", "below", "above"}]

VARIABLES
  world,
  objs,    \* the decorated functions, in the order they were made
  glob,    \* function -> the object its global name is bound to, or Absent
  reg,     \* name -> the code registered under it
  thr,     \* per thread, see Idle
  failed,  \* some build was refused or panicked
  ops      \* definitions and calls so far
vars == <<world, objs, glob, reg, thr, failed, ops>>

Names == [fn : Fn, label : Labels]
Identity == [fn : Fn, inst : Labels, ver : Versions]
Code == [id : Identity, verified : BOOLEAN, links : [Fn -> Identity \cup {Absent}]]

\* What a cache holds under a key: nothing, the None of a build that has begun,
\* the Python function of a build that failed, or compiled code.
Entry == Code \cup {Absent, Placeholder, Python}
ASSUME EntriesAssumption ==
  Placeholder \notin Code \cup {Absent, Python} /\ Python \notin Code \cup {Absent}

\* A thread: the builds it is in, innermost last, the call it is to finish,
\* its thread-local flag, what the no_verification blocks around it saved, and
\* how its last call or definition ended.
Idle == [frames |-> <<>>, goal |-> Absent, off |-> FALSE, blocks |-> <<>>,
         out |-> [how |-> "none"]]

Lazy(f) == world.kind[f] # "plain"
Generic(f) == world.kind[f] = "generic"
NameOf(f, i) == [fn |-> f, label |-> IF Lazy(f) THEN world.label[i] ELSE Base]

\* _match_overload: the first overload that takes the argument.
MatchOverload(f, a) ==
  LET fit == SelectInSeq(world.overloads[f], LAMBDA s : a \in s.accepts)
  IN  IF fit = 0 THEN Absent ELSE world.overloads[f][fit].key

\* Slip: the cache of a generic function is keyed by its specialized name.
KeyByName(f, a) ==
  CASE world.kind[f] = "plain" -> Base
    [] world.kind[f] = "generic" -> world.label[a]
    [] world.kind[f] = "overload" -> MatchOverload(f, a)

\* The key of a call: _match_typevars gives a generic function its own.
KeyOf(f, a) ==
  CASE world.kind[f] = "plain" -> Base
    [] world.kind[f] = "generic" -> a
    [] world.kind[f] = "overload" -> MatchOverload(f, a)

CalleesOf(o) == Range(world.calls[objs[o].fn][objs[o].ver])

Init ==
  /\ world \in Worlds
  /\ objs = <<>>
  /\ glob = [f \in Fn |-> Absent]
  /\ reg = [n \in Names |-> Absent]
  /\ thr = [t \in Thread |-> Idle]
  /\ failed = FALSE
  /\ ops = 0

----------------------------------------------------------------------------
\* A thread in user code, between calls.
Free(t) == t \in world.threads /\ thr[t].frames = <<>> /\ thr[t].goal = Absent

Top(t) == Last(thr[t].frames)
Obj(t) == objs[Top(t).obj]
SetTop(t, fr) == thr' = [thr EXCEPT ![t].frames = Append(Front(@), fr)]

\* The start of a build.  A generic function is rewritten under a copy of its
\* globals: `scope`, and the calls still to be looked at.
Frame(o, f, v, i, role) ==
  [obj |-> o, inst |-> i, role |-> role, scope |-> glob,
   todo |-> IF Generic(f) THEN world.calls[f][v] ELSE <<>>,
   missing |-> FALSE, made |-> Absent]

\* no_verification: the flag of this thread is saved, set, and put back.
NoVerification(t) ==
  /\ Free(t) /\ Len(thr[t].blocks) < world.depth
  /\ thr' = [thr EXCEPT ![t].blocks = Append(@, thr[t].off), ![t].off = TRUE]
  /\ UNCHANGED <<world, objs, glob, reg, failed, ops>>

\* Slip: leaving a block switches verification on again.
LeaveOn(t) ==
  /\ Free(t) /\ thr[t].blocks # <<>>
  /\ thr' = [thr EXCEPT ![t].blocks = Front(@), ![t].off = FALSE]
  /\ UNCHANGED <<world, objs, glob, reg, failed, ops>>

LeaveNoVerification(t) ==
  /\ Free(t) /\ thr[t].blocks # <<>>
  /\ thr' = [thr EXCEPT ![t].blocks = Front(@), ![t].off = Last(thr[t].blocks)]
  /\ UNCHANGED <<world, objs, glob, reg, failed, ops>>

\* @verify or @jit on a definition: whether it will be verified is settled
\* here, also for the compilations that come later.  `meant` is what the
\* program says: verify, and no block of this thread around the definition.
Decorate(t, f, v, flag) ==
  /\ Free(t) /\ ops < world.budget
  /\ ops' = ops + 1
  /\ objs' = Append(objs,
       [fn |-> f, ver |-> v, verify |-> flag /\ ~ thr[t].off,
        meant |-> flag /\ thr[t].blocks = <<>>,
        cache |-> [i \in Labels |-> Absent]])
  /\ LET o == Len(objs')
     IN  IF Lazy(f)
         THEN /\ glob' = [glob EXCEPT ![f] = o]
              /\ thr' = [thr EXCEPT ![t].out = [how |-> "defined"]]
         ELSE /\ thr' = [thr EXCEPT ![t].frames = <<Frame(o, f, v, Base, "define")>>,
                                    ![t].out = [how |-> "none"]]
              /\ UNCHANGED glob
  /\ UNCHANGED <<world, reg, failed>>

\* __call__ up to the test whether the key is in the cache.
Call(t, f, a, good) ==
  /\ Free(t) /\ ops < world.budget /\ glob[f] # Absent
  /\ ops' = ops + 1
  /\ LET o == glob[f]
         i == KeyOf(f, a)
     IN  IF i = Absent
         THEN thr' = [thr EXCEPT ![t].out = [how |-> "no overload"]]
         ELSE thr' = [thr EXCEPT
                ![t].goal = [obj |-> o, inst |-> i, arg |-> a, good |-> good],
                ![t].out = [how |-> "none"],
                ![t].frames = IF objs[o].cache[i] = Absent
                              THEN <<Frame(o, f, objs[o].ver, i, "call")>> ELSE <<>>]
  /\ UNCHANGED <<world, objs, glob, reg, failed>>

\* A generic callee of the frame: the object its name meant when the rewriting
\* began.  Other callees keep their plain name.
Nested(fr, d) ==
  /\ Generic(objs[fr.obj].fn) /\ Generic(d) /\ fr.scope[d] # Absent
LinkName(fr, d) ==
  [fn |-> d, label |-> IF Nested(fr, d) THEN NameOf(d, fr.inst).label ELSE Base]

\* Slip: a callee some code is registered for is not specialized.
MissingCode(fr, d) == Nested(fr, d) /\ reg[LinkName(fr, d)] = Absent

\* A callee that has nothing, not even a None, under the key.
Missing(fr, d) == Nested(fr, d) /\ objs[fr.scope[d]].cache[fr.inst] = Absent

\* Slip: a callee that is being built is waited for.
ExpandWaiting(t) ==
  /\ thr[t].frames # <<>> /\ Top(t).todo # <<>> /\ ~ Top(t).missing
  /\ LET fr == Top(t)
         d  == Head(fr.todo)
     IN  /\ Nested(fr, d) => objs[fr.scope[d]].cache[fr.inst] # Placeholder
         /\ SetTop(t, IF Missing(fr, d) THEN [fr EXCEPT !.missing = TRUE]
                                        ELSE [fr EXCEPT !.todo = Tail(@)])
  /\ UNCHANGED <<world, objs, glob, reg, failed, ops>>

\* EllipsisExpander.visit_Call: the callee is renamed, and its key looked up.
Expand(t) ==
  /\ thr[t].frames # <<>> /\ Top(t).todo # <<>> /\ ~ Top(t).missing
  /\ LET fr == Top(t)
     IN  SetTop(t, IF Missing(fr, Head(fr.todo)) THEN [fr EXCEPT !.missing = TRUE]
                                                 ELSE [fr EXCEPT !.todo = Tail(@)])
  /\ UNCHANGED <<world, objs, glob, reg, failed, ops>>

\* Slip: nothing marks the key.
Unmarked(o, i) == objs

\* The None of a build that has begun.
Marked(o, i) == [objs EXCEPT ![o].cache[i] = Placeholder]

\* A missing callee is marked, against recursion, and specialized first.
Specialize(t) ==
  /\ thr[t].frames # <<>> /\ Top(t).missing
  /\ LET fr == Top(t)
         d  == Head(fr.todo)
         o  == fr.scope[d]
     IN  /\ objs' = Marked(o, fr.inst)
         /\ thr' = [thr EXCEPT ![t].frames =
                      Append(Append(Front(@), [fr EXCEPT !.missing = FALSE]),
                             Frame(o, d, objs[o].ver, fr.inst, "nested"))]
  /\ UNCHANGED <<world, glob, reg, failed, ops>>

Id(t) == [fn |-> Obj(t).fn, inst |-> Top(t).inst, ver |-> Obj(t).ver]
Refused(t) == Obj(t).verify /\ <<Obj(t).fn, Obj(t).ver>> \in world.refused
Linkable(t) ==
  \A d \in CalleesOf(Top(t).obj) :
    LinkName(Top(t), d) = NameOf(Obj(t).fn, Top(t).inst) \/ reg[LinkName(Top(t), d)] # Absent

\* An exception leaves every build of the thread and reaches the caller.
Raise(t, how) ==
  /\ thr' = [thr EXCEPT ![t].frames = <<>>, ![t].goal = Absent, ![t].out = [how |-> how]]
  /\ failed' = TRUE
  /\ UNCHANGED <<world, objs, glob, reg, ops>>

\* The builds that can go on to the bridge.
Ready(t) == thr[t].frames # <<>> /\ Top(t).todo = <<>> /\ Top(t).made = Absent

\* verify_and_compile succeeds: each callee is the code registered now.
Compile(t) ==
  /\ Ready(t) /\ ~ Refused(t) /\ Linkable(t)
  /\ LET fr == Top(t)
         name == NameOf(Obj(t).fn, fr.inst)
         code == [id |-> Id(t), verified |-> Obj(t).verify,
                  links |-> [d \in Fn |->
                    IF d \notin CalleesOf(fr.obj) THEN Absent
                    ELSE IF LinkName(fr, d) = name THEN Id(t)
                    ELSE reg[LinkName(fr, d)]]]
     IN  /\ reg' = [reg EXCEPT ![name] = Id(t)]
         /\ SetTop(t, [fr EXCEPT !.made = code])
  /\ UNCHANGED <<world, objs, glob, failed, ops>>

\* The verifier refuses: VerificationError, or the Python function is kept.
Refuse(t) ==
  /\ Ready(t) /\ Refused(t)
  /\ IF world.strict THEN Raise(t, "refused")
     ELSE /\ SetTop(t, [Top(t) EXCEPT !.made = Python])
          /\ failed' = TRUE
          /\ UNCHANGED <<world, objs, glob, reg, ops>>

\* A callee is not registered: the back end panics, and no handler of the
\* decorators catches what Python sees of a panic.
Panic(t) == Ready(t) /\ ~ Refused(t) /\ ~ Linkable(t) /\ Raise(t, "panic")

\* The build around the innermost one, which goes on to its next call.
Resumed(t) ==
  LET outer == Front(thr[t].frames)
  IN  [outer EXCEPT ![Len(outer)].todo = Tail(@)]

\* Slip: only a call stores what it built.
StoredByCall(fr) ==
  IF fr.role = "nested" THEN objs ELSE [objs EXCEPT ![fr.obj].cache[fr.inst] = fr.made]

\* The result goes into the cache.
Stored(fr) == [objs EXCEPT ![fr.obj].cache[fr.inst] = fr.made]

\* A build ends; the decorator of a plain function returns, and binds its name.
Finish(t) ==
  /\ thr[t].frames # <<>> /\ Top(t).made # Absent
  /\ LET fr == Top(t)
     IN  /\ objs' = Stored(fr)
         /\ glob' = IF fr.role = "define" THEN [glob EXCEPT ![Obj(t).fn] = fr.obj] ELSE glob
         /\ thr' = [thr EXCEPT ![t].frames = IF fr.role = "nested" THEN Resumed(t) ELSE <<>>]
  /\ UNCHANGED <<world, reg, failed, ops>>

\* Slip: only the wrapper is asked.
GuardedWrapper(f) == world.pre[f] = "above" /\ ~ Lazy(f)

\* @requires puts the condition on what it decorates: below @verify that is the
\* function, above it the wrapper of a plain function, or the object of a lazy
\* one.  A wrapper asks itself and the function.
Guarded(f) == world.pre[f] = "below" \/ (world.pre[f] = "above" /\ ~ Lazy(f))

\* __call__ reads the cache again and calls what is there.
Enter(t) ==
  /\ thr[t].frames = <<>> /\ thr[t].goal # Absent
  /\ LET g == thr[t].goal
         f == objs[g.obj].fn
         e == objs[g.obj].cache[g.inst]
         end == CASE e = Placeholder -> [how |-> "not callable"]
                  [] e = Python -> [how |-> "python"]
                  [] e \notin {Placeholder, Python} ->
                       IF Guarded(f) /\ ~ g.good THEN [how |-> "precondition"]
                       ELSE [how |-> "ran", goal |-> g, code |-> e]
     IN  thr' = [thr EXCEPT ![t].goal = Absent, ![t].out = end]
  /\ UNCHANGED <<world, objs, glob, reg, failed, ops>>

Step(t) ==
  \/ Expand(t)
  \/ Specialize(t)
  \/ Compile(t)
  \/ Refuse(t)
  \/ Panic(t)
  \/ Finish(t)
  \/ Enter(t)

Next ==
  \E t \in Thread :
    \/ NoVerification(t)
    \/ LeaveNoVerification(t)
    \/ \E f \in world.fns, v \in Versions, flag \in world.flags :
          v <= world.vers[f] /\ Decorate(t, f, v, flag)
    \/ \E f \in world.fns, a \in world.args, good \in BOOLEAN :
          (good \/ world.pre[f] # "none") /\ Call(t, f, a, good)
    \/ Step(t)

\* A thread that is in a decorator or in a call goes on: the interpreter gives
\* every thread its turn.
Spec == Init /\ [][Next]_vars /\ \A t \in Thread : WF_vars(Step(t))

----------------------------------------------------------------------------
Frames(t) == {thr[t].frames[j] : j \in DOMAIN thr[t].frames}
Ran(t) == thr[t].out.how = "ran"

Object == [fn : Fn, ver : Versions, verify : BOOLEAN, meant : BOOLEAN, cache : [Labels -> Entry]]
Build == [obj : Nat, inst : Labels, role : {"define", "call", "nested"},
          scope : [Fn -> Nat \cup {Absent}], todo : Seq(Fn), missing : BOOLEAN, made : Entry]
Goal == [obj : Nat, inst : Labels, arg : Labels, good : BOOLEAN]
Outcome ==
  [how : {"none", "defined", "no overload", "refused", "panic", "not callable",
          "python", "precondition"}]
    \cup [how : {"ran"}, goal : Goal, code : Entry]
ThreadState == [frames : Seq(Build), goal : Goal \cup {Absent}, off : BOOLEAN,
                blocks : Seq(BOOLEAN), out : Outcome]

\* What the variables hold, and no build stands on more frames than there are
\* objects to build for: recursion among generic functions ends (ast_transformers.py,
\* the None that visit_Call puts into the cache).
TypeOK ==
  /\ world \in Worlds /\ failed \in BOOLEAN /\ ops \in 0 .. world.budget
  /\ objs \in Seq(Object)
  /\ glob \in [Fn -> 1 .. Len(objs) \cup {Absent}]
  /\ reg \in [Names -> Identity \cup {Absent}]
  /\ thr \in [Thread -> ThreadState]
  /\ \A t \in Thread :
       /\ Len(thr[t].blocks) <= world.depth
       /\ \A fr \in Frames(t) : fr.obj \in DOMAIN objs
       /\ Len(thr[t].frames) <= Len(objs) + 1

\* A call runs code of its own function, of the version its object was made of,
\* compiled for the kind of its own arguments (the caches of
\* MonomorphizedFunction and OverloadedFunction, _match_overload).
RunsItsSpecialization ==
  \A t \in Thread : Ran(t) =>
    LET g == thr[t].out.goal
        id == thr[t].out.code.id
    IN  /\ id.fn = objs[g.obj].fn /\ id.ver = objs[g.obj].ver
        /\ Generic(id.fn) => id.inst = g.arg
        /\ world.kind[id.fn] = "overload" =>
             \E s \in Range(world.overloads[id.fn]) : s.key = id.inst /\ g.arg \in s.accepts

\* Code is verified exactly if its definition asked for it outside every
\* no_verification block of the thread that made it, however the blocks of the
\* threads nest and overlap, and whoever triggers the compilation, inside a
\* block or not (no_verification in diagnostics.py, verify in decorators.py).
VerifiedAsMeant ==
  \A j \in DOMAIN objs : \A i \in Labels :
    objs[j].cache[i] \in {Absent, Placeholder, Python} \/ objs[j].cache[i].verified = objs[j].meant

\* As long as no build has failed, the None in a cache, which a call cannot
\* call, is there only while some thread builds what will replace it
\* (visit_Call in ast_transformers.py).
PlaceholderHasBuilder ==
  ~ failed =>
    \A j \in DOMAIN objs : \A i \in Labels : objs[j].cache[i] = Placeholder =>
      \E t \in Thread : \E fr \in Frames(t) : fr.role = "nested" /\ fr.obj = j /\ fr.inst = i

\* Functions call themselves or functions below them, in whatever versions: two
\* functions never call each other, through others either.
Stacked(w, below) ==
  /\ \A f \in w.fns : <<f, f>> \notin below
  /\ \A f, g, h \in w.fns : <<f, g>> \in below /\ <<g, h>> \in below => <<f, h>> \in below
  /\ \A f \in w.fns : \A v \in Versions : \A d \in Range(w.calls[f][v]) :
       d = f \/ <<d, f>> \in below
Layered(w) == \E below \in SUBSET (w.fns \X w.fns) : Stacked(w, below)

\* One thread, no failed build, and specialized names that differ.
Sole == /\ \A p, q \in world.threads : p = q
        /\ ~ failed /\ IsInjective(world.label)

\* Then, if no two functions call each other, a generic function is linked to its
\* callees as they were defined when its compilation began, for its own key, also
\* after redefinitions (_specialize, visit_Call).
LinkedAsDefined ==
  Sole /\ Layered(world) =>
    \A t \in Thread : \A fr \in Frames(t) : fr.made \notin {Absent, Python} =>
      \A d \in CalleesOf(fr.obj) : Nested(fr, d) =>
        fr.made.links[d] = [fn |-> d, inst |-> fr.inst, ver |-> objs[fr.scope[d]].ver]

\* Compiled code, which was verified under the precondition of its function, is
\* not entered with arguments that violate it (_create_wrapper, requires).
EntryChecked ==
  \A t \in Thread : Ran(t) =>
    thr[t].out.goal.good \/ world.pre[objs[thr[t].out.goal.obj].fn] = "none"

\* Every call and every definition ends: with a result, a fallback or an
\* exception, recursive generic functions included.
CallsReturn ==
  \A t \in Thread : []<>(thr[t].frames = <<>> /\ thr[t].goal = Absent)

\* What decorators.py:326 says, a "stable, unique name for a specialized
\* version": callees are linked for the key of the caller, whatever the keys.
LinkedForKey ==
  \A t \in Thread : \A fr \in Frames(t) : fr.made \notin {Absent, Python} =>
    \A d \in CalleesOf(fr.obj) : Nested(fr, d) => fr.made.links[d].inst = fr.inst

\* No call fails with an uncallable None.
NeverUncallable == \A t \in Thread : thr[t].out.how # "not callable"

\* LinkedAsDefined also if functions call each other, and after a failed build.
LinkedInCycles ==
  Sole => \A t \in Thread : \A fr \in Frames(t) : fr.made \notin {Absent, Python} =>
    \A d \in CalleesOf(fr.obj) : Nested(fr, d) =>
      fr.made.links[d].ver = objs[fr.scope[d]].ver

LinkedAfterFailure ==
  (\A p, q \in world.threads : p = q) /\ IsInjective(world.label) /\ Layered(world) =>
    \A t \in Thread : \A fr \in Frames(t) : fr.made \notin {Absent, Python} =>
      \A d \in CalleesOf(fr.obj) : Nested(fr, d) =>
        fr.made.links[d].ver = objs[fr.scope[d]].ver
=============================================================================
