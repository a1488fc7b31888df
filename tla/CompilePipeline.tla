-------------------------- MODULE CompilePipeline --------------------------
(***************************************************************************)
(* verify_and_compile, the one entry point of the bridge, as the Python    *)
(* decorators call it again and again: functions are defined, redefined    *)
(* under the same name, compiled verified (@verify) or not (@jit), in      *)
(* several processes that share the disk cache.  Each process has a        *)
(* registry (name -> newest code), an L1 cache of finished compilations,   *)
(* native code that is never freed, and the analysis cache of the          *)
(* verifier.  The disk cache appears as IRCache describes it: whole        *)
(* entries that may vanish.                                                *)
(***************************************************************************)
EXTENDS Naturals, Sequences, FiniteSets, SequencesExt

CONSTANTS
  Proc,          \* processes
  Name,          \* function names
  Def,           \* sources: one function, with the functions nested in it
  Main,          \* Def -> Name: the function a source defines
  Parts,         \* Def -> its functions in the order they are compiled, Main last
  Flags,         \* values of `verify` that callers use
  Sig, NoSig,    \* signatures; NoSig: not registered, not recorded
  NoEntry,       \* no file, no L1 entry, no analysis
  ForwardCalls,  \* callers may compile a source before the functions it calls
  MaxCalls,      \* bound: calls in each process
  MaxCrashes     \* bound: processes killed in the middle of a call

\* A part: its name, the names it calls, whether it has loops or joins (phi
\* instructions), and its signature as compiled with and without verification:
\* only the verifier infers a return refinement.
Part == [name : Name, calls : SUBSET Name, phis : BOOLEAN, sig : [BOOLEAN -> Sig]]

ASSUME PartsAssumption ==
  /\ Main \in [Def -> Name] /\ Parts \in [Def -> Seq(Part)]
  /\ \A d \in Def : Parts[d] # <<>> /\ Parts[d][Len(Parts[d])].name = Main[d]
ASSUME FlagsAssumption == Flags \subseteq BOOLEAN /\ ForwardCalls \in BOOLEAN
ASSUME NoSigAssumption == NoSig \notin Sig
ASSUME BoundsAssumption == MaxCalls \in Nat /\ MaxCrashes \in Nat

\* compute_hash_full and the verify flag: what the caches are keyed by.
Key == Def \X Flags
Hash(d, flag) == <<d, flag>>

PartNames(d) == {Parts[d][i].name : i \in DOMAIN Parts[d]}
Callees(d)   == UNION {Parts[d][i].calls : i \in DOMAIN Parts[d]}

Deps == [Name -> Sig \cup {NoSig}]

\* An L1 entry: the pointers of the parts, and the dependencies.
L1Entry == [parts : Seq(Nat), deps : Deps]
ASSUME NoEntryAssumption == NoEntry \notin L1Entry

VARIABLES
  disk,      \* Key -> entry of the disk cache
  reg,       \* per process: Name -> pointer of the registered code, or 0
  code,      \* per process: native code, by pointer
  l1,        \* per process: Key -> L1Entry
  analysed,  \* per process: the function whose CFG the verifier has cached
  pc, cur,   \* per process: step and key of the call in progress
  ir,        \* per process: the IR of the call, see IR
  made,      \* per process: pointers of the parts compiled so far
  deps,      \* per process: what collect_dependencies returned
  answer,    \* per process: pointer the last call returned, 0 if it failed
  calls, crashes

callVars == <<cur, ir, made, deps>>
vars == <<disk, reg, code, l1, analysed, pc, callVars, answer, calls, crashes>>

\* IR of a key: the registered signatures it was built (and, with the flag,
\* verified) against, and the sources whose CFG the verifier looked at.
IR == [deps : Deps, cfgs : SUBSET Def]

\* The signature registered under a name: that of the code it points to.
SigOf(p, n) == IF reg[p][n] = 0 THEN NoSig ELSE code[p][reg[p][n]].sig

\* Slip: a function counts as its own dependency.
CollectSelf(p, d) ==
  [n \in Name |-> IF n \in Callees(d) \cup PartNames(d) THEN SigOf(p, n) ELSE NoSig]

\* collect_dependencies: the callees that are registered now.
Collect(p, d) ==
  [n \in Name |-> IF n \in Callees(d) THEN SigOf(p, n) ELSE NoSig]

\* Slip: a dependency is checked for presence only.
DepsPresent(p, ds) == \A n \in Name : ds[n] # NoSig => SigOf(p, n) # NoSig

\* The check of native_cache_lookup and of load_ir.
DepsHold(p, ds) == \A n \in Name : ds[n] # NoSig => SigOf(p, n) = ds[n]

Hit(p, k) == l1[p][k] # NoEntry /\ DepsHold(p, l1[p][k].deps)

\* The last of some pointers to code of a name.
LastNamed(p, ptrs, n) == ptrs[SelectLastInSeq(ptrs, LAMBDA q : code[p][q].name = n)]

\* Registry::register for each pointer of a sequence, in order.
Register(p, ptrs) ==
  [n \in Name |->
     IF \E i \in DOMAIN ptrs : code[p][ptrs[i]].name = n
     THEN LastNamed(p, ptrs, n)
     ELSE reg[p][n]]

Todo(p)    == Len(made[p]) + 1
Source(p)  == cur[p][1]
Current(p) == Parts[Source(p)][Todo(p)]

Goto(p, l) == pc' = [pc EXCEPT ![p] = l]

\* cache::invalidate and native_cache_invalidate.
Forget(p) == /\ disk' = [disk EXCEPT ![cur[p]] = NoEntry]
             /\ l1' = [l1 EXCEPT ![p][cur[p]] = NoEntry]

----------------------------------------------------------------------------
Blank == [deps |-> [n \in Name |-> NoSig], cfgs |-> {}]

Init ==
  /\ disk = [k \in Key |-> NoEntry]
  /\ reg = [p \in Proc |-> [n \in Name |-> 0]]
  /\ code = [p \in Proc |-> <<>>]
  /\ l1 = [p \in Proc |-> [k \in Key |-> NoEntry]]
  /\ analysed = [p \in Proc |-> NoEntry]
  /\ pc = [p \in Proc |-> "idle"]
  /\ cur \in [Proc -> Key]
  /\ ir = [p \in Proc |-> Blank]
  /\ made = [p \in Proc |-> <<>>]
  /\ deps = [p \in Proc |-> Blank.deps]
  /\ answer = [p \in Proc |-> 0]
  /\ calls = [p \in Proc |-> 0]
  /\ crashes = 0

\* A call starts.  On an L1 hit the entries are registered again and the main
\* pointer is returned.
Call(p, d, flag) ==
  /\ pc[p] = "idle" /\ calls[p] < MaxCalls
  /\ ForwardCalls \/ \A n \in Callees(d) \ PartNames(d) : reg[p][n] # 0
  /\ calls' = [calls EXCEPT ![p] = @ + 1]
  /\ LET k == Hash(d, flag) IN
       /\ cur' = [cur EXCEPT ![p] = k]
       /\ IF Hit(p, k)
          THEN /\ reg' = [reg EXCEPT ![p] = Register(p, l1[p][k].parts)]
               /\ answer' = [answer EXCEPT ![p] = reg'[p][Main[d]]]
               /\ UNCHANGED pc
          ELSE /\ answer' = [answer EXCEPT ![p] = 0]
               /\ Goto(p, "load")
               /\ UNCHANGED reg
  /\ UNCHANGED <<disk, code, l1, analysed, ir, made, deps, crashes>>

\* load_ir: an entry whose dependencies no longer hold is removed.
LoadIR(p) ==
  /\ pc[p] = "load"
  /\ LET e == disk[cur[p]] IN
       IF e # NoEntry /\ DepsHold(p, e.deps)
       THEN /\ ir' = [ir EXCEPT ![p] = e]
            /\ deps' = [deps EXCEPT ![p] = Collect(p, Source(p))]
            /\ Goto(p, "compile")
            /\ UNCHANGED disk
       ELSE /\ disk' = [disk EXCEPT ![cur[p]] = NoEntry]
            /\ Goto(p, "transform")
            /\ UNCHANGED <<ir, deps>>
  /\ UNCHANGED <<reg, code, l1, analysed, cur, made, answer, calls, crashes>>

\* Parsing and SSA construction succeed.  An unknown callee is no error here.
Transform(p) ==
  /\ pc[p] = "transform"
  /\ ir' = [ir EXCEPT ![p] = [deps |-> Collect(p, Source(p)), cfgs |-> {}]]
  /\ Goto(p, IF cur[p][2] THEN "verify" ELSE "save")
  /\ UNCHANGED <<disk, reg, code, l1, analysed, cur, made, deps, answer, calls, crashes>>

\* The body fails to parse: PySyntaxError, the caches are left alone.
ParseError(p) ==
  /\ pc[p] = "transform"
  /\ Goto(p, "idle")
  /\ UNCHANGED <<disk, reg, code, l1, analysed, callVars, answer, calls, crashes>>

\* The SSA builder fails.
TransformError(p) ==
  /\ pc[p] = "transform"
  /\ Forget(p) /\ Goto(p, "idle")
  /\ UNCHANGED <<reg, code, analysed, callVars, answer, calls, crashes>>

\* What the verifier's thread-local caches hold after it has looked at the
\* first i parts of source d: they are refilled when a part with loops or joins
\* has another name than the function they are about.
Analyse(last, d, i) ==
  LET looked == {j \in 1 .. i : Parts[d][j].phis}
      same   == last # NoEntry /\ \A j \in looked : Parts[d][j].name = last.name
  IN  IF looked = {} \/ same THEN last
      ELSE [name |-> Parts[d][Max(looked)].name, def |-> d]

\* lirien_verify::verify on every function of the group: the obligations hold.
VerifyOk(p) ==
  /\ pc[p] = "verify"
  /\ LET d == Source(p)
         seen(i) == Analyse(analysed[p], d, i)
     IN  /\ analysed' = [analysed EXCEPT ![p] = seen(Len(Parts[d]))]
         /\ ir' = [ir EXCEPT ![p].cfgs =
                     {seen(i).def : i \in {j \in DOMAIN Parts[d] : Parts[d][j].phis}}]
  /\ Goto(p, "save")
  /\ UNCHANGED <<disk, reg, code, l1, cur, made, deps, answer, calls, crashes>>

\* A function of the group is refuted or the solver gives up.
VerifyError(p) ==
  /\ pc[p] = "verify"
  /\ \E i \in DOMAIN Parts[Source(p)] :
       analysed' = [analysed EXCEPT ![p] = Analyse(@, Source(p), i)]
  /\ Forget(p) /\ Goto(p, "idle")
  /\ UNCHANGED <<reg, code, callVars, answer, calls, crashes>>

\* Slip: the dependencies of the previous call are kept for L1.
SaveIRStale(p) ==
  /\ pc[p] = "save"
  /\ disk' \in {disk, [disk EXCEPT ![cur[p]] = ir[p]]}
  /\ Goto(p, "compile")
  /\ UNCHANGED <<reg, code, l1, analysed, cur, ir, made, deps, answer, calls, crashes>>

\* save_ir (which may fail, silently), then collect_dependencies.
SaveIR(p) ==
  /\ pc[p] = "save"
  /\ disk' \in {disk, [disk EXCEPT ![cur[p]] = ir[p]]}
  /\ deps' = [deps EXCEPT ![p] = Collect(p, Source(p))]
  /\ Goto(p, "compile")
  /\ UNCHANGED <<reg, code, l1, analysed, cur, ir, made, answer, calls, crashes>>

\* Every call of the part has a symbol to be linked to.
Linkable(p, x) == \A n \in x.calls \ {x.name} : reg[p][n] # 0

\* lirien_backend::compile links the callees to the code that is registered
\* now (itself for a recursive call), and the part is registered.
CompilePart(p) ==
  /\ pc[p] = "compile" /\ Linkable(p, Current(p))
  /\ LET x   == Current(p)
         ptr == Len(code[p]) + 1
     IN /\ code' = [code EXCEPT ![p] = Append(@,
                 [name |-> x.name, def |-> Source(p), flag |-> cur[p][2],
                  sig  |-> x.sig[cur[p][2]], calls |-> x.calls, ir |-> ir[p],
                  link |-> [n \in Name |-> IF n = x.name THEN ptr
                              ELSE IF n \in x.calls THEN reg[p][n] ELSE 0]])]
        /\ reg' = [reg EXCEPT ![p][x.name] = ptr]
        /\ made' = [made EXCEPT ![p] = Append(@, ptr)]
  /\ Goto(p, IF Todo(p) = Len(Parts[Source(p)]) THEN "store" ELSE "compile")
  /\ UNCHANGED <<disk, l1, analysed, cur, ir, deps, answer, calls, crashes>>

\* A call ends without an answer; the parts already compiled stay registered.
Fail(p) == /\ made' = [made EXCEPT ![p] = <<>>]
           /\ Goto(p, "idle")
           /\ UNCHANGED <<reg, code, analysed, cur, ir, deps, answer, calls, crashes>>

\* The back end reports an error.
CompileError(p) == pc[p] = "compile" /\ Forget(p) /\ Fail(p)

\* Cranelift finds no symbol for a callee: it panics, past every handler of
\* the bridge, and Python sees an exception.
LinkPanic(p) ==
  /\ pc[p] = "compile" /\ ~ Linkable(p, Current(p))
  /\ Fail(p)
  /\ UNCHANGED <<disk, l1>>

\* Slip: the pointers are counted before the last part is there.
StoreAhead(p) ==
  /\ pc[p] = "store"
  /\ l1' = [l1 EXCEPT ![p][cur[p]] =
              [parts |-> [i \in DOMAIN made[p] |-> made[p][i] + 1], deps |-> deps[p]]]
  /\ answer' = [answer EXCEPT ![p] = Len(code[p])]
  /\ made' = [made EXCEPT ![p] = <<>>]
  /\ Goto(p, "idle")
  /\ UNCHANGED <<disk, reg, code, analysed, cur, ir, deps, calls, crashes>>

\* native_cache_store, and the pointer of the main function is returned.
Store(p) ==
  /\ pc[p] = "store"
  /\ l1' = [l1 EXCEPT ![p][cur[p]] = [parts |-> made[p], deps |-> deps[p]]]
  /\ answer' = [answer EXCEPT ![p] = LastNamed(p, made[p], Main[Source(p)])]
  /\ made' = [made EXCEPT ![p] = <<>>]
  /\ Goto(p, "idle")
  /\ UNCHANGED <<disk, reg, code, analysed, cur, ir, deps, calls, crashes>>

\* The process is killed; another one takes its place.
Crash(p) ==
  /\ pc[p] # "idle" /\ crashes < MaxCrashes
  /\ crashes' = crashes + 1
  /\ reg' = [reg EXCEPT ![p] = [n \in Name |-> 0]]
  /\ code' = [code EXCEPT ![p] = <<>>]
  /\ l1' = [l1 EXCEPT ![p] = [k \in Key |-> NoEntry]]
  /\ analysed' = [analysed EXCEPT ![p] = NoEntry]
  /\ made' = [made EXCEPT ![p] = <<>>]
  /\ answer' = [answer EXCEPT ![p] = 0]
  /\ Goto(p, "idle")
  /\ UNCHANGED <<disk, cur, ir, deps, calls>>

\* evict_lru, or another process that discards the file.
Vanish(k) ==
  /\ disk[k] # NoEntry
  /\ disk' = [disk EXCEPT ![k] = NoEntry]
  /\ UNCHANGED <<reg, code, l1, analysed, pc, callVars, answer, calls, crashes>>

Build(p) == Transform(p) \/ ParseError(p) \/ TransformError(p)
              \/ VerifyOk(p) \/ VerifyError(p)
Compile(p) == CompilePart(p) \/ CompileError(p) \/ LinkPanic(p)

Step(p) == LoadIR(p) \/ Build(p) \/ SaveIR(p) \/ Compile(p) \/ Store(p)

Terminated == /\ \A p \in Proc : pc[p] = "idle" /\ calls[p] = MaxCalls
              /\ UNCHANGED vars

Next ==
  \/ \E p \in Proc :
       \/ \E d \in Def, flag \in Flags : Call(p, d, flag)
       \/ Step(p)
       \/ Crash(p)
  \/ \E k \in Key : Vanish(k)
  \/ Terminated

Spec == Init /\ [][Next]_vars

----------------------------------------------------------------------------
Labels == {"idle", "load", "transform", "verify", "save", "compile", "store"}

Code == [name : Name, def : Def, flag : BOOLEAN, sig : Sig, calls : SUBSET Name,
         ir : IR, link : [Name -> Nat]]

\* The registry, the L1 entries, the parts of the call in progress, the answer
\* and the links of the code itself point into the code of their process.
PointersOK(p) ==
  LET ptrs == 1 .. Len(code[p]) IN
    /\ \A n \in Name : reg[p][n] \in ptrs \cup {0}
    /\ \A k \in Key : l1[p][k] # NoEntry => l1[p][k].parts \in Seq(ptrs)
    /\ made[p] \in Seq(ptrs)
    /\ answer[p] \in ptrs \cup {0}
    /\ \A i \in ptrs : code[p][i].link \in [Name -> ptrs \cup {0}]

\* Every variable keeps its type, and no table names code that does not exist.
TypeOK ==
  /\ disk \in [Key -> IR \cup {NoEntry}]
  /\ code \in [Proc -> Seq(Code)]
  /\ reg \in [Proc -> [Name -> Nat]] /\ answer \in [Proc -> Nat] /\ made \in [Proc -> Seq(Nat)]
  /\ l1 \in [Proc -> [Key -> L1Entry \cup {NoEntry}]]
  /\ \A p \in Proc : PointersOK(p)
  /\ analysed \in [Proc -> [name : Name, def : Def] \cup {NoEntry}]
  /\ pc \in [Proc -> Labels]
  /\ cur \in [Proc -> Key]
  /\ ir \in [Proc -> IR]
  /\ deps \in [Proc -> Deps]
  /\ calls \in [Proc -> 0 .. MaxCalls]
  /\ crashes \in 0 .. MaxCrashes

\* The caller c was verified with the signature of the code it is linked to.
\* A lambda of the same source carries no contract, so nothing is asked of it.
LinkOK(p, c, n) ==
  /\ c.link[n] \in 1 .. Len(code[p])
  /\ n \notin PartNames(c.def) => c.ir.deps[n] = code[p][c.link[n]].sig

\* The point of verifying modularly: code compiled with verify=true only ever
\* calls code whose contract is the one the proof of the caller used, through
\* every redefinition, failed compilation, cache hit and restart.
LinkedAsVerified ==
  \A p \in Proc : \A i \in 1 .. Len(code[p]) :
    LET c == code[p][i] IN
      c.flag => \A n \in c.calls \ {c.name} : LinkOK(p, c, n)

\* A successful call returns the code that is now registered under the name,
\* compiled from the source and with the flag that were asked for, and linked
\* to code with the signatures that are registered now - also when it comes
\* from L1, compiled long before.
AnswerIsCurrent ==
  \A p \in Proc : pc[p] = "idle" /\ answer[p] # 0 =>
    LET c == code[p][answer[p]] IN
      /\ reg[p][Main[Source(p)]] = answer[p]
      /\ <<c.def, c.flag>> = cur[p]
      /\ \A n \in c.calls \ {c.name} : code[p][c.link[n]].sig = SigOf(p, n)

\* The caches exist "to avoid re-verifying and re-compiling functions that
\* haven't changed": the call that was just answered, made again at once, is
\* answered from L1.
RepeatHits ==
  \A p \in Proc : pc[p] = "idle" /\ answer[p] # 0 => Hit(p, cur[p])

\* What is compiled with verify=true was verified on its own control-flow
\* graph, not on that of an earlier function of the same name.
VerifiedOnOwnCfg ==
  \A p \in Proc : \A i \in 1 .. Len(code[p]) :
    code[p][i].flag => code[p][i].ir.cfgs \subseteq {code[p][i].def}
=============================================================================
