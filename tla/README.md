# Lirien in TLA+

Lirien compiles annotated Python functions to native code. A decorator hands
the source to a Rust library, which builds SSA, proves the contracts of the
function with Z3, compiles it with Cranelift, and keeps the result in two
caches. This directory models the parts of it whose behaviour depends on the
order of events, checks them with TLC on small instances, and proves the most
important properties with TLAPS for all instances.

Paths are relative to `src/`.

## The system

| Part | State | Operations | What makes it correct |
|---|---|---|---|
| Disk cache, `crates/lirien-bridge/src/cache.rs` | one file per hash in a directory that processes share, advisory locks | `load_ir`, `save_ir`, `invalidate`, `evict_lru` | what is loaded was verified, for the same key and the present signatures of the callees; the cache fits its budget; no call blocks for ever |
| Bridge, `bridge/mod.rs` | in-process (L1) cache, hash -> native code | `verify_and_compile` | the answer is the code of the source asked for, and it is registered; verified code calls code with the contract it was verified against; a repeated call hits |
| Registry, `crates/lirien-ir/src/registry.rs` | name -> newest signature and pointer | `register`, `get` | names existing code |
| SSA builder, `crates/lirien-ir/src/builder` | current definitions, incomplete phis, sealed blocks | `write_variable`, `read_variable`, `seal_block` | a read yields the value that was written last on every path |
| AST visitor, `builder/visitor` | the block in construction, loop and handler stacks | one method per statement and expression | the graph has the paths of the source, `break`, `continue`, `try` included |
| IR analyses, `crates/lirien-ir/src/analysis` | work lists | liveness, intervals | a fixed point that covers every execution |
| Optimizer, `crates/lirien-ir/src/optimization` | the function | folding, dead code, type propagation, fusion, unrolling | meaning is preserved |
| Verifier, `crates/lirien-verify/src/verifier` | assumptions, deferred obligations, thread-local caches of the graph | `verify`, one translation per kind of instruction | an execution that breaks a contract is never accepted |
| Refinements, `crates/lirien-verify/src/refinement` | none | parse, resolve | the formula means what the text says |
| SMT back end, `z3_backend.rs` | solver context | one wrapper per Z3 call | - |
| Code generator, `crates/lirien-backend` | one JIT module per function | `compile`, one lowering per instruction, runtime helpers | callees are linked to the registered code; lists, strings and tensors keep their layout |
| Logging, `crates/lirien-core` | trace levels | push, pop | nested levels are restored |
| Python front end, `python/lirien` | overload tables, specializations, layouts | decorators, argument conversion, type classes | the specialization that is called fits the arguments; owned memory is freed once |

The interaction is by calls: Python -> bridge -> (caches, SSA builder,
verifier, code generator) -> registry. The registry is the only state the
parts of one process share, and the cache directory the only state processes
share. A process holds the GIL during `verify_and_compile`, so calls of one
process do not interleave; calls of different processes do, at every system
call on the cache. Between those calls Python threads interleave in the
decorators, which hold no lock.

The hard behaviours: processes that read, write, remove and evict the same
file; a process killed in the middle of a write; a full disk; functions
redefined under the same name while code, cache entries and analyses of the
older version live on; callers compiled before their callees; a group of
functions that fails half-way. And, without any concurrency: a graph that is
read while it is still being built; formulas that speak of one visit of a block
that runs many times; facts that are assumed before they are shown; ranges that
outlive what they were derived from; two or three computations of the same
offset, length or word that must agree.

## Modules

| Module | Models | Used by |
|---|---|---|
| `DiskCache` | `cache.rs` at the level of system calls, several processes | `MCDiskCache`, `DiskCache_proofs` |
| `IRCache` | what the bridge may rely on from the disk cache | refined by `DiskCache` |
| `CompilePipeline` | `verify_and_compile`, registry, L1 cache, links between native code, the verifier's graph cache; the disk cache as whole entries that may vanish | `MCCompilePipeline` |
| `SsaBuilder` | `CFGBuilder`: blocks, edges, `read_variable`, `write_variable`, `seal_block`, phis | `StatementVisitor` |
| `StatementVisitor` | the visitors of statements, which build a function with it, and the execution of what they built | |
| `IrFunctions` | functions in SSA form as data: instructions, blocks, predecessors, contracts, what an instruction computes | `Intervals`, `Optimizer` |
| `Intervals` | the interval analysis, pass by pass, and the return refinement inferred from it | `VcFlow`, `Midend` |
| `Optimizer` | constant folding and dead code elimination | `Midend` |
| `Midend` | optimize, analyze, optimize again, and run before and after side by side | `MCMidend` |
| `VcFlow` | `verify_with_context` on a function with control flow, and the run of what it verified | `MCVcFlow`, `VcFlow_proofs` |
| `BitVectors` | words of `W` bits: the solver's terms and the machine's instructions | `IrFunctions`, `Scalars` |
| `Scalars` | a straight run, seen by the machine and by the solver at once; instructions on numbers | `Memory` |
| `Memory` | instructions on arrays, buffers, lists, strings, pointers | `Lowering` |
| `Lowering` | a function of one block: any parameters, any instructions | `MCLowering` |
| `Layout` | where the fields of structs, tuples, optionals and enums lie | `MCLayout` |
| `Dispatch` | the Python decorators: objects with caches, specialization, overloads, `no_verification`, preconditions, in several threads | `MCDispatch` |
| `MC...` | values of the constants for TLC: programs, functions, types | |
| `DiskCache_proofs`, `CompilePipeline_proofs`, `Dispatch_proofs`, `VcFlow_proofs`, `Lowering_proofs` | the theorems, see "Proofs" | |
| `NumberFacts` | lemmas on least and greatest numbers and on finite sums | the proofs |

### DiskCache

`path` is the directory, `data` the contents of an inode, `order` the linked
inodes by modification time. Each process has a program counter and the
locals of `load_ir` and `save_ir` (`fd`, `off`, `buf`), of `evict_lru`
(`victims`, `over`), the signature its registry has for the one callee
(`reg`), and the IR its call goes on with (`loaded`).

A payload is a sequence of chunks, `<<payload, position>>`. One `write(2)` puts
all that is left, or with `ShortWrites` a part of it, or fails; one `read(2)`
takes one chunk. A file may be truncated while another process has it open, so
a later write leaves a hole of zeros in front of it. `Decode` says what bincode
makes of the bytes: trailing bytes are ignored, zeros are an entry without
functions, a file that ends too early is an error, and a mixture of two
payloads may be an error or garbage. `Readers` and `Writers` are the locks:
they go with the inode and with the open file, so that a kill releases them.
`LoadFail` and `SaveLockError` are system calls that fail or are interrupted.

The directory and the list of `evict_lru` are tables by key (`Lengths`), and `Bytes` is
their sum (`SumFunction` of the community modules).

What a payload records is one dependency. Verification, parsing and code
generation appear by their outcomes (`BuildOk`, `BuildError`, `CompileError`,
...), because they do not touch the files.

`EvictScan` lists the directory and reads sizes and times in one step. A file
that appears after the listing belongs to a save whose own eviction is still
to come, so the atomic scan loses no case of `WithinBudget`.

### CompilePipeline

A source (`Def`) is a group of functions, its lambdas first and the main
function last, as `transform` returns them. `code` holds every function a
process has ever compiled, with the IR it came from and the code its calls are
linked to (`link`); native code is never freed. `reg` names the newest code.
`deps` in the IR are the callee signatures it was built and verified against,
`cfgs` the sources whose control-flow graph the verifier looked at.
`analysed` is the function name and source whose graph the thread-local caches
of `control_flow.rs` hold; only functions with phi instructions ask for it.

`ForwardCalls` says whether callers may compile a function before the
functions it calls. A callee without code makes Cranelift panic (`LinkPanic`):
no handler of the bridge runs, so the caches keep their entries.

### SsaBuilder and StatementVisitor

A builder is a record with the fields of `CFGBuilder` that control flow and
variables need. `ReadVariable`, `ReadVariableRecursive` and `AddPhiOperands`
are the three mutually recursive methods; each returns the builder it leaves.
A phi is named by its variable and block, so the order in which a `HashMap`
yields phis or predecessors does not show, and `err` stands for the
`UnboundVariable` error that `?` passes up. `Perform` makes a sequence of builder
calls, so that a visitor reads as the calls it makes, in the order it makes them.

In `StatementVisitor` the source program is not given: every action is what a
visitor does between two recursive calls of `visit_block`, and any visitor may
be next, so TLC builds every function of a `grammar`: the kinds of statements
and conditions it may have, and how many statements. `open` is the stack of
visitors that are active. All variables are arguments, as
`visit_function_def` writes them to the entry block. A condition is "plain",
or contains a call (`check_and_propagate_exception` ends the block), or is a
two-operand `and`/`or`.

After `FinishFunction` the function runs: `walk` follows the terminators, and a
phi takes the operand its map has for the block control came from, as
`lower/control_flow.rs` passes it. `walk.current` is the set of values whose
content equals what their variable holds; a write makes its value the only
current one of the variable, a phi is current if its operand was. This is
exact, because contents are only compared with the last write, and keeps loops
finite. `ReadsLastWrite` says that a value the builder chose for a name is
current when it is used.

Left out: `match`, comprehensions, `parallel_for`, nested functions; loops over
constant ranges, which are unrolled into their bodies, and over buffers; types
and narrowing. The functions have no statement directly after a `return`,
`raise`, `break` or `continue`: `visit_block` goes on emitting there.

Operators whose comment starts with "Slip" are plausible mistakes of the code;
the properties are checked to notice them. In the modules below they are named
after what they get wrong (`NeverZero`, `SideStrict`, ...).

### VcFlow

A function (`func`) is given as the builder and the optimizer leave it: blocks
of instructions, phis, terminators, and a contract of refined parameters,
preconditions, a return refinement, postconditions and loop invariants.
`WellFormed` says what the builder leaves: control stays in the blocks and enters
loops through their headers, every value is defined once and before its uses, in
the order of the translation too, a phi has an operand for each predecessor, a call
ends its block with the check of the exception word, and a contract mentions values
that are there. TLC evaluates it for every function.
`phase` follows `verify_with_context`: the interval analysis, the translation,
the safety checks, the returns, the calls, the consistency check.

Z3 is not modelled. `Models(f)` is the set of all assignments that satisfy
every formula the verifier asserts: which blocks are on the path (`on`), and a
word for each SSA value (`env`). A check is satisfiable if one of them violates
it. The formulas are those of the code, with their gaps: an instruction is
guarded by the path condition of its block, a range is not; the phis of a loop
header take their values from the entries (`Sources`); the term of a load of
the exception word is that of the last store before it in the order of the
translation (`ExcTerm`); the arguments are put into a callee's precondition
one after the other (`SubstituteArgs`).

A verified function then runs on every input its contract allows, and a refused
one on its counterexample if that determines the run (no loop, no exception).
`outcome` is the first promise the run broke: `Checked` are those the verifier
checks, `Assumed` those it takes for granted. The machine divides, calls, raises
and returns as `lower/control_flow.rs` and `lower/arithmetic.rs` have it, and
goes on after a broken contract, because nothing stops it.

What `verified` promises only covers runs that some assignment stands for, and
the model says which these are: `blind` is set when a run enters a loop header
from its back edge, fails an assertion, enters a loop without its invariant, or
meets an exception word that differs from the one its term was given;
`Represented` asks that the values of the run are within the ranges derived for
them, as words (what is asserted) and as numbers (which decide whether a division
is checked at all), and that each value the run did not make, in another block or
by a call that raised, could be given some word.
`CoveredRunsAreSafe` is the promise with these conditions, and holds;
`VerifiedIsSafe` is the promise as the documents make it, and does not.

Left out: `match`, tensor shapes, `parallel_for`, the formulas about buffer
lengths and equal phis, refinements of text, and the postconditions of callees. The
callee of a model has parameters, preconditions and a return refinement; what
`CoveredRunsAreSafe` and `CounterexampleIsReal` say of functions with calls, and the
theorems about them, is said of such callees. The formulas for the postconditions of
a callee (`calls.rs:69-99`) would change no set of assignments unless they contradict
one another, because for integers they are parsed without a resolver and so speak of
free constants `vN`, not of the terms of the call (see below). A result that
overflows is outside its range, so `Represented` excludes the run.

### Intervals, Optimizer, Midend

`Pass` is one pass of `run_interval_analysis` over the blocks: the transfer of
each instruction, the phi, and the narrowing of both operands behind a
comparison, with the inheritance of narrowed ranges across jumps as the code has
it. `Midend` (and `VcFlow`) take one pass per step until nothing changes or the
limit of fifty is reached; from the eleventh on bounds that move are widened. A
bound of the code is a double; the words here are far below 53 bits, so bounds
are exact integers and `Inf` stands for `PosInf`.

`Optimizer` folds constants in 64 bits, block by block with one table for the
whole function, and removes what `Live` does not reach. `Midend` optimizes the
function of the builder, analyzes it, optimizes it once more as
`bridge/mod.rs:150` does behind the verifier, and runs the first and the last
beside each other, a block at a time, on every input of seven bits.

Left out: type propagation and tensor fusion, which do not touch scalars;
folding of floats; unrolling, which looks for a loop in the shape of one block
and finds none the builder makes.

### Scalars, Memory, Lowering

A block of straight code is seen by two readers at once. A register holds what
the machine computed (`m`) and what the solver's term is (`s`). The run itself
is the assignment, so no search is needed: `held` says that every formula
asserted so far is true of the run, `flagged` that the run violates a safety
check, `fault` what the machine did wrong. A run that violates a check makes the
function refused if `held`; a run that faults unflagged is a false verdict.

There is one action per instruction family: integers, booleans, floats (counted
in halves), casts, bit operations; loads and stores of arrays, slices, buffers,
lists, strings, pointers and their null and bounds checks. Instructions are
chosen freely over all values in scope. An operator of the source is asserted
twice, as a bit-vector equation and as text over unbounded integers, and both
count.

`Excluded` names the inputs on which the two readers are known to differ, and
where; the run leaves exactly these out, and each is described below or in
"Disagreements". Derived ranges are left out here, `VcFlow` has them.

### Layout

An object of a type is built, passed in, stored to, read, and moved to another
place. `Size`, `Align` and every offset are computed as the five places of the
code that compute one do it: `Type::size`, the stores that build the object, the
builder's loads, the verifier's terms, and the ctypes classes. `mem` is the bytes,
`now` what the program stored last in each field, `maker` whether the program or
Python made it. Two fields that share a byte, or two offsets for one field, show as a
read of something else.

The five do not agree on enums. `EnumCreate` aligns a payload as its own type asks,
`EnumExtract` as the most aligned variant asks, and ctypes as the most aligned variant
that has a payload asks (`None` counts as a word in Rust, as nothing in C). The enums of
the run differ in this, `MyEnum` of `test_enum_protocol.py` among them, and are made by
both; `ReadsLastStored` is about the payloads that `PayloadInPlace` says are aligned
alike by their maker and by `EnumExtract`: all that Python makes, unless the variant
that is aligned most has no payload, and of those the program makes the variants that
are aligned most. `AllReadsLastStored` drops the condition and is violated
(disagreement 19). The tests only make such enums in Python, where they are in place.

### Dispatch

The Python side. `objs` are the decorated functions, each with its version, the
`verify` flag it was given and its cache; `glob` the global names, `reg` the
names the native code is registered under. A thread has a stack of builds
(`frames`), because `EllipsisExpander.visit_Call` specializes the generic callees
of a generic function before the function itself; `goal` is the call it has
still to make, `off` and `blocks` are the thread-local flag of `no_verification` and
what the blocks around it saved. Each step lies between two points at which the
interpreter may switch threads: `Expand` looks a callee up, `Specialize` puts the
`None` there and begins its build, `Compile`, `Refuse` and `Panic` are the call of the
bridge, `Finish` stores its result, and `Enter` reads the cache once more and calls.

Code is what it was compiled from and what it is linked to; that finished
compilations with equal signatures are used again (`CompilePipeline`) changes
nothing one could see here. A key is a model value, `label` is what is left of it in
the specialized name, and a refused version stands for whatever the verifier
refuses. What a function calls may change from one version to the next. A generic
callee shares the type variables of its caller, so it gets the caller's key
(`call_mapping` is not empty).

## Runs

| Run | Instance | What it shows |
|---|---|---|
| `disk_safe` | 2 processes, 1 key, 2 inodes, payloads of 1 to 3 chunks, budget 2, one kill | `LoadedIsVerified`: a call goes on with cached IR only if that IR was verified for its key and fits its callee; `LockedContents`: no writer under another's lock; `ImplementsIRCache`; types, and `order` names the linked files once each |
| `disk_evict` | 2 processes, 2 keys, 2 inodes, entries of 2 chunks, budget 2, one kill, fair steps | `WithinBudget` while nobody is killed; `CallsReturn` |
| `disk_alone` | 1 process, short and failing writes, 2 kills, 4 calls | `LoadedIsVerified`: a torn file is never taken for an entry |
| `pipeline_shared` | 2 processes, f calls g, three versions of g, one kill | `LinkedAsVerified`, `RepeatHits` when callees are compiled first |
| `pipeline_redefine` | 1 process, lambdas, @verify and @jit, callers first too | `AnswerIsCurrent` |
| `ssa` | 1 variable; 4 statements of every kind, or 5 with `try`, `raise`, calls, `while`, `break`, `return` | `ReadsLastWrite`; `PhiPerEdge`: one operand per phi and edge; `SealedPredecessorsKnown`: the recorded edges are those the code takes; types |
| `lowering` | words of 3 bits, up to 4 values, 9 kinds of parameters | `EveryRunCovered`: every asserted formula is true of every run, and terms and memory agree; `FaultsAreFlagged`; `FlagsAreReal`: the checks are no stricter than the machine |
| `layout` | the shapes of the tests and more, fields of 1 to 8 bytes | `ReadsLastStored`: a read yields what was stored last, of enums with payloads of unequal alignment if the payload is in place; `TermsHold` for types whose composite parts come first |
| `vcflow` | words of 2 bits, ten families of functions | `CoveredRunsAreSafe`; `CounterexampleIsReal`: the run on a reported counterexample breaks a promise; `VerifiedHasRuns`: a function with a contract is not verified because no argument satisfies it |
| `vcflow_loop` | the loops of `vcflow` | `VerifiedIsSafe` is violated |
| `midend` | words of 7 bits, four families | `OptimizedAgrees`, `CompiledAsVerified`, `AnalysisSettles` (because nothing changes, not because of the limit), `RangesHold`, `InferredHolds` |
| `dispatch` | 1 or 2 threads, 2 functions, 2 versions, 2 keys, blocks 2 deep, 4 to 6 definitions and calls; ten worlds | `RunsItsSpecialization`; `VerifiedAsMeant`; `LinkedAsDefined`: redefined callees are specialized anew, if no two functions call each other; `PlaceholderHasBuilder`; `EntryChecked`; `CallsReturn`, mutual recursion included; no build nests deeper than there are objects (`TypeOK`) |

Further configurations each reproduce one disagreement below; TLC finds the
property in brackets violated:

| Configuration | Module | |
|---|---|---|
| `DiskCache_corrupt.cfg` | `MCDiskCache` | short writes of two processes (`CorruptIsRefused`) |
| `DiskCache_delete.cfg` | `MCDiskCache` | a good file removed as corrupt (`OnlyCorruptIsDeleted`) |
| `Pipeline_forward.cfg` | `MCCompilePipeline` | callers compiled before callees (`LinkedAsVerified`) |
| `Pipeline_cfg.cfg` | `MCCompilePipeline` | a redefinition verified on an older graph (`VerifiedOnOwnCfg`) |
| `Ssa_condition.cfg` | `MCStatementVisitor` | a `while` whose condition takes several blocks (`SealedPredecessorsKnown`) |
| `VcFlow_emptied.cfg` | `MCVcFlow` | a range that becomes empty (`VerifiedIsSafe`) |
| the same, with `Funcs <- Raises` | `MCVcFlow` | a raise that hides the returns (`VerifiedIsSafe`) |
| `Midend_stale.cfg` | `MCMidend` | a range of the first pass told to callers (`InferredHolds`) |
| `Lowering_slice.cfg` | `MCLowering` | a slice past the end (`FaultsAreFlagged`) |
| `Lowering_refined.cfg` | `MCLowering` | an equality of two refined values (`EveryRunCovered`) |
| `Layout_nested.cfg` | `MCLayout` | two fields with one term (`AllTermsHold`) |
| `Layout_enum.cfg` | `MCLayout` | a payload that is not where it is read (`AllReadsLastStored`) |
| `Dispatch_collision.cfg` | `MCDispatch` | two keys with one specialized name (`LinkedForKey`) |
| `Dispatch_uncallable.cfg` | `MCDispatch` | a call meets the `None` of another thread's build (`NeverUncallable`) |
| `Dispatch_refused.cfg` | `MCDispatch` | a callee refused, its older version linked (`LinkedAfterFailure`) |
| `Dispatch_turn.cfg` | `MCDispatch` | functions that come to call each other (`LinkedInCycles`) |
| `Dispatch_requires.cfg` | `MCDispatch` | `@requires` above `@verify` (`EntryChecked`) |

Bounds. Two processes are enough for every pair of system calls on one file to
interleave; a third only repeats the role of one of them, since locks, names
and files relate two at a time. Two signatures distinguish "the same" from
"another"; two payload sizes give files that are replaced by shorter and by
longer ones. Each process makes two calls (four when alone): one to leave a
file, and one to meet what is left. In the pipeline three calls are g, f, g
again with f's entry outdated, and four let f be asked for again.

Variables do not meet in the SSA construction, except that sealing completes
the phis of all of them; so one variable shows what a read returns. Four
statements are a loop in a loop with a jump, or a branch with a jump in a loop,
and a write or a read; with `try` five are needed for a write before, in and
after what raises. The conditions of these whiles stay in one block, because of
disagreement 5.

Words. No formula of `Lowering` depends on the width but by its bounds: sign,
carry, zero, the least integer and a shift by the width all occur with 3 bits,
and every word is tried. In `VcFlow` an assignment ranges over the words of all
values, so they have 2 bits (-2 .. 1); literals of the functions lie within the
type, because a literal outside it wraps (see below), and its loops start at -2
to take three iterations. `Midend` enumerates inputs, not assignments, so its
words have 7 bits: enough for the widening at the eleventh pass to
come before the end of a loop that counts to its bound. Its loop bodies are one
block; ranges carried through several blocks go stale (disagreement 8).

The families of `MCVcFlow` are the graphs the builder makes for the statement in
the comment of each, over all choices of operators, operands and contracts that
the family names. Four values in `Lowering` are an operand or two, an operation
on them, and a use of its result, memory included.

A build that is refused stops, and so does a function that returned: the
runs of `StatementVisitor`, `Lowering`, `Layout`, `VcFlow` and `Midend` do not
check deadlock. Nor does `dispatch`, where threads stop when their calls are used
up; that none stops inside a call is `CallsReturn`.

Dispatch. The second thread of a world takes the part of "another thread" for
every cache, global and flag; each world has as many definitions and calls as
define its functions and use them twice, or redefine one and use it again. A
program whose builds fail is in a world of its own, because `LinkedAsDefined` and
`PlaceholderHasBuilder` are about programs whose builds succeed.
`LinkedAsDefined` is about one thread (`Sole`): another may register an older callee
between two steps; and about worlds where functions can be put in an order such that
each calls only itself and those before it, whatever their versions (`Layered`),
because of disagreements 15 and 18. `Looping` has a function that calls itself in one
version and another in the next. `Shared` has two keys with one name, the rest have
names that differ.

Fairness. `FairSpec` gives each process weak fairness on the steps of its own
call: the operating system runs every runnable process. Kills and interrupts
are never forced, so `CallsReturn` does not rest on a failing lock; nor on
`Call`. `flock` needs no strong fairness here, because the number of calls is
bounded, so nobody can take a lock again and again for ever. In `Dispatch` each
thread that is in a decorator or a call has weak fairness: the interpreter takes
the lock away from a thread after a short interval. User code is not forced to go on.

Deadlock is checked in every run of the caches; the end of all calls is a step
of its own (`Terminated`).

## Disagreements found

Each is reproduced by a run or by one of the further configurations.

1. `DiskCache_corrupt.cfg`: `save_ir` truncates before it locks
   (`cache.rs:420-428`). If the disk is full and process A's write is short, B
   truncates the file, and A goes on at its old offset: the file starts with
   zeros, which decode to an entry without functions. `load_ir` returns it and
   Python gets the pointer 0.
2. `DiskCache_delete.cfg`: for the same reason a reader may see an empty file,
   release its lock and remove by name (`cache.rs:377`) the good file that the
   writer has completed since.
3. `Pipeline_forward.cfg`: `collect_dependencies` skips callees that are not
   registered (`cache.rs:392`). f, compiled before g, is verified without g's
   contract and saved without a dependency; linking panics past every
   invalidation. When g exists, f's entry is a hit.
4. `Pipeline_cfg.cfg`: the caches of `control_flow.rs:347-372, 586-600` are
   refilled only when the function *name* changes, so a redefinition is verified
   on the graph of its older version.
5. `Ssa_condition.cfg`: `visit_while` links body and exit to the header, but the
   branch is in the block where the condition ended (`loops.rs:47-49`). With a
   `break` a phi of the exit has no operand for the edge from the condition.
6. `vcflow_loop`: a loop header's phis are pinned to their values on entry
   (`control_flow.rs:106-146`), so no formula speaks of a later iteration, and a
   verified function may divide by zero in one or return what its postcondition
   excludes. `docs/core_concepts.md:69` promises that loop invariants and
   postconditions are validated.
7. `VcFlow_emptied.cfg`: the `Jump` case of the analysis copies a narrowed range
   into a join (`analysis/interval/mod.rs:369-386`), where it stays. In

       while i < a:
           if i == k: ...
           i += 1

   the range of `i + 1` becomes empty. `verifier/intervals.rs:16` asserts ranges on
   every path, so every check of the function is unsatisfiable, and `a // b` before
   the loop is verified; the README promises "the absence of [...] division by
   zero". With a contract, `VerifiedHasRuns` refuses the function instead.
8. `Midend_stale.cfg`: for the same reason `return i` after that loop has the
   range [0, 1] of the first pass, and `infer_return_refinement` tells it to the
   callers, who assume it.
9. `VcFlow_emptied.cfg` with `Funcs <- Raises`: the check of the returns assumes that no exception is
   pending, in the form that the term of the *last* store of the exception word is
   0 (`returns.rs:194-199, 256-261`). If that store is a `raise` of a constant,
   which is not 0, no return refinement or postcondition of the function is ever
   checked.
10. `Lowering_slice.cfg`: a slice takes its size from its literals
    (`access.rs:309-409`), whatever the length of the array, so an access inside the
    slice and outside the array passes its bounds check. An array whose type has no
    size (`array[i64]`) is not checked at all (`memory.rs:251`).
11. `Lowering_refined.cfg`: `a == b` of two values of refined types is read as an
    equality of truth values (`resolver.rs:33-43`, `booleans.rs:85-94`), so the
    formula of a comparison contradicts runs in which both hold and differ.
12. `Layout_nested.cfg`: the offsets in the terms of nested parts are not those of
    the machine (`memory.rs:751-758`, `tuples.rs`, `EnumExtract` 853-860); in the
    object of `tests/python/type_system/test_nested_layouts.py` two fields have one
    term, and what is asserted of it is false.
13. `AssertsAreProved` (`VcFlow`): an `assert` is assumed before it is checked
    (`mod.rs:446-471`), so a false one makes its own check unsatisfiable;
    `docs/core_concepts.md:68` says asserts are static theorem proofs. The machine
    still traps. A loop invariant is likewise assumed at its header before the
    check on entry (`mod.rs:631-634, 681-693`), which is vacuous.
14. `Dispatch_collision.cfg`: `_get_specialized_name` is documented as "stable,
    unique" (`decorators.py:326`) but keeps only the rank of a shape and replaces
    every other character by `_`, so -1 and 1, or two shapes of one rank, give
    one name. The caches tell them apart, the registry does not: a caller is
    linked to whichever was registered last.
15. `Dispatch_uncallable.cfg`: the `None` that `visit_Call` stores against recursion
    is visible. A second thread that calls the callee meanwhile fails with a
    `TypeError`; so does every later call after a build that raised, because nothing
    removes it (two generic functions that call each other always end so: the
    inner build finds no code to link to, panics, and both keep their `None`).
16. `Dispatch_refused.cfg`: and a caller that is called again skips the build of
    that callee, finds the code of its older version under the name, and is
    linked to it.
17. `Dispatch_requires.cfg`: the verifier reads `@requires` wherever it stands, but
    at run time a condition above `@verify` lands on the `MonomorphizedFunction` or
    `OverloadedFunction`, where the wrapper of a specialization does not look
    (`wrapper.py:779`). Code verified under the condition runs without it.
18. `Dispatch_turn.cfg`: nor need a build fail. If main calls sub, and sub is
    redefined to call main, the next specialization of main begins that of sub, which
    finds main's `None`, does not build main, and is linked to the code of main's older
    version under the name.
19. `Layout_enum.cfg`: `EnumCreate` stores a payload at the payload's own alignment
    (`lower/memory.rs:896-904`), and `EnumExtract` loads it at the largest alignment of
    all variants (948-959). Of `A: i64, B: f32` (`test_enum_protocol.py:11-13`) a
    variant `B` made by compiled code is written to bytes 4 to 7 and read from bytes 8
    to 11, though `docs/data_structures.md:3` promises C-compatible layouts. An enum
    whose only word is a variant with no payload, `Some: i32, Nothing: None`, is read
    at the wrong place when Python made it too: `Type::align` counts the unknown type
    as a word (`types.rs:393`), the ctypes union as empty.

Noted while modelling, and reproduced by the models, but without a run of their
own:

* `no_verification` speaks of "any code compiled within this block"
  (`diagnostics.py:23`), `docs/developer_tooling.md:55` of functions defined in it;
  the code does the latter. A generic function defined outside and first called
  inside is verified, one defined inside is never verified, wherever it is called.
* A plain or an overloaded function that calls a generic one, or a generic one that
  calls an overloaded one, is never linked: only generic callers rename
  (`Unlinked`).
* With `strict=False` a refused function runs as Python, and `@requires` is then
  not checked at all.

* A recursive function redefined with another signature records the older one
  as its own dependency (`bridge/mod.rs:145`) and misses both caches at the next
  call: `RepeatHits` fails if h, of which there are two signatures, may be
  compiled. `pipeline_shared` leaves it out.
* `visit_if` links the merge block of an `if` that returns on both arms to what
  follows. In

      if a:
          if b: return 1
          else: return 2
      return x

  the read of `x` is resolved through that dead block, which is sealed and has
  no predecessors, and the function is refused: "unbound variable" (`err`).
* `for i in range(n): return i` is refused because `visit_for` reads `i` in an
  increment block nothing jumps to (`loops.rs:406`).
* A `try` whose body neither calls nor raises leaves its handlers without
  predecessors; a handler that reads an argument is refused.
* `if a > 0: x = 1`, `else: x = -1`, then `x // a`: what `a` is narrowed to on one
  side is asserted on both, and the division is verified (family `Joined`;
  excluded by `Represented`).
* `a > 0` and `b > 0` give `a + b >= 2`, overflow or not; the range is asserted,
  and it makes the check of a division by the sum be skipped (family `Sums`).
* An argument named like a later parameter is captured by the substitution of
  that parameter (`calls.rs:313-319`): `f(b, a)` checks `f`'s precondition on
  one argument twice. Of a callee that asks `a <= b` every such call is verified, of
  one that asks `a < b` every one is refused, on a counterexample where nothing goes
  wrong (`Swapped`, which no run includes).
* "Assume callee postconditions hold on returned value" (`calls.rs:69`): the
  postconditions of a callee are renamed to the values of the call, `v7 > v3`, and
  parsed without a resolver, which makes free integers named `v7` and `v3`; the
  terms of the values have other names (`<function>_v7_<number>`).
  A caller learns nothing, and a refusal may be about a result the callee never
  returns. (The function's own postconditions are parsed with a resolver, in
  `returns.rs`.)
* The analysis drops sources of a phi that have no range, `infer_return_refinement`
  drops returns that have none, and folded constants beyond their type wrap in the
  machine only.
* The value of a loop variable that outlives the loop, `Unknown` result types of
  comparisons, and refinements of parameters (`has_refinements` does not count
  them) do not reach the checks they are meant for.
* The inputs `Excluded` in `lowering`, each with its reason in `Scalars` and
  `Memory`: overflow, since the attached text is over unbounded integers; `%` of
  negative numbers; shifts by the width or more; booleans that no comparison made
  (`not True` is 0xFE where a comparison is 0xFF or 0); `abs` of NaN; strings that
  are compared by their lengths; stores through strided slices, which lose
  stride and offset (`assignments.rs:215`); old array values after a store.

Read in the code and not in a model: pointers to composite elements of a list
dangle after `append` moves its data; `bv_sext` and `bv_zext` extend by a width
where their caller passes the target width; `as_X` of an enum has no obligation
about the tag; an enum inside another type has size 0 and alignment 1
(`MovesEnums` leaves it out); a named tuple inside a struct panics; an assert
directly before a `return` is skipped by `visit_block`
(`statements/mod.rs:87-93`) and becomes a postcondition; asserts are said to be
pruned but a trap is emitted; `parallel_for` ignores its step; `timeout_ms` is not
part of the hash; liveness is computed before code generation and used by nobody.

## Proofs

Every theorem below is checked by TLAPS for all values of the constants that satisfy
the named assumptions of the modules: sizes and bounds are natural numbers,
sentinels are not members of the sets they stand outside of, there is a finite set
of keys, and so on. TLC evaluates these assumptions in the runs. Where a theorem has
a hypothesis of its own, a configuration shows that it fails without.

| Module | Theorem | States | Hypothesis |
|---|---|---|---|
| `DiskCache_proofs` | `FileTypesCorrect`, `TypesCorrect` | `FileTypeOK`, `TypeOK` | |
| | `LocksExclude` | `LockedContents` | |
| | `LoadedCorrect` | `LoadedIsVerified` | `ShortWrites = FALSE` (`DiskCache_corrupt.cfg`) |
| | `BudgetKept` | `WithinBudget` | `ShortWrites = FALSE` |
| | `Implements` | `ImplementsIRCache` | `ShortWrites = FALSE` |
| `CompilePipeline_proofs` | `TypesCorrect` | `TypeOK` | |
| | `AnswersAreCurrent` | `AnswerIsCurrent` | |
| | `RepeatedCallsHit` | `RepeatHits` | `StableRecursion` |
| | `LinkedToVerified` | `LinkedAsVerified` | `ForwardCalls = FALSE` (`Pipeline_forward.cfg`) |
| `Dispatch_proofs` | `TypesCorrect` | `TypeOK` | |
| | `CallsRunTheirCode` | `RunsItsSpecialization` | |
| | `CodeVerifiedAsMeant` | `VerifiedAsMeant` | |
| | `NoneIsBeingReplaced` | `PlaceholderHasBuilder` | |
| | `EntriesAreChecked` | `EntryChecked` | `RequiresWhereLooked` (`Dispatch_requires.cfg`) |
| | `LinksAreAsDefined` | `LinkedAsDefined` | |
| `VcFlow_proofs` | `TypesAreCorrect` | `TypeOK` | |
| | `VerifiedFunctionsHaveRuns` | `VerifiedHasRuns` | |
| | `CoveredRunsKeepPromises` | `CoveredRunsAreSafe` | `Regular(func)` |
| | `EvidenceKnown` | what a run of a verified function leaves behind | `Regular(func)` |
| | `CounterexamplesAreReal` | `CounterexampleIsReal` | `ArgumentsApart(func)` |
| `Lowering_proofs` | `TypesCorrect` | `TypeOK` | `Excluded = Exclusions` |
| | `EveryRunIsCovered` | `EveryRunCovered` | `Excluded = Exclusions` (`Lowering_refined.cfg`) |
| | `NoFaultEscapes` | `FaultsAreFlagged` | `Excluded = Exclusions` (`Lowering_slice.cfg`) |
| | `NothingFlaggedInVain` | `FlagsAreReal` | `Excluded = Exclusions` |

The hypotheses. `ShortWrites = FALSE` is a disk that does not fill up, and
`ForwardCalls = FALSE` a program that compiles callees before their callers, as Python
code that defines functions before it uses them does. `StableRecursion` says that a
function its own source calls has one signature, through all redefinitions (see the
note on recursive functions above). `RequiresWhereLooked` says that no `@requires`
stands above the `@verify` of a generic or an overloaded function. `LinkedAsDefined`
has its conditions, one thread, no failed build and `Layered`, in its own statement;
disagreements 14 to 16 and 18 are what happens without them. `Regular` says that a
function's loops are all cut at their headers (none lies in another, and each has a
phi), that loop invariants are of such headers, and that no argument or phi operand
has the name of a parameter or phi replaced after it. `ArgumentsApart` is the part of
this about arguments; `Swapped` has the counterexamples to either theorem without it.
All families of `MCVcFlow` are regular but `Nested`, a loop in a loop, for which
`CoveredRunsAreSafe` is only model-checked: the inner header is entered again
from the outer one, so its phis are other values in each round, and the run is no
longer one assignment. `Excluded = Exclusions` (`Narrowed`) leaves out the inputs on
which the machine code and the formulas are known to differ, listed above, as the run
`lowering` does.

### The disk cache

`LoadedIsVerified` is not inductive: nothing in it speaks of the files. The
inductive invariant `SafeInv` adds that an inode belongs to one key for its
whole life (`OwnInv`: a function from inodes to keys that agrees with the
directory and with every open file, and every file is empty or starts with a
verified payload of its key), that readers and writers of an inode exclude
each other (`LockInv`), that the locals of a call are as its step expects
(`CallInv`), that a reader's copy is a beginning of a verified payload which
the file still holds, unless it was truncated since (`ReadInv`), and that what
is about to be decoded is empty, a whole payload, or a strict prefix of one
(`DecodeInv`). `DecodeSound` turns that into what the decoder returns.

`WithinBudget` speaks only of the end of all calls. `BudgetInv` says why it is
reached although each `evict_lru` works on a list that other processes outdate: unless
a process was killed, the files fit, or some process has still to make its list,
or some process is evicting by a list that covers the files. That list gives a bound
for each key; the bounds add up to no more than the budget and what the process has
still to remove; and every file that may have contents is on the list with a bound
it keeps. A save by another process breaks the last part, but then that process has
a list still to make. `EvictInv` is the type of the list by modification time, which
names each linked inode once.

### The pipeline

`PipelineInv` relates the tables of one process: code is never freed, so what is true
of it when it is made stays true. What is registered under a name is code of that name.
An L1 entry has code for each function of its source, compiled for its key, and
its main function is linked to code with the signatures the entry records. The parts a
call has made so far are registered, and what it calls outside its source is registered
as it was when the dependencies were taken. After a call the L1 entry of its key is
the answer. `AnswerIsCurrent` and `RepeatHits` follow, since other processes do
not touch these tables. `VerifiedInv` adds the disk, which other
processes write: every entry records a signature for every callee outside its
own source, every call in progress has its callees registered with the signatures of
the IR it goes on with, and every code is linked as it was verified.

### The decorators

`DispatchInv` says that an object's `verify` flag is what was meant; that what its
cache, a build or a call has for it is code of its own function, version and key; that
the builds of a thread stand on each other for one key, each but the first for a
callee of the one below; that the entry a call was made for is there or is being
built; and that verification is off exactly inside a block. All builds but the
first have an entry in the cache of their object, so a callee without one is not among
them: no two nested builds are of one object, and there are no more than objects
(`TypeOK`, by the pigeonhole principle), mutual recursion included. `BuildersInv`
turns this around: each `None` has its build, until a build fails.

`SoleInv` is about one thread. Names are bound only while nothing is built, so every
build has the names of now. The callees a build has passed have an entry; that
this is code, and not the `None` of a build below, is what the order in `Layered`
gives. The code in the cache of a function's present object is the code that is
registered under its name, so this is what the caller is linked to.

### The verifier

`CoveredRunsAreSafe` relates a run of the machine to formulas about the whole
function. Its proof has three invariants and an argument at the end of the run.

`VerdictInv` is about the verifier alone: what it has asked, and that every check it
has left behind was unsatisfiable for the assignments of now, which do not change
once the analysis has settled. `VerifiedHasRuns` needs a little more: an assignment
in which every formula holds gives the parameters values that the contract allows,
because a refinement of a parameter mentions parameters only.

`MachineInv` is about the run alone: where control is, and that every operand it
meets has been made. A value is available where the block that makes it dominates,
so the invariant has dominators in it (`DomInv`, by sets of blocks that control
cannot enter but through one), and the blocks behind a call that raised, where the
result of the call is the one value that is missing (`RaisedInv`). The type
invariant follows.

`EvidenceInv` is what a run of a verified function leaves behind as long as it is
not `blind`: each block it left was left to one it entered, along edges that no
header cuts, so that none was entered twice (`PathInv`); each instruction has done
what its formula says, each phi has the value of the edge control came by, the
exception word read is the one its term is given (`ValueInv`); no value was
made that an instruction does not make (`FreshInv`); and a promise that was broken
was broken by values that are still there (`FaultInv`). Here loops that
are cut matter: a block that is entered again makes its values anew.

At the end of the run `RunIsModel` shows that there is an assignment which agrees
with the run wherever the run made a value, and satisfies every formula. It is built
along the translation, instruction by instruction (`Stands`, `StandsStep`): a
value the run made is within its range by `Represented`, and one it did not make has
some word left; that all of them can be made follows by the smallest
counterexample. Then each kind of broken promise makes this assignment violate a
check that `VerdictInv` says was passed: the safety checks (`SafetyViolated`), the
returns, or the calls.

`CounterexampleIsReal` is the way back, from an assignment to a run. `RefutedInv` says
that a counterexample is an assignment which violates a check, and `ReplayInv` that
the run follows it: each block it enters is on the path of the assignment, each value
it makes is the value there, and as long as no promise is broken every division, call
and loop invariant on the way is one that the checks do not complain of. A step keeps
this because an assignment gives each instruction on its path the value that it
computes (`ModelMeans`), and goes on where a branch goes (`ModelGoesOn`). At the
return the two paths are the same: a block on the path that the machine has not been
in has a predecessor there that it has not been in either, and so on without end, but
there are no loops (`NoEndlessWay`). So no check is left for the assignment to violate
but that of the return, and there the run breaks its promise.

### The instructions

`EveryRunCovered` says what agrees, and is not inductive: a slice agrees with the
memory it is in only if it lies inside, and a reference older than its object is asked
nothing although it may be used. `LoweringInv` says of every value what it holds, in
the solver as in the machine (`RegOK`): an integer is one word, a boolean is 0, 1 or all
ones and its bit, a slice starts and ends in its object and has one base and stride on
both sides, a list or a pointer that is not older than its object has the object's length
or cells. A write makes all other references to its object old and keeps the length
of it (`WrittenMemory`) unless it is a list that grows, so nothing but a list may refer to
the object of a list: a Python list is not the memory of an array or a buffer. This is
part of `StartsAssumption`, which says what parameters are: values that satisfy
their types. What remains is one lemma for each action.

The width is any `W > 1`. `WordFacts` gives what is used of it, that there are as
many words with the sign as without. Sums, products and negations are words of
those of the integers because both differ by a multiple of 2^W (`ToWordStays`);
`BitwiseKeeps` needs that the sum of the powers of a set of bits is below 2^W
(`BitFacts`), which is proved without induction, from the smallest width where it fails.

### Numbers

The library's induction theorems take a predicate as a parameter, which none of the
provers instantiates. `NumberFacts` derives what is needed from the well-foundedness
of strict inclusion between finite sets, which the library states without one: a set
of numbers has a least element (`LeastNatural`), and a family of finite sets has a
member from which nothing can be taken away within the family (`LeastSet`). Proofs
then argue from the smallest counterexample. So `Max` and `Min` of bounded sets are
what they should be, and `SumFunction` is a sum: zero for zeros, monotone, and the sum
without a key plus the number of that key (`SumType`, `SumGrows`, `SumWithout`). The
recursive functions that add up a set in an order the model chooses all give that sum
(`AddsAny`, `AddsAgree`).

### Only model-checked

`CallsReturn`, of the disk cache and of the decorators, is liveness; no prover here
handles fairness. `StatementVisitor` resolves variables by recursive operators, and
`Layout` computes sizes by them. Functions that are not `Regular`, and what
`Midend` promises, are checked for every function of a family and not yet proved.

## Not modelled

* Z3 and Cranelift themselves, time-outs of the solver (a refusal), printing,
  logging, the parsing of Python and of refinement text, SIMD.
* Tensors: shapes, broadcasting, fusion, and their layout at run time.
* `match`, comprehensions, `parallel_for` and closures, in the visitor and in the
  verifier; statements after a jump.
* Metadata: the translation of annotations to types.
* Type propagation, and unrolling, which never applies to what the builder makes.
* The Python side beyond `Dispatch` and the ctypes layouts: reading keys off
  arguments, methods and closures, conversion of arguments, ownership of memory,
  the log level (a global that threads save and restore out of order).
* The statistics and the module registration of the bridge.
* Floating point beyond what the checks compare (signs, domains, NaN).

## Plan

1. Done: all modules above; the theorems about `DiskCache`, `CompilePipeline`,
   `Dispatch`, `VcFlow` and `Lowering`.
2. Lemmas about `Intervals`, for any width: the range of a sum, of a negation and
   of a side of a comparison contains the exact result of values in the ranges of the
   operands; a join and a widening contain what they join.
3. The types of `Midend`, and that its optimizer keeps what a run computes; which of
   the runs that `Represented` excludes are models all the same.
4. The visitors still missing, `match` first, in `StatementVisitor` and `VcFlow`.
5. Trace levels, ownership of memory on the Python side, tensors.
