----------------------------- MODULE DiskCache -----------------------------
(***************************************************************************)
(* The L2 cache of the bridge: one file `<hash>.lir` per compilation key,  *)
(* shared by every Python process that runs in the same directory.         *)
(* cache.rs reads and writes it with plain system calls and an advisory    *)
(* flock, so the model is at the level of those calls: a directory that    *)
(* maps a key to an inode, the contents of each inode, and one program     *)
(* counter per process.  A process holds the GIL for the whole of          *)
(* verify_and_compile, hence one call at a time in each process.           *)
(*                                                                         *)
(* A payload is divided into chunks, the first of which holds at least the *)
(* two length fields of an empty payload (16 bytes).  The position of a    *)
(* chunk is its offset in the file.                                        *)
(***************************************************************************)
EXTENDS Naturals, Sequences, FiniteSets, SequencesExt, FiniteSetsExt

CONSTANTS
  Proc,         \* processes that share the cache directory
  Key,          \* cache hashes
  Inode,        \* inodes of the file system
  Sig,          \* signatures the callee of a cached function may have
  NoSig,        \* the callee is not in the registry of the process
  NoInode,      \* no file under that name, no open file
  Eof,          \* beyond the end of the file
  Hole,         \* a chunk of zeros, never written
  NoIR,         \* the call has no IR yet
  Fresh,        \* the call goes on with the IR it has just built
  Empty,        \* ... with the payload without functions that zeros decode to
  Garbage,      \* ... with a mixture of payloads that happens to decode
  Corrupt,      \* the bytes do not decode
  MaxLen,       \* longest file, in chunks
  Size,         \* chunks of a payload, by the dependency it records
  MaxBytes,     \* LIRIEN_CACHE_MAX_MB, in chunks
  MaxCalls,     \* bound: calls of verify_and_compile by each process
  MaxCrashes,   \* bound: processes killed in the middle of a call
  ShortWrites   \* the disk may fill up: write(2) may be short, or fail

Pos == 1 .. MaxLen
Dep == Sig \cup {NoSig}

ASSUME KeyAssumption == Key # {} /\ IsFiniteSet(Key)
ASSUME SizeAssumption == MaxLen \in Nat /\ Size \in [Dep -> Pos]
ASSUME BoundAssumption ==
  /\ MaxBytes \in Nat /\ MaxCalls \in Nat /\ MaxCrashes \in Nat
  /\ ShortWrites \in BOOLEAN
ASSUME SentinelAssumption ==
  /\ NoSig \notin Sig /\ NoInode \notin Inode
  /\ Cardinality({NoIR, Fresh, Empty, Garbage, Corrupt}) = 5

\* CachedPayload: the functions of a key as process `by` built them, and the
\* callee signature they were verified against.  Two processes serialize the
\* same maps in different orders, so `by` tells their bytes apart.
Payload == [key : Key, dep : Dep, by : Proc]
Cell    == Payload \X Pos

ASSUME CellAssumption ==
  /\ Eof \notin Cell /\ Hole \notin Cell /\ Eof # Hole
  /\ {NoIR, Fresh, Empty, Garbage, Corrupt} \cap Payload = {}

\* What a call compiles, when it is not a payload it has loaded.
Other == {NoIR, Fresh, Empty, Garbage}

Blank == [j \in Pos |-> Eof]

VARIABLES
  path,      \* directory: key -> inode
  data,      \* inode -> contents
  order,     \* linked inodes, least recently modified first (st_mtime)
  pc, key, fd,  \* per process: next step, hash of the call, open file
  off, buf,  \* per process: file offset, bytes read so far
  reg,       \* per process: registered signature of the callee
  loaded,    \* per process: the IR the call goes on with
  victims,   \* per process: files evict_lru has listed, oldest first
  over,      \* per process: chunks evict_lru has still to free
  calls, crashes,
  verified   \* history: payloads that passed verification somewhere

fsVars   == <<path, data, order>>
ioVars   == <<fd, off, buf>>
lruVars  == <<victims, over>>
vars == <<fsVars, pc, key, ioVars, reg, loaded, lruVars, calls, crashes, verified>>

----------------------------------------------------------------------------
\* flock: the shared lock is held exactly while reading, the exclusive lock
\* exactly while writing.  Locks belong to the inode, not to the name.
Readers(i) == {p \in Proc : pc[p] = "read" /\ fd[p] = i}
Writers(i) == {p \in Proc : pc[p] = "write" /\ fd[p] = i}

Length(d) == Cardinality({j \in Pos : d[j] # Eof})

Wholly(d, pl) == \A j \in 1 .. Size[pl.dep] : d[j] = <<pl, j>>

\* d is a strict prefix of pl and ends there.
Cut(d, pl) == \E m \in 0 .. Size[pl.dep] - 1 :
                /\ \A j \in 1 .. m : d[j] = <<pl, j>>
                /\ \A j \in Pos : j > m => d[j] = Eof

\* bincode::deserialize (fixed-width integers, trailing bytes ignored): a
\* payload is recovered when its bytes come first, whatever follows; zeros are
\* an empty list of functions and an empty map; bytes that stop too early are
\* an error; a head of one payload with chunks of another may decode or not.
Decode(d) ==
  CASE d[1] = Hole -> {Empty}
    [] \E pl \in Payload : Wholly(d, pl) -> {pl \in Payload : Wholly(d, pl)}
    [] \E pl \in Payload : Cut(d, pl)    -> {Corrupt}
    [] OTHER -> {Corrupt, Garbage}

\* Slip: recorded dependencies are not compared.
DepsIgnored(r, p) == TRUE

\* The dependency check of load_ir: what the payload recorded must be what the
\* registry has now.  A payload without functions records nothing, and what a
\* mixture records is anything.
DepsHold(r, p) ==
  CASE r \in Payload  -> r.dep = NoSig \/ r.dep = reg[p]
    [] OTHER -> TRUE

\* write(2) of n chunks of pl at offset o: the gap between the end of the file
\* and o, if another process has truncated it, reads as zeros.
Overlay(d, pl, o, n) ==
  [j \in Pos |-> IF j \in o + 1 .. o + n THEN <<pl, j>>
                 ELSE IF j <= o /\ d[j] = Eof THEN Hole ELSE d[j]]

\* The list by modification time, without inode i.
Without(i) == RemoveAt(order, CHOOSE n \in DOMAIN order : order[n] = i)

Touch(i) == IF \E k \in Key : path[k] = i
            THEN Append(Without(i), i) ELSE order

Unlink(k) == /\ path' = [path EXCEPT ![k] = NoInode]
             /\ order' = IF path[k] = NoInode THEN order ELSE Without(path[k])
             /\ UNCHANGED data

InUse == {path[k] : k \in Key} \cup {fd[p] : p \in Proc}

\* Closing the file releases its lock.
Close(p) == fd' = [fd EXCEPT ![p] = NoInode] /\ off' = [off EXCEPT ![p] = 0]

----------------------------------------------------------------------------
Init ==
  /\ path = [k \in Key |-> NoInode]
  /\ data = [i \in Inode |-> Blank]
  /\ order = <<>>
  /\ pc = [p \in Proc |-> "idle"]
  /\ key \in [Proc -> Key]
  /\ fd = [p \in Proc |-> NoInode]
  /\ off = [p \in Proc |-> 0]
  /\ buf = [p \in Proc |-> Blank]
  /\ reg = [p \in Proc |-> NoSig]
  /\ loaded = [p \in Proc |-> NoIR]
  /\ victims = [p \in Proc |-> <<>>]
  /\ over = [p \in Proc |-> 0]
  /\ calls = [p \in Proc |-> 0]
  /\ crashes = 0
  /\ verified = {}

Goto(p, l) == pc' = [pc EXCEPT ![p] = l]

\* The process (re)compiles the callee: its signature is in the registry.
DefineCallee(p, s) ==
  /\ pc[p] = "idle" /\ reg[p] # s /\ calls[p] < MaxCalls
  /\ reg' = [reg EXCEPT ![p] = s]
  /\ UNCHANGED <<fsVars, pc, key, ioVars, loaded, lruVars, calls, crashes, verified>>

\* verify_and_compile misses L1 and calls load_ir.
Call(p, k) ==
  /\ pc[p] = "idle" /\ calls[p] < MaxCalls
  /\ key' = [key EXCEPT ![p] = k]
  /\ calls' = [calls EXCEPT ![p] = @ + 1]
  /\ Goto(p, "lookup")
  /\ UNCHANGED <<fsVars, ioVars, reg, loaded, lruVars, crashes, verified>>

\* load_ir: no file is a miss, otherwise the file is opened.
LoadOpen(p) ==
  /\ pc[p] = "lookup"
  /\ IF path[key[p]] = NoInode
     THEN Goto(p, "build") /\ UNCHANGED ioVars
     ELSE /\ Goto(p, "rlock")
          /\ fd' = [fd EXCEPT ![p] = path[key[p]]]
          /\ UNCHANGED <<off, buf>>
  /\ UNCHANGED <<fsVars, key, reg, loaded, lruVars, calls, crashes, verified>>

\* lock_shared returns when nobody holds the exclusive lock.
LoadLock(p) ==
  /\ pc[p] = "rlock" /\ Writers(fd[p]) = {}
  /\ Goto(p, "read")
  /\ UNCHANGED <<fsVars, key, ioVars, reg, loaded, lruVars, calls, crashes, verified>>

MoreToRead(p) == off[p] < MaxLen /\ data[fd[p]][off[p] + 1] # Eof

\* One read(2) of read_to_end.
LoadRead(p) ==
  /\ pc[p] = "read" /\ MoreToRead(p)
  /\ buf' = [buf EXCEPT ![p][off[p] + 1] = data[fd[p]][off[p] + 1]]
  /\ off' = [off EXCEPT ![p] = @ + 1]
  /\ UNCHANGED <<fsVars, pc, key, fd, reg, loaded, lruVars, calls, crashes, verified>>

\* read_to_end sees the end of the file; unlock; the file is closed.
LoadUnlock(p) ==
  /\ pc[p] = "read" /\ ~ MoreToRead(p)
  /\ Close(p)
  /\ Goto(p, "decode")
  /\ UNCHANGED <<fsVars, key, buf, reg, loaded, lruVars, calls, crashes, verified>>

\* Slip: the error of the decoder is not looked at.
LoadDecodeUnchecked(p) ==
  /\ pc[p] = "decode"
  /\ \E r \in Decode(buf[p]) :
       IF DepsHold(r, p)
       THEN loaded' = [loaded EXCEPT ![p] = r] /\ Goto(p, "compile")
       ELSE Goto(p, "discard") /\ UNCHANGED loaded
  /\ buf' = [buf EXCEPT ![p] = Blank]
  /\ UNCHANGED <<fsVars, key, fd, off, reg, lruVars, calls, crashes, verified>>

\* flock or read(2) fails, interrupted by a signal: the lookup is a miss.
LoadFail(p) ==
  /\ pc[p] \in {"rlock", "read"}
  /\ Close(p)
  /\ buf' = [buf EXCEPT ![p] = Blank]
  /\ Goto(p, "build")
  /\ UNCHANGED <<fsVars, key, reg, loaded, lruVars, calls, crashes, verified>>

\* bincode::deserialize and the dependency check: a hit, or the file goes.
LoadDecode(p) ==
  /\ pc[p] = "decode"
  /\ \E r \in Decode(buf[p]) :
       IF r # Corrupt /\ DepsHold(r, p)
       THEN loaded' = [loaded EXCEPT ![p] = r] /\ Goto(p, "compile")
       ELSE Goto(p, "discard") /\ UNCHANGED loaded
  /\ buf' = [buf EXCEPT ![p] = Blank]
  /\ UNCHANGED <<fsVars, key, fd, off, reg, lruVars, calls, crashes, verified>>

\* fs::remove_file of a corrupt or outdated entry, by name.
LoadDiscard(p) ==
  /\ pc[p] = "discard"
  /\ Unlink(key[p])
  /\ Goto(p, "build")
  /\ UNCHANGED <<key, ioVars, reg, loaded, lruVars, calls, crashes, verified>>

NewPayload(p) == [key |-> key[p], dep |-> reg[p], by |-> p]

\* Parsing, transformation and verification succeed.
BuildOk(p) ==
  /\ pc[p] = "build"
  /\ loaded' = [loaded EXCEPT ![p] = Fresh]
  /\ verified' = verified \cup {NewPayload(p)}
  /\ Goto(p, "create")
  /\ UNCHANGED <<fsVars, key, ioVars, reg, lruVars, calls, crashes>>

\* A syntax error is returned at once, without touching the caches.
BuildSyntaxError(p) ==
  /\ pc[p] = "build"
  /\ Goto(p, "idle")
  /\ UNCHANGED <<fsVars, key, ioVars, reg, loaded, lruVars, calls, crashes, verified>>

\* transform or verify fails (a solver time-out is such a failure).
BuildError(p) ==
  /\ pc[p] = "build"
  /\ Goto(p, "invalidate")
  /\ UNCHANGED <<fsVars, key, ioVars, reg, loaded, lruVars, calls, crashes, verified>>

\* Slip: the file is opened without truncation.
SaveOpenKeep(p) ==
  /\ pc[p] = "create"
  /\ \E i \in Inode :
       /\ IF path[key[p]] = NoInode
          THEN /\ i \notin InUse
               /\ path' = [path EXCEPT ![key[p]] = i]
               /\ order' = Append(order, i)
               /\ data' = [data EXCEPT ![i] = Blank]
          ELSE /\ i = path[key[p]]
               /\ UNCHANGED fsVars
       /\ fd' = [fd EXCEPT ![p] = i]
  /\ Goto(p, "wlock")
  /\ UNCHANGED <<key, off, buf, reg, loaded, lruVars, calls, crashes, verified>>

\* save_ir: open(create, write, truncate) empties the file of the key, before
\* any lock is asked for.
SaveOpen(p) ==
  /\ pc[p] = "create"
  /\ \E i \in Inode :
       /\ IF path[key[p]] = NoInode
          THEN /\ i \notin InUse
               /\ path' = [path EXCEPT ![key[p]] = i]
               /\ order' = Append(order, i)
          ELSE /\ i = path[key[p]]
               /\ order' = Touch(i)
               /\ UNCHANGED path
       /\ data' = [data EXCEPT ![i] = Blank]
       /\ fd' = [fd EXCEPT ![p] = i]
  /\ Goto(p, "wlock")
  /\ UNCHANGED <<key, off, buf, reg, loaded, lruVars, calls, crashes, verified>>

\* The directory or the file cannot be created: the call goes on without it.
SaveSkip(p) ==
  /\ pc[p] = "create"
  /\ Goto(p, "compile")
  /\ UNCHANGED <<fsVars, key, ioVars, reg, loaded, lruVars, calls, crashes, verified>>

\* Slip: lock_shared for lock_exclusive.
SaveLockShared(p) ==
  /\ pc[p] = "wlock" /\ Writers(fd[p]) = {}
  /\ Goto(p, "write")
  /\ UNCHANGED <<fsVars, key, ioVars, reg, loaded, lruVars, calls, crashes, verified>>

\* lock_exclusive returns when nobody holds a lock on the inode.
SaveLock(p) ==
  /\ pc[p] = "wlock"
  /\ Writers(fd[p]) = {} /\ Readers(fd[p]) = {}
  /\ Goto(p, "write")
  /\ UNCHANGED <<fsVars, key, ioVars, reg, loaded, lruVars, calls, crashes, verified>>

\* flock fails: the file stays as it is, truncated.
SaveLockError(p) ==
  /\ pc[p] = "wlock"
  /\ Close(p)
  /\ Goto(p, "compile")
  /\ UNCHANGED <<fsVars, key, buf, reg, loaded, lruVars, calls, crashes, verified>>

Rest(p) == Size[reg[p]] - off[p]

\* One write(2) of write_all: everything that is left, or less on a full disk.
\* The last one is followed by unlock, the close of the file and evict_lru.
SaveWrite(p) ==
  /\ pc[p] = "write"
  /\ \E n \in 1 .. Rest(p) :
       /\ n = Rest(p) \/ ShortWrites
       /\ data' = [data EXCEPT ![fd[p]] = Overlay(@, NewPayload(p), off[p], n)]
       /\ order' = Touch(fd[p])
       /\ IF n = Rest(p)
          THEN Goto(p, "scan") /\ Close(p)
          ELSE off' = [off EXCEPT ![p] = @ + n] /\ UNCHANGED <<pc, fd>>
  /\ UNCHANGED <<path, key, buf, reg, loaded, lruVars, calls, crashes, verified>>

\* write_all fails (no space): unlock, close, no eviction.
SaveWriteError(p) ==
  /\ pc[p] = "write" /\ ShortWrites
  /\ Close(p)
  /\ Goto(p, "compile")
  /\ UNCHANGED <<fsVars, key, buf, reg, loaded, lruVars, calls, crashes, verified>>

Listed == {k \in Key : path[k] # NoInode}

\* The sizes of the files by key, and the bytes they take together.
Lengths == [k \in Key |-> IF path[k] = NoInode THEN 0 ELSE Length(data[path[k]])]
Bytes == SumFunction(Lengths)

\* The listed files, least recently modified first, with their sizes.
ByAge == [n \in DOMAIN order |->
            LET k == CHOOSE x \in Listed : path[x] = order[n]
            IN  [key |-> k, bytes |-> Length(data[order[n]])]]

\* Slip: the budget is compared with the largest file.
EvictScanLargest(p) ==
  /\ pc[p] = "scan"
  /\ IF \A k \in Listed : Length(data[path[k]]) <= MaxBytes
     THEN Goto(p, "compile") /\ UNCHANGED lruVars
     ELSE /\ Goto(p, "evict")
          /\ victims' = [victims EXCEPT ![p] = ByAge]
          /\ over' = [over EXCEPT ![p] = Bytes - MaxBytes]
  /\ UNCHANGED <<fsVars, key, ioVars, reg, loaded, calls, crashes, verified>>

\* evict_lru lists the directory with sizes and modification times; it stops
\* when the files fit.
EvictScan(p) ==
  /\ pc[p] = "scan"
  /\ IF Bytes <= MaxBytes
     THEN Goto(p, "compile") /\ UNCHANGED lruVars
     ELSE /\ Goto(p, "evict")
          /\ victims' = [victims EXCEPT ![p] = ByAge]
          /\ over' = [over EXCEPT ![p] = Bytes - MaxBytes]
  /\ UNCHANGED <<fsVars, key, ioVars, reg, loaded, calls, crashes, verified>>

\* Slip: a file that cannot be removed stays in the list.
EvictOneRetry(p) ==
  /\ pc[p] = "evict" /\ over[p] > 0 /\ victims[p] # <<>>
  /\ path[Head(victims[p]).key] # NoInode
  /\ LET v == Head(victims[p]) IN
       /\ Unlink(v.key)
       /\ over' = [over EXCEPT ![p] = IF v.bytes > @ THEN 0 ELSE @ - v.bytes]
  /\ victims' = [victims EXCEPT ![p] = Tail(@)]
  /\ UNCHANGED <<pc, key, ioVars, reg, loaded, calls, crashes, verified>>

\* It removes the oldest file left in its list, by name; a removal that
\* fails frees nothing.
EvictOne(p) ==
  /\ pc[p] = "evict" /\ over[p] > 0 /\ victims[p] # <<>>
  /\ LET v == Head(victims[p]) IN
       /\ Unlink(v.key)
       /\ over' = [over EXCEPT ![p] =
                     IF path[v.key] = NoInode \/ v.bytes > @
                     THEN (IF path[v.key] = NoInode THEN @ ELSE 0)
                     ELSE @ - v.bytes]
  /\ victims' = [victims EXCEPT ![p] = Tail(@)]
  /\ UNCHANGED <<pc, key, ioVars, reg, loaded, calls, crashes, verified>>

EvictDone(p) ==
  /\ pc[p] = "evict" /\ (over[p] = 0 \/ victims[p] = <<>>)
  /\ Goto(p, "compile")
  /\ victims' = [victims EXCEPT ![p] = <<>>]
  /\ over' = [over EXCEPT ![p] = 0]
  /\ UNCHANGED <<fsVars, key, ioVars, reg, loaded, calls, crashes, verified>>

\* The back end compiles the IR and the call returns a pointer.
CompileOk(p) ==
  /\ pc[p] = "compile"
  /\ Goto(p, "idle")
  /\ loaded' = [loaded EXCEPT ![p] = NoIR]
  /\ UNCHANGED <<fsVars, key, ioVars, reg, lruVars, calls, crashes, verified>>

CompileError(p) ==
  /\ pc[p] = "compile"
  /\ Goto(p, "invalidate")
  /\ UNCHANGED <<fsVars, key, ioVars, reg, loaded, lruVars, calls, crashes, verified>>

\* cache::invalidate, then the error is returned.
Invalidate(p) ==
  /\ pc[p] = "invalidate"
  /\ Unlink(key[p])
  /\ Goto(p, "idle")
  /\ loaded' = [loaded EXCEPT ![p] = NoIR]
  /\ UNCHANGED <<key, ioVars, reg, lruVars, calls, crashes, verified>>

\* The process is killed and later started again with an empty registry; the
\* kernel closes its file, which releases the lock.
Crash(p) ==
  /\ pc[p] # "idle" /\ crashes < MaxCrashes
  /\ crashes' = crashes + 1
  /\ Goto(p, "idle")
  /\ Close(p)
  /\ buf' = [buf EXCEPT ![p] = Blank]
  /\ reg' = [reg EXCEPT ![p] = NoSig]
  /\ loaded' = [loaded EXCEPT ![p] = NoIR]
  /\ victims' = [victims EXCEPT ![p] = <<>>]
  /\ over' = [over EXCEPT ![p] = 0]
  /\ UNCHANGED <<fsVars, key, calls, verified>>

Load(p) == LoadOpen(p) \/ LoadLock(p) \/ LoadRead(p) \/ LoadUnlock(p)
             \/ LoadDecode(p) \/ LoadDiscard(p)
Build(p) == BuildOk(p) \/ BuildSyntaxError(p) \/ BuildError(p)
Save(p) == SaveOpen(p) \/ SaveSkip(p) \/ SaveLock(p) \/ SaveWrite(p) \/ SaveWriteError(p)
Evict(p) == EvictScan(p) \/ EvictOne(p) \/ EvictDone(p)
Finish(p) == CompileOk(p) \/ CompileError(p) \/ Invalidate(p)

\* A step of the call in progress.
Step(p) == Load(p) \/ Build(p) \/ Save(p) \/ Evict(p) \/ Finish(p)

\* A system call of p is interrupted.
Interrupt(p) == LoadFail(p) \/ SaveLockError(p)

\* The processes have made all their calls.
Terminated == /\ \A p \in Proc : pc[p] = "idle" /\ calls[p] = MaxCalls
              /\ UNCHANGED vars

Next ==
  \/ \E p \in Proc :
       \/ \E s \in Sig : DefineCallee(p, s)
       \/ \E k \in Key : Call(p, k)
       \/ Step(p)
       \/ Interrupt(p)
       \/ Crash(p)
  \/ Terminated

Spec == Init /\ [][Next]_vars

\* A process that can take a step of its call eventually takes one.  Nothing
\* is asked of interrupts, so no call depends on one to get past a lock.
FairSpec == Spec /\ \A p \in Proc : WF_vars(Step(p))

----------------------------------------------------------------------------
Labels == {"idle", "lookup", "rlock", "read", "decode", "discard", "build",
           "create", "wlock", "write", "scan", "evict", "compile", "invalidate"}

FileTypeOK ==
  /\ path \in [Key -> Inode \cup {NoInode}]
  /\ data \in [Inode -> [Pos -> Cell \cup {Eof, Hole}]]
  /\ pc \in [Proc -> Labels]
  /\ key \in [Proc -> Key]
  /\ fd \in [Proc -> Inode \cup {NoInode}]
  /\ off \in [Proc -> 0 .. MaxLen]
  /\ buf \in [Proc -> [Pos -> Cell \cup {Eof, Hole}]]
  /\ reg \in [Proc -> Dep]
  /\ loaded \in [Proc -> Payload \cup Other]
  /\ calls \in [Proc -> 0 .. MaxCalls]
  /\ crashes \in 0 .. MaxCrashes
  /\ verified \in SUBSET Payload

\* The files in the order of their times are exactly the linked ones.
EvictTypeOK ==
  /\ order \in Seq(Inode)
  /\ ToSet(order) = {path[k] : k \in Listed} /\ IsInjective(order)
  /\ victims \in [Proc -> Seq([key : Key, bytes : 0 .. MaxLen])]
  /\ over \in [Proc -> Nat]

\* Every variable keeps its type; in particular no write passes the longest
\* file, and the list by modification time names the linked files once each.
TypeOK == FileTypeOK /\ EvictTypeOK

\* A call goes on with cached IR only if some process verified exactly that
\* IR for this key, and the recorded dependency is what this process has
\* registered: no torn read, no overlay of two writers, no half of a payload
\* left by a crash, no entry of an older signature.
LoadedIsVerified ==
  \A p \in Proc : loaded[p] \notin {NoIR, Fresh} =>
    /\ loaded[p] \in verified
    /\ loaded[p].key = key[p]
    /\ loaded[p].dep \in {NoSig, reg[p]}

\* While a process holds a lock, the bytes it works on are not written by
\* another one: a file being read never grows, and only its owner's chunks
\* appear in a file being written.
LockedContents ==
  [][\A p, q \in Proc : p # q /\ pc[p] \in {"read", "write"} /\ SaveWrite(q)
        => fd[p] # fd[q]]_vars

\* When no call is in progress, no process has died and no write has failed,
\* the files fit the budget: of several processes that save at once, the last
\* to look sees all the files.
WithinBudget ==
  (crashes = 0 /\ \A p \in Proc : pc[p] = "idle") => Bytes <= MaxBytes

\* Every call returns, with or without an answer (or its process dies): no
\* process waits for ever for a lock, and eviction ends.
CallsReturn == \A p \in Proc : pc[p] # "idle" ~> pc[p] = "idle"

\* The comment of load_ir, "Corrupt cache, might as well delete it": a call
\* never goes on with zeros or with a mixture of payloads.
CorruptIsRefused == \A p \in Proc : loaded[p] \notin {Empty, Garbage}

\* The same comment: the file that goes is the corrupt one that was read, not
\* a good entry that another process has written meanwhile.
OnlyCorruptIsDeleted ==
  [][\A p \in Proc : LoadDiscard(p) /\ path[key[p]] # NoInode =>
        ~ \E pl \in Payload : /\ Wholly(data[path[key[p]]], pl)
                              /\ pl.dep \in {NoSig, reg[p]}]_vars

\* The files implement the cache the bridge relies on.
Abstract == INSTANCE IRCache WITH calling <- {p \in Proc : pc[p] # "idle"}
ImplementsIRCache == Abstract!Spec
=============================================================================
