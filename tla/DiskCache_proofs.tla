-------------------------- MODULE DiskCache_proofs --------------------------
(***************************************************************************)
(* Proofs about DiskCache, for any set of processes, keys, inodes and      *)
(* signatures and any payload sizes.                                       *)
(***************************************************************************)
EXTENDS DiskCache, NumberFacts, TLAPS

\* A file is open exactly between the open and the close of a load or a save.
OpenAt == {"rlock", "read", "wlock", "write"}
FdInv == \A p \in Proc : fd[p] # NoInode <=> pc[p] \in OpenAt

TypeInv == FileTypeOK /\ FdInv

\* Unlink and Touch are about names; they leave the contents alone.
LEMMA UnlinkType ==
  ASSUME FileTypeOK, NEW k, Unlink(k)
  PROVE  /\ path' \in [Key -> Inode \cup {NoInode}]
         /\ data' = data
BY DEF FileTypeOK, Unlink

\* Writing chunks of a payload keeps a file a sequence of chunks.
LEMMA OverlayType ==
  ASSUME NEW d \in [Pos -> Cell \cup {Eof, Hole}], NEW pl \in Payload,
         NEW o, NEW n
  PROVE  Overlay(d, pl, o, n) \in [Pos -> Cell \cup {Eof, Hole}]
BY DEF Overlay, Cell

\* The initial state has the types.
LEMMA TypeInit == Init => TypeInv
<1> SUFFICES ASSUME Init PROVE TypeInv
  OBVIOUS
<1> USE BoundAssumption, SizeAssumption
<1>1. Blank \in [Pos -> Cell \cup {Eof, Hole}]
  BY DEF Blank
<1>2. FileTypeOK
  BY <1>1 DEF Init, FileTypeOK, Labels, Dep, Other
<1>3. FdInv
  BY DEF Init, FdInv, OpenAt
<1> QED BY <1>2, <1>3 DEF TypeInv

\* Every step keeps the types: the only chunks that move are those of the
\* payload being written and of the file being read, and both files are open.
LEMMA TypeNext == TypeInv /\ [Next]_vars => TypeInv'
<1> SUFFICES ASSUME TypeInv, [Next]_vars PROVE TypeInv'
  OBVIOUS
<1> USE DEF TypeInv
<1>a. Blank \in [Pos -> Cell \cup {Eof, Hole}]
  BY DEF Blank
<1>b. NoInode \notin Inode
  BY SentinelAssumption
<1>1. ASSUME NEW p \in Proc, NEW s \in Sig, DefineCallee(p, s) PROVE TypeInv'
  BY <1>1 DEF DefineCallee, FileTypeOK, FdInv, Dep, fsVars, ioVars, lruVars
<1>2. ASSUME NEW p \in Proc, NEW k \in Key, Call(p, k) PROVE TypeInv'
  BY <1>2, BoundAssumption DEF Call, Goto, FileTypeOK, FdInv, OpenAt, Labels, fsVars, ioVars, lruVars
<1>3. ASSUME NEW p \in Proc, Load(p) PROVE TypeInv'
  <2>1. CASE LoadOpen(p)
    BY <2>1, <1>b DEF LoadOpen, Goto, FileTypeOK, FdInv, OpenAt, Labels, fsVars, ioVars, lruVars
  <2>2. CASE LoadLock(p)
    BY <2>2 DEF LoadLock, Goto, FileTypeOK, FdInv, OpenAt, Labels, fsVars, ioVars, lruVars
  <2>3. CASE LoadRead(p)
    <3>1. fd[p] \in Inode /\ off[p] \in 0 .. MaxLen - 1 /\ off[p] + 1 \in Pos
      BY <2>3, SizeAssumption DEF LoadRead, MoreToRead, FileTypeOK, FdInv, OpenAt, Pos
    <3>2. data[fd[p]][off[p] + 1] \in Cell \cup {Eof, Hole}
      BY <3>1 DEF FileTypeOK
    <3>3. buf' \in [Proc -> [Pos -> Cell \cup {Eof, Hole}]]
      BY <2>3, <3>1, <3>2 DEF LoadRead, FileTypeOK
    <3>4. off' \in [Proc -> 0 .. MaxLen]
      BY <2>3, <3>1, SizeAssumption DEF LoadRead, FileTypeOK
    <3> QED BY <2>3, <3>3, <3>4 DEF LoadRead, FileTypeOK, FdInv, fsVars, lruVars
  <2>4. CASE LoadUnlock(p)
    BY <2>4, SizeAssumption DEF LoadUnlock, Close, Goto, FileTypeOK, FdInv, OpenAt, Labels, fsVars, lruVars
  <2>5. CASE LoadDecode(p)
    <3>1. \A r \in Decode(buf[p]) : r # Corrupt => r \in Payload \cup Other
      BY DEF Decode, Other
    <3> QED BY <2>5, <3>1, <1>a, ZenonT(30) DEF LoadDecode, Goto, FileTypeOK, FdInv, OpenAt, Labels, fsVars, lruVars
  <2>6. CASE LoadDiscard(p)
    BY <2>6, UnlinkType DEF LoadDiscard, Goto, FileTypeOK, FdInv, OpenAt, Labels, ioVars, lruVars
  <2> QED BY <1>3, <2>1, <2>2, <2>3, <2>4, <2>5, <2>6 DEF Load
<1>4. ASSUME NEW p \in Proc, Build(p) PROVE TypeInv'
  <2>1. NewPayload(p) \in Payload
    BY DEF NewPayload, Payload, FileTypeOK
  <2>2. CASE BuildOk(p)
    BY <2>1, <2>2 DEF BuildOk, Goto, FileTypeOK, FdInv, OpenAt, Labels, Other, fsVars, ioVars, lruVars
  <2>3. CASE BuildSyntaxError(p) \/ BuildError(p)
    BY <2>3 DEF BuildSyntaxError, BuildError, Goto, FileTypeOK, FdInv, OpenAt, Labels, fsVars, ioVars, lruVars
  <2> QED BY <1>4, <2>2, <2>3 DEF Build
<1>5. ASSUME NEW p \in Proc, Save(p) PROVE TypeInv'
  <2>1. CASE SaveOpen(p)
    <3>1. PICK i \in Inode :
            /\ IF path[key[p]] = NoInode THEN path' = [path EXCEPT ![key[p]] = i]
               ELSE path' = path
            /\ data' = [data EXCEPT ![i] = Blank]
            /\ fd' = [fd EXCEPT ![p] = i]
      BY <2>1 DEF SaveOpen
    <3>2. /\ path' \in [Key -> Inode \cup {NoInode}]
          /\ data' \in [Inode -> [Pos -> Cell \cup {Eof, Hole}]]
          /\ fd' \in [Proc -> Inode \cup {NoInode}]
      BY <3>1, <1>a DEF FileTypeOK
    <3>3. pc' \in [Proc -> Labels] /\ FdInv'
      BY <2>1, <3>1, <1>b DEF SaveOpen, Goto, FileTypeOK, FdInv, OpenAt, Labels
    <3> QED BY <2>1, <3>2, <3>3 DEF SaveOpen, FileTypeOK
  <2>2. CASE SaveSkip(p) \/ SaveLock(p)
    BY <2>2 DEF SaveSkip, SaveLock, Goto, FileTypeOK, FdInv, OpenAt, Labels, fsVars, ioVars, lruVars
  <2>3. CASE SaveWrite(p)
    <3>1. NewPayload(p) \in Payload /\ Size[reg[p]] \in Pos
      BY SizeAssumption DEF NewPayload, Payload, FileTypeOK
    <3>2. fd[p] \in Inode
      BY <2>3 DEF SaveWrite, FileTypeOK, FdInv, OpenAt
    <3>3. PICK n \in 1 .. Rest(p) :
            /\ data' = [data EXCEPT ![fd[p]] = Overlay(@, NewPayload(p), off[p], n)]
            /\ IF n = Rest(p) THEN Goto(p, "scan") /\ Close(p)
               ELSE off' = [off EXCEPT ![p] = @ + n] /\ UNCHANGED <<pc, fd>>
      BY <2>3 DEF SaveWrite
    <3>4. off[p] + n \in 0 .. MaxLen
      BY <3>1, SizeAssumption DEF Rest, FileTypeOK, Pos
    <3>5. data' \in [Inode -> [Pos -> Cell \cup {Eof, Hole}]]
      BY <3>1, <3>2, <3>3, OverlayType DEF FileTypeOK
    <3>6. off' \in [Proc -> 0 .. MaxLen]
      <4>1. off' = [off EXCEPT ![p] = 0] \/ off' = [off EXCEPT ![p] = @ + n]
        BY <3>3 DEF Close
      <4>2. 0 \in 0 .. MaxLen
        BY SizeAssumption
      <4> QED BY <3>4, <4>1, <4>2 DEF FileTypeOK
    <3>7. /\ fd' \in [Proc -> Inode \cup {NoInode}]
          /\ pc' \in [Proc -> Labels]
          /\ FdInv'
      <4>1. CASE n = Rest(p)
        <5>1. /\ pc' = [pc EXCEPT ![p] = "scan"] /\ fd' = [fd EXCEPT ![p] = NoInode]
          BY <3>3, <4>1 DEF Goto, Close
        <5> QED BY <5>1, <1>b DEF FileTypeOK, FdInv, OpenAt, Labels
      <4>2. CASE n # Rest(p)
        BY <3>3, <4>2 DEF FileTypeOK, FdInv
      <4> QED BY <4>1, <4>2
    <3>8. UNCHANGED <<path, key, buf, reg, loaded, calls, crashes, verified>>
      BY <2>3 DEF SaveWrite
    <3> QED BY <3>5, <3>6, <3>7, <3>8 DEF FileTypeOK
  <2>4. CASE SaveWriteError(p)
    BY <2>4, SizeAssumption DEF SaveWriteError, Close, Goto, FileTypeOK, FdInv, OpenAt, Labels, fsVars, lruVars
  <2> QED BY <1>5, <2>1, <2>2, <2>3, <2>4 DEF Save
<1>6. ASSUME NEW p \in Proc, Evict(p) PROVE TypeInv'
  <2>1. CASE EvictScan(p) \/ EvictDone(p)
    BY <2>1 DEF EvictScan, EvictDone, Goto, FileTypeOK, FdInv, OpenAt, Labels, fsVars, ioVars, lruVars
  <2>2. CASE EvictOne(p)
    <3>1. PICK k : Unlink(k)
      BY <2>2 DEF EvictOne
    <3> QED BY <2>2, <3>1, UnlinkType DEF EvictOne, FileTypeOK, FdInv, OpenAt, Labels, ioVars
  <2> QED BY <1>6, <2>1, <2>2 DEF Evict
<1>7. ASSUME NEW p \in Proc, Finish(p) PROVE TypeInv'
  <2>1. CASE CompileOk(p) \/ CompileError(p)
    BY <2>1 DEF CompileOk, CompileError, Goto, FileTypeOK, FdInv, OpenAt, Labels, Other, fsVars, ioVars, lruVars
  <2>2. CASE Invalidate(p)
    BY <2>2, UnlinkType DEF Invalidate, Goto, FileTypeOK, FdInv, OpenAt, Labels, Other, ioVars, lruVars
  <2> QED BY <1>7, <2>1, <2>2 DEF Finish
<1>8. ASSUME NEW p \in Proc, Crash(p) PROVE TypeInv'
  BY <1>8, <1>a, BoundAssumption, SizeAssumption
     DEF Crash, Close, Goto, FileTypeOK, FdInv, OpenAt, Labels, Dep, Other, fsVars
<1>9. ASSUME NEW p \in Proc, Interrupt(p) PROVE TypeInv'
  <2>1. CASE LoadFail(p)
    BY <2>1, <1>a, SizeAssumption DEF LoadFail, Close, Goto, FileTypeOK, FdInv, OpenAt, Labels, fsVars, lruVars
  <2>2. CASE SaveLockError(p)
    BY <2>2, SizeAssumption DEF SaveLockError, Close, Goto, FileTypeOK, FdInv, OpenAt, Labels, fsVars, lruVars
  <2> QED BY <1>9, <2>1, <2>2 DEF Interrupt
<1>10. CASE UNCHANGED vars
  BY <1>10 DEF vars, FileTypeOK, FdInv, fsVars, ioVars, lruVars
<1> QED BY <1>1, <1>2, <1>3, <1>4, <1>5, <1>6, <1>7, <1>8, <1>9, <1>10 DEF Next, Step, Terminated

\* The variables of the files and of the calls keep their types.
THEOREM FileTypesCorrect == Spec => []FileTypeOK
<1>1. Spec => []TypeInv
  BY TypeInit, TypeNext, PTL DEF Spec
<1>2. TypeInv => FileTypeOK
  BY DEF TypeInv
<1> QED BY <1>1, <1>2, PTL

----------------------------------------------------------------------------
(***************************************************************************)
(* Without short writes, whatever a load returns was verified.  A file has *)
(* one key for its whole life; its contents are empty, or some verified    *)
(* payload of that key comes first.  A reader has copied a beginning of    *)
(* such a payload, and the file it reads is unchanged or truncated to      *)
(* nothing, for nobody writes under its lock.                              *)
(***************************************************************************)
Sound(d, k) == d = Blank \/ \E pl \in verified : pl.key = k /\ Wholly(d, pl)

OwnedBy(owner) ==
  /\ \A k \in Key : path[k] # NoInode => owner[path[k]] = k
  /\ \A p \in Proc : fd[p] # NoInode => owner[fd[p]] = key[p]
  /\ \A i \in Inode : Sound(data[i], owner[i])

OwnInv == \E owner \in [Inode -> Key] : OwnedBy(owner)

LockInv == \A p, q \in Proc :
  p # q /\ pc[p] = "write" /\ pc[q] \in {"read", "write"} => fd[p] # fd[q]

CallInv == \A p \in Proc :
  /\ pc[p] \in {"idle", "lookup", "rlock", "read", "decode", "discard", "build"}
       => loaded[p] = NoIR
  /\ pc[p] \in {"create", "wlock", "write", "scan", "evict"} => loaded[p] = Fresh
  /\ pc[p] \in {"create", "wlock", "write"} => NewPayload(p) \in verified
  /\ pc[p] # "read" => off[p] = 0
  /\ pc[p] \notin {"read", "decode"} => buf[p] = Blank

\* The first n chunks of d are those of pl, as far as pl goes.
Begins(d, pl, n) == \A j \in 1 .. Size[pl.dep] : j <= n => d[j] = <<pl, j>>

ReadInv == \A p \in Proc : pc[p] = "read" =>
  /\ \A j \in Pos : j > off[p] => buf[p][j] = Eof
  /\ off[p] = 0 \/ \E pl \in verified :
       /\ pl.key = key[p] /\ Begins(buf[p], pl, off[p])
       /\ data[fd[p]] = Blank \/ Wholly(data[fd[p]], pl)

\* d is empty, a payload of V for k, or a strict prefix of one.
Copy(d, k, V) ==
  d = Blank \/ \E pl \in V : pl.key = k /\ (Wholly(d, pl) \/ Cut(d, pl))

DecodeInv ==
  \A p \in Proc : pc[p] = "decode" => Copy(buf[p], key[p], verified)

SafeInv == TypeInv /\ LockInv /\ CallInv /\ OwnInv /\ ReadInv /\ DecodeInv
             /\ LoadedIsVerified

\* Every step keeps a writer alone with its file.
LEMMA LockNext == TypeInv /\ LockInv /\ [Next]_vars => LockInv'
<1> SUFFICES ASSUME TypeInv, LockInv, [Next]_vars PROVE LockInv'
  OBVIOUS
<1> USE DEF TypeInv, FileTypeOK, LockInv
<1>1. ASSUME NEW p \in Proc, NEW s \in Sig, DefineCallee(p, s) PROVE LockInv'
  BY <1>1 DEF DefineCallee, ioVars
<1>2. ASSUME NEW p \in Proc, NEW k \in Key, Call(p, k) PROVE LockInv'
  BY <1>2 DEF Call, Goto, ioVars
<1>3. ASSUME NEW p \in Proc, Load(p) PROVE LockInv'
  <2>1. CASE LoadOpen(p)
    BY <2>1 DEF LoadOpen, Goto, ioVars
  <2>2. CASE LoadLock(p)
    BY <2>2 DEF LoadLock, Writers, Goto, ioVars
  <2>3. CASE LoadRead(p)
    BY <2>3 DEF LoadRead
  <2>4. CASE LoadUnlock(p)
    BY <2>4 DEF LoadUnlock, Close, Goto
  <2>5. CASE LoadDecode(p) \/ LoadDiscard(p)
    BY <2>5 DEF LoadDecode, LoadDiscard, Goto, ioVars
  <2> QED BY <1>3, <2>1, <2>2, <2>3, <2>4, <2>5 DEF Load
<1>4. ASSUME NEW p \in Proc, Build(p) PROVE LockInv'
  BY <1>4 DEF Build, BuildOk, BuildSyntaxError, BuildError, Goto, ioVars
<1>5. ASSUME NEW p \in Proc, Save(p) PROVE LockInv'
  <2>1. CASE SaveOpen(p)
    BY <2>1 DEF SaveOpen, Goto
  <2>2. CASE SaveSkip(p)
    BY <2>2 DEF SaveSkip, Goto, ioVars
  <2>3. CASE SaveLock(p)
    BY <2>3 DEF SaveLock, Writers, Readers, Goto, ioVars
  <2>4. CASE SaveWrite(p)
    <3>1. \/ Goto(p, "scan") /\ Close(p)
          \/ UNCHANGED <<pc, fd>>
      BY <2>4 DEF SaveWrite
    <3> QED BY <3>1 DEF Goto, Close
  <2>5. CASE SaveWriteError(p)
    BY <2>5 DEF SaveWriteError, Goto, Close
  <2> QED BY <1>5, <2>1, <2>2, <2>3, <2>4, <2>5 DEF Save
<1>6. ASSUME NEW p \in Proc, Evict(p) PROVE LockInv'
  BY <1>6 DEF Evict, EvictScan, EvictOne, EvictDone, Goto, ioVars
<1>7. ASSUME NEW p \in Proc, Finish(p) PROVE LockInv'
  BY <1>7 DEF Finish, CompileOk, CompileError, Invalidate, Goto, ioVars
<1>8. ASSUME NEW p \in Proc, Crash(p) PROVE LockInv'
  BY <1>8 DEF Crash, Goto, Close
<1>9. ASSUME NEW p \in Proc, Interrupt(p) PROVE LockInv'
  BY <1>9 DEF Interrupt, LoadFail, SaveLockError, Close, Goto
<1>10. CASE UNCHANGED vars
  BY <1>10 DEF vars, ioVars
<1> QED BY <1>1, <1>2, <1>3, <1>4, <1>5, <1>6, <1>7, <1>8, <1>9, <1>10 DEF Next, Step, Terminated

\* Every step keeps what a process knows at each point of its call.
LEMMA CallNext ==
  ASSUME ShortWrites = FALSE, TypeInv, CallInv, DecodeInv, [Next]_vars
  PROVE  CallInv'
<1> USE DEF TypeInv, FileTypeOK, CallInv, NewPayload
<1>1. ASSUME NEW p \in Proc, NEW s \in Sig, DefineCallee(p, s) PROVE CallInv'
  BY <1>1 DEF DefineCallee, ioVars
<1>2. ASSUME NEW p \in Proc, NEW k \in Key, Call(p, k) PROVE CallInv'
  BY <1>2 DEF Call, Goto, ioVars
<1>3. ASSUME NEW p \in Proc, Load(p) PROVE CallInv'
  <2>1. CASE LoadOpen(p)
    BY <2>1 DEF LoadOpen, Goto, ioVars
  <2>2. CASE LoadLock(p)
    BY <2>2 DEF LoadLock, Goto, ioVars
  <2>3. CASE LoadRead(p)
    BY <2>3 DEF LoadRead
  <2>4. CASE LoadUnlock(p)
    BY <2>4 DEF LoadUnlock, Close, Goto
  <2>5. CASE LoadDecode(p)
    BY <2>5 DEF LoadDecode, Goto
  <2>6. CASE LoadDiscard(p)
    BY <2>6 DEF LoadDiscard, Goto, ioVars
  <2> QED BY <1>3, <2>1, <2>2, <2>3, <2>4, <2>5, <2>6 DEF Load
<1>4. ASSUME NEW p \in Proc, Build(p) PROVE CallInv'
  <2>1. CASE BuildOk(p)
    BY <2>1 DEF BuildOk, Goto, ioVars
  <2>2. CASE BuildSyntaxError(p) \/ BuildError(p)
    BY <2>2 DEF BuildSyntaxError, BuildError, Goto, ioVars
  <2> QED BY <1>4, <2>1, <2>2 DEF Build
<1>5. ASSUME NEW p \in Proc, Save(p) PROVE CallInv'
  <2>1. CASE SaveOpen(p)
    BY <2>1 DEF SaveOpen, Goto
  <2>2. CASE SaveSkip(p) \/ SaveLock(p)
    BY <2>2 DEF SaveSkip, SaveLock, Goto, ioVars
  <2>3. CASE SaveWrite(p)
    BY <2>3 DEF SaveWrite, Goto, Close
  <2>4. CASE SaveWriteError(p)
    BY <2>4 DEF SaveWriteError
  <2> QED BY <1>5, <2>1, <2>2, <2>3, <2>4 DEF Save
<1>6. ASSUME NEW p \in Proc, Evict(p) PROVE CallInv'
  BY <1>6 DEF Evict, EvictScan, EvictOne, EvictDone, Goto, ioVars
<1>7. ASSUME NEW p \in Proc, Finish(p) PROVE CallInv'
  BY <1>7 DEF Finish, CompileOk, CompileError, Invalidate, Goto, ioVars
<1>8. ASSUME NEW p \in Proc, Crash(p) PROVE CallInv'
  BY <1>8 DEF Crash, Goto, Close
<1>9. ASSUME NEW p \in Proc, Interrupt(p) PROVE CallInv'
  BY <1>9 DEF Interrupt, LoadFail, SaveLockError, Close, Goto
<1>10. CASE UNCHANGED vars
  BY <1>10 DEF vars, ioVars
<1> QED BY <1>1, <1>2, <1>3, <1>4, <1>5, <1>6, <1>7, <1>8, <1>9, <1>10 DEF Next, Step, Terminated

\* Every step keeps an owner for each file: a file that is created was not
\* in use, and a write puts a verified payload of the owner in front.
LEMMA OwnNext ==
  ASSUME ShortWrites = FALSE, TypeInv, CallInv, OwnInv, [Next]_vars
  PROVE  OwnInv'
<1> USE DEF TypeInv, FileTypeOK
<1> PICK owner \in [Inode -> Key] : OwnedBy(owner)
  BY DEF OwnInv
<1>own. ASSUME OwnedBy(owner)' PROVE OwnInv'
  BY <1>own DEF OwnInv
\* A step that writes nothing, opens nothing and keeps its key.
<1>same. ASSUME UNCHANGED data, verified \subseteq verified',
               \A k \in Key : path'[k] \in {path[k], NoInode},
               \A p \in Proc : \/ fd'[p] = NoInode
                               \/ fd'[p] = fd[p] /\ key'[p] = key[p]
        PROVE  OwnInv'
  BY <1>own, <1>same DEF OwnedBy, Sound
<1>1. ASSUME NEW p \in Proc, NEW s \in Sig, DefineCallee(p, s) PROVE OwnInv'
  BY <1>1, <1>same DEF DefineCallee, fsVars, ioVars
<1>2. ASSUME NEW p \in Proc, NEW k \in Key, Call(p, k) PROVE OwnInv'
  <2>1. fd[p] = NoInode /\ fd' = fd /\ key' = [key EXCEPT ![p] = k]
    BY <1>2 DEF Call, FdInv, OpenAt, ioVars
  <2> QED BY <1>2, <1>same, <2>1 DEF Call, fsVars
<1>3. ASSUME NEW p \in Proc, Load(p) PROVE OwnInv'
  <2>1. CASE LoadOpen(p)
    <3>1. CASE path[key[p]] = NoInode
      BY <2>1, <3>1, <1>same DEF LoadOpen, fsVars, ioVars
    <3>2. CASE path[key[p]] # NoInode
      <4>1. fd' = [fd EXCEPT ![p] = path[key[p]]] /\ UNCHANGED <<fsVars, key, verified>>
        BY <2>1, <3>2 DEF LoadOpen
      <4> QED BY <4>1, <3>2, <1>own DEF OwnedBy, Sound, fsVars
    <3> QED BY <3>1, <3>2
  <2>2. CASE LoadLock(p) \/ LoadRead(p) \/ LoadDecode(p)
    BY <2>2, <1>same DEF LoadLock, LoadRead, LoadDecode, fsVars, ioVars
  <2>3. CASE LoadUnlock(p)
    BY <2>3, <1>same DEF LoadUnlock, Close, fsVars
  <2>4. CASE LoadDiscard(p)
    BY <2>4, <1>same DEF LoadDiscard, Unlink, ioVars
  <2> QED BY <1>3, <2>1, <2>2, <2>3, <2>4 DEF Load
<1>4. ASSUME NEW p \in Proc, Build(p) PROVE OwnInv'
  BY <1>4, <1>same DEF Build, BuildOk, BuildSyntaxError, BuildError, fsVars, ioVars
<1>5. ASSUME NEW p \in Proc, Save(p) PROVE OwnInv'
  <2>1. CASE SaveOpen(p)
    <3>1. PICK i \in Inode :
            /\ \/ i \notin InUse /\ path' = [path EXCEPT ![key[p]] = i]
               \/ i = path[key[p]] /\ path' = path
            /\ data' = [data EXCEPT ![i] = Blank]
            /\ fd' = [fd EXCEPT ![p] = i]
      BY <2>1 DEF SaveOpen
    <3>2. UNCHANGED <<key, verified>>
      BY <2>1 DEF SaveOpen
    <3> PICK own \in Key : own = key[p]
      OBVIOUS
    <3> DEFINE new == [owner EXCEPT ![i] = own]
    <3>3. new \in [Inode -> Key]
      OBVIOUS
    <3>4. \A k \in Key : path'[k] # NoInode => new[path'[k]] = k
      BY <3>1 DEF OwnedBy, InUse
    <3>5. \A q \in Proc : fd'[q] # NoInode => new[fd'[q]] = key[q]
      <4>1. SUFFICES ASSUME NEW q \in Proc, fd[q] # NoInode, q # p
                     PROVE  new[fd[q]] = key[q]
        BY <3>1
      <4>2. CASE i \notin InUse
        BY <4>1, <4>2 DEF OwnedBy, InUse
      <4>3. CASE i = path[key[p]]
        <5>1. owner[i] = own
          BY <4>3, SentinelAssumption DEF OwnedBy
        <5> QED BY <4>1, <5>1 DEF OwnedBy
      <4> QED BY <3>1, <4>2, <4>3
    <3>6. \A j \in Inode : Sound(data'[j], new[j])
      BY <3>1 DEF OwnedBy, Sound
    <3>7. OwnedBy(new)'
      BY <3>2, <3>4, <3>5, <3>6 DEF OwnedBy, Sound
    <3> QED BY <3>3, <3>7 DEF OwnInv
  <2>2. CASE SaveSkip(p) \/ SaveLock(p)
    BY <2>2, <1>same DEF SaveSkip, SaveLock, fsVars, ioVars
  <2>3. CASE SaveWrite(p)
    <3>1. NewPayload(p) \in verified /\ off[p] = 0 /\ fd[p] # NoInode
      BY <2>3 DEF SaveWrite, CallInv, FdInv, OpenAt
    <3>2. Size[reg[p]] \in Pos /\ Rest(p) = Size[reg[p]]
      BY <3>1, SizeAssumption DEF Rest, Pos
    <3> DEFINE new == Overlay(data[fd[p]], NewPayload(p), 0, Size[reg[p]])
    <3>3. /\ data' = [data EXCEPT ![fd[p]] = new]
          /\ UNCHANGED <<path, key, verified>>
          /\ fd' = [fd EXCEPT ![p] = NoInode]
      BY <2>3, <3>1, <3>2 DEF SaveWrite, Close
    <3>4. Wholly(new, NewPayload(p)) /\ NewPayload(p).key = key[p]
      BY <3>2, SizeAssumption DEF Wholly, Overlay, NewPayload, Pos
    <3>5. \A j \in Inode : Sound(data'[j], owner[j])
      BY <3>1, <3>3, <3>4 DEF OwnedBy, Sound
    <3> QED BY <3>3, <3>5, <1>own DEF OwnedBy, Sound
  <2>4. CASE SaveWriteError(p)
    BY <2>4 DEF SaveWriteError
  <2> QED BY <1>5, <2>1, <2>2, <2>3, <2>4 DEF Save
<1>6. ASSUME NEW p \in Proc, Evict(p) PROVE OwnInv'
  <2>1. CASE EvictScan(p) \/ EvictDone(p)
    BY <2>1, <1>same DEF EvictScan, EvictDone, fsVars, ioVars
  <2>2. CASE EvictOne(p)
    BY <2>2, <1>same DEF EvictOne, Unlink, ioVars
  <2> QED BY <1>6, <2>1, <2>2 DEF Evict
<1>7. ASSUME NEW p \in Proc, Finish(p) PROVE OwnInv'
  <2>1. CASE CompileOk(p) \/ CompileError(p)
    BY <2>1, <1>same DEF CompileOk, CompileError, fsVars, ioVars
  <2>2. CASE Invalidate(p)
    BY <2>2, <1>same DEF Invalidate, Unlink, ioVars
  <2> QED BY <1>7, <2>1, <2>2 DEF Finish
<1>8. ASSUME NEW p \in Proc, Crash(p) PROVE OwnInv'
  BY <1>8, <1>same DEF Crash, Close, fsVars
<1>9. ASSUME NEW p \in Proc, Interrupt(p) PROVE OwnInv'
  BY <1>9, <1>same DEF Interrupt, LoadFail, SaveLockError, Close, fsVars
<1>10. CASE UNCHANGED vars
  BY <1>10, <1>same DEF vars, fsVars, ioVars
<1> QED BY <1>1, <1>2, <1>3, <1>4, <1>5, <1>6, <1>7, <1>8, <1>9, <1>10 DEF Next, Step, Terminated

\* A reader's copy stays a beginning of a payload of its key: the next chunk
\* comes from a sound file, and only a truncation may touch that file.
LEMMA ReadNext ==
  ASSUME TypeInv, LockInv, CallInv, OwnInv, ReadInv, [Next]_vars
  PROVE  ReadInv'
<1> USE DEF TypeInv, FileTypeOK
\* A step that keeps the readers, their keys and the contents they read.
<1>same. ASSUME verified \subseteq verified',
               \A p \in Proc : pc'[p] = "read" =>
                  /\ pc[p] = "read"
                  /\ <<key'[p], fd'[p], off'[p], buf'[p]>> = <<key[p], fd[p], off[p], buf[p]>>
                  /\ data'[fd[p]] \in {data[fd[p]], Blank}
        PROVE  ReadInv'
  BY <1>same DEF ReadInv
<1>1. ASSUME NEW p \in Proc, NEW s \in Sig, DefineCallee(p, s) PROVE ReadInv'
  BY <1>1, <1>same DEF DefineCallee, fsVars, ioVars
<1>2. ASSUME NEW p \in Proc, NEW k \in Key, Call(p, k) PROVE ReadInv'
  BY <1>2, <1>same DEF Call, Goto, fsVars, ioVars
<1>3. ASSUME NEW p \in Proc, Load(p) PROVE ReadInv'
  <2>1. CASE LoadOpen(p)
    BY <2>1, <1>same DEF LoadOpen, Goto, fsVars, ioVars
  <2>2. CASE LoadLock(p)
    <3>1. off[p] = 0 /\ buf[p] = Blank
      BY <2>2 DEF LoadLock, CallInv
    <3>2. /\ pc' = [pc EXCEPT ![p] = "read"]
          /\ UNCHANGED <<data, key, fd, off, buf, verified>>
      BY <2>2 DEF LoadLock, Goto, fsVars, ioVars
    <3> QED BY <3>1, <3>2 DEF ReadInv, Blank
  <2>3. CASE LoadRead(p)
    <3> DEFINE n == off[p] + 1
               c == data[fd[p]][n]
    <3>1. /\ off[p] \in 0 .. MaxLen - 1 /\ n \in Pos /\ c # Eof
          /\ fd[p] \in Inode /\ pc[p] = "read"
      BY <2>3, SizeAssumption DEF LoadRead, MoreToRead, FdInv, OpenAt, Pos
    <3>2. /\ buf' = [buf EXCEPT ![p] = [buf[p] EXCEPT ![n] = c]]
          /\ off' = [off EXCEPT ![p] = n]
          /\ UNCHANGED <<data, pc, key, fd, verified>>
      BY <2>3 DEF LoadRead, fsVars
    <3>3. PICK pl \in verified : /\ pl.key = key[p] /\ Begins(buf[p], pl, off[p])
                                /\ Wholly(data[fd[p]], pl)
      <4>1. data[fd[p]] # Blank
        BY <3>1 DEF Blank
      <4>2. CASE off[p] = 0
        <5>1. \E pl \in verified : pl.key = key[p] /\ Wholly(data[fd[p]], pl)
          BY <3>1, <4>1, SentinelAssumption DEF OwnInv, OwnedBy, Sound
        <5>2. \A pl \in verified : Begins(buf[p], pl, 0)
          BY SizeAssumption DEF Begins, Payload, Pos
        <5> QED BY <4>2, <5>1, <5>2
      <4>3. CASE off[p] # 0
        BY <3>1, <4>1, <4>3 DEF ReadInv
      <4> QED BY <4>2, <4>3
    <3>4. Begins(buf'[p], pl, n)
      <4> SUFFICES ASSUME NEW j \in 1 .. Size[pl.dep], j <= n
                   PROVE  buf'[p][j] = <<pl, j>>
        BY DEF Begins
      <4>1. j \in Pos
        BY <3>1, SizeAssumption DEF Pos
      <4>2. CASE j = n
        BY <3>1, <3>2, <3>3, <4>1, <4>2 DEF Wholly
      <4>3. CASE j # n
        <5>1. j <= off[p]
          BY <3>1, <4>1, <4>3 DEF Pos
        <5>2. buf'[p][j] = buf[p][j]
          BY <3>1, <3>2, <4>1, <4>3
        <5> QED BY <3>3, <5>1, <5>2 DEF Begins
      <4> QED BY <4>2, <4>3
    <3>5. \A j \in Pos : j > n => buf'[p][j] = Eof
      BY <3>1, <3>2 DEF ReadInv, Pos
    <3>6. \A q \in Proc : q # p => <<off'[q], buf'[q]>> = <<off[q], buf[q]>>
      BY <3>2
    <3>7. ASSUME NEW q \in Proc, pc'[q] = "read"
          PROVE  /\ \A j \in Pos : j > off'[q] => buf'[q][j] = Eof
                 /\ off'[q] = 0 \/ \E x \in verified' :
                      /\ x.key = key'[q] /\ Begins(buf'[q], x, off'[q])
                      /\ data'[fd'[q]] = Blank \/ Wholly(data'[fd'[q]], x)
      <4>1. CASE q = p
        BY <3>1, <3>2, <3>3, <3>4, <3>5, <4>1
      <4>2. CASE q # p
        BY <3>2, <3>6, <3>7, <4>2 DEF ReadInv
      <4> QED BY <4>1, <4>2
    <3> QED BY <3>7 DEF ReadInv
  <2>4. CASE LoadUnlock(p)
    BY <2>4, <1>same DEF LoadUnlock, Close, Goto, fsVars
  <2>5. CASE LoadDecode(p)
    BY <2>5, <1>same DEF LoadDecode, Goto, fsVars
  <2>6. CASE LoadDiscard(p)
    BY <2>6, <1>same DEF LoadDiscard, Unlink, Goto, ioVars
  <2> QED BY <1>3, <2>1, <2>2, <2>3, <2>4, <2>5, <2>6 DEF Load
<1>4. ASSUME NEW p \in Proc, Build(p) PROVE ReadInv'
  BY <1>4, <1>same DEF Build, BuildOk, BuildSyntaxError, BuildError, Goto, fsVars, ioVars
<1>5. ASSUME NEW p \in Proc, Save(p) PROVE ReadInv'
  <2>1. CASE SaveOpen(p)
    <3>1. PICK i \in Inode : data' = [data EXCEPT ![i] = Blank] /\ fd' = [fd EXCEPT ![p] = i]
      BY <2>1 DEF SaveOpen
    <3>2. \A q \in Proc : pc'[q] = "read" => q # p /\ pc[q] = "read" /\ fd[q] \in Inode
      BY <2>1 DEF SaveOpen, Goto, FdInv, OpenAt
    <3> QED BY <2>1, <3>1, <3>2, <1>same DEF SaveOpen
  <2>2. CASE SaveSkip(p) \/ SaveLock(p)
    BY <2>2, <1>same DEF SaveSkip, SaveLock, Goto, fsVars, ioVars
  <2>3. CASE SaveWrite(p)
    <3>1. PICK d : data' = [data EXCEPT ![fd[p]] = d]
      BY <2>3 DEF SaveWrite
    <3>2. \/ Goto(p, "scan") /\ Close(p)
          \/ off' = [off EXCEPT ![p] = off'[p]] /\ UNCHANGED <<pc, fd>>
      BY <2>3 DEF SaveWrite
    <3>3. \A q \in Proc : pc'[q] = "read" =>
             /\ q # p /\ pc[q] = "read" /\ fd'[q] = fd[q] /\ off'[q] = off[q]
      BY <2>3, <3>2 DEF SaveWrite, Goto, Close
    <3>4. \A q \in Proc : pc'[q] = "read" => data'[fd[q]] = data[fd[q]]
      BY <2>3, <3>1, <3>3 DEF SaveWrite, LockInv, FdInv, OpenAt
    <3> QED BY <2>3, <3>3, <3>4, <1>same DEF SaveWrite
  <2>4. CASE SaveWriteError(p)
    BY <2>4, <1>same DEF SaveWriteError, Goto, Close, fsVars
  <2> QED BY <1>5, <2>1, <2>2, <2>3, <2>4 DEF Save
<1>6. ASSUME NEW p \in Proc, Evict(p) PROVE ReadInv'
  <2>1. CASE EvictScan(p) \/ EvictDone(p)
    BY <2>1, <1>same DEF EvictScan, EvictDone, Goto, fsVars, ioVars
  <2>2. CASE EvictOne(p)
    BY <2>2, <1>same DEF EvictOne, Unlink, ioVars
  <2> QED BY <1>6, <2>1, <2>2 DEF Evict
<1>7. ASSUME NEW p \in Proc, Finish(p) PROVE ReadInv'
  <2>1. CASE CompileOk(p) \/ CompileError(p)
    BY <2>1, <1>same DEF CompileOk, CompileError, Goto, fsVars, ioVars
  <2>2. CASE Invalidate(p)
    BY <2>2, <1>same DEF Invalidate, Unlink, Goto, ioVars
  <2> QED BY <1>7, <2>1, <2>2 DEF Finish
<1>8. ASSUME NEW p \in Proc, Crash(p) PROVE ReadInv'
  BY <1>8, <1>same DEF Crash, Close, Goto, fsVars
<1>9. ASSUME NEW p \in Proc, Interrupt(p) PROVE ReadInv'
  BY <1>9, <1>same DEF Interrupt, LoadFail, SaveLockError, Close, Goto, fsVars
<1>10. CASE UNCHANGED vars
  BY <1>10, <1>same DEF vars, fsVars, ioVars
<1> QED BY <1>1, <1>2, <1>3, <1>4, <1>5, <1>6, <1>7, <1>8, <1>9, <1>10 DEF Next, Step, Terminated

\* What reached the end of the file is empty, a whole payload or a strict
\* prefix of one.
LEMMA DecodeNext ==
  ASSUME TypeInv, CallInv, ReadInv, DecodeInv, [Next]_vars
  PROVE  DecodeInv'
<1> USE DEF TypeInv, FileTypeOK
<1>same. ASSUME verified \subseteq verified',
               \A p \in Proc : pc'[p] = "decode" =>
                  pc[p] = "decode" /\ key'[p] = key[p] /\ buf'[p] = buf[p]
        PROVE  DecodeInv'
  BY <1>same DEF DecodeInv, Copy
<1>1. ASSUME NEW p \in Proc, NEW s \in Sig, DefineCallee(p, s) PROVE DecodeInv'
  BY <1>1, <1>same DEF DefineCallee, ioVars
<1>2. ASSUME NEW p \in Proc, NEW k \in Key, Call(p, k) PROVE DecodeInv'
  BY <1>2, <1>same DEF Call, Goto, ioVars
<1>3. ASSUME NEW p \in Proc, Load(p) PROVE DecodeInv'
  <2>1. CASE LoadOpen(p) \/ LoadLock(p) \/ LoadDiscard(p)
    BY <2>1, <1>same DEF LoadOpen, LoadLock, LoadDiscard, Goto, ioVars
  <2>2. CASE LoadRead(p)
    BY <2>2, <1>same DEF LoadRead
  <2>3. CASE LoadUnlock(p)
    <3>1. /\ pc[p] = "read" /\ ~ MoreToRead(p)
          /\ pc' = [pc EXCEPT ![p] = "decode"]
          /\ UNCHANGED <<key, buf, verified>>
      BY <2>3 DEF LoadUnlock, Goto
    <3>2. Copy(buf[p], key[p], verified)
      <4>1. CASE off[p] = 0
        <5>1. \A j \in Pos : buf[p][j] = Eof
          BY <3>1, <4>1 DEF ReadInv, Pos
        <5> QED BY <5>1 DEF Copy, Blank
      <4>2. CASE off[p] # 0
        <5>1. PICK pl \in verified : pl.key = key[p] /\ Begins(buf[p], pl, off[p])
          BY <3>1, <4>2 DEF ReadInv
        <5>2. Size[pl.dep] \in Pos
          BY SizeAssumption DEF Payload
        <5>3. CASE off[p] >= Size[pl.dep]
          <6>1. \A j \in 1 .. Size[pl.dep] : j <= off[p]
            BY <5>2, <5>3, SizeAssumption DEF Pos
          <6>2. Wholly(buf[p], pl)
            BY <5>1, <6>1 DEF Begins, Wholly
          <6> QED BY <5>1, <6>2 DEF Copy
        <5>4. CASE off[p] < Size[pl.dep]
          <6>1. off[p] \in 0 .. Size[pl.dep] - 1
            BY <5>2, <5>4, SizeAssumption DEF Pos
          <6>2. \A j \in 1 .. off[p] : buf[p][j] = <<pl, j>>
            BY <5>1, <5>2, <6>1, SizeAssumption DEF Begins, Pos
          <6>3. \A j \in Pos : j > off[p] => buf[p][j] = Eof
            BY <3>1 DEF ReadInv
          <6>4. Cut(buf[p], pl)
            BY <6>1, <6>2, <6>3 DEF Cut
          <6> QED BY <5>1, <6>4 DEF Copy
        <5> QED BY <5>2, <5>3, <5>4, SizeAssumption DEF Pos
      <4> QED BY <4>1, <4>2
    <3>3. ASSUME NEW q \in Proc, pc'[q] = "decode"
          PROVE  Copy(buf'[q], key'[q], verified')
      <4>1. CASE q = p
        BY <3>1, <3>2, <4>1
      <4>2. CASE q # p
        BY <3>1, <3>3, <4>2 DEF DecodeInv
      <4> QED BY <4>1, <4>2
    <3> QED BY <3>3 DEF DecodeInv
  <2>4. CASE LoadDecode(p)
    BY <2>4, <1>same DEF LoadDecode, Goto
  <2> QED BY <1>3, <2>1, <2>2, <2>3, <2>4 DEF Load
<1>4. ASSUME NEW p \in Proc, Build(p) PROVE DecodeInv'
  BY <1>4, <1>same DEF Build, BuildOk, BuildSyntaxError, BuildError, Goto, ioVars
<1>5. ASSUME NEW p \in Proc, Save(p) PROVE DecodeInv'
  <2>1. CASE SaveOpen(p) \/ SaveSkip(p) \/ SaveLock(p) \/ SaveWriteError(p)
    BY <2>1, <1>same DEF SaveOpen, SaveSkip, SaveLock, SaveWriteError, Goto, ioVars
  <2>2. CASE SaveWrite(p)
    <3>1. Goto(p, "scan") \/ UNCHANGED pc
      BY <2>2 DEF SaveWrite
    <3> QED BY <2>2, <3>1, <1>same DEF SaveWrite, Goto
  <2> QED BY <1>5, <2>1, <2>2 DEF Save
<1>6. ASSUME NEW p \in Proc, Evict(p) PROVE DecodeInv'
  BY <1>6, <1>same DEF Evict, EvictScan, EvictOne, EvictDone, Goto, ioVars
<1>7. ASSUME NEW p \in Proc, Finish(p) PROVE DecodeInv'
  BY <1>7, <1>same DEF Finish, CompileOk, CompileError, Invalidate, Goto, ioVars
<1>8. ASSUME NEW p \in Proc, Crash(p) PROVE DecodeInv'
  BY <1>8, <1>same DEF Crash, Goto
<1>9. ASSUME NEW p \in Proc, Interrupt(p) PROVE DecodeInv'
  BY <1>9, <1>same DEF Interrupt, LoadFail, SaveLockError, Goto
<1>10. CASE UNCHANGED vars
  BY <1>10, <1>same DEF vars, ioVars
<1> QED BY <1>1, <1>2, <1>3, <1>4, <1>5, <1>6, <1>7, <1>8, <1>9, <1>10 DEF Next, Step, Terminated

\* Decoding such a copy gives an error or the payload itself.
LEMMA DecodeSound ==
  ASSUME NEW k \in Key, NEW V \in SUBSET Payload, NEW p \in Proc,
         NEW d \in [Pos -> Cell \cup {Eof, Hole}],
         Copy(d, k, V),
         NEW r \in Decode(d), r # Corrupt
  PROVE  r \in V /\ r.key = k
<1>1. \A pl \in Payload : Size[pl.dep] \in Pos
  BY SizeAssumption DEF Payload
<1>2. 1 \in Pos
  BY SizeAssumption DEF Dep, Pos
<1>3. \A pl \in Payload : Wholly(d, pl) => d[1] = <<pl, 1>>
  BY <1>1, SizeAssumption DEF Wholly, Pos
<1>4. \A pl \in Payload : <<pl, 1>> # Eof /\ <<pl, 1>> # Hole
  BY <1>2, CellAssumption DEF Cell
<1>5. ASSUME NEW pl \in Payload, Cut(d, pl), NEW x \in Payload, Wholly(d, x)
      PROVE  FALSE
  <2>1. PICK m \in 0 .. Size[pl.dep] - 1 :
           /\ \A j \in 1 .. m : d[j] = <<pl, j>>
           /\ \A j \in Pos : j > m => d[j] = Eof
    BY <1>5 DEF Cut
  <2>2. CASE m = 0
    BY <1>2, <1>3, <1>4, <1>5, <2>1, <2>2
  <2>3. CASE m # 0
    <3>1. d[1] = <<pl, 1>>
      BY <1>1, <2>1, <2>3, SizeAssumption DEF Pos
    <3>2. x = pl
      BY <1>3, <1>5, <3>1
    <3>3. Size[pl.dep] \in Pos /\ Size[pl.dep] > m
      BY <1>1, <2>1, SizeAssumption DEF Pos
    <3>4. d[Size[pl.dep]] = <<pl, Size[pl.dep]>>
      BY <1>5, <3>2, <3>3, SizeAssumption DEF Wholly, Pos
    <3>5. <<pl, Size[pl.dep]>> \in Cell
      BY <3>3 DEF Cell
    <3> QED BY <2>1, <3>3, <3>4, <3>5, CellAssumption
  <2> QED BY <2>2, <2>3
<1>6. ASSUME NEW pl \in Payload, Cut(d, pl) PROVE d[1] # Hole
  <2>1. PICK m \in 0 .. Size[pl.dep] - 1 :
           /\ \A j \in 1 .. m : d[j] = <<pl, j>>
           /\ \A j \in Pos : j > m => d[j] = Eof
    BY <1>6 DEF Cut
  <2>2. CASE m = 0
    BY <1>2, <2>1, <2>2, CellAssumption
  <2>3. CASE m # 0
    <3>1. 1 \in 1 .. m
      BY <1>1, <2>3, SizeAssumption DEF Pos
    <3> QED BY <1>4, <2>1, <3>1
  <2> QED BY <2>2, <2>3
<1>7. CASE \E pl \in V : pl.key = k /\ Wholly(d, pl)
  <2>1. PICK pl \in V : pl.key = k /\ Wholly(d, pl)
    BY <1>7
  <2>2. Decode(d) = {x \in Payload : Wholly(d, x)}
    BY <1>3, <1>4, <2>1 DEF Decode
  <2>3. r \in Payload /\ Wholly(d, r)
    BY <2>2
  <2>4. r = pl
    BY <1>3, <2>1, <2>3
  <2> QED BY <2>1, <2>4
<1>8. ASSUME \E pl \in Payload : Cut(d, pl) PROVE FALSE
  <2>1. d[1] # Hole
    BY <1>6, <1>8
  <2>2. ~ \E x \in Payload : Wholly(d, x)
    BY <1>5, <1>8
  <2> QED BY <1>8, <2>1, <2>2 DEF Decode
<1>9. CASE d = Blank
  <2> DEFINE pl == [key |-> k, dep |-> NoSig, by |-> p]
  <2>1. pl \in Payload
    BY DEF Payload, Dep
  <2>2. 0 \in 0 .. Size[pl.dep] - 1
    BY <1>1, <2>1, SizeAssumption DEF Pos
  <2>3. Cut(d, pl)
    BY <1>9, <2>2 DEF Cut, Blank, Pos
  <2> QED BY <1>8, <2>1, <2>3
<1> QED BY <1>7, <1>8, <1>9 DEF Copy

\* A load that decodes goes on with a verified payload, or goes to discard.
LEMMA HitSound ==
  ASSUME TypeInv, DecodeInv, NEW p \in Proc, LoadDecode(p)
  PROVE  \/ loaded' = loaded /\ Goto(p, "discard")
         \/ /\ Goto(p, "compile")
            /\ \E pl \in verified :
                 /\ pl.key = key[p] /\ pl.dep \in {NoSig, reg[p]}
                 /\ loaded' = [loaded EXCEPT ![p] = pl]
<1>0. /\ key[p] \in Key /\ verified \in SUBSET Payload
      /\ buf[p] \in [Pos -> Cell \cup {Eof, Hole}]
  BY DEF TypeInv, FileTypeOK
<1>1. PICK r \in Decode(buf[p]) :
         \/ /\ r # Corrupt /\ DepsHold(r, p)
            /\ loaded' = [loaded EXCEPT ![p] = r] /\ Goto(p, "compile")
         \/ loaded' = loaded /\ Goto(p, "discard")
  BY DEF LoadDecode
<1>2. CASE r # Corrupt /\ DepsHold(r, p)
  <2>1. Copy(buf[p], key[p], verified)
    BY DEF LoadDecode, DecodeInv
  <2>2. r \in verified /\ r.key = key[p]
    BY <1>0, <1>2, <2>1, DecodeSound
  <2>3. r.dep \in {NoSig, reg[p]}
    BY <1>0, <1>2, <2>2 DEF DepsHold
  <2> QED BY <1>1, <2>2, <2>3
<1> QED BY <1>1, <1>2

\* The registry and the key of a process change between calls only, and the
\* IR a call goes on with changes on a hit, on a build and at its end.
LEMMA LoadedNext ==
  ASSUME TypeInv, CallInv, DecodeInv, LoadedIsVerified, [Next]_vars
  PROVE  LoadedIsVerified'
<1> USE DEF TypeInv, FileTypeOK, LoadedIsVerified
<1>same. ASSUME verified \subseteq verified',
               \A p \in Proc : \/ loaded'[p] \in {NoIR, Fresh}
                               \/ <<loaded, key, reg>>' = <<loaded, key, reg>>
                               \/ loaded'[p] = loaded[p] /\ key'[p] = key[p] /\ reg'[p] = reg[p]
        PROVE  LoadedIsVerified'
  BY <1>same
<1>1. ASSUME NEW p \in Proc, NEW s \in Sig, DefineCallee(p, s) PROVE LoadedIsVerified'
  BY <1>1, <1>same DEF DefineCallee, CallInv
<1>2. ASSUME NEW p \in Proc, NEW k \in Key, Call(p, k) PROVE LoadedIsVerified'
  BY <1>2, <1>same DEF Call, CallInv
<1>3. ASSUME NEW p \in Proc, Load(p) PROVE LoadedIsVerified'
  <2>1. CASE LoadDecode(p)
    <3>1. UNCHANGED <<key, reg, verified>>
      BY <2>1 DEF LoadDecode
    <3> QED BY <2>1, <3>1, HitSound
  <2>2. CASE LoadOpen(p) \/ LoadLock(p) \/ LoadRead(p) \/ LoadUnlock(p) \/ LoadDiscard(p)
    BY <2>2, <1>same DEF LoadOpen, LoadLock, LoadRead, LoadUnlock, LoadDiscard
  <2> QED BY <1>3, <2>1, <2>2 DEF Load
<1>4. ASSUME NEW p \in Proc, Build(p) PROVE LoadedIsVerified'
  BY <1>4, <1>same DEF Build, BuildOk, BuildSyntaxError, BuildError
<1>5. ASSUME NEW p \in Proc, Save(p) PROVE LoadedIsVerified'
  BY <1>5, <1>same DEF Save, SaveOpen, SaveSkip, SaveLock, SaveWrite, SaveWriteError
<1>6. ASSUME NEW p \in Proc, Evict(p) PROVE LoadedIsVerified'
  BY <1>6, <1>same DEF Evict, EvictScan, EvictOne, EvictDone
<1>7. ASSUME NEW p \in Proc, Finish(p) PROVE LoadedIsVerified'
  BY <1>7, <1>same DEF Finish, CompileOk, CompileError, Invalidate
<1>8. ASSUME NEW p \in Proc, Crash(p) PROVE LoadedIsVerified'
  BY <1>8, <1>same DEF Crash
<1>9. ASSUME NEW p \in Proc, Interrupt(p) PROVE LoadedIsVerified'
  BY <1>9, <1>same DEF Interrupt, LoadFail, SaveLockError
<1>10. CASE UNCHANGED vars
  BY <1>10, <1>same DEF vars
<1> QED BY <1>1, <1>2, <1>3, <1>4, <1>5, <1>6, <1>7, <1>8, <1>9, <1>10 DEF Next, Step, Terminated

\* The initial state is safe.
LEMMA SafeInit == Init => SafeInv
<1> SUFFICES ASSUME Init PROVE SafeInv
  OBVIOUS
<1>1. TypeInv
  BY TypeInit
<1>2. LockInv /\ CallInv /\ ReadInv /\ DecodeInv /\ LoadedIsVerified
  BY DEF Init, LockInv, CallInv, ReadInv, DecodeInv, LoadedIsVerified
<1>3. OwnInv
  <2>1. PICK k \in Key : TRUE
    BY KeyAssumption
  <2> DEFINE owner == [i \in Inode |-> k]
  <2>2. owner \in [Inode -> Key]
    OBVIOUS
  <2>3. OwnedBy(owner)
    BY DEF Init, OwnedBy, Sound
  <2> QED BY <2>2, <2>3 DEF OwnInv
<1> QED BY <1>1, <1>2, <1>3 DEF SafeInv

\* Every step keeps the parts of the invariant, each from all of them.
LEMMA SafeNext == ShortWrites = FALSE /\ SafeInv /\ [Next]_vars => SafeInv'
BY TypeNext, LockNext, CallNext, OwnNext, ReadNext, DecodeNext, LoadedNext DEF SafeInv

\* On a disk that does not fill up, the IR a call takes from the cache was
\* verified for its key under the callee signature this process has, whatever
\* the other processes write, evict or leave behind when they are killed.
THEOREM LoadedCorrect ==
  ASSUME ShortWrites = FALSE
  PROVE  Spec => []LoadedIsVerified
<1>1. SafeInv /\ [Next]_vars => SafeInv'
  BY SafeNext
<1>2. SafeInv => LoadedIsVerified
  BY DEF SafeInv
<1> QED BY SafeInit, <1>1, <1>2, PTL DEF Spec

\* Nobody writes a file under the lock of another process.
THEOREM LocksExclude == Spec => LockedContents
<1>1. Init => TypeInv /\ LockInv
  BY TypeInit DEF Init, LockInv
<1>2. TypeInv /\ LockInv /\ [Next]_vars => (TypeInv /\ LockInv)'
  BY TypeNext, LockNext
<1>3. LockInv =>
        \A p, q \in Proc : p # q /\ pc[p] \in {"read", "write"} /\ SaveWrite(q)
                             => fd[p] # fd[q]
  BY DEF LockInv, SaveWrite
<1> QED BY <1>1, <1>2, <1>3, PTL DEF Spec, LockedContents

----------------------------------------------------------------------------
\* An empty directory is an empty cache.
LEMMA AbstractInit == Init => Abstract!Init
BY DEF Init, Abstract!Init

\* Each step of a call is a hit, a verification, a return or no step of the
\* abstract cache; all the work on files is no step.
LEMMA AbstractNext ==
  ASSUME ShortWrites = FALSE, SafeInv, SafeInv', [Next]_vars
  PROVE  [Abstract!Next]_(Abstract!vars)
<1> DEFINE calling == {p \in Proc : pc[p] # "idle"}
           Stutter == UNCHANGED <<calling, key, reg, loaded, verified>>
<1> USE DEF SafeInv, TypeInv, FileTypeOK
<1>same. Stutter => UNCHANGED Abstract!vars
  BY DEF Abstract!vars
\* Going from one step of a call to another leaves the set of calls alone.
<1>on. ASSUME NEW p \in Proc, NEW l, l # "idle", pc[p] # "idle", Goto(p, l)
       PROVE  UNCHANGED calling
  BY <1>on DEF Goto
<1>off. ASSUME NEW p \in Proc, Goto(p, "idle")
        PROVE  calling' = calling \ {p}
  BY <1>off DEF Goto
<1>1. ASSUME NEW p \in Proc, NEW s \in Sig, DefineCallee(p, s) PROVE Abstract!Next
  BY <1>1 DEF DefineCallee, Abstract!Next, Abstract!DefineCallee
<1>2. ASSUME NEW p \in Proc, NEW k \in Key, Call(p, k) PROVE Abstract!Next
  <2>1. calling' = calling \cup {p}
    BY <1>2 DEF Call, Goto
  <2> QED BY <1>2, <2>1 DEF Call, Abstract!Next, Abstract!Call
<1>3. ASSUME NEW p \in Proc, Load(p) PROVE Stutter \/ Abstract!Next
  <2>1. CASE LoadOpen(p)
    <3>1. Goto(p, "build") \/ Goto(p, "rlock")
      BY <2>1 DEF LoadOpen
    <3> QED BY <2>1, <3>1, <1>on DEF LoadOpen
  <2>2. CASE LoadLock(p) \/ LoadUnlock(p) \/ LoadDiscard(p)
    BY <2>2, <1>on DEF LoadLock, LoadUnlock, LoadDiscard
  <2>3. CASE LoadRead(p)
    BY <2>3 DEF LoadRead
  <2>4. CASE LoadDecode(p)
    <3>1. pc[p] = "decode" /\ loaded[p] = NoIR /\ UNCHANGED <<key, reg, verified>>
      BY <2>4 DEF LoadDecode, CallInv
    <3>2. UNCHANGED calling
      <4>1. Goto(p, "compile") \/ Goto(p, "discard")
        BY <2>4, HitSound
      <4> QED BY <3>1, <4>1, <1>on
    <3>3. CASE loaded' = loaded
      BY <3>1, <3>2, <3>3
    <3>4. CASE \E pl \in verified :
                 /\ pl.key = key[p] /\ pl.dep \in {NoSig, reg[p]}
                 /\ loaded' = [loaded EXCEPT ![p] = pl]
      <4>1. Abstract!Hit(p)
        BY <3>1, <3>2, <3>4 DEF Abstract!Hit
      <4> QED BY <4>1 DEF Abstract!Next
    <3> QED BY <2>4, <3>3, <3>4, HitSound
  <2> QED BY <1>3, <2>1, <2>2, <2>3, <2>4 DEF Load
<1>4. ASSUME NEW p \in Proc, Build(p) PROVE Stutter \/ Abstract!Next
  <2>1. pc[p] = "build" /\ loaded[p] = NoIR /\ UNCHANGED <<key, reg>>
    BY <1>4 DEF Build, BuildOk, BuildSyntaxError, BuildError, CallInv
  <2>2. CASE BuildOk(p)
    <3>1. UNCHANGED calling
      BY <2>2, <1>on DEF BuildOk
    <3>2. Abstract!Verify(p)
      BY <2>1, <2>2, <3>1 DEF BuildOk, NewPayload, Abstract!Verify
    <3> QED BY <3>2 DEF Abstract!Next
  <2>3. CASE BuildSyntaxError(p)
    <3>1. calling' = calling \ {p}
      BY <2>3, <1>off DEF BuildSyntaxError
    <3>2. Abstract!Return(p)
      BY <2>1, <2>3, <3>1 DEF BuildSyntaxError, Abstract!Return
    <3> QED BY <3>2 DEF Abstract!Next
  <2>4. CASE BuildError(p)
    BY <2>4, <1>on DEF BuildError
  <2> QED BY <1>4, <2>2, <2>3, <2>4 DEF Build
<1>5. ASSUME NEW p \in Proc, Save(p) PROVE Stutter
  <2>1. CASE SaveOpen(p) \/ SaveSkip(p) \/ SaveLock(p)
    BY <2>1, <1>on DEF SaveOpen, SaveSkip, SaveLock
  <2>2. CASE SaveWrite(p)
    <3>1. Goto(p, "scan") \/ UNCHANGED pc
      BY <2>2 DEF SaveWrite
    <3> QED BY <2>2, <3>1, <1>on DEF SaveWrite
  <2>3. CASE SaveWriteError(p)
    BY <2>3 DEF SaveWriteError
  <2> QED BY <1>5, <2>1, <2>2, <2>3 DEF Save
<1>6. ASSUME NEW p \in Proc, Evict(p) PROVE Stutter
  <2>1. CASE EvictScan(p)
    <3>1. Goto(p, "compile") \/ Goto(p, "evict")
      BY <2>1 DEF EvictScan
    <3> QED BY <2>1, <3>1, <1>on DEF EvictScan
  <2>2. CASE EvictOne(p)
    BY <2>2 DEF EvictOne
  <2>3. CASE EvictDone(p)
    BY <2>3, <1>on DEF EvictDone
  <2> QED BY <1>6, <2>1, <2>2, <2>3 DEF Evict
<1>7. ASSUME NEW p \in Proc, Finish(p) PROVE Stutter \/ Abstract!Next
  <2>1. CASE CompileOk(p) \/ Invalidate(p)
    <3>1. calling' = calling \ {p}
      BY <2>1, <1>off DEF CompileOk, Invalidate
    <3>2. Abstract!Return(p)
      BY <2>1, <3>1 DEF CompileOk, Invalidate, Abstract!Return
    <3> QED BY <3>2 DEF Abstract!Next
  <2>2. CASE CompileError(p)
    BY <2>2, <1>on DEF CompileError
  <2> QED BY <1>7, <2>1, <2>2 DEF Finish
<1>8. ASSUME NEW p \in Proc, Crash(p) PROVE Abstract!Next
  <2>1. calling' = calling \ {p}
    BY <1>8, <1>off DEF Crash
  <2>2. Abstract!Die(p)
    BY <1>8, <2>1 DEF Crash, Abstract!Die
  <2> QED BY <2>2 DEF Abstract!Next
<1>9. ASSUME NEW p \in Proc, Interrupt(p) PROVE Stutter
  BY <1>9, <1>on DEF Interrupt, LoadFail, SaveLockError
<1>10. CASE UNCHANGED vars
  BY <1>10, <1>same DEF vars
<1> QED
  BY <1>same, <1>1, <1>2, <1>3, <1>4, <1>5, <1>6, <1>7, <1>8, <1>9, <1>10
     DEF Next, Step, Terminated

\* On a disk that does not fill up, the files implement the abstract cache.
THEOREM Implements ==
  ASSUME ShortWrites = FALSE
  PROVE  Spec => ImplementsIRCache
<1>1. SafeInv /\ [Next]_vars => SafeInv'
  BY SafeNext
<1>2. SafeInv /\ SafeInv' /\ [Next]_vars => [Abstract!Next]_(Abstract!vars)
  BY AbstractNext
<1> QED BY SafeInit, AbstractInit, <1>1, <1>2, PTL DEF Spec, ImplementsIRCache, Abstract!Spec

----------------------------------------------------------------------------
(***************************************************************************)
(* evict_lru: the list of files by modification time, and the budget when  *)
(* several processes evict at once.                                        *)
(***************************************************************************)
\* Two names never lead to one file.
LinkInv == \A k, l \in Listed : path[k] = path[l] => k = l

\* The list by modification time names every linked file once.
OrderInv ==
  /\ order \in Seq(Inode)
  /\ ToSet(order) = {path[k] : k \in Listed} /\ IsInjective(order)

\* evict_lru has a file in its list at most once.
VictimsInv ==
  \A p \in Proc : \A m, n \in DOMAIN victims[p] :
    victims[p][m].key = victims[p][n].key => m = n

----------------------------------------------------------------------------
\* Sequences without repetition: one element less.
LEMMA Dropped ==
  ASSUME NEW S, NEW s \in Seq(S), IsInjective(s), NEW n \in DOMAIN s
  PROVE  /\ RemoveAt(s, n) \in Seq(S) /\ IsInjective(RemoveAt(s, n))
         /\ ToSet(RemoveAt(s, n)) = ToSet(s) \ {s[n]}
<1> DEFINE t == RemoveAt(s, n)
<1>1. n \in 1 .. Len(s) /\ Len(s) \in Nat /\ s \in [1 .. Len(s) -> S]
  OBVIOUS
<1>2. t \in Seq(S) /\ Len(t) = Len(s) - 1
  BY <1>1 DEF RemoveAt
<1>3. \A j \in 1 .. Len(s) - 1 : t[j] = IF j < n THEN s[j] ELSE s[j + 1]
  BY <1>1, SMTT(30) DEF RemoveAt
<1> HIDE DEF t
<1>4. DOMAIN t = 1 .. Len(s) - 1
  BY <1>2
<1>5. ASSUME NEW a \in DOMAIN t, NEW b \in DOMAIN t, t[a] = t[b] PROVE a = b
  BY <1>1, <1>3, <1>4, <1>5 DEF IsInjective
<1>6. ASSUME NEW j \in DOMAIN t PROVE t[j] \in ToSet(s) \ {s[n]}
  BY <1>1, <1>3, <1>4 DEF ToSet, IsInjective
<1>7. ASSUME NEW m \in DOMAIN s, s[m] # s[n] PROVE \E j \in DOMAIN t : t[j] = s[m]
  <2>1. CASE m < n
    BY <1>1, <1>3, <1>4, <2>1
  <2>2. CASE m > n
    <3>1. m - 1 \in DOMAIN t /\ ~ (m - 1 < n) /\ (m - 1) + 1 = m
      BY <1>1, <1>4, <2>2
    <3>2. t[m - 1] = s[m]
      BY <1>3, <1>4, <3>1
    <3> QED BY <3>1, <3>2
  <2> QED BY <1>1, <1>7, <2>1, <2>2
<1>8. ToSet(t) = ToSet(s) \ {s[n]}
  BY <1>6, <1>7 DEF ToSet
<1>9. IsInjective(t)
  BY <1>5 DEF IsInjective
<1> QED BY <1>2, <1>8, <1>9 DEF t

\* Sequences without repetition: one element more.
LEMMA Appended ==
  ASSUME NEW S, NEW s \in Seq(S), IsInjective(s), NEW i \in S, i \notin ToSet(s)
  PROVE  /\ Append(s, i) \in Seq(S) /\ IsInjective(Append(s, i))
         /\ ToSet(Append(s, i)) = ToSet(s) \cup {i}
<1> DEFINE t == Append(s, i)
<1>1. Len(s) \in Nat /\ DOMAIN s = 1 .. Len(s)
  OBVIOUS
<1>2. t \in Seq(S) /\ DOMAIN t = 1 .. Len(s) + 1
  OBVIOUS
<1>3. t[Len(s) + 1] = i /\ \A j \in 1 .. Len(s) : t[j] = s[j]
  OBVIOUS
<1> HIDE DEF t
<1>4. IsInjective(t)
  BY <1>1, <1>2, <1>3 DEF IsInjective, ToSet
<1>5. ToSet(t) = ToSet(s) \cup {i}
  BY <1>1, <1>2, <1>3 DEF ToSet
<1> QED BY <1>2, <1>4, <1>5 DEF t

\* The list without a file that is in it.
LEMMA WithoutFacts ==
  ASSUME OrderInv, NEW i \in ToSet(order)
  PROVE  /\ Without(i) \in Seq(Inode) /\ IsInjective(Without(i))
         /\ ToSet(Without(i)) = ToSet(order) \ {i}
<1>1. PICK n : n = CHOOSE j \in DOMAIN order : order[j] = i
  OBVIOUS
<1>2. n \in DOMAIN order /\ order[n] = i
  BY <1>1 DEF ToSet
<1>3. Without(i) = RemoveAt(order, n)
  BY <1>1 DEF Without
<1> QED BY <1>2, <1>3, Dropped DEF OrderInv

\* A file whose time changes moves to the end of the list.
LEMMA TouchKeeps ==
  ASSUME FileTypeOK, OrderInv, NEW i \in Inode
  PROVE  /\ Touch(i) \in Seq(Inode) /\ IsInjective(Touch(i))
         /\ ToSet(Touch(i)) = ToSet(order)
<1>1. CASE \E k \in Key : path[k] = i
  <2>1. i \in ToSet(order)
    BY <1>1, SentinelAssumption DEF OrderInv, Listed
  <2>2. /\ Without(i) \in Seq(Inode) /\ IsInjective(Without(i))
        /\ ToSet(Without(i)) = ToSet(order) \ {i}
    BY <2>1, WithoutFacts
  <2> HIDE DEF OrderInv
  <2>3. i \notin ToSet(Without(i))
    BY <2>2
  <2>4. /\ Append(Without(i), i) \in Seq(Inode) /\ IsInjective(Append(Without(i), i))
        /\ ToSet(Append(Without(i), i)) = ToSet(Without(i)) \cup {i}
    BY <2>2, <2>3, Appended
  <2> QED BY <1>1, <2>1, <2>2, <2>4 DEF Touch
<1>2. CASE ~ \E k \in Key : path[k] = i
  BY <1>2 DEF Touch, OrderInv
<1> QED BY <1>1, <1>2

\* A file that is removed, by name, leaves the list.
LEMMA UnlinkKeeps ==
  ASSUME FileTypeOK, OrderInv, LinkInv, NEW k \in Key, Unlink(k)
  PROVE  OrderInv' /\ LinkInv'
<1>1. path' = [path EXCEPT ![k] = NoInode] /\ path \in [Key -> Inode \cup {NoInode}]
  BY DEF Unlink, FileTypeOK
<1>2. Listed' = Listed \ {k} /\ \A l \in Listed' : path'[l] = path[l]
  BY <1>1 DEF Listed
<1>3. LinkInv'
  BY <1>2 DEF LinkInv
<1>4. CASE path[k] = NoInode
  <2>1. order' = order /\ path' = path
    BY <1>1, <1>4 DEF Unlink
  <2> QED BY <1>3, <2>1 DEF OrderInv, Listed
<1>5. CASE path[k] # NoInode
  <2>1. k \in Listed /\ path[k] \in ToSet(order)
    BY <1>5 DEF Listed, OrderInv
  <2>2. order' = Without(path[k])
    BY <1>5 DEF Unlink
  <2>3. /\ order' \in Seq(Inode) /\ IsInjective(order')
        /\ ToSet(order') = ToSet(order) \ {path[k]}
    BY <2>1, <2>2, WithoutFacts
  <2>4. {path'[l] : l \in Listed'} = {path[l] : l \in Listed} \ {path[k]}
    BY <1>2, <2>1 DEF LinkInv
  <2> QED BY <1>3, <2>3, <2>4 DEF OrderInv
<1> QED BY <1>4, <1>5

----------------------------------------------------------------------------
Victim == [key : Key, bytes : 0 .. MaxLen]

EvictInv ==
  /\ OrderInv /\ LinkInv /\ VictimsInv
  /\ victims \in [Proc -> Seq(Victim)]
  /\ over \in [Proc -> Nat]

\* A file has no more chunks than the longest one; a truncated one has none.
LEMMA LengthType ==
  /\ \A d \in [Pos -> Cell \cup {Eof, Hole}] : Length(d) \in 0 .. MaxLen
  /\ Length(Blank) = 0
<1>1. MaxLen \in Nat /\ IsFiniteSet(Pos) /\ Cardinality(Pos) = MaxLen
  BY SizeAssumption, FS_Interval DEF Pos
<1>2. ASSUME NEW d PROVE Length(d) \in 0 .. MaxLen
  <2> DEFINE T == {j \in Pos : d[j] # Eof}
  <2>1. IsFiniteSet(T) /\ Cardinality(T) <= Cardinality(Pos)
    BY <1>1, FS_Subset
  <2>2. Cardinality(T) \in Nat
    BY <2>1, FS_CardinalityType
  <2>3. Length(d) = Cardinality(T)
    BY DEF Length
  <2> HIDE DEF T
  <2> QED BY <1>1, <2>1, <2>2, <2>3
<1>3. {j \in Pos : Blank[j] # Eof} = {}
  BY DEF Blank
<1>4. Length(Blank) = 0
  BY <1>3, FS_EmptySet DEF Length
<1> QED BY <1>2, <1>4

\* The sizes of the files, and of all of them, are numbers.
LEMMA LengthsType ==
  ASSUME FileTypeOK
  PROVE  /\ Lengths \in [Key -> 0 .. MaxLen] /\ Lengths \in [Key -> Nat]
         /\ Bytes \in Nat
<1>1. \A k \in Key : Lengths[k] \in 0 .. MaxLen
  BY LengthType, SizeAssumption DEF Lengths, FileTypeOK
<1>2. Lengths \in [Key -> 0 .. MaxLen] /\ Lengths \in [Key -> Nat]
  BY <1>1, SizeAssumption DEF Lengths
<1>3. Bytes \in Nat
  BY <1>2, SumType, KeyAssumption DEF Bytes
<1> QED BY <1>2, <1>3

LengthsOK == Lengths \in [Key -> Nat] /\ Bytes \in Nat

\* The same after a step.
LEMMA LengthsTypeNext == FileTypeOK' => LengthsOK'
<1>1. FileTypeOK => LengthsOK
  BY LengthsType DEF LengthsOK
<1> QED BY <1>1, PTL

\* evict_lru lists each file in the directory once, with its size.
LEMMA ByAgeFacts ==
  ASSUME FileTypeOK, OrderInv, LinkInv
  PROVE  /\ ByAge \in Seq(Victim)
         /\ \A m, n \in DOMAIN ByAge : ByAge[m].key = ByAge[n].key => m = n
         /\ \A n \in DOMAIN ByAge : Lengths[ByAge[n].key] = ByAge[n].bytes
         /\ \A k \in Listed : \E n \in DOMAIN ByAge : ByAge[n].key = k
<1>1. order \in Seq(Inode) /\ DOMAIN ByAge = DOMAIN order
  BY DEF OrderInv, ByAge
<1>2. ASSUME NEW n \in DOMAIN order
      PROVE  /\ ByAge[n].key \in Listed /\ path[ByAge[n].key] = order[n]
             /\ ByAge[n] = [key |-> ByAge[n].key, bytes |-> Length(data[order[n]])]
             /\ order[n] \in Inode
  <2>1. PICK k : k = CHOOSE x \in Listed : path[x] = order[n]
    OBVIOUS
  <2>2. k \in Listed /\ path[k] = order[n]
    BY <2>1 DEF OrderInv, ToSet
  <2>3. ByAge[n] = [key |-> k, bytes |-> Length(data[order[n]])]
    BY <2>1 DEF ByAge
  <2>4. order[n] \in Inode
    BY <1>1
  <2> QED BY <2>2, <2>3, <2>4
<1>3. ASSUME NEW n \in DOMAIN order
      PROVE  ByAge[n] \in Victim /\ Lengths[ByAge[n].key] = ByAge[n].bytes
  <2>1. Length(data[order[n]]) \in 0 .. MaxLen
    BY <1>2, LengthType DEF FileTypeOK
  <2>2. Lengths[ByAge[n].key] = Length(data[order[n]]) /\ ByAge[n].key \in Key
    BY <1>2 DEF Lengths, Listed
  <2>3. PICK k, b : k = ByAge[n].key /\ b = Length(data[order[n]])
    OBVIOUS
  <2>4. ByAge[n] = [key |-> k, bytes |-> b] /\ k \in Key /\ b \in 0 .. MaxLen
    BY <1>2, <2>1, <2>2, <2>3
  <2>5. ByAge[n] \in Victim /\ ByAge[n].bytes = b
    BY <2>4 DEF Victim
  <2> QED BY <2>2, <2>3, <2>5
<1>4. ByAge \in Seq(Victim)
  <2>1. ByAge = [n \in 1 .. Len(order) |-> ByAge[n]] /\ Len(order) \in Nat
    BY <1>1 DEF ByAge
  <2>2. \A n \in 1 .. Len(order) : ByAge[n] \in Victim
    BY <1>1, <1>3
  <2> QED BY <2>1, <2>2
<1>5. \A m, n \in DOMAIN ByAge : ByAge[m].key = ByAge[n].key => m = n
  BY <1>1, <1>2 DEF OrderInv, IsInjective
<1>6. ASSUME NEW k \in Listed PROVE \E n \in DOMAIN ByAge : ByAge[n].key = k
  <2>1. PICK n \in DOMAIN order : order[n] = path[k]
    BY DEF OrderInv, ToSet
  <2>2. ByAge[n].key = k
    <3>1. PICK l \in Listed : l = ByAge[n].key /\ path[l] = path[k]
      BY <1>2, <2>1
    <3> QED BY <3>1 DEF LinkInv
  <2> QED BY <1>1, <2>2
<1> QED BY <1>1, <1>3, <1>4, <1>5, <1>6

\* An empty directory, and no eviction.
LEMMA EvictInit == Init => EvictInv
<1> SUFFICES ASSUME Init PROVE EvictInv
  OBVIOUS
<1>1. Listed = {}
  BY DEF Init, Listed
<1>2. OrderInv /\ LinkInv
  BY <1>1 DEF Init, OrderInv, LinkInv, IsInjective, ToSet
<1>3. VictimsInv /\ victims \in [Proc -> Seq(Victim)] /\ over \in [Proc -> Nat]
  BY DEF Init, VictimsInv
<1> QED BY <1>2, <1>3 DEF EvictInv

\* What is left of the list of an eviction stays a list of different files.
LEMMA VictimsStay ==
  ASSUME EvictInv, NEW p \in Proc, NEW s \in Seq(Victim),
         \A m, n \in DOMAIN s : s[m].key = s[n].key => m = n,
         victims' = [victims EXCEPT ![p] = s]
  PROVE  VictimsInv' /\ victims' \in [Proc -> Seq(Victim)]
<1>1. victims' \in [Proc -> Seq(Victim)]
  BY DEF EvictInv
<1>2. ASSUME NEW q \in Proc, NEW m \in DOMAIN victims'[q], NEW n \in DOMAIN victims'[q],
             victims'[q][m].key = victims'[q][n].key
      PROVE  m = n
  <2>1. CASE q = p
    <3>1. victims'[q] = s
      BY <2>1 DEF EvictInv
    <3> QED BY <1>2, <3>1
  <2>2. CASE q # p
    <3>1. victims'[q] = victims[q]
      BY <2>2 DEF EvictInv
    <3> QED BY <1>2, <3>1 DEF EvictInv, VictimsInv
  <2> QED BY <2>1, <2>2
<1> QED BY <1>1, <1>2 DEF VictimsInv

\* Every step keeps the list of files by time and the lists of evictions.
LEMMA EvictNext == TypeInv /\ EvictInv /\ [Next]_vars => EvictInv'
<1> SUFFICES ASSUME TypeInv, EvictInv, [Next]_vars PROVE EvictInv'
  OBVIOUS
<1>t. FileTypeOK
  BY DEF TypeInv
<1>same. ASSUME UNCHANGED <<path, order, victims, over>> PROVE EvictInv'
  BY <1>same DEF EvictInv, OrderInv, LinkInv, VictimsInv, Listed
<1>lru. ASSUME UNCHANGED <<victims, over>>, OrderInv' /\ LinkInv' PROVE EvictInv'
  BY <1>lru DEF EvictInv, VictimsInv
<1>fs. ASSUME UNCHANGED <<path, order>>, VictimsInv',
              victims' \in [Proc -> Seq(Victim)], over' \in [Proc -> Nat]
       PROVE  EvictInv'
  BY <1>fs DEF EvictInv, OrderInv, LinkInv, Listed
<1>1. ASSUME NEW p \in Proc, NEW s \in Sig, DefineCallee(p, s) PROVE EvictInv'
  BY <1>1, <1>same DEF DefineCallee, fsVars, lruVars
<1>2. ASSUME NEW p \in Proc, NEW k \in Key, Call(p, k) PROVE EvictInv'
  BY <1>2, <1>same DEF Call, fsVars, lruVars
<1>u. ASSUME NEW k \in Key, Unlink(k) PROVE OrderInv' /\ LinkInv'
  BY <1>t, <1>u, UnlinkKeeps DEF EvictInv
<1>3. ASSUME NEW p \in Proc, Load(p) PROVE EvictInv'
  <2>1. CASE LoadDiscard(p)
    <3>1. key[p] \in Key /\ Unlink(key[p]) /\ UNCHANGED <<victims, over>>
      BY <2>1, <1>t DEF LoadDiscard, FileTypeOK, lruVars
    <3> QED BY <3>1, <1>u, <1>lru
  <2>2. CASE LoadOpen(p) \/ LoadLock(p) \/ LoadRead(p) \/ LoadUnlock(p) \/ LoadDecode(p)
    BY <2>2, <1>same DEF LoadOpen, LoadLock, LoadRead, LoadUnlock, LoadDecode, fsVars, lruVars
  <2> QED BY <1>3, <2>1, <2>2 DEF Load
<1>4. ASSUME NEW p \in Proc, Build(p) PROVE EvictInv'
  BY <1>4, <1>same DEF Build, BuildOk, BuildSyntaxError, BuildError, fsVars, lruVars
<1>o. ASSUME NEW i \in Inode, path' = path, order' = Touch(i) PROVE OrderInv' /\ LinkInv'
  <2>1. /\ Touch(i) \in Seq(Inode) /\ IsInjective(Touch(i))
        /\ ToSet(Touch(i)) = ToSet(order)
    BY <1>t, TouchKeeps DEF EvictInv
  <2>2. LinkInv' /\ Listed' = Listed /\ {path'[k] : k \in Listed'} = {path[k] : k \in Listed}
    BY <1>o DEF EvictInv, LinkInv, Listed
  <2> QED BY <1>o, <2>1, <2>2 DEF EvictInv, OrderInv
<1>5. ASSUME NEW p \in Proc, Save(p) PROVE EvictInv'
  <2>1. CASE SaveOpen(p)
    <3>1. PICK i \in Inode :
            IF path[key[p]] = NoInode
            THEN /\ i \notin InUse
                 /\ path' = [path EXCEPT ![key[p]] = i]
                 /\ order' = Append(order, i)
            ELSE order' = Touch(i) /\ path' = path
      BY <2>1 DEF SaveOpen
    <3>2. UNCHANGED <<victims, over>> /\ key[p] \in Key
      BY <2>1, <1>t DEF SaveOpen, lruVars, FileTypeOK
    <3>3. CASE path[key[p]] # NoInode
      BY <3>1, <3>2, <3>3, <1>o, <1>lru
    <3>4. CASE path[key[p]] = NoInode
      <4>1. i \notin ToSet(order) /\ \A k \in Key : path[k] # i
        BY <3>1, <3>4 DEF EvictInv, OrderInv, InUse, Listed
      <4>2. order \in Seq(Inode) /\ IsInjective(order)
        BY DEF EvictInv, OrderInv
      <4>3. /\ order' \in Seq(Inode) /\ IsInjective(order')
            /\ ToSet(order') = ToSet(order) \cup {i}
        <5>1. order' = Append(order, i)
          BY <3>1, <3>4
        <5>2. /\ Append(order, i) \in Seq(Inode) /\ IsInjective(Append(order, i))
              /\ ToSet(Append(order, i)) = ToSet(order) \cup {i}
          BY <4>1, <4>2, Appended
        <5> QED BY <5>1, <5>2
      <4>4. path' = [path EXCEPT ![key[p]] = i] /\ path \in [Key -> Inode \cup {NoInode}]
        BY <3>1, <3>4, <1>t DEF FileTypeOK
      <4>5. /\ Listed' = Listed \cup {key[p]} /\ key[p] \notin Listed
            /\ path'[key[p]] = i /\ \A l \in Listed : path'[l] = path[l]
        BY <3>2, <3>4, <4>4, SentinelAssumption DEF Listed
      <4>6. LinkInv'
        BY <4>1, <4>5 DEF LinkInv, EvictInv, Listed
      <4>7. {path'[k] : k \in Listed'} = {path[k] : k \in Listed} \cup {i}
        BY <4>5
      <4>8. OrderInv'
        BY <4>3, <4>7 DEF OrderInv, EvictInv
      <4> QED BY <3>2, <4>6, <4>8, <1>lru
    <3> QED BY <3>3, <3>4
  <2>2. CASE SaveWrite(p)
    <3>1. fd[p] \in Inode /\ path' = path /\ order' = Touch(fd[p])
      BY <2>2, <1>t DEF SaveWrite, TypeInv, FileTypeOK, FdInv, OpenAt
    <3>2. UNCHANGED <<victims, over>>
      BY <2>2 DEF SaveWrite, lruVars
    <3> QED BY <3>1, <3>2, <1>o, <1>lru
  <2>3. CASE SaveSkip(p) \/ SaveLock(p) \/ SaveWriteError(p)
    BY <2>3, <1>same DEF SaveSkip, SaveLock, SaveWriteError, fsVars, lruVars
  <2> QED BY <1>5, <2>1, <2>2, <2>3 DEF Save
<1>none. ASSUME NEW p \in Proc, victims' = [victims EXCEPT ![p] = <<>>]
         PROVE  VictimsInv' /\ victims' \in [Proc -> Seq(Victim)]
  <2>1. <<>> \in Seq(Victim) /\ \A m, n \in DOMAIN <<>> : <<>>[m].key = <<>>[n].key => m = n
    OBVIOUS
  <2> QED BY <1>none, <2>1, VictimsStay
<1>6. ASSUME NEW p \in Proc, Evict(p) PROVE EvictInv'
  <2>1. CASE EvictScan(p)
    <3>1. UNCHANGED <<path, order>>
      BY <2>1 DEF EvictScan, fsVars
    <3>2. CASE UNCHANGED <<victims, over>>
      BY <3>1, <3>2, <1>same
    <3>3. CASE /\ ~ (Bytes <= MaxBytes)
               /\ victims' = [victims EXCEPT ![p] = ByAge]
               /\ over' = [over EXCEPT ![p] = Bytes - MaxBytes]
      <4>1. Bytes - MaxBytes \in Nat
        BY <3>3, <1>t, LengthsType, BoundAssumption
      <4>2. over' \in [Proc -> Nat]
        BY <3>3, <4>1 DEF EvictInv
      <4>3. VictimsInv' /\ victims' \in [Proc -> Seq(Victim)]
        <5>1. /\ ByAge \in Seq(Victim)
              /\ \A m, n \in DOMAIN ByAge : ByAge[m].key = ByAge[n].key => m = n
          BY <1>t, ByAgeFacts DEF EvictInv
        <5> QED BY <3>3, <5>1, VictimsStay
      <4> QED BY <3>1, <4>2, <4>3, <1>fs
    <3> QED BY <2>1, <3>2, <3>3 DEF EvictScan, lruVars
  <2>2. CASE EvictOne(p)
    <3>1. PICK v : v = Head(victims[p])
      OBVIOUS
    <3>2. /\ Unlink(v.key)
          /\ victims' = [victims EXCEPT ![p] = Tail(victims[p])]
          /\ over' = [over EXCEPT ![p] = IF path[v.key] = NoInode \/ v.bytes > over[p]
                        THEN (IF path[v.key] = NoInode THEN over[p] ELSE 0)
                        ELSE over[p] - v.bytes]
      BY <2>2, <3>1 DEF EvictOne
    <3>3. victims[p] \in Seq(Victim) /\ victims[p] # <<>> /\ over[p] \in Nat
      BY <2>2 DEF EvictOne, EvictInv
    <3>4. v \in Victim
      BY <3>1, <3>3
    <3>5. v.key \in Key /\ v.bytes \in Nat
      BY <3>4, SizeAssumption DEF Victim
    <3>6. OrderInv' /\ LinkInv'
      BY <3>2, <3>5, <1>u
    <3>7. over' \in [Proc -> Nat]
      BY <3>2, <3>3, <3>5 DEF EvictInv
    <3>8. VictimsInv' /\ victims' \in [Proc -> Seq(Victim)]
      <4> DEFINE s == Tail(victims[p])
      <4>1. s \in Seq(Victim) /\ \A n \in DOMAIN s : s[n] = victims[p][n + 1] /\ n + 1 \in DOMAIN victims[p]
        BY <3>3
      <4>2. \A m, n \in DOMAIN s : s[m].key = s[n].key => m = n
        <5>1. \A n \in DOMAIN s : n \in Nat
          BY <4>1
        <5>2. \A m, n \in DOMAIN victims[p] : victims[p][m].key = victims[p][n].key => m = n
          BY DEF EvictInv, VictimsInv
        <5> HIDE DEF s
        <5>3. ASSUME NEW m \in DOMAIN s, NEW n \in DOMAIN s, s[m].key = s[n].key PROVE m = n
          <6>1. m + 1 = n + 1
            BY <4>1, <5>2, <5>3
          <6> QED BY <5>1, <6>1
        <5> QED BY <5>3
      <4> QED BY <3>2, <4>1, <4>2, VictimsStay
    <3> QED BY <3>6, <3>7, <3>8 DEF EvictInv
  <2>3. CASE EvictDone(p)
    <3>1. UNCHANGED <<path, order>> /\ over' \in [Proc -> Nat]
      BY <2>3 DEF EvictDone, fsVars, EvictInv
    <3>2. VictimsInv' /\ victims' \in [Proc -> Seq(Victim)]
      BY <2>3, <1>none DEF EvictDone
    <3> QED BY <3>1, <3>2, <1>fs
  <2> QED BY <1>6, <2>1, <2>2, <2>3 DEF Evict
<1>7. ASSUME NEW p \in Proc, Finish(p) PROVE EvictInv'
  <2>1. CASE CompileOk(p) \/ CompileError(p)
    BY <2>1, <1>same DEF CompileOk, CompileError, fsVars, lruVars
  <2>2. CASE Invalidate(p)
    <3>1. key[p] \in Key /\ Unlink(key[p]) /\ UNCHANGED <<victims, over>>
      BY <2>2, <1>t DEF Invalidate, FileTypeOK, lruVars
    <3> QED BY <3>1, <1>u, <1>lru
  <2> QED BY <1>7, <2>1, <2>2 DEF Finish
<1>8. ASSUME NEW p \in Proc, Crash(p) PROVE EvictInv'
  <2>1. UNCHANGED <<path, order>> /\ over' \in [Proc -> Nat]
    BY <1>8 DEF Crash, fsVars, EvictInv
  <2>2. VictimsInv' /\ victims' \in [Proc -> Seq(Victim)]
    BY <1>8, <1>none DEF Crash
  <2> QED BY <2>1, <2>2, <1>fs
<1>9. ASSUME NEW p \in Proc, Interrupt(p) PROVE EvictInv'
  BY <1>9, <1>same DEF Interrupt, LoadFail, SaveLockError, fsVars, lruVars
<1>10. CASE UNCHANGED vars
  BY <1>10, <1>same DEF vars, fsVars, lruVars
<1> QED BY <1>1, <1>2, <1>3, <1>4, <1>5, <1>6, <1>7, <1>8, <1>9, <1>10 DEF Next, Step, Terminated

\* Every variable keeps its type, and the list by modification time names the
\* linked files once each, whatever the processes do to them.
THEOREM TypesCorrect == Spec => []TypeOK
<1>1. Init => TypeInv /\ EvictInv
  BY TypeInit, EvictInit
<1>2. TypeInv /\ EvictInv /\ [Next]_vars => (TypeInv /\ EvictInv)'
  BY TypeNext, EvictNext
<1>3. TypeInv /\ EvictInv => TypeOK
  BY DEF TypeInv, EvictInv, OrderInv, Victim, TypeOK, EvictTypeOK
<1> QED BY <1>1, <1>2, <1>3, PTL DEF Spec

----------------------------------------------------------------------------
(***************************************************************************)
(* The budget, on a disk that does not fill up.  As long as the files may  *)
(* be over it, some process is about to look at the directory or works on  *)
(* a list with which it will succeed.  Such a list need not be up to date: *)
(* it has an upper bound b of the size of each file, the bounds exceed the *)
(* budget by no more than the process has still to free, and every file    *)
(* that may have contents is in the list with its bound.  A file that      *)
(* grows breaks this for every list there is, but then its writer is about *)
(* to look at the directory.                                               *)
(***************************************************************************)
Bounds(p, b) ==
  /\ \A k \in Key : Lengths[k] <= b[k]
  /\ SumFunction(b) <= MaxBytes + over[p]
  /\ \A k \in Key : b[k] # 0 => \E n \in DOMAIN victims[p] : victims[p][n].key = k
  /\ \A n \in DOMAIN victims[p] : b[victims[p][n].key] = victims[p][n].bytes

Evicting(p) == pc[p] = "evict" /\ \E b \in [Key -> 0 .. MaxLen] : Bounds(p, b)

BudgetInv ==
  \/ crashes # 0
  \/ Bytes <= MaxBytes
  \/ \E p \in Proc : pc[p] = "scan" \/ Evicting(p)

\* Every file is as long as it was, or shorter.
Shrinking == \A k \in Key : Lengths'[k] <= Lengths[k]

\* A step that leaves the files alone leaves their sizes alone.
LEMMA ShrinkingUnchanged ==
  ASSUME FileTypeOK, UNCHANGED <<path, data>>
  PROVE  Shrinking /\ Lengths' = Lengths /\ Bytes' = Bytes
<1>1. Lengths' = Lengths
  BY DEF Lengths
<1>2. \A k \in Key : Lengths[k] \in Nat
  BY LengthsType
<1> QED BY <1>1, <1>2 DEF Shrinking, Bytes

\* A removed file takes no bytes.
LEMMA ShrinkingUnlink ==
  ASSUME FileTypeOK, NEW k \in Key, Unlink(k)
  PROVE  Shrinking /\ Lengths'[k] = 0
<1>1. path' = [path EXCEPT ![k] = NoInode] /\ data' = data /\ path \in [Key -> Inode \cup {NoInode}]
  BY DEF Unlink, FileTypeOK
<1>2. Lengths'[k] = 0 /\ \A l \in Key : l # k => Lengths'[l] = Lengths[l]
  BY <1>1 DEF Lengths
<1>3. \A l \in Key : Lengths[l] \in Nat
  BY LengthsType
<1> QED BY <1>2, <1>3 DEF Shrinking

\* Neither does one that is opened for writing, until it is written.
LEMMA ShrinkingOpen ==
  ASSUME FileTypeOK, NEW p \in Proc, SaveOpen(p)
  PROVE  Shrinking
<1>1. PICK i \in Inode :
        /\ \/ path' = path
           \/ path' = [path EXCEPT ![key[p]] = i]
        /\ data' = [data EXCEPT ![i] = Blank]
  BY DEF SaveOpen
<1>2. \A l \in Key : Lengths[l] \in Nat
  BY LengthsType
<1>3. /\ path \in [Key -> Inode \cup {NoInode}] /\ key[p] \in Key
      /\ data \in [Inode -> [Pos -> Cell \cup {Eof, Hole}]]
  BY DEF FileTypeOK
<1>4. ASSUME NEW k \in Key PROVE Lengths'[k] <= Lengths[k]
  <2>1. Lengths'[k] = IF path'[k] = NoInode THEN 0 ELSE Length(data'[path'[k]])
    BY DEF Lengths
  <2>2. CASE path'[k] = NoInode
    BY <1>2, <2>1, <2>2
  <2>3. CASE path'[k] = i
    <3>1. data'[i] = Blank /\ i # NoInode
      BY <1>1, <1>3, SentinelAssumption
    <3> QED BY <1>2, <2>1, <2>3, <3>1, LengthType
  <2>4. CASE path'[k] # i /\ path'[k] # NoInode
    <3>1. path'[k] = path[k] /\ path[k] \in Inode
      BY <1>1, <1>3, <2>4
    <3>2. data'[path[k]] = data[path[k]]
      BY <1>1, <1>3, <2>4, <3>1
    <3>3. Lengths'[k] = Lengths[k]
      BY <2>1, <2>4, <3>1, <3>2 DEF Lengths
    <3> QED BY <1>2, <3>3
  <2> QED BY <2>2, <2>3, <2>4
<1> QED BY <1>4 DEF Shrinking

\* While no file grows, a list keeps the promise it holds,
LEMMA EvictingStays ==
  ASSUME FileTypeOK, FileTypeOK', Shrinking, NEW p \in Proc, Evicting(p),
         pc'[p] = pc[p], victims'[p] = victims[p], over'[p] = over[p]
  PROVE  Evicting(p)'
<1>1. PICK b \in [Key -> 0 .. MaxLen] : Bounds(p, b)
  BY DEF Evicting
<1>2. \A k \in Key : Lengths'[k] <= b[k]
  <2>1. Lengths \in [Key -> Nat]
    BY LengthsType
  <2>2. Lengths' \in [Key -> Nat]
    BY LengthsTypeNext DEF LengthsOK
  <2>3. \A k \in Key : b[k] \in Nat
    BY SizeAssumption
  <2> QED BY <1>1, <2>1, <2>2, <2>3 DEF Shrinking, Bounds
<1>3. Bounds(p, b)'
  BY <1>1, <1>2 DEF Bounds
<1> QED BY <1>3 DEF Evicting

\* and files that fit go on to fit.
LEMMA BytesShrink ==
  ASSUME FileTypeOK, FileTypeOK', Shrinking, Bytes <= MaxBytes
  PROVE  Bytes' <= MaxBytes
<1>1. Lengths \in [Key -> Nat] /\ Bytes \in Nat
  BY LengthsType
<1>2. Lengths' \in [Key -> Nat] /\ Bytes' \in Nat
  BY LengthsTypeNext DEF LengthsOK
<1>3. Bytes' <= Bytes
  <2>1. PICK g, h : g = Lengths' /\ h = Lengths
    OBVIOUS
  <2>2. g \in [Key -> Nat] /\ h \in [Key -> Nat] /\ \A k \in Key : g[k] <= h[k]
    BY <1>1, <1>2, <2>1 DEF Shrinking
  <2>3. SumFunction(g) <= SumFunction(h)
    BY <2>2, SumGrows, KeyAssumption
  <2> QED BY <2>1, <2>3 DEF Bytes
<1> QED BY <1>1, <1>2, <1>3, BoundAssumption

\* A step of a process that is not evicting, after which no file is longer.
LEMMA BudgetStays ==
  ASSUME FileTypeOK, FileTypeOK', BudgetInv, Shrinking, NEW p \in Proc,
         pc[p] \notin {"scan", "evict"}, \A q \in Proc : q # p => pc'[q] = pc[q],
         UNCHANGED <<victims, over, crashes>>
  PROVE  BudgetInv'
<1>1. CASE crashes # 0
  BY <1>1 DEF BudgetInv
<1>2. CASE Bytes <= MaxBytes
  BY <1>2, BytesShrink DEF BudgetInv
<1>3. ASSUME NEW q \in Proc, pc[q] = "scan" PROVE BudgetInv'
  <2>1. pc'[q] = "scan"
    BY <1>3
  <2> QED BY <2>1 DEF BudgetInv
<1>4. ASSUME NEW q \in Proc, Evicting(q) PROVE BudgetInv'
  <2>1. pc'[q] = pc[q]
    BY <1>4 DEF Evicting
  <2>2. Evicting(q)'
    BY <1>4, <2>1, EvictingStays
  <2> QED BY <2>2 DEF BudgetInv
<1> QED BY <1>1, <1>2, <1>3, <1>4 DEF BudgetInv

\* A list that is fresh from the directory holds its promise.
LEMMA BudgetScan ==
  ASSUME TypeInv, EvictInv, NEW p \in Proc, EvictScan(p)
  PROVE  BudgetInv'
<1>t. FileTypeOK
  BY DEF TypeInv
<1>1. Lengths' = Lengths /\ Bytes' = Bytes
  BY <1>t, ShrinkingUnchanged DEF EvictScan, fsVars
<1>2. CASE Bytes <= MaxBytes
  BY <1>1, <1>2 DEF BudgetInv
<1>3. CASE ~ (Bytes <= MaxBytes)
  <2>1. /\ pc' = [pc EXCEPT ![p] = "evict"]
        /\ victims' = [victims EXCEPT ![p] = ByAge]
        /\ over' = [over EXCEPT ![p] = Bytes - MaxBytes]
    BY <1>3 DEF EvictScan, Goto
  <2>2. pc'[p] = "evict" /\ victims'[p] = ByAge /\ over'[p] = Bytes - MaxBytes
    BY <2>1, <1>t DEF FileTypeOK, EvictInv
  <2>3. PICK b \in [Key -> 0 .. MaxLen] : b = Lengths
    BY <1>t, LengthsType
  <2>4. Bytes \in Nat /\ b \in [Key -> Nat] /\ SumFunction(b) = Bytes
    BY <1>t, <2>3, LengthsType DEF Bytes
  <2>5. \A k \in Key : b[k] # 0 => k \in Listed
    BY <2>3 DEF Lengths, Listed
  <2>6. /\ \A n \in DOMAIN ByAge : b[ByAge[n].key] = ByAge[n].bytes
        /\ \A k \in Listed : \E n \in DOMAIN ByAge : ByAge[n].key = k
    BY <1>t, <2>3, ByAgeFacts DEF EvictInv
  <2>7. \A k \in Key : Lengths'[k] <= b[k]
    BY <1>1, <2>3, <2>4
  <2>8. SumFunction(b) <= MaxBytes + over'[p]
    BY <2>2, <2>4, BoundAssumption
  <2>9. Bounds(p, b)'
    BY <2>2, <2>5, <2>6, <2>7, <2>8 DEF Bounds
  <2> QED BY <2>2, <2>9 DEF BudgetInv, Evicting
<1> QED BY <1>2, <1>3

\* A removal lowers the bound of its file to nothing, by what it counts.
LEMMA BudgetOne ==
  ASSUME TypeInv, TypeInv', EvictInv, BudgetInv, NEW p \in Proc, EvictOne(p)
  PROVE  BudgetInv'
<1>t. FileTypeOK /\ FileTypeOK'
  BY DEF TypeInv
<1>1. PICK v : v = Head(victims[p])
  OBVIOUS
<1>2. /\ Unlink(v.key) /\ pc' = pc /\ crashes' = crashes
      /\ victims' = [victims EXCEPT ![p] = Tail(victims[p])]
      /\ over' = [over EXCEPT ![p] = IF path[v.key] = NoInode \/ v.bytes > over[p]
                    THEN (IF path[v.key] = NoInode THEN over[p] ELSE 0)
                    ELSE over[p] - v.bytes]
  BY <1>1 DEF EvictOne
<1>3. /\ victims[p] \in Seq(Victim) /\ victims[p] # <<>> /\ over[p] \in Nat
      /\ pc[p] = "evict"
  BY DEF EvictOne, EvictInv
<1>4. v \in Victim /\ v = victims[p][1] /\ 1 \in DOMAIN victims[p]
  BY <1>1, <1>3
<1>5. v.key \in Key /\ v.bytes \in Nat
  BY <1>4, SizeAssumption DEF Victim
<1>6. Shrinking /\ Lengths'[v.key] = 0
  BY <1>t, <1>2, <1>5, ShrinkingUnlink
<1>7. CASE crashes # 0
  BY <1>2, <1>7 DEF BudgetInv
<1>8. CASE Bytes <= MaxBytes
  BY <1>t, <1>6, <1>8, BytesShrink DEF BudgetInv
<1>9. ASSUME NEW q \in Proc, pc[q] = "scan" PROVE BudgetInv'
  BY <1>2, <1>9 DEF BudgetInv
<1>10. ASSUME NEW q \in Proc, q # p, Evicting(q) PROVE BudgetInv'
  <2>1. victims'[q] = victims[q] /\ over'[q] = over[q] /\ pc'[q] = pc[q]
    BY <1>2, <1>10 DEF EvictInv
  <2>2. Evicting(q)'
    BY <1>t, <1>6, <1>10, <2>1, EvictingStays
  <2> QED BY <2>2 DEF BudgetInv
<1>11. ASSUME Evicting(p) PROVE BudgetInv'
  <2>1. PICK b \in [Key -> 0 .. MaxLen] : Bounds(p, b)
    BY <1>11 DEF Evicting
  <2>2. PICK c \in [Key -> 0 .. MaxLen] : c = [b EXCEPT ![v.key] = 0]
    <3>1. 0 \in 0 .. MaxLen
      BY SizeAssumption
    <3>2. [b EXCEPT ![v.key] = 0] \in [Key -> 0 .. MaxLen]
      BY <3>1
    <3> QED BY <3>2
  <2>3. /\ b \in [Key -> Nat] /\ c \in [Key -> Nat]
        /\ c[v.key] = 0 /\ \A k \in Key : k # v.key => c[k] = b[k]
    BY <1>5, <2>2, SizeAssumption
  <2>4. b[v.key] = v.bytes
    BY <1>4, <2>1 DEF Bounds
  <2>5. SumFunction(c) + v.bytes = SumFunction(b) /\ SumFunction(c) \in Nat /\ SumFunction(b) \in Nat
    <3>1. SumFunction(c) + b[v.key] = SumFunction(b)
      <4>1. PICK k \in Key : k = v.key
        BY <1>5
      <4>2. c = [b EXCEPT ![k] = 0]
        BY <2>2, <4>1
      <4>3. SumFunction(c) + b[k] = SumFunction(b)
        <5>1. b \in [Key -> Nat] /\ c \in [Key -> Nat] /\ IsFiniteSet(Key)
          BY <2>3, KeyAssumption
        <5>2. Drops(b, k, c)
          BY <4>2 DEF Drops
        <5> QED BY <5>1, <5>2, SumWithout
      <4> QED BY <4>1, <4>3
    <3>2. SumFunction(c) \in Nat /\ SumFunction(b) \in Nat
      BY <2>3, SumType, KeyAssumption
    <3> QED BY <2>4, <3>1, <3>2
  <2>6. SumFunction(b) <= MaxBytes + over[p] /\ \A k \in Key : Lengths[k] <= b[k]
    BY <2>1 DEF Bounds
  <2>7. over'[p] = IF path[v.key] = NoInode \/ v.bytes > over[p]
                    THEN (IF path[v.key] = NoInode THEN over[p] ELSE 0)
                    ELSE over[p] - v.bytes
    BY <1>2 DEF EvictInv
  <2>8. SumFunction(c) <= MaxBytes + over'[p]
    BY <1>3, <1>5, <2>5, <2>6, <2>7, BoundAssumption
  <2>9. \A k \in Key : Lengths'[k] <= c[k]
    <3>1. Lengths \in [Key -> Nat]
      BY <1>t, LengthsType
    <3>2. Lengths' \in [Key -> Nat]
      BY <1>t, LengthsTypeNext DEF LengthsOK
    <3> QED BY <1>6, <2>3, <2>6, <3>1, <3>2 DEF Shrinking
  <2>10. PICK s \in Seq(Victim) : s = Tail(victims[p])
    <3>1. Tail(victims[p]) \in Seq(Victim)
      BY <1>3
    <3> QED BY <3>1
  <2>11. /\ victims'[p] = s
         /\ \A n \in DOMAIN s : n \in Nat /\ n + 1 \in DOMAIN victims[p] /\ s[n] = victims[p][n + 1] /\ n + 1 # 1
         /\ \A n \in DOMAIN victims[p] : n # 1 => n - 1 \in DOMAIN s /\ s[n - 1] = victims[p][n]
    <3>1. victims'[p] = s
      BY <1>2, <2>10 DEF EvictInv
    <3> QED BY <1>3, <2>10, <3>1
  <2>12. \A n \in DOMAIN victims[p] : n # 1 => victims[p][n].key # v.key
    BY <1>4 DEF EvictInv, VictimsInv
  <2>13. ASSUME NEW k \in Key, c[k] # 0 PROVE \E n \in DOMAIN s : s[n].key = k
    <3>1. k # v.key /\ b[k] # 0
      BY <2>3, <2>13
    <3>2. PICK n \in DOMAIN victims[p] : victims[p][n].key = k
      BY <2>1, <3>1 DEF Bounds
    <3>3. n # 1
      BY <1>4, <3>1, <3>2
    <3> QED BY <2>11, <3>2, <3>3
  <2>14. ASSUME NEW n \in DOMAIN s PROVE c[s[n].key] = s[n].bytes
    <3>1. s[n].key # v.key /\ s[n] = victims[p][n + 1] /\ n + 1 \in DOMAIN victims[p]
      BY <2>11, <2>12
    <3>2. s[n].key \in Key
      <4>1. s[n] \in Victim
        BY <2>10
      <4> QED BY <4>1 DEF Victim
    <3>3. b[s[n].key] = s[n].bytes
      BY <2>1, <3>1 DEF Bounds
    <3> QED BY <2>3, <3>1, <3>2, <3>3
  <2>15. Bounds(p, c)'
    BY <2>8, <2>9, <2>11, <2>13, <2>14 DEF Bounds
  <2>16. pc'[p] = "evict"
    BY <1>2, <1>3
  <2> QED BY <2>15, <2>16 DEF BudgetInv, Evicting
<1> QED BY <1>7, <1>8, <1>9, <1>10, <1>11 DEF BudgetInv

\* An eviction that ends has freed enough, or has emptied its list.
LEMMA BudgetDone ==
  ASSUME TypeInv, TypeInv', EvictInv, BudgetInv, NEW p \in Proc, EvictDone(p)
  PROVE  BudgetInv'
<1>t. FileTypeOK /\ FileTypeOK'
  BY DEF TypeInv
<1>1. /\ pc[p] = "evict" /\ pc' = [pc EXCEPT ![p] = "compile"]
      /\ victims' = [victims EXCEPT ![p] = <<>>] /\ over' = [over EXCEPT ![p] = 0]
      /\ crashes' = crashes
      /\ over[p] = 0 \/ victims[p] = <<>>
  BY DEF EvictDone, Goto
<1>2. Shrinking /\ Lengths' = Lengths /\ Bytes' = Bytes
  BY <1>t, ShrinkingUnchanged DEF EvictDone, fsVars
<1>3. CASE crashes # 0
  BY <1>1, <1>3 DEF BudgetInv
<1>4. CASE Bytes <= MaxBytes
  BY <1>2, <1>4 DEF BudgetInv
<1>5. ASSUME NEW q \in Proc, pc[q] = "scan" PROVE BudgetInv'
  <2>1. pc'[q] = "scan"
    BY <1>t, <1>1, <1>5 DEF FileTypeOK
  <2> QED BY <2>1 DEF BudgetInv
<1>6. ASSUME NEW q \in Proc, q # p, Evicting(q) PROVE BudgetInv'
  <2>1. victims'[q] = victims[q] /\ over'[q] = over[q] /\ pc'[q] = pc[q]
    BY <1>t, <1>1, <1>6 DEF EvictInv, FileTypeOK
  <2>2. Evicting(q)'
    BY <1>t, <1>2, <1>6, <2>1, EvictingStays
  <2> QED BY <2>2 DEF BudgetInv
<1>7. ASSUME Evicting(p) PROVE Bytes <= MaxBytes
  <2>1. PICK b \in [Key -> 0 .. MaxLen] : Bounds(p, b)
    BY <1>7 DEF Evicting
  <2>2. b \in [Key -> Nat] /\ Lengths \in [Key -> Nat] /\ Bytes \in Nat
    BY <1>t, LengthsType, SizeAssumption
  <2>3. Bytes <= SumFunction(b) /\ SumFunction(b) \in Nat
    <3>1. \A k \in Key : Lengths[k] <= b[k]
      BY <2>1 DEF Bounds
    <3>2. SumFunction(Lengths) <= SumFunction(b)
      BY <2>2, <3>1, SumGrows, KeyAssumption
    <3>3. SumFunction(b) \in Nat
      BY <2>2, SumType, KeyAssumption
    <3> QED BY <3>2, <3>3 DEF Bytes
  <2>4. CASE over[p] = 0
    BY <2>1, <2>2, <2>3, <2>4, BoundAssumption DEF Bounds
  <2>5. CASE victims[p] = <<>>
    <3>1. \A k \in Key : b[k] = 0
      BY <2>1, <2>5 DEF Bounds
    <3>2. SumFunction(b) = 0
      BY <2>2, <3>1, SumOfZeros, KeyAssumption
    <3> QED BY <2>2, <2>3, <3>2, BoundAssumption
  <2> QED BY <1>1, <2>4, <2>5
<1> QED BY <1>3, <1>4, <1>5, <1>6, <1>7 DEF BudgetInv

\* An empty directory fits any budget.
LEMMA BudgetInit == Init => BudgetInv
<1> SUFFICES ASSUME Init PROVE BudgetInv
  OBVIOUS
<1>1. FileTypeOK
  BY TypeInit DEF TypeInv
<1>2. Lengths \in [Key -> Nat] /\ \A k \in Key : Lengths[k] = 0
  BY <1>1, LengthsType DEF Init, Lengths
<1>3. Bytes = 0
  BY <1>2, SumOfZeros, KeyAssumption DEF Bytes
<1> QED BY <1>3, BoundAssumption DEF BudgetInv

\* Every step keeps the promise; the only one after which a file is longer is
\* a whole payload being written, and its writer looks at the directory next.
LEMMA BudgetNext ==
  ASSUME ShortWrites = FALSE, TypeInv, TypeInv', EvictInv, BudgetInv, [Next]_vars
  PROVE  BudgetInv'
<1>t. FileTypeOK /\ FileTypeOK'
  BY DEF TypeInv
\* A step of a call before evict_lru that leaves every file alone or shorter.
<1>step. ASSUME NEW p \in Proc, NEW l, pc[p] \notin {"scan", "evict"}, Goto(p, l) \/ pc' = pc,
                UNCHANGED <<victims, over, crashes>>, Shrinking
         PROVE  BudgetInv'
  <2>1. \A q \in Proc : q # p => pc'[q] = pc[q]
    BY <1>t, <1>step DEF Goto, FileTypeOK
  <2> QED BY <1>t, <1>step, <2>1, BudgetStays
<1>fs. ASSUME UNCHANGED fsVars PROVE Shrinking
  BY <1>t, <1>fs, ShrinkingUnchanged DEF fsVars
<1>u. ASSUME NEW p \in Proc, Unlink(key[p]) PROVE Shrinking
  <2>1. key[p] \in Key
    BY <1>t DEF FileTypeOK
  <2> QED BY <1>t, <1>u, <2>1, ShrinkingUnlink
<1>1. ASSUME NEW p \in Proc, NEW s \in Sig, DefineCallee(p, s) PROVE BudgetInv'
  BY <1>1, <1>step, <1>fs DEF DefineCallee, lruVars
<1>2. ASSUME NEW p \in Proc, NEW k \in Key, Call(p, k) PROVE BudgetInv'
  BY <1>2, <1>step, <1>fs DEF Call, lruVars
<1>3. ASSUME NEW p \in Proc, Load(p) PROVE BudgetInv'
  <2>1. CASE LoadOpen(p)
    BY <2>1, <1>step, <1>fs DEF LoadOpen, lruVars
  <2>2. CASE LoadLock(p)
    BY <2>2, <1>step, <1>fs DEF LoadLock, lruVars
  <2>3. CASE LoadRead(p)
    BY <2>3, <1>step, <1>fs DEF LoadRead, lruVars
  <2>4. CASE LoadUnlock(p)
    BY <2>4, <1>step, <1>fs DEF LoadUnlock, lruVars
  <2>5. CASE LoadDecode(p)
    BY <2>5, <1>step, <1>fs DEF LoadDecode, lruVars
  <2>6. CASE LoadDiscard(p)
    BY <2>6, <1>step, <1>u DEF LoadDiscard, lruVars
  <2> QED BY <1>3, <2>1, <2>2, <2>3, <2>4, <2>5, <2>6 DEF Load
<1>4. ASSUME NEW p \in Proc, Build(p) PROVE BudgetInv'
  BY <1>4, <1>step, <1>fs DEF Build, BuildOk, BuildSyntaxError, BuildError, lruVars
<1>5. ASSUME NEW p \in Proc, Save(p) PROVE BudgetInv'
  <2>1. CASE SaveOpen(p)
    <3>1. Shrinking
      BY <1>t, <2>1, ShrinkingOpen
    <3> QED BY <2>1, <3>1, <1>step DEF SaveOpen, lruVars
  <2>2. CASE SaveSkip(p)
    BY <2>2, <1>step, <1>fs DEF SaveSkip, lruVars
  <2>3. CASE SaveLock(p)
    BY <2>3, <1>step, <1>fs DEF SaveLock, lruVars
  <2>4. CASE SaveWrite(p)
    <3>1. Goto(p, "scan")
      BY <2>4 DEF SaveWrite
    <3>2. pc'[p] = "scan"
      BY <1>t, <3>1 DEF Goto, FileTypeOK
    <3> QED BY <3>2 DEF BudgetInv
  <2>5. CASE SaveWriteError(p)
    BY <2>5 DEF SaveWriteError
  <2> QED BY <1>5, <2>1, <2>2, <2>3, <2>4, <2>5 DEF Save
<1>6. ASSUME NEW p \in Proc, Evict(p) PROVE BudgetInv'
  BY <1>6, BudgetScan, BudgetOne, BudgetDone DEF Evict
<1>7. ASSUME NEW p \in Proc, Finish(p) PROVE BudgetInv'
  <2>1. CASE CompileOk(p)
    BY <2>1, <1>step, <1>fs DEF CompileOk, lruVars
  <2>2. CASE CompileError(p)
    BY <2>2, <1>step, <1>fs DEF CompileError, lruVars
  <2>3. CASE Invalidate(p)
    BY <2>3, <1>step, <1>u DEF Invalidate, lruVars
  <2> QED BY <1>7, <2>1, <2>2, <2>3 DEF Finish
<1>8. ASSUME NEW p \in Proc, Crash(p) PROVE BudgetInv'
  <2>1. crashes \in Nat /\ crashes' = crashes + 1
    BY <1>t, <1>8, BoundAssumption DEF Crash, FileTypeOK
  <2>2. crashes' # 0
    BY <2>1
  <2> QED BY <2>2 DEF BudgetInv
<1>9. ASSUME NEW p \in Proc, Interrupt(p) PROVE BudgetInv'
  <2>1. CASE LoadFail(p)
    BY <2>1, <1>step, <1>fs DEF LoadFail, lruVars
  <2>2. CASE SaveLockError(p)
    BY <2>2, <1>step, <1>fs DEF SaveLockError, lruVars
  <2> QED BY <1>9, <2>1, <2>2 DEF Interrupt
<1>10. CASE UNCHANGED vars
  <2>1. Lengths' = Lengths /\ Bytes' = Bytes
    BY <1>t, <1>10, ShrinkingUnchanged DEF vars, fsVars
  <2> QED BY <1>10, <2>1 DEF vars, lruVars, BudgetInv, Evicting, Bounds
<1> QED BY <1>1, <1>2, <1>3, <1>4, <1>5, <1>6, <1>7, <1>8, <1>9, <1>10 DEF Next, Step, Terminated

\* On a disk that does not fill up, the files fit the budget whenever no call
\* is in progress and no process has been killed: lists of evict_lru that are
\* out of date because another process saves or evicts do no harm.
THEOREM BudgetKept ==
  ASSUME ShortWrites = FALSE
  PROVE  Spec => []WithinBudget
<1>1. Init => TypeInv /\ EvictInv /\ BudgetInv
  BY TypeInit, EvictInit, BudgetInit
<1>2. TypeInv /\ EvictInv /\ BudgetInv /\ [Next]_vars => (TypeInv /\ EvictInv /\ BudgetInv)'
  BY TypeNext, EvictNext, BudgetNext
<1>3. BudgetInv => WithinBudget
  BY DEF BudgetInv, WithinBudget, Evicting
<1> QED BY <1>1, <1>2, <1>3, PTL DEF Spec
=============================================================================
