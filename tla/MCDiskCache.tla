---------------------------- MODULE MCDiskCache ----------------------------
(* Two processes share the cache; payloads of one to three chunks.          *)
EXTENDS DiskCache, TLC

CONSTANTS p1, p2, k1, k2, i1, i2, i3, s1, s2

MCSize == [d \in Dep |-> IF d = NoSig THEN 1 ELSE IF d = s1 THEN 2 ELSE 3]
MCPair == [d \in Dep |-> 2]
MCSize1 == [d \in Dep |-> IF d = NoSig THEN 1 ELSE 2]
\* Inodes, processes and keys are interchangeable (Proc and Key are the sets
\* of the run; neither is used with symmetry when a liveness property is).
Symm == Permutations(Inode) \cup Permutations(Proc) \cup Permutations(Key)
=============================================================================
