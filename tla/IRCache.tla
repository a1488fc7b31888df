------------------------------ MODULE IRCache ------------------------------
(***************************************************************************)
(* What verify_and_compile may rely on from its on-disk cache, whatever    *)
(* files, locks and evictions do underneath: a call goes on with IR that   *)
(* some process has verified for the same key, against the signature the   *)
(* callee has in the calling process now (or no recorded signature), or it *)
(* builds and verifies its own.  Entries may vanish at any time, so a      *)
(* lookup may always miss.                                                 *)
(***************************************************************************)
CONSTANTS Proc, Key, Sig, NoSig, NoIR, Fresh

Payload == [key : Key, dep : Sig \cup {NoSig}, by : Proc]

VARIABLES
  calling,   \* processes with a call in progress
  key,       \* hash of the call
  reg,       \* registered signature of the callee, per process
  loaded,    \* IR the call goes on with
  verified   \* payloads verified so far

vars == <<calling, key, reg, loaded, verified>>

Init ==
  /\ calling = {}
  /\ key \in [Proc -> Key]
  /\ reg = [p \in Proc |-> NoSig]
  /\ loaded = [p \in Proc |-> NoIR]
  /\ verified = {}

DefineCallee(p, s) ==
  /\ p \notin calling
  /\ reg' = [reg EXCEPT ![p] = s]
  /\ UNCHANGED <<calling, key, loaded, verified>>

Call(p, k) ==
  /\ p \notin calling
  /\ calling' = calling \cup {p}
  /\ key' = [key EXCEPT ![p] = k]
  /\ UNCHANGED <<reg, loaded, verified>>

Hit(p) ==
  /\ p \in calling /\ loaded[p] = NoIR
  /\ \E pl \in verified :
       /\ pl.key = key[p] /\ pl.dep \in {NoSig, reg[p]}
       /\ loaded' = [loaded EXCEPT ![p] = pl]
  /\ UNCHANGED <<calling, key, reg, verified>>

Verify(p) ==
  /\ p \in calling /\ loaded[p] = NoIR
  /\ loaded' = [loaded EXCEPT ![p] = Fresh]
  /\ verified' = verified \cup {[key |-> key[p], dep |-> reg[p], by |-> p]}
  /\ UNCHANGED <<calling, key, reg>>

Return(p) ==
  /\ p \in calling
  /\ calling' = calling \ {p}
  /\ loaded' = [loaded EXCEPT ![p] = NoIR]
  /\ UNCHANGED <<key, reg, verified>>

Die(p) ==
  /\ p \in calling
  /\ calling' = calling \ {p}
  /\ loaded' = [loaded EXCEPT ![p] = NoIR]
  /\ reg' = [reg EXCEPT ![p] = NoSig]
  /\ UNCHANGED <<key, verified>>

Next == \E p \in Proc :
  \/ \E s \in Sig : DefineCallee(p, s)
  \/ \E k \in Key : Call(p, k)
  \/ Hit(p) \/ Verify(p) \/ Return(p) \/ Die(p)

Spec == Init /\ [][Next]_vars
=============================================================================
