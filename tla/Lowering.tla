------------------------------ MODULE Lowering -------------------------------
(***************************************************************************)
(* A function of one block, verified and run: its parameters are any that  *)
(* satisfy their declared types, and its instructions are chosen freely.   *)
(* The verdict "verified" promises that no run of the machine code faults  *)
(* (README.md: "statically guarantee the absence of ... division by zero,  *)
(* out-of-bounds array/buffer accesses, null pointer dereferences").       *)
(***************************************************************************)
EXTENDS Memory

CONSTANT Starts  \* parameters and the memory they point to

\* What a parameter may be: what the verifier takes for granted of its type is
\* so, and the memory of a list, which may grow, is that of lists only.
Referring(memory, o) ==
    LET cells == memory[o].cells
        n == Cardinality(DOMAIN cells)
    IN  {WholeArray(o, n, cells, 0), Sized("buffer", o, n, 0)}
            \cup (IF "slice" \in Excluded THEN {} ELSE {WholeArray(o, Unsized, cells, 0)})
            \cup (IF n < Half THEN {Sized("list", o, n, 0)} ELSE {})
            \cup (IF n = 2 THEN {Pointer(o, cells, 0)} ELSE {})
Parameters(memory) ==
    (UNION {{IntReg(w), RefinedReg(w)} : w \in Word})
        \cup (UNION {{Bool2(Bit(t), t), Compared(t, t)} : t \in BOOLEAN})
        \cup {Float(f) : f \in FloatResults} \cup {Str(n, n) : n \in 0 .. Half - 1}
        \cup {Pointer(Null, view, 0) : view \in [0 .. 1 -> Word]}
        \cup (UNION {Referring(memory, o) : o \in DOMAIN memory})
References == {"array", "buffer", "list", "pointer"}
Apart(a, b) ==
    {a.kind, b.kind} \subseteq References /\ "list" \in {a.kind, b.kind} /\ a.obj = b.obj
        => a.kind = b.kind

ASSUME StartsAssumption ==
    \A start \in Starts :
        /\ start.heap \in Seq({Object(start.heap[o].cells) : o \in DOMAIN start.heap})
        /\ start.regs \in Seq(Parameters(start.heap))
        /\ \A o \in DOMAIN start.heap : \E n \in Word :
              start.heap[o].cells \in [0 .. n - 1 -> Word]
        /\ \A r, q \in DOMAIN start.regs : Apart(start.regs[r], start.regs[q])

Init ==
    /\ \E start \in Starts : regs = start.regs /\ heap = start.heap
    /\ held = TRUE
    /\ flagged = FALSE
    /\ fault = "none"

Next == ScalarNext \/ MemoryNext

Spec == Init /\ [][Next]_vars

-------------------------------------------------------------------------------
\* Every value refers to memory that exists and is of its kind.
TypeOK ==
    /\ \A r \in DOMAIN regs :
        CASE regs[r].kind = "int" -> regs[r].m \in Word /\ regs[r].s \in Word
          [] regs[r].kind = "bool" -> regs[r].m \in Word /\ regs[r].s \in {0, 1}
          [] regs[r].kind = "float" -> regs[r].m \in Floats \cup {NaN}
          [] regs[r].kind = "str" -> regs[r].m \in Nat /\ regs[r].s \in Word
          [] OTHER -> regs[r].obj \in 0 .. Len(heap)
    /\ \A o \in DOMAIN heap : \A k \in DOMAIN heap[o].cells : heap[o].cells[k] \in Word
    /\ fault \in Faults

(* What the solver calls a value is the value the machine code computed.   *)
(* Of a reference to memory that was written since, nothing is asked.      *)
Agrees(a) ==
    LET fresh == a.obj # Null /\ a.version = heap[a.obj].version
        cells == heap[a.obj].cells
    IN  CASE a.kind = "int" -> a.m = a.s
          [] a.kind = "bool" -> (a.m # 0) = (a.s = 1)
          [] a.kind = "float" -> TRUE
          [] a.kind = "str" -> a.m = a.s
          [] a.kind \in {"buffer", "list"} ->
               fresh => a.len = Cardinality(DOMAIN cells)
          [] a.kind = "array" ->
               fresh => \A i \in 0 .. a.size - 1 : a.view[Physical(a, i)] = cells[Address(a, i)]
          [] a.kind = "pointer" -> fresh /\ a.view # Free => a.view = cells

\* Every formula that was asserted of the function is true of every run: no
\* run escapes the verdict (verifier/arithmetic.rs, verifier/memory.rs and
\* the constraints of mod.rs against lower/arithmetic.rs and lower/memory.rs).
EveryRunCovered == held /\ (\A r \in DOMAIN regs : Agrees(regs[r]))

\* A run that divides by zero, leaves the domain of a function, follows a
\* null pointer or leaves an object is one the verifier refuses.
FaultsAreFlagged == fault # "none" => flagged

\* What is refused could go wrong: the checks of the verifier are no
\* stricter than the machine.  A slice is: its own end is not the end of the
\* memory it is in.
Whole(a) == a.size = Cardinality(DOMAIN heap[a.obj].cells)
FlagsAreReal ==
    flagged /\ (\A r \in Of("array") : Whole(regs[r])) => fault # "none"

=============================================================================
