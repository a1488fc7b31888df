------------------------------- MODULE Memory -------------------------------
(***************************************************************************)
(* Arrays and their slices, buffers, lists, strings and pointers: the      *)
(* addresses the machine code computes and the run time library's own      *)
(* tests (lirien-backend, lower/memory.rs and cranelift/mod.rs), against   *)
(* the array terms and bounds checks of lirien-verify, verifier/memory.rs. *)
(*                                                                         *)
(* A value of these types is a reference to an object of the heap.  To the *)
(* solver an array or a pointer is a term, here "view", that is never      *)
(* written again once the value is defined, and a buffer, a list or a      *)
(* string is its length.  Lengths and indices are words.                   *)
(***************************************************************************)
EXTENDS Scalars

Unsized == -1  \* an array type with no size

\* Exclusions: "slice": slices past the ends of an array or with a bound the
\* builder does not know, slices of strided slices, stores to slices, and
\* arrays of a type with no size;
\* "alias": access to an object by a value older than its last store;
\* "text": string slices that Python would clamp, and strings of one length
\* that are not the same.

Object(cells) == [cells |-> cells, version |-> 0]
NewObject == Len(heap) + 1
Written(obj, cells) ==
    [heap EXCEPT ![obj] = [cells |-> cells, version |-> @.version + 1]]

Array(obj, base, stride, size, view, soff, sstride, version) ==
    [kind |-> "array", obj |-> obj, base |-> base, stride |-> stride, size |-> size,
     view |-> view, soff |-> soff, sstride |-> sstride, version |-> version]
WholeArray(obj, size, view, version) == Array(obj, 0, 1, size, view, 0, 1, version)

\* a buffer or a list: what the solver knows is its length
Sized(kind, obj, len, version) ==
    [kind |-> kind, obj |-> obj, len |-> len, version |-> version]
Str(m, s) == [kind |-> "str", m |-> m, s |-> s]
Pointer(obj, view, version) ==
    [kind |-> "pointer", obj |-> obj, view |-> view, version |-> version]
Null == 0
Free == <<>>  \* a term nothing was asserted of yet

Current(a) == Keeps("alias", a.version = heap[a.obj].version)
Index(r) == Signed(regs[r].m)
Term(r) == Signed(regs[r].s)

\* what a term gives at an index: outside the cells it may give anything, so
\* also what the machine read
Select(view, i, read) == IF i \in DOMAIN view THEN view[i] ELSE read
StoreAt(view, i, w) == [k \in DOMAIN view |-> IF k = i THEN w ELSE view[k]]

\* check_bounds, check_slice_start_bounds and check_buffer_bounds: an array
\* type may have no size, a buffer, a list or a string has a length
OutOfLate(i, size) == size # Unsized /\ (i < 0 \/ i > size)
PastLengthEarly(i, len) == i < 0 \/ i + 1 >= len
OutOf(i, size) == size # Unsized /\ (i < 0 \/ i >= size)
StartOutOf(i, size) == size # Unsized /\ (i < 0 \/ i > size)
PastLength(i, len) == i < 0 \/ i >= len

(***************************************************************************)
(* Arrays.  A load or a store is not tested at run time.                   *)
(***************************************************************************)
Address(a, i) == a.base + i * a.stride
Physical(a, i) == a.soff + i * a.sstride

\* Stored at the address; the variable is bound to a result that has neither
\* the offset nor the stride of a slice.
Stored(a, at, w) == Written(a.obj, StoreAt(heap[a.obj].cells, at, w))
StoreResultStale(a, view) == Array(a.obj, a.base, 1, a.size, a.view, 0, 1, heap[a.obj].version + 1)
StoreResult(a, view) == Array(a.obj, a.base, 1, a.size, view, 0, 1, heap[a.obj].version + 1)

\* A slice starts at its first cell; its step multiplies the stride.
Sliced(a, lower, step, size) ==
    Array(a.obj, a.base + lower, a.stride * step, size, a.view, a.soff + lower, step, a.version)

ArrayLoad ==
    \E r \in Of("array"), i \in Of("int") :
        LET a == regs[r]
            cells == heap[a.obj].cells
            at == Address(a, Index(i))
        IN  /\ Current(a)
            /\ IF at \in DOMAIN cells
               THEN Step(Int2(cells[at], Select(a.view, Physical(a, Term(i)), cells[at])),
                         TRUE, OutOf(Term(i), a.size), "none")
               ELSE Step(IntReg(0), TRUE, OutOf(Term(i), a.size), "out of bounds")

ArrayStore ==
    \E r \in Of("array"), i, v \in Of("int") :
        LET a == regs[r]
            cells == heap[a.obj].cells
            at == Address(a, Index(i))
            view == StoreAt(a.view, Physical(a, Term(i)), regs[v].s)
            dest == StoreResult(a, view)
        IN  /\ Current(a)
            /\ Keeps("slice", a.base = 0 /\ a.stride = 1)
            /\ IF at \in DOMAIN cells
               THEN Effect(dest, TRUE, OutOf(Term(i), a.size), "none", Stored(a, at, regs[v].m))
               ELSE Step(dest, TRUE, OutOf(Term(i), a.size), "out of bounds")

\* visit_array_slice: the size of a slice whose bounds are literals; a step
\* that is not one counts as 1
CeilDiv(i, j) == (i + j - 1) \div j
SliceSize(lower, upper, step) ==
    CASE step > 0 /\ upper > lower -> CeilDiv(upper - lower, step)
      [] step < 0 /\ lower > upper -> CeilDiv(lower - upper, -step)
      [] OTHER -> 0

Steps == {-1, 1, 2}
InRange(lower, upper, step, size) ==
    /\ lower \in 0 .. size
    /\ IF step > 0 THEN upper \in 0 .. size ELSE lower < size /\ upper >= -1

ArraySlice ==
    \E r \in Of("array"), lower, upper \in -1 .. Half - 1, step \in Steps,
       literal \in [bounds : BOOLEAN, step : BOOLEAN] :
        LET a == regs[r]
            size == IF literal.bounds
                    THEN SliceSize(lower, upper, IF literal.step THEN step ELSE 1)
                    ELSE Unsized
            last == lower + (size - 1) * step
        IN  /\ Current(a)
            /\ Keeps("slice", /\ literal.bounds /\ literal.step
                              /\ a.stride = 1
                              /\ InRange(lower, upper, step, a.size))
            /\ Step(Sliced(a, lower, step, size), TRUE,
                    StartOutOf(lower, a.size) \/ (size > 0 /\ last < 0), "none")

(***************************************************************************)
(* Buffers: a pointer and a length.  What they hold is not described.      *)
(***************************************************************************)
\* what a load gives, if the cell is there
Loaded(cells, n) == IF n \in DOMAIN cells THEN cells[n] ELSE 0

BufferLoad ==
    \E r \in Of("buffer"), i \in Of("int") :
        LET cells == heap[regs[r].obj].cells
            n == Index(i)
        IN  /\ Step(IntReg(Loaded(cells, n)), TRUE, PastLength(Term(i), regs[r].len),
                    IF n \in DOMAIN cells THEN "none" ELSE "out of bounds")

\* the result is the same buffer, with the same length
BufferStore ==
    \E r \in Of("buffer"), i, v \in Of("int") :
        LET b == regs[r]
            n == Index(i)
            past == PastLength(Term(i), b.len)
        IN  IF n \in DOMAIN heap[b.obj].cells
            THEN Effect(b, TRUE, past, "none", Stored(b, n, regs[v].m))
            ELSE Step(b, TRUE, past, "out of bounds")

BufferLen ==
    \E r \in Of("buffer") :
        /\ Define(Int2(Cardinality(DOMAIN heap[regs[r].obj].cells), regs[r].len), TRUE)

(***************************************************************************)
(* Lists: a header on the heap that grows in place.  The library tests     *)
(* every index, which it takes as unsigned, and panics.                    *)
(***************************************************************************)
ListFault(cells, w) == IF w >= Cardinality(DOMAIN cells) THEN "trap" ELSE "none"
ListLength(obj) == Cardinality(DOMAIN heap[obj].cells)
Grown(cells, w) ==
    LET n == Cardinality(DOMAIN cells)
    IN  [k \in 0 .. n |-> IF k = n THEN w ELSE cells[k]]

ListCreate ==
    Effect(Sized("list", NewObject, 0, 0), TRUE, FALSE, "none", Append(heap, Object(<<>>)))

ListAppend ==
    \E r \in Of("list"), v \in Of("int") :
        LET l == regs[r]
        IN  /\ Current(l)
            /\ Keeps("wrap", ListLength(l.obj) < Half - 1)
            /\ Effect(Sized("list", l.obj, l.len + 1, heap[l.obj].version + 1), TRUE, FALSE, "none",
                      Written(l.obj, Grown(heap[l.obj].cells, regs[v].m)))

ListLen ==
    \E r \in Of("list") :
        /\ Current(regs[r])
        /\ Define(Int2(ListLength(regs[r].obj), regs[r].len), TRUE)

ListLoad ==
    \E r \in Of("list"), i \in Of("int") :
        LET cells == heap[regs[r].obj].cells
        IN  /\ Current(regs[r])
            /\ Step(IntReg(Loaded(cells, regs[i].m)), TRUE,
                    PastLength(Term(i), regs[r].len), ListFault(cells, regs[i].m))

ListStore ==
    \E r \in Of("list"), i, v \in Of("int") :
        LET l == regs[r]
            fault2 == ListFault(heap[l.obj].cells, regs[i].m)
        IN  /\ Current(l)
            /\ Effect([l EXCEPT !.version = heap[l.obj].version + 1], TRUE,
                      PastLength(Term(i), l.len), fault2,
                      IF fault2 = "none" THEN Stored(l, regs[i].m, regs[v].m) ELSE heap)

(***************************************************************************)
(* Strings, as their lengths.                                              *)
(***************************************************************************)
ConstStr == \E n \in 0 .. 1 : Define(Str(n, n), TRUE)

StrLen == \E r \in Of("str") : Define(Int2(regs[r].m, regs[r].s), TRUE)

Concatenated(n1, n2) == n1 + n2
StrConcat ==
    \E l, r \in Of("str") :
        /\ Keeps("wrap", Concatenated(regs[l].m, regs[r].m) < Half)
        /\ Define(Str(Concatenated(regs[l].m, regs[r].m), ToWord(regs[l].s + regs[r].s)), TRUE)

\* two strings may be equal when their lengths are, and empty ones are
MaySame(n1, n2) == IF n1 # n2 THEN {FALSE} ELSE IF n1 = 0 THEN {TRUE} ELSE BOOLEAN

\* The library's answer is a byte 0 or 1, which != turns over.
StrResult(op, same) == Bit((op = "=") = same)

\* == and != of strings: the verifier takes the length for the string
CompareStr ==
    \E op \in {"=", "!="}, l, r \in Of("str") :
        \E same \in MaySame(regs[l].m, regs[r].m) :
            /\ Keeps("text", same = (regs[l].m = regs[r].m))
            /\ Define(Bool2(StrResult(op, same), Compare(op, regs[l].s, regs[r].s)), TRUE)

StrIndexFault(n, w) == IF w >= n THEN "trap" ELSE "none"
StrIndex ==
    \E r \in Of("str"), i \in Of("int") :
        Step(Str(1, 1), TRUE, PastLength(Term(i), regs[r].s), StrIndexFault(regs[r].m, regs[i].m))

\* lirien_str_slice counts from the end and clamps, the verifier does not
Between(i, j) == IF j > i THEN j - i ELSE 0
SliceLength(n, i, j) ==
    LET Clamp(k) == LET from == IF k < 0 THEN k + n ELSE k
                    IN  IF from < 0 THEN 0 ELSE IF from > n THEN n ELSE from
    IN  Between(Clamp(i), Clamp(j))

StrSlice ==
    \E r \in Of("str"), i, j \in Of("int") :
        LET n == regs[r].m
        IN  /\ Keeps("text", Index(i) \in 0 .. n /\ Index(j) \in 0 .. n)
            /\ Define(Str(SliceLength(n, Index(i), Index(j)), Between(Term(i), Term(j))), TRUE)

(***************************************************************************)
(* Pointers: boxes, made and filled at once, and the words behind a        *)
(* pointer parameter, such as the pending exception of a function.  A      *)
(* store of a scalar gives the pointer itself a new term.                  *)
(***************************************************************************)
Deref(p) ==
    Keeps("alias", p.obj # Null => p.version = heap[p.obj].version)

\* a load of the word at an offset; without one it is that at 0
LoadAt(r, off) ==
    LET p == regs[r]
    IN  /\ Deref(p)
        /\ p.view # Free
        /\ IF p.obj = Null
           THEN Step(IntReg(0), TRUE, TRUE, "null")
           ELSE Define(Int2(heap[p.obj].cells[off], p.view[off]), TRUE)
PointerLoad == \E r \in Of("pointer") : LoadAt(r, 0)
PointerLoadOffset == \E r \in Of("pointer") : LoadAt(r, 1)

\* A store defines no value: it gives pointer r a new term.
Retarget(r, view, formula, cells) ==
    LET p == regs[r]
    IN  /\ Running
        /\ heap[p.obj].version < MaxValues
        /\ heap' = Written(p.obj, cells)
        /\ regs' = [regs EXCEPT ![r].view = view, ![r].version = heap[p.obj].version + 1]
        /\ held' = formula
        /\ UNCHANGED <<flagged, fault>>

PutAt(r, off, v) ==
    LET p == regs[r]
    IN  /\ Deref(p)
        /\ p.view # Free
        /\ IF p.obj = Null
           THEN Step(p, TRUE, TRUE, "null")
           ELSE Retarget(r, StoreAt(p.view, off, regs[v].s), TRUE,
                         StoreAt(heap[p.obj].cells, off, regs[v].m))
PointerStore == \E r \in Of("pointer"), v \in Of("int") : PutAt(r, 0, v)
PointerStoreOffset == \E r \in Of("pointer"), v \in Of("int") : PutAt(r, 1, v)

\* Alloc and the store of a whole object, here an array, into the new box:
\* the term of the box is asserted to be that of the object
Alloc ==
    Effect(Pointer(NewObject, Free, 0), TRUE, FALSE, "none",
           Append(heap, Object([k \in 0 .. 1 |-> 0])))

PointerStoreWhole ==
    \E r, q \in Of("pointer") :
        LET p == regs[r]
            v == regs[q]
        IN  /\ p.obj # Null /\ v.obj # Null /\ v.view # Free
            /\ Deref(p) /\ Deref(v)
            /\ Keeps("alias", p.view = Free)
            /\ Retarget(r, v.view, p.view \in {Free, v.view}, heap[v.obj].cells)

\* loading a whole object gives the pointer back under another type
PointerLoadWhole ==
    \E r \in Of("pointer") :
        /\ regs[r].view # Free
        /\ Deref(regs[r])
        /\ IF regs[r].obj = Null THEN Step(regs[r], TRUE, TRUE, "null")
                                 ELSE Define(regs[r], TRUE)

(***************************************************************************)
(* The expressions and statements of the source, which become one          *)
(* instruction or another by the type of the object.                       *)
(***************************************************************************)
VisitCompare == CompareInt \/ CompareBool \/ CompareFloat \/ CompareStr
VisitSubscript == ArrayLoad \/ BufferLoad \/ ListLoad \/ StrIndex
AssignSubscript == ArrayStore \/ BufferStore \/ ListStore
VisitSlice == ArraySlice \/ StrSlice
VisitLen == BufferLen \/ ListLen \/ StrLen

MemoryNext ==
    \/ VisitCompare \/ VisitSubscript \/ AssignSubscript \/ VisitSlice \/ VisitLen
    \/ ListCreate \/ ListAppend \/ ConstStr \/ StrConcat
    \/ PointerLoad \/ PointerLoadOffset \/ PointerStore \/ PointerStoreOffset
    \/ Alloc \/ PointerStoreWhole \/ PointerLoadWhole

=============================================================================
