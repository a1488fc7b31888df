-------------------------------- MODULE Layout --------------------------------
(***************************************************************************)
(* The bytes of structs, tuples, optionals and enums.                      *)
(*                                                                         *)
(* Where a field lies is computed anew in several places of the code:      *)
(* Type::size and Type::align (lirien-ir, ir/types.rs), the stores that    *)
(* build an object (lirien-backend, lower/memory.rs, lower/storage.rs and  *)
(* lower/tuples.rs), the offsets the builder puts in a load, the terms of  *)
(* the verifier (verifier/memory.rs, verifier/tuples.rs) and the ctypes    *)
(* classes of the Python types (types/definitions.py).                     *)
(*                                                                         *)
(* One object is built, stored to, read, and moved to another place (a     *)
(* box, a list, an array).  Its scalar fields are named by their paths.    *)
(* What a field holds is told apart by path and by age.                    *)
(*                                                                         *)
(* They do not all agree: the stores that build an enum align its payload  *)
(* as the payload asks, the load as the most aligned variant asks, and C   *)
(* as the most aligned variant with a payload asks (PayloadInPlace).       *)
(***************************************************************************)
EXTENDS Integers, Sequences, FiniteSets, Functions, TLC

CONSTANTS
    Roots,      \* the types an object may have
    MovesEnums  \* whether an enum, which Type::size gives no bytes, is ever moved

ASSUME MovesEnumsAssumption == MovesEnums \in BOOLEAN

VARIABLES
    ty,     \* the type of the object
    made,   \* the variant it was made with; 0 before it is made
    maker,  \* who made it
    mem,    \* its bytes, a partial function from offsets
    view,   \* what the solver's term gives, as far as a formula says it
    now,    \* what each field holds, for the program
    read,   \* the last field the program read and what it got
    held    \* whether every asserted formula is true of the run

layoutVars == <<ty, made, maker, mem, view, now, read, held>>

(***************************************************************************)
(* Types.                                                                  *)
(***************************************************************************)
Scalar(n) == [k |-> "scalar", size |-> n, parts |-> <<>>]
Composite(k, parts) == [k |-> k, size |-> 0, parts |-> parts]
Struct(parts) == Composite("struct", parts)
Tuple(parts) == Composite("tuple", parts)
NamedTuple(parts) == Composite("named", parts)
Enum(variants) == Composite("enum", variants)
\* a variant with no payload has an unknown type, which counts as a word
Unit == Composite("unit", <<>>)
\* the tag of an optional is a byte in front of it
Optional(inner) == Composite("optional", <<Scalar(1), inner>>)

IsComposite(t) == t.k # "scalar"
Flattened(t) == t.k \in {"tuple", "named"}

RoundUp(o, a) == ((o + a - 1) \div a) * a
Largest(S) == CHOOSE n \in S : \A m \in S : m <= n

\* Type::align and Type::size look an enum up among the structs, where it
\* is not: it has no size.
RECURSIVE Align(_)
Align(t) ==
    CASE t.k = "scalar" -> t.size
      [] t.k = "enum" -> 1
      [] t.k = "unit" -> 8
      [] OTHER -> Largest({1} \cup {Align(t.parts[i]) : i \in DOMAIN t.parts})

RECURSIVE Size(_)
Offsets(parts) ==
    LET off[i \in DOMAIN parts] ==
            RoundUp(IF i = 1 THEN 0 ELSE off[i - 1] + Size(parts[i - 1]), Align(parts[i]))
    IN  off
Size(t) ==
    CASE t.k = "scalar" -> t.size
      [] t.k = "enum" -> 0
      [] t.k = "unit" -> 8
      [] OTHER -> LET n == Len(t.parts)
                  IN  IF n = 0 THEN 0
                      ELSE RoundUp(Offsets(t.parts)[n] + Size(t.parts[n]), Align(t))

\* EnumCreate looks for the variants where they are
EnumAlign(t) == Largest({1} \cup {Align(t.parts[i]) : i \in DOMAIN t.parts})
EnumSize(t) ==
    RoundUp(RoundUp(1, EnumAlign(t)) + Largest({Size(t.parts[i]) : i \in DOMAIN t.parts}),
            EnumAlign(t))

(***************************************************************************)
(* Bytes.                                                                  *)
(***************************************************************************)
\* what a field holds: its first value, a newer one, or no value at all
Value(p, age) == [path |-> p, age |-> age]
First(p) == Value(p, 0)
Newer(p) == Value(p, 1)
Garbage == Value(<<>>, 2)
Tag(i) == Value(<<i>>, 3)

Nothing == <<>>
Bytes(o, n, v) == [b \in o .. o + n - 1 |-> <<v, b - o>>]
Copy(m, n, o) == [b \in {b \in o .. o + n - 1 : b - o \in DOMAIN m} |-> m[b - o]]
Fetch(m, o, n) ==
    IF \E v \in {m[b][1] : b \in DOMAIN m \cap {o}} :
          \A k \in 0 .. n - 1 : o + k \in DOMAIN m /\ m[o + k] = <<v, k>>
    THEN m[o][1] ELSE Garbage

\* Scalar fields of a type, as paths; of an enum, those of one variant
RECURSIVE Paths(_)
Paths(t) ==
    IF t.k = "scalar" THEN {<<>>}
    ELSE UNION {{<<i>> \o p : p \in Paths(t.parts[i])} : i \in DOMAIN t.parts}

(***************************************************************************)
(* The stores that build an object: StructCreate, TupleCreate and          *)
(* EnumCreate.  A struct, an optional or an enum is copied whole; a tuple  *)
(* is in registers and store_recursive puts each of them in its place.     *)
(***************************************************************************)
RECURSIVE Image(_, _)
RECURSIVE StoreRecursive(_, _, _)

\* what ends up in memory, and where the next one goes
StoreRecursive(t, path, at) ==
    LET start == RoundUp(at, Align(t))
    IN  IF ~Flattened(t)
        THEN [bytes |-> Copy(Image(t, path), Size(t), start), next |-> start + Size(t)]
        ELSE LET done[i \in 0 .. Len(t.parts)] ==
                     IF i = 0 THEN [bytes |-> Nothing, next |-> start]
                     ELSE LET part == StoreRecursive(t.parts[i], path \o <<i>>, done[i - 1].next)
                          IN  [bytes |-> part.bytes @@ done[i - 1].bytes, next |-> part.next]
             IN  done[Len(t.parts)]

StructImage(t, path) ==
    LET off == Offsets(t.parts)
        upto[i \in 0 .. Len(t.parts)] ==
            IF i = 0 THEN Nothing
            ELSE StoreRecursive(t.parts[i], path \o <<i>>, off[i]).bytes @@ upto[i - 1]
    IN  upto[Len(t.parts)]

\* the payload goes where its own alignment allows
PayloadOffsetWord(payload) == 8
PayloadOffset(payload) == RoundUp(1, Align(payload))
EnumImage(t, i, path) ==
    Copy(Image(t.parts[i], path \o <<i>>), Size(t.parts[i]), PayloadOffset(t.parts[i]))
        @@ Bytes(0, 1, Tag(i))

Image(t, path) ==
    CASE t.k = "scalar" -> Bytes(0, t.size, First(path))
      [] t.k = "enum" -> EnumImage(t, 1, path)
      [] OTHER -> StructImage(t, path)

\* A ctypes class aligns as C does.  The payload of an enum is a union,
\* where a variant with no payload is empty; no class is made for a tuple in
\* a struct.
PythonAlign(t) ==
    Largest({1} \cup {Align(t.parts[i]) : i \in {j \in DOMAIN t.parts : t.parts[j] # Unit}})
PythonImage(t, i) ==
    IF t.k # "enum" THEN Image(t, <<>>)
    ELSE Copy(Image(t.parts[i], <<i>>), Size(t.parts[i]), RoundUp(1, PythonAlign(t)))
             @@ Bytes(0, 1, Tag(i))
RECURSIVE HasClass(_)
HasClass(t) ==
    \/ t.k = "scalar"
    \/ t.k \in {"struct", "optional"} /\ \A i \in DOMAIN t.parts : HasClass(t.parts[i])

(***************************************************************************)
(* The loads: StructLoad, StructOffset, TupleExtract and EnumExtract add   *)
(* up offsets along a path.  Each asserts its term: the term of a part is  *)
(* the term of the whole, so a path ends at the offset its last step has.  *)
(***************************************************************************)
Unknown == -1

\* EnumExtract goes to the offset that suits every variant.
PartAtOwnAlign(t, i) ==
    IF t.k = "enum" THEN RoundUp(1, Align(t.parts[i])) ELSE Offsets(t.parts)[i]
PartAt(t, i) == IF t.k = "enum" THEN RoundUp(1, EnumAlign(t)) ELSE Offsets(t.parts)[i]

\* The verifier does not align the elements of a tuple, and says nothing of
\* a scalar payload.
TermAtIndex(t, i) == i
TermAt(t, i) ==
    CASE t.k = "enum" -> Unknown
      [] t.k = "tuple" ->
           LET off[j \in DOMAIN t.parts] ==
                   IF j = 1 THEN 0 ELSE off[j - 1] + Size(t.parts[j - 1])
           IN  off[i]
      [] OTHER -> Offsets(t.parts)[i]

RECURSIVE Reach(_, _)
Reach(t, path) ==
    IF path = <<>> THEN [at |-> 0, term |-> Unknown, size |-> t.size]
    ELSE LET i == Head(path)
             rest == Reach(t.parts[i], Tail(path))
         IN  [at |-> PartAt(t, i) + rest.at,
              term |-> IF Tail(path) = <<>> THEN TermAt(t, i)
                       ELSE IF t.k = "optional" THEN Unknown ELSE rest.term,
              size |-> rest.size]

\* A named tuple is a row of registers, and get_field_info looks for one at
\* an offset; it does not pad after a part, as the offset does.
RECURSIVE Registers(_)
Registers(t) ==
    IF ~Flattened(t) THEN 1
    ELSE LET upto[i \in 0 .. Len(t.parts)] ==
                 IF i = 0 THEN 0 ELSE upto[i - 1] + Registers(t.parts[i])
         IN  upto[Len(t.parts)]

RECURSIVE GetFieldInfo(_, _, _, _, _)
GetFieldInfo(t, target, count, at, idx) ==
    LET start == RoundUp(at, Align(t))
        Missed(next, n) == [found |-> 0, at |-> next, idx |-> n]
    IN  IF start = target /\ Registers(t) = count
        THEN [found |-> idx, at |-> start, idx |-> idx]
        ELSE IF ~Flattened(t) THEN Missed(start + Size(t), idx + 1)
        ELSE LET upto[i \in 0 .. Len(t.parts)] ==
                     IF i = 0 THEN Missed(start, idx)
                     ELSE IF upto[i - 1].found # 0 THEN upto[i - 1]
                     ELSE GetFieldInfo(t.parts[i], target, count, upto[i - 1].at, upto[i - 1].idx)
             IN  upto[Len(t.parts)]

\* which register a path leads to; 0 when the compilation fails
RECURSIVE RegisterOf(_, _)
RegisterOf(t, path) ==
    IF path = <<>> THEN 1
    ELSE LET part == t.parts[Head(path)]
             first == GetFieldInfo(t, Offsets(t.parts)[Head(path)], Registers(part), 0, 1).found
             inner == RegisterOf(part, Tail(path))
         IN  IF first = 0 \/ inner = 0 THEN 0 ELSE first + inner - 1

\* the scalars of a named tuple, register by register
RECURSIVE RegisterPaths(_, _)
RegisterPaths(t, path) ==
    IF ~Flattened(t) THEN <<path>>
    ELSE LET upto[i \in 0 .. Len(t.parts)] ==
                 IF i = 0 THEN <<>>
                 ELSE upto[i - 1] \o RegisterPaths(t.parts[i], path \o <<i>>)
         IN  upto[Len(t.parts)]

(***************************************************************************)
(* The terms of a new object: get_leaf_offsets and copy_composite.         *)
(***************************************************************************)
RECURSIVE Leaves(_)
Leaves(t) ==
    IF t.k \in {"scalar", "enum", "optional"} THEN {0}
    ELSE UNION {{Offsets(t.parts)[i] + o : o \in Leaves(t.parts[i])} : i \in DOMAIN t.parts}

RECURSIVE View(_, _)
CopyComposite(t, path, at) ==
    LET v == View(t, path)
        S == Leaves(t) \cap DOMAIN v
    IN  [o \in {at + l : l \in S} |-> v[o - at]]

\* nothing is asserted of the term of a tuple or of an optional
View(t, path) ==
    CASE t.k = "struct" ->
           LET off == Offsets(t.parts)
               upto[i \in 0 .. Len(t.parts)] ==
                   IF i = 0 THEN Nothing
                   ELSE (IF IsComposite(t.parts[i])
                         THEN CopyComposite(t.parts[i], path \o <<i>>, off[i])
                         ELSE off[i] :> First(path \o <<i>>)) @@ upto[i - 1]
           IN  upto[Len(t.parts)]
      [] OTHER -> Nothing

EnumView(t, i) == CopyComposite(t.parts[i], <<i>>, PayloadOffset(t.parts[i]))

-------------------------------------------------------------------------------
Fields == IF ty.k = "enum" THEN {p \in Paths(ty) : p[1] = made} ELSE Paths(ty)

Init ==
    /\ ty \in Roots
    /\ made = 0 /\ maker = "nobody"
    /\ mem = Nothing /\ view = Nothing /\ now = Nothing
    /\ read = Nothing
    /\ held = TRUE

\* the object comes with its fields; an enum as one of its variants
Made(i, image, terms, by) ==
    /\ made = 0
    /\ made' = i /\ maker' = by
    /\ mem' = image
    /\ view' = terms
    /\ now' = [p \in {q \in Paths(ty) : ty.k = "enum" => q[1] = i} |-> First(p)]
    /\ UNCHANGED <<ty, read, held>>

StructCreate ==
    /\ ty.k \in {"struct", "tuple"}
    /\ Made(1, Image(ty, <<>>), View(ty, <<>>), "program")

EnumCreate ==
    /\ ty.k = "enum"
    /\ \E i \in DOMAIN ty.parts : Made(i, EnumImage(ty, i, <<>>), EnumView(ty, i), "program")

\* the object is an argument of the function
FromPython ==
    /\ ty.k = "enum" \/ HasClass(ty)
    /\ \E i \in IF ty.k = "enum" THEN DOMAIN ty.parts ELSE {1} :
           Made(i, PythonImage(ty, i), Nothing, "python")

Construct ==
    /\ ty.k = "named"
    /\ Made(1, Nothing, Nothing, "program")

\* a load asserts that the term has at its offset what was read
Told(term, got) == IF term = Unknown THEN view ELSE view @@ (term :> got)

Load ==
    /\ made # 0
    /\ ty.k # "named"
    /\ \E p \in Fields :
        LET at == Reach(ty, p)
            got == Fetch(mem, at.at, at.size)
        IN  /\ read' = <<p, got>>
            /\ view' = Told(at.term, got)
            /\ held' = (held /\ (at.term # Unknown => view'[at.term] = got))
    /\ UNCHANGED <<ty, made, maker, mem, now>>

LoadRegister ==
    /\ made # 0
    /\ ty.k = "named"
    /\ \E p \in Fields :
        /\ RegisterOf(ty, p) # 0
        /\ read' = <<p, now[RegisterPaths(ty, <<>>)[RegisterOf(ty, p)]]>>
    /\ UNCHANGED <<ty, made, maker, mem, view, now, held>>

\* an assignment to a field of a struct, whose path has no tuple in it
RECURSIVE ThroughStructs(_, _)
ThroughStructs(t, path) ==
    path = <<>> \/ (t.k = "struct" /\ ThroughStructs(t.parts[Head(path)], Tail(path)))

SetBytes(at, new) == Bytes(at.at, at.size, new) @@ mem
StructSet ==
    /\ made # 0
    /\ \E p \in Fields :
        LET at == Reach(ty, p)
            new == Newer(p)
        IN  /\ ThroughStructs(ty, p)
            /\ mem' = SetBytes(at, new)
            /\ view' = at.at :> new @@ view
            /\ now' = [now EXCEPT ![p] = new]
    /\ read' = Nothing
    /\ UNCHANGED <<ty, made, maker, held>>

\* The object is put in a box and used from there: store_to_memory copies
\* Size(ty) bytes, or stores a tuple from its registers.
Move ==
    /\ made # 0
    /\ ty.k # "named"
    /\ ty.k = "enum" => MovesEnums
    /\ mem' = IF ty.k = "tuple" THEN StoreRecursive(ty, <<>>, 0).bytes
                                ELSE Copy(mem, Size(ty), 0)
    /\ read' = Nothing
    /\ UNCHANGED <<ty, made, maker, view, now, held>>

Next ==
    \/ StructCreate \/ EnumCreate \/ FromPython \/ Construct
    \/ Load \/ LoadRegister \/ StructSet \/ Move

Spec == Init /\ [][Next]_layoutVars

-------------------------------------------------------------------------------
\* Bytes lie inside the object, and every field has a current value.
TypeOK ==
    /\ ty \in Roots
    /\ made \in 0 .. Len(ty.parts)
    /\ maker \in {"nobody", "program", "python"}
    /\ made # 0 => DOMAIN now = Fields
    /\ DOMAIN mem \subseteq 0 .. (IF ty.k = "enum" THEN EnumSize(ty) ELSE Size(ty)) - 1
    /\ held \in BOOLEAN

\* The payload of an enum is aligned by its maker as by EnumExtract.  The
\* program puts a variant in place if none is aligned more than it is, ctypes
\* every variant unless it is one without a payload that is aligned most.
PayloadInPlace ==
    ty.k = "enum" =>
        EnumAlign(ty) = IF maker = "python" THEN PythonAlign(ty) ELSE Align(ty.parts[made])

\* A field that is read holds what was last stored in it: no two fields
\* share a byte, and everyone who computes its offset agrees on it, of the
\* payloads of an enum those that are in place.
ReadsLastStored == read # Nothing /\ PayloadInPlace => read[2] = now[read[1]]

\* A field that is read holds what was last stored in it, of an enum too:
\* "flat, contiguous, C-compatible memory layouts" (docs/data_structures.md:3).
AllReadsLastStored == read # Nothing => read[2] = now[read[1]]

\* What is asserted of an object whose terms need no offset - the parts that
\* have parts come first - is true of every run.
Plain(t) ==
    \A i \in DOMAIN t.parts :
        IF t.k = "enum" THEN t.parts[i].k = "struct" => Len(t.parts[i].parts) = 1
                        ELSE IsComposite(t.parts[i]) => i = 1
TermsHold == Plain(ty) => held

\* What is asserted of any object is true of every run.
AllTermsHold == held

=============================================================================
