--------------------------- MODULE Lowering_proofs ---------------------------
(***************************************************************************)
(* Proofs about Lowering, for any width, literals, floats and parameters.  *)
(***************************************************************************)
EXTENDS Lowering, NumberFacts, SequenceTheorems, TLAPS

----------------------------------------------------------------------------
(***************************************************************************)
(* Words.  Half is the number of words without the sign, whatever W is.    *)
(***************************************************************************)
LEMMA WordFacts ==
  /\ Half \in Nat /\ Half >= 2 /\ 2^W = 2 * Half /\ W \in Nat /\ W > 1
  /\ Word = 0 .. 2 * Half - 1 /\ Word \subseteq Nat /\ AllOnes = 2 * Half - 1 /\ MinInt = Half
<1>1. W \in Nat /\ W > 1 /\ W - 1 \in Nat /\ W - 1 > 0 /\ W = (W - 1) + 1
  BY WAssumption
<1>2. PICK n \in Nat : n = W - 1 /\ n > 0
  BY <1>1
<1>3. 2^n \in Nat /\ 2^n > 1 /\ 2^(n + 1) = 2 * 2^n
  BY <1>2, PowerFacts, PowerStep
<1>4. Half = 2^n /\ 2^W = 2^(n + 1)
  BY <1>1, <1>2 DEF Half
<1>5. PICK h \in Nat : h = Half /\ h > 1 /\ 2^W = 2 * h
  BY <1>3, <1>4
<1> QED BY <1>1, <1>5 DEF Word, AllOnes, MinInt

\* What an integer leaves when divided.
LEMMA DivisionFacts ==
  ASSUME NEW m \in Nat, m > 0, NEW i \in Int
  PROVE  /\ i \div m \in Int /\ (i % m) \in 0 .. m - 1
         /\ i = m * (i \div m) + (i % m)
OBVIOUS

LEMMA RemainderIs ==
  ASSUME NEW m \in Nat, m > 0, NEW q \in Int, NEW r \in 0 .. m - 1, NEW i \in Int, i = m * q + r
  PROVE  (i % m) = r /\ i \div m = q
OBVIOUS

Turns(i, j, m) == \E k \in Int : j = i + m * k

LEMMA RemainderStays ==
  ASSUME NEW m \in Nat, m > 0, NEW i \in Int, NEW j \in Int, Turns(i, j, m)
  PROVE  (j % m) = (i % m)
<1>0. PICK k \in Int : j = i + m * k
  BY DEF Turns
<1>1. PICK q \in Int, r \in 0 .. m - 1 : q = i \div m /\ r = (i % m) /\ i = m * q + r
  BY DivisionFacts
<1>2. q + k \in Int /\ m * (q + k) = m * q + m * k
  OBVIOUS
<1>3. j = m * (q + k) + r
  BY <1>0, <1>1, <1>2
<1>4. PICK p \in Int : p = q + k
  OBVIOUS
<1>5. j = m * p + r
  BY <1>3, <1>4
<1>6. (j % m) = r
  BY <1>5, RemainderIs
<1> QED BY <1>1, <1>6

\* A word and the integer it stands for differ by nothing or by one turn.
LEMMA SignedFacts ==
  ASSUME NEW w \in Word
  PROVE  /\ Signed(w) \in Int /\ Fits(Signed(w)) /\ w \in Nat /\ w < 2 * Half
         /\ \E c \in {0, 1} : w = Signed(w) + 2^W * c
         /\ (w < Half <=> Signed(w) >= 0) /\ (w < Half => Signed(w) = w)
         /\ (Signed(w) < 0 => w >= Half /\ Signed(w) = w - 2 * Half)
         /\ (Signed(w) = 0 <=> w = 0) /\ (w = MinInt <=> Signed(w) = 0 - Half)
<1>1. PICK h \in Nat : h = Half /\ h >= 2 /\ 2^W = 2 * h /\ Word = 0 .. 2 * h - 1 /\ MinInt = h
  BY WordFacts
<1>2. Signed(w) = IF w >= h THEN w - 2 * h ELSE w
  BY <1>1 DEF Signed
<1>3. w = Signed(w) + 2 * h * 0 \/ w = Signed(w) + 2 * h * 1
  BY <1>1, <1>2
<1>4. \E c \in {0, 1} : w = Signed(w) + 2^W * c
  BY <1>1, <1>3
<1> QED BY <1>1, <1>2, <1>4 DEF Fits

\* The word of an integer stands for it, if any does.
LEMMA ToWordFacts ==
  ASSUME NEW i \in Int
  PROVE  /\ ToWord(i) \in Word
         /\ i \in Word => ToWord(i) = i
         /\ Fits(i) => Signed(ToWord(i)) = i
<1>1. PICK h \in Nat : h = Half /\ h >= 2 /\ 2^W = 2 * h /\ Word = 0 .. 2 * h - 1
  BY WordFacts
<1>2. PICK m \in Nat : m = 2 * h /\ m > 0 /\ Word = 0 .. m - 1
  BY <1>1
<1>3. ToWord(i) = (i % m)
  BY <1>1, <1>2 DEF ToWord
<1>4. ToWord(i) \in Word
  BY <1>2, <1>3, DivisionFacts
<1>5. ASSUME i \in Word PROVE ToWord(i) = i
  <2>1. i \in 0 .. m - 1 /\ i = m * 0 + i
    BY <1>2, <1>5
  <2>2. (i % m) = i
    BY <1>2, <2>1, RemainderIs
  <2> QED BY <1>3, <2>2
<1>6. ASSUME Fits(i), i >= 0 PROVE Signed(ToWord(i)) = i
  <2>1. i \in Word /\ i < h
    BY <1>1, <1>6 DEF Fits
  <2> QED BY <1>1, <1>5, <2>1 DEF Signed
<1>7. ASSUME Fits(i), i < 0 PROVE Signed(ToWord(i)) = i
  <2>1. i + m \in 0 .. m - 1 /\ i + m >= h /\ i = m * (-1) + (i + m)
    BY <1>1, <1>2, <1>7 DEF Fits
  <2>2. (i % m) = i + m
    BY <1>2, <2>1, RemainderIs
  <2> QED BY <1>1, <1>2, <1>3, <2>1, <2>2 DEF Signed
<1> QED BY <1>4, <1>5, <1>6, <1>7

LEMMA ToWordStays ==
  ASSUME NEW i \in Int, NEW k \in Int, NEW j \in Int, j = i + 2^W * k
  PROVE  ToWord(j) = ToWord(i)
<1>1. PICK m \in Nat : m = 2^W /\ m > 0
  BY WordFacts
<1>2. j = i + m * k
  BY <1>1
<1>3. Turns(i, j, m)
  BY <1>2, Zenon DEF Turns
<1>4. (j % m) = (i % m)
  BY <1>1, <1>3, RemainderStays
<1>5. ToWord(i) = (i % m) /\ ToWord(j) = (j % m)
  BY <1>1 DEF ToWord
<1> QED BY <1>4, <1>5

\* Sums, differences and products of words are the words of those of the
\* integers they stand for.
LEMMA ArithWords ==
  ASSUME NEW l \in Word, NEW r \in Word, NEW op \in {"+", "-", "*"}
  PROVE  /\ ParseInt(op, l, r) \in Int
         /\ BvArith(op, l, r) \in Word
         /\ BvArith(op, l, r) = ToWord(ParseInt(op, l, r))
<1>1. PICK m \in Nat : m = 2^W
  BY WordFacts
<1>2. PICK a \in Int, c \in {0, 1} : a = Signed(l) /\ l = a + m * c /\ l \in Int
  BY <1>1, SignedFacts
<1>3. PICK b \in Int, d \in {0, 1} : b = Signed(r) /\ r = b + m * d /\ r \in Int
  BY <1>1, SignedFacts
<1>4. CASE op = "+"
  <2>1. l + r = (a + b) + m * (c + d)
    BY <1>2, <1>3
  <2>2. ToWord(l + r) = ToWord(a + b)
    BY <1>1, <1>2, <1>3, <2>1, ToWordStays
  <2>3. ToWord(l + r) \in Word
    BY <1>2, <1>3, ToWordFacts
  <2> QED BY <1>2, <1>3, <1>4, <2>2, <2>3 DEF ParseInt, BvArith
<1>5. CASE op = "-"
  <2>1. l - r = (a - b) + m * (c - d)
    BY <1>2, <1>3
  <2>2. ToWord(l - r) = ToWord(a - b)
    BY <1>1, <1>2, <1>3, <2>1, ToWordStays
  <2>3. ToWord(l - r) \in Word
    BY <1>2, <1>3, ToWordFacts
  <2> QED BY <1>2, <1>3, <1>5, <2>2, <2>3 DEF ParseInt, BvArith
<1>6. CASE op = "*"
  <2>1. \E k \in Int : l * r = a * b + m * k
    <3>1. CASE c = 0 /\ d = 0
      <4>1. l = a /\ r = b
        BY <1>2, <1>3, <3>1
      <4> QED BY <4>1
    <3>2. CASE c = 1 /\ d = 0
      <4>1. l = a + m /\ r = b
        BY <1>2, <1>3, <3>2
      <4>2. l * r = a * b + m * b
        BY <4>1
      <4> QED BY <4>2
    <3>3. CASE c = 0 /\ d = 1
      <4>1. l = a /\ r = b + m
        BY <1>2, <1>3, <3>3
      <4>2. l * r = a * b + m * a
        BY <4>1
      <4> QED BY <4>2
    <3>4. CASE c = 1 /\ d = 1
      <4>1. l = a + m /\ r = b + m
        BY <1>2, <1>3, <3>4
      <4>2. (a + m) * (b + m) = a * b + m * a + m * b + m * m
        OBVIOUS
      <4>3. m * (a + b + m) = m * a + m * b + m * m
        OBVIOUS
      <4>4. l * r = a * b + m * (a + b + m) /\ a + b + m \in Int
        BY <4>1, <4>2, <4>3
      <4> QED BY <4>4
    <3> QED BY <3>1, <3>2, <3>3, <3>4
  <2>2. PICK k \in Int : l * r = a * b + m * k
    BY <2>1
  <2>t. l * r \in Int /\ a * b \in Int
    BY <1>2, <1>3
  <2>3. ToWord(l * r) = ToWord(a * b)
    BY <1>1, <2>2, <2>t, ToWordStays
  <2>4. ToWord(l * r) \in Word
    BY <2>t, ToWordFacts
  <2> QED BY <1>2, <1>3, <1>6, <2>t, <2>3, <2>4 DEF ParseInt, BvArith
<1> QED BY <1>4, <1>5, <1>6

\* Division has a word for every pair, and the remainder of two that are not
\* negative is that of the integers.
LEMMA DivisionWords ==
  ASSUME NEW l \in Word, NEW r \in Word
  PROVE  /\ BvSDiv(l, r) \in Word /\ BvSRem(l, r) \in Word
         /\ Signed(l) >= 0 /\ Signed(r) >= 0 /\ r # 0
               => Signed(BvSRem(l, r)) = ParseInt("%", l, r)
<1>1. PICK a \in Int : a = Signed(l)
  BY SignedFacts
<1>2. PICK b \in Int : b = Signed(r) /\ (b = 0 <=> r = 0) /\ Fits(b)
  BY SignedFacts
<1>3. ASSUME r # 0 PROVE Trunc(a, b) \in Int
  <2>1. PICK x \in Nat : x = Abs(a)
    BY DEF Abs
  <2>2. PICK y \in Nat : y = Abs(b) /\ y > 0
    BY <1>2, <1>3 DEF Abs
  <2>3. x \div y \in Int
    BY <2>2, DivisionFacts
  <2> QED BY <2>1, <2>2, <2>3 DEF Trunc
<1>4. BvSDiv(l, r) \in Word
  <2>1. 1 \in Word /\ ToWord(-1) \in Word
    BY WordFacts, ToWordFacts
  <2>2. r # 0 => ToWord(Trunc(a, b)) \in Word
    BY <1>3, ToWordFacts
  <2> QED BY <1>1, <1>2, <2>1, <2>2 DEF BvSDiv
<1>5. BvSRem(l, r) \in Word
  <2>1. r # 0 => a - b * Trunc(a, b) \in Int
    BY <1>3
  <2>2. r # 0 => ToWord(a - b * Trunc(a, b)) \in Word
    BY <2>1, ToWordFacts
  <2> QED BY <1>1, <1>2, <2>2 DEF BvSRem
<1>6. ASSUME a >= 0, b >= 0, r # 0 PROVE Signed(BvSRem(l, r)) = ParseInt("%", l, r)
  <2>1. b > 0
    BY <1>2, <1>6
  <2>2. PICK q \in Int, m \in 0 .. b - 1 : q = a \div b /\ m = (a % b) /\ a = b * q + m
    BY <2>1, DivisionFacts
  <2>3. Trunc(a, b) = q
    BY <1>6, <2>1, <2>2 DEF Trunc, Abs
  <2>4. BvSRem(l, r) = ToWord(m)
    <3>1. a - b * q = m
      BY <2>2
    <3> QED BY <1>1, <1>2, <1>6, <2>3, <3>1 DEF BvSRem
  <2>5. Fits(m)
    <3>1. PICK h \in Nat : h = Half
      BY WordFacts
    <3>2. b <= h - 1
      BY <1>2, <3>1 DEF Fits
    <3>3. m \in Int /\ m >= 0 /\ m < b
      BY <2>1, <2>2
    <3> QED BY <3>1, <3>2, <3>3 DEF Fits
  <2>6. Signed(ToWord(m)) = m
    BY <2>5, ToWordFacts
  <2>7. ParseInt("%", l, r) = m
    BY <1>1, <1>2, <2>1, <2>2 DEF ParseInt, ZRem
  <2> QED BY <2>4, <2>6, <2>7
<1> QED BY <1>1, <1>2, <1>4, <1>5, <1>6

\* The negation of a word is the word of the negated integer.
LEMMA NegWords ==
  ASSUME NEW w \in Word
  PROVE  /\ BvNeg(w) \in Word
         /\ w # MinInt => Signed(BvNeg(w)) = 0 - Signed(w)
<1>1. PICK m \in Nat : m = 2^W
  BY WordFacts
<1>2. PICK a \in Int, c \in {0, 1} : a = Signed(w) /\ w = a + m * c /\ w \in Int
  BY <1>1, SignedFacts
<1>3. -w = -a + m * (-c) /\ -w \in Int /\ -a \in Int /\ -c \in Int
  <2>1. CASE c = 0
    BY <1>2, <2>1
  <2>2. CASE c = 1
    BY <1>2, <2>2
  <2> QED BY <2>1, <2>2
<1>4. BvNeg(w) = ToWord(-a) /\ BvNeg(w) \in Word
  <2>1. ToWord(-w) = ToWord(-a)
    BY <1>1, <1>3, ToWordStays
  <2>2. ToWord(-w) \in Word
    BY <1>3, ToWordFacts
  <2> QED BY <2>1, <2>2 DEF BvNeg
<1>5. ASSUME w # MinInt PROVE Fits(-a)
  <2>1. Fits(a) /\ a # 0 - Half
    BY <1>2, <1>5, SignedFacts
  <2> QED BY <2>1, WordFacts DEF Fits
<1>6. Fits(-a) => Signed(ToWord(-a)) = -a
  BY <1>3, ToWordFacts
<1> QED BY <1>2, <1>4, <1>5, <1>6

LEMMA AvgWords ==
  ASSUME NEW l \in Word, NEW r \in Word, l + r + 1 < 2^W
  PROVE  ClAvg(l, r) \in Word /\ ClAvg(l, r) = BvAvg(l, r)
<1>1. PICK x \in Word : x = l + r + 1
  BY WordFacts DEF Word
<1>2. x \div 2 \in Word
  BY WordFacts
<1>3. ToWord(x) = x
  BY WordFacts, ToWordFacts
<1> QED BY <1>1, <1>2, <1>3 DEF ClAvg, BvAvg

\* Shift amounts below the width are what they are.
LEMMA ShiftWords ==
  ASSUME NEW w \in Word, NEW n \in Word, n < W
  PROVE  /\ ClShl(w, n) = BvShl(w, n) /\ BvShl(w, n) \in Word
         /\ ClAShr(w, n) = BvAShr(w, n) /\ BvAShr(w, n) \in Word
<1>1. PICK v \in Nat : v = W /\ v > 0
  BY WordFacts
<1>2. n \in 0 .. v - 1 /\ n \in Nat /\ n = v * 0 + n
  BY <1>1, WordFacts
<1>3. (n % v) = n
  BY <1>1, <1>2, RemainderIs
<1>4. PICK p \in Nat : p = 2^n /\ p > 0
  BY <1>2, PowerFacts
<1>5. BvShl(w, n) \in Word
  <2>1. w * p \in Int
    BY WordFacts
  <2>2. ToWord(w * p) \in Word
    BY <2>1, ToWordFacts
  <2> QED BY <1>1, <1>2, <1>4, <2>2 DEF BvShl
<1>6. BvAShr(w, n) \in Word
  <2>1. PICK i \in Int : i = Signed(w)
    BY SignedFacts
  <2>2. i \div p \in Int
    BY <1>4, DivisionFacts
  <2>3. ToWord(i \div p) \in Word
    BY <2>2, ToWordFacts
  <2> QED BY <1>1, <1>2, <1>4, <2>1, <2>3 DEF BvAShr
<1> QED BY <1>1, <1>3, <1>5, <1>6 DEF ClShl, ClAShr

----------------------------------------------------------------------------
(***************************************************************************)
(* Bits.  The number of a set of bits is a sum of powers of two.           *)
(***************************************************************************)
Places == 0 .. W - 1
PowersOf(S) == [k \in S |-> 2^k]

LEMMA PlacesFacts ==
  /\ IsFiniteSet(Places) /\ Places \subseteq Nat /\ 0 \in Places /\ W - 1 \in Places
  /\ \A S \in SUBSET Places : PowersOf(S) \in [S -> Nat] /\ IsFiniteSet(S)
<1>1. IsFiniteSet(Places) /\ Places \subseteq Nat /\ 0 \in Places /\ W - 1 \in Places
  BY WordFacts, FS_Interval DEF Places
<1>2. ASSUME NEW S \in SUBSET Places PROVE PowersOf(S) \in [S -> Nat] /\ IsFiniteSet(S)
  <2>1. \A k \in S : 2^k \in Nat
    BY <1>1, PowerFacts
  <2> QED BY <1>1, <2>1, FS_Subset DEF PowersOf
<1> QED BY <1>1, <1>2

LEMMA FromBitsSums ==
  ASSUME NEW S \in SUBSET Places
  PROVE  \E e : Adds(e, PowersOf(S), S) /\ FromBits(S) = e[S]
<1> DEFINE Sums(f) == f = [s \in SUBSET S |-> IF s = {} THEN 0
                           ELSE LET x == CHOOSE x \in s : TRUE IN 2^x + f[s \ {x}]]
           it == CHOOSE f : Sums(f)
<1>0. PICK g : g = PowersOf(S)
  OBVIOUS
<1>1. g \in [S -> Nat] /\ \A k \in S : g[k] = 2^k
  <2>1. g \in [S -> Nat]
    BY <1>0, PlacesFacts
  <2>2. \A k \in S : g[k] = 2^k
    BY <1>0 DEF PowersOf
  <2> QED BY <2>1, <2>2
<1>2. ASSUME NEW f PROVE Sums(f) <=> Adds(f, g, S)
  <2> DEFINE A(s) == IF s = {} THEN 0 ELSE LET x == CHOOSE x \in s : TRUE IN 2^x + f[s \ {x}]
             B(s) == IF s = {} THEN 0 ELSE LET x == CHOOSE x \in s : TRUE IN g[x] + f[s \ {x}]
  <2>1. ASSUME NEW s \in SUBSET S PROVE A(s) = B(s)
    <3>1. s # {} => (CHOOSE x \in s : TRUE) \in S
      OBVIOUS
    <3>2. s # {} => g[CHOOSE x \in s : TRUE] = 2^(CHOOSE x \in s : TRUE)
      BY <1>1, <3>1
    <3> QED BY <3>2
  <2> HIDE DEF A, B
  <2>2. [s \in SUBSET S |-> A(s)] = [s \in SUBSET S |-> B(s)]
    BY <2>1
  <2> QED BY <2>2 DEF A, B, Adds
<1>3. \E f : Adds(f, g, S)
  BY <1>1, PlacesFacts, SumsExist
<1>4. Adds(it, g, S)
  <2>1. \E f : Sums(f)
    <3> HIDE DEF Sums
    <3> QED BY <1>2, <1>3
  <2>2. Sums(it)
    <3> HIDE DEF Sums
    <3> QED BY <2>1
  <2> HIDE DEF it
  <2> QED BY <1>2, <2>2
<1>5. FromBits(S) = it[S]
  BY DEF FromBits, MapThenSumSet, MapThenFoldSet
<1> QED BY <1>0, <1>4, <1>5

\* A bit counts for its power of two.
LEMMA FromBitsStep ==
  /\ FromBits({}) = 0
  /\ \A S \in SUBSET Places : FromBits(S) \in Nat /\ \A k \in S : FromBits(S) = 2^k + FromBits(S \ {k})
<1>K. PICK K : K = Places /\ IsFiniteSet(K) /\ K \in SUBSET Places
  BY PlacesFacts
<1>0. PICK g : g = PowersOf(K)
  OBVIOUS
<1>1. g \in [K -> Nat] /\ \A k \in K : g[k] = 2^k
  <2>1. g \in [K -> Nat]
    BY <1>0, <1>K, PlacesFacts
  <2>2. \A k \in K : g[k] = 2^k
    BY <1>0 DEF PowersOf
  <2> QED BY <2>1, <2>2
<1>2. PICK f : Adds(f, g, K)
  BY <1>K, <1>1, SumsExist
<1>3. ASSUME NEW S \in SUBSET K PROVE FromBits(S) = f[S]
  <2>0. PICK h : h = PowersOf(S)
    OBVIOUS
  <2>1. PICK e : Adds(e, h, S) /\ FromBits(S) = e[S]
    BY <1>K, <2>0, FromBitsSums
  <2>2. h \in [S -> Nat] /\ \A k \in S : h[k] = g[k]
    <3>1. h \in [S -> Nat]
      BY <1>K, <2>0, PlacesFacts
    <3>2. \A k \in S : h[k] = 2^k
      BY <2>0 DEF PowersOf
    <3> QED BY <1>1, <3>1, <3>2
  <2>3. \A s \in SUBSET S : e[s] = f[s]
    BY <1>K, <1>1, <1>2, <2>1, <2>2, AddsAgree
  <2> QED BY <2>1, <2>3
<1>4. f[{}] = 0
  <2>1. SumStep(f, g, K, {})
    BY <1>1, <1>2, AddsStep
  <2> QED BY <2>1 DEF SumStep
<1>5. \A S \in SUBSET K : f[S] \in Nat
  BY <1>K, <1>1, <1>2, AddsType
<1>6. ASSUME NEW S \in SUBSET K, NEW k \in S PROVE f[S] = g[k] + f[S \ {k}]
  BY <1>K, <1>1, <1>2, AddsAny
<1>7. ASSUME NEW S \in SUBSET Places, NEW k \in S PROVE FromBits(S) = 2^k + FromBits(S \ {k})
  <2>1. S \in SUBSET K /\ S \ {k} \in SUBSET K /\ g[k] = 2^k
    BY <1>K, <1>1
  <2> QED BY <1>3, <1>6, <2>1
<1>8. \A S \in SUBSET Places : FromBits(S) \in Nat
  BY <1>K, <1>3, <1>5
<1> QED BY <1>3, <1>4, <1>7, <1>8

\* Bits below n make a number below 2^n, and all of them the last one.
LEMMA FromBitsBelow ==
  ASSUME NEW n \in Nat, n <= W
  PROVE  /\ \A S \in SUBSET (0 .. n - 1) : FromBits(S) < 2^n
         /\ FromBits(0 .. n - 1) = 2^n - 1
<1> DEFINE Good(m) == /\ \A S \in SUBSET (0 .. m - 1) : FromBits(S) < 2^m
                      /\ FromBits(0 .. m - 1) = 2^m - 1
           Bad == {m \in Nat : m <= W /\ ~ Good(m)}
<1>1. Bad = {}
  <2> SUFFICES ASSUME Bad # {} PROVE FALSE
    OBVIOUS
  <2>1. PICK m \in Bad : \A y \in Bad : m <= y
    <3>1. Bad \subseteq Nat
      OBVIOUS
    <3> HIDE DEF Bad
    <3> QED BY <3>1, LeastNatural
  <2>2. m \in Nat /\ m <= W /\ ~ Good(m)
    OBVIOUS
  <2>3. CASE m = 0
    <3>1. 0 .. m - 1 = {}
      BY <2>3
    <3>2. 2^m = 1 /\ FromBits({}) = 0
      BY <2>3, PowerZero, FromBitsStep
    <3>3. ASSUME NEW S \in SUBSET (0 .. m - 1) PROVE FromBits(S) < 2^m
      <4>1. S = {}
        BY <3>1
      <4> QED BY <3>2, <4>1
    <3>4. FromBits(0 .. m - 1) = 2^m - 1
      BY <3>1, <3>2
    <3> QED BY <2>2, <3>3, <3>4
  <2>4. CASE m # 0
    <3>1. PICK j \in Nat : m = j + 1
      BY <2>2, <2>4
    <3>2. Good(j)
      <4>1. j \notin Bad
        BY <2>1, <3>1
      <4>2. j <= W
        BY <2>2, <3>1, WordFacts
      <4> HIDE DEF Good
      <4> QED BY <4>1, <4>2
    <3>3. PICK p \in Nat : p = 2^j /\ 2^m = 2 * p /\ p > 0
      BY <3>1, PowerFacts, PowerStep
    <3>4. 0 .. m - 1 \in SUBSET Places /\ j \in 0 .. m - 1 /\ (0 .. m - 1) \ {j} = 0 .. j - 1
      BY <2>2, <3>1, WordFacts DEF Places
    <3>5. FromBits(0 .. m - 1) = p + FromBits(0 .. j - 1)
      <4>1. PICK S \in SUBSET Places : S = 0 .. m - 1 /\ j \in S /\ S \ {j} = 0 .. j - 1
        BY <3>4
      <4>2. FromBits(S) = 2^j + FromBits(S \ {j})
        BY <4>1, FromBitsStep
      <4> QED BY <3>3, <4>1, <4>2
    <3>6. FromBits(0 .. m - 1) = 2^m - 1
      <4>1. FromBits(0 .. j - 1) = p - 1
        BY <3>2, <3>3
      <4>2. FromBits(0 .. m - 1) = p + (p - 1) /\ 2^m = p + p
        BY <3>3, <3>5, <4>1
      <4>3. p + (p - 1) = (p + p) - 1
        OBVIOUS
      <4> QED BY <4>2, <4>3
    <3>7. ASSUME NEW S \in SUBSET (0 .. m - 1) PROVE FromBits(S) < 2^m
      <4>1. S \in SUBSET Places /\ S \ {j} \in SUBSET (0 .. j - 1) /\ S \ {j} \in SUBSET Places
        BY <3>4
      <4>2. PICK x \in Nat : x = FromBits(S \ {j}) /\ x < p
        BY <3>2, <3>3, <4>1, FromBitsStep
      <4>3. CASE j \in S
        <5>1. FromBits(S) = p + x
          BY <3>3, <4>1, <4>2, <4>3, FromBitsStep
        <5> QED BY <3>3, <4>2, <5>1
      <4>4. CASE j \notin S
        <5>1. S \ {j} = S
          BY <4>4
        <5>2. FromBits(S) = x
          BY <4>2, <5>1
        <5> QED BY <3>3, <4>2, <5>2
      <4> QED BY <4>3, <4>4
    <3> QED BY <2>2, <3>6, <3>7
  <2> QED BY <2>3, <2>4
<1>2. Good(n)
  <2> HIDE DEF Good
  <2> QED BY <1>1
<1> QED BY <1>2

\* Every set of bits has a word, and those of the bytes of booleans are known.
LEMMA BitFacts ==
  /\ \A S \in SUBSET Places : FromBits(S) \in Word
  /\ FromBits({}) = 0 /\ FromBits({0}) = 1 /\ FromBits(Places) = AllOnes
  /\ Bits(0) = {} /\ Bits(1) = {0} /\ Bits(AllOnes) = Places
  /\ \A w \in Word : Bits(w) \in SUBSET Places
<1>1. FromBits(Places) = AllOnes /\ \A S \in SUBSET Places : FromBits(S) < 2^W
  BY WordFacts, FromBitsBelow DEF Places, AllOnes
<1>2. ASSUME NEW S \in SUBSET Places PROVE FromBits(S) \in Word
  <2>1. FromBits(S) \in Nat /\ FromBits(S) < 2^W
    BY <1>1, FromBitsStep
  <2> QED BY <2>1, WordFacts
<1>3. FromBits({}) = 0 /\ FromBits({0}) = 1
  <2>1. {0} \in SUBSET Places /\ {0} \ {0} = {}
    BY PlacesFacts
  <2>2. FromBits({0}) = 2^0 + FromBits({})
    BY <2>1, FromBitsStep
  <2> QED BY <2>2, PowerZero, FromBitsStep
<1>4. Bits(0) = {}
  <2>1. ASSUME NEW k \in Places PROVE (0 \div 2^k) % 2 # 1
    <3>1. PICK p \in Nat : p = 2^k /\ p > 0
      BY PlacesFacts, PowerFacts
    <3>2. 0 \div p = 0
      BY <3>1
    <3> QED BY <3>1, <3>2
  <2> QED BY <2>1 DEF Bits, Places
<1>5. Bits(1) = {0}
  <2>1. ASSUME NEW k \in Places, k # 0 PROVE (1 \div 2^k) % 2 # 1
    <3>1. PICK p \in Nat : p = 2^k /\ p > 1
      BY <2>1, PlacesFacts, PowerFacts
    <3>2. 1 \in 0 .. p - 1 /\ 1 = p * 0 + 1
      BY <3>1
    <3>3. 1 \div p = 0
      BY <3>1, <3>2, RemainderIs
    <3> QED BY <3>1, <3>3
  <2>2. (1 \div 2^0) % 2 = 1
    BY PowerZero
  <2> QED BY <2>1, <2>2, PlacesFacts DEF Bits, Places
<1>6. Bits(AllOnes) = Places
  <2>1. ASSUME NEW k \in Places PROVE (AllOnes \div 2^k) % 2 = 1
    <3>1. k \in Nat /\ k < W /\ W \in Nat
      BY WordFacts DEF Places
    <3> QED BY <3>1, PowerBits DEF AllOnes
  <2> QED BY <2>1 DEF Bits, Places
<1>7. \A w \in Word : Bits(w) \in SUBSET Places
  BY DEF Bits, Places
<1> QED BY <1>1, <1>2, <1>3, <1>4, <1>5, <1>6, <1>7

LEMMA LogicWords ==
  ASSUME NEW l \in Word, NEW r \in Word, NEW op \in {"&", "|", "^"}
  PROVE  Logic(op, l, r) \in Word
<1>1. PICK a \in SUBSET Places, b \in SUBSET Places : a = Bits(l) /\ b = Bits(r)
  BY BitFacts
<1>2. a \cap b \in SUBSET Places /\ a \cup b \in SUBSET Places /\ (a \cup b) \ (a \cap b) \in SUBSET Places
  OBVIOUS
<1>3. BvAnd(l, r) \in Word
  BY <1>1, <1>2, BitFacts DEF BvAnd
<1>4. BvOr(l, r) \in Word
  BY <1>1, <1>2, BitFacts DEF BvOr
<1>5. BvXor(l, r) \in Word
  BY <1>1, <1>2, BitFacts DEF BvXor
<1> QED BY <1>3, <1>4, <1>5 DEF Logic

\* Bytes of booleans: a literal is 0 or 1, a mask 0 or all ones.
Truths == {0, 1, AllOnes}
Masks == {0, AllOnes}

LEMMA TruthWords ==
  ASSUME NEW l \in Truths, NEW r \in Truths
  PROVE  /\ BvAnd(l, r) \in Truths /\ (BvAnd(l, r) # 0 <=> l # 0 /\ r # 0)
         /\ BvOr(l, r) \in Truths /\ (BvOr(l, r) # 0 <=> l # 0 \/ r # 0)
         /\ l \in Masks /\ r \in Masks => BvXor(l, r) \in Truths /\ (BvXor(l, r) # 0 <=> l # r)
<1>1. AllOnes # 0 /\ AllOnes # 1 /\ 0 \in Places /\ {0} \in SUBSET Places
  BY WordFacts, PlacesFacts
<1>2. PICK P : P = Places /\ 0 \in P
  BY <1>1
<1>3. /\ FromBits({}) = 0 /\ FromBits({0}) = 1 /\ FromBits(P) = AllOnes
      /\ Bits(0) = {} /\ Bits(1) = {0} /\ Bits(AllOnes) = P
  BY <1>2, BitFacts
<1>4. BvAnd(l, r) \in Truths /\ (BvAnd(l, r) # 0 <=> l # 0 /\ r # 0)
  <2>1. {} \cap {0} = {} /\ {0} \cap {} = {} /\ {} \cap P = {} /\ P \cap {} = {} /\ {} \cap {} = {}
    OBVIOUS
  <2>2. {0} \cap {0} = {0} /\ {0} \cap P = {0} /\ P \cap {0} = {0} /\ P \cap P = P
    BY <1>2
  <2> QED BY <1>1, <1>3, <2>1, <2>2 DEF Truths, BvAnd
<1>5. BvOr(l, r) \in Truths /\ (BvOr(l, r) # 0 <=> l # 0 \/ r # 0)
  <2>1. {} \cup {0} = {0} /\ {0} \cup {} = {0} /\ {} \cup P = P /\ P \cup {} = P /\ {} \cup {} = {}
    OBVIOUS
  <2>2. {0} \cup {0} = {0} /\ {0} \cup P = P /\ P \cup {0} = P /\ P \cup P = P
    BY <1>2
  <2> QED BY <1>1, <1>3, <2>1, <2>2 DEF Truths, BvOr
<1>6. ASSUME l \in Masks, r \in Masks PROVE BvXor(l, r) \in Truths /\ (BvXor(l, r) # 0 <=> l # r)
  <2>1. /\ ({} \cup {}) \ ({} \cap {}) = {} /\ (P \cup P) \ (P \cap P) = {}
        /\ ({} \cup P) \ ({} \cap P) = P /\ (P \cup {}) \ (P \cap {}) = P
    OBVIOUS
  <2> QED BY <1>1, <1>3, <1>6, <2>1 DEF Truths, Masks, BvXor
<1> QED BY <1>4, <1>5, <1>6

\* The bits the solver's side is modelled by
LEMMA SolverBits ==
  ASSUME NEW l \in {0, 1}, NEW r \in {0, 1}
  PROVE  /\ BvAnd(l, r) = 1 <=> l = 1 /\ r = 1
         /\ BvOr(l, r) = 1 <=> l = 1 \/ r = 1
         /\ BvXor(l, r) = 1 <=> l # r
<1>1. /\ FromBits({}) = 0 /\ FromBits({0}) = 1 /\ Bits(0) = {} /\ Bits(1) = {0}
  BY BitFacts
<1>2. {} \cap {0} = {} /\ {0} \cap {} = {} /\ {} \cap {} = {} /\ {0} \cap {0} = {0}
  OBVIOUS
<1>3. {} \cup {0} = {0} /\ {0} \cup {} = {0} /\ {} \cup {} = {} /\ {0} \cup {0} = {0}
  OBVIOUS
<1>4. {0} \ {} = {0} /\ {} \ {} = {} /\ {0} \ {0} = {}
  OBVIOUS
<1>5. BvAnd(l, r) = 1 <=> l = 1 /\ r = 1
  BY <1>1, <1>2 DEF BvAnd
<1>6. BvOr(l, r) = 1 <=> l = 1 \/ r = 1
  BY <1>1, <1>3 DEF BvOr
<1>7. BvXor(l, r) = 1 <=> l # r
  BY <1>1, <1>2, <1>3, <1>4 DEF BvXor
<1> QED BY <1>5, <1>6, <1>7

----------------------------------------------------------------------------
(***************************************************************************)
(* The inductive invariant.  A value holds in the solver what it holds in  *)
(* the machine; a reference may be older than its object, and then only    *)
(* its type is known, but never newer while the run goes on.  A slice      *)
(* starts and ends in its object, and only lists refer to the object of a  *)
(* list, so that one that grows is no array, buffer or box.                *)
(***************************************************************************)
Contents == UNION {[0 .. n - 1 -> Word] : n \in Nat}
HeapOK(memory) == memory \in Seq([cells : Contents, version : Nat])

IntOK(a) == a.kind = "int" /\ a.m \in Word /\ a.s = a.m
BoolOK(a) == a.kind = "bool" /\ a.m \in Truths /\ a.s \in {0, 1} /\ (a.m # 0 <=> a.s = 1)
FloatOK(a) == a.kind = "float" /\ a.m \in Floats
StrOK(a) == a.kind = "str" /\ a.m \in 0 .. Half - 1 /\ a.s = a.m

Fresh(a, memory) == a.version = memory[a.obj].version
Ends(a, cells) == a.base \in DOMAIN cells /\ a.base + (a.size - 1) * a.stride \in DOMAIN cells

ArrayOK(a, memory) ==
  /\ a.kind = "array" /\ a.obj \in DOMAIN memory /\ a.version \in Nat
  /\ a.base \in Int /\ a.stride \in {-1, 1, 2} /\ a.size \in Nat
  /\ a.soff = a.base /\ a.sstride = a.stride
  /\ a.size > 0 => Ends(a, memory[a.obj].cells)
  /\ Fresh(a, memory) => a.view = memory[a.obj].cells
BufferOK(a, memory) ==
  /\ a.kind = "buffer" /\ a.obj \in DOMAIN memory /\ a.version \in Nat /\ a.len \in Word
  /\ a.len = Cardinality(DOMAIN memory[a.obj].cells)
ListOK(a, memory) ==
  /\ a \in [kind : {"list"}, obj : DOMAIN memory, len : Nat, version : Nat]
  /\ Cardinality(DOMAIN memory[a.obj].cells) < Half
  /\ Fresh(a, memory) => a.len = Cardinality(DOMAIN memory[a.obj].cells)
PointerOK(a, memory) ==
  /\ a \in [kind : {"pointer"}, obj : DOMAIN memory \cup {Null}, view : {Free} \cup [0 .. 1 -> Word],
            version : Nat]
  /\ a.obj # Null => DOMAIN memory[a.obj].cells = 0 .. 1
  /\ a.obj # Null /\ Fresh(a, memory) /\ a.view # Free => a.view = memory[a.obj].cells

Plain(a) == IntOK(a) \/ BoolOK(a) \/ FloatOK(a) \/ StrOK(a)
Reference(a, memory) ==
  ArrayOK(a, memory) \/ BufferOK(a, memory) \/ ListOK(a, memory) \/ PointerOK(a, memory)
RegOK(a, memory) == Plain(a) \/ Reference(a, memory)

NotNewer(a, memory) == a.kind \in References /\ a.obj # Null => a.version <= memory[a.obj].version

LoweringInv ==
  /\ HeapOK(heap)
  /\ regs \in Seq({regs[r] : r \in DOMAIN regs})
  /\ \A r \in DOMAIN regs : RegOK(regs[r], heap)
  /\ \A r, q \in DOMAIN regs : Apart(regs[r], regs[q])
  /\ fault = "none" => \A r \in DOMAIN regs : NotNewer(regs[r], heap)
  /\ held = TRUE /\ fault \in Faults /\ FaultsAreFlagged /\ FlagsAreReal

\* What a value is follows from its kind.
LEMMA KindFacts ==
  ASSUME NEW a, NEW memory, RegOK(a, memory)
  PROVE  /\ a.kind = "int" => IntOK(a)
         /\ a.kind = "bool" => BoolOK(a)
         /\ a.kind = "float" => FloatOK(a)
         /\ a.kind = "str" => StrOK(a)
         /\ a.kind = "array" => ArrayOK(a, memory)
         /\ a.kind = "buffer" => BufferOK(a, memory)
         /\ a.kind = "list" => ListOK(a, memory)
         /\ a.kind = "pointer" => PointerOK(a, memory)
         /\ Plain(a) <=> a.kind \notin References
<1>1. ListOK(a, memory) => a.kind = "list"
  BY DEF ListOK
<1>2. PointerOK(a, memory) => a.kind = "pointer"
  BY DEF PointerOK
<1>3. IntOK(a) => a.kind = "int"
  BY DEF IntOK
<1>4. BoolOK(a) => a.kind = "bool"
  BY DEF BoolOK
<1>5. FloatOK(a) => a.kind = "float"
  BY DEF FloatOK
<1>6. StrOK(a) => a.kind = "str"
  BY DEF StrOK
<1>7. ArrayOK(a, memory) => a.kind = "array"
  BY DEF ArrayOK
<1>8. BufferOK(a, memory) => a.kind = "buffer"
  BY DEF BufferOK
<1> QED BY <1>1, <1>2, <1>3, <1>4, <1>5, <1>6, <1>7, <1>8 DEF RegOK, Plain, Reference, References

LEMMA RegFacts ==
  ASSUME LoweringInv
  PROVE  /\ \A r \in Of("int") : IntOK(regs[r]) /\ r \in DOMAIN regs
         /\ \A r \in Of("bool") : BoolOK(regs[r]) /\ r \in DOMAIN regs
         /\ \A r \in Of("float") : FloatOK(regs[r]) /\ r \in DOMAIN regs
         /\ \A r \in Of("str") : StrOK(regs[r]) /\ r \in DOMAIN regs
         /\ \A r \in Of("array") : ArrayOK(regs[r], heap) /\ r \in DOMAIN regs
         /\ \A r \in Of("buffer") : BufferOK(regs[r], heap) /\ r \in DOMAIN regs
         /\ \A r \in Of("list") : ListOK(regs[r], heap) /\ r \in DOMAIN regs
         /\ \A r \in Of("pointer") : PointerOK(regs[r], heap) /\ r \in DOMAIN regs
<1>1. \A r \in DOMAIN regs : RegOK(regs[r], heap)
  BY DEF LoweringInv
<1> QED BY <1>1, KindFacts DEF Of

\* The cells of an object are a segment of the numbers, as many as they are.
LEMMA ObjectFacts ==
  ASSUME NEW memory, HeapOK(memory), NEW o \in DOMAIN memory
  PROVE  \E n \in Nat : /\ memory[o].cells \in [0 .. n - 1 -> Word] /\ memory[o].version \in Nat
                        /\ Cardinality(DOMAIN memory[o].cells) = n /\ DOMAIN memory[o].cells = 0 .. n - 1
<1>0. PICK R : R = [cells : Contents, version : Nat] /\ memory \in Seq(R)
  BY DEF HeapOK
<1>1. memory[o] \in [cells : Contents, version : Nat]
  <2>1. o \in 1 .. Len(memory)
    BY <1>0, LenProperties
  <2>2. memory[o] \in R
    BY <1>0, <2>1, ElementOfSeq
  <2> QED BY <1>0, <2>2
<1>2. PICK n \in Nat : memory[o].cells \in [0 .. n - 1 -> Word]
  BY <1>1 DEF Contents
<1>3. Cardinality(0 .. n - 1) = n
  BY FS_Interval
<1> QED BY <1>1, <1>2, <1>3

LEMMA HeapFacts ==
  ASSUME LoweringInv, NEW o \in DOMAIN heap
  PROVE  \E n \in Nat : /\ heap[o].cells \in [0 .. n - 1 -> Word] /\ heap[o].version \in Nat
                        /\ Cardinality(DOMAIN heap[o].cells) = n /\ DOMAIN heap[o].cells = 0 .. n - 1
<1>1. HeapOK(heap)
  BY DEF LoweringInv
<1> QED BY <1>1, ObjectFacts

\* Plain values have no part in memory.
LEMMA PlainFacts ==
  ASSUME NEW a, Plain(a)
  PROVE  /\ a.kind \notin References
         /\ \A memory : RegOK(a, memory) /\ NotNewer(a, memory)
         /\ \A b : Apart(a, b) /\ Apart(b, a)
<1>1. a.kind \notin References
  BY DEF Plain, IntOK, BoolOK, FloatOK, StrOK, References
<1> QED BY <1>1 DEF RegOK, NotNewer, Apart

\* An instruction that defines a value keeps the invariant if the memory it
\* leaves fits all values, old and new.
LEMMA EffectKeeps ==
  ASSUME LoweringInv, NEW reg, regs' = Append(regs, reg),
         HeapOK(heap'), RegOK(reg, heap'), \A r \in DOMAIN regs : RegOK(regs[r], heap'),
         \A r \in DOMAIN regs : Apart(regs[r], reg) /\ Apart(reg, regs[r]),
         fault' = "none" => NotNewer(reg, heap') /\ \A r \in DOMAIN regs : NotNewer(regs[r], heap'),
         held' = TRUE, fault' \in Faults, fault' # "none" => flagged',
         flagged' => \/ fault' # "none"
                     \/ \E r \in Of("array") : regs[r].size # Cardinality(DOMAIN heap'[regs[r].obj].cells)
  PROVE  LoweringInv'
<1>1. PICK S : regs \in Seq(S)
  BY DEF LoweringInv
<1>2. Len(regs) \in Nat /\ DOMAIN regs = 1 .. Len(regs)
  BY <1>1
<1>3. PICK n \in Nat : n = Len(regs) /\ DOMAIN regs = 1 .. n
  BY <1>2
<1>4. /\ DOMAIN regs' = 1 .. n + 1 /\ regs'[n + 1] = reg
      /\ \A r \in 1 .. n : regs'[r] = regs[r] /\ r \in DOMAIN regs'
  <2>1. Append(regs, reg) \in Seq(S \cup {reg}) /\ Len(Append(regs, reg)) = n + 1
    BY <1>1, <1>3
  <2>2. Append(regs, reg)[n + 1] = reg /\ \A r \in 1 .. n : Append(regs, reg)[r] = regs[r]
    BY <1>1, <1>3
  <2> QED BY <2>1, <2>2
<1>5. \A r \in DOMAIN regs' : (r \in DOMAIN regs /\ regs'[r] = regs[r]) \/ (r = n + 1 /\ regs'[r] = reg)
  <2>1. ASSUME NEW r \in 1 .. n + 1 PROVE r \in 1 .. n \/ r = n + 1
    OBVIOUS
  <2>2. \A r \in 1 .. n : r \in DOMAIN regs /\ regs'[r] = regs[r]
    BY <1>3, <1>4
  <2>3. ASSUME NEW r \in DOMAIN regs'
        PROVE  (r \in DOMAIN regs /\ regs'[r] = regs[r]) \/ (r = n + 1 /\ regs'[r] = reg)
    <3>1. r \in 1 .. n + 1 /\ regs'[n + 1] = reg
      BY <1>4
    <3>2. r \in 1 .. n \/ r = n + 1
      BY <2>1, <3>1
    <3>3. CASE r \in 1 .. n
      BY <2>2, <3>3
    <3>4. CASE r = n + 1
      BY <3>1, <3>4
    <3> QED BY <3>2, <3>3, <3>4
  <2> QED BY <2>3
<1>6. regs' \in Seq({regs'[r] : r \in DOMAIN regs'})
  <2>1. regs' \in Seq(S \cup {reg})
    BY <1>1
  <2>2. PICK T : T = {regs'[r] : r \in DOMAIN regs'}
    OBVIOUS
  <2>3. \A r \in 1 .. n + 1 : regs'[r] \in T
    BY <1>4, <2>2
  <2>4. Len(regs') = n + 1
    BY <1>1, <1>3
  <2>5. regs' \in Seq(T)
    BY <2>1, <2>3, <2>4
  <2> QED BY <2>2, <2>5
<1>7. \A r \in DOMAIN regs' : RegOK(regs'[r], heap')
  BY <1>5
<1>8. \A r, q \in DOMAIN regs' : Apart(regs'[r], regs'[q])
  <2>1. Apart(reg, reg)
    BY DEF Apart
  <2>2. \A r, q \in DOMAIN regs : Apart(regs[r], regs[q])
    BY DEF LoweringInv
  <2> QED BY <1>5, <2>1, <2>2
<1>9. fault' = "none" => \A r \in DOMAIN regs' : NotNewer(regs'[r], heap')
  BY <1>5
<1>10. FlagsAreReal'
  <2>1. ASSUME NEW r \in Of("array"), regs[r].size # Cardinality(DOMAIN heap'[regs[r].obj].cells)
        PROVE  ~ (\A q \in Of("array")' : Whole(regs[q])')
    <3>1. r \in DOMAIN regs' /\ regs'[r] = regs[r] /\ regs[r].kind = "array"
      BY <1>3, <1>4 DEF Of
    <3>2. r \in Of("array")'
      BY <3>1 DEF Of
    <3>3. ~ (regs'[r].size = Cardinality(DOMAIN heap'[regs'[r].obj].cells))
      BY <2>1, <3>1
    <3>4. ~ Whole(regs[r])'
      BY <3>3 DEF Whole
    <3> QED BY <3>2, <3>4
  <2> QED BY <2>1 DEF FlagsAreReal
<1>11. FaultsAreFlagged'
  BY DEF FaultsAreFlagged
<1> QED BY <1>6, <1>7, <1>8, <1>9, <1>10, <1>11 DEF LoweringInv

\* An instruction that leaves the memory alone and defines a plain value.
LEMMA PlainKeeps ==
  ASSUME LoweringInv, NEW reg, Plain(reg), regs' = Append(regs, reg), heap' = heap, held' = TRUE,
         fault = "none", fault' \in Faults, fault' # "none" => flagged',
         flagged' => \/ fault' # "none"
                     \/ \E r \in Of("array") : regs[r].size # Cardinality(DOMAIN heap[regs[r].obj].cells)
  PROVE  LoweringInv'
<1>1. HeapOK(heap') /\ \A r \in DOMAIN regs : RegOK(regs[r], heap') /\ NotNewer(regs[r], heap')
  BY DEF LoweringInv
<1>2. RegOK(reg, heap') /\ NotNewer(reg, heap')
  BY PlainFacts
<1>3. \A r \in DOMAIN regs : Apart(regs[r], reg) /\ Apart(reg, regs[r])
  BY PlainFacts
<1>4. flagged' => \/ fault' # "none"
                  \/ \E r \in Of("array") : regs[r].size # Cardinality(DOMAIN heap'[regs[r].obj].cells)
  OBVIOUS
<1> QED BY <1>1, <1>2, <1>3, <1>4, EffectKeeps

\* One whose formula is true and that cannot fault.
LEMMA DefineKeeps ==
  ASSUME LoweringInv, NEW reg, Plain(reg), NEW formula, Define(reg, formula), formula = TRUE
  PROVE  LoweringInv'
<1>1. /\ regs' = Append(regs, reg) /\ heap' = heap /\ held' = TRUE
      /\ fault = "none" /\ fault' = "none" /\ flagged' = FALSE
  BY DEF Define, Step, Effect, Running
<1>2. fault' \in Faults
  BY <1>1 DEF Faults
<1> QED BY <1>1, <1>2, PlainKeeps

\* A new object is none of the old ones.
LEMMA AppendMemory ==
  ASSUME LoweringInv, fault = "none", NEW cells \in Contents, heap' = Append(heap, Object(cells))
  PROVE  /\ HeapOK(heap') /\ NewObject \in DOMAIN heap' /\ NewObject # Null
         /\ heap'[NewObject].cells = cells /\ heap'[NewObject].version = 0
         /\ \A r \in DOMAIN regs : RegOK(regs[r], heap') /\ NotNewer(regs[r], heap')
         /\ \A r \in DOMAIN regs : regs[r].kind \in References => regs[r].obj # NewObject
         /\ \A o \in DOMAIN heap : o \in DOMAIN heap' /\ heap'[o] = heap[o]
<1>1. PICK R : R = [cells : Contents, version : Nat] /\ heap \in Seq(R)
  BY DEF LoweringInv, HeapOK
<1>2. PICK n \in Nat : n = Len(heap) /\ DOMAIN heap = 1 .. n
  BY <1>1, LenProperties
<1>3. PICK new : new = Object(cells) /\ new.cells = cells /\ new.version = 0 /\ new \in R
  BY <1>1 DEF Object
<1>4. heap' \in Seq(R) /\ Len(heap') = n + 1
  BY <1>1, <1>2, <1>3
<1>5. DOMAIN heap' = 1 .. n + 1 /\ heap'[n + 1] = new /\ \A o \in 1 .. n : heap'[o] = heap[o]
  BY <1>1, <1>2, <1>3, <1>4
<1>6. HeapOK(heap')
  BY <1>1, <1>4 DEF HeapOK
<1>7. NewObject = n + 1 /\ n + 1 \in DOMAIN heap' /\ n + 1 # Null /\ n + 1 \notin DOMAIN heap
  BY <1>2, <1>5 DEF NewObject, Null
<1>8. \A o \in DOMAIN heap : o \in DOMAIN heap' /\ heap'[o] = heap[o]
  BY <1>2, <1>5
<1>9. ASSUME NEW r \in DOMAIN regs
      PROVE  /\ RegOK(regs[r], heap') /\ NotNewer(regs[r], heap')
             /\ regs[r].kind \in References => regs[r].obj # n + 1
  <2>1. PICK a : a = regs[r] /\ RegOK(a, heap) /\ NotNewer(a, heap)
    BY DEF LoweringInv
  <2>2. CASE Plain(a)
    BY <2>1, <2>2, PlainFacts
  <2>3. CASE ArrayOK(a, heap)
    <3>1. a.obj \in DOMAIN heap /\ heap'[a.obj] = heap[a.obj] /\ a.obj \in DOMAIN heap' /\ a.obj # n + 1
      BY <1>7, <1>8, <2>3 DEF ArrayOK
    <3>2. ArrayOK(a, heap')
      BY <2>3, <3>1 DEF ArrayOK, Fresh
    <3> QED BY <2>1, <3>1, <3>2 DEF RegOK, Reference, NotNewer
  <2>4. CASE BufferOK(a, heap)
    <3>1. a.obj \in DOMAIN heap /\ heap'[a.obj] = heap[a.obj] /\ a.obj \in DOMAIN heap' /\ a.obj # n + 1
      BY <1>7, <1>8, <2>4 DEF BufferOK
    <3>2. BufferOK(a, heap')
      BY <2>4, <3>1 DEF BufferOK
    <3> QED BY <2>1, <3>1, <3>2 DEF RegOK, Reference, NotNewer
  <2>5. CASE ListOK(a, heap)
    <3>1. a.obj \in DOMAIN heap /\ heap'[a.obj] = heap[a.obj] /\ a.obj \in DOMAIN heap' /\ a.obj # n + 1
      BY <1>7, <1>8, <2>5 DEF ListOK
    <3>2. ListOK(a, heap')
      BY <2>5, <3>1 DEF ListOK, Fresh
    <3> QED BY <2>1, <3>1, <3>2 DEF RegOK, Reference, NotNewer
  <2>6. CASE PointerOK(a, heap)
    <3>1. a.obj \in DOMAIN heap \cup {Null}
      BY <2>6 DEF PointerOK
    <3>2. a.obj # Null => heap'[a.obj] = heap[a.obj] /\ a.obj \in DOMAIN heap'
      BY <1>8, <3>1
    <3>3. a.obj # n + 1
      BY <1>7, <3>1
    <3>4. PointerOK(a, heap')
      BY <2>6, <3>1, <3>2 DEF PointerOK, Fresh
    <3>5. NotNewer(a, heap')
      BY <2>1, <3>2 DEF NotNewer
    <3> QED BY <2>1, <3>3, <3>4, <3>5 DEF RegOK, Reference
  <2> QED BY <2>1, <2>2, <2>3, <2>4, <2>5, <2>6 DEF RegOK, Reference
<1> QED BY <1>3, <1>5, <1>6, <1>7, <1>8, <1>9

\* A store makes the references to its object old.  The object keeps its
\* cells, or all references to it are lists and it stays a list.
LEMMA WrittenMemory ==
  ASSUME LoweringInv, fault = "none", NEW o \in DOMAIN heap, NEW cells \in Contents,
         heap' = Written(o, cells),
         \/ DOMAIN cells = DOMAIN heap[o].cells
         \/ /\ Cardinality(DOMAIN cells) < Half
            /\ \A r \in DOMAIN regs : regs[r].kind \in References /\ regs[r].obj = o => regs[r].kind = "list"
  PROVE  /\ HeapOK(heap') /\ DOMAIN heap' = DOMAIN heap
         /\ heap'[o].cells = cells /\ heap'[o].version = heap[o].version + 1 /\ heap[o].version \in Nat
         /\ \A p \in DOMAIN heap : p # o => heap'[p] = heap[p]
         /\ \A r \in DOMAIN regs : RegOK(regs[r], heap') /\ NotNewer(regs[r], heap')
<1>1. PICK R : R = [cells : Contents, version : Nat] /\ heap \in Seq(R)
  BY DEF LoweringInv, HeapOK
<1>2. PICK n \in Nat : n = Len(heap) /\ DOMAIN heap = 1 .. n /\ heap \in [1 .. n -> R]
  BY <1>1, LenProperties
<1>3. heap[o] \in R /\ heap[o].version \in Nat
  BY <1>1, <1>2
<1>a. PICK v \in Nat : v = heap[o].version + 1
  BY <1>3
<1>b. PICK new : new = [cells |-> cells, version |-> v]
  OBVIOUS
<1>4. new \in R /\ new.cells = cells /\ new.version = heap[o].version + 1
  BY <1>1, <1>a, <1>b
<1>5. heap' = [heap EXCEPT ![o] = new]
  BY <1>a, <1>b DEF Written
<1>6. /\ heap' \in [1 .. n -> R] /\ DOMAIN heap' = DOMAIN heap /\ heap'[o] = new
      /\ \A p \in DOMAIN heap : p # o => heap'[p] = heap[p]
  BY <1>2, <1>4, <1>5
<1>7. HeapOK(heap')
  <2>1. heap' \in Seq(R)
    BY <1>2, <1>6
  <2> QED BY <1>1, <2>1 DEF HeapOK
<1>8. ASSUME NEW r \in DOMAIN regs PROVE RegOK(regs[r], heap') /\ NotNewer(regs[r], heap')
  <2>1. PICK a : a = regs[r] /\ RegOK(a, heap) /\ NotNewer(a, heap)
    BY DEF LoweringInv
  <2>2. CASE Plain(a)
    BY <2>1, <2>2, PlainFacts
  <2>3. ASSUME a.kind \in References, a.obj \in DOMAIN heap, a.obj # Null, a.version \in Nat
        PROVE  /\ NotNewer(a, heap') /\ a.obj \in DOMAIN heap'
               /\ Fresh(a, heap') => Fresh(a, heap) /\ a.obj # o
               /\ a.obj # o => heap'[a.obj] = heap[a.obj]
    <3>1. a.version <= heap[a.obj].version
      BY <2>1, <2>3 DEF NotNewer
    <3>2. CASE a.obj = o
      <4>1. heap'[a.obj].version = heap[o].version + 1 /\ a.version <= heap[o].version
        BY <1>4, <1>6, <3>1, <3>2
      <4>2. a.version <= heap'[a.obj].version /\ a.version # heap'[a.obj].version
        BY <1>3, <2>3, <4>1
      <4> QED BY <1>6, <2>3, <3>2, <4>2 DEF NotNewer, Fresh
    <3>3. CASE a.obj # o
      <4>1. heap'[a.obj] = heap[a.obj]
        BY <1>6, <2>3, <3>3
      <4> QED BY <1>6, <2>3, <3>1, <3>3, <4>1 DEF NotNewer, Fresh
    <3> QED BY <3>2, <3>3
  <2>4. Null \notin DOMAIN heap
    BY <1>2 DEF Null
  <2>5. a.kind \in References /\ a.obj = o /\ a.kind # "list" => DOMAIN heap'[o].cells = DOMAIN heap[o].cells
    BY <1>4, <1>6, <2>1
  <2>6. CASE ArrayOK(a, heap)
    <3>1. a.kind \in References /\ a.kind # "list" /\ a.obj \in DOMAIN heap /\ a.version \in Nat
      BY <2>6 DEF ArrayOK, References
    <3>2. NotNewer(a, heap') /\ a.obj \in DOMAIN heap' /\ (Fresh(a, heap') => Fresh(a, heap) /\ a.obj # o)
          /\ (a.obj # o => heap'[a.obj] = heap[a.obj])
      BY <2>3, <2>4, <3>1
    <3>3. DOMAIN heap'[a.obj].cells = DOMAIN heap[a.obj].cells
      BY <2>5, <3>1, <3>2
    <3>4. a.size > 0 => Ends(a, heap'[a.obj].cells)
      BY <2>6, <3>3 DEF ArrayOK, Ends
    <3>5. Fresh(a, heap') => a.view = heap'[a.obj].cells
      BY <2>6, <3>2 DEF ArrayOK
    <3>6. ArrayOK(a, heap')
      BY <2>6, <3>2, <3>4, <3>5 DEF ArrayOK
    <3> QED BY <2>1, <3>2, <3>6 DEF RegOK, Reference
  <2>7. CASE BufferOK(a, heap)
    <3>1. a.kind \in References /\ a.kind # "list" /\ a.obj \in DOMAIN heap /\ a.version \in Nat
      BY <2>7 DEF BufferOK, References
    <3>2. NotNewer(a, heap') /\ a.obj \in DOMAIN heap' /\ (a.obj # o => heap'[a.obj] = heap[a.obj])
      BY <2>3, <2>4, <3>1
    <3>3. DOMAIN heap'[a.obj].cells = DOMAIN heap[a.obj].cells
      BY <2>5, <3>1, <3>2
    <3>4. BufferOK(a, heap')
      BY <2>7, <3>2, <3>3 DEF BufferOK
    <3> QED BY <2>1, <3>2, <3>4 DEF RegOK, Reference
  <2>8. CASE ListOK(a, heap)
    <3>1. a.kind \in References /\ a.obj \in DOMAIN heap /\ a.version \in Nat
      BY <2>8 DEF ListOK, References
    <3>2. NotNewer(a, heap') /\ a.obj \in DOMAIN heap' /\ (Fresh(a, heap') => Fresh(a, heap) /\ a.obj # o)
          /\ (a.obj # o => heap'[a.obj] = heap[a.obj])
      BY <2>3, <2>4, <3>1
    <3>3. Cardinality(DOMAIN heap'[a.obj].cells) < Half
      <4>1. CASE a.obj # o
        BY <2>8, <3>2, <4>1 DEF ListOK
      <4>2. CASE a.obj = o
        BY <1>4, <1>6, <2>8, <4>2 DEF ListOK
      <4> QED BY <4>1, <4>2
    <3>4. Fresh(a, heap') => a.len = Cardinality(DOMAIN heap'[a.obj].cells)
      BY <2>8, <3>2 DEF ListOK
    <3>5. ListOK(a, heap')
      BY <1>6, <2>8, <3>3, <3>4 DEF ListOK
    <3> QED BY <2>1, <3>2, <3>5 DEF RegOK, Reference
  <2>9. CASE PointerOK(a, heap)
    <3>1. /\ a.kind \in References /\ a.kind # "list" /\ a.version \in Nat
          /\ a.obj \in DOMAIN heap \/ a.obj = Null
      BY <2>9 DEF PointerOK, References
    <3>2. CASE a.obj = Null
      BY <1>6, <2>1, <2>9, <3>2 DEF PointerOK, RegOK, Reference, NotNewer
    <3>3. CASE a.obj # Null
      <4>1. NotNewer(a, heap') /\ (Fresh(a, heap') => Fresh(a, heap) /\ a.obj # o)
            /\ (a.obj # o => heap'[a.obj] = heap[a.obj])
        BY <2>3, <3>1, <3>3
      <4>2. DOMAIN heap'[a.obj].cells = 0 .. 1
        BY <2>5, <2>9, <3>1, <3>3, <4>1 DEF PointerOK
      <4>3. PointerOK(a, heap')
        BY <1>6, <2>9, <4>1, <4>2 DEF PointerOK
      <4> QED BY <2>1, <4>1, <4>3 DEF RegOK, Reference
    <3> QED BY <3>2, <3>3
  <2> QED BY <2>1, <2>2, <2>6, <2>7, <2>8, <2>9 DEF RegOK, Reference
<1> QED BY <1>3, <1>4, <1>6, <1>7, <1>8

----------------------------------------------------------------------------
(***************************************************************************)
(* The instructions on integers.                                           *)
(***************************************************************************)
Narrowed == Excluded = Exclusions

LEMMA IntPlain ==
  ASSUME NEW w \in Word
  PROVE  Plain(Int2(w, w)) /\ IntReg(w) = Int2(w, w)
BY DEF Plain, IntOK, Int2, IntReg

LEMMA ConstIntKeeps ==
  ASSUME LoweringInv, ConstInt
  PROVE  LoweringInv'
<1>1. PICK w \in Literals : Define(IntReg(w), TRUE)
  BY DEF ConstInt
<1>2. w \in Word
  BY ScalarAssumption
<1> QED BY <1>1, <1>2, IntPlain, DefineKeeps

LEMMA ArithKeeps ==
  ASSUME LoweringInv, Narrowed, Arith
  PROVE  LoweringInv'
<1>1. PICK op \in {"+", "-", "*"}, l \in Of("int"), r \in Of("int") :
        LET term == BvArith(op, regs[l].s, regs[r].s)
        IN  /\ Keeps("wrap", Fits(ParseInt(op, regs[l].m, regs[r].m)))
            /\ Define(Int2(Machine(op, regs[l].m, regs[r].m), term),
                      Constraint(term, ParseInt(op, regs[l].s, regs[r].s)))
  BY DEF Arith
<1>2. PICK a \in Word, b \in Word : a = regs[l].m /\ a = regs[l].s /\ b = regs[r].m /\ b = regs[r].s
  BY RegFacts DEF IntOK
<1>3. PICK w \in Word, i \in Int : w = BvArith(op, a, b) /\ i = ParseInt(op, a, b) /\ w = ToWord(i)
  BY ArithWords
<1>4. Machine(op, a, b) = w
  BY <1>3 DEF Machine
<1>5. Fits(i)
  <2>1. Keeps("wrap", Fits(i))
    BY <1>1, <1>2, <1>3
  <2> QED BY <2>1 DEF Narrowed, Exclusions, Keeps
<1>6. Constraint(w, i) = TRUE
  BY <1>3, <1>5, ToWordFacts DEF Constraint
<1>7. Define(Int2(w, w), Constraint(w, i))
  BY <1>1, <1>2, <1>3, <1>4
<1> QED BY <1>6, <1>7, IntPlain, DefineKeeps

LEMMA DivRemKeeps ==
  ASSUME LoweringInv, Narrowed, DivRem
  PROVE  LoweringInv'
<1>1. PICK op \in {"//", "%"}, l \in Of("int"), r \in Of("int"), k \in Knowledge :
        LET a == regs[l]
            b == regs[r]
            zero == b.s = 0 /\ k = "nothing"
            term == IF op = "//" THEN BvSDiv(a.s, b.s) ELSE BvSRem(a.s, b.s)
        IN  /\ Knows(k, Signed(b.m))
            /\ Keeps("wrap", ~(a.m = MinInt /\ Signed(b.m) = -1))
            /\ Keeps("sign", op = "%" => Signed(a.m) >= 0 /\ Signed(b.m) >= 0)
            /\ Step(Int2(Machine(op, a.m, b.m), term),
                    op = "%" /\ b.s # 0 => Constraint(term, ParseInt(op, a.s, b.s)),
                    zero, IF Traps(op, a.m, b.m) THEN "trap" ELSE "none")
  BY DEF DivRem
<1>2. PICK x \in Word, y \in Word : x = regs[l].m /\ x = regs[l].s /\ y = regs[r].m /\ y = regs[r].s
  BY RegFacts DEF IntOK
<1>3. PICK t : t = IF op = "//" THEN BvSDiv(x, y) ELSE BvSRem(x, y)
  OBVIOUS
<1>4. t \in Word /\ Machine(op, x, y) = t
  BY <1>3, DivisionWords DEF Machine
<1>5. /\ Knows(k, Signed(y)) /\ ~ (x = MinInt /\ Signed(y) = -1)
      /\ op = "%" => Signed(x) >= 0 /\ Signed(y) >= 0
  BY <1>1, <1>2 DEF Narrowed, Exclusions, Keeps
<1>6. (op = "%" /\ y # 0 => Constraint(t, ParseInt(op, x, y))) = TRUE
  BY <1>3, <1>5, DivisionWords DEF Constraint
<1>7. Traps(op, x, y) <=> y = 0
  BY <1>5 DEF Traps, ClDivTraps, ClRemTraps
<1>8. y = 0 => k = "nothing"
  BY <1>5, SignedFacts DEF Knows, Knowledge
<1>9. Step(Int2(t, t), op = "%" /\ y # 0 => Constraint(t, ParseInt(op, x, y)), y = 0 /\ k = "nothing",
           IF Traps(op, x, y) THEN "trap" ELSE "none")
  BY <1>1, <1>2, <1>3, <1>4
<1>10. /\ regs' = Append(regs, Int2(t, t)) /\ heap' = heap /\ held' = TRUE /\ fault = "none"
       /\ flagged' = (y = 0) /\ fault' = IF y = 0 THEN "trap" ELSE "none"
  BY <1>6, <1>7, <1>8, <1>9 DEF Step, Effect, Running
<1>11. fault' \in Faults /\ (fault' # "none" <=> flagged')
  BY <1>10 DEF Faults
<1> QED BY <1>4, <1>10, <1>11, IntPlain, PlainKeeps

LEMMA NegKeeps ==
  ASSUME LoweringInv, Narrowed, Neg
  PROVE  LoweringInv'
<1>1. PICK r \in Of("int") :
        LET term == BvNeg(regs[r].s)
        IN  /\ Keeps("wrap", regs[r].m # MinInt)
            /\ Define(Int2(BvNeg(regs[r].m), term), Constraint(term, 0 - Signed(regs[r].s)))
  BY DEF Neg
<1>2. PICK a \in Word : a = regs[r].m /\ a = regs[r].s
  BY RegFacts DEF IntOK
<1>3. a # MinInt
  BY <1>1, <1>2 DEF Narrowed, Exclusions, Keeps
<1>4. PICK w \in Word : w = BvNeg(a) /\ Signed(w) = 0 - Signed(a)
  BY <1>3, NegWords
<1>5. Constraint(w, 0 - Signed(a)) = TRUE
  BY <1>4 DEF Constraint
<1>6. Define(Int2(w, w), Constraint(w, 0 - Signed(a)))
  BY <1>1, <1>2, <1>4
<1> QED BY <1>5, <1>6, IntPlain, DefineKeeps

LEMMA AbsIntKeeps ==
  ASSUME LoweringInv, AbsInt
  PROVE  LoweringInv'
<1>1. PICK r \in Of("int") : Define(Int2(BvAbs(regs[r].m), BvAbs(regs[r].s)), TRUE)
  BY DEF AbsInt
<1>2. PICK a \in Word : a = regs[r].m /\ a = regs[r].s
  BY RegFacts DEF IntOK
<1>3. PICK w \in Word : w = BvAbs(a)
  BY NegWords DEF BvAbs
<1>4. Define(Int2(w, w), TRUE)
  BY <1>1, <1>2, <1>3
<1> QED BY <1>4, IntPlain, DefineKeeps

LEMMA MinMaxKeeps ==
  ASSUME LoweringInv, MinMax
  PROVE  LoweringInv'
<1>1. PICK op \in {"min", "max"}, l \in Of("int"), r \in Of("int") :
        Define(Int2(Pick(op, regs[l].m, regs[r].m), Pick(op, regs[l].s, regs[r].s)), TRUE)
  BY DEF MinMax
<1>2. PICK a \in Word, b \in Word : a = regs[l].m /\ a = regs[l].s /\ b = regs[r].m /\ b = regs[r].s
  BY RegFacts DEF IntOK
<1>3. PICK w \in Word : w = Pick(op, a, b)
  BY DEF Pick
<1>4. Define(Int2(w, w), TRUE)
  BY <1>1, <1>2, <1>3
<1> QED BY <1>4, IntPlain, DefineKeeps

LEMMA AvgKeeps ==
  ASSUME LoweringInv, Narrowed, Avg
  PROVE  LoweringInv'
<1>1. PICK l \in Of("int"), r \in Of("int") :
        /\ Keeps("wrap", regs[l].m + regs[r].m + 1 < 2^W)
        /\ Define(Int2(ClAvg(regs[l].m, regs[r].m), BvAvg(regs[l].s, regs[r].s)), TRUE)
  BY DEF Avg
<1>2. PICK a \in Word, b \in Word : a = regs[l].m /\ a = regs[l].s /\ b = regs[r].m /\ b = regs[r].s
  BY RegFacts DEF IntOK
<1>3. a + b + 1 < 2^W
  BY <1>1, <1>2 DEF Narrowed, Exclusions, Keeps
<1>4. PICK w \in Word : w = ClAvg(a, b) /\ w = BvAvg(a, b)
  BY <1>3, AvgWords
<1>5. Define(Int2(w, w), TRUE)
  BY <1>1, <1>2, <1>4
<1> QED BY <1>5, IntPlain, DefineKeeps

LEMMA BitwiseKeeps ==
  ASSUME LoweringInv, Bitwise
  PROVE  LoweringInv'
<1>1. PICK op \in {"&", "|", "^"}, l \in Of("int"), r \in Of("int") :
        LET term == Logic(op, regs[l].s, regs[r].s)
        IN  Define(Int2(Machine(op, regs[l].m, regs[r].m), term),
                   Constraint(term, ParseBv(op, regs[l].s, regs[r].s)))
  BY DEF Bitwise
<1>2. PICK a \in Word, b \in Word : a = regs[l].m /\ a = regs[l].s /\ b = regs[r].m /\ b = regs[r].s
  BY RegFacts DEF IntOK
<1>3. PICK w \in Word : w = Logic(op, a, b)
  BY LogicWords
<1>4. Machine(op, a, b) = w
  BY <1>3 DEF Machine
<1>5. Constraint(w, ParseBv(op, a, b)) = TRUE
  BY <1>3 DEF Constraint, ParseBv, Logic
<1>6. Define(Int2(w, w), Constraint(w, ParseBv(op, a, b)))
  BY <1>1, <1>2, <1>3, <1>4
<1> QED BY <1>5, <1>6, IntPlain, DefineKeeps

LEMMA InvertKeeps ==
  ASSUME LoweringInv, Invert
  PROVE  LoweringInv'
<1>1. PICK r \in Of("int") : Define(Int2(BvNot(regs[r].m), BvNot(regs[r].s)), TRUE)
  BY DEF Invert
<1>2. PICK a \in Word : a = regs[r].m /\ a = regs[r].s
  BY RegFacts DEF IntOK
<1>3. PICK w \in Word : w = BvNot(a)
  <2>1. 2^W - 1 - a \in Word
    BY WordFacts
  <2> QED BY <2>1 DEF BvNot
<1>4. Define(Int2(w, w), TRUE)
  BY <1>1, <1>2, <1>3
<1> QED BY <1>4, IntPlain, DefineKeeps

LEMMA ShiftKeeps ==
  ASSUME LoweringInv, Narrowed, Shift
  PROVE  LoweringInv'
<1>1. PICK op \in {"<<", ">>"}, l \in Of("int"), r \in Of("int") :
        LET a == regs[l]
            n == regs[r]
            term == IF op = "<<" THEN BvShl(a.s, n.s) ELSE BvAShr(a.s, n.s)
        IN  /\ Keeps("shift", n.m < W)
            /\ Define(Int2(Machine(op, a.m, n.m), term),
                      Constraint(term, ParseBv(op, a.s, n.s)))
  BY DEF Shift
<1>2. PICK a \in Word, n \in Word : a = regs[l].m /\ a = regs[l].s /\ n = regs[r].m /\ n = regs[r].s
  BY RegFacts DEF IntOK
<1>3. n < W
  BY <1>1, <1>2 DEF Narrowed, Exclusions, Keeps
<1>4. PICK w \in Word : w = IF op = "<<" THEN BvShl(a, n) ELSE BvAShr(a, n)
  BY <1>3, ShiftWords
<1>5. Machine(op, a, n) = w
  BY <1>3, <1>4, ShiftWords DEF Machine
<1>6. Constraint(w, ParseBv(op, a, n)) = TRUE
  BY <1>4 DEF Constraint, ParseBv
<1>7. Define(Int2(w, w), Constraint(w, ParseBv(op, a, n)))
  BY <1>1, <1>2, <1>4, <1>5
<1> QED BY <1>6, <1>7, IntPlain, DefineKeeps

----------------------------------------------------------------------------
(***************************************************************************)
(* The instructions on booleans, and comparisons.                          *)
(***************************************************************************)
LEMMA BoolPlain ==
  ASSUME NEW m \in Truths, NEW t \in BOOLEAN, m # 0 <=> t
  PROVE  Plain(Bool2(m, t))
<1>0. PICK a : a = Bool2(m, t)
  OBVIOUS
<1>1. a.kind = "bool" /\ a.m = m /\ a.s = Bit(t)
  BY <1>0 DEF Bool2
<1>2. a.s \in {0, 1} /\ (a.s = 1 <=> t)
  BY <1>1 DEF Bit
<1> QED BY <1>0, <1>1, <1>2 DEF Plain, BoolOK

LEMMA BitTruth ==
  ASSUME NEW t \in BOOLEAN
  PROVE  Bit(t) \in Truths /\ (Bit(t) # 0 <=> t)
BY DEF Bit, Truths

\* The mask a comparison leaves
LEMMA ComparedPlain ==
  ASSUME NEW t \in BOOLEAN
  PROVE  Plain(Compared(t, t))
<1>1. PICK m : m = IF t THEN AllOnes ELSE 0
  OBVIOUS
<1>2. m \in Truths /\ (m # 0 <=> t)
  BY <1>1, WordFacts DEF Truths
<1>3. Plain(Bool2(m, t))
  BY <1>2, BoolPlain
<1> QED BY <1>1, <1>3 DEF Compared

LEMMA CompareType ==
  ASSUME NEW op \in Relations, NEW i \in Int, NEW j \in Int
  PROVE  Compare(op, i, j) \in BOOLEAN
<1>1. CASE op = "="
  BY <1>1 DEF Compare
<1>2. CASE op = "!="
  BY <1>2 DEF Compare
<1>3. CASE op = "<"
  BY <1>3 DEF Compare
<1>4. CASE op = "<="
  BY <1>4 DEF Compare
<1>5. CASE op = ">"
  BY <1>5 DEF Compare
<1>6. CASE op = ">="
  BY <1>6 DEF Compare
<1> QED BY <1>1, <1>2, <1>3, <1>4, <1>5, <1>6 DEF Relations

LEMMA ConstBoolKeeps ==
  ASSUME LoweringInv, ConstBool
  PROVE  LoweringInv'
<1>1. PICK t \in BOOLEAN : Define(Bool2(Bit(t), t), TRUE)
  BY DEF ConstBool
<1>2. PICK m \in Truths : m = Bit(t) /\ (m # 0 <=> t)
  BY BitTruth
<1>3. Plain(Bool2(m, t))
  BY <1>2, BoolPlain
<1> QED BY <1>1, <1>2, <1>3, DefineKeeps

LEMMA CompareIntKeeps ==
  ASSUME LoweringInv, Narrowed, CompareInt
  PROVE  LoweringInv'
<1>1. PICK op \in Relations, l \in Of("int"), r \in Of("int") :
        LET a == regs[l]
            b == regs[r]
            t == Compare(op, Signed(a.s), Signed(b.s))
        IN  /\ Keeps("refined", op \in {"=", "!="} => ~(a.refined /\ b.refined))
            /\ Define(Compared(Compare(op, Signed(a.m), Signed(b.m)), t),
                      t = ParseCompare(op, a, b))
  BY DEF CompareInt
<1>2. PICK a, b : a = regs[l] /\ b = regs[r] /\ IntOK(a) /\ IntOK(b)
  BY RegFacts
<1>3. PICK x \in Int, y \in Int : x = Signed(a.m) /\ x = Signed(a.s) /\ y = Signed(b.m) /\ y = Signed(b.s)
  BY <1>2, SignedFacts DEF IntOK
<1>4. PICK t \in BOOLEAN : t = Compare(op, x, y)
  BY CompareType
<1>5. op \in {"=", "!="} => ~(a.refined /\ b.refined)
  BY <1>1, <1>2 DEF Narrowed, Exclusions, Keeps
<1>6. ParseCompare(op, a, b) = t
  <2>1. op \in {"=", "!="} => ~ (\A z \in {a, b} : ResolveBool(z) # {})
    BY <1>5 DEF ResolveBool
  <2> QED BY <1>3, <1>4, <2>1 DEF ParseCompare
<1>7. (t = ParseCompare(op, a, b)) = TRUE
  BY <1>6
<1>8. Define(Compared(t, t), t = ParseCompare(op, a, b))
  BY <1>1, <1>2, <1>3, <1>4
<1>9. Plain(Compared(t, t))
  BY ComparedPlain
<1> QED BY <1>7, <1>8, <1>9, DefineKeeps

LEMMA CompareBoolKeeps ==
  ASSUME LoweringInv, Narrowed, CompareBool
  PROVE  LoweringInv'
<1>1. PICK op \in {"=", "!="}, l \in Of("bool"), r \in Of("bool") :
        /\ Keeps("bool", Masked(l) /\ Masked(r))
        /\ Define(Compared(Compare(op, regs[l].m, regs[r].m),
                           Compare(op, regs[l].s, regs[r].s)), TRUE)
  BY DEF CompareBool
<1>2. PICK a, b : a = regs[l] /\ b = regs[r] /\ BoolOK(a) /\ BoolOK(b)
  BY RegFacts
<1>3. a.m \in {0, AllOnes} /\ b.m \in {0, AllOnes}
  BY <1>1, <1>2 DEF Narrowed, Exclusions, Keeps, Masked
<1>4. (a.m = b.m <=> a.s = b.s) /\ AllOnes # 0
  BY <1>2, <1>3, WordFacts DEF BoolOK
<1>5. PICK t \in BOOLEAN : t = Compare(op, a.m, b.m) /\ t = Compare(op, a.s, b.s)
  BY <1>4 DEF Compare
<1>6. Define(Compared(t, t), TRUE)
  BY <1>1, <1>2, <1>5
<1>7. Plain(Compared(t, t))
  BY ComparedPlain
<1> QED BY <1>6, <1>7, DefineKeeps

LEMMA LogicBoolKeeps ==
  ASSUME LoweringInv, Narrowed, LogicBool
  PROVE  LoweringInv'
<1>1. PICK op \in {"&", "|", "^"}, l \in Of("bool"), r \in Of("bool") :
        /\ Keeps("bool", op = "^" => Masked(l) /\ Masked(r))
        /\ Define(Bool2(Machine(op, regs[l].m, regs[r].m),
                        Logic(op, regs[l].s, regs[r].s) = 1), TRUE)
  BY DEF LogicBool
<1>2. PICK a, b : a = regs[l] /\ b = regs[r] /\ BoolOK(a) /\ BoolOK(b)
  BY RegFacts
<1>3. op = "^" => a.m \in Masks /\ b.m \in Masks
  BY <1>1, <1>2 DEF Narrowed, Exclusions, Keeps, Masked, Masks
<1>4. PICK x \in Truths, y \in Truths, u \in {0, 1}, v \in {0, 1} :
        x = a.m /\ y = b.m /\ u = a.s /\ v = b.s /\ (x # 0 <=> u = 1) /\ (y # 0 <=> v = 1)
  BY <1>2 DEF BoolOK
<1>5. PICK t \in BOOLEAN : t = (Logic(op, u, v) = 1)
  OBVIOUS
<1>6. PICK m : m = Logic(op, x, y)
  OBVIOUS
<1>7. m \in Truths /\ (m # 0 <=> t)
  <2>1. CASE op = "&"
    <3>1. m = BvAnd(x, y) /\ (t <=> BvAnd(u, v) = 1)
      BY <1>5, <1>6, <2>1 DEF Logic
    <3>2. m \in Truths /\ (m # 0 <=> (x # 0 /\ y # 0))
      BY <3>1, TruthWords
    <3>3. t <=> (u = 1 /\ v = 1)
      BY <3>1, SolverBits
    <3> QED BY <1>4, <3>2, <3>3
  <2>2. CASE op = "|"
    <3>1. m = BvOr(x, y) /\ (t <=> BvOr(u, v) = 1)
      BY <1>5, <1>6, <2>2 DEF Logic
    <3>2. m \in Truths /\ (m # 0 <=> (x # 0 \/ y # 0))
      BY <3>1, TruthWords
    <3>3. t <=> (u = 1 \/ v = 1)
      BY <3>1, SolverBits
    <3> QED BY <1>4, <3>2, <3>3
  <2>3. CASE op = "^"
    <3>1. x \in Masks /\ y \in Masks /\ AllOnes # 0
      BY <1>3, <1>4, <2>3, WordFacts
    <3>2. x # y <=> u # v
      BY <1>4, <3>1 DEF Masks
    <3>3. m = BvXor(x, y) /\ (t <=> BvXor(u, v) = 1)
      BY <1>5, <1>6, <2>3 DEF Logic
    <3> QED BY <3>1, <3>2, <3>3, TruthWords, SolverBits
  <2> QED BY <2>1, <2>2, <2>3
<1>8. Machine(op, x, y) = m
  BY <1>6 DEF Machine
<1>9. Define(Bool2(m, t), TRUE)
  BY <1>1, <1>2, <1>4, <1>5, <1>8
<1>10. Plain(Bool2(m, t))
  BY <1>7, BoolPlain
<1> QED BY <1>9, <1>10, DefineKeeps

LEMMA NotBoolKeeps ==
  ASSUME LoweringInv, Narrowed, NotBool
  PROVE  LoweringInv'
<1>1. PICK r \in Of("bool") :
        /\ Keeps("bool", Masked(r))
        /\ Define(Bool2(BvNot(regs[r].m), regs[r].s = 0), TRUE)
  BY DEF NotBool
<1>2. PICK a : a = regs[r] /\ BoolOK(a)
  BY RegFacts
<1>3. a.m \in {0, AllOnes}
  BY <1>1, <1>2 DEF Narrowed, Exclusions, Keeps, Masked
<1>4. PICK t \in BOOLEAN : t = (a.s = 0)
  OBVIOUS
<1>5. PICK m : m = BvNot(a.m)
  OBVIOUS
<1>6. m \in Truths /\ (m # 0 <=> a.m = 0)
  <2>1. PICK h \in Nat : AllOnes = 2 * h - 1 /\ 2^W = 2 * h /\ h >= 2
    BY WordFacts
  <2>2. CASE a.m = 0
    <3>1. m = AllOnes /\ AllOnes # 0
      BY <1>5, <2>1, <2>2 DEF BvNot
    <3> QED BY <2>2, <3>1 DEF Truths
  <2>3. CASE a.m = AllOnes
    <3>1. m = 0 /\ AllOnes # 0
      BY <1>5, <2>1, <2>3 DEF BvNot
    <3> QED BY <2>3, <3>1 DEF Truths
  <2> QED BY <1>3, <2>2, <2>3
<1>7. m # 0 <=> t
  <2>1. a.s \in {0, 1} /\ (a.m # 0 <=> a.s = 1)
    BY <1>2 DEF BoolOK
  <2>2. a.m = 0 <=> a.s = 0
    BY <2>1
  <2>3. t <=> a.s = 0
    BY <1>4
  <2> QED BY <1>6, <2>2, <2>3
<1>8. Define(Bool2(m, t), TRUE)
  BY <1>1, <1>2, <1>4, <1>5
<1>9. Plain(Bool2(m, t))
  BY <1>6, <1>7, BoolPlain
<1> QED BY <1>8, <1>9, DefineKeeps

LEMMA CompareFloatKeeps ==
  ASSUME LoweringInv, CompareFloat
  PROVE  LoweringInv'
<1>1. PICK op \in Relations, l \in Of("float"), r \in Of("float") :
        Define(Compared(Ieee(op, regs[l].m, regs[r].m), FloatTerms(op, regs[l].m, regs[r].m)), TRUE)
  BY DEF CompareFloat
<1>2. PICK x \in Floats, y \in Floats : x = regs[l].m /\ y = regs[r].m
  BY RegFacts DEF FloatOK
<1>3. x \in Int /\ y \in Int /\ x # NaN /\ y # NaN
  BY ScalarAssumption
<1>4. PICK t \in BOOLEAN : t = Compare(op, x, y)
  BY <1>3, CompareType
<1>5. Ieee(op, x, y) = t
  BY <1>3, <1>4 DEF Ieee
<1>6. FloatTerms(op, x, y) = t
  <2>1. op = "=" => t = (x = y)
    BY <1>4 DEF Compare
  <2>2. op = "!=" => t = (x # y)
    BY <1>4 DEF Compare
  <2> QED BY <1>5, <2>1, <2>2 DEF FloatTerms
<1>7. Define(Compared(t, t), TRUE)
  BY <1>1, <1>2, <1>5, <1>6
<1>8. Plain(Compared(t, t))
  BY ComparedPlain
<1> QED BY <1>7, <1>8, DefineKeeps

LEMMA CompareStrKeeps ==
  ASSUME LoweringInv, Narrowed, CompareStr
  PROVE  LoweringInv'
<1>1. PICK op \in {"=", "!="}, l \in Of("str"), r \in Of("str") :
        \E same \in MaySame(regs[l].m, regs[r].m) :
            /\ Keeps("text", same = (regs[l].m = regs[r].m))
            /\ Define(Bool2(StrResult(op, same), Compare(op, regs[l].s, regs[r].s)), TRUE)
  BY DEF CompareStr
<1>2. PICK x, y : x = regs[l].m /\ x = regs[l].s /\ y = regs[r].m /\ y = regs[r].s
  BY RegFacts DEF StrOK
<1>3. PICK same \in MaySame(x, y) :
            /\ Keeps("text", same = (x = y))
            /\ Define(Bool2(StrResult(op, same), Compare(op, x, y)), TRUE)
  BY <1>1, <1>2
<1>4. same = (x = y)
  BY <1>3 DEF Narrowed, Exclusions, Keeps
<1>5. PICK t \in BOOLEAN : t = Compare(op, x, y) /\ t = ((op = "=") = same)
  BY <1>4 DEF Compare
<1>6. PICK m : m = StrResult(op, same)
  OBVIOUS
<1>7. m \in Truths /\ (m # 0 <=> t)
  BY <1>5, <1>6, BitTruth DEF StrResult
<1>8. Define(Bool2(m, t), TRUE)
  BY <1>3, <1>5, <1>6
<1>9. Plain(Bool2(m, t))
  BY <1>7, BoolPlain
<1> QED BY <1>8, <1>9, DefineKeeps

----------------------------------------------------------------------------
(***************************************************************************)
(* The instructions on floats and strings.                                 *)
(***************************************************************************)
LEMMA FloatPlain ==
  ASSUME NEW f \in Floats
  PROVE  Plain(Float(f)) /\ f \in Int /\ f # NaN
<1>1. f \in Int /\ f # NaN
  BY ScalarAssumption
<1>2. Plain(Float(f))
  BY DEF Float, Plain, FloatOK
<1> QED BY <1>1, <1>2

LEMMA ResultFacts ==
  ASSUME Narrowed, NEW f \in FloatResults
  PROVE  f \in Floats
BY DEF Narrowed, Exclusions, FloatResults

\* An instruction that faults where its check says
LEMMA CheckedKeeps ==
  ASSUME LoweringInv, NEW reg, Plain(reg), NEW violated \in BOOLEAN, NEW wrong \in Faults,
         violated <=> wrong # "none", Step(reg, TRUE, violated, wrong)
  PROVE  LoweringInv'
<1>1. /\ regs' = Append(regs, reg) /\ heap' = heap /\ held' = TRUE /\ fault = "none"
      /\ flagged' = violated /\ fault' = wrong
  BY DEF Step, Effect, Running
<1>2. fault' \in Faults /\ (fault' # "none" => flagged') /\ (flagged' => fault' # "none")
  BY <1>1
<1> QED BY <1>1, <1>2, PlainKeeps

LEMMA FloatArithKeeps ==
  ASSUME LoweringInv, Narrowed, FloatArith
  PROVE  LoweringInv'
<1>1. PICK f \in FloatResults : Define(Float(f), TRUE)
  BY DEF FloatArith
<1>2. Plain(Float(f))
  BY ResultFacts, FloatPlain
<1> QED BY <1>1, <1>2, DefineKeeps

LEMMA FDivKeeps ==
  ASSUME LoweringInv, Narrowed, FDiv
  PROVE  LoweringInv'
<1>1. PICK l \in Of("float"), r \in Of("float"), f \in FloatResults, k \in Knowledge :
        /\ KnowsF(k, regs[r].m)
        /\ Step(Float(f), TRUE, k = "nothing" /\ regs[r].m = 0,
                IF regs[r].m = 0 THEN "domain" ELSE "none")
  BY DEF FDiv
<1>2. Plain(Float(f))
  BY ResultFacts, FloatPlain
<1>3. PICK x \in Floats : x = regs[r].m /\ x \in Int
  BY RegFacts, FloatPlain DEF FloatOK
<1>4. x = 0 => k = "nothing"
  BY <1>1, <1>3 DEF KnowsF, Knows, Knowledge
<1>5. PICK violated \in BOOLEAN : violated = (x = 0)
  OBVIOUS
<1>6. PICK wrong : wrong = IF x = 0 THEN "domain" ELSE "none"
  OBVIOUS
<1>7. wrong \in Faults /\ (violated <=> wrong # "none")
  BY <1>5, <1>6 DEF Faults
<1>8. Step(Float(f), TRUE, violated, wrong)
  <2>1. (k = "nothing" /\ x = 0) = violated
    BY <1>4, <1>5
  <2> QED BY <1>1, <1>3, <1>6, <2>1
<1> QED BY <1>2, <1>7, <1>8, CheckedKeeps

LEMMA FSqrtKeeps ==
  ASSUME LoweringInv, Narrowed, FSqrt
  PROVE  LoweringInv'
<1>1. PICK r \in Of("float"), f \in FloatResults, k \in {"nothing", "positive"} :
        LET x == regs[r].m
        IN  /\ KnowsF(k, x)
            /\ Pos(x) <=> Pos(f)
            /\ Step(Float(f), Pos(x) => Pos(f), k = "nothing" /\ Negative(x),
                    IF Negative(x) THEN "domain" ELSE "none")
  BY DEF FSqrt
<1>2. Plain(Float(f))
  BY ResultFacts, FloatPlain
<1>3. PICK x \in Floats : x = regs[r].m /\ x \in Int
  BY RegFacts, FloatPlain DEF FloatOK
<1>4. Negative(x) => k = "nothing"
  BY <1>1, <1>3 DEF KnowsF, Knows, Negative
<1>5. PICK violated \in BOOLEAN : violated = Negative(x)
  BY DEF Negative
<1>6. PICK wrong : wrong = IF violated THEN "domain" ELSE "none"
  OBVIOUS
<1>7. wrong \in Faults /\ (violated <=> wrong # "none")
  BY <1>5, <1>6 DEF Faults
<1>8. Step(Float(f), TRUE, violated, wrong)
  <2>1. (k = "nothing" /\ Negative(x)) = violated
    BY <1>4, <1>5
  <2>2. (Pos(x) => Pos(f)) = TRUE
    BY <1>1, <1>3
  <2>3. Step(Float(f), Pos(x) => Pos(f), k = "nothing" /\ Negative(x), IF Negative(x) THEN "domain" ELSE "none")
    BY <1>1, <1>3
  <2> QED BY <1>5, <1>6, <2>1, <2>2, <2>3
<1> QED BY <1>2, <1>7, <1>8, CheckedKeeps

LEMMA FPowKeeps ==
  ASSUME LoweringInv, Narrowed, FPow
  PROVE  LoweringInv'
<1>1. PICK l \in Of("float"), r \in Of("float"), f \in FloatResults, k \in {"nothing", "positive"} :
        LET inside == PowDomain(regs[l].m, regs[r].m)
        IN  /\ KnowsF(k, regs[l].m)
            /\ Step(Float(f), TRUE, k = "nothing" /\ ~inside,
                    IF inside THEN "none" ELSE "domain")
  BY DEF FPow
<1>2. Plain(Float(f))
  BY ResultFacts, FloatPlain
<1>3. PICK x \in Floats, y \in Floats : x = regs[l].m /\ y = regs[r].m /\ x \in Int
  BY RegFacts, FloatPlain DEF FloatOK
<1>4. ~ PowDomain(x, y) => k = "nothing"
  BY <1>1, <1>3 DEF KnowsF, Knows, PowDomain, Negative
<1>5. PICK violated \in BOOLEAN : violated = ~ PowDomain(x, y)
  BY DEF PowDomain
<1>6. PICK wrong : wrong = IF violated THEN "domain" ELSE "none"
  OBVIOUS
<1>7. wrong \in Faults /\ (violated <=> wrong # "none")
  BY <1>5, <1>6 DEF Faults
<1>8. Step(Float(f), TRUE, violated, wrong)
  <2>1. (k = "nothing" /\ ~ PowDomain(x, y)) = violated
    BY <1>4, <1>5
  <2>2. (IF PowDomain(x, y) THEN "none" ELSE "domain") = wrong
    BY <1>5, <1>6
  <2>3. Step(Float(f), TRUE, k = "nothing" /\ ~ PowDomain(x, y), IF PowDomain(x, y) THEN "none" ELSE "domain")
    BY <1>1, <1>3
  <2> QED BY <2>1, <2>2, <2>3
<1> QED BY <1>2, <1>7, <1>8, CheckedKeeps

LEMMA FExpKeeps ==
  ASSUME LoweringInv, Narrowed, FExp
  PROVE  LoweringInv'
<1>1. PICK r \in Of("float"), f \in FloatResults : Keeps("float", f > 0) /\ Define(Float(f), Pos(f))
  BY DEF FExp
<1>2. Plain(Float(f)) /\ f # NaN
  BY ResultFacts, FloatPlain
<1>3. Pos(f) = TRUE
  BY <1>1, <1>2 DEF Narrowed, Exclusions, Keeps, Pos
<1> QED BY <1>1, <1>2, <1>3, DefineKeeps

LEMMA FAbsKeeps ==
  ASSUME LoweringInv, FAbs
  PROVE  LoweringInv'
<1>1. PICK r \in Of("float") :
        LET f == IF regs[r].m = NaN THEN NaN ELSE Abs(regs[r].m)
        IN  Define(Float(f), NonNeg(f))
  BY DEF FAbs
<1>2. PICK x \in Floats : x = regs[r].m /\ x \in Int /\ x # NaN
  BY RegFacts, FloatPlain DEF FloatOK
<1>3. PICK f \in Floats : f = Abs(x)
  BY ScalarAssumption
<1>4. NonNeg(f) = TRUE
  <2>1. f >= 0
    BY <1>2, <1>3 DEF Abs
  <2> QED BY <2>1, FloatPlain DEF NonNeg
<1>5. Define(Float(f), NonNeg(f))
  BY <1>1, <1>2, <1>3
<1> QED BY <1>4, <1>5, FloatPlain, DefineKeeps

LEMMA ConversionsKeep ==
  ASSUME LoweringInv, IToF \/ FToI
  PROVE  LoweringInv'
<1>1. CASE IToF
  <2>1. PICK f \in Floats : Define(Float(f), TRUE)
    BY <1>1 DEF IToF
  <2> QED BY <2>1, FloatPlain, DefineKeeps
<1>2. CASE FToI
  <2>1. PICK r \in Of("float") : regs[r].m # NaN => Define(IntReg(ToWord(Trunc(regs[r].m, 2))), TRUE)
    BY <1>2 DEF FToI
  <2>2. PICK x \in Int : x = regs[r].m /\ x # NaN
    BY RegFacts, FloatPlain DEF FloatOK
  <2>3. Trunc(x, 2) \in Int
    <3>1. PICK y \in Nat : y = Abs(x)
      BY DEF Abs
    <3>2. Abs(2) = 2 /\ y \div 2 \in Int
      BY DEF Abs
    <3> QED BY <3>1, <3>2 DEF Trunc
  <2>4. PICK w \in Word : w = ToWord(Trunc(x, 2))
    BY <2>3, ToWordFacts
  <2>5. Define(Int2(w, w), TRUE)
    BY <2>1, <2>2, <2>4, IntPlain
  <2> QED BY <2>5, IntPlain, DefineKeeps
<1> QED BY <1>1, <1>2

LEMMA StrPlain ==
  ASSUME NEW n \in 0 .. Half - 1
  PROVE  Plain(Str(n, n)) /\ n \in Word /\ n \in Nat /\ 1 \in 0 .. Half - 1
<1>1. n \in Word /\ n \in Nat /\ 1 \in 0 .. Half - 1
  BY WordFacts
<1>2. Plain(Str(n, n))
  BY DEF Str, Plain, StrOK
<1> QED BY <1>1, <1>2

LEMMA ConstStrKeeps ==
  ASSUME LoweringInv, ConstStr
  PROVE  LoweringInv'
<1>1. PICK n \in 0 .. 1 : Define(Str(n, n), TRUE)
  BY DEF ConstStr
<1>2. n \in 0 .. Half - 1
  BY WordFacts
<1> QED BY <1>1, <1>2, StrPlain, DefineKeeps

LEMMA StrLenKeeps ==
  ASSUME LoweringInv, StrLen
  PROVE  LoweringInv'
<1>1. PICK r \in Of("str") : Define(Int2(regs[r].m, regs[r].s), TRUE)
  BY DEF StrLen
<1>2. PICK n \in Word : n = regs[r].m /\ n = regs[r].s
  BY RegFacts, StrPlain DEF StrOK
<1>3. Define(Int2(n, n), TRUE)
  BY <1>1, <1>2
<1> QED BY <1>3, IntPlain, DefineKeeps

LEMMA StrConcatKeeps ==
  ASSUME LoweringInv, Narrowed, StrConcat
  PROVE  LoweringInv'
<1>1. PICK l \in Of("str"), r \in Of("str") :
        /\ Keeps("wrap", Concatenated(regs[l].m, regs[r].m) < Half)
        /\ Define(Str(Concatenated(regs[l].m, regs[r].m), ToWord(regs[l].s + regs[r].s)), TRUE)
  BY DEF StrConcat
<1>2. PICK x \in Nat, y \in Nat : x = regs[l].m /\ x = regs[l].s /\ y = regs[r].m /\ y = regs[r].s
  BY RegFacts, StrPlain DEF StrOK
<1>3. x + y < Half
  BY <1>1, <1>2 DEF Narrowed, Exclusions, Keeps, Concatenated
<1>4. PICK n \in 0 .. Half - 1 : n = x + y
  BY <1>3, WordFacts
<1>5. ToWord(n) = n
  BY StrPlain, ToWordFacts
<1>6. Define(Str(n, n), TRUE)
  BY <1>1, <1>2, <1>4, <1>5 DEF Concatenated
<1> QED BY <1>6, StrPlain, DefineKeeps

\* The library tests an index as unsigned, the verifier as signed: a length is
\* less than the least negative index.
LEMMA IndexFacts ==
  ASSUME NEW w \in Word, NEW n \in Nat, n < Half
  PROVE  PastLength(Signed(w), n) <=> w >= n
<1>1. PICK h \in Nat : h = Half
  BY WordFacts
<1>2. PICK i \in Int : /\ i = Signed(w) /\ w \in Nat /\ (w < h => i = w) /\ (w < h <=> i >= 0)
  BY <1>1, SignedFacts
<1> QED BY <1>1, <1>2 DEF PastLength

LEMMA StrIndexKeeps ==
  ASSUME LoweringInv, StrIndex
  PROVE  LoweringInv'
<1>1. PICK r \in Of("str"), i \in Of("int") :
        Step(Str(1, 1), TRUE, PastLength(Term(i), regs[r].s), StrIndexFault(regs[r].m, regs[i].m))
  BY DEF StrIndex
<1>2. PICK n \in Nat : n = regs[r].m /\ n = regs[r].s /\ n < Half
  <2>1. regs[r].m \in 0 .. Half - 1 /\ regs[r].s = regs[r].m /\ Half \in Nat
    BY RegFacts, WordFacts DEF StrOK
  <2> QED BY <2>1
<1>3. PICK w \in Word : w = regs[i].m /\ w = regs[i].s
  BY RegFacts DEF IntOK
<1>4. PICK violated \in BOOLEAN : violated = PastLength(Signed(w), n)
  BY DEF PastLength
<1>5. PICK wrong : wrong = StrIndexFault(n, w)
  OBVIOUS
<1>6. wrong \in Faults /\ (violated <=> wrong # "none")
  BY <1>2, <1>4, <1>5, IndexFacts DEF StrIndexFault, Faults
<1>7. Step(Str(1, 1), TRUE, violated, wrong)
  BY <1>1, <1>2, <1>3, <1>4, <1>5 DEF Term
<1>8. Plain(Str(1, 1))
  <2>1. 1 \in 0 .. Half - 1
    BY WordFacts
  <2> QED BY <2>1, StrPlain
<1> QED BY <1>6, <1>7, <1>8, CheckedKeeps

\* Of bounds within the string the library changes nothing.
LEMMA StrSliceKeeps ==
  ASSUME LoweringInv, Narrowed, StrSlice
  PROVE  LoweringInv'
<1>1. PICK r \in Of("str"), i \in Of("int"), j \in Of("int") :
        LET n == regs[r].m
        IN  /\ Keeps("text", Index(i) \in 0 .. n /\ Index(j) \in 0 .. n)
            /\ Define(Str(SliceLength(n, Index(i), Index(j)), Between(Term(i), Term(j))), TRUE)
  BY DEF StrSlice
<1>2. PICK n \in Nat, h \in Nat : n = regs[r].m /\ h = Half /\ n < h
  <2>1. regs[r].m \in 0 .. Half - 1 /\ Half \in Nat
    BY RegFacts, WordFacts DEF StrOK
  <2> QED BY <2>1
<1>3. PICK x, y : x = Index(i) /\ x = Term(i) /\ y = Index(j) /\ y = Term(j)
  BY RegFacts DEF IntOK, Index, Term
<1>4. x \in 0 .. n /\ y \in 0 .. n
  BY <1>1, <1>2, <1>3 DEF Narrowed, Exclusions, Keeps
<1>5. SliceLength(n, x, y) = Between(x, y)
  <2>1. /\ ~ (x < 0) /\ ~ (x > n) /\ ~ (y < 0) /\ ~ (y > n)
    BY <1>4
  <2> QED BY <2>1 DEF SliceLength
<1>6. PICK m \in 0 .. Half - 1 : m = Between(x, y)
  <2>1. Between(x, y) \in 0 .. h - 1
    BY <1>2, <1>4 DEF Between
  <2> QED BY <1>2, <2>1
<1>7. Define(Str(m, m), TRUE)
  BY <1>1, <1>2, <1>3, <1>5, <1>6
<1> QED BY <1>7, StrPlain, DefineKeeps

----------------------------------------------------------------------------
(***************************************************************************)
(* Arrays.                                                                 *)
(***************************************************************************)
\* A value of the kind of another, for the same object, is apart from what
\* that one is apart from.
LEMMA SameApart ==
  ASSUME LoweringInv, NEW r \in DOMAIN regs, NEW a, a.kind = regs[r].kind, a.obj = regs[r].obj
  PROVE  \A q \in DOMAIN regs : Apart(regs[q], a) /\ Apart(a, regs[q])
<1>1. \A q \in DOMAIN regs : Apart(regs[q], regs[r]) /\ Apart(regs[r], regs[q])
  BY DEF LoweringInv
<1> QED BY <1>1 DEF Apart

LEMMA StoreFacts ==
  ASSUME NEW cells \in Contents, NEW i, NEW w \in Word
  PROVE  /\ StoreAt(cells, i, w) \in Contents /\ DOMAIN StoreAt(cells, i, w) = DOMAIN cells
         /\ \A k \in DOMAIN cells : cells[k] \in Word
<1>1. PICK n \in Nat : cells \in [0 .. n - 1 -> Word]
  BY DEF Contents
<1>2. StoreAt(cells, i, w) \in [0 .. n - 1 -> Word] /\ DOMAIN StoreAt(cells, i, w) = DOMAIN cells
  BY <1>1 DEF StoreAt
<1> QED BY <1>1, <1>2 DEF Contents

\* An index of an array has an address in its object; if the array is all of
\* the object, no other has.
LEMMA AddressFacts ==
  ASSUME NEW a, NEW n \in Nat, NEW cells, DOMAIN cells = 0 .. n - 1, NEW i \in Int,
         a.base \in Int, a.stride \in {-1, 1, 2}, a.size \in Nat, a.size > 0 => Ends(a, cells)
  PROVE  /\ ~ OutOf(i, a.size) => Address(a, i) \in DOMAIN cells
         /\ a.size = n /\ Address(a, i) \in DOMAIN cells => ~ OutOf(i, a.size)
<1>1. PICK b \in Int, d \in {-1, 1, 2}, z \in Nat : b = a.base /\ d = a.stride /\ z = a.size
  OBVIOUS
<1>2. Address(a, i) = b + i * d
  BY <1>1 DEF Address
<1>3. OutOf(i, z) <=> i < 0 \/ i >= z
  BY <1>1 DEF OutOf, Unsized
<1>4. z > 0 => b \in 0 .. n - 1 /\ b + (z - 1) * d \in 0 .. n - 1
  BY <1>1 DEF Ends
<1>5. ASSUME ~ OutOf(i, z) PROVE b + i * d \in 0 .. n - 1
  <2>1. i >= 0 /\ i <= z - 1 /\ z > 0
    BY <1>3, <1>5
  <2>2. CASE d = 1
    <3>1. b + i \in 0 .. n - 1
      BY <1>4, <2>1, <2>2
    <3> QED BY <2>2, <3>1
  <2>3. CASE d = -1
    <3>1. b - i \in 0 .. n - 1
      <4>1. b - (z - 1) >= 0 /\ b <= n - 1
        BY <1>4, <2>1, <2>3
      <4> QED BY <2>1, <4>1
    <3> QED BY <2>3, <3>1
  <2>4. CASE d = 2
    <3>1. b + 2 * i \in 0 .. n - 1
      <4>1. b + 2 * (z - 1) <= n - 1 /\ b >= 0
        BY <1>4, <2>1, <2>4
      <4> QED BY <2>1, <4>1
    <3> QED BY <2>4, <3>1
  <2> QED BY <2>2, <2>3, <2>4
<1>6. ASSUME z = n, b + i * d \in 0 .. n - 1 PROVE i >= 0 /\ i < z
  <2>1. z > 0
    BY <1>6
  <2>2. CASE d = 1
    <3>1. b >= 0 /\ b + (z - 1) <= n - 1
      BY <1>4, <2>1, <2>2
    <3>2. b = 0 /\ b + i >= 0 /\ b + i <= n - 1
      BY <1>6, <2>2, <3>1
    <3> QED BY <1>6, <3>2
  <2>3. CASE d = -1
    <3>1. b <= n - 1 /\ b - (z - 1) >= 0
      BY <1>4, <2>1, <2>3
    <3>2. b = n - 1 /\ b - i >= 0 /\ b - i <= n - 1
      BY <1>6, <2>3, <3>1
    <3> QED BY <1>6, <3>2
  <2>4. CASE d = 2
    <3>1. b >= 0 /\ b + 2 * (z - 1) <= n - 1
      BY <1>4, <2>1, <2>4
    <3>2. n = 1 /\ b = 0 /\ b + 2 * i >= 0 /\ b + 2 * i <= n - 1
      BY <1>6, <2>1, <2>4, <3>1
    <3> QED BY <1>6, <3>2
  <2> QED BY <2>2, <2>3, <2>4
<1> QED BY <1>1, <1>2, <1>3, <1>5, <1>6

\* What an access by a current array finds
LEMMA ArrayFacts ==
  ASSUME LoweringInv, Narrowed, NEW r \in Of("array"), NEW i \in Of("int"), Current(regs[r])
  PROVE  \E at \in Int, cells \in Contents, violated \in BOOLEAN :
           /\ cells = heap[regs[r].obj].cells /\ cells = regs[r].view
           /\ at = Address(regs[r], Index(i)) /\ at = Physical(regs[r], Term(i))
           /\ violated = OutOf(Term(i), regs[r].size)
           /\ at \notin DOMAIN cells => violated
           /\ at \in DOMAIN cells /\ violated => regs[r].size # Cardinality(DOMAIN cells)
<1>1. PICK a : a = regs[r] /\ ArrayOK(a, heap) /\ r \in DOMAIN regs
  BY RegFacts
<1>2. a.obj \in DOMAIN heap /\ HeapOK(heap)
  BY <1>1 DEF ArrayOK, LoweringInv
<1>3. PICK n \in Nat : /\ heap[a.obj].cells \in [0 .. n - 1 -> Word]
                      /\ Cardinality(DOMAIN heap[a.obj].cells) = n /\ DOMAIN heap[a.obj].cells = 0 .. n - 1
  BY <1>2, ObjectFacts
<1>4. PICK cells \in [0 .. n - 1 -> Word] :
        cells = heap[a.obj].cells /\ DOMAIN cells = 0 .. n - 1 /\ Cardinality(DOMAIN cells) = n
  BY <1>3
<1>5. Fresh(a, heap)
  BY <1>1 DEF Narrowed, Exclusions, Keeps, Current, Fresh
<1>6. cells = a.view
  BY <1>1, <1>4, <1>5 DEF ArrayOK
<1>7. PICK j \in Int : j = Index(i) /\ j = Term(i)
  BY RegFacts, SignedFacts DEF IntOK, Index, Term
<1>8. /\ a.base \in Int /\ a.stride \in {-1, 1, 2} /\ a.size \in Nat /\ (a.size > 0 => Ends(a, cells))
      /\ a.soff = a.base /\ a.sstride = a.stride
  BY <1>1, <1>4 DEF ArrayOK
<1>9. /\ ~ OutOf(j, a.size) => Address(a, j) \in DOMAIN cells
      /\ a.size = n /\ Address(a, j) \in DOMAIN cells => ~ OutOf(j, a.size)
  BY <1>4, <1>8, AddressFacts
<1>10. PICK at \in Int : at = Address(a, j)
  BY <1>8 DEF Address
<1>11. at = Physical(a, j)
  BY <1>8, <1>10 DEF Address, Physical
<1>12. PICK violated \in BOOLEAN : violated = OutOf(j, a.size)
  BY DEF OutOf
<1>13. cells \in Contents
  BY DEF Contents
<1> QED BY <1>1, <1>4, <1>6, <1>7, <1>9, <1>10, <1>11, <1>12, <1>13

LEMMA ArrayLoadKeeps ==
  ASSUME LoweringInv, Narrowed, ArrayLoad
  PROVE  LoweringInv'
<1>1. PICK r \in Of("array"), i \in Of("int") :
        LET a == regs[r]
            cells == heap[a.obj].cells
            at == Address(a, Index(i))
        IN  /\ Current(a)
            /\ IF at \in DOMAIN cells
               THEN Step(Int2(cells[at], Select(a.view, Physical(a, Term(i)), cells[at])),
                         TRUE, OutOf(Term(i), a.size), "none")
               ELSE Step(IntReg(0), TRUE, OutOf(Term(i), a.size), "out of bounds")
  BY DEF ArrayLoad
<1>2. PICK at \in Int, cells \in Contents, violated \in BOOLEAN :
           /\ cells = heap[regs[r].obj].cells /\ cells = regs[r].view
           /\ at = Address(regs[r], Index(i)) /\ at = Physical(regs[r], Term(i))
           /\ violated = OutOf(Term(i), regs[r].size)
           /\ at \notin DOMAIN cells => violated
           /\ at \in DOMAIN cells /\ violated => regs[r].size # Cardinality(DOMAIN cells)
  BY <1>1, ArrayFacts
<1>3. CASE at \in DOMAIN cells
  <2>1. PICK w \in Word : w = cells[at]
    BY <1>3 DEF Contents
  <2>2. Step(Int2(w, Select(cells, at, w)), TRUE, violated, "none")
    BY <1>1, <1>2, <1>3, <2>1
  <2>3. Select(cells, at, w) = w
    BY <1>3, <2>1 DEF Select
  <2>4. /\ regs' = Append(regs, Int2(w, w)) /\ heap' = heap /\ held' = TRUE /\ fault = "none"
        /\ flagged' = violated /\ fault' = "none"
    BY <2>2, <2>3 DEF Step, Effect, Running
  <2>5. flagged' => \E q \in Of("array") : regs[q].size # Cardinality(DOMAIN heap[regs[q].obj].cells)
    BY <1>2, <1>3, <2>4
  <2>6. fault' \in Faults
    BY <2>4 DEF Faults
  <2> QED BY <2>4, <2>5, <2>6, IntPlain, PlainKeeps
<1>4. CASE at \notin DOMAIN cells
  <2>1. Step(IntReg(0), TRUE, violated, "out of bounds") /\ violated
    BY <1>1, <1>2, <1>4
  <2>2. Plain(IntReg(0))
    <3>1. 0 \in Word
      BY WordFacts
    <3> QED BY <3>1, IntPlain
  <2>3. "out of bounds" \in Faults
    BY DEF Faults
  <2> QED BY <2>1, <2>2, <2>3, CheckedKeeps
<1> QED BY <1>3, <1>4

LEMMA ArrayStoreKeeps ==
  ASSUME LoweringInv, Narrowed, ArrayStore
  PROVE  LoweringInv'
<1>1. PICK r \in Of("array"), i \in Of("int"), u \in Of("int") :
        LET a == regs[r]
            cells == heap[a.obj].cells
            at == Address(a, Index(i))
            view == StoreAt(a.view, Physical(a, Term(i)), regs[u].s)
            dest == StoreResult(a, view)
        IN  /\ Current(a)
            /\ Keeps("slice", a.base = 0 /\ a.stride = 1)
            /\ IF at \in DOMAIN cells
               THEN Effect(dest, TRUE, OutOf(Term(i), a.size), "none", Stored(a, at, regs[u].m))
               ELSE Step(dest, TRUE, OutOf(Term(i), a.size), "out of bounds")
  BY DEF ArrayStore
<1>2. PICK at \in Int, cells \in Contents, violated \in BOOLEAN :
           /\ cells = heap[regs[r].obj].cells /\ cells = regs[r].view
           /\ at = Address(regs[r], Index(i)) /\ at = Physical(regs[r], Term(i))
           /\ violated = OutOf(Term(i), regs[r].size)
           /\ at \notin DOMAIN cells => violated
           /\ at \in DOMAIN cells /\ violated => regs[r].size # Cardinality(DOMAIN cells)
  BY <1>1, ArrayFacts
<1>3. PICK a : a = regs[r] /\ ArrayOK(a, heap) /\ r \in DOMAIN regs
  BY RegFacts
<1>4. a.base = 0 /\ a.stride = 1 /\ a.kind = "array" /\ a.obj \in DOMAIN heap
  BY <1>1, <1>3 DEF Narrowed, Exclusions, Keeps, ArrayOK
<1>5. PICK w \in Word : w = regs[u].m /\ w = regs[u].s
  BY RegFacts DEF IntOK
<1>6. PICK new : new = StoreAt(cells, at, w) /\ new \in Contents /\ DOMAIN new = DOMAIN cells
  BY StoreFacts
<1>7. PICK v \in Nat : v = heap[a.obj].version
  BY <1>4, ObjectFacts DEF LoweringInv
<1>8. PICK dest : dest = StoreResult(a, new)
  OBVIOUS
<1>9. /\ dest.kind = "array" /\ dest.obj = a.obj /\ dest.version = v + 1 /\ dest.base = 0 /\ dest.stride = 1
      /\ dest.size = a.size /\ dest.soff = 0 /\ dest.sstride = 1 /\ dest.view = new
  BY <1>4, <1>7, <1>8 DEF StoreResult, Array
<1>10. a.size \in Nat /\ (a.size > 0 => Ends(dest, cells))
  BY <1>2, <1>3, <1>4, <1>9 DEF ArrayOK, Ends
<1>11. \A q \in DOMAIN regs : Apart(regs[q], dest) /\ Apart(dest, regs[q])
  BY <1>3, <1>4, <1>9, SameApart
<1>12. CASE at \in DOMAIN cells
  <2>1. Effect(dest, TRUE, violated, "none", Written(a.obj, new))
    BY <1>1, <1>2, <1>3, <1>5, <1>6, <1>8, <1>12 DEF Stored
  <2>2. /\ regs' = Append(regs, dest) /\ heap' = Written(a.obj, new) /\ held' = TRUE /\ fault = "none"
        /\ flagged' = violated /\ fault' = "none"
    BY <2>1 DEF Effect, Running
  <2>3. DOMAIN new = DOMAIN heap[a.obj].cells
    BY <1>2, <1>3, <1>6
  <2>4. /\ HeapOK(heap') /\ DOMAIN heap' = DOMAIN heap
        /\ heap'[a.obj].cells = new /\ heap'[a.obj].version = v + 1
        /\ \A q \in DOMAIN regs : RegOK(regs[q], heap') /\ NotNewer(regs[q], heap')
    BY <1>4, <1>6, <1>7, <2>2, <2>3, WrittenMemory
  <2>5. a.size > 0 => Ends(dest, new)
    BY <1>6, <1>10 DEF Ends
  <2>6. ArrayOK(dest, heap')
    BY <1>4, <1>7, <1>9, <1>10, <2>4, <2>5 DEF ArrayOK
  <2>7. RegOK(dest, heap') /\ NotNewer(dest, heap')
    BY <1>7, <1>9, <2>4, <2>6 DEF RegOK, Reference, NotNewer
  <2>8. flagged' => \E q \in Of("array") : regs[q].size # Cardinality(DOMAIN heap'[regs[q].obj].cells)
    BY <1>2, <1>3, <1>6, <1>12, <2>2, <2>4
  <2>9. fault' \in Faults
    BY <2>2 DEF Faults
  <2> QED BY <1>11, <2>2, <2>4, <2>7, <2>8, <2>9, EffectKeeps
<1>13. CASE at \notin DOMAIN cells
  <2>1. Step(dest, TRUE, violated, "out of bounds")
    BY <1>1, <1>2, <1>3, <1>5, <1>6, <1>8, <1>13
  <2>2. /\ regs' = Append(regs, dest) /\ heap' = heap /\ held' = TRUE
        /\ flagged' = violated /\ fault' = "out of bounds"
    BY <2>1 DEF Step, Effect
  <2>3. ~ Fresh(dest, heap)
    BY <1>7, <1>9 DEF Fresh
  <2>a. dest.size > 0 => Ends(dest, heap'[dest.obj].cells)
    BY <1>2, <1>3, <1>9, <1>10, <2>2
  <2>b. ~ Fresh(dest, heap')
    BY <2>2, <2>3
  <2>c. dest.obj \in DOMAIN heap' /\ dest.version \in Nat
    <3>1. heap' = heap
      BY <2>2
    <3>2. dest.obj \in DOMAIN heap
      BY <1>4, <1>9
    <3>3. v + 1 \in Nat /\ dest.version = v + 1
      BY <1>9
    <3> QED BY <3>1, <3>2, <3>3
  <2>d. /\ dest.kind = "array" /\ dest.base \in Int /\ dest.stride \in {-1, 1, 2} /\ dest.size \in Nat
        /\ dest.soff = dest.base /\ dest.sstride = dest.stride
    BY <1>9, <1>10
  <2>4. ArrayOK(dest, heap')
    BY <2>a, <2>b, <2>c, <2>d DEF ArrayOK
  <2>5. RegOK(dest, heap')
    BY <2>4 DEF RegOK, Reference
  <2>6. HeapOK(heap') /\ \A q \in DOMAIN regs : RegOK(regs[q], heap')
    BY <2>2 DEF LoweringInv
  <2>7. fault' \in Faults /\ fault' # "none" /\ flagged'
    BY <1>2, <1>13, <2>2 DEF Faults
  <2> QED BY <1>11, <2>2, <2>5, <2>6, <2>7, EffectKeeps
<1> QED BY <1>12, <1>13

\* A slice with bounds in the array has its cells in the array.
LEMMA SliceFacts ==
  ASSUME NEW lower \in Int, NEW upper \in Int, NEW step \in Steps, NEW size \in Nat,
         InRange(lower, upper, step, size), NEW z, z = SliceSize(lower, upper, step)
  PROVE  /\ z \in Nat /\ lower \in 0 .. size
         /\ z > 0 => lower \in 0 .. size - 1 /\ lower + (z - 1) * step \in 0 .. size - 1
<1>1. CASE step = 1
  <2>1. lower >= 0 /\ upper <= size /\ lower \in 0 .. size
    BY <1>1 DEF InRange
  <2>2. upper > lower => (upper - lower + 1 - 1) \div 1 = upper - lower
    OBVIOUS
  <2>3. z = IF upper > lower THEN upper - lower ELSE 0
    BY <1>1, <2>2 DEF SliceSize, CeilDiv
  <2>4. (z - 1) * step = z - 1
    BY <1>1, <2>3
  <2> QED BY <2>1, <2>3, <2>4
<1>2. CASE step = 2
  <2>1. lower >= 0 /\ upper <= size /\ lower \in 0 .. size
    BY <1>2 DEF InRange
  <2>2. z = IF upper > lower THEN (upper - lower + 1) \div 2 ELSE 0
    <3>1. (upper - lower + 2 - 1) \div 2 = (upper - lower + 1) \div 2
      OBVIOUS
    <3> QED BY <1>2, <3>1 DEF SliceSize, CeilDiv
  <2>3. upper > lower => z \in Nat /\ 2 * z <= upper - lower + 1
    BY <2>2
  <2>4. z \in Nat
    BY <2>2, <2>3
  <2>5. (z - 1) * step = 2 * z - 2
    BY <1>2, <2>4
  <2>6. z > 0 => upper > lower
    BY <2>2
  <2>7. ASSUME z > 0 PROVE lower \in 0 .. size - 1 /\ lower + (2 * z - 2) \in 0 .. size - 1
    BY <2>1, <2>3, <2>4, <2>6, <2>7
  <2> QED BY <2>1, <2>4, <2>5, <2>7
<1>3. CASE step = -1
  <2>1. lower >= 0 /\ lower < size /\ upper >= -1 /\ lower \in 0 .. size
    BY <1>3 DEF InRange
  <2>2. lower > upper => (lower - upper + 1 - 1) \div 1 = lower - upper
    OBVIOUS
  <2>3. z = IF lower > upper THEN lower - upper ELSE 0
    BY <1>3, <2>2 DEF SliceSize, CeilDiv
  <2>4. (z - 1) * step = 1 - z
    BY <1>3, <2>3
  <2> QED BY <2>1, <2>3, <2>4
<1> QED BY <1>1, <1>2, <1>3 DEF Steps

LEMMA ArraySliceKeeps ==
  ASSUME LoweringInv, Narrowed, ArraySlice
  PROVE  LoweringInv'
<1>1. PICK r \in Of("array"), lower \in -1 .. Half - 1, upper \in -1 .. Half - 1, step \in Steps,
          literal \in [bounds : BOOLEAN, step : BOOLEAN] :
        LET a == regs[r]
            size == IF literal.bounds
                    THEN SliceSize(lower, upper, IF literal.step THEN step ELSE 1)
                    ELSE Unsized
            last == lower + (size - 1) * step
        IN  /\ Current(a)
            /\ Keeps("slice", /\ literal.bounds /\ literal.step
                              /\ a.stride = 1
                              /\ InRange(lower, upper, step, a.size))
            /\ Step(Sliced(a, lower, step, size), TRUE,
                    StartOutOf(lower, a.size) \/ (size > 0 /\ last < 0), "none")
  BY DEF ArraySlice
<1>2. PICK a : a = regs[r] /\ ArrayOK(a, heap) /\ r \in DOMAIN regs
  BY RegFacts
<1>3. literal.bounds /\ literal.step /\ a.stride = 1 /\ InRange(lower, upper, step, a.size)
  BY <1>1, <1>2 DEF Narrowed, Exclusions, Keeps
<1>4. PICK z : z = SliceSize(lower, upper, step)
  OBVIOUS
<1>5. lower \in Int /\ upper \in Int /\ a.size \in Nat
  BY <1>2, WordFacts DEF ArrayOK
<1>6. PICK last : last = lower + (z - 1) * step
  OBVIOUS
<1>7. /\ z \in Nat /\ lower \in 0 .. a.size
      /\ z > 0 => lower \in 0 .. a.size - 1 /\ last \in 0 .. a.size - 1
  BY <1>3, <1>4, <1>5, <1>6, SliceFacts
<1>8. (StartOutOf(lower, a.size) \/ (z > 0 /\ last < 0)) = FALSE
  BY <1>5, <1>7 DEF StartOutOf
<1>9. Step(Sliced(a, lower, step, z), TRUE, StartOutOf(lower, a.size) \/ (z > 0 /\ last < 0), "none")
  BY <1>1, <1>2, <1>3, <1>4, <1>6
<1>10. PICK new : new = Sliced(a, lower, step, z)
  OBVIOUS
<1>11. /\ regs' = Append(regs, new) /\ heap' = heap /\ held' = TRUE /\ fault = "none"
       /\ flagged' = FALSE /\ fault' = "none"
  BY <1>8, <1>9, <1>10 DEF Step, Effect, Running
<1>12. /\ new.kind = "array" /\ new.obj = a.obj /\ new.base = a.base + lower /\ new.stride = a.stride * step
       /\ new.size = z /\ new.view = a.view /\ new.soff = a.soff + lower /\ new.sstride = step
       /\ new.version = a.version
  BY <1>10 DEF Sliced, Array
<1>13. new.stride = step /\ step \in {-1, 1, 2} /\ step \in Int
  BY <1>3, <1>12 DEF Steps
<1>14. /\ a.kind = "array" /\ a.obj \in DOMAIN heap /\ a.version \in Nat /\ a.base \in Int
       /\ a.soff = a.base /\ (a.size > 0 => Ends(a, heap[a.obj].cells))
       /\ (Fresh(a, heap) => a.view = heap[a.obj].cells)
  BY <1>2 DEF ArrayOK
<1>15. z > 0 => Ends(new, heap[new.obj].cells)
  <2>1. SUFFICES ASSUME z > 0 PROVE Ends(new, heap[a.obj].cells)
    BY <1>12
  <2>2. PICK n \in Nat : DOMAIN heap[a.obj].cells = 0 .. n - 1
    BY <1>14, HeapFacts
  <2>3. PICK b \in Int, m \in Nat : b = a.base /\ m = a.size
    BY <1>5, <1>14
  <2>4. lower \in 0 .. m - 1 /\ last \in 0 .. m - 1 /\ m > 0
    BY <1>7, <2>1, <2>3
  <2>5. b \in 0 .. n - 1 /\ b + (m - 1) \in 0 .. n - 1
    <3>1. Ends(a, heap[a.obj].cells) /\ a.stride = 1
      BY <1>3, <1>14, <2>3, <2>4
    <3> QED BY <2>2, <2>3, <3>1 DEF Ends
  <2>6. b + lower \in 0 .. n - 1 /\ b + last \in 0 .. n - 1
    BY <2>4, <2>5
  <2>7. b + last = (b + lower) + (z - 1) * step
    <3>1. PICK x \in Int : x = (z - 1) * step
      BY <1>7, <1>13
    <3> QED BY <1>5, <1>6, <3>1
  <2> QED BY <1>12, <1>13, <2>2, <2>3, <2>6, <2>7 DEF Ends
<1>16. Fresh(new, heap) => new.view = heap[new.obj].cells
  BY <1>12, <1>14 DEF Fresh
<1>17. ArrayOK(new, heap')
  <2>1. new.base \in Int /\ new.soff = new.base /\ new.sstride = new.stride /\ new.size \in Nat
    BY <1>5, <1>7, <1>12, <1>13, <1>14
  <2>2. ArrayOK(new, heap)
    BY <1>12, <1>13, <1>14, <1>15, <1>16, <2>1 DEF ArrayOK
  <2> QED BY <1>11, <2>2
<1>18. RegOK(new, heap') /\ NotNewer(new, heap')
  <2>1. NotNewer(a, heap)
    BY <1>2, <1>11 DEF LoweringInv
  <2>2. NotNewer(new, heap)
    BY <1>12, <1>14, <2>1 DEF NotNewer
  <2> QED BY <1>11, <1>17, <2>2 DEF RegOK, Reference
<1>19. \A q \in DOMAIN regs : Apart(regs[q], new) /\ Apart(new, regs[q])
  BY <1>2, <1>12, <1>14, SameApart
<1>20. HeapOK(heap') /\ \A q \in DOMAIN regs : RegOK(regs[q], heap') /\ NotNewer(regs[q], heap')
  BY <1>11 DEF LoweringInv
<1>21. fault' \in Faults /\ fault' = "none" /\ ~ flagged'
  BY <1>11 DEF Faults
<1> QED BY <1>11, <1>18, <1>19, <1>20, <1>21, EffectKeeps

----------------------------------------------------------------------------
(***************************************************************************)
(* Buffers and lists.                                                      *)
(***************************************************************************)
\* What a load finds, and what the length says of it
LEMMA BufferFacts ==
  ASSUME LoweringInv, NEW r \in Of("buffer"), NEW i \in Of("int")
  PROVE  \E k \in Int, cells \in Contents, violated \in BOOLEAN :
           /\ cells = heap[regs[r].obj].cells /\ k = Index(i)
           /\ violated = PastLength(Term(i), regs[r].len)
           /\ violated <=> k \notin DOMAIN cells
           /\ Loaded(cells, k) \in Word
<1>1. PICK a : a = regs[r] /\ BufferOK(a, heap) /\ r \in DOMAIN regs
  BY RegFacts
<1>0. PICK n \in Nat : /\ heap[a.obj].cells \in [0 .. n - 1 -> Word]
                      /\ Cardinality(DOMAIN heap[a.obj].cells) = n /\ DOMAIN heap[a.obj].cells = 0 .. n - 1
  BY <1>1, HeapFacts DEF BufferOK
<1>2. PICK cells \in [0 .. n - 1 -> Word] :
        cells = heap[a.obj].cells /\ Cardinality(DOMAIN cells) = n /\ DOMAIN cells = 0 .. n - 1
  BY <1>0
<1>3. a.len = n
  BY <1>1, <1>2 DEF BufferOK
<1>4. PICK k \in Int : k = Index(i) /\ k = Term(i)
  BY RegFacts, SignedFacts DEF IntOK, Index, Term
<1>5. PICK violated \in BOOLEAN : violated = PastLength(k, n)
  BY DEF PastLength
<1>6. violated <=> k \notin DOMAIN cells
  <2>1. k \in 0 .. n - 1 <=> ~ (k < 0 \/ k >= n)
    OBVIOUS
  <2>2. violated <=> k < 0 \/ k >= n
    BY <1>5 DEF PastLength
  <2> QED BY <1>2, <2>1, <2>2
<1>7. Loaded(cells, k) \in Word
  <2>1. 0 \in Word
    BY WordFacts
  <2> QED BY <1>2, <2>1 DEF Loaded
<1>8. cells \in Contents
  BY <1>2 DEF Contents
<1> QED BY <1>1, <1>2, <1>3, <1>4, <1>5, <1>6, <1>7, <1>8

LEMMA BufferLoadKeeps ==
  ASSUME LoweringInv, BufferLoad
  PROVE  LoweringInv'
<1>1. PICK r \in Of("buffer"), i \in Of("int") :
        LET cells == heap[regs[r].obj].cells
            n == Index(i)
        IN  Step(IntReg(Loaded(cells, n)), TRUE, PastLength(Term(i), regs[r].len),
                    IF n \in DOMAIN cells THEN "none" ELSE "out of bounds")
  BY DEF BufferLoad
<1>2. PICK k \in Int, cells \in Contents, violated \in BOOLEAN :
           /\ cells = heap[regs[r].obj].cells /\ k = Index(i)
           /\ violated = PastLength(Term(i), regs[r].len)
           /\ violated <=> k \notin DOMAIN cells
           /\ Loaded(cells, k) \in Word
  BY BufferFacts
<1>3. PICK w \in Word : w = Loaded(cells, k)
  BY <1>2
<1>4. PICK wrong : wrong = IF k \in DOMAIN cells THEN "none" ELSE "out of bounds"
  OBVIOUS
<1>5. wrong \in Faults /\ (violated <=> wrong # "none")
  BY <1>2, <1>4 DEF Faults
<1>6. Step(IntReg(w), TRUE, violated, wrong)
  BY <1>1, <1>2, <1>3, <1>4
<1>7. Plain(IntReg(w))
  BY IntPlain
<1> QED BY <1>5, <1>6, <1>7, CheckedKeeps

LEMMA BufferStoreKeeps ==
  ASSUME LoweringInv, BufferStore
  PROVE  LoweringInv'
<1>1. PICK r \in Of("buffer"), i \in Of("int"), u \in Of("int") :
        LET b == regs[r]
            n == Index(i)
            past == PastLength(Term(i), b.len)
        IN  IF n \in DOMAIN heap[b.obj].cells
            THEN Effect(b, TRUE, past, "none", Stored(b, n, regs[u].m))
            ELSE Step(b, TRUE, past, "out of bounds")
  BY DEF BufferStore
<1>2. PICK k \in Int, cells \in Contents, violated \in BOOLEAN :
           /\ cells = heap[regs[r].obj].cells /\ k = Index(i)
           /\ violated = PastLength(Term(i), regs[r].len)
           /\ violated <=> k \notin DOMAIN cells
  BY BufferFacts
<1>3. PICK b : b = regs[r] /\ b.kind = "buffer" /\ b.obj \in DOMAIN heap /\ r \in DOMAIN regs
  BY RegFacts DEF BufferOK
<1>4. \A q \in DOMAIN regs : Apart(regs[q], b) /\ Apart(b, regs[q])
  BY <1>3, SameApart
<1>5. PICK w \in Word : w = regs[u].m
  BY RegFacts DEF IntOK
<1>6. CASE k \in DOMAIN cells
  <2>1. PICK new : new = StoreAt(cells, k, w) /\ new \in Contents /\ DOMAIN new = DOMAIN cells
    BY StoreFacts
  <2>2. Effect(b, TRUE, violated, "none", Written(b.obj, new))
    BY <1>1, <1>2, <1>3, <1>5, <1>6, <2>1 DEF Stored
  <2>3. /\ regs' = Append(regs, b) /\ heap' = Written(b.obj, new) /\ held' = TRUE /\ fault = "none"
        /\ flagged' = violated /\ fault' = "none"
    BY <2>2 DEF Effect, Running
  <2>4. DOMAIN new = DOMAIN heap[b.obj].cells
    BY <1>2, <1>3, <2>1
  <2>5. HeapOK(heap') /\ \A q \in DOMAIN regs : RegOK(regs[q], heap') /\ NotNewer(regs[q], heap')
    BY <1>3, <2>1, <2>3, <2>4, WrittenMemory
  <2>6. fault' \in Faults /\ fault' = "none" /\ ~ flagged'
    BY <1>2, <1>6, <2>3 DEF Faults
  <2> QED BY <1>3, <1>4, <2>3, <2>5, <2>6, EffectKeeps
<1>7. CASE k \notin DOMAIN cells
  <2>1. Step(b, TRUE, violated, "out of bounds")
    BY <1>1, <1>2, <1>3, <1>7
  <2>2. /\ regs' = Append(regs, b) /\ heap' = heap /\ held' = TRUE
        /\ flagged' = violated /\ fault' = "out of bounds"
    BY <2>1 DEF Step, Effect
  <2>3. HeapOK(heap') /\ \A q \in DOMAIN regs : RegOK(regs[q], heap')
    BY <2>2 DEF LoweringInv
  <2>4. fault' \in Faults /\ fault' # "none" /\ flagged'
    BY <1>2, <1>7, <2>2 DEF Faults
  <2> QED BY <1>3, <1>4, <2>2, <2>3, <2>4, EffectKeeps
<1> QED BY <1>6, <1>7

LEMMA BufferLenKeeps ==
  ASSUME LoweringInv, BufferLen
  PROVE  LoweringInv'
<1>1. PICK r \in Of("buffer") : Define(Int2(Cardinality(DOMAIN heap[regs[r].obj].cells), regs[r].len), TRUE)
  BY DEF BufferLen
<1>2. PICK n \in Word : n = regs[r].len /\ n = Cardinality(DOMAIN heap[regs[r].obj].cells)
  BY RegFacts DEF BufferOK
<1>3. Define(Int2(n, n), TRUE)
  BY <1>1, <1>2
<1> QED BY <1>3, IntPlain, DefineKeeps

\* A current list has the length the solver knows.
LEMMA ListFacts ==
  ASSUME LoweringInv, Narrowed, NEW r \in Of("list"), Current(regs[r])
  PROVE  \E n \in Nat : \E cells \in [0 .. n - 1 -> Word] :
           /\ cells = heap[regs[r].obj].cells /\ DOMAIN cells = 0 .. n - 1 /\ Cardinality(DOMAIN cells) = n
           /\ regs[r].len = n /\ n < Half
<1>1. PICK a : a = regs[r] /\ ListOK(a, heap) /\ r \in DOMAIN regs
  BY RegFacts
<1>2. PICK n \in Nat : /\ heap[a.obj].cells \in [0 .. n - 1 -> Word]
                      /\ Cardinality(DOMAIN heap[a.obj].cells) = n /\ DOMAIN heap[a.obj].cells = 0 .. n - 1
  BY <1>1, HeapFacts DEF ListOK
<1>3. Fresh(a, heap)
  BY <1>1 DEF Narrowed, Exclusions, Keeps, Current, Fresh
<1>4. a.len = n /\ n < Half
  BY <1>1, <1>2, <1>3 DEF ListOK
<1> QED BY <1>1, <1>2, <1>4

LEMMA ListLenKeeps ==
  ASSUME LoweringInv, Narrowed, ListLen
  PROVE  LoweringInv'
<1>1. PICK r \in Of("list") : /\ Current(regs[r])
                             /\ Define(Int2(ListLength(regs[r].obj), regs[r].len), TRUE)
  BY DEF ListLen
<1>2. PICK n \in Nat : /\ n = Cardinality(DOMAIN heap[regs[r].obj].cells) /\ n = regs[r].len /\ n < Half
  BY <1>1, ListFacts
<1>3. n \in Word
  BY <1>2, WordFacts
<1>4. Define(Int2(n, n), TRUE)
  BY <1>1, <1>2 DEF ListLength
<1> QED BY <1>3, <1>4, IntPlain, DefineKeeps

LEMMA ListLoadKeeps ==
  ASSUME LoweringInv, Narrowed, ListLoad
  PROVE  LoweringInv'
<1>1. PICK r \in Of("list"), i \in Of("int") :
        LET cells == heap[regs[r].obj].cells
        IN  /\ Current(regs[r])
            /\ Step(IntReg(Loaded(cells, regs[i].m)), TRUE,
                    PastLength(Term(i), regs[r].len), ListFault(cells, regs[i].m))
  BY DEF ListLoad
<1>2. PICK n \in Nat : \E cells \in [0 .. n - 1 -> Word] :
           /\ cells = heap[regs[r].obj].cells /\ DOMAIN cells = 0 .. n - 1 /\ Cardinality(DOMAIN cells) = n
           /\ regs[r].len = n /\ n < Half
  BY <1>1, ListFacts
<1>3. PICK cells \in [0 .. n - 1 -> Word] :
           /\ cells = heap[regs[r].obj].cells /\ DOMAIN cells = 0 .. n - 1 /\ Cardinality(DOMAIN cells) = n
           /\ regs[r].len = n /\ n < Half
  BY <1>2
<1>4. PICK x \in Word : x = regs[i].m /\ x = regs[i].s
  BY RegFacts DEF IntOK
<1>5. PICK violated \in BOOLEAN : violated = PastLength(Signed(x), n)
  BY DEF PastLength
<1>6. PICK wrong : wrong = ListFault(cells, x)
  OBVIOUS
<1>7. wrong \in Faults /\ (violated <=> wrong # "none")
  <2>1. violated <=> x >= n
    BY <1>3, <1>5, IndexFacts
  <2> QED BY <1>3, <1>6, <2>1 DEF ListFault, Faults
<1>8. PICK w \in Word : w = Loaded(cells, x)
  <2>1. 0 \in Word
    BY WordFacts
  <2> QED BY <1>3, <2>1 DEF Loaded
<1>9. Step(IntReg(w), TRUE, violated, wrong)
  BY <1>1, <1>3, <1>4, <1>5, <1>6, <1>8 DEF Term
<1>10. Plain(IntReg(w))
  BY IntPlain
<1> QED BY <1>7, <1>9, <1>10, CheckedKeeps

LEMMA ListStoreKeeps ==
  ASSUME LoweringInv, Narrowed, ListStore
  PROVE  LoweringInv'
<1>1. PICK r \in Of("list"), i \in Of("int"), u \in Of("int") :
        LET l == regs[r]
            fault2 == ListFault(heap[l.obj].cells, regs[i].m)
        IN  /\ Current(l)
            /\ Effect([l EXCEPT !.version = heap[l.obj].version + 1], TRUE,
                      PastLength(Term(i), l.len), fault2,
                      IF fault2 = "none" THEN Stored(l, regs[i].m, regs[u].m) ELSE heap)
  BY DEF ListStore
<1>2. PICK n \in Nat : \E cells \in [0 .. n - 1 -> Word] :
           /\ cells = heap[regs[r].obj].cells /\ DOMAIN cells = 0 .. n - 1 /\ Cardinality(DOMAIN cells) = n
           /\ regs[r].len = n /\ n < Half
  BY <1>1, ListFacts
<1>3. PICK cells \in [0 .. n - 1 -> Word] :
           /\ cells = heap[regs[r].obj].cells /\ DOMAIN cells = 0 .. n - 1 /\ Cardinality(DOMAIN cells) = n
           /\ regs[r].len = n /\ n < Half
  BY <1>2
<1>4. PICK x \in Word : x = regs[i].m /\ x = regs[i].s
  BY RegFacts DEF IntOK
<1>5. PICK violated \in BOOLEAN : violated = PastLength(Signed(x), n)
  BY DEF PastLength
<1>6. PICK wrong : wrong = ListFault(cells, x)
  OBVIOUS
<1>7. wrong \in Faults /\ (violated <=> wrong # "none")
  <2>1. violated <=> x >= n
    BY <1>3, <1>5, IndexFacts
  <2> QED BY <1>3, <1>6, <2>1 DEF ListFault, Faults
<1>8. PICK w \in Word : w = regs[u].m
  BY RegFacts DEF IntOK
<1>9. PICK l : l = regs[r] /\ ListOK(l, heap) /\ r \in DOMAIN regs
  BY RegFacts
<1>10. PICK o \in DOMAIN heap, v \in Nat : o = l.obj /\ v = heap[o].version
  BY <1>9, HeapFacts DEF ListOK
<1>11. PICK dest : dest = [l EXCEPT !.version = v + 1]
  OBVIOUS
<1>12. /\ dest.kind = "list" /\ dest.obj = o /\ dest.version = v + 1 /\ dest.len = n
       /\ dest \in [kind : {"list"}, obj : DOMAIN heap, len : Nat, version : Nat] /\ l.kind = "list"
  BY <1>3, <1>9, <1>10, <1>11 DEF ListOK
<1>13. \A q \in DOMAIN regs : Apart(regs[q], dest) /\ Apart(dest, regs[q])
  BY <1>9, <1>10, <1>12, SameApart
<1>14. PICK new : new = StoreAt(cells, x, w) /\ new \in Contents /\ DOMAIN new = DOMAIN cells
  <2>1. cells \in Contents
    BY DEF Contents
  <2> QED BY <2>1, StoreFacts
<1>15. Effect(dest, TRUE, violated, wrong, IF wrong = "none" THEN Written(o, new) ELSE heap)
  BY <1>1, <1>3, <1>4, <1>5, <1>6, <1>8, <1>9, <1>10, <1>11, <1>14 DEF Stored, Term
<1>16. /\ regs' = Append(regs, dest) /\ held' = TRUE /\ fault = "none" /\ flagged' = violated /\ fault' = wrong
       /\ heap' = IF wrong = "none" THEN Written(o, new) ELSE heap
  BY <1>15 DEF Effect, Running
<1>17. CASE wrong = "none"
  <2>1. heap' = Written(o, new) /\ DOMAIN new = DOMAIN heap[o].cells
    BY <1>3, <1>9, <1>10, <1>14, <1>16, <1>17
  <2>2. /\ HeapOK(heap') /\ DOMAIN heap' = DOMAIN heap
        /\ heap'[o].cells = new /\ heap'[o].version = v + 1
        /\ \A q \in DOMAIN regs : RegOK(regs[q], heap') /\ NotNewer(regs[q], heap')
    BY <1>10, <1>14, <1>16, <2>1, WrittenMemory
  <2>3. ListOK(dest, heap')
    <3>1. Cardinality(DOMAIN heap'[o].cells) = n
      BY <1>3, <1>14, <2>2
    <3> QED BY <1>3, <1>12, <2>2, <3>1 DEF ListOK
  <2>4. RegOK(dest, heap') /\ NotNewer(dest, heap')
    BY <1>12, <2>2, <2>3 DEF RegOK, Reference, NotNewer
  <2>5. fault' \in Faults /\ fault' = "none" /\ ~ flagged'
    BY <1>7, <1>16, <1>17
  <2> QED BY <1>13, <1>16, <2>2, <2>4, <2>5, EffectKeeps
<1>18. CASE wrong # "none"
  <2>1. heap' = heap
    BY <1>16, <1>18
  <2>2. ~ Fresh(dest, heap)
    BY <1>10, <1>12 DEF Fresh
  <2>3. ListOK(dest, heap)
    <3>1. Cardinality(DOMAIN heap[dest.obj].cells) < Half
      BY <1>3, <1>9, <1>10, <1>12
    <3> QED BY <1>12, <2>2, <3>1 DEF ListOK
  <2>4. RegOK(dest, heap') /\ HeapOK(heap') /\ \A q \in DOMAIN regs : RegOK(regs[q], heap')
    BY <2>1, <2>3 DEF RegOK, Reference, LoweringInv
  <2>5. fault' \in Faults /\ fault' # "none" /\ flagged'
    BY <1>7, <1>16, <1>18
  <2> QED BY <1>13, <1>16, <2>4, <2>5, EffectKeeps
<1> QED BY <1>17, <1>18

LEMMA ListAppendKeeps ==
  ASSUME LoweringInv, Narrowed, ListAppend
  PROVE  LoweringInv'
<1>1. PICK r \in Of("list"), u \in Of("int") :
        LET l == regs[r]
        IN  /\ Current(l)
            /\ Keeps("wrap", ListLength(l.obj) < Half - 1)
            /\ Effect(Sized("list", l.obj, l.len + 1, heap[l.obj].version + 1), TRUE, FALSE, "none",
                      Written(l.obj, Grown(heap[l.obj].cells, regs[u].m)))
  BY DEF ListAppend
<1>2. PICK n \in Nat : \E cells \in [0 .. n - 1 -> Word] :
           /\ cells = heap[regs[r].obj].cells /\ DOMAIN cells = 0 .. n - 1 /\ Cardinality(DOMAIN cells) = n
           /\ regs[r].len = n
  BY <1>1, ListFacts
<1>3. PICK cells \in [0 .. n - 1 -> Word] :
           /\ cells = heap[regs[r].obj].cells /\ DOMAIN cells = 0 .. n - 1 /\ Cardinality(DOMAIN cells) = n
           /\ regs[r].len = n
  BY <1>2
<1>4. PICK w \in Word : w = regs[u].m
  BY RegFacts DEF IntOK
<1>5. PICK l : l = regs[r] /\ ListOK(l, heap) /\ r \in DOMAIN regs
  BY RegFacts
<1>6. PICK o \in DOMAIN heap, v \in Nat : o = l.obj /\ v = heap[o].version
  BY <1>5, HeapFacts DEF ListOK
<1>7. n < Half - 1
  BY <1>1, <1>3 DEF Narrowed, Exclusions, Keeps, ListLength
<1>8. PICK new : new = Grown(cells, w)
  OBVIOUS
<1>9. new \in [0 .. n -> Word] /\ DOMAIN new = 0 .. n
  <2>1. new = [k \in 0 .. n |-> IF k = n THEN w ELSE cells[k]]
    BY <1>3, <1>8 DEF Grown
  <2>2. \A k \in 0 .. n : k # n => k \in 0 .. n - 1
    OBVIOUS
  <2> QED BY <2>1, <2>2
<1>10. new \in Contents /\ Cardinality(DOMAIN new) = n + 1 /\ n + 1 < Half
  <2>1. n + 1 \in Nat /\ (n + 1) - 1 = n
    OBVIOUS
  <2>2. new \in Contents
    BY <1>9, <2>1 DEF Contents
  <2>3. Cardinality(0 .. n) = n + 1
    BY FS_Interval
  <2>4. n + 1 < Half
    BY <1>7, WordFacts
  <2> QED BY <1>9, <2>2, <2>3, <2>4
<1>11. PICK dest : dest = Sized("list", o, n + 1, v + 1)
  OBVIOUS
<1>12. Effect(dest, TRUE, FALSE, "none", Written(o, new))
  BY <1>1, <1>3, <1>4, <1>5, <1>6, <1>8, <1>11
<1>13. /\ regs' = Append(regs, dest) /\ held' = TRUE /\ fault = "none" /\ flagged' = FALSE /\ fault' = "none"
       /\ heap' = Written(o, new)
  BY <1>12 DEF Effect, Running
<1>14. /\ dest.kind = "list" /\ dest.obj = o /\ dest.version = v + 1 /\ dest.len = n + 1
       /\ dest \in [kind : {"list"}, obj : DOMAIN heap, len : Nat, version : Nat] /\ l.kind = "list"
  BY <1>5, <1>11 DEF Sized, ListOK
<1>15. \A q \in DOMAIN regs : Apart(regs[q], dest) /\ Apart(dest, regs[q])
  BY <1>5, <1>6, <1>14, SameApart
<1>16. ASSUME NEW q \in DOMAIN regs, regs[q].kind \in References, regs[q].obj = o PROVE regs[q].kind = "list"
  <2>1. Apart(regs[q], dest)
    BY <1>15
  <2> QED BY <1>14, <1>16, <2>1 DEF Apart, References
<1>17. /\ HeapOK(heap') /\ DOMAIN heap' = DOMAIN heap
       /\ heap'[o].cells = new /\ heap'[o].version = v + 1
       /\ \A q \in DOMAIN regs : RegOK(regs[q], heap') /\ NotNewer(regs[q], heap')
  BY <1>6, <1>10, <1>13, <1>16, WrittenMemory
<1>18. ListOK(dest, heap')
  BY <1>10, <1>14, <1>17 DEF ListOK
<1>19. RegOK(dest, heap') /\ NotNewer(dest, heap')
  BY <1>14, <1>17, <1>18 DEF RegOK, Reference, NotNewer
<1>20. fault' \in Faults /\ fault' = "none" /\ ~ flagged'
  BY <1>13 DEF Faults
<1> QED BY <1>13, <1>15, <1>17, <1>19, <1>20, EffectKeeps

LEMMA ListCreateKeeps ==
  ASSUME LoweringInv, ListCreate
  PROVE  LoweringInv'
<1>1. Effect(Sized("list", NewObject, 0, 0), TRUE, FALSE, "none", Append(heap, Object(<<>>)))
  BY DEF ListCreate
<1>2. PICK dest, o : dest = Sized("list", o, 0, 0) /\ o = NewObject
  OBVIOUS
<1>3. /\ regs' = Append(regs, dest) /\ held' = TRUE /\ fault = "none" /\ flagged' = FALSE /\ fault' = "none"
      /\ heap' = Append(heap, Object(<<>>))
  BY <1>1, <1>2 DEF Effect, Running
<1>4. <<>> \in Contents /\ Cardinality(DOMAIN <<>>) = 0
  <2>1. DOMAIN <<>> = {} /\ 0 .. 0 - 1 = {}
    OBVIOUS
  <2>2. <<>> \in [0 .. 0 - 1 -> Word]
    BY <2>1
  <2> QED BY <2>1, <2>2, FS_EmptySet DEF Contents
<1>5. /\ HeapOK(heap') /\ o \in DOMAIN heap' /\ o # Null
      /\ heap'[o].cells = <<>> /\ heap'[o].version = 0
      /\ \A r \in DOMAIN regs : RegOK(regs[r], heap') /\ NotNewer(regs[r], heap')
      /\ \A r \in DOMAIN regs : regs[r].kind \in References => regs[r].obj # o
  BY <1>2, <1>3, <1>4, AppendMemory
<1>6. /\ dest.kind = "list" /\ dest.obj = o /\ dest.version = 0 /\ dest.len = 0
      /\ dest \in [kind : {"list"}, obj : DOMAIN heap', len : Nat, version : Nat]
  BY <1>2, <1>5 DEF Sized
<1>7. ListOK(dest, heap')
  <2>1. 0 < Half
    BY WordFacts
  <2> QED BY <1>4, <1>5, <1>6, <2>1 DEF ListOK
<1>8. RegOK(dest, heap') /\ NotNewer(dest, heap')
  BY <1>5, <1>6, <1>7 DEF RegOK, Reference, NotNewer
<1>9. ASSUME NEW q \in DOMAIN regs PROVE Apart(regs[q], dest) /\ Apart(dest, regs[q])
  <2>1. regs[q].kind \in References => regs[q].obj # o
    BY <1>5
  <2> QED BY <1>6, <2>1 DEF Apart
<1>10. fault' \in Faults /\ fault' = "none" /\ ~ flagged'
  BY <1>3 DEF Faults
<1>11. HeapOK(heap') /\ \A q \in DOMAIN regs : RegOK(regs[q], heap') /\ NotNewer(regs[q], heap')
  BY <1>5
<1> QED BY <1>3, <1>8, <1>9, <1>10, <1>11, EffectKeeps

----------------------------------------------------------------------------
(***************************************************************************)
(* Pointers.                                                               *)
(***************************************************************************)
\* A pointer that is not older than its box knows what is in it.
LEMMA PointerFacts ==
  ASSUME LoweringInv, Narrowed, NEW r \in Of("pointer"), Deref(regs[r])
  PROVE  /\ regs[r].kind = "pointer" /\ regs[r].obj \in DOMAIN heap \cup {Null} /\ Null \notin DOMAIN heap
         /\ regs[r] \in [kind : {"pointer"}, obj : DOMAIN heap \cup {Null},
                        view : {Free} \cup [0 .. 1 -> Word], version : Nat]
         /\ regs[r].obj # Null =>
               /\ heap[regs[r].obj].cells \in [0 .. 1 -> Word] /\ heap[regs[r].obj].version \in Nat
               /\ regs[r].view # Free => regs[r].view = heap[regs[r].obj].cells
<1>1. PICK a : a = regs[r] /\ PointerOK(a, heap)
  BY RegFacts
<1>2. /\ a \in [kind : {"pointer"}, obj : DOMAIN heap \cup {Null}, view : {Free} \cup [0 .. 1 -> Word],
               version : Nat]
      /\ a.obj # Null => DOMAIN heap[a.obj].cells = 0 .. 1
      /\ a.obj # Null /\ Fresh(a, heap) /\ a.view # Free => a.view = heap[a.obj].cells
  BY <1>1 DEF PointerOK
<1>3. a.obj # Null => Fresh(a, heap)
  BY <1>1 DEF Narrowed, Exclusions, Keeps, Deref, Fresh
<1>4. Null \notin DOMAIN heap
  <2>1. PICK R : heap \in Seq(R)
    BY DEF LoweringInv, HeapOK
  <2> QED BY <2>1, LenProperties DEF Null
<1>5. ASSUME a.obj # Null PROVE heap[a.obj].cells \in [0 .. 1 -> Word] /\ heap[a.obj].version \in Nat
  <2>1. a.obj \in DOMAIN heap
    BY <1>2, <1>5
  <2>2. PICK n \in Nat : /\ heap[a.obj].cells \in [0 .. n - 1 -> Word] /\ heap[a.obj].version \in Nat
                        /\ DOMAIN heap[a.obj].cells = 0 .. n - 1
    BY <2>1, HeapFacts
  <2> QED BY <1>2, <1>5, <2>2
<1> QED BY <1>1, <1>2, <1>3, <1>4, <1>5

\* A load through no box faults, and the check says so.
LEMMA NullKeeps ==
  ASSUME LoweringInv, NEW reg, RegOK(reg, heap), \A q \in DOMAIN regs : Apart(regs[q], reg) /\ Apart(reg, regs[q]),
         Step(reg, TRUE, TRUE, "null")
  PROVE  LoweringInv'
<1>1. /\ regs' = Append(regs, reg) /\ heap' = heap /\ held' = TRUE
      /\ flagged' = TRUE /\ fault' = "null"
  BY DEF Step, Effect
<1>2. HeapOK(heap') /\ RegOK(reg, heap') /\ \A q \in DOMAIN regs : RegOK(regs[q], heap')
  BY <1>1 DEF LoweringInv
<1>3. fault' \in Faults /\ fault' # "none" /\ flagged'
  BY <1>1 DEF Faults
<1> QED BY <1>1, <1>2, <1>3, EffectKeeps

LEMMA LoadAtKeeps ==
  ASSUME LoweringInv, Narrowed, NEW r \in Of("pointer"), NEW off \in 0 .. 1, LoadAt(r, off)
  PROVE  LoweringInv'
<1>1. /\ Deref(regs[r]) /\ regs[r].view # Free
      /\ regs[r].obj = Null => Step(IntReg(0), TRUE, TRUE, "null")
      /\ regs[r].obj # Null => Define(Int2(heap[regs[r].obj].cells[off], regs[r].view[off]), TRUE)
  BY DEF LoadAt
<1>2. CASE regs[r].obj = Null
  <2>1. Plain(IntReg(0))
    <3>1. 0 \in Word
      BY WordFacts
    <3> QED BY <3>1, IntPlain
  <2>2. RegOK(IntReg(0), heap) /\ \A q \in DOMAIN regs : Apart(regs[q], IntReg(0)) /\ Apart(IntReg(0), regs[q])
    BY <2>1, PlainFacts
  <2> QED BY <1>1, <1>2, <2>2, NullKeeps
<1>3. CASE regs[r].obj # Null
  <2>1. PICK cells \in [0 .. 1 -> Word] : cells = heap[regs[r].obj].cells /\ cells = regs[r].view
    BY <1>1, <1>3, PointerFacts
  <2>2. PICK w \in Word : w = cells[off]
    OBVIOUS
  <2>3. Define(Int2(w, w), TRUE)
    BY <1>1, <1>3, <2>1, <2>2
  <2> QED BY <2>3, IntPlain, DefineKeeps
<1> QED BY <1>2, <1>3

\* A store through a pointer that gives it the new contents of its box as term
LEMMA RetargetKeeps ==
  ASSUME LoweringInv, Narrowed, NEW r \in Of("pointer"), Deref(regs[r]), regs[r].obj # Null,
         NEW cells \in [0 .. 1 -> Word], NEW formula, formula = TRUE, Retarget(r, cells, formula, cells)
  PROVE  LoweringInv'
<1>1. PICK p : p = regs[r]
  OBVIOUS
<1>2. /\ p \in [kind : {"pointer"}, obj : DOMAIN heap \cup {Null}, view : {Free} \cup [0 .. 1 -> Word],
               version : Nat]
      /\ p.kind = "pointer" /\ heap[p.obj].cells \in [0 .. 1 -> Word] /\ heap[p.obj].version \in Nat
  BY <1>1, PointerFacts
<1>3. PICK o \in DOMAIN heap, v \in Nat : o = p.obj /\ v = heap[o].version
  BY <1>1, <1>2
<1>4. /\ fault = "none" /\ ~ flagged /\ heap' = Written(o, cells) /\ held' = TRUE
      /\ regs' = [regs EXCEPT ![r].view = cells, ![r].version = v + 1]
      /\ flagged' = flagged /\ fault' = fault
  BY <1>1, <1>3 DEF Retarget, Running
<1>5. PICK new : new = [p EXCEPT !.view = cells, !.version = v + 1]
  OBVIOUS
<1>6. /\ new \in [kind : {"pointer"}, obj : DOMAIN heap \cup {Null}, view : {Free} \cup [0 .. 1 -> Word],
                 version : Nat]
      /\ new.kind = "pointer" /\ new.obj = o /\ new.view = cells /\ new.version = v + 1
  <2>1. p = [kind |-> p.kind, obj |-> p.obj, view |-> p.view, version |-> p.version]
    BY <1>2
  <2>2. new = [kind |-> "pointer", obj |-> o, view |-> cells, version |-> v + 1]
    BY <1>2, <1>3, <1>5, <2>1
  <2>3. v + 1 \in Nat
    OBVIOUS
  <2> QED BY <2>2, <2>3
<1>7. r \in DOMAIN regs
  BY DEF Of
<1>8. regs' = [regs EXCEPT ![r] = new]
  BY <1>1, <1>4, <1>5
<1>9. PICK S : regs \in Seq(S) /\ S = {regs[q] : q \in DOMAIN regs}
  BY DEF LoweringInv
<1>10. DOMAIN regs' = DOMAIN regs /\ regs'[r] = new /\ \A q \in DOMAIN regs : q # r => regs'[q] = regs[q]
  BY <1>7, <1>8
<1>11. regs' \in Seq({regs'[q] : q \in DOMAIN regs'})
  <2>1. PICK T : T = {regs'[q] : q \in DOMAIN regs'}
    OBVIOUS
  <2>2. \A q \in DOMAIN regs : regs'[q] \in T
    BY <1>10, <2>1
  <2>3. PICK n \in Nat : DOMAIN regs = 1 .. n
    BY <1>9, LenProperties
  <2>4. regs' \in [1 .. n -> T]
    <3>1. regs' = [q \in 1 .. n |-> regs'[q]]
      BY <1>8, <2>3
    <3> QED BY <2>2, <2>3, <3>1
  <2>5. regs' \in Seq(T)
    BY <2>4
  <2> QED BY <2>1, <2>5
<1>12. cells \in Contents /\ DOMAIN cells = DOMAIN heap[o].cells
  <2>1. 0 .. 1 = 0 .. 2 - 1
    OBVIOUS
  <2>2. cells \in Contents
    BY <2>1 DEF Contents
  <2> QED BY <1>2, <1>3, <2>2
<1>13. /\ HeapOK(heap') /\ DOMAIN heap' = DOMAIN heap
       /\ heap'[o].cells = cells /\ heap'[o].version = v + 1
       /\ \A q \in DOMAIN regs : RegOK(regs[q], heap') /\ NotNewer(regs[q], heap')
  BY <1>3, <1>4, <1>12, WrittenMemory
<1>14. PointerOK(new, heap')
  BY <1>6, <1>13 DEF PointerOK
<1>15. RegOK(new, heap') /\ NotNewer(new, heap')
  BY <1>6, <1>13, <1>14 DEF RegOK, Reference, NotNewer
<1>16. \A q \in DOMAIN regs' : RegOK(regs'[q], heap') /\ NotNewer(regs'[q], heap')
  BY <1>10, <1>13, <1>15
<1>17. \A q, t \in DOMAIN regs' : Apart(regs'[q], regs'[t])
  <2>1. \A q \in DOMAIN regs : Apart(regs[q], new) /\ Apart(new, regs[q])
    BY <1>1, <1>2, <1>3, <1>6, <1>7, SameApart
  <2>2. Apart(new, new)
    BY DEF Apart
  <2>3. \A q, t \in DOMAIN regs : Apart(regs[q], regs[t])
    BY DEF LoweringInv
  <2> QED BY <1>10, <2>1, <2>2, <2>3
<1>18. fault' \in Faults /\ FaultsAreFlagged' /\ FlagsAreReal'
  <2>1. fault' = "none" /\ ~ flagged'
    BY <1>4
  <2> QED BY <2>1 DEF Faults, FaultsAreFlagged, FlagsAreReal
<1> QED BY <1>4, <1>11, <1>13, <1>16, <1>17, <1>18 DEF LoweringInv

LEMMA PutAtKeeps ==
  ASSUME LoweringInv, Narrowed, NEW r \in Of("pointer"), NEW off \in 0 .. 1, NEW u \in Of("int"), PutAt(r, off, u)
  PROVE  LoweringInv'
<1>1. PICK p : p = regs[r] /\ r \in DOMAIN regs /\ RegOK(p, heap)
  BY DEF Of, LoweringInv
<1>2. /\ Deref(p) /\ p.view # Free
      /\ p.obj = Null => Step(p, TRUE, TRUE, "null")
      /\ p.obj # Null => Retarget(r, StoreAt(p.view, off, regs[u].s), TRUE,
                                  StoreAt(heap[p.obj].cells, off, regs[u].m))
  BY <1>1 DEF PutAt
<1>3. CASE p.obj = Null
  <2>1. \A q \in DOMAIN regs : Apart(regs[q], p) /\ Apart(p, regs[q])
    BY <1>1, SameApart
  <2> QED BY <1>1, <1>2, <1>3, <2>1, NullKeeps
<1>4. CASE p.obj # Null
  <2>1. PICK old \in [0 .. 1 -> Word] : old = heap[p.obj].cells /\ old = p.view
    BY <1>1, <1>2, <1>4, PointerFacts
  <2>2. PICK w \in Word : w = regs[u].m /\ w = regs[u].s
    BY RegFacts DEF IntOK
  <2>3. PICK new \in [0 .. 1 -> Word] : new = StoreAt(old, off, w)
    BY DEF StoreAt
  <2>4. Retarget(r, new, TRUE, new)
    BY <1>2, <1>4, <2>1, <2>2, <2>3
  <2> QED BY <1>1, <1>2, <1>4, <2>4, RetargetKeeps
<1> QED BY <1>3, <1>4

LEMMA PointerStoreWholeKeeps ==
  ASSUME LoweringInv, Narrowed, PointerStoreWhole
  PROVE  LoweringInv'
<1>1. PICK r \in Of("pointer"), q \in Of("pointer") :
        LET p == regs[r]
            v == regs[q]
        IN  /\ p.obj # Null /\ v.obj # Null /\ v.view # Free
            /\ Deref(p) /\ Deref(v)
            /\ Keeps("alias", p.view = Free)
            /\ Retarget(r, v.view, p.view \in {Free, v.view}, heap[v.obj].cells)
  BY DEF PointerStoreWhole
<1>2. PICK cells \in [0 .. 1 -> Word] : cells = heap[regs[q].obj].cells /\ cells = regs[q].view
  BY <1>1, PointerFacts
<1>3. regs[r].view = Free
  BY <1>1 DEF Narrowed, Exclusions, Keeps
<1>4. PICK formula : formula = (regs[r].view \in {Free, cells})
  OBVIOUS
<1>5. formula = TRUE
  BY <1>3, <1>4
<1>6. Retarget(r, cells, formula, cells)
  BY <1>1, <1>2, <1>4
<1> QED BY <1>1, <1>5, <1>6, RetargetKeeps

LEMMA PointerLoadWholeKeeps ==
  ASSUME LoweringInv, PointerLoadWhole
  PROVE  LoweringInv'
<1>1. PICK r \in Of("pointer") :
        /\ regs[r].obj = Null => Step(regs[r], TRUE, TRUE, "null")
        /\ regs[r].obj # Null => Define(regs[r], TRUE)
  BY DEF PointerLoadWhole
<1>2. PICK p : p = regs[r] /\ r \in DOMAIN regs /\ RegOK(p, heap)
  BY DEF Of, LoweringInv
<1>3. \A q \in DOMAIN regs : Apart(regs[q], p) /\ Apart(p, regs[q])
  BY <1>2, SameApart
<1>4. CASE p.obj = Null
  BY <1>1, <1>2, <1>3, <1>4, NullKeeps
<1>5. CASE p.obj # Null
  <2>1. Define(p, TRUE)
    BY <1>1, <1>2, <1>5
  <2>2. /\ regs' = Append(regs, p) /\ heap' = heap /\ held' = TRUE /\ fault = "none"
        /\ flagged' = FALSE /\ fault' = "none"
    BY <2>1 DEF Define, Step, Effect, Running
  <2>3. HeapOK(heap') /\ \A q \in DOMAIN regs : RegOK(regs[q], heap') /\ NotNewer(regs[q], heap')
    BY <2>2 DEF LoweringInv
  <2>4. RegOK(p, heap') /\ NotNewer(p, heap')
    BY <1>2, <2>3
  <2>5. fault' \in Faults /\ fault' = "none" /\ ~ flagged'
    BY <2>2 DEF Faults
  <2> QED BY <1>3, <2>2, <2>3, <2>4, <2>5, EffectKeeps
<1> QED BY <1>4, <1>5

LEMMA AllocKeeps ==
  ASSUME LoweringInv, Alloc
  PROVE  LoweringInv'
<1>1. PICK cells : cells = [k \in 0 .. 1 |-> 0]
  OBVIOUS
<1>2. PICK dest, o : dest = Pointer(o, Free, 0) /\ o = NewObject
  OBVIOUS
<1>3. Effect(dest, TRUE, FALSE, "none", Append(heap, Object(cells)))
  BY <1>1, <1>2 DEF Alloc
<1>4. /\ regs' = Append(regs, dest) /\ held' = TRUE /\ fault = "none" /\ flagged' = FALSE /\ fault' = "none"
      /\ heap' = Append(heap, Object(cells))
  BY <1>3 DEF Effect, Running
<1>5. cells \in Contents /\ DOMAIN cells = 0 .. 1
  <2>1. 0 .. 1 = 0 .. 2 - 1 /\ 0 \in Word
    BY WordFacts
  <2>2. cells \in [0 .. 1 -> Word]
    BY <1>1, <2>1
  <2> QED BY <2>1, <2>2 DEF Contents
<1>6. /\ HeapOK(heap') /\ o \in DOMAIN heap' /\ o # Null
      /\ heap'[o].cells = cells /\ heap'[o].version = 0
      /\ \A r \in DOMAIN regs : RegOK(regs[r], heap') /\ NotNewer(regs[r], heap')
      /\ \A r \in DOMAIN regs : regs[r].kind \in References => regs[r].obj # o
  BY <1>2, <1>4, <1>5, AppendMemory
<1>7. /\ dest.kind = "pointer" /\ dest.obj = o /\ dest.version = 0 /\ dest.view = Free
      /\ dest \in [kind : {"pointer"}, obj : DOMAIN heap' \cup {Null}, view : {Free} \cup [0 .. 1 -> Word],
                  version : Nat]
  BY <1>2, <1>6 DEF Pointer
<1>8. PointerOK(dest, heap')
  BY <1>5, <1>6, <1>7 DEF PointerOK
<1>9. RegOK(dest, heap') /\ NotNewer(dest, heap')
  BY <1>6, <1>7, <1>8 DEF RegOK, Reference, NotNewer
<1>10. ASSUME NEW q \in DOMAIN regs PROVE Apart(regs[q], dest) /\ Apart(dest, regs[q])
  <2>1. regs[q].kind \in References => regs[q].obj # o
    BY <1>6
  <2> QED BY <1>7, <2>1 DEF Apart
<1>11. fault' \in Faults /\ fault' = "none" /\ ~ flagged'
  BY <1>4 DEF Faults
<1>12. HeapOK(heap') /\ \A q \in DOMAIN regs : RegOK(regs[q], heap') /\ NotNewer(regs[q], heap')
  BY <1>6
<1> QED BY <1>4, <1>9, <1>10, <1>11, <1>12, EffectKeeps

----------------------------------------------------------------------------
(***************************************************************************)
(* The invariant holds of the parameters and is kept by every instruction. *)
(***************************************************************************)
LEMMA SeqRestricts ==
  ASSUME NEW S, NEW T, NEW s \in Seq(S), \A i \in DOMAIN s : s[i] \in T
  PROVE  s \in Seq(T)
<1>1. PICK n \in Nat : n = Len(s) /\ DOMAIN s = 1 .. n /\ s \in [1 .. n -> S]
  BY LenProperties
<1>2. s \in [1 .. n -> T]
  BY <1>1
<1> QED BY <1>2

\* A reference among the parameters
LEMMA ReferringFacts ==
  ASSUME Narrowed, NEW memory, NEW o \in DOMAIN memory, NEW n \in Word, memory[o].cells \in [0 .. n - 1 -> Word],
         memory[o].version = 0, NEW a \in Referring(memory, o)
  PROVE  RegOK(a, memory) /\ NotNewer(a, memory)
<1>1. PICK cells \in [0 .. n - 1 -> Word] : cells = memory[o].cells
  OBVIOUS
<1>2. n \in Nat /\ 0 \in Nat /\ 1 \in {-1, 1, 2}
  BY WordFacts
<1>3. DOMAIN cells = 0 .. n - 1 /\ Cardinality(DOMAIN cells) = n
  BY <1>2, FS_Interval
<1>4. \/ a = WholeArray(o, n, cells, 0)
      \/ a = Sized("buffer", o, n, 0)
      \/ a = Sized("list", o, n, 0) /\ n < Half
      \/ a = Pointer(o, cells, 0) /\ n = 2
  BY <1>1, <1>3 DEF Referring, Narrowed, Exclusions
<1>5. CASE a = WholeArray(o, n, cells, 0)
  <2>1. /\ a.kind = "array" /\ a.obj = o /\ a.version = 0 /\ a.base = 0 /\ a.stride = 1 /\ a.size = n
        /\ a.soff = 0 /\ a.sstride = 1 /\ a.view = cells
    BY <1>5 DEF WholeArray, Array
  <2>2. n > 0 => 0 \in DOMAIN cells /\ 0 + (n - 1) * 1 \in DOMAIN cells
    BY <1>2, <1>3
  <2>3. a.size > 0 => Ends(a, cells)
    BY <2>1, <2>2 DEF Ends
  <2>4. ArrayOK(a, memory)
    BY <1>1, <1>2, <2>1, <2>3 DEF ArrayOK
  <2>5. NotNewer(a, memory)
    BY <2>1 DEF NotNewer
  <2> QED BY <2>4, <2>5 DEF RegOK, Reference
<1>6. CASE a = Sized("buffer", o, n, 0)
  <2>1. a.kind = "buffer" /\ a.obj = o /\ a.version = 0 /\ a.len = n
    BY <1>6 DEF Sized
  <2>2. BufferOK(a, memory)
    BY <1>1, <1>2, <1>3, <2>1 DEF BufferOK
  <2>3. NotNewer(a, memory)
    BY <2>1 DEF NotNewer
  <2> QED BY <2>2, <2>3 DEF RegOK, Reference
<1>7. CASE a = Sized("list", o, n, 0) /\ n < Half
  <2>1. a = [kind |-> "list", obj |-> o, len |-> n, version |-> 0]
    BY <1>7 DEF Sized
  <2>2. a \in [kind : {"list"}, obj : DOMAIN memory, len : Nat, version : Nat]
    BY <1>2, <2>1
  <2>3. a.obj = o /\ a.version = 0 /\ a.len = n
    BY <2>1
  <2>4. ListOK(a, memory)
    BY <1>1, <1>3, <1>7, <2>2, <2>3 DEF ListOK
  <2>5. NotNewer(a, memory)
    BY <2>3 DEF NotNewer
  <2> QED BY <2>4, <2>5 DEF RegOK, Reference
<1>8. CASE a = Pointer(o, cells, 0) /\ n = 2
  <2>1. a = [kind |-> "pointer", obj |-> o, view |-> cells, version |-> 0]
    BY <1>8 DEF Pointer
  <2>2. 0 .. n - 1 = 0 .. 1
    BY <1>8
  <2>3. cells \in [0 .. 1 -> Word]
    BY <1>1, <2>2
  <2>4. a \in [kind : {"pointer"}, obj : DOMAIN memory \cup {Null}, view : {Free} \cup [0 .. 1 -> Word],
               version : Nat]
    BY <1>2, <2>1, <2>3
  <2>5. a.obj = o /\ a.version = 0 /\ a.view = cells
    BY <2>1
  <2>6. PointerOK(a, memory)
    BY <1>1, <1>3, <2>2, <2>4, <2>5 DEF PointerOK
  <2>7. NotNewer(a, memory)
    BY <2>5 DEF NotNewer
  <2> QED BY <2>6, <2>7 DEF RegOK, Reference
<1> QED BY <1>4, <1>5, <1>6, <1>7, <1>8

LEMMA ParameterFacts ==
  ASSUME Narrowed, NEW memory, Null \notin DOMAIN memory, NEW a \in Parameters(memory),
         \A o \in DOMAIN memory : /\ memory[o].version = 0
                                  /\ \E n \in Word : memory[o].cells \in [0 .. n - 1 -> Word]
  PROVE  RegOK(a, memory) /\ NotNewer(a, memory)
<1>1. \/ \E w \in Word : a = IntReg(w) \/ a = RefinedReg(w)
      \/ \E t \in BOOLEAN : a = Bool2(Bit(t), t) \/ a = Compared(t, t)
      \/ \E f \in FloatResults : a = Float(f)
      \/ \E n \in 0 .. Half - 1 : a = Str(n, n)
      \/ \E view \in [0 .. 1 -> Word] : a = Pointer(Null, view, 0)
      \/ \E o \in DOMAIN memory : a \in Referring(memory, o)
  BY DEF Parameters
<1>2. ASSUME Plain(a) PROVE RegOK(a, memory) /\ NotNewer(a, memory)
  BY <1>2, PlainFacts
<1>3. CASE \E w \in Word : a = IntReg(w) \/ a = RefinedReg(w)
  <2>1. PICK w \in Word : a = IntReg(w) \/ a = RefinedReg(w)
    BY <1>3
  <2>2. a.kind = "int" /\ a.m = w /\ a.s = w
    BY <2>1 DEF IntReg, RefinedReg, Int2
  <2> QED BY <1>2, <2>2 DEF Plain, IntOK
<1>4. CASE \E t \in BOOLEAN : a = Bool2(Bit(t), t) \/ a = Compared(t, t)
  <2>1. PICK t \in BOOLEAN : a = Bool2(Bit(t), t) \/ a = Compared(t, t)
    BY <1>4
  <2>2. AllOnes # 0
    BY WordFacts
  <2>3. /\ a.kind = "bool" /\ a.s = Bit(t) /\ Bit(t) = (IF t THEN 1 ELSE 0)
        /\ a.m = (IF t THEN 1 ELSE 0) \/ a.m = (IF t THEN AllOnes ELSE 0)
    BY <2>1 DEF Bool2, Compared, Bit
  <2>4. BoolOK(a)
    BY <2>2, <2>3 DEF BoolOK, Truths
  <2> QED BY <1>2, <2>4 DEF Plain
<1>5. CASE \E f \in FloatResults : a = Float(f)
  <2>1. PICK f \in Floats : a = Float(f)
    BY <1>5 DEF FloatResults, Narrowed, Exclusions
  <2> QED BY <1>2, <2>1 DEF Plain, FloatOK, Float
<1>6. CASE \E n \in 0 .. Half - 1 : a = Str(n, n)
  BY <1>2, <1>6 DEF Plain, StrOK, Str
<1>7. CASE \E view \in [0 .. 1 -> Word] : a = Pointer(Null, view, 0)
  <2>1. PICK view \in [0 .. 1 -> Word] : a = Pointer(Null, view, 0)
    BY <1>7
  <2>2. a = [kind |-> "pointer", obj |-> Null, view |-> view, version |-> 0]
    BY <2>1 DEF Pointer
  <2>3. a \in [kind : {"pointer"}, obj : DOMAIN memory \cup {Null}, view : {Free} \cup [0 .. 1 -> Word],
               version : Nat]
    BY <2>2
  <2>4. a.obj = Null
    BY <2>2
  <2>5. PointerOK(a, memory) /\ NotNewer(a, memory)
    BY <2>3, <2>4 DEF PointerOK, NotNewer
  <2> QED BY <2>5 DEF RegOK, Reference
<1>8. CASE \E o \in DOMAIN memory : a \in Referring(memory, o)
  BY <1>8, ReferringFacts
<1> QED BY <1>1, <1>3, <1>4, <1>5, <1>6, <1>7, <1>8

LEMMA StartsKeep ==
  ASSUME Narrowed, Init
  PROVE  LoweringInv
<1>1. PICK start \in Starts : regs = start.regs /\ heap = start.heap
  BY DEF Init
<1>2. PICK O : O = {Object(heap[o].cells) : o \in DOMAIN heap}
  OBVIOUS
<1>3. /\ heap \in Seq(O) /\ regs \in Seq(Parameters(heap))
      /\ \A o \in DOMAIN heap : \E n \in Word : heap[o].cells \in [0 .. n - 1 -> Word]
      /\ \A r, q \in DOMAIN regs : Apart(regs[r], regs[q])
  BY <1>1, <1>2, StartsAssumption
<1>4. \A o \in DOMAIN heap : heap[o] \in O
  BY <1>3, LenProperties, ElementOfSeq
<1>5. PICK R : R = [cells : Contents, version : Nat]
  OBVIOUS
<1>6. ASSUME NEW o \in DOMAIN heap PROVE heap[o] \in R /\ heap[o].version = 0
  <2>1. PICK p \in DOMAIN heap : heap[o] = Object(heap[p].cells)
    BY <1>2, <1>4
  <2>2. PICK n \in Word : heap[p].cells \in [0 .. n - 1 -> Word]
    BY <1>3
  <2>3. heap[p].cells \in Contents
    BY <2>2, WordFacts DEF Contents
  <2>4. heap[o] = [cells |-> heap[p].cells, version |-> 0]
    BY <2>1 DEF Object
  <2> QED BY <1>5, <2>3, <2>4
<1>7. heap \in Seq(R) /\ HeapOK(heap)
  <2>1. heap \in Seq(R)
    BY <1>3, <1>6, SeqRestricts
  <2> QED BY <1>5, <2>1 DEF HeapOK
<1>8. Null \notin DOMAIN heap
  BY <1>7, LenProperties DEF Null
<1>9. ASSUME NEW r \in DOMAIN regs PROVE RegOK(regs[r], heap) /\ NotNewer(regs[r], heap)
  <2>1. regs[r] \in Parameters(heap)
    BY <1>3, LenProperties, ElementOfSeq
  <2> QED BY <1>3, <1>6, <1>8, <2>1, ParameterFacts
<1>10. regs \in Seq({regs[r] : r \in DOMAIN regs})
  <2>1. PICK S : S = {regs[r] : r \in DOMAIN regs}
    OBVIOUS
  <2>2. \A r \in DOMAIN regs : regs[r] \in S
    BY <2>1
  <2>3. regs \in Seq(S)
    BY <1>3, <2>2, SeqRestricts
  <2> QED BY <2>1, <2>3
<1>11. held = TRUE /\ fault \in Faults /\ FaultsAreFlagged /\ FlagsAreReal
  BY DEF Init, Faults, FaultsAreFlagged, FlagsAreReal
<1> QED BY <1>3, <1>7, <1>9, <1>10, <1>11 DEF LoweringInv

LEMMA StutterKeeps ==
  ASSUME LoweringInv, UNCHANGED vars
  PROVE  LoweringInv'
BY DEF LoweringInv, FaultsAreFlagged, FlagsAreReal, Whole, Of, vars

LEMMA StepKeeps ==
  ASSUME LoweringInv, Narrowed, [Next]_vars
  PROVE  LoweringInv'
<1>1. CASE UNCHANGED vars
  BY <1>1, StutterKeeps
<1>2. CASE Constant
  BY <1>2, ConstIntKeeps, ConstBoolKeeps DEF Constant
<1>3. CASE VisitBinop
  BY <1>3, ArithKeeps, DivRemKeeps, BitwiseKeeps, ShiftKeeps, LogicBoolKeeps, FloatArithKeeps, FDivKeeps
  DEF VisitBinop
<1>4. CASE VisitUnaryOp
  BY <1>4, NegKeeps, InvertKeeps, NotBoolKeeps DEF VisitUnaryOp
<1>5. CASE MathCall
  BY <1>5, AbsIntKeeps, MinMaxKeeps, AvgKeeps, FSqrtKeeps, FPowKeeps, FExpKeeps, FAbsKeeps DEF MathCall
<1>6. CASE IToF \/ FToI
  BY <1>6, ConversionsKeep
<1>7. CASE VisitCompare
  BY <1>7, CompareIntKeeps, CompareBoolKeeps, CompareFloatKeeps, CompareStrKeeps DEF VisitCompare
<1>8. CASE VisitSubscript
  BY <1>8, ArrayLoadKeeps, BufferLoadKeeps, ListLoadKeeps, StrIndexKeeps DEF VisitSubscript
<1>9. CASE AssignSubscript
  BY <1>9, ArrayStoreKeeps, BufferStoreKeeps, ListStoreKeeps DEF AssignSubscript
<1>10. CASE VisitSlice
  BY <1>10, ArraySliceKeeps, StrSliceKeeps DEF VisitSlice
<1>11. CASE VisitLen
  BY <1>11, BufferLenKeeps, ListLenKeeps, StrLenKeeps DEF VisitLen
<1>12. CASE ListCreate \/ ListAppend
  BY <1>12, ListCreateKeeps, ListAppendKeeps
<1>13. CASE ConstStr \/ StrConcat
  BY <1>13, ConstStrKeeps, StrConcatKeeps
<1>14. CASE PointerLoad \/ PointerLoadOffset
  <2>1. PICK r \in Of("pointer"), off \in 0 .. 1 : LoadAt(r, off)
    BY <1>14 DEF PointerLoad, PointerLoadOffset
  <2> QED BY <2>1, LoadAtKeeps
<1>15. CASE PointerStore \/ PointerStoreOffset
  <2>1. PICK r \in Of("pointer"), off \in 0 .. 1, u \in Of("int") : PutAt(r, off, u)
    BY <1>15 DEF PointerStore, PointerStoreOffset
  <2> QED BY <2>1, PutAtKeeps
<1>16. CASE Alloc \/ PointerStoreWhole \/ PointerLoadWhole
  BY <1>16, AllocKeeps, PointerStoreWholeKeeps, PointerLoadWholeKeeps
<1> QED BY <1>1, <1>2, <1>3, <1>4, <1>5, <1>6, <1>7, <1>8, <1>9, <1>10, <1>11, <1>12, <1>13, <1>14, <1>15, <1>16
        DEF Next, ScalarNext, MemoryNext

LEMMA TypesHold ==
  ASSUME LoweringInv
  PROVE  TypeOK
<1>1. PICK R : R = [cells : Contents, version : Nat] /\ heap \in Seq(R)
  BY DEF LoweringInv, HeapOK
<1>2. PICK n \in Nat : n = Len(heap) /\ DOMAIN heap = 1 .. n
  BY <1>1, LenProperties
<1>3. ASSUME NEW r \in DOMAIN regs
      PROVE  CASE regs[r].kind = "int" -> regs[r].m \in Word /\ regs[r].s \in Word
               [] regs[r].kind = "bool" -> regs[r].m \in Word /\ regs[r].s \in {0, 1}
               [] regs[r].kind = "float" -> regs[r].m \in Floats \cup {NaN}
               [] regs[r].kind = "str" -> regs[r].m \in Nat /\ regs[r].s \in Word
               [] OTHER -> regs[r].obj \in 0 .. Len(heap)
  <2>1. PICK a : a = regs[r] /\ RegOK(a, heap)
    BY DEF LoweringInv
  <2>2. CASE IntOK(a)
    BY <2>1, <2>2 DEF IntOK
  <2>3. CASE BoolOK(a)
    <3>1. Truths \subseteq Word
      BY WordFacts DEF Truths
    <3> QED BY <2>1, <2>3, <3>1 DEF BoolOK
  <2>4. CASE FloatOK(a)
    BY <2>1, <2>4 DEF FloatOK
  <2>5. CASE StrOK(a)
    <3>1. 0 .. Half - 1 \subseteq Word /\ 0 .. Half - 1 \subseteq Nat
      BY WordFacts
    <3> QED BY <2>1, <2>5, <3>1 DEF StrOK
  <2>6. CASE Reference(a, heap)
    <3>1. a.obj \in DOMAIN heap \cup {Null}
      BY <2>6 DEF Reference, ArrayOK, BufferOK, ListOK, PointerOK
    <3>2. a.obj \in 0 .. Len(heap)
      BY <1>2, <3>1 DEF Null
    <3>3. a.kind \in References
      BY <2>1, <2>6, KindFacts DEF Reference, ArrayOK, BufferOK, ListOK, PointerOK, References
    <3> QED BY <2>1, <3>2, <3>3 DEF References
  <2> QED BY <2>1, <2>2, <2>3, <2>4, <2>5, <2>6 DEF RegOK, Plain
<1>4. ASSUME NEW o \in DOMAIN heap, NEW k \in DOMAIN heap[o].cells PROVE heap[o].cells[k] \in Word
  BY <1>4, HeapFacts
<1> QED BY <1>3, <1>4 DEF TypeOK, LoweringInv

LEMMA RunsCovered ==
  ASSUME LoweringInv
  PROVE  EveryRunCovered
<1>1. ASSUME NEW r \in DOMAIN regs PROVE Agrees(regs[r])
  <2>1. PICK a : a = regs[r] /\ RegOK(a, heap)
    BY DEF LoweringInv
  <2>2. CASE Plain(a)
    BY <2>1, <2>2 DEF Plain, IntOK, BoolOK, FloatOK, StrOK, Agrees
  <2>3. CASE ArrayOK(a, heap)
    <3>1. a.kind = "array" /\ (a.version = heap[a.obj].version => a.view = heap[a.obj].cells)
      BY <2>3 DEF ArrayOK, Fresh
    <3>2. \A i \in 0 .. a.size - 1 : Physical(a, i) = Address(a, i)
      BY <2>3 DEF ArrayOK, Physical, Address
    <3> QED BY <2>1, <3>1, <3>2 DEF Agrees
  <2>4. CASE BufferOK(a, heap)
    BY <2>1, <2>4 DEF BufferOK, Agrees
  <2>5. CASE ListOK(a, heap)
    BY <2>1, <2>5 DEF ListOK, Fresh, Agrees
  <2>6. CASE PointerOK(a, heap)
    BY <2>1, <2>6 DEF PointerOK, Fresh, Agrees
  <2> QED BY <2>1, <2>2, <2>3, <2>4, <2>5, <2>6 DEF RegOK, Reference
<1> QED BY <1>1 DEF EveryRunCovered, LoweringInv

LEMMA InvHolds == Narrowed => (Spec => []LoweringInv)
<1> SUFFICES ASSUME Narrowed PROVE Spec => []LoweringInv
  OBVIOUS
<1>1. Init => LoweringInv
  BY StartsKeep
<1>2. LoweringInv /\ [Next]_vars => LoweringInv'
  BY StepKeeps
<1> QED BY <1>1, <1>2, PTL DEF Spec

\* Of the programs that keep to what the back end and the verifier agree on
\* (every exclusion in force), every value is one of its kind and refers to
\* memory that exists, at any width.
THEOREM TypesCorrect == Narrowed => (Spec => []TypeOK)
<1>1. LoweringInv => TypeOK
  BY TypesHold
<1> QED BY <1>1, InvHolds, PTL

\* The machine code of such a program computes what the formulas of the
\* verifier say of it, value by value: no run escapes the verdict.
THEOREM EveryRunIsCovered == Narrowed => (Spec => []EveryRunCovered)
<1>1. LoweringInv => EveryRunCovered
  BY RunsCovered
<1> QED BY <1>1, InvHolds, PTL

\* No run of such a program that passes the safety checks of the verifier
\* divides by zero, leaves an object, follows a null pointer or traps.
THEOREM NoFaultEscapes == Narrowed => (Spec => []FaultsAreFlagged)
<1>1. LoweringInv => FaultsAreFlagged
  BY DEF LoweringInv
<1> QED BY <1>1, InvHolds, PTL

\* The checks refuse such a program only for what can go wrong in it, but
\* for the checks on a slice.
THEOREM NothingFlaggedInVain == Narrowed => (Spec => []FlagsAreReal)
<1>1. LoweringInv => FlagsAreReal
  BY DEF LoweringInv
<1> QED BY <1>1, InvHolds, PTL
=============================================================================
