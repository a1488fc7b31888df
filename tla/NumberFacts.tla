---------------------------- MODULE NumberFacts ----------------------------
(***************************************************************************)
(* Sets of numbers have a least and, when bounded, a greatest element: the *)
(* form in which the proofs of this project use induction.  Min and Max    *)
(* are those the models take from FiniteSetsExt.  Behind that, finite sums.*)
(***************************************************************************)
EXTENDS Integers, FiniteSetsExt, Functions, FiniteSetTheorems, WellFoundedInduction, TLAPS

\* From the well-foundedness of strict inclusion between finite sets, for the
\* initial segments that end in the members of T.
LEMMA LeastNatural ==
  ASSUME NEW T, T \subseteq Nat, T # {}
  PROVE  \E m \in T : \A y \in T : m <= y
<1> DEFINE Upto == {1 .. m : m \in T}
           R == StrictSubsetOrdering(Nat)
<1>1. IsWellFoundedOn(R, FiniteSubsetsOf(Nat))
  BY FS_StrictSubsetOrderingWellFounded
<1>2. Upto \subseteq FiniteSubsetsOf(Nat) /\ Upto # {}
  <2>1. \A m \in Nat : IsFiniteSet(1 .. m) /\ 1 .. m \subseteq Nat
    BY FS_Interval
  <2> QED BY <2>1 DEF FiniteSubsetsOf
<1>3. PICK x \in Upto : \A y \in Upto : ~ (<<y, x>> \in R)
  <2> HIDE DEF R, Upto
  <2> QED BY <1>1, <1>2, WFMin
<1>4. PICK m \in T : x = 1 .. m
  OBVIOUS
<1>5. ASSUME NEW y \in T, y < m PROVE FALSE
  <2>1. y \in 1 .. m \/ y = 0
    BY <1>5
  <2>2. 1 .. y \subseteq 1 .. m /\ m \in 1 .. m /\ m \notin 1 .. y
    BY <1>5
  <2>3. <<1 .. y, 1 .. m>> \in R
    BY <2>2, <1>5 DEF StrictSubsetOrdering
  <2> QED BY <1>3, <1>4, <2>3
<1> QED BY <1>4, <1>5

\* Max of a bounded set of numbers is its greatest element.
LEMMA MaxOfBounded ==
  ASSUME NEW S \in SUBSET Nat, S # {}, NEW n \in Nat, \A s \in S : s <= n
  PROVE  Max(S) \in S /\ \A s \in S : s <= Max(S)
<1> DEFINE T == {m \in Nat : \A s \in S : s <= m}
<1>1. PICK m \in T : \A y \in T : m <= y
  BY LeastNatural, n \in T
<1>2. m \in S
  <2>1. ASSUME m \notin S PROVE FALSE
    <3>1. PICK s \in S : s # m
      BY <2>1
    <3>2. m # 0
      BY <3>1
    <3>3. m - 1 \in T
      BY <2>1, <3>2
    <3> QED BY <1>1, <3>3
  <2> QED BY <2>1
<1>3. \E x \in S : \A s \in S : x >= s
  BY <1>1, <1>2
<1> QED BY <1>3 DEF Max

\* Min of a set of numbers is its least element.
LEMMA MinOfNaturals ==
  ASSUME NEW S \in SUBSET Nat, S # {}
  PROVE  Min(S) \in S /\ \A s \in S : Min(S) <= s
<1>1. \E x \in S : \A s \in S : x <= s
  BY LeastNatural
<1> QED BY <1>1 DEF Min

----------------------------------------------------------------------------
(***************************************************************************)
(* What SumFunction of the module Functions computes for a function from a *)
(* finite set to numbers.  Its recursive definition takes some element, by *)
(* CHOOSE, and adds its number to the sum over the rest; two functions of  *)
(* one domain are summed in the same order.                                *)
(***************************************************************************)
\* f has the sums of g over the subsets of K.
Adds(f, g, K) ==
  f = [s \in SUBSET K |-> IF s = {} THEN 0
                          ELSE LET x == CHOOSE x \in s : TRUE IN g[x] + f[s \ {x}]]

\* Of a set of finite sets, some element has no subset one smaller in it.
LEMMA LeastSet ==
  ASSUME NEW K, IsFiniteSet(K), NEW T \in SUBSET SUBSET K, T # {}
  PROVE  \E s \in T : \A x \in s : s \ {x} \notin T
<1> DEFINE R == StrictSubsetOrdering(K)
<1>1. IsWellFoundedOn(R, FiniteSubsetsOf(K)) /\ FiniteSubsetsOf(K) = SUBSET K
  BY FS_StrictSubsetOrderingWellFounded, FS_FiniteSubsetsOfFinite
<1>2. PICK s \in T : \A y \in T : ~ (<<y, s>> \in R)
  <2> HIDE DEF R
  <2> QED BY <1>1, WFMin
<1>3. ASSUME NEW x \in s, s \ {x} \in T PROVE FALSE
  <2>1. <<s \ {x}, s>> \in R
    BY <1>3 DEF StrictSubsetOrdering
  <2> QED BY <1>2, <1>3, <2>1
<1> QED BY <1>3

\* There are such sums: level by level of the number of elements.
LEMMA SumsExist ==
  ASSUME NEW K, IsFiniteSet(K), NEW g \in [K -> Nat]
  PROVE  \E f \in [SUBSET K -> Nat] : Adds(f, g, K)
<1> DEFINE Level(n) == {s \in SUBSET K : Cardinality(s) <= n}
           Next(f, s) == IF s = {} THEN 0
                         ELSE LET x == CHOOSE x \in s : TRUE IN g[x] + f[s \ {x}]
           Good(n) == \E f \in [SUBSET K -> Nat] : \A s \in Level(n) : f[s] = Next(f, s)
           Bad == {n \in Nat : ~ Good(n)}
<1>1. \A s \in SUBSET K : IsFiniteSet(s) /\ Cardinality(s) \in Nat
  BY FS_Subset, FS_CardinalityType
<1>2. Good(0)
  <2> DEFINE z == [s \in SUBSET K |-> 0]
  <2>1. \A s \in Level(0) : s = {}
    BY <1>1, FS_EmptySet
  <2>2. z \in [SUBSET K -> Nat] /\ \A s \in Level(0) : z[s] = Next(z, s)
    BY <2>1
  <2> QED BY <2>2
<1>3. ASSUME NEW n \in Nat, Good(n) PROVE Good(n + 1)
  <2>1. PICK f \in [SUBSET K -> Nat] : \A s \in Level(n) : f[s] = Next(f, s)
    BY <1>3
  <2>2. ASSUME NEW s \in SUBSET K, s # {}
        PROVE  LET x == CHOOSE x \in s : TRUE
               IN  x \in s /\ g[x] \in Nat /\ s \ {x} \in SUBSET K /\ Cardinality(s \ {x}) = Cardinality(s) - 1
    <3> DEFINE x == CHOOSE x \in s : TRUE
    <3>1. x \in s
      BY <2>2
    <3> HIDE DEF x
    <3>2. Cardinality(s \ {x}) = Cardinality(s) - 1
      BY <1>1, <3>1, FS_RemoveElement
    <3>3. g[x] \in Nat /\ s \ {x} \in SUBSET K
      BY <3>1
    <3> QED BY <3>1, <3>2, <3>3 DEF x
  <2>3. \A s \in SUBSET K : Next(f, s) \in Nat
    BY <2>2
  <2> DEFINE h == [s \in SUBSET K |-> Next(f, s)]
  <2>4. h \in [SUBSET K -> Nat]
    BY <2>3
  <2>5. ASSUME NEW s \in Level(n + 1) PROVE h[s] = Next(h, s)
    <3>1. CASE s = {}
      BY <3>1
    <3>2. CASE s # {}
      <4> DEFINE x == CHOOSE x \in s : TRUE
      <4>1. x \in s /\ s \ {x} \in SUBSET K /\ Cardinality(s \ {x}) = Cardinality(s) - 1
        BY <2>2, <3>2
      <4>2. s \ {x} \in Level(n)
        BY <1>1, <4>1
      <4>3. h[s \ {x}] = f[s \ {x}]
        BY <2>1, <4>2
      <4> QED BY <3>2, <4>3
    <3> QED BY <3>1, <3>2
  <2> QED BY <2>4, <2>5
<1>4. Bad = {}
  <2> SUFFICES ASSUME Bad # {} PROVE FALSE
    OBVIOUS
  <2>1. PICK m \in Bad : \A y \in Bad : m <= y
    <3> HIDE DEF Good
    <3> QED BY LeastNatural
  <2>2. m # 0
    <3> HIDE DEF Good
    <3> QED BY <1>2
  <2>3. m - 1 \in Nat /\ (m - 1) + 1 = m
    BY <2>2
  <2>4. Good(m - 1)
    <3> HIDE DEF Good
    <3> QED BY <2>1, <2>3
  <2>5. Good(m)
    <3> HIDE DEF Good
    <3> QED BY <1>3, <2>3, <2>4
  <2> QED BY <2>5
<1>5. Cardinality(K) \in Nat /\ Level(Cardinality(K)) = SUBSET K
  BY <1>1, FS_Subset
<1>6. Good(Cardinality(K))
  <2> HIDE DEF Good
  <2> QED BY <1>4, <1>5
<1>7. PICK f \in [SUBSET K -> Nat] : \A s \in SUBSET K : f[s] = Next(f, s)
  BY <1>5, <1>6
<1>8. f = [s \in SUBSET K |-> Next(f, s)]
  BY <1>7
<1> QED BY <1>8 DEF Adds

\* How the sum over s comes from the sum over one element less.
SumStep(f, g, K, s) ==
  /\ s = {} => f[s] = 0
  /\ s # {} => LET x == CHOOSE x \in s : TRUE
                  IN  x \in s /\ x \in K /\ s \ {x} \in SUBSET K /\ f[s] = g[x] + f[s \ {x}]

\* One step of a sum, without the definition around it.
LEMMA AddsStep ==
  ASSUME NEW K, NEW g \in [K -> Nat], NEW f, Adds(f, g, K), NEW s \in SUBSET K
  PROVE  SumStep(f, g, K, s)
<1>1. s # {} => (CHOOSE x \in s : TRUE) \in s
  OBVIOUS
<1>2. f[s] = IF s = {} THEN 0
             ELSE LET x == CHOOSE x \in s : TRUE IN g[x] + f[s \ {x}]
  BY DEF Adds
<1> QED BY <1>1, <1>2 DEF SumStep

\* The sums of numbers are numbers.
LEMMA AddsType ==
  ASSUME NEW K, IsFiniteSet(K), NEW g \in [K -> Nat], NEW f, Adds(f, g, K)
  PROVE  \A s \in SUBSET K : f[s] \in Nat
<1> DEFINE Bad == {s \in SUBSET K : f[s] \notin Nat}
<1> SUFFICES ASSUME Bad # {} PROVE FALSE
  OBVIOUS
<1>1. PICK s \in Bad : \A x \in s : s \ {x} \notin Bad
  <2>1. Bad \in SUBSET SUBSET K
    OBVIOUS
  <2> HIDE DEF Bad
  <2> QED BY <2>1, LeastSet
<1>2. s \in SUBSET K /\ f[s] \notin Nat
  OBVIOUS
<1>3. \A x \in s : s \ {x} \in SUBSET K => f[s \ {x}] \in Nat
  BY <1>1
<1> HIDE DEF Bad
<1>a. SumStep(f, g, K, s)
  BY <1>2, AddsStep
<1>4. CASE s # {}
  <2>x. PICK x : x = CHOOSE y \in s : TRUE
    OBVIOUS
  <2>1. x \in s /\ x \in K /\ s \ {x} \in SUBSET K /\ f[s] = g[x] + f[s \ {x}]
    BY <1>4, <1>a, <2>x DEF SumStep
  <2>2. f[s \ {x}] \in Nat /\ g[x] \in Nat
    BY <1>3, <2>1
  <2> QED BY <1>2, <2>1, <2>2
<1>5. CASE s = {}
  BY <1>2, <1>5, <1>a DEF SumStep
<1> QED BY <1>4, <1>5

\* Which element is taken first makes no difference.
LEMMA AddsAny ==
  ASSUME NEW K, IsFiniteSet(K), NEW g \in [K -> Nat], NEW f, Adds(f, g, K),
         NEW r \in SUBSET K, NEW j \in r
  PROVE  f[r] = g[j] + f[r \ {j}]
<1> DEFINE Bad == {s \in SUBSET K : \E k \in s : f[s] # g[k] + f[s \ {k}]}
<1> SUFFICES ASSUME Bad # {} PROVE FALSE
  OBVIOUS
<1>1. PICK s \in Bad : \A x \in s : s \ {x} \notin Bad
  <2>1. Bad \in SUBSET SUBSET K
    OBVIOUS
  <2> HIDE DEF Bad
  <2> QED BY <2>1, LeastSet
<1>2. s \in SUBSET K
  OBVIOUS
<1>3. PICK k \in s : f[s] # g[k] + f[s \ {k}]
  OBVIOUS
<1>4. ASSUME NEW y \in s PROVE \A z \in s \ {y} : f[s \ {y}] = g[z] + f[(s \ {y}) \ {z}]
  <2>1. s \ {y} \in SUBSET K /\ s \ {y} \notin Bad
    BY <1>1, <1>2
  <2> QED BY <2>1
<1> HIDE DEF Bad
<1>x. PICK x : x = CHOOSE y \in s : TRUE
  OBVIOUS
<1>5. SumStep(f, g, K, s)
  BY <1>2, AddsStep
<1>6. x \in s /\ f[s] = g[x] + f[s \ {x}]
  BY <1>3, <1>5, <1>x DEF SumStep
<1>7. x # k
  BY <1>3, <1>6
<1>8. PICK t : t = (s \ {x}) \ {k} /\ t = (s \ {k}) \ {x} /\ t \in SUBSET K
  BY <1>2
<1>9. f[s \ {x}] = g[k] + f[t] /\ f[s \ {k}] = g[x] + f[t]
  BY <1>4, <1>6, <1>7, <1>8
<1>10. g[x] \in Nat /\ g[k] \in Nat /\ f[t] \in Nat
  BY <1>2, <1>6, <1>8, AddsType
<1> QED BY <1>3, <1>6, <1>9, <1>10

\* Nor does what else could be summed.
LEMMA AddsAgree ==
  ASSUME NEW K, IsFiniteSet(K), NEW g \in [K -> Nat], NEW f, Adds(f, g, K),
         NEW S \in SUBSET K, NEW h \in [S -> Nat], NEW e, Adds(e, h, S), \A k \in S : h[k] = g[k]
  PROVE  \A s \in SUBSET S : e[s] = f[s]
<1> DEFINE Bad == {s \in SUBSET S : e[s] # f[s]}
<1> SUFFICES ASSUME Bad # {} PROVE FALSE
  OBVIOUS
<1>1. PICK s \in Bad : \A x \in s : s \ {x} \notin Bad
  <2>1. Bad \in SUBSET SUBSET S /\ IsFiniteSet(S)
    BY FS_Subset
  <2> HIDE DEF Bad
  <2> QED BY <2>1, LeastSet
<1>2. s \in SUBSET S /\ s \in SUBSET K /\ e[s] # f[s]
  OBVIOUS
<1>3. \A x \in s : s \ {x} \in SUBSET S => e[s \ {x}] = f[s \ {x}]
  BY <1>1
<1> HIDE DEF Bad
<1>4. SumStep(f, g, K, s)
  BY <1>2, AddsStep
<1>5. SumStep(e, h, S, s)
  BY <1>2, AddsStep
<1>6. CASE s = {}
  BY <1>2, <1>4, <1>5, <1>6 DEF SumStep
<1>7. CASE s # {}
  <2>x. PICK x : x = CHOOSE y \in s : TRUE
    OBVIOUS
  <2>1. x \in s /\ f[s] = g[x] + f[s \ {x}]
    BY <1>4, <1>7, <2>x DEF SumStep
  <2>2. x \in S /\ s \ {x} \in SUBSET S /\ e[s] = h[x] + e[s \ {x}]
    BY <1>5, <1>7, <2>x DEF SumStep
  <2>3. e[s \ {x}] = f[s \ {x}] /\ h[x] = g[x]
    BY <1>3, <2>1, <2>2
  <2> QED BY <1>2, <2>1, <2>2, <2>3
<1> QED BY <1>6, <1>7

\* The sum of a function is what its sums over subsets have for all of them.
LEMMA SumOf ==
  ASSUME NEW K, IsFiniteSet(K), NEW g \in [K -> Nat]
  PROVE  \E f : Adds(f, g, K) /\ SumFunction(g) = f[K] /\ f[K] \in Nat
<1> DEFINE it == CHOOSE f : Adds(f, g, K)
<1>1. Adds(it, g, K)
  BY SumsExist
<1>2. SumFunction(g) = it[K]
  BY DEF SumFunction, SumFunctionOnSet, FoldFunctionOnSet, MapThenFoldSet, Adds
<1>3. it[K] \in Nat
  <2> HIDE DEF it
  <2> QED BY <1>1, AddsType
<1> QED BY <1>1, <1>2, <1>3

\* A sum of numbers is a number.
LEMMA SumType ==
  ASSUME NEW K, IsFiniteSet(K), NEW g \in [K -> Nat]
  PROVE  SumFunction(g) \in Nat
BY SumOf

\* A sum is 0 if all its terms are.
LEMMA SumOfZeros ==
  ASSUME NEW K, IsFiniteSet(K), NEW g \in [K -> Nat], \A k \in K : g[k] = 0
  PROVE  SumFunction(g) = 0
<1>1. PICK f : Adds(f, g, K) /\ SumFunction(g) = f[K]
  BY SumOf
<1> DEFINE Bad == {s \in SUBSET K : f[s] # 0}
<1>2. Bad = {}
  <2> SUFFICES ASSUME Bad # {} PROVE FALSE
    OBVIOUS
  <2>1. PICK s \in Bad : \A x \in s : s \ {x} \notin Bad
    <3>1. Bad \in SUBSET SUBSET K
      OBVIOUS
    <3> HIDE DEF Bad
    <3> QED BY <3>1, LeastSet
  <2>2. s \in SUBSET K /\ f[s] # 0
    OBVIOUS
  <2>3. \A x \in s : s \ {x} \in SUBSET K => f[s \ {x}] = 0
    BY <2>1
  <2> HIDE DEF Bad
  <2>a. SumStep(f, g, K, s)
    BY <1>1, <2>2, AddsStep
  <2>4. CASE s # {}
    <3>x. PICK x : x = CHOOSE y \in s : TRUE
      OBVIOUS
    <3>1. x \in s /\ x \in K /\ s \ {x} \in SUBSET K /\ f[s] = g[x] + f[s \ {x}]
      BY <2>4, <2>a, <3>x DEF SumStep
    <3>2. f[s \ {x}] = 0 /\ g[x] = 0
      BY <2>3, <3>1
    <3> QED BY <2>2, <3>1, <3>2
  <2>5. CASE s = {}
    BY <2>2, <2>5, <2>a DEF SumStep
  <2> QED BY <2>4, <2>5
<1> QED BY <1>1, <1>2

\* A sum grows with its terms.
LEMMA SumGrows ==
  ASSUME NEW K, IsFiniteSet(K), NEW g \in [K -> Nat], NEW h \in [K -> Nat],
         \A k \in K : g[k] <= h[k]
  PROVE  SumFunction(g) <= SumFunction(h)
<1>1. PICK f : Adds(f, g, K) /\ SumFunction(g) = f[K]
  BY SumOf
<1>2. PICK e : Adds(e, h, K) /\ SumFunction(h) = e[K]
  BY SumOf
<1>3. \A s \in SUBSET K : f[s] \in Nat /\ e[s] \in Nat
  BY <1>1, <1>2, AddsType
<1> DEFINE Bad == {s \in SUBSET K : ~ (f[s] <= e[s])}
<1>4. Bad = {}
  <2> SUFFICES ASSUME Bad # {} PROVE FALSE
    OBVIOUS
  <2>1. PICK s \in Bad : \A x \in s : s \ {x} \notin Bad
    <3>1. Bad \in SUBSET SUBSET K
      OBVIOUS
    <3> HIDE DEF Bad
    <3> QED BY <3>1, LeastSet
  <2>2. s \in SUBSET K /\ ~ (f[s] <= e[s])
    OBVIOUS
  <2>3. \A x \in s : s \ {x} \in SUBSET K => f[s \ {x}] <= e[s \ {x}]
    BY <2>1
  <2> HIDE DEF Bad
  <2>a. SumStep(f, g, K, s)
    BY <1>1, <2>2, AddsStep
  <2>b. SumStep(e, h, K, s)
    BY <1>2, <2>2, AddsStep
  <2>4. CASE s = {}
    <3>1. f[s] = 0 /\ e[s] = 0
      BY <2>4, <2>a, <2>b DEF SumStep
    <3> QED BY <2>2, <3>1
  <2>5. CASE s # {}
    <3>x. PICK x : x = CHOOSE y \in s : TRUE
      OBVIOUS
    <3>1. x \in s /\ x \in K /\ s \ {x} \in SUBSET K /\ f[s] = g[x] + f[s \ {x}]
      BY <2>2, <2>5, <2>a, <3>x DEF SumStep
    <3>2. e[s] = h[x] + e[s \ {x}]
      BY <2>2, <2>5, <2>b, <3>x DEF SumStep
    <3>r. PICK r \in SUBSET K : r = s \ {x}
      BY <3>1
    <3>3. /\ f[r] <= e[r] /\ g[x] <= h[x] /\ g[x] \in Nat /\ h[x] \in Nat
          /\ f[r] \in Nat /\ e[r] \in Nat
      BY <1>3, <2>3, <3>1, <3>r
    <3>4. f[s] = g[x] + f[r] /\ e[s] = h[x] + e[r]
      BY <3>1, <3>2, <3>r
    <3> QED BY <2>2, <3>3, <3>4
  <2> QED BY <2>4, <2>5
<1> QED BY <1>1, <1>2, <1>4

\* h is g with the term of k dropped.
Drops(g, k, h) == h = [g EXCEPT ![k] = 0]

\* A term that is dropped is missing from the sum.
LEMMA SumWithout ==
  ASSUME NEW K, IsFiniteSet(K), NEW g \in [K -> Nat], NEW h \in [K -> Nat], NEW k \in K,
         Drops(g, k, h)
  PROVE  SumFunction(h) + g[k] = SumFunction(g)
<1> USE DEF Drops
<1>1. PICK f : Adds(f, g, K) /\ SumFunction(g) = f[K]
  BY SumOf
<1>2. PICK e : Adds(e, h, K) /\ SumFunction(h) = e[K]
  BY SumOf
<1>3. \A s \in SUBSET K : f[s] \in Nat /\ e[s] \in Nat
  BY <1>1, <1>2, AddsType
<1>t. PICK Term \in [SUBSET K -> Nat] : Term = [s \in SUBSET K |-> IF k \in s THEN g[k] ELSE 0]
  OBVIOUS
<1> DEFINE Bad == {s \in SUBSET K : e[s] + Term[s] # f[s]}
<1>4. Bad = {}
  <2> SUFFICES ASSUME Bad # {} PROVE FALSE
    OBVIOUS
  <2>1. PICK s \in Bad : \A x \in s : s \ {x} \notin Bad
    <3>1. Bad \in SUBSET SUBSET K
      OBVIOUS
    <3> HIDE DEF Bad
    <3> QED BY <3>1, LeastSet
  <2>2. s \in SUBSET K /\ e[s] + Term[s] # f[s]
    OBVIOUS
  <2>3. \A x \in s : s \ {x} \in SUBSET K => e[s \ {x}] + Term[s \ {x}] = f[s \ {x}]
    BY <2>1
  <2> HIDE DEF Bad
  <2>a. SumStep(f, g, K, s)
    BY <1>1, <2>2, AddsStep
  <2>b. SumStep(e, h, K, s)
    BY <1>2, <2>2, AddsStep
  <2>4. CASE s = {}
    <3>1. f[s] = 0 /\ e[s] = 0
      BY <2>4, <2>a, <2>b DEF SumStep
    <3>2. Term[s] = 0
      BY <1>t, <2>2, <2>4
    <3> QED BY <2>2, <3>1, <3>2
  <2>5. CASE s # {}
    <3>x. PICK x : x = CHOOSE y \in s : TRUE
      OBVIOUS
    <3>1. x \in s /\ x \in K /\ s \ {x} \in SUBSET K /\ f[s] = g[x] + f[s \ {x}]
      BY <2>2, <2>5, <2>a, <3>x DEF SumStep
    <3>2. e[s] = h[x] + e[s \ {x}]
      BY <2>2, <2>5, <2>b, <3>x DEF SumStep
    <3>r. PICK r \in SUBSET K : r = s \ {x}
      BY <3>1
    <3>3. /\ e[r] + Term[r] = f[r] /\ g[x] \in Nat /\ h[x] \in Nat
          /\ f[r] \in Nat /\ e[r] \in Nat /\ Term[r] \in Nat
      BY <1>3, <2>3, <3>1, <3>r
    <3>4. h[x] + Term[s] = g[x] + Term[r]
      <4>1. CASE x = k
        <5>1. h[x] = 0 /\ Term[s] = g[k] /\ Term[r] = 0
          BY <1>t, <2>2, <3>1, <3>r, <4>1
        <5> QED BY <3>3, <4>1, <5>1
      <4>2. CASE x # k
        <5>1. h[x] = g[x] /\ Term[s] = Term[r]
          BY <1>t, <2>2, <3>1, <3>r, <4>2
        <5> QED BY <5>1
      <4> QED BY <4>1, <4>2
    <3>5. Term[s] \in Nat /\ f[s] = g[x] + f[r] /\ e[s] = h[x] + e[r]
      BY <1>t, <2>2, <3>1, <3>2, <3>r
    <3>6. e[s] + Term[s] = f[s]
      BY <3>3, <3>4, <3>5
    <3> QED BY <2>2, <3>6
  <2> QED BY <2>4, <2>5
<1>5. Term[K] = g[k]
  BY <1>t
<1> QED BY <1>1, <1>2, <1>4, <1>5

----------------------------------------------------------------------------
(***************************************************************************)
(* Powers of two, as the numbers of subsets; and remainders.               *)
(***************************************************************************)
LEMMA PowerFacts ==
  ASSUME NEW n \in Nat
  PROVE  2^n \in Nat /\ 2^n > 0 /\ (n > 0 => 2^n > 1)
<1>1. IsFiniteSet(1 .. n) /\ Cardinality(1 .. n) = n
  BY FS_Interval
<1>2. IsFiniteSet(SUBSET (1 .. n)) /\ Cardinality(SUBSET (1 .. n)) = 2^n
  BY <1>1, FS_SUBSET
<1>3. 2^n \in Nat /\ 2^n # 0
  <2>1. Cardinality(SUBSET (1 .. n)) \in Nat
    BY <1>2, FS_CardinalityType
  <2>2. SUBSET (1 .. n) # {}
    OBVIOUS
  <2>3. Cardinality(SUBSET (1 .. n)) # 0
    BY <1>2, <2>2, FS_EmptySet
  <2> QED BY <1>2, <2>1, <2>3
<1>4. ASSUME n > 0 PROVE 2^n # 1
  <2>1. {} \in SUBSET (1 .. n) /\ {1} \in SUBSET (1 .. n) /\ {} # {1}
    <3>1. 1 \in 1 .. n
      BY <1>4
    <3> QED BY <3>1
  <2>2. ASSUME NEW x, SUBSET (1 .. n) = {x} PROVE FALSE
    <3>1. {} \in {x} /\ {1} \in {x}
      BY <2>1, <2>2
    <3> QED BY <2>1, <3>1
  <2>3. Cardinality(SUBSET (1 .. n)) # 1
    BY <1>2, <2>2, FS_Singleton
  <2> QED BY <1>2, <2>3
<1> QED BY <1>3, <1>4

\* One element more doubles the subsets.
LEMMA PowerStep ==
  ASSUME NEW n \in Nat
  PROVE  2^(n + 1) = 2 * 2^n
<1> DEFINE A == SUBSET (1 .. n)
           B == {s \cup {n + 1} : s \in A}
<1>1. IsFiniteSet(1 .. n) /\ Cardinality(1 .. n) = n /\ IsFiniteSet(1 .. n + 1) /\ Cardinality(1 .. n + 1) = n + 1
  BY FS_Interval
<1>2. IsFiniteSet(A) /\ Cardinality(A) = 2^n /\ Cardinality(SUBSET (1 .. n + 1)) = 2^(n + 1)
  BY <1>1, FS_SUBSET
<1>3. n + 1 \notin 1 .. n /\ 1 .. n + 1 = (1 .. n) \cup {n + 1}
  OBVIOUS
<1>4. SUBSET (1 .. n + 1) = A \cup B
  <2>1. ASSUME NEW s \in SUBSET (1 .. n + 1), n + 1 \in s PROVE s \in B
    <3>1. s \ {n + 1} \in A /\ s = (s \ {n + 1}) \cup {n + 1}
      BY <1>3, <2>1
    <3> QED BY <3>1
  <2>2. ASSUME NEW s \in SUBSET (1 .. n + 1), n + 1 \notin s PROVE s \in A
    BY <1>3, <2>2
  <2>3. A \subseteq SUBSET (1 .. n + 1) /\ B \subseteq SUBSET (1 .. n + 1)
    BY <1>3
  <2> QED BY <2>1, <2>2, <2>3
<1>5. A \cap B = {}
  BY <1>3
<1>6. ExistsBijection(A, B)
  <2> DEFINE f == [s \in A |-> s \cup {n + 1}]
  <2>1. \A s, t \in A : s \cup {n + 1} = t \cup {n + 1} => s = t
    BY <1>3
  <2>a. f \in [A -> B]
    OBVIOUS
  <2>b. \A s, t \in A : f[s] = f[t] => s = t
    BY <2>1
  <2>c. DOMAIN f = A
    OBVIOUS
  <2>2. f \in [A -> B] /\ IsInjective(f)
    <3> HIDE DEF f, A, B
    <3> QED BY <2>a, <2>b, <2>c DEF IsInjective
  <2>3. \A t \in B : \E s \in A : f[s] = t
    OBVIOUS
  <2> HIDE DEF f, A, B
  <2>4. f \in Bijection(A, B)
    BY <2>2, <2>3 DEF Bijection, Injection, Surjection
  <2> QED BY <2>4 DEF ExistsBijection
<1>7. IsFiniteSet(B) /\ Cardinality(B) = 2^n
  <2> HIDE DEF A, B
  <2> QED BY <1>2, <1>6, FS_Bijection
<1>8. PICK q \in Nat : q = 2^n
  BY PowerFacts
<1> HIDE DEF A, B
<1>9. Cardinality(A \cup B) = Cardinality(A) + Cardinality(B) - Cardinality(A \cap B)
  BY <1>2, <1>7, FS_Union
<1>10. Cardinality(A) = q /\ Cardinality(B) = q /\ Cardinality(A \cap B) = 0
  BY <1>2, <1>5, <1>7, <1>8, FS_EmptySet
<1>11. Cardinality(A \cup B) = 2 * q
  BY <1>9, <1>10
<1>12. 2^(n + 1) = Cardinality(A \cup B)
  BY <1>2, <1>4
<1> QED BY <1>8, <1>11, <1>12

LEMMA PowerZero == 2^0 = 1
<1>1. SUBSET {} = {{}} /\ IsFiniteSet({}) /\ Cardinality({}) = 0
  BY FS_EmptySet
<1>2. Cardinality(SUBSET {}) = 2^Cardinality({})
  BY <1>1, FS_SUBSET
<1>3. Cardinality({{}}) = 1
  BY FS_Singleton
<1> QED BY <1>1, <1>2, <1>3

\* One less than a power of two has every bit below set.
LEMMA PowerBits ==
  ASSUME NEW k \in Nat, NEW n \in Nat, k < n
  PROVE  ((2^n - 1) \div 2^k) % 2 = 1
<1>p. PICK p \in Nat : p = 2^k /\ p > 0
  BY PowerFacts
<1> DEFINE Bad == {m \in Nat : k < m /\ ~ \E q \in Nat : 2^m = p * (2 * q + 1) + p}
<1>1. Bad = {}
  <2> SUFFICES ASSUME Bad # {} PROVE FALSE
    OBVIOUS
  <2>1. PICK m \in Bad : \A y \in Bad : m <= y
    <3>1. Bad \subseteq Nat
      OBVIOUS
    <3> HIDE DEF Bad
    <3> QED BY <3>1, LeastNatural
  <2>2. m \in Nat /\ k < m /\ ~ \E q \in Nat : 2^m = p * (2 * q + 1) + p
    OBVIOUS
  <2>3. PICK j \in Nat : m = j + 1
    BY <2>2
  <2>4. 2^m = 2 * 2^j
    BY <2>3, PowerStep
  <2>5. CASE j = k
    <3>1. 2^m = p * (2 * 0 + 1) + p
      BY <1>p, <2>4, <2>5
    <3> QED BY <2>2, <3>1
  <2>6. CASE j # k
    <3>1. k < j /\ j < m
      BY <2>2, <2>3, <2>6
    <3>2. PICK q \in Nat : 2^j = p * (2 * q + 1) + p
      BY <2>1, <3>1
    <3>3. p * (2 * (2 * q + 1) + 1) = 2 * (p * (2 * q + 1)) + p
      OBVIOUS
    <3>4. PICK x \in Nat : x = p * (2 * q + 1)
      OBVIOUS
    <3>5. 2^m = p * (2 * (2 * q + 1) + 1) + p /\ 2 * q + 1 \in Nat
      BY <2>4, <3>2, <3>3, <3>4
    <3> QED BY <2>2, <3>5
  <2> QED BY <2>5, <2>6
<1>2. PICK q \in Nat : 2^n = p * (2 * q + 1) + p
  BY <1>1
<1> HIDE DEF Bad
<1>3. PICK r \in Nat : r = 2 * q + 1
  OBVIOUS
<1>4. 2^n - 1 = p * r + (p - 1) /\ p - 1 \in 0 .. p - 1
  BY <1>p, <1>2, <1>3
<1>5. (2^n - 1) \div p = r
  <2>1. PICK y \in Nat : y = p * r
    OBVIOUS
  <2>2. PICK i \in Int : i = 2^n - 1 /\ i = p * r + (p - 1)
    BY <1>4, <2>1, <1>p
  <2>3. i \div p = r
    BY <1>p, <1>4, <2>2
  <2> QED BY <2>2, <2>3
<1> QED BY <1>p, <1>3, <1>5
=============================================================================
