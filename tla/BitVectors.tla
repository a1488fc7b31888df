----------------------------- MODULE BitVectors -----------------------------
(***************************************************************************)
(* Words of W bits, as the two consumers of the SSA form compute on them:  *)
(* Bv... are the terms the verifier builds (crates/lirien-verify,          *)
(* z3_backend.rs: SMT-LIB semantics, every operation total) and Cl... are  *)
(* the Cranelift instructions of the back end where they differ.           *)
(*                                                                         *)
(* A word is a number of 0 .. 2^W - 1; the code's widths are 8 to 64.      *)
(***************************************************************************)
EXTENDS Integers, FiniteSets, FiniteSetsExt

CONSTANT W  \* bits of a word

ASSUME WAssumption == W \in Nat \ {0, 1}

Word == 0 .. 2^W - 1
Half == 2^(W - 1)

\* the word of an integer, and the signed integer of a word
ToWord(i) == i % 2^W
Signed(w) == IF w >= Half THEN w - 2^W ELSE w
MinInt == Half  \* the word of the least signed integer

\* does an integer have a word that reads back as it?
Fits(i) == i \in -Half .. Half - 1

Bits(w) == {k \in 0 .. W - 1 : (w \div 2^k) % 2 = 1}
FromBits(S) == MapThenSumSet(LAMBDA k : 2^k, S)

BvAnd(a, b) == FromBits(Bits(a) \cap Bits(b))
BvOr(a, b) == FromBits(Bits(a) \cup Bits(b))
BvXor(a, b) == FromBits((Bits(a) \cup Bits(b)) \ (Bits(a) \cap Bits(b)))
BvNot(a) == 2^W - 1 - a
BvNeg(a) == ToWord(-a)

\* Division rounds to zero; SMT-LIB gives it a value for a zero divisor.
Abs(i) == IF i < 0 THEN -i ELSE i
Trunc(i, j) == IF (i < 0) = (j < 0) THEN Abs(i) \div Abs(j) ELSE -(Abs(i) \div Abs(j))
BvSDiv(a, b) ==
    IF b = 0 THEN (IF Signed(a) < 0 THEN 1 ELSE ToWord(-1))
             ELSE ToWord(Trunc(Signed(a), Signed(b)))
BvSRem(a, b) ==
    IF b = 0 THEN a
             ELSE ToWord(Signed(a) - Signed(b) * Trunc(Signed(a), Signed(b)))

\* A shift by W or more empties the word, or fills it with the sign.
BvShl(a, n) == IF n >= W THEN 0 ELSE ToWord(a * 2^n)
BvAShr(a, n) == ToWord(Signed(a) \div 2^(IF n >= W THEN W ELSE n))

\* The machine takes shift amounts modulo the width, traps on the divisions
\* that have no result, and averages without losing the carry.
ClShl(a, n) == BvShl(a, n % W)
ClAShr(a, n) == BvAShr(a, n % W)
ClDivTraps(a, b) == b = 0 \/ (a = MinInt /\ Signed(b) = -1)
ClRemTraps(a, b) == b = 0
ClAvg(a, b) == (a + b + 1) \div 2
BvAvg(a, b) == ToWord(a + b + 1) \div 2

=============================================================================
