------------------------------ MODULE LongLong ------------------------------
(***************************************************************************)
(* longlong.h: arithmetic on pairs of machine words, from operations on    *)
(* single words.  A word is a number below W = 2^SI_TYPE_SIZE; B is the    *)
(* base of its two halves (__ll_B).  The macros assign to their first      *)
(* arguments; the operators return what is assigned, as a record.          *)
(*                                                                         *)
(* The simulated MIPS has an instruction for umul_ppmm and for nothing     *)
(* else; the remaining macros are the generic ones at the end of the file, *)
(* and the division is the one that needs a normalised divisor.            *)
(*                                                                         *)
(* A definition marked "Deviation" is the definition that follows it with  *)
(* a mistake.                                                              *)
(***************************************************************************)
EXTENDS Integers

CONSTANTS
  SI_TYPE_SIZE,   \* the bits of a word (32)
  B               \* the base of half words (2^16)

W == B * B

(* The powers of two that shifts by up to two words multiply with. *)
TwoTo[n \in 0..2 * SI_TYPE_SIZE] == IF n = 0 THEN 1 ELSE 2 * TwoTo[n - 1]

ASSUME WordAssumption ==
  /\ SI_TYPE_SIZE \in Nat
  /\ B \in Nat \ {0}
  /\ B % 2 = 0
  /\ W = TwoTo[SI_TYPE_SIZE]

Word == 0..(W - 1)

LowPart(x)  == x % B
HighPart(x) == x \div B

ShiftLeft(x, n)  == (x * TwoTo[n]) % W
ShiftRight(x, n) == x \div TwoTo[n]

-----------------------------------------------------------------------------
(* The carry of the low word is seen by the sum being too small. *)
add_ssaaaa(ah, al, bh, bl) ==
  LET x == (al + bl) % W
  IN  [h |-> (ah + bh + (IF x < al THEN 1 ELSE 0)) % W, l |-> x]

sub_ddmmss(ah, al, bh, bl) ==
  LET x == (al - bl) % W
  IN  [h |-> (ah - bh - (IF x > al THEN 1 ELSE 0)) % W, l |-> x]

(* The instruction multu. *)
umul_ppmm(u, v) == [h |-> (u * v) \div W, l |-> (u * v) % W]

(* Deviation: one correction of the estimated digit instead of two. *)
QuotientDigitOnce(n, digit, d) ==
  LET m == ((n \div HighPart(d)) * LowPart(d)) % W
      r == ((n % HighPart(d)) * B + digit) % W
  IN  IF r < m
      THEN [q |-> (n \div HighPart(d)) - 1, r |-> (r + d - m) % W]
      ELSE [q |-> n \div HighPart(d), r |-> r - m]

(* One of the two halves of __udiv_qrnnd_c: the next half-word digit of    *)
(* the quotient, and the remainder.  The digit is estimated from the high  *)
(* half of the divisor and corrected at most twice; r + d wraps around     *)
(* when the first correction suffices (the test r >= d).                   *)
QuotientDigit(n, digit, d) ==
  LET q  == n \div HighPart(d)
      m  == (q * LowPart(d)) % W
      r  == ((n % HighPart(d)) * B + digit) % W
      r1 == (r + d) % W
      r2 == (r1 + d) % W
  IN  IF r >= m THEN [q |-> q, r |-> r - m]
      ELSE IF r1 >= d /\ r1 < m THEN [q |-> q - 1 - 1, r |-> (r2 - m) % W]
      ELSE [q |-> q - 1, r |-> (r1 - m) % W]

(* (n1, n0) / d, for n1 < d and a d whose most significant bit is 1. *)
udiv_qrnnd(n1, n0, d) ==
  LET high == QuotientDigit(n1, HighPart(n0), d)
      low  == QuotientDigit(high.r, LowPart(n0), d)
  IN  [q |-> (high.q * B + low.q) % W, r |-> low.r]

(* __clz_tab: the number of bits of a small word. *)
clz_tab(x) == CHOOSE n \in 0..SI_TYPE_SIZE : x < TwoTo[n] /\ (n > 0 => TwoTo[n - 1] <= x)

BITS4 == SI_TYPE_SIZE \div 4

(* The quarter of the word in which the highest 1 is, and the table within *)
(* that quarter.                                                           *)
count_leading_zeros(x) ==
  LET a == IF x < TwoTo[2 * BITS4]
           THEN IF x < TwoTo[BITS4] THEN 0 ELSE BITS4
           ELSE IF x < TwoTo[3 * BITS4] THEN 2 * BITS4 ELSE 3 * BITS4
  IN  SI_TYPE_SIZE - (clz_tab(ShiftRight(x, a)) + a)
=============================================================================
