----------------------------- MODULE DoubleWord -----------------------------
(***************************************************************************)
(* libgcc2.c: what a 32-bit machine calls for arithmetic on long long.     *)
(* printl() divides with it.                                               *)
(*                                                                         *)
(* A double word is a number below W * W, also where the C type is signed: *)
(* Signed gives its value.  (DIunion, with the low word first, is the pair *)
(* <<Low, High>>.)  The kernel compiles the four divisions and what they   *)
(* use, "for signed 64 bit division" and so on (L_divdi3, L_moddi3,        *)
(* L_umoddi3, L_udivdi3); the shifts, the product and the comparisons are  *)
(* in the same file for whoever defines their names.                       *)
(*                                                                         *)
(* A definition marked "Deviation" is the definition that follows it with  *)
(* a mistake.                                                              *)
(***************************************************************************)
EXTENDS LongLong

DWord == 0..(W * W - 1)

High(x)    == x \div W
Low(x)     == x % W
Pair(h, l) == h * W + l

Signed(x)     == IF High(x) >= W \div 2 THEN x - W * W ELSE x
SignedWord(x) == IF x >= W \div 2 THEN x - W ELSE x

Magn(x) == IF x < 0 THEN -x ELSE x

Negative(x) == SignedWord(High(x)) < 0

negdi2(u) ==
  LET low == (-Low(u)) % W
  IN  Pair((-High(u) - (IF low > 0 THEN 1 ELSE 0)) % W, low)

-----------------------------------------------------------------------------
(* __udivmoddi4: quotient and remainder.  Both operands are shifted left   *)
(* until the divisor is normalised, and the remainder is shifted back.     *)

(* The words of a dividend shifted left by bm, for 0 < bm < SI_TYPE_SIZE. *)
Normalized(n, bm) ==
  [n2 |-> ShiftRight(High(n), SI_TYPE_SIZE - bm),
   n1 |-> ShiftLeft(High(n), bm) + ShiftRight(Low(n), SI_TYPE_SIZE - bm),
   n0 |-> ShiftLeft(Low(n), bm)]

(* 0q = nn / 0d: the divisor is one word and the quotient too. *)
DivideToWord(n, d) ==
  LET bm == count_leading_zeros(d)
      m  == Normalized(n, bm)
      q0 == IF bm = 0 THEN udiv_qrnnd(High(n), Low(n), d)
                      ELSE udiv_qrnnd(m.n1, m.n0, ShiftLeft(d, bm))
  IN  [q |-> q0.q, r |-> ShiftRight(q0.r, bm)]

(* qq = nn / 0d: the divisor is one word, the quotient two. *)
DivideByWord(n, d) ==
  LET bm == count_leading_zeros(d)
      m  == Normalized(n, bm)
      q1 == IF bm = 0 THEN [q |-> 1, r |-> High(n) - d]
                      ELSE udiv_qrnnd(m.n2, m.n1, ShiftLeft(d, bm))
      q0 == udiv_qrnnd(q1.r, m.n0, ShiftLeft(d, bm))
  IN  [q |-> Pair(q1.q, q0.q), r |-> ShiftRight(q0.r, bm)]

(* 0q = nn / dd for a normalised divisor: the quotient is 0 or 1. *)
SubtractOnce(n, d) ==
  LET r == sub_ddmmss(High(n), Low(n), High(d), Low(d))
  IN  IF High(n) > High(d) \/ Low(n) >= Low(d)
      THEN [q |-> 1, r |-> Pair(r.h, r.l)]
      ELSE [q |-> 0, r |-> n]

(* Deviation: the digit estimated from the high words is not corrected. *)
DivideEstimating(n, d) ==
  LET bm == count_leading_zeros(High(d))
      b  == SI_TYPE_SIZE - bm
      m  == Normalized(n, bm)
      d1 == ShiftLeft(High(d), bm) + ShiftRight(Low(d), b)
      e  == udiv_qrnnd(m.n2, m.n1, d1)
      p  == umul_ppmm(e.q, ShiftLeft(Low(d), bm))
      r  == sub_ddmmss(e.r, m.n0, p.h, p.l)
  IN  [q |-> e.q, r |-> Pair(ShiftRight(r.h, bm), ShiftLeft(r.h, b) + ShiftRight(r.l, bm))]

(* 0q = nn / dd: the quotient of the high words is right or one too large; *)
(* its product with the low word of the divisor decides.                   *)
DivideByHigh(n, d) ==
  LET bm == count_leading_zeros(High(d))
      b  == SI_TYPE_SIZE - bm
      m  == Normalized(n, bm)
      d1 == ShiftLeft(High(d), bm) + ShiftRight(Low(d), b)
      d0 == ShiftLeft(Low(d), bm)
      e  == udiv_qrnnd(m.n2, m.n1, d1)
      p  == umul_ppmm(e.q, d0)
      Rest(q, t) ==
        LET r == sub_ddmmss(e.r, m.n0, t.h, t.l)
        IN  [q |-> q,
             r |-> Pair(ShiftRight(r.h, bm), ShiftLeft(r.h, b) + ShiftRight(r.l, bm))]
  IN  IF p.h > e.r \/ (p.h = e.r /\ p.l > m.n0)
      THEN Rest(e.q - 1, sub_ddmmss(p.h, p.l, d1, d0))
      ELSE Rest(e.q, p)

Trap == [q |-> -1, r |-> -1]

(* A divisor of 0 divides by zero "intentionally": the processor traps.    *)
udivmoddi4(n, d) ==
  IF High(d) = 0
  THEN IF Low(d) > High(n) THEN DivideToWord(n, Low(d))
       ELSE IF Low(d) = 0 THEN Trap
       ELSE DivideByWord(n, Low(d))
  ELSE IF High(d) > High(n) THEN [q |-> 0, r |-> n]
       ELSE IF count_leading_zeros(High(d)) = 0 THEN SubtractOnce(n, d)
       ELSE DivideByHigh(n, d)

udivdi3(n, d) == udivmoddi4(n, d).q

umoddi3(n, d) == udivmoddi4(n, d).r

Magnitude(x) == IF Negative(x) THEN negdi2(x) ELSE x

divdi3(u, v) ==
  LET w == udivmoddi4(Magnitude(u), Magnitude(v)).q
  IN  IF Negative(u) # Negative(v) THEN negdi2(w) ELSE w

(* Deviation: the remainder has the sign of the quotient. *)
RemainderLikeQuotient(u, v) ==
  LET w == udivmoddi4(Magnitude(u), Magnitude(v)).r
  IN  IF Negative(u) # Negative(v) THEN negdi2(w) ELSE w

moddi3(u, v) ==
  LET w == udivmoddi4(Magnitude(u), Magnitude(v)).r
  IN  IF Negative(u) THEN negdi2(w) ELSE w
=============================================================================
