-------------------------- MODULE FloatConversions ---------------------------
(***************************************************************************)
(* libgcc2.c: conversions between long long and floating point, none of    *)
(* which the kernel compiles.  SF, DF, XF and TF are float, double and the *)
(* two sizes of long double: numbers of so many significant bits, rounded  *)
(* to nearest and ties to even by every operation.  A number is given in   *)
(* parts of 1 / UNIT; its range of exponents is not bounded.               *)
(*                                                                         *)
(* A definition marked "Deviation" is the definition that follows it with  *)
(* a mistake.                                                              *)
(***************************************************************************)
EXTENDS DoubleWord

CONSTANTS
  SFBits,     \* significant bits of a float (24, SF_SIZE)
  DFBits,     \* of a double (53, DF_SIZE)
  XFBits,     \* of a long double of 96 bits
  TFBits,     \* of a long double of 128 bits
  UNIT_BITS,  \* the parts of 1 that numbers are given in, as a power of 2
  MAX_BITS    \* a bound on the bits of a number

DI_SIZE == 2 * SI_TYPE_SIZE

(* The powers of two. *)
Exp2[n \in 0..MAX_BITS] == IF n = 0 THEN 1 ELSE 2 * Exp2[n - 1]

UNIT == Exp2[UNIT_BITS]

(* A double holds a word and a float, and a long double a double word. *)
ASSUME FloatAssumption ==
  /\ UNIT_BITS \in Nat /\ MAX_BITS \in Nat /\ MAX_BITS > DI_SIZE + UNIT_BITS
  /\ DFBits \in SI_TYPE_SIZE..MAX_BITS /\ SFBits \in 1..DFBits
  /\ XFBits \in Nat /\ XFBits >= DI_SIZE
  /\ TFBits \in Nat /\ TFBits >= DI_SIZE

(* The bits of x, and what its last bit is worth, of `size` of them. *)
Bits(x) ==
  CHOOSE n \in 0..MAX_BITS : Magn(x) < Exp2[n] /\ (n > 0 => Exp2[n - 1] <= Magn(x))

Ulp(x, size) == IF Bits(x) > size THEN Exp2[Bits(x) - size] ELSE 1

(* x to `size` significant bits. *)
Round(x, size) ==
  LET ulp == Ulp(x, size)
      q   == Magn(x) \div ulp
      r   == 2 * (Magn(x) % ulp)
      up  == IF r > ulp \/ (r = ulp /\ q % 2 = 1) THEN 1 ELSE 0
  IN  (IF x < 0 THEN -1 ELSE 1) * (q + up) * ulp

(* The integer part of a number, as C converts it. *)
Integer(a) == IF a < 0 THEN -(Magn(a) \div UNIT) ELSE a \div UNIT

-----------------------------------------------------------------------------
(* The high word is the integer part of a / W; what it leaves of a is      *)
(* converted and added, or subtracted if it is negative.                   *)
fixunsdi(a, size) ==
  LET v    == Pair(Integer(Round(a, size) \div W) % W, 0)
      rest == Round(a - v * UNIT, size)
  IN  IF a < 0 THEN 0
      ELSE IF rest < 0 THEN (v - (Integer(-rest) % W)) % (W * W)
      ELSE (v + (Integer(rest) % W)) % (W * W)

fixunsdfdi(a) == fixunsdi(a, DFBits)
fixunsxfdi(a) == fixunsdi(a, XFBits)
fixunstfdi(a) == fixunsdi(a, TFBits)

(* Deviation: a negative number is converted as it is. *)
fixdfdiUnsigned(a) == fixunsdfdi(a)

fixdfdi(a) == IF a < 0 THEN negdi2(fixunsdfdi(-a)) ELSE fixunsdfdi(a)

fixxfdi(a) == IF a < 0 THEN negdi2(fixunsxfdi(-a)) ELSE fixunsxfdi(a)

fixtfdi(a) == IF a < 0 THEN negdi2(fixunstfdi(-a)) ELSE fixunstfdi(a)

(* A float is converted to double first, which loses no bits. *)
fixunssfdi(a) == fixunsdfdi(a)

fixsfdi(a) == IF a < 0 THEN negdi2(fixunssfdi(-a)) ELSE fixunssfdi(a)

(* To an unsigned word: what does not fit a signed one is moved down by    *)
(* half its range and back up.  (LONG_MIN is -W / 2.)                      *)
fixunsfsi(a, size) ==
  IF a >= (W \div 2) * UNIT
  THEN (Integer(Round(a - (W \div 2) * UNIT, size)) + W \div 2) % W
  ELSE Integer(a) % W

fixunsxfsi(a) == fixunsfsi(a, XFBits)
fixunsdfsi(a) == fixunsfsi(a, DFBits)
fixunssfsi(a) == fixunsfsi(a, SFBits)

-----------------------------------------------------------------------------
(* The high word, which is signed, is scaled in two steps of half a word;  *)
(* the addition of the low word rounds.                                    *)
floatdi(u, size) ==
  LET d == Round(Round(Round(SignedWord(High(u)), size) * B, size) * B, size)
  IN  Round(d + Low(u), size)

floatdidf(u) == floatdi(u, DFBits)
floatdixf(u) == floatdi(u, XFBits)
floatditf(u) == floatdi(u, TFBits)

REP_BIT == Exp2[DI_SIZE - DFBits]

(* Bits below REP_BIT, which might be lost in a double, are represented by *)
(* REP_BIT; but they are still there when the double is rounded.           *)
floatdisf(u) ==
  LET large == ~(-Exp2[DFBits] < Signed(u) /\ Signed(u) < Exp2[DFBits])
      guard == DFBits < DI_SIZE /\ DFBits > DI_SIZE - DFBits + SFBits
      rep   == IF Low(u) % REP_BIT # 0 /\ (u \div REP_BIT) % 2 = 0 THEN u + REP_BIT ELSE u
  IN  Round(floatdidf(IF guard /\ large THEN rep ELSE u), SFBits)
=============================================================================
