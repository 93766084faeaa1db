------------------------- MODULE DoubleWordLibrary --------------------------
(***************************************************************************)
(* The integer routines of libgcc2.c and longlong.h that the kernel does   *)
(* not compile: a kernel that shifts, multiplies or compares long long, or *)
(* a machine without multu, would define their names.                      *)
(***************************************************************************)
EXTENDS DoubleWord

(* Deviation: the carry of the two middle products is lost. *)
MultiplyWithoutCarry(u, v) ==
  LET x1 == (LowPart(u) * HighPart(v) + HighPart(LowPart(u) * LowPart(v))
             + HighPart(u) * LowPart(v)) % W
  IN  [h |-> HighPart(u) * HighPart(v) + HighPart(x1),
       l |-> LowPart(x1) * B + LowPart(LowPart(u) * LowPart(v))]

(* umul_ppmm from products of half words. *)
umul_ppmm_c(u, v) ==
  LET x0 == LowPart(u) * LowPart(v)
      x2 == HighPart(u) * LowPart(v)
      x1 == (LowPart(u) * HighPart(v) + HighPart(x0) + x2) % W
      x3 == HighPart(u) * HighPart(v) + (IF x1 < x2 THEN B ELSE 0)
  IN  [h |-> (x3 + HighPart(x1)) % W, l |-> (LowPart(x1) * B + LowPart(x0)) % W]

umulsidi3(u, v) == LET p == umul_ppmm_c(u, v) IN Pair(p.h, p.l)

(* The product of the high words is lost. *)
muldi3(u, v) ==
  LET w == umulsidi3(Low(u), Low(v))
  IN  Pair((High(w) + Low(u) * High(v) + High(u) * Low(v)) % W, Low(w))

(* Bits that cross from one word to the other are its carries; a count of  *)
(* a whole word or more (bm <= 0) moves the other word.                    *)
lshrdi3(u, b) ==
  LET bm == SI_TYPE_SIZE - b
  IN  IF b = 0 THEN u
      ELSE IF bm <= 0 THEN ShiftRight(High(u), -bm)
      ELSE Pair(ShiftRight(High(u), b), ShiftRight(Low(u), b) + ShiftLeft(High(u), bm))

ashldi3(u, b) ==
  LET bm == SI_TYPE_SIZE - b
  IN  IF b = 0 THEN u
      ELSE IF bm <= 0 THEN Pair(ShiftLeft(Low(u), -bm), 0)
      ELSE Pair(ShiftLeft(High(u), b) + ShiftRight(Low(u), bm), ShiftLeft(Low(u), b))

(* A signed word shifted right, its sign repeated. *)
ShiftArithmetic(x, n) == (SignedWord(x) \div TwoTo[n]) % W

(* Deviation: the low word is filled with zeros when the high word moves   *)
(* into it.                                                                *)
ShiftWithoutSign(u, b) ==
  LET bm == SI_TYPE_SIZE - b
  IN  IF b = 0 THEN u
      ELSE IF bm <= 0
      THEN Pair(ShiftArithmetic(High(u), SI_TYPE_SIZE - 1), ShiftRight(High(u), -bm))
      ELSE Pair(ShiftArithmetic(High(u), b), ShiftRight(Low(u), b) + ShiftLeft(High(u), bm))

ashrdi3(u, b) ==
  LET bm == SI_TYPE_SIZE - b
  IN  IF b = 0 THEN u
      ELSE IF bm <= 0
      THEN Pair(ShiftArithmetic(High(u), SI_TYPE_SIZE - 1), ShiftArithmetic(High(u), -bm))
      ELSE Pair(ShiftArithmetic(High(u), b), ShiftRight(Low(u), b) + ShiftLeft(High(u), bm))

(* ffs(): the place of the lowest 1, from 1 on; 0 if there is none. *)
ffs(x) ==
  IF x = 0 THEN 0 ELSE CHOOSE i \in 1..SI_TYPE_SIZE : x % TwoTo[i] = TwoTo[i - 1]

ffsdi2(u) ==
  IF ffs(Low(u)) # 0 THEN ffs(Low(u))
  ELSE IF ffs(High(u)) # 0 THEN ffs(High(u)) + SI_TYPE_SIZE
  ELSE 0

(* Words are compared high words first: 0 for less, 1 for equal, 2 for     *)
(* greater.                                                                *)
Compare(ah, bh, al, bl) ==
  IF ah < bh THEN 0 ELSE IF ah > bh THEN 2
  ELSE IF al < bl THEN 0 ELSE IF al > bl THEN 2 ELSE 1

(* Deviation: the low words are compared as signed numbers too. *)
CompareSigned(a, b) ==
  Compare(SignedWord(High(a)), SignedWord(High(b)), SignedWord(Low(a)), SignedWord(Low(b)))

cmpdi2(a, b) ==
  Compare(SignedWord(High(a)), SignedWord(High(b)), Low(a), Low(b))

ucmpdi2(a, b) == Compare(High(a), High(b), Low(a), Low(b))

(* Strings of bytes: the difference at the first byte that differs, or 0.  *)
gcc_bcmp(s1, s2, size) ==
  LET differ == {i \in 1..size : s1[i] # s2[i]}
      first  == CHOOSE i \in differ : \A j \in differ : i <= j
  IN  IF differ = {} THEN 0 ELSE s1[first] - s2[first]

-----------------------------------------------------------------------------
(* A processor whose instruction divides two words by any greater word has *)
(* no need of normalising (UDIV_NEEDS_NORMALIZATION is 0): the two digits  *)
(* of a quotient by one word, one after the other.                         *)
DivideInstruction(n1, n0, d) == [q |-> Pair(n1, n0) \div d, r |-> Pair(n1, n0) % d]

DivideDirectly(n, d) ==
  LET q1 == IF d > High(n) THEN [q |-> 0, r |-> High(n)] ELSE DivideInstruction(0, High(n), d)
      q0 == DivideInstruction(q1.r, Low(n), d)
  IN  [q |-> Pair(q1.q, q0.q), r |-> q0.r]

(* The signed division instruction some processors have, for a quotient    *)
(* that fits a signed word.                                                *)
sdiv_qrnnd(n1, n0, d) ==
  LET n    == Signed(Pair(n1, n0))
      q    == Magn(n) \div Magn(SignedWord(d))
  IN  [q |-> (IF (n < 0) # (SignedWord(d) < 0) THEN -q ELSE q) % W,
       r |-> (IF n < 0 THEN -(Magn(n) % Magn(SignedWord(d)))
                       ELSE Magn(n) % Magn(SignedWord(d))) % W]

(* From a division by the even number below an odd d, 2 * b1, to one by d: *)
(* r - q may be negative once or twice.                                    *)
OddDivisor(q, r, d) ==
  IF d % 2 = 0 THEN [q |-> q, r |-> r]
  ELSE IF r >= q THEN [q |-> q, r |-> r - q]
  ELSE IF q - r <= d THEN [q |-> (q - 1) % W, r |-> (r - q + d) % W]
  ELSE [q |-> (q - 2) % W, r |-> (r - q + 2 * d) % W]

(* Unsigned division on a processor whose division is signed.              *)
udiv_w_sdiv(a1, a0, d) ==
  LET top == W \div 2
      s   == sub_ddmmss(a1, a0, d \div 2, (d * top) % W)
      b1  == d \div 2
      c1  == a1 \div 2
      c0  == (((a1 * top) % W) + (a0 \div 2)) % W
      low == sdiv_qrnnd(c1, c0, b1)
      not == sdiv_qrnnd(b1 - 1 - c1, W - 1 - c0, b1)
  IN  IF d < top
      THEN IF a1 < (d - a1 - (a0 \div top)) % W
           THEN sdiv_qrnnd(a1, a0, d)
           ELSE LET e == sdiv_qrnnd(s.h, s.l, d) IN [q |-> (e.q + top) % W, r |-> e.r]
      ELSE IF a1 < b1 THEN OddDivisor(low.q, (2 * low.r + (a0 % 2)) % W, d)
      ELSE IF c1 < b1 THEN OddDivisor(W - 1 - not.q, (2 * (b1 - 1 - not.r) + (a0 % 2)) % W, d)
      ELSE IF a0 >= (-d) % W THEN [q |-> W - 1, r |-> (a0 + d) % W]
      ELSE [q |-> W - 2, r |-> (a0 + 2 * d) % W]
=============================================================================
