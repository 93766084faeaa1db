--------------------------- MODULE LongLongProofs ---------------------------
(***************************************************************************)
(* Theorems about LongLong and DoubleWord, for words of any size: the      *)
(* division of two words by one, half a word at a time, is exact although  *)
(* every digit is estimated from the high half of the divisor alone        *)
(* (DivisionExact), and __udivmoddi4 with its four ways, and the signed    *)
(* divisions, are the division of C (DivisionIsC).  The products, shifts,  *)
(* comparisons and the unused division of the library, and the kernel's    *)
(* own arithmetic with cycles and hashes, follow, and last the conversions *)
(* to floating point numbers and back, for numbers of any precision        *)
(* (ConversionsRound).                                                     *)
(***************************************************************************)
EXTENDS DoubleWordPairs, NumberFacts, TLAPS

(* A word has two halves of at least one bit each. *)
LEMMA WordSize == W = B * B /\ W \in Nat /\ B \in Nat /\ B >= 2 /\ W >= 2 * B
<1>1. B \in Nat /\ B >= 2
  BY WordAssumption
<1>2. B * B \in Nat /\ B * B >= 2 * B
  BY <1>1, SMT
<1> QED BY <1>1, <1>2 DEF W

(* The halves of a word. *)
LEMMA Halves ==
  ASSUME NEW x \in Word
  PROVE  /\ x = HighPart(x) * B + LowPart(x)
         /\ HighPart(x) \in 0..(B - 1) /\ LowPart(x) \in 0..(B - 1)
<1> DEFINE h == x \div B
           l == x % B
<1>1. x \in Nat /\ x < B * B /\ B \in Nat /\ B >= 2
  BY WordSize DEF Word
<1>2. x = B * h + l /\ l \in 0..(B - 1) /\ h \in Int
  BY <1>1, SMT
<1> HIDE DEF h, l
<1>3. h < B
  <2>1. SUFFICES ASSUME h - B >= 0 PROVE FALSE
    BY <1>1, <1>2
  <2>2. B * (h - B) >= 0
    BY <1>1, <1>2, <2>1, SMT
  <2>3. B * (h - B) = B * h - B * B
    BY <1>1, <1>2, SMT
  <2> QED BY <1>1, <1>2, <2>2, <2>3
<1>4. h >= 0
  <2>1. SUFFICES ASSUME -h >= 1 PROVE FALSE
    BY <1>1, <1>2
  <2>2. B * (-h) >= B
    BY <1>1, <1>2, <2>1, Multiple
  <2>3. B * (-h) = -(B * h)
    BY <1>1, <1>2, SMT
  <2> QED BY <1>1, <1>2, <2>2, <2>3
<1>5. B * h = h * B
  BY <1>1, <1>2, SMT
<1>6. x = h * B + l /\ h \in 0..(B - 1)
  <2>1. h \in 0..(B - 1)
    BY <1>1, <1>2, <1>3, <1>4
  <2> QED BY <1>2, <1>5, <2>1
<1>7. HighPart(x) = h /\ LowPart(x) = l
  BY DEF h, l, HighPart, LowPart
<1> QED BY <1>2, <1>6, <1>7

(* A word modulo W is itself, and a sum of two words loses one W.          *)
LEMMA Wrapped ==
  ASSUME NEW x \in Int, x >= 0
  PROVE  /\ x < W => x % W = x
         /\ W <= x /\ x < 2 * W => x % W = x - W
<1>1. W \in Nat \ {0}
  BY WordSize
<1>2. ASSUME x < W PROVE x % W = x
  <2>1. x = W * 0 + x /\ x \in 0..(W - 1)
    BY <1>1, <1>2, SMT
  <2> QED BY <1>1, <2>1, Remainder
<1>3. ASSUME W <= x, x < 2 * W PROVE x % W = x - W
  <2>1. x = W * 1 + (x - W) /\ x - W \in 0..(W - 1)
    BY <1>1, <1>3, SMT
  <2> QED BY <1>1, <2>1, Remainder
<1> QED BY <1>2, <1>3

(* What division with remainder by a positive number gives. *)
LEMMA Divided ==
  ASSUME NEW d \in Nat \ {0}, NEW q \in Int, NEW r \in 0..(d - 1),
         NEW y \in Int, y = q * d + r
  PROVE  y \div d = q /\ y % d = r
<1>1. q * d = d * q
  BY SMT
<1> QED BY <1>1, Remainder, Quotient

-----------------------------------------------------------------------------
TopBitSet(d) == d \in Word /\ d >= B * (B \div 2)

(* What is known of the estimate q of a digit: it is at most B + 1, so     *)
(* that neither m nor r wraps around, and q * d is too large by m - r.     *)
LEMMA Estimate ==
  ASSUME NEW d, TopBitSet(d), NEW n \in 0..(d - 1), NEW digit \in 0..(B - 1)
  PROVE  LET q == n \div HighPart(d)
             m == q * LowPart(d)
             r == (n % HighPart(d)) * B + digit
         IN  /\ q \in Nat /\ m \in 0..(W - 1) /\ r \in 0..(d - 1)
             /\ n * B + digit = q * d + r - m
<1> DEFINE d1 == HighPart(d)
           d0 == LowPart(d)
           q == n \div d1
           s == n % d1
<1>1. d \in Word /\ d \in Nat /\ B \in Nat /\ B >= 2 /\ W = B * B /\ n \in Nat /\ n < d
  BY WordSize DEF TopBitSet, Word
<1>2. d = d1 * B + d0 /\ d1 \in 0..(B - 1) /\ d0 \in 0..(B - 1)
  BY <1>1, Halves
<1>3. 2 * d1 >= B
  <2> DEFINE half == B \div 2
  <2>1. B = 2 * half /\ half \in Nat
    BY <1>1, WordAssumption
  <2>2. d >= B * half
    BY DEF TopBitSet
  <2> HIDE DEF half, d1, d0
  <2>3. SUFFICES ASSUME half - d1 >= 1 PROVE FALSE
    BY <1>2, <2>1
  <2>4. B * (half - d1) >= B
    BY <1>1, <1>2, <2>1, <2>3, Multiple
  <2>5. B * (half - d1) = B * half - d1 * B
    BY <1>1, <1>2, <2>1, SMT
  <2>6. B * half \in Int /\ d1 * B \in Int
    BY <1>1, <1>2, <2>1, SMT
  <2> QED BY <1>1, <1>2, <2>2, <2>4, <2>5, <2>6
<1> HIDE DEF d1, d0
<1>4. d1 \in Nat \ {0}
  BY <1>1, <1>2, <1>3
<1>5. n = d1 * q + s /\ s \in 0..(d1 - 1) /\ q \in Nat
  BY <1>1, <1>4, SMT
<1> HIDE DEF q, s
<1>6. q <= B + 1
  <2>1. SUFFICES ASSUME q - (B + 2) >= 0 PROVE FALSE
    BY <1>1, <1>5
  <2>2. d1 * (q - (B + 2)) >= 0
    BY <1>4, <1>5, <1>1, <2>1, SMT
  <2>3. d1 * (q - (B + 2)) = d1 * q - d1 * B - 2 * d1
    BY <1>4, <1>5, <1>1, SMT
  <2>4. d1 * q \in Int /\ d1 * B \in Int
    BY <1>4, <1>5, <1>1, SMT
  <2> QED BY <1>1, <1>2, <1>3, <1>4, <1>5, <2>2, <2>3, <2>4
<1>7. q * d0 \in 0..(W - 1)
  <2>1. q * d0 >= 0 /\ (B + 1) * d0 - q * d0 >= 0
    <3>1. (B + 1 - q) * d0 >= 0 /\ q * d0 >= 0
      BY <1>1, <1>2, <1>5, <1>6, SMT
    <3>2. (B + 1 - q) * d0 = (B + 1) * d0 - q * d0
      BY <1>1, <1>2, <1>5, SMT
    <3> QED BY <3>1, <3>2
  <2>2. (B + 1) * d0 <= B * B - 1
    <3>1. (B + 1) * (B - 1 - d0) >= 0
      BY <1>1, <1>2, SMT
    <3>2. (B + 1) * (B - 1 - d0) = B * B - 1 - (B + 1) * d0
      BY <1>1, <1>2, SMT
    <3>3. (B + 1) * d0 \in Int /\ B * B \in Int
      BY <1>1, <1>2, SMT
    <3> QED BY <3>1, <3>2, <3>3
  <2>3. q * d0 \in Int /\ (B + 1) * d0 \in Int /\ B * B \in Int
    BY <1>1, <1>2, <1>5, SMT
  <2> QED BY <1>1, <2>1, <2>2, <2>3
<1>8. s * B + digit \in 0..(d - 1)
  <2>1. (d1 - 1 - s) * B >= 0 /\ s * B >= 0
    BY <1>1, <1>4, <1>5, SMT
  <2>2. (d1 - 1 - s) * B = d1 * B - B - s * B
    BY <1>1, <1>4, <1>5, SMT
  <2>3. d1 * B \in Int /\ s * B \in Int
    BY <1>1, <1>4, <1>5, SMT
  <2> QED BY <1>1, <1>2, <2>1, <2>2, <2>3
<1>9. n * B + digit = q * d + (s * B + digit) - q * d0
  <2>1. n * B = (d1 * q) * B + s * B
    <3>1. (d1 * q + s) * B = (d1 * q) * B + s * B
      BY <1>1, <1>4, <1>5, SMT
    <3> QED BY <1>5, <3>1
  <2>2. q * d = q * (d1 * B) + q * d0
    <3>1. q * (d1 * B + d0) = q * (d1 * B) + q * d0
      BY <1>1, <1>2, <1>5, <1>4, SMT
    <3> QED BY <1>2, <3>1
  <2>3. (d1 * q) * B = q * (d1 * B)
    BY <1>1, <1>4, <1>5, SMT
  <2>4. q * (d1 * B) \in Int /\ s * B \in Int /\ q * d0 \in Int /\ digit \in Int
    BY <1>1, <1>2, <1>4, <1>5, SMT
  <2> DEFINE a == q * (d1 * B)
             b == s * B
             c == q * d0
  <2>5. n * B = a + b /\ q * d = a + c /\ a \in Int /\ b \in Int /\ c \in Int
    BY <2>1, <2>2, <2>3, <2>4
  <2> HIDE DEF a, b, c
  <2>6. n * B + digit = q * d + (b + digit) - c
    BY <2>4, <2>5
  <2> QED BY <2>6 DEF b, c
<1> QED BY <1>5, <1>7, <1>8, <1>9 DEF q, s, d1, d0

(* A divisor whose most significant bit is set is at least half of W.      *)
LEMMA MoreThanHalf ==
  ASSUME NEW d, TopBitSet(d)
  PROVE  d \in Nat \ {0} /\ d < W /\ 2 * d >= W
<1> DEFINE half == B \div 2
<1>1. B = 2 * half /\ half \in Nat /\ half >= 1
  BY WordSize, WordAssumption
<1>2. d \in Nat /\ d < W /\ d >= B * half
  BY WordSize DEF TopBitSet, Word
<1> HIDE DEF half
<1>3. 2 * (B * half) = B * B /\ B * half \in Nat
  BY <1>1, WordSize, SMT
<1>4. B * half >= 1
  BY <1>1, WordSize, SMT
<1> QED BY <1>2, <1>3, <1>4, WordSize

Corrections(q, m, r, d) ==
  LET r1 == (r + d) % W
      r2 == (r1 + d) % W
  IN  IF r >= m THEN [q |-> q, r |-> r - m]
      ELSE IF r1 >= d /\ r1 < m THEN [q |-> q - 1 - 1, r |-> (r2 - m) % W]
      ELSE [q |-> q - 1, r |-> (r1 - m) % W]

(* The corrections: from an estimate q that is too large, by at most m - r *)
(* in all, the code subtracts 1 as often as it takes, at most twice, and   *)
(* the test r1 >= d tells that r + d wrapped around.                       *)
LEMMA Corrected ==
  ASSUME NEW d, TopBitSet(d), NEW q \in Int, NEW m \in 0..(W - 1),
         NEW r \in 0..(d - 1)
  PROVE  \E k \in 0..2 :
           /\ Corrections(q, m, r, d) = [q |-> q - k, r |-> r - m + k * d]
           /\ r - m + k * d \in 0..(d - 1)
<1> DEFINE r1 == (r + d) % W
           r2 == (r1 + d) % W
           e  == Corrections(q, m, r, d)
           Right(k) == e = [q |-> q - k, r |-> r - m + k * d] /\ r - m + k * d \in 0..(d - 1)
<1>1. d \in Nat \ {0} /\ d < W /\ 2 * d >= W /\ W \in Nat \ {0}
  BY MoreThanHalf, WordSize
<1>2. 0 * d = 0 /\ 1 * d = d
  BY <1>1
<1>3. r1 \in 0..(W - 1) /\ r1 = IF r + d < W THEN r + d ELSE r + d - W
  BY <1>1, Wrapped, r + d \in Int
<1>3a. e = IF r >= m THEN [q |-> q, r |-> r - m]
          ELSE IF r1 >= d /\ r1 < m THEN [q |-> q - 1 - 1, r |-> (r2 - m) % W]
          ELSE [q |-> q - 1, r |-> (r1 - m) % W]
  BY DEF Corrections
<1> HIDE DEF r1, e
<1>4. r2 \in 0..(W - 1) /\ r2 = IF r1 + d < W THEN r1 + d ELSE r1 + d - W
  BY <1>1, <1>3, Wrapped, r1 + d \in Int
<1> HIDE DEF r2
<1>5. /\ (r1 - m) % W = IF r1 >= m THEN r1 - m ELSE r1 - m + W
      /\ (r2 - m) % W = IF r2 >= m THEN r2 - m ELSE r2 - m + W
  BY <1>1, <1>3, <1>4, Distance
<1>6. CASE r >= m
  <2>1. e = [q |-> q, r |-> r - m]
    BY <1>3a, <1>6
  <2>2. q - 0 = q /\ r - m + 0 * d = r - m /\ r - m \in 0..(d - 1)
    BY <1>1, <1>2, <1>6
  <2>3. Right(0)
    BY <2>1, <2>2
  <2> QED BY <2>3 DEF e
<1>7. CASE r < m /\ r1 >= d /\ r1 < m
  <2>1. e = [q |-> q - 1 - 1, r |-> (r2 - m) % W]
    BY <1>1, <1>3a, <1>7
  <2>2. r1 = r + d
    BY <1>1, <1>3, <1>7
  <2>3. r - m + 2 * d \in 0..(d - 1)
    BY <1>1, <1>7, <2>2
  <2>4. (r2 - m) % W = r - m + 2 * d
    BY <1>1, <1>4, <1>5, <1>7, <2>2, <2>3
  <2>5. q - 1 - 1 = q - 2
    OBVIOUS
  <2>6. Right(2)
    BY <2>1, <2>3, <2>4, <2>5
  <2> QED BY <2>6 DEF e
<1>8. CASE r < m /\ ~(r1 >= d /\ r1 < m)
  <2>1. e = [q |-> q - 1, r |-> (r1 - m) % W]
    BY <1>1, <1>3a, <1>8
  <2>2. r - m + d \in 0..(d - 1)
    BY <1>1, <1>3, <1>8
  <2>3. (r1 - m) % W = r - m + d
    BY <1>1, <1>3, <1>5, <1>8, <2>2
  <2>4. Right(1)
    BY <1>2, <2>1, <2>2, <2>3
  <2> QED BY <2>4 DEF e
<1> QED BY <1>1, <1>6, <1>7, <1>8

(* A digit of the quotient is exact, whatever the estimate was.            *)
LEMMA DigitExact ==
  ASSUME NEW d, TopBitSet(d), NEW n \in 0..(d - 1), NEW digit \in 0..(B - 1)
  PROVE  /\ QuotientDigit(n, digit, d)
              = [q |-> (n * B + digit) \div d, r |-> (n * B + digit) % d]
         /\ (n * B + digit) \div d \in 0..(B - 1)
         /\ (n * B + digit) % d \in 0..(d - 1)
         /\ n * B + digit = ((n * B + digit) \div d) * d + ((n * B + digit) % d)
<1> DEFINE q == n \div HighPart(d)
           m == q * LowPart(d)
           r == (n % HighPart(d)) * B + digit
           x == n * B + digit
<1>1. q \in Nat /\ m \in 0..(W - 1) /\ r \in 0..(d - 1) /\ x = q * d + r - m
  BY Estimate
<1>2. d \in Nat \ {0} /\ d < W /\ W \in Nat /\ B \in Nat
  BY MoreThanHalf, WordSize
<1>3. m % W = m /\ r % W = r
  <2>1. ASSUME NEW y \in Int, y >= 0, y < W PROVE y % W = y
    BY <2>1, Wrapped
  <2> HIDE DEF m, r, x
  <2>2. m \in Int /\ m >= 0 /\ m < W /\ r \in Int /\ r >= 0 /\ r < W
    BY <1>1, <1>2
  <2> QED BY <2>1, <2>2
<1>4. x \in Nat
  BY <1>2, SMT
<1> DEFINE e == Corrections(q, m, r, d)
<1>5. QuotientDigit(n, digit, d) = e
  BY <1>3 DEF QuotientDigit, Corrections
<1> HIDE DEF q, m, r, x
<1>6. \E k \in 0..2 : /\ e = [q |-> q - k, r |-> r - m + k * d]
                      /\ r - m + k * d \in 0..(d - 1)
  <2>1. q \in Int /\ m \in 0..(W - 1) /\ r \in 0..(d - 1)
    BY <1>1
  <2> QED BY <2>1, Corrected, Zenon
<1> HIDE DEF e
<1>7. PICK k \in 0..2 : /\ e = [q |-> q - k, r |-> r - m + k * d]
                        /\ r - m + k * d \in 0..(d - 1)
  BY <1>6
<1> DEFINE t == r - m + k * d
           p == q - k
<1>8. x = p * d + t /\ p \in Int /\ t \in 0..(d - 1)
  <2>1. p * d = q * d - k * d
    BY <1>1, <1>2, SMT
  <2>2. q * d \in Int /\ k * d \in Int /\ p \in Int
    BY <1>1, <1>2, SMT
  <2> QED BY <1>1, <1>7, <2>1, <2>2
<1> HIDE DEF t, p
<1>9. x \div d = p /\ x % d = t
  BY <1>2, <1>4, <1>8, Divided
<1>10. p \in 0..(B - 1)
  <2>1. x < d * B
    <3>1. (d - 1 - n) * B >= 0
      BY <1>2, SMT
    <3>2. (d - 1 - n) * B = d * B - B - n * B
      BY <1>2, SMT
    <3>3. d * B \in Int /\ n * B \in Int
      BY <1>2, SMT
    <3> QED BY <1>2, <3>1, <3>2, <3>3 DEF x
  <2>2. p < B
    <3>1. SUFFICES ASSUME p - B >= 0 PROVE FALSE
      BY <1>2, <1>8
    <3>2. d * (p - B) >= 0 /\ d * (p - B) = p * d - d * B
      BY <1>2, <1>8, <3>1, SMT
    <3>3. p * d \in Int /\ d * B \in Int
      BY <1>2, <1>8, SMT
    <3> QED BY <1>4, <1>8, <2>1, <3>2, <3>3
  <2>3. p >= 0
    <3>1. SUFFICES ASSUME -p >= 1 PROVE FALSE
      BY <1>8
    <3>2. d * (-p) >= d
      BY <1>2, <1>8, <3>1, Multiple
    <3>3. d * (-p) = -(p * d) /\ p * d \in Int
      BY <1>2, <1>8, SMT
    <3> QED BY <1>2, <1>4, <1>8, <3>2, <3>3
  <2> QED BY <1>2, <1>8, <2>2, <2>3
<1>11. e = [q |-> p, r |-> t]
  BY <1>7 DEF p, t
<1> QED BY <1>5, <1>8, <1>9, <1>10, <1>11 DEF x

-----------------------------------------------------------------------------
(* longlong.h 1178-1213: dividing the two words (n1, n0) by a divisor with *)
(* its most significant bit set, when the quotient fits a word, gives that *)
(* quotient and the remainder, for words of every size.                    *)
THEOREM DivisionExact ==
  ASSUME NEW d, TopBitSet(d), NEW n1 \in 0..(d - 1), NEW n0 \in Word
  PROVE  udiv_qrnnd(n1, n0, d) = [q |-> (n1 * W + n0) \div d, r |-> (n1 * W + n0) % d]
<1> DEFINE h  == HighPart(n0)
           l  == LowPart(n0)
           x  == n1 * B + h
           qh == x \div d
           rh == x % d
           y  == rh * B + l
           ql == y \div d
           rl == y % d
           z  == n1 * W + n0
<1>1. d \in Nat \ {0} /\ d < W /\ W \in Nat /\ B \in Nat /\ B >= 2 /\ W = B * B
  BY MoreThanHalf, WordSize
<1>2. n0 = h * B + l /\ h \in 0..(B - 1) /\ l \in 0..(B - 1)
  BY Halves
<1> HIDE DEF h, l, z
<1>3. /\ QuotientDigit(n1, h, d) = [q |-> qh, r |-> rh]
      /\ qh \in 0..(B - 1) /\ rh \in 0..(d - 1) /\ x = qh * d + rh
  BY <1>2, DigitExact DEF x
<1> HIDE DEF qh, rh
<1>4. /\ QuotientDigit(rh, l, d) = [q |-> ql, r |-> rl]
      /\ ql \in 0..(B - 1) /\ rl \in 0..(d - 1) /\ y = ql * d + rl
  BY <1>2, <1>3, DigitExact
<1> HIDE DEF ql, rl
<1>5. qh * B + ql \in 0..(W - 1)
  <2>1. (B - 1 - qh) * B >= 0 /\ qh * B >= 0
    BY <1>1, <1>3, SMT
  <2>2. (B - 1 - qh) * B = B * B - B - qh * B
    BY <1>1, <1>3, SMT
  <2>3. B * B \in Int /\ qh * B \in Int
    BY <1>1, <1>3, SMT
  <2> QED BY <1>1, <1>4, <2>1, <2>2, <2>3
<1>6. udiv_qrnnd(n1, n0, d) = [q |-> qh * B + ql, r |-> rl]
  <2>1. (qh * B + ql) % W = qh * B + ql
    BY <1>1, <1>5, Wrapped
  <2>2. QuotientDigit(n1, HighPart(n0), d) = [q |-> qh, r |-> rh]
    BY <1>3 DEF h
  <2>3. QuotientDigit(rh, LowPart(n0), d) = [q |-> ql, r |-> rl]
    BY <1>4 DEF l
  <2> QED BY <2>1, <2>2, <2>3 DEF udiv_qrnnd
<1>7. z = (qh * B + ql) * d + rl
  <2>1. x * B = (qh * B) * d + rh * B
    <3>1. (qh * d + rh) * B = (qh * B) * d + rh * B
      BY <1>1, <1>3, SMT
    <3> QED BY <1>3, <3>1
  <2>2. x * B = n1 * W + h * B
    <3>1. (n1 * B + h) * B = n1 * (B * B) + h * B
      BY <1>1, <1>2, SMT
    <3> QED BY <1>1, <3>1 DEF x
  <2>3. (qh * B + ql) * d = (qh * B) * d + ql * d
    BY <1>1, <1>3, <1>4, SMT
  <2>4. rh * B + l = ql * d + rl
    BY <1>4 DEF y
  <2> DEFINE a == (qh * B) * d
             b == rh * B
             c == ql * d
             f == h * B
             g == n1 * W
             i == (qh * B + ql) * d
  <2>5. a \in Int /\ b \in Int /\ c \in Int /\ f \in Int /\ g \in Int
    BY <1>1, <1>2, <1>3, <1>4, SMT
  <2>6. g + f = a + b /\ i = a + c /\ b + l = c + rl /\ n0 = f + l
    BY <1>2, <2>1, <2>2, <2>3, <2>4
  <2>7. z = g + n0
    BY DEF z
  <2> HIDE DEF a, b, c, f, g, i, z
  <2>8. z = i + rl
    BY <1>2, <1>4, <2>5, <2>6, <2>7
  <2> QED BY <2>8 DEF i
<1>8. z \in Int
  BY <1>1, SMT DEF Word, z
<1> DEFINE p == qh * B + ql
<1> HIDE DEF p, x, y
<1>9. p \in Int /\ z = p * d + rl
  BY <1>5, <1>7 DEF p
<1>10. z \div d = p /\ z % d = rl
  BY <1>1, <1>4, <1>8, <1>9, Divided
<1> QED BY <1>6, <1>10 DEF p, z

-----------------------------------------------------------------------------
(* Powers of two, and the normalisation of a divisor.                      *)

(* TwoTo is what its name says. *)
LEMMA TwoToPowers == PowersOfTwo(TwoTo, 2 * SI_TYPE_SIZE)
<1>1. PICK N : N = 2 * SI_TYPE_SIZE
  OBVIOUS
<1>2. N \in Nat
  BY <1>1, WordAssumption
<1>3. PowersOfTwo(CHOOSE f : f = [n \in 0..N |-> IF n = 0 THEN 1 ELSE 2 * f[n - 1]], N)
  BY <1>2, PowersDefined
<1> QED BY <1>1, <1>3 DEF TwoTo

(* The equations of TwoTo. *)
LEMMA PowerEquations ==
  /\ TwoTo[0] = 1
  /\ \A n \in 0..(2 * SI_TYPE_SIZE - 1) : TwoTo[n + 1] = 2 * TwoTo[n]
  /\ \A n \in 0..2 * SI_TYPE_SIZE : TwoTo[n] \in Nat \ {0}
BY TwoToPowers DEF PowersOfTwo

(* Exponents are added. *)
LEMMA PowerSum ==
  ASSUME NEW m \in Nat, NEW n \in Nat, m + n <= 2 * SI_TYPE_SIZE
  PROVE  TwoTo[m + n] = TwoTo[m] * TwoTo[n]
<1>1. PICK N \in Nat : N = 2 * SI_TYPE_SIZE
  BY WordAssumption
<1>2. PICK p : p = TwoTo
  OBVIOUS
<1> QED BY <1>1, <1>2, TwoToPowers, ExponentsAdd

(* Powers grow with the exponent. *)
LEMMA PowerOrder ==
  ASSUME NEW m \in Nat, NEW n \in 0..2 * SI_TYPE_SIZE, m <= n
  PROVE  TwoTo[m] <= TwoTo[n]
<1>1. PICK N \in Nat : N = 2 * SI_TYPE_SIZE
  BY WordAssumption
<1>2. PICK p : p = TwoTo
  OBVIOUS
<1> QED BY <1>1, <1>2, TwoToPowers, ExponentOrder

(* The bits of a number below 2^N. *)
LEMMA BitLength ==
  ASSUME NEW N \in 0..SI_TYPE_SIZE, NEW x \in Nat, x < TwoTo[N]
  PROVE  \E n \in 0..N : x < TwoTo[n] /\ (n > 0 => TwoTo[n - 1] <= x)
<1>1. PICK M \in Nat : M = 2 * SI_TYPE_SIZE
  BY WordAssumption
<1>2. N \in 0..M
  BY <1>1, WordAssumption
<1>3. PICK p : p = TwoTo
  OBVIOUS
<1>4. PowersOfTwo(p, M) /\ x < p[N]
  BY <1>1, <1>3, TwoToPowers
<1>5. \E n \in 0..N : x < p[n] /\ (n > 0 => p[n - 1] <= x)
  BY <1>2, <1>4, NumberOfBits
<1> QED BY <1>3, <1>5

(* clz_tab gives the number of bits of a word. *)
LEMMA BitsOfWord ==
  ASSUME NEW x \in Word
  PROVE  /\ clz_tab(x) \in 0..SI_TYPE_SIZE /\ x < TwoTo[clz_tab(x)]
         /\ clz_tab(x) > 0 => TwoTo[clz_tab(x) - 1] <= x
<1>1. SI_TYPE_SIZE \in 0..SI_TYPE_SIZE /\ x \in Nat /\ x < TwoTo[SI_TYPE_SIZE]
  BY WordAssumption, WordSize DEF Word
<1>2. \E n \in 0..SI_TYPE_SIZE : x < TwoTo[n] /\ (n > 0 => TwoTo[n - 1] <= x)
  BY <1>1, BitLength
<1> QED BY <1>2 DEF clz_tab


(* The divisor d is shifted by bm bits, which P and Q stand for. *)
Normalises(d, bm, P, Q) ==
  /\ bm \in 0..(SI_TYPE_SIZE - 1) /\ P = TwoTo[bm] /\ Q = TwoTo[SI_TYPE_SIZE - bm]
  /\ P \in Nat \ {0} /\ Q \in Nat \ {0} /\ P * Q = W
  /\ 2 * P <= W /\ (bm = 0 <=> P = 1) /\ (2 * P = W \/ 4 * P <= W)
  /\ TopBitSet(d * P)

(* A word with the most significant bit set. *)
LEMMA TopBit ==
  ASSUME NEW d \in Nat, d < W, W <= 2 * d
  PROVE  TopBitSet(d)
<1> DEFINE half == B \div 2
<1>1. B = 2 * half /\ half \in Nat /\ B \in Nat /\ W = B * B /\ W \in Nat
  BY WordSize, WordAssumption
<1> HIDE DEF half
<1>2. 2 * (B * half) = B * B /\ B * half \in Nat
  BY <1>1, SMT
<1>3. d >= B * half /\ d \in 0..(W - 1)
  BY <1>1, <1>2
<1> QED BY <1>3 DEF TopBitSet, Word, half

(* count_leading_zeros: the shift that normalises a divisor. *)
LEMMA LeadingZeros ==
  ASSUME NEW d \in Word, d # 0
  PROVE  \E P, Q : Normalises(d, count_leading_zeros(d), P, Q)
<1>1. PICK S : S = SI_TYPE_SIZE
  OBVIOUS
<1>2. S \in Nat /\ W = TwoTo[S] /\ W \in Nat /\ d \in Nat /\ d < W /\ d >= 1
  BY <1>1, WordAssumption, WordSize DEF Word
<1>3. PICK a \in 0..S : /\ a = 0 \/ TwoTo[a] <= d
                       /\ count_leading_zeros(d) = S - (clz_tab(ShiftRight(d, a)) + a)
  <2>1. PICK b : b = BITS4
    OBVIOUS
  <2>2. b \in Nat /\ 3 * b <= S
    BY <1>1, <1>2, <2>1, SMT DEF BITS4
  <2>3. b \in 0..2 * S /\ 2 * b \in 0..2 * S /\ 3 * b \in 0..2 * S
    BY <1>2, <2>2
  <2>4. TwoTo[b] \in Nat /\ TwoTo[2 * b] \in Nat /\ TwoTo[3 * b] \in Nat
    BY <1>1, <2>3, PowerEquations
  <2> DEFINE c == IF d < TwoTo[2 * b] THEN IF d < TwoTo[b] THEN 0 ELSE b
                  ELSE IF d < TwoTo[3 * b] THEN 2 * b ELSE 3 * b
  <2>5. c \in 0..S /\ (c = 0 \/ TwoTo[c] <= d)
    BY <1>2, <2>2, <2>4
  <2>6. count_leading_zeros(d) = S - (clz_tab(ShiftRight(d, c)) + c)
    BY <1>1, <2>1, Zenon DEF count_leading_zeros
  <2> HIDE DEF c
  <2> QED BY <2>5, <2>6
<1>4. PICK A : A = TwoTo[a]
  OBVIOUS
<1>5. A \in Nat \ {0} /\ A <= d
  <2>1. a \in 0..2 * S
    BY <1>2
  <2>2. A \in Nat \ {0} /\ (a = 0 => A = 1)
    BY <1>1, <1>4, <2>1, PowerEquations
  <2> QED BY <1>2, <1>3, <1>4, <2>2
<1>6. PICK y : y = d \div A
  OBVIOUS
<1>7. y \in Nat /\ y >= 1 /\ A * y <= d /\ d < A * (y + 1) /\ y <= d
  <2>1. PICK r : r = d % A
    OBVIOUS
  <2>2. d = A * y + r /\ r \in 0..(A - 1) /\ y \in Nat
    BY <1>2, <1>5, <1>6, <2>1, SMT
  <2>3. A * (y + 1) = A * y + A /\ A * y \in Nat
    BY <1>5, <2>2, SMT
  <2>4. y >= 1
    <3>1. SUFFICES ASSUME y = 0 PROVE FALSE
      BY <2>2
    <3>2. A * y = 0
      BY <1>5, <3>1
    <3> QED BY <1>2, <1>5, <2>2, <3>2
  <2>5. y <= A * y
    BY <1>5, <2>2, SMT
  <2> QED BY <1>2, <1>5, <2>2, <2>3, <2>4, <2>5
<1>8. PICK n : n = clz_tab(y)
  OBVIOUS
<1>9. n \in 0..S /\ y < TwoTo[n] /\ (n > 0 => TwoTo[n - 1] <= y)
  <2>1. y \in Word
    BY <1>2, <1>7 DEF Word
  <2> QED BY <1>1, <1>8, <2>1, BitsOfWord
<1>10. n >= 1
  <2>1. SUFFICES ASSUME n = 0 PROVE FALSE
    BY <1>2, <1>9
  <2>2. TwoTo[0] = 1
    BY PowerEquations
  <2> QED BY <1>7, <1>9, <2>1, <2>2
<1>11. PICK k : k = n + a
  OBVIOUS
<1>12. k \in Nat /\ k >= 1 /\ k <= 2 * S /\ n - 1 \in Nat /\ a + (n - 1) = k - 1 /\ a + n = k
  BY <1>2, <1>3, <1>9, <1>10, <1>11
<1>13. PICK U : U = TwoTo[n - 1]
  OBVIOUS
<1>14. PICK V : V = TwoTo[k - 1]
  OBVIOUS
<1>15. U \in Nat \ {0} /\ TwoTo[n] = 2 * U /\ V = A * U /\ TwoTo[k] = 2 * V /\ V \in Nat \ {0}
  <2>1. n - 1 \in 0..(2 * S - 1) /\ n - 1 \in 0..2 * S /\ (n - 1) + 1 = n
        /\ k - 1 \in 0..(2 * S - 1) /\ k - 1 \in 0..2 * S /\ (k - 1) + 1 = k
    BY <1>2, <1>9, <1>12
  <2>2. U \in Nat \ {0} /\ TwoTo[n] = 2 * U /\ TwoTo[k] = 2 * V /\ V \in Nat \ {0}
    BY <1>1, <1>13, <1>14, <2>1, PowerEquations
  <2>3. a \in Nat /\ a + (n - 1) <= 2 * SI_TYPE_SIZE
    BY <1>1, <1>2, <1>12
  <2>4. TwoTo[a + (n - 1)] = TwoTo[a] * TwoTo[n - 1]
    BY <1>12, <2>3, PowerSum
  <2> QED BY <1>4, <1>12, <1>13, <1>14, <2>2, <2>4
<1>16. V <= d /\ d < 2 * V
  <2>1. U <= y /\ y + 1 <= 2 * U
    BY <1>7, <1>9, <1>10, <1>13, <1>15
  <2>2. A * (y - U) >= 0 /\ A * (2 * U - (y + 1)) >= 0
    BY <1>5, <1>7, <1>15, <2>1, SMT
  <2>3. A * (y - U) = A * y - A * U /\ A * (2 * U - (y + 1)) = 2 * (A * U) - A * (y + 1)
    BY <1>5, <1>7, <1>15, SMT
  <2>4. A * y \in Int /\ A * U \in Int /\ A * (y + 1) \in Int
    BY <1>5, <1>7, <1>15, SMT
  <2> QED BY <1>2, <1>7, <1>15, <2>2, <2>3, <2>4
<1>17. k <= S
  <2>1. SUFFICES ASSUME S <= k - 1 PROVE FALSE
    BY <1>2, <1>12
  <2>2. k - 1 \in 0..2 * SI_TYPE_SIZE /\ S \in Nat
    BY <1>1, <1>2, <1>12
  <2>3. TwoTo[S] <= TwoTo[k - 1]
    BY <2>1, <2>2, PowerOrder
  <2> QED BY <1>2, <1>14, <1>15, <1>16, <2>3
<1>18. PICK bm : bm = S - k
  OBVIOUS
<1>19. bm \in 0..(S - 1) /\ bm = count_leading_zeros(d) /\ S - bm = k
  <2>1. ShiftRight(d, a) = y
    BY <1>4, <1>6 DEF ShiftRight
  <2> QED BY <1>2, <1>3, <1>8, <1>11, <1>12, <1>17, <1>18, <2>1
<1>20. PICK P : P = TwoTo[bm]
  OBVIOUS
<1>21. PICK Q : Q = TwoTo[k]
  OBVIOUS
<1>22. P \in Nat \ {0} /\ Q = 2 * V /\ P * Q = W
  <2>1. bm \in 0..2 * S /\ bm \in Nat /\ bm + k = S /\ bm + k <= 2 * SI_TYPE_SIZE
    BY <1>1, <1>2, <1>12, <1>17, <1>18
  <2>2. P \in Nat \ {0}
    BY <1>1, <1>20, <2>1, PowerEquations
  <2>3. TwoTo[bm + k] = TwoTo[bm] * TwoTo[k]
    BY <1>12, <2>1, PowerSum
  <2> QED BY <1>2, <1>15, <1>20, <1>21, <2>1, <2>2, <2>3
<1>23. W = 2 * (P * V) /\ P * V \in Nat /\ P <= P * V
  BY <1>15, <1>22, SMT
<1>24. 2 * P = W \/ 4 * P <= W
  <2>1. CASE V = 1
    <3>1. P * V = P
      BY <1>22, <2>1
    <3> QED BY <1>23, <3>1
  <2>2. CASE V >= 2
    <3>1. P * V >= 2 * P
      BY <1>22, <1>15, <2>2, SMT
    <3> QED BY <1>22, <1>23, <3>1
  <2> QED BY <1>15, <2>1, <2>2
<1>25. bm = 0 <=> P = 1
  <2>1. bm = 0 => P = 1
    BY <1>20, PowerEquations
  <2>2. CASE bm # 0
    <3>1. bm - 1 \in 0..(2 * S - 1) /\ bm - 1 \in 0..2 * S /\ (bm - 1) + 1 = bm
      BY <1>2, <1>19, <2>2
    <3>2. TwoTo[bm] = 2 * TwoTo[bm - 1] /\ TwoTo[bm - 1] \in Nat
      BY <1>1, <3>1, PowerEquations
    <3>3. P # 1
      BY <1>20, <3>2
    <3> QED BY <2>2, <3>3
  <2> QED BY <2>1, <2>2
<1>26. TopBitSet(d * P)
  <2>1. P * (d - V) >= 0 /\ P * (2 * V - 1 - d) >= 0
    BY <1>2, <1>15, <1>16, <1>22, SMT
  <2>2. P * (d - V) = d * P - P * V /\ P * (2 * V - 1 - d) = 2 * (P * V) - P - d * P
    BY <1>2, <1>15, <1>22, SMT
  <2>3. d * P \in Nat
    BY <1>2, <1>22, SMT
  <2>4. d * P < W /\ W <= 2 * (d * P)
    BY <1>22, <1>23, <2>1, <2>2, <2>3
  <2> QED BY <2>3, <2>4, TopBit
<1>27. Normalises(d, bm, P, Q)
  BY <1>1, <1>15, <1>19, <1>20, <1>21, <1>22, <1>23, <1>24, <1>25, <1>26 DEF Normalises
<1> QED BY <1>19, <1>27

(* The words of a double word. *)
LEMMA WordsOf ==
  ASSUME NEW x \in DWord
  PROVE  /\ x = High(x) * W + Low(x) /\ High(x) \in Word /\ Low(x) \in Word
         /\ x \in Nat
<1>1. PICK h : h = High(x)
  OBVIOUS
<1>2. PICK l : l = Low(x)
  OBVIOUS
<1>3. PICK w : w = W
  OBVIOUS
<1>4. w \in Nat \ {0} /\ x \in Nat /\ x < w * w
  <2>1. W \in Nat \ {0}
    BY WordSize
  <2>2. W * W \in Nat
    BY <2>1, SMT
  <2> QED BY <1>3, <2>1, <2>2 DEF DWord
<1>5. x = w * h + l /\ l \in 0..(w - 1) /\ h \in Nat
  <2>1. h = x \div w /\ l = x % w
    BY <1>1, <1>2, <1>3 DEF High, Low
  <2> QED BY <1>4, <2>1, SMT
<1>6. h < w
  <2>1. SUFFICES ASSUME h >= w PROVE FALSE
    BY <1>4, <1>5
  <2>2. w * (h - w) >= 0 /\ w * (h - w) = w * h - w * w
    BY <1>4, <1>5, <2>1, SMT
  <2>3. w * h \in Nat /\ w * w \in Nat
    BY <1>4, <1>5, SMT
  <2> QED BY <1>4, <1>5, <2>2, <2>3
<1>7. w * h = h * w
  BY <1>4, <1>5, SMT
<1> QED BY <1>1, <1>2, <1>3, <1>4, <1>5, <1>6, <1>7 DEF Word

(* A pair of words is a double word. *)
LEMMA PairOf ==
  ASSUME NEW h \in Word, NEW l \in Word
  PROVE  Pair(h, l) \in DWord /\ Pair(h, l) = h * W + l
<1>1. PICK w : w = W
  OBVIOUS
<1>2. w \in Nat \ {0} /\ h \in 0..(w - 1) /\ l \in 0..(w - 1)
  BY <1>1, WordSize DEF Word
<1>3. (w - 1 - h) * w >= 0 /\ (w - 1 - h) * w = w * w - w - h * w /\ h * w >= 0
  BY <1>2, SMT
<1>4. h * w \in Int /\ w * w \in Int
  BY <1>2, SMT
<1>5. h * w + l \in 0..(w * w - 1)
  BY <1>2, <1>3, <1>4
<1> QED BY <1>1, <1>5 DEF Pair, DWord

(* A word shifted left by the factor P: what leaves it are its bits above  *)
(* Q, and what stays is a multiple of P.                                   *)
LEMMA WordShifted ==
  ASSUME NEW x \in Word, NEW P \in Nat \ {0}, NEW Q \in Nat \ {0}, P * Q = W
  PROVE  /\ x * P = (x \div Q) * W + ((x * P) % W)
         /\ x \div Q \in 0..(P - 1)
         /\ (x * P) % W \in 0..(W - P)
         /\ (x * P) % W = (x % Q) * P
<1>1. PICK a : a = x \div Q
  OBVIOUS
<1>2. PICK t : t = x % Q
  OBVIOUS
<1>3. x \in Nat /\ x < W /\ W \in Nat \ {0}
  BY WordSize DEF Word
<1>4. x = Q * a + t /\ t \in 0..(Q - 1) /\ a \in Nat
  BY <1>1, <1>2, <1>3, SMT
<1>5. a <= P - 1
  <2>1. SUFFICES ASSUME a >= P PROVE FALSE
    BY <1>4
  <2>2. Q * (a - P) >= 0 /\ Q * (a - P) = Q * a - P * Q
    BY <1>4, <2>1, SMT
  <2>3. Q * a \in Nat /\ P * Q \in Nat
    BY <1>4, SMT
  <2> QED BY <1>3, <1>4, <2>2, <2>3
<1>6. PICK s : s = t * P
  OBVIOUS
<1>7. s \in 0..(W - P)
  <2>1. (Q - 1 - t) * P >= 0 /\ (Q - 1 - t) * P = P * Q - P - s
    BY <1>4, <1>6, SMT
  <2>2. s \in Nat
    BY <1>4, <1>6, SMT
  <2> QED BY <1>3, <2>1, <2>2
<1>8. x * P = a * W + s /\ x * P \in Int
  <2>1. (Q * a + t) * P = a * (P * Q) + t * P
    BY <1>4, SMT
  <2>2. x * P \in Int
    BY <1>3, SMT
  <2> QED BY <1>4, <1>6, <2>1, <2>2
<1>9. (x * P) % W = s
  <2>1. s \in 0..(W - 1) /\ a \in Int
    BY <1>3, <1>4, <1>7
  <2> QED BY <1>3, <1>8, <2>1, Divided
<1>10. a \in 0..(P - 1)
  BY <1>4, <1>5
<1>11. s = (x % Q) * P
  BY <1>2, <1>6
<1>12. x * P = (x \div Q) * W + ((x * P) % W)
  BY <1>1, <1>8, <1>9, Zenon
<1> QED BY <1>1, <1>7, <1>9, <1>10, <1>11, <1>12, Zenon

(* The dividend n is shifted left by bm bits into three words. *)
LEMMA DividendShifted ==
  ASSUME NEW n \in DWord, NEW d, NEW bm, NEW P, NEW Q, Normalises(d, bm, P, Q)
  PROVE  LET m == Normalized(n, bm)
         IN  /\ m.n2 \in 0..(P - 1) /\ m.n1 \in Word /\ m.n0 \in Word
             /\ n * P = (m.n2 * W + m.n1) * W + m.n0
             /\ \E c \in 0..(P - 1) : High(n) * P + c = m.n2 * W + m.n1
<1>1. PICK h : h = High(n)
  OBVIOUS
<1>2. PICK l : l = Low(n)
  OBVIOUS
<1>3. h \in Word /\ l \in Word /\ n = h * W + l
  BY <1>1, <1>2, WordsOf
<1>4. P \in Nat \ {0} /\ Q \in Nat \ {0} /\ P * Q = W /\ W \in Nat
      /\ P = TwoTo[bm] /\ Q = TwoTo[SI_TYPE_SIZE - bm]
  BY WordSize DEF Normalises
<1>5. PICK a : a = h \div Q
  OBVIOUS
<1>6. PICK s : s = (h * P) % W
  OBVIOUS
<1>7. PICK c : c = l \div Q
  OBVIOUS
<1>8. PICK t : t = (l * P) % W
  OBVIOUS
<1>9. h * P = a * W + s /\ a \in 0..(P - 1) /\ s \in 0..(W - P)
  <2>1. /\ h * P = (h \div Q) * W + ((h * P) % W)
        /\ h \div Q \in 0..(P - 1) /\ (h * P) % W \in 0..(W - P)
    <3>1. h \in Word /\ P \in Nat \ {0} /\ Q \in Nat \ {0} /\ P * Q = W
      BY <1>3, <1>4
    <3> QED BY <3>1, WordShifted
  <2> QED BY <1>5, <1>6, <2>1, Zenon
<1>10. l * P = c * W + t /\ c \in 0..(P - 1) /\ t \in 0..(W - P)
  <2>1. /\ l * P = (l \div Q) * W + ((l * P) % W)
        /\ l \div Q \in 0..(P - 1) /\ (l * P) % W \in 0..(W - P)
    <3>1. l \in Word /\ P \in Nat \ {0} /\ Q \in Nat \ {0} /\ P * Q = W
      BY <1>3, <1>4
    <3> QED BY <3>1, WordShifted
  <2> QED BY <1>7, <1>8, <2>1, Zenon
<1>11. Normalized(n, bm) = [n2 |-> a, n1 |-> s + c, n0 |-> t]
  BY <1>1, <1>2, <1>4, <1>5, <1>6, <1>7, <1>8 DEF Normalized, ShiftRight, ShiftLeft
<1>12. s + c \in Word /\ t \in Word
  BY <1>4, <1>9, <1>10 DEF Word
<1>13. n * P = (a * W + (s + c)) * W + t
  <2>1. (h * W + l) * P = (h * P) * W + l * P
    <3>1. h \in Nat /\ l \in Nat
      BY <1>3, <1>4 DEF Word
    <3> QED BY <1>4, <3>1, SMT
  <2>2. (a * W + s) * W + (c * W + t) = (a * W + (s + c)) * W + t
    BY <1>4, <1>9, <1>10, SMT
  <2> QED BY <1>3, <1>9, <1>10, <2>1, <2>2
<1>14. h * P + c = a * W + (s + c)
  <2>1. a * W \in Int
    BY <1>4, <1>9, SMT
  <2> QED BY <1>4, <1>9, <1>10, <2>1
<1> QED BY <1>1, <1>9, <1>10, <1>11, <1>12, <1>13, <1>14

(* A word that is a multiple of P loses no bits when it is shifted back. *)
LEMMA ShiftedBack ==
  ASSUME NEW r \in Int, NEW P \in Nat \ {0}
  PROVE  (r * P) \div P = r
<1>1. PICK y : y = r * P
  OBVIOUS
<1>2. y \in Int /\ y = r * P + 0 /\ 0 \in 0..(P - 1)
  BY <1>1, SMT
<1>3. y \div P = r
  BY <1>2, Divided
<1> QED BY <1>1, <1>3

(* Quotient and remainder of operands with a common factor. *)
LEMMA CommonFactor ==
  ASSUME NEW n \in Nat, NEW d \in Nat \ {0}, NEW P \in Nat \ {0}
  PROVE  /\ (n * P) \div (d * P) = n \div d
         /\ (n * P) % (d * P) = (n % d) * P
<1>1. PICK q : q = n \div d
  OBVIOUS
<1>2. PICK r : r = n % d
  OBVIOUS
<1>3. n = q * d + r /\ q \in Nat /\ r \in 0..(d - 1)
  <2>1. n = d * q + r /\ q \in Nat /\ r \in 0..(d - 1)
    BY <1>1, <1>2, SMT
  <2>2. d * q = q * d
    BY <2>1, SMT
  <2> QED BY <2>1, <2>2
<1>4. PICK D : D = d * P
  OBVIOUS
<1>5. PICK R : R = r * P
  OBVIOUS
<1>6. PICK N : N = n * P
  OBVIOUS
<1>7. D \in Nat \ {0} /\ R \in Nat /\ N \in Int
  BY <1>3, <1>4, <1>5, <1>6, SMT
<1>8. R <= D - 1
  <2>1. (d - 1 - r) * P >= 0 /\ (d - 1 - r) * P = D - P - R
    BY <1>3, <1>4, <1>5, SMT
  <2> QED BY <1>7, <2>1
<1>9. N = q * D + R
  <2>1. (q * d + r) * P = q * (d * P) + r * P
    BY <1>3, SMT
  <2> QED BY <1>3, <1>4, <1>5, <1>6, <2>1
<1>10. N \div D = q /\ N % D = R
  BY <1>3, <1>7, <1>8, <1>9, Divided
<1> QED BY <1>1, <1>2, <1>4, <1>5, <1>6, <1>10

-----------------------------------------------------------------------------
(* Pairs of digits are ordered by the first digit. *)
LEMMA PairOrder ==
  ASSUME NEW w \in Nat \ {0}, NEW a \in Int, NEW b \in Int,
         NEW x \in 0..(w - 1), NEW y \in 0..(w - 1)
  PROVE  /\ a * w + x \in Int /\ b * w + y \in Int
         /\ a < b => a * w + x < b * w + y
<1>1. a * w \in Int /\ b * w \in Int
  BY SMT
<1>2. ASSUME a < b PROVE a * w + x < b * w + y
  <2>1. w * (b - a) >= w
    BY <1>2, Multiple
  <2>2. w * (b - a) = b * w - a * w
    BY SMT
  <2> QED BY <1>1, <2>1, <2>2
<1> QED BY <1>1, <1>2

(* Long division, one word of the quotient after the other. *)
LEMMA LongDivision ==
  ASSUME NEW D \in Nat \ {0}, NEW x \in Nat, NEW y \in Nat
  PROVE  /\ x % D \in 0..(D - 1) /\ x \div D \in Nat
         /\ (x * W + y) \div D = (x \div D) * W + (((x % D) * W + y) \div D)
         /\ (x * W + y) % D = ((x % D) * W + y) % D
<1>1. PICK w : w = W
  OBVIOUS
<1>2. w \in Nat
  BY <1>1, WordSize
<1>3. PICK q : q = x \div D
  OBVIOUS
<1>4. PICK r : r = x % D
  OBVIOUS
<1>5. x = D * q + r /\ q \in Nat /\ r \in 0..(D - 1)
  BY <1>3, <1>4, SMT
<1>6. PICK z : z = r * w + y
  OBVIOUS
<1>7. z \in Nat
  BY <1>2, <1>5, <1>6, SMT
<1>8. PICK p : p = z \div D
  OBVIOUS
<1>9. PICK s : s = z % D
  OBVIOUS
<1>10. z = D * p + s /\ p \in Nat /\ s \in 0..(D - 1)
  BY <1>7, <1>8, <1>9, SMT
<1>11. x * w + y = (q * w + p) * D + s
  <2>1. (D * q + r) * w = (q * w) * D + r * w
    BY <1>2, <1>5, SMT
  <2>2. (q * w + p) * D = (q * w) * D + D * p
    BY <1>2, <1>5, <1>10, SMT
  <2>3. (q * w) * D \in Int /\ D * p \in Int /\ r * w \in Int
    BY <1>2, <1>5, <1>10, SMT
  <2> QED BY <1>5, <1>6, <1>10, <2>1, <2>2, <2>3
<1>12. q * w + p \in Int /\ x * w + y \in Int
  BY <1>2, <1>5, <1>10, SMT
<1>13. (x * w + y) \div D = q * w + p /\ (x * w + y) % D = s
  BY <1>10, <1>11, <1>12, Divided
<1> QED BY <1>1, <1>3, <1>4, <1>5, <1>6, <1>8, <1>9, <1>13

(* A division of shifted operands: the remainder is shifted as well. *)
LEMMA ScaledDivision ==
  ASSUME NEW n \in Nat, NEW d \in Nat \ {0}, NEW P \in Nat \ {0}, NEW D, D = d * P,
         TopBitSet(D), NEW y1 \in 0..(D - 1), NEW y0 \in Word, y1 * W + y0 = n * P
  PROVE  udiv_qrnnd(y1, y0, D) = [q |-> n \div d, r |-> (n % d) * P]
<1>1. udiv_qrnnd(y1, y0, D) = [q |-> (y1 * W + y0) \div D, r |-> (y1 * W + y0) % D]
  BY DivisionExact
<1>2. (n * P) \div (d * P) = n \div d /\ (n * P) % (d * P) = (n % d) * P
  BY CommonFactor
<1> QED BY <1>1, <1>2, Zenon

(* The normalised divisor is the word the code shifts it to. *)
LEMMA DivisorShifted ==
  ASSUME NEW d \in Word, NEW bm, NEW P, NEW Q, Normalises(d, bm, P, Q)
  PROVE  ShiftLeft(d, bm) = d * P /\ d * P \in Nat \ {0} /\ d * P < W /\ P <= d * P
<1>1. P = TwoTo[bm] /\ P \in Nat \ {0} /\ TopBitSet(d * P)
  BY DEF Normalises
<1>2. PICK D : D = d * P
  OBVIOUS
<1>3. D \in Nat \ {0} /\ D < W
  BY <1>1, <1>2, MoreThanHalf
<1>4. D % W = D
  BY <1>3, Wrapped
<1>5. P <= D
  <2>1. d \in Nat /\ d # 0
    <3>1. d \in Nat
      BY WordSize DEF Word
    <3>2. d # 0
      <4>1. SUFFICES ASSUME d = 0 PROVE FALSE
        OBVIOUS
      <4>2. d * P = 0
        BY <1>1, <4>1
      <4> QED BY <1>2, <1>3, <4>2
    <3> QED BY <3>1, <3>2
  <2>2. P * d >= P /\ P * d = d * P
    BY <1>1, <2>1, SMT
  <2> QED BY <1>2, <2>2
<1> QED BY <1>1, <1>2, <1>3, <1>4, <1>5 DEF ShiftLeft

(* The first way of __udivmoddi4: one word of a quotient by one word. *)
LEMMA ToWord ==
  ASSUME NEW n \in DWord, NEW d \in Word, d > High(n)
  PROVE  DivideToWord(n, d) = [q |-> n \div d, r |-> n % d]
<1>1. PICK h : h = High(n)
  OBVIOUS
<1>2. PICK l : l = Low(n)
  OBVIOUS
<1>3. n = h * W + l /\ h \in Word /\ l \in Word /\ n \in Nat
  BY <1>1, <1>2, WordsOf
<1>4. h \in Nat /\ d \in Nat /\ h < d /\ d # 0 /\ W \in Nat \ {0}
  BY <1>1, <1>3, WordSize DEF Word
<1>5. PICK bm : bm = count_leading_zeros(d)
  OBVIOUS
<1>6. PICK P, Q : Normalises(d, bm, P, Q)
  BY <1>4, <1>5, LeadingZeros
<1>7. PICK D : D = d * P
  OBVIOUS
<1>8. ShiftLeft(d, bm) = D /\ D \in Nat \ {0} /\ D < W /\ P <= D
  BY <1>6, <1>7, DivisorShifted
<1>9. P \in Nat \ {0} /\ P = TwoTo[bm] /\ TopBitSet(D) /\ (bm = 0 <=> P = 1)
  BY <1>6, <1>7 DEF Normalises
<1> DEFINE good == [q |-> n \div d, r |-> (n % d) * P]
           m == Normalized(n, bm)
<1>10. (IF bm = 0 THEN udiv_qrnnd(h, l, d) ELSE udiv_qrnnd(m.n1, m.n0, D)) = good
  <2>1. CASE bm = 0
    <3>1. D = d /\ n * P = h * W + l
      <4>1. P = 1
        BY <1>9, <2>1
      <4> QED BY <1>3, <1>4, <1>7, <4>1
    <3>2. h \in 0..(D - 1)
      BY <1>4, <3>1
    <3>3. udiv_qrnnd(h, l, D) = good
      <4>1. /\ n \in Nat /\ d \in Nat \ {0} /\ P \in Nat \ {0} /\ D = d * P /\ TopBitSet(D)
            /\ h \in 0..(D - 1) /\ l \in Word /\ h * W + l = n * P
        BY <1>3, <1>4, <1>7, <1>9, <3>1, <3>2
      <4> QED BY <4>1, ScaledDivision
    <3> QED BY <2>1, <3>1, <3>3
  <2>2. CASE bm # 0
    <3>1. PICK a : a = m.n2
      OBVIOUS
    <3>2. PICK b : b = m.n1
      OBVIOUS
    <3>3. PICK c : c = m.n0
      OBVIOUS
    <3>4. /\ a \in 0..(P - 1) /\ b \in Word /\ c \in Word /\ n * P = (a * W + b) * W + c
          /\ \E e \in 0..(P - 1) : h * P + e = a * W + b
      <4>1. /\ m.n2 \in 0..(P - 1) /\ m.n1 \in Word /\ m.n0 \in Word
            /\ n * P = (m.n2 * W + m.n1) * W + m.n0
            /\ \E e \in 0..(P - 1) : High(n) * P + e = m.n2 * W + m.n1
        BY <1>6, DividendShifted
      <4> HIDE DEF m
      <4> QED BY <1>1, <3>1, <3>2, <3>3, <4>1
    <3>5. h * P + P <= D
      <4>1. (d - 1 - h) * P >= 0 /\ (d - 1 - h) * P = d * P - P - h * P /\ h * P \in Int
        BY <1>4, <1>9, SMT
      <4> QED BY <1>7, <1>8, <1>9, <4>1
    <3>6. a * W + b < D /\ a * W \in Nat
      <4>1. h * P \in Int /\ a * W \in Nat /\ b \in Nat
        BY <1>4, <1>9, <3>4, SMT DEF Word
      <4> QED BY <1>8, <1>9, <3>4, <3>5, <4>1
    <3>7. a = 0
      <4>1. SUFFICES ASSUME a >= 1 PROVE FALSE
        BY <1>9, <3>4
      <4>2. W * a >= W /\ W * a = a * W
        BY <1>4, <1>9, <3>4, <4>1, SMT
      <4>3. b \in Nat
        BY <3>4 DEF Word
      <4> QED BY <1>4, <1>8, <3>6, <4>2, <4>3
    <3>8. b \in 0..(D - 1) /\ n * P = b * W + c
      <4>1. a * W = 0 /\ b \in Nat
        BY <1>4, <3>4, <3>7, SMT DEF Word
      <4>2. a * W + b = b
        BY <4>1
      <4> QED BY <1>8, <3>4, <3>6, <4>1, <4>2
    <3>9. udiv_qrnnd(b, c, D) = good
      <4>1. /\ n \in Nat /\ d \in Nat \ {0} /\ P \in Nat \ {0} /\ D = d * P /\ TopBitSet(D)
            /\ b \in 0..(D - 1) /\ c \in Word /\ b * W + c = n * P
        BY <1>3, <1>4, <1>7, <1>9, <3>4, <3>8
      <4> QED BY <4>1, ScaledDivision
    <3> QED BY <2>2, <3>2, <3>3, <3>9
  <2> QED BY <2>1, <2>2
<1>11. ((n % d) * P) \div P = n % d
  <2>1. n % d \in Int
    BY <1>3, <1>4, SMT
  <2> QED BY <1>9, <2>1, ShiftedBack
<1>12. DivideToWord(n, d) = [q |-> good.q, r |-> ShiftRight(good.r, bm)]
  <2> HIDE DEF good
  <2> QED BY <1>1, <1>2, <1>5, <1>8, <1>10, Zenon DEF DivideToWord
<1>13. ShiftRight(good.r, bm) = n % d
  BY <1>9, <1>11 DEF ShiftRight
<1> QED BY <1>12, <1>13

(* The second way: two words of a quotient by one word. *)
LEMMA ByWord ==
  ASSUME NEW n \in DWord, NEW d \in Word, d # 0, d <= High(n)
  PROVE  DivideByWord(n, d) = [q |-> n \div d, r |-> n % d]
<1>1. PICK h : h = High(n)
  OBVIOUS
<1>2. PICK l : l = Low(n)
  OBVIOUS
<1>3. n = h * W + l /\ h \in Word /\ l \in Word /\ n \in Nat
  BY <1>1, <1>2, WordsOf
<1>4. h \in Nat /\ h < W /\ l \in Nat /\ l < W /\ d \in Nat \ {0} /\ d <= h /\ W \in Nat \ {0}
  BY <1>1, <1>3, WordSize DEF Word
<1>5. PICK bm : bm = count_leading_zeros(d)
  OBVIOUS
<1>6. PICK P, Q : Normalises(d, bm, P, Q)
  BY <1>4, <1>5, LeadingZeros
<1>7. PICK D : D = d * P
  OBVIOUS
<1>8. ShiftLeft(d, bm) = D /\ D \in Nat \ {0} /\ D < W /\ P <= D
  BY <1>6, <1>7, DivisorShifted
<1>9. P \in Nat \ {0} /\ P = TwoTo[bm] /\ TopBitSet(D) /\ (bm = 0 <=> P = 1)
  BY <1>6, <1>7 DEF Normalises
<1> DEFINE m == Normalized(n, bm)
           q1 == IF bm = 0 THEN [q |-> 1, r |-> h - d] ELSE udiv_qrnnd(m.n2, m.n1, D)
(* Both ways leave two words of n * P. *)
<1>10. PICK x \in Nat : /\ q1 = [q |-> x \div D, r |-> x % D]
                        /\ m.n0 \in Word /\ n * P = x * W + m.n0
  <2>1. CASE bm = 0
    <3>1. P = 1 /\ D = d
      BY <1>4, <1>7, <1>9, <2>1
    <3>2. W <= 2 * d
      BY <1>9, <3>1, MoreThanHalf
    <3>3. h = 1 * d + (h - d) /\ h - d \in 0..(d - 1)
      BY <1>4, <3>2
    <3>4. h \div d = 1 /\ h % d = h - d
      <4>1. h \in Int /\ 1 \in Int
        BY <1>4
      <4> QED BY <1>4, <3>3, <4>1, Divided
    <3>5. m.n0 = l
      <4>1. m.n0 = (l * P) % W
        BY <1>2, <1>9 DEF Normalized, ShiftLeft
      <4>2. l * P = l
        BY <1>4, <3>1
      <4>3. l % W = l
        BY <1>4, Wrapped
      <4> QED BY <4>1, <4>2, <4>3
    <3>6. n * P = h * W + l
      BY <1>3, <3>1
    <3> QED BY <1>3, <1>4, <2>1, <3>1, <3>4, <3>5, <3>6
  <2>2. CASE bm # 0
    <3>1. PICK a : a = m.n2
      OBVIOUS
    <3>2. PICK b : b = m.n1
      OBVIOUS
    <3>3. a \in 0..(P - 1) /\ b \in Word /\ m.n0 \in Word /\ n * P = (a * W + b) * W + m.n0
      <4>1. /\ m.n2 \in 0..(P - 1) /\ m.n1 \in Word /\ m.n0 \in Word
            /\ n * P = (m.n2 * W + m.n1) * W + m.n0
        BY <1>6, DividendShifted
      <4> HIDE DEF m
      <4> QED BY <3>1, <3>2, <4>1
    <3>4. a \in 0..(D - 1)
      BY <1>8, <1>9, <3>3
    <3>5. udiv_qrnnd(a, b, D) = [q |-> (a * W + b) \div D, r |-> (a * W + b) % D]
      BY <1>9, <3>3, <3>4, DivisionExact
    <3>6. a * W + b \in Nat
      BY <1>4, <3>3, SMT DEF Word
    <3>7. q1 = udiv_qrnnd(a, b, D)
      BY <2>2, <3>1, <3>2, Zenon
    <3> HIDE DEF q1, m
    <3> QED BY <3>3, <3>5, <3>6, <3>7
  <2> QED BY <2>1, <2>2
<1> HIDE DEF q1, m
<1>11. PICK c : c = m.n0
  OBVIOUS
<1>12. c \in Word /\ c \in Nat /\ n * P = x * W + c
  BY <1>10, <1>11 DEF Word
<1>13. PICK r1 : r1 = x % D
  OBVIOUS
<1>14. /\ r1 \in 0..(D - 1)
       /\ (x * W + c) \div D = (x \div D) * W + ((r1 * W + c) \div D)
       /\ (x * W + c) % D = (r1 * W + c) % D
  <2>1. D \in Nat \ {0} /\ x \in Nat /\ c \in Nat
    BY <1>8, <1>10, <1>12
  <2>2. /\ x % D \in 0..(D - 1)
        /\ (x * W + c) \div D = (x \div D) * W + (((x % D) * W + c) \div D)
        /\ (x * W + c) % D = ((x % D) * W + c) % D
    BY <2>1, LongDivision
  <2> QED BY <1>13, <2>2, Zenon
<1>15. udiv_qrnnd(r1, c, D) = [q |-> (r1 * W + c) \div D, r |-> (r1 * W + c) % D]
  BY <1>9, <1>12, <1>14, DivisionExact
<1>16. (n * P) \div (d * P) = n \div d /\ (n * P) % (d * P) = (n % d) * P
  <2>1. n \in Nat /\ d \in Nat \ {0} /\ P \in Nat \ {0}
    BY <1>3, <1>4, <1>9
  <2> QED BY <2>1, CommonFactor
<1>17. q1.q = x \div D /\ q1.r = r1
  BY <1>10, <1>13
<1>18. DivideByWord(n, d) =
         [q |-> Pair(x \div D, (r1 * W + c) \div D), r |-> ShiftRight((r1 * W + c) % D, bm)]
  <2>1. PICK e : e = udiv_qrnnd(r1, c, D)
    OBVIOUS
  <2>2. DivideByWord(n, d) = [q |-> Pair(q1.q, udiv_qrnnd(q1.r, m.n0, D).q),
                              r |-> ShiftRight(udiv_qrnnd(q1.r, m.n0, D).r, bm)]
    BY <1>1, <1>5, <1>8, Zenon DEF DivideByWord, q1, m
  <2>3. DivideByWord(n, d) = [q |-> Pair(x \div D, e.q), r |-> ShiftRight(e.r, bm)]
    BY <1>11, <1>17, <2>1, <2>2, Zenon
  <2>4. e.q = (r1 * W + c) \div D /\ e.r = (r1 * W + c) % D
    BY <1>15, <2>1
  <2> QED BY <2>3, <2>4, Zenon
<1>19. ShiftRight((n % d) * P, bm) = n % d
  <2>1. n % d \in Int
    BY <1>3, <1>4, SMT
  <2>2. ((n % d) * P) \div P = n % d
    BY <1>9, <2>1, ShiftedBack
  <2> QED BY <1>9, <2>2 DEF ShiftRight
<1>20. Pair(x \div D, (r1 * W + c) \div D) = n \div d
  BY <1>7, <1>12, <1>14, <1>16, Zenon DEF Pair
<1>21. (r1 * W + c) % D = (n % d) * P
  BY <1>7, <1>12, <1>14, <1>16, Zenon
<1> QED BY <1>18, <1>19, <1>20, <1>21, Zenon

(* The subtraction of double words, modulo their range. *)
LEMMA SubtractPair ==
  ASSUME NEW ah \in Word, NEW al \in Word, NEW bh \in Word, NEW bl \in Word
  PROVE  LET r == sub_ddmmss(ah, al, bh, bl)
         IN  /\ r.h \in Word /\ r.l \in Word
             /\ r.h * W + r.l = ((ah * W + al) - (bh * W + bl)) % (W * W)
<1>1. PICK w : w = W
  OBVIOUS
<1>2. w \in Nat \ {0} /\ Word = 0..(w - 1)
  BY <1>1, WordSize DEF Word
<1>3. PICK l : l = (al - bl) % W
  OBVIOUS
<1>4. PICK c : c = IF al < bl THEN 1 ELSE 0
  OBVIOUS
<1>5. l \in 0..(w - 1) /\ al - bl = l - c * w /\ c \in {0, 1} /\ (l > al <=> c = 1)
  <2>1. al \in 0..(w - 1) /\ bl \in 0..(w - 1)
    BY <1>2
  <2>2. l = IF al >= bl THEN al - bl ELSE al - bl + w
    BY <1>1, <1>2, <1>3, <2>1, Distance
  <2>3. c * w = IF al < bl THEN w ELSE 0
    BY <1>2, <1>4
  <2> QED BY <1>2, <1>4, <2>1, <2>2, <2>3
<1>6. PICK e : e = ah - bh - c
  OBVIOUS
<1>7. PICK h : h = e % w
  OBVIOUS
<1>8. PICK k : k = e \div w
  OBVIOUS
<1>9. e = w * k + h /\ h \in 0..(w - 1) /\ k \in Int
  BY <1>2, <1>5, <1>6, <1>7, <1>8, SMT
<1>10. sub_ddmmss(ah, al, bh, bl) = [h |-> h, l |-> l]
  <2>1. (IF l > al THEN 1 ELSE 0) = c
    BY <1>5
  <2>2. sub_ddmmss(ah, al, bh, bl)
          = [h |-> (ah - bh - (IF l > al THEN 1 ELSE 0)) % W, l |-> l]
    BY <1>3, Zenon DEF sub_ddmmss
  <2> QED BY <1>1, <1>6, <1>7, <2>1, <2>2, Zenon
<1>11. PICK x : x = (ah * w + al) - (bh * w + bl)
  OBVIOUS
<1>12. PICK y : y = h * w + l
  OBVIOUS
<1>13. y \in 0..(w * w - 1)
  <2>1. h \in Word /\ l \in Word
    BY <1>2, <1>5, <1>9
  <2>2. Pair(h, l) \in 0..(W * W - 1) /\ Pair(h, l) = h * W + l
    BY <2>1, PairOf DEF DWord
  <2> QED BY <1>1, <1>12, <2>2
<1>14. x = k * (w * w) + y
  <2>1. ah * w - bh * w = (e + c) * w /\ ah * w \in Int /\ bh * w \in Int
    <3>1. ah \in Int /\ bh \in Int /\ ah - bh = e + c
      BY <1>2, <1>5, <1>6
    <3>2. (ah - bh) * w = ah * w - bh * w /\ ah * w \in Int /\ bh * w \in Int
      BY <1>2, <3>1, SMT
    <3> QED BY <3>1, <3>2
  <2>2. (e + c) * w = (w * k + h) * w + c * w
    BY <1>2, <1>5, <1>9, SMT
  <2>3. (w * k + h) * w = k * (w * w) + h * w
    BY <1>2, <1>9, SMT
  <2>4. k * (w * w) \in Int /\ h * w \in Int /\ c * w \in Int /\ al \in Int /\ bl \in Int
    BY <1>2, <1>5, <1>9, SMT
  <2> QED BY <1>5, <1>11, <1>12, <2>1, <2>2, <2>3, <2>4
<1>15. x % (w * w) = y
  <2>1. w * w \in Nat \ {0} /\ x \in Int
    <3>1. ah \in Int /\ al \in Int /\ bh \in Int /\ bl \in Int
      BY <1>2
    <3> QED BY <1>2, <1>11, <3>1, SMT
  <2> QED BY <1>9, <1>13, <1>14, <2>1, Divided
<1>16. h \in Word /\ l \in Word
  BY <1>2, <1>5, <1>9
<1> QED BY <1>1, <1>10, <1>11, <1>12, <1>15, <1>16

(* A double word modulo their range. *)
LEMMA WrappedPair ==
  ASSUME NEW x \in Int
  PROVE  /\ x \in DWord => x % (W * W) = x
         /\ \A y \in Int, k \in Int : y \in DWord /\ x = k * (W * W) + y => x % (W * W) = y
<1>1. PICK w : w = W * W
  OBVIOUS
<1>2. w \in Nat \ {0}
  BY <1>1, WordSize, SMT
<1>3. ASSUME NEW y \in Int, NEW k \in Int, y \in 0..(w - 1), x = k * w + y PROVE x % w = y
  BY <1>2, <1>3, Divided
<1>4. ASSUME x \in 0..(w - 1) PROVE x % w = x
  <2>1. x = 0 * w + x
    BY <1>2
  <2> QED BY <1>3, <1>4, <2>1
<1> QED BY <1>1, <1>3, <1>4 DEF DWord

(* The third way: a normalised divisor of two words. *)
LEMMA ByNormalised ==
  ASSUME NEW n \in DWord, NEW d \in DWord, High(d) <= High(n), W <= 2 * High(d)
  PROVE  SubtractOnce(n, d) = [q |-> n \div d, r |-> n % d]
<1>1. PICK nh : nh = High(n)
  OBVIOUS
<1>2. PICK nl : nl = Low(n)
  OBVIOUS
<1>3. PICK dh : dh = High(d)
  OBVIOUS
<1>4. PICK dl : dl = Low(d)
  OBVIOUS
<1>5. /\ n = nh * W + nl /\ nh \in Word /\ nl \in Word /\ n \in Nat
      /\ d = dh * W + dl /\ dh \in Word /\ dl \in Word /\ d \in Nat
  BY <1>1, <1>2, <1>3, <1>4, WordsOf
<1>6. W \in Nat \ {0} /\ Word = 0..(W - 1) /\ dh <= nh /\ W <= 2 * dh
  BY <1>1, <1>3, WordSize DEF Word
<1>7. d # 0 /\ n < 2 * d
  <2>1. W * W <= 2 * (dh * W) /\ n < W * W
    <3>1. (2 * dh - W) * W >= 0 /\ (2 * dh - W) * W = 2 * (dh * W) - W * W
      BY <1>5, <1>6, SMT
    <3>2. dh * W \in Int /\ W * W \in Int
      BY <1>5, <1>6, SMT
    <3>3. n < W * W
      BY <3>2 DEF DWord
    <3> QED BY <3>1, <3>2, <3>3
  <2>2. dh * W \in Int /\ W * W \in Int /\ dl \in Nat
    BY <1>5, <1>6, SMT
  <2> QED BY <1>5, <2>1, <2>2
<1>8. nh > dh \/ nl >= dl <=> n >= d
  <2>1. nh > dh => n > d
    <3>1. dh < nh => dh * W + dl < nh * W + nl
      BY <1>5, <1>6, PairOrder
    <3> QED BY <1>5, <3>1
  <2>2. nh = dh => (nl >= dl <=> n >= d)
    <3>1. dh * W \in Int /\ nl \in Int /\ dl \in Int
      BY <1>5, <1>6, SMT
    <3> QED BY <1>5, <3>1
  <2> QED BY <1>5, <1>6, <2>1, <2>2
<1>9. PICK r : r = sub_ddmmss(nh, nl, dh, dl)
  OBVIOUS
<1>10. r.h \in Word /\ r.l \in Word /\ r.h * W + r.l = (n - d) % (W * W)
  <2>1. LET s == sub_ddmmss(nh, nl, dh, dl)
        IN  s.h \in Word /\ s.l \in Word
            /\ s.h * W + s.l = ((nh * W + nl) - (dh * W + dl)) % (W * W)
    BY <1>5, SubtractPair
  <2> QED BY <1>5, <1>9, <2>1, Zenon
<1>11. CASE n >= d
  <2>1. n = 1 * d + (n - d) /\ n - d \in 0..(d - 1)
    BY <1>5, <1>7, <1>11
  <2>2. n \div d = 1 /\ n % d = n - d
    <3>1. d \in Nat \ {0} /\ 1 \in Int /\ n \in Int
      BY <1>5, <1>7
    <3> QED BY <2>1, <3>1, Divided
  <2>3. n - d \in DWord
    <3>1. W * W \in Int /\ n < W * W
      BY <1>6, SMT DEF DWord
    <3>2. n - d \in 0..(W * W - 1)
      BY <1>5, <1>11, <3>1
    <3> QED BY <3>2 DEF DWord
  <2>4. (n - d) % (W * W) = n - d
    <3>1. n - d \in Int
      BY <1>5
    <3> QED BY <2>3, <3>1, WrappedPair
  <2>5. SubtractOnce(n, d) = [q |-> 1, r |-> Pair(r.h, r.l)]
    BY <1>1, <1>2, <1>3, <1>4, <1>8, <1>9, <1>11 DEF SubtractOnce
  <2> QED BY <1>10, <2>2, <2>4, <2>5 DEF Pair
<1>12. CASE ~(n >= d)
  <2>1. n = 0 * d + n /\ n \in 0..(d - 1)
    BY <1>5, <1>7, <1>12
  <2>2. n \div d = 0 /\ n % d = n
    <3>1. d \in Nat \ {0} /\ 0 \in Int /\ n \in Int
      BY <1>5, <1>7
    <3> QED BY <2>1, <3>1, Divided
  <2>3. SubtractOnce(n, d) = [q |-> 0, r |-> n]
    BY <1>1, <1>2, <1>3, <1>4, <1>8, <1>12 DEF SubtractOnce
  <2> QED BY <2>2, <2>3
<1> QED BY <1>11, <1>12

(* A remainder of two words is shifted back by bm bits. *)
LEMMA PairShiftedBack ==
  ASSUME NEW h \in Word, NEW l \in Word, NEW P \in Nat \ {0}, NEW Q \in Nat \ {0}, P * Q = W
  PROVE  Pair(h \div P, ((h * Q) % W) + (l \div P)) = (h * W + l) \div P
<1>1. h \in Nat /\ l \in Nat /\ W \in Nat
  BY WordSize DEF Word
<1>2. PICK a : a = h \div P
  OBVIOUS
<1>3. PICK s : s = (h * Q) % W
  OBVIOUS
<1>4. PICK c : c = l \div P
  OBVIOUS
<1>5. PICK t : t = l % P
  OBVIOUS
<1>6. h * Q = a * W + s /\ a \in Int /\ s \in Int
  <2>1. Q * P = W
    BY SMT
  <2>2. /\ h * Q = (h \div P) * W + ((h * Q) % W) /\ h \div P \in 0..(Q - 1)
        /\ (h * Q) % W \in 0..(W - Q)
    <3>1. h \in Word /\ P \in Nat \ {0} /\ Q \in Nat \ {0} /\ Q * P = W
      BY <2>1
    <3> QED BY <3>1, WordShifted
  <2> QED BY <1>2, <1>3, <2>2
<1>7. l = P * c + t /\ c \in Nat /\ t \in 0..(P - 1)
  BY <1>1, <1>4, <1>5, SMT
<1>8. h * W + l = (h * Q + c) * P + t
  <2>1. (h * Q + c) * P = h * (P * Q) + P * c
    BY <1>1, <1>7, SMT
  <2>2. h * (P * Q) = h * W /\ h * W \in Int /\ P * c \in Int
    BY <1>1, <1>7, SMT
  <2> QED BY <1>7, <2>1, <2>2
<1>9. h * Q + c \in Int /\ h * W + l \in Int
  BY <1>1, <1>7, SMT
<1>10. (h * W + l) \div P = h * Q + c
  <2>1. PICK y : y = h * W + l
    OBVIOUS
  <2>2. PICK m : m = h * Q + c
    OBVIOUS
  <2>3. y \in Int /\ m \in Int /\ y = m * P + t
    BY <1>8, <1>9, <2>1, <2>2
  <2>4. y \div P = m
    BY <1>7, <2>3, Divided
  <2> QED BY <2>1, <2>2, <2>4
<1>11. h * Q + c = a * W + (s + c)
  <2>1. a * W \in Int
    BY <1>1, <1>6, SMT
  <2> QED BY <1>6, <1>7, <2>1
<1> QED BY <1>2, <1>3, <1>4, <1>10, <1>11 DEF Pair

(* The estimate q of a quotient from the high words, and its only          *)
(* correction: s is 1 when the estimate is too large.                      *)
HighEstimate(x, n0, d1, d0, q, r, s, R) ==
  /\ q \in Word /\ r \in Word /\ s \in {0, 1} /\ d0 * q \in DWord
  /\ s = 1 <=> d0 * q > r * W + n0
  /\ R = (r * W + n0) - d0 * q + s * (d1 * W + d0)
  /\ R \in Nat /\ R < d1 * W + d0
  /\ x * W + n0 = (q - s) * (d1 * W + d0) + R

(* The divisor is shifted by at least one bit, so that the dividend leaves *)
(* the upper half of its high word empty, and d0 ends with as many zeros.  *)
LEMMA EstimatedByHigh ==
  ASSUME NEW P \in Nat \ {0}, 2 * P = W \/ 4 * P <= W,
         NEW d1 \in Word, W <= 2 * d1, NEW d0 \in 0..(W - P),
         NEW x \in Nat, x < P * W, NEW n0 \in Word
  PROVE  \E s, R : HighEstimate(x, n0, d1, d0, x \div d1, x % d1, s, R)
<1>1. PICK w : w = W
  OBVIOUS
<1>2. w \in Nat \ {0} /\ Word = 0..(w - 1) /\ d1 \in 1..(w - 1) /\ n0 \in 0..(w - 1)
      /\ w <= 2 * d1 /\ d0 \in 0..(w - P) /\ (2 * P = w \/ 4 * P <= w)
  BY <1>1, WordSize DEF Word
<1>3. PICK q : q = x \div d1
  OBVIOUS
<1>4. PICK r : r = x % d1
  OBVIOUS
<1>5. x = d1 * q + r /\ q \in Nat /\ r \in 0..(d1 - 1)
  BY <1>2, <1>3, <1>4, SMT
<1>6. PICK a : a = d1 * q
  OBVIOUS
<1>7. PICK p : p = d0 * q
  OBVIOUS
<1>8. PICK e : e = d1 * w
  OBVIOUS
<1>9. PICK f : f = P * w
  OBVIOUS
<1>10. a \in Nat /\ p \in Nat /\ e \in Nat /\ f \in Nat /\ x = a + r /\ x < f
  BY <1>1, <1>2, <1>5, <1>6, <1>7, <1>8, <1>9, SMT
(* The estimate is below 2 * P. *)
<1>11. q < 2 * P
  <2>1. SUFFICES ASSUME q >= 2 * P PROVE FALSE
    BY <1>5
  <2>2. d1 * (q - 2 * P) >= 0 /\ d1 * (q - 2 * P) = a - 2 * (d1 * P)
    BY <1>2, <1>5, <1>6, <2>1, SMT
  <2>3. (2 * d1 - w) * P >= 0 /\ (2 * d1 - w) * P = 2 * (d1 * P) - f
    BY <1>2, <1>9, SMT
  <2>4. d1 * P \in Int
    BY <1>2, SMT
  <2> QED BY <1>5, <1>10, <2>2, <2>3, <2>4
<1>12. q \in 0..(w - 1)
  BY <1>2, <1>5, <1>11
<1>13. p <= e
  <2>1. CASE 4 * P <= w
    <3>1. q <= d1
      BY <1>2, <1>5, <1>11, <2>1
    <3>2. (d1 - q) * w >= 0 /\ (d1 - q) * w = e - q * w
      BY <1>2, <1>5, <1>8, <3>1, SMT
    <3>3. q * (w - d0) >= 0 /\ q * (w - d0) = q * w - p
      BY <1>2, <1>5, <1>7, SMT
    <3>4. q * w \in Int
      BY <1>2, <1>5, SMT
    <3> QED BY <1>10, <3>2, <3>3, <3>4
  <2>2. CASE 2 * P = w
    <3>1. d0 <= P
      BY <1>2, <2>2
    <3>2. q * (P - d0) >= 0 /\ q * (P - d0) = q * P - p
      BY <1>2, <1>5, <1>7, <3>1, SMT
    <3>3. (2 * d1 - q) * P >= 0 /\ (2 * d1 - q) * P = d1 * (2 * P) - q * P
      BY <1>2, <1>12, SMT
    <3>4. d1 * (2 * P) = e /\ q * P \in Int
      BY <1>2, <1>5, <1>8, <2>2, SMT
    <3> QED BY <1>10, <3>2, <3>3, <3>4
  <2> QED BY <1>2, <2>1, <2>2
<1>14. PICK g : g = r * w
  OBVIOUS
<1>15. g \in Nat /\ g + n0 < e
  <2>1. (d1 - 1 - r) * w >= 0 /\ (d1 - 1 - r) * w = e - w - g
    BY <1>2, <1>5, <1>8, <1>14, SMT
  <2>2. g \in Nat
    BY <1>2, <1>5, <1>14, SMT
  <2> QED BY <1>2, <1>10, <2>1, <2>2
<1>16. PICK D : D = e + d0
  OBVIOUS
<1>17. PICK s : s = IF p > g + n0 THEN 1 ELSE 0
  OBVIOUS
<1>18. PICK R : R = (g + n0) - p + (IF s = 1 THEN D ELSE 0)
  OBVIOUS
<1>19. R \in 0..(D - 1) /\ s \in {0, 1} /\ (s = 1 <=> p > g + n0)
  BY <1>2, <1>10, <1>13, <1>15, <1>16, <1>17, <1>18
<1>20. s * D = IF s = 1 THEN D ELSE 0
  BY <1>2, <1>10, <1>16, <1>19
<1>21. x * w + n0 = (q - s) * D + R
  <2>1. (q - s) * D = q * D - s * D /\ q * D \in Int /\ s * D \in Int
    BY <1>2, <1>5, <1>10, <1>16, <1>19, SMT
  <2>2. q * D = q * e + p /\ q * e \in Int
    BY <1>2, <1>5, <1>7, <1>10, <1>16, SMT
  <2>3. x * w = q * e + g
    <3>1. (d1 * q + r) * w = q * (d1 * w) + r * w
      BY <1>2, <1>5, SMT
    <3> QED BY <1>5, <1>8, <1>14, <3>1
  <2>4. R = (g + n0) - p + s * D
    BY <1>18, <1>20
  <2>5. PICK i : i = q * e
    OBVIOUS
  <2>6. PICK j : j = s * D
    OBVIOUS
  <2>7. i \in Int /\ j \in Int /\ R = (g + n0) - p + j
    BY <2>1, <2>2, <2>4, <2>5, <2>6
  <2>8. q * D = i + p /\ x * w = i + g
    BY <2>2, <2>3, <2>5
  <2>9. (q - s) * D = (i + p) - j
    BY <2>1, <2>6, <2>8
  <2> QED BY <1>2, <1>10, <1>15, <2>7, <2>8, <2>9
<1>22. p \in 0..(w * w - 1)
  <2>1. (w - 1 - d1) * w >= 0 /\ (w - 1 - d1) * w = w * w - w - e /\ w * w \in Int
    BY <1>2, <1>8, SMT
  <2> QED BY <1>2, <1>10, <1>13, <2>1
<1>23. HighEstimate(x, n0, d1, d0, q, r, s, R)
  <2>1. q \in Word /\ r \in Word
    BY <1>2, <1>5, <1>12
  <2>2. d0 * q \in DWord
    BY <1>1, <1>7, <1>22 DEF DWord
  <2>3. D = d1 * W + d0 /\ r * W = g /\ d0 * q = p
    BY <1>1, <1>7, <1>8, <1>14, <1>16
  <2>4. R = (r * W + n0) - d0 * q + s * (d1 * W + d0)
    BY <1>18, <1>20, <2>3, Zenon
  <2>5. R \in Nat /\ R < d1 * W + d0
    <3>1. R \in Nat /\ R < D
      BY <1>2, <1>10, <1>16, <1>19
    <3> QED BY <2>3, <3>1, Zenon
  <2>7. s = 1 <=> d0 * q > r * W + n0
    BY <1>19, <2>3, Zenon
  <2>8. s \in {0, 1}
    BY <1>19
  <2>6. x * W + n0 = (q - s) * (d1 * W + d0) + R
    BY <1>1, <1>21, <2>3, Zenon
  <2> QED BY <2>1, <2>2, <2>4, <2>5, <2>6, <2>7, <2>8, Zenon DEF HighEstimate
<1> QED BY <1>3, <1>4, <1>23

(* Double words are compared by their high words first. *)
LEMMA ComparedPairs ==
  ASSUME NEW a \in Word, NEW b \in Word, NEW x \in Word, NEW y \in Word
  PROVE  a > b \/ (a = b /\ x > y) <=> a * W + x > b * W + y
<1>1. PICK w : w = W
  OBVIOUS
<1>2. w \in Nat \ {0} /\ a \in Int /\ b \in Int /\ x \in 0..(w - 1) /\ y \in 0..(w - 1)
  BY <1>1, WordSize DEF Word
<1>3. PICK i : i = a * w
  OBVIOUS
<1>4. PICK j : j = b * w
  OBVIOUS
<1>5. i + x \in Int /\ j + y \in Int /\ (a < b => i + x < j + y)
  BY <1>2, <1>3, <1>4, PairOrder
<1>6. b < a => j + y < i + x
  BY <1>2, <1>3, <1>4, PairOrder
<1>7. a = b => i = j
  BY <1>3, <1>4
<1>8. i \in Int /\ j \in Int
  BY <1>2, <1>3, <1>4, SMT
<1>9. a > b \/ (a = b /\ x > y) <=> i + x > j + y
  BY <1>2, <1>5, <1>6, <1>7, <1>8
<1> QED BY <1>1, <1>3, <1>4, <1>9

(* A divisor of two words is shifted left until its high word has the most *)
(* significant bit set.                                                    *)
LEMMA DivisorPair ==
  ASSUME NEW d \in DWord, NEW bm, NEW P, NEW Q, Normalises(High(d), bm, P, Q)
  PROVE  LET d1 == ShiftLeft(High(d), bm) + ShiftRight(Low(d), SI_TYPE_SIZE - bm)
             d0 == ShiftLeft(Low(d), bm)
         IN  /\ d1 \in Word /\ TopBitSet(d1) /\ W <= 2 * d1 /\ P <= d1
             /\ d0 \in 0..(W - P) /\ d1 * W + d0 = d * P
<1>1. PICK h : h = High(d)
  OBVIOUS
<1>2. PICK l : l = Low(d)
  OBVIOUS
<1>3. d = h * W + l /\ h \in Word /\ l \in Word
  BY <1>1, <1>2, WordsOf
<1>4. /\ P \in Nat \ {0} /\ Q \in Nat \ {0} /\ P * Q = W /\ W \in Nat \ {0}
      /\ P = TwoTo[bm] /\ Q = TwoTo[SI_TYPE_SIZE - bm] /\ TopBitSet(h * P)
  BY <1>1, WordSize DEF Normalises
<1>5. PICK e : e = h * P
  OBVIOUS
<1>6. ShiftLeft(h, bm) = e /\ e \in Nat \ {0} /\ e < W /\ P <= e /\ e % W = e
  <2>1. ShiftLeft(h, bm) = e /\ e \in Nat \ {0} /\ e < W /\ P <= e
    BY <1>1, <1>3, <1>5, DivisorShifted
  <2> QED BY <2>1, Wrapped
<1>7. e <= W - P
  <2>1. (h * P) % W \in 0..(W - P)
    <3>1. h \in Word /\ P \in Nat \ {0} /\ Q \in Nat \ {0} /\ P * Q = W
      BY <1>3, <1>4
    <3> QED BY <3>1, WordShifted
  <2> QED BY <1>4, <1>5, <1>6, <2>1
<1>8. PICK c : c = l \div Q
  OBVIOUS
<1>9. PICK t : t = (l * P) % W
  OBVIOUS
<1>10. l * P = c * W + t /\ c \in 0..(P - 1) /\ t \in 0..(W - P)
  <2>1. /\ l * P = (l \div Q) * W + ((l * P) % W)
        /\ l \div Q \in 0..(P - 1) /\ (l * P) % W \in 0..(W - P)
    <3>1. l \in Word /\ P \in Nat \ {0} /\ Q \in Nat \ {0} /\ P * Q = W
      BY <1>3, <1>4
    <3> QED BY <3>1, WordShifted
  <2> QED BY <1>8, <1>9, <2>1, Zenon
<1>11. ShiftRight(l, SI_TYPE_SIZE - bm) = c /\ ShiftLeft(l, bm) = t
  BY <1>4, <1>8, <1>9 DEF ShiftRight, ShiftLeft
<1>12. W <= 2 * e
  BY <1>4, <1>5, MoreThanHalf
<1>13. PICK f : f = e + c
  OBVIOUS
<1>14. f \in Nat /\ f < W /\ W <= 2 * f /\ P <= f
  BY <1>4, <1>6, <1>7, <1>10, <1>12, <1>13
<1>15. f \in Word /\ TopBitSet(f)
  BY <1>4, <1>14, TopBit DEF Word
<1>16. f * W + t = d * P
  <2>1. f * W = e * W + c * W /\ e * W \in Int /\ c * W \in Int
    BY <1>4, <1>6, <1>10, <1>13, SMT
  <2>2. (h * W + l) * P = e * W + l * P
    <3>1. h \in Nat /\ l \in Nat
      BY <1>3, <1>4 DEF Word
    <3>2. (h * W + l) * P = (h * P) * W + l * P
      BY <1>4, <3>1, SMT
    <3> QED BY <1>5, <3>2
  <2>3. l * P \in Int
    BY <1>4, <1>10, <2>1
  <2> QED BY <1>3, <1>4, <1>10, <2>1, <2>2, <2>3
<1> QED BY <1>1, <1>2, <1>6, <1>10, <1>11, <1>13, <1>14, <1>15, <1>16

(* What is left of (r, n0) when (h, l) is subtracted, modulo the range of  *)
(* double words.                                                           *)
LEMMA Remaining ==
  ASSUME NEW r \in Word, NEW n0 \in Word, NEW h \in Word, NEW l \in Word,
         NEW R \in DWord, NEW k \in Int,
         (r * W + n0) - (h * W + l) = k * (W * W) + R
  PROVE  LET s == sub_ddmmss(r, n0, h, l)
         IN  s.h \in Word /\ s.l \in Word /\ s.h * W + s.l = R
<1>1. PICK x : x = (r * W + n0) - (h * W + l)
  OBVIOUS
<1>2. LET s == sub_ddmmss(r, n0, h, l)
      IN  s.h \in Word /\ s.l \in Word
          /\ s.h * W + s.l = ((r * W + n0) - (h * W + l)) % (W * W)
  BY SubtractPair
<1>3. x \in Int /\ R \in Int /\ x = k * (W * W) + R
  <2>1. W \in Nat /\ r \in Int /\ n0 \in Int /\ h \in Int /\ l \in Int
    BY WordSize DEF Word
  <2>2. x \in Int
    BY <1>1, <2>1, SMT
  <2>3. R \in Int
    BY WordsOf
  <2> QED BY <1>1, <2>2, <2>3
<1>4. x % (W * W) = R
  BY <1>3, WrappedPair
<1> QED BY <1>1, <1>2, <1>4, Zenon

(* The pair that a remainder R, a multiple of P, is shifted back to. *)
LEMMA RemainderShifted ==
  ASSUME NEW h \in Word, NEW l \in Word, NEW bm, NEW P, NEW Q, NEW d,
         Normalises(d, bm, P, Q), NEW r \in Int, h * W + l = r * P
  PROVE  Pair(ShiftRight(h, bm), ShiftLeft(h, SI_TYPE_SIZE - bm) + ShiftRight(l, bm)) = r
<1>1. /\ P \in Nat \ {0} /\ Q \in Nat \ {0} /\ P * Q = W
      /\ P = TwoTo[bm] /\ Q = TwoTo[SI_TYPE_SIZE - bm]
  BY DEF Normalises
<1>2. Pair(h \div P, ((h * Q) % W) + (l \div P)) = (h * W + l) \div P
  BY <1>1, PairShiftedBack
<1>3. (r * P) \div P = r
  BY <1>1, ShiftedBack
<1> QED BY <1>1, <1>2, <1>3, Zenon DEF ShiftRight, ShiftLeft

(* The last steps of DivideByHigh, from the estimate f of the quotient and *)
(* the product p of the estimate and the low digit d0 of the divisor.      *)
HighDigit(d, bm) == ShiftLeft(High(d), bm) + ShiftRight(Low(d), SI_TYPE_SIZE - bm)

Left(r, n0, t, bm) ==
  LET c == sub_ddmmss(r, n0, t.h, t.l)
  IN  Pair(ShiftRight(c.h, bm), ShiftLeft(c.h, SI_TYPE_SIZE - bm) + ShiftRight(c.l, bm))

Adjusted(f, n0, d1, d0, p, bm) ==
  IF p.h > f.r \/ (p.h = f.r /\ p.l > n0)
  THEN [q |-> f.q - 1, r |-> Left(f.r, n0, sub_ddmmss(p.h, p.l, d1, d0), bm)]
  ELSE [q |-> f.q, r |-> Left(f.r, n0, p, bm)]

(* The fourth way: a divisor of two words that must be shifted.            *)
LEMMA ByHigh ==
  ASSUME NEW n \in DWord, NEW d \in DWord, High(d) # 0, count_leading_zeros(High(d)) # 0
  PROVE  DivideByHigh(n, d) = [q |-> n \div d, r |-> n % d]
<1>1. PICK bm : bm = count_leading_zeros(High(d))
  OBVIOUS
<1>2. PICK P, Q : Normalises(High(d), bm, P, Q)
  <2>1. High(d) \in Word
    BY WordsOf
  <2> QED BY <1>1, <2>1, LeadingZeros
<1>3. /\ P \in Nat \ {0} /\ P * Q = W /\ (2 * P = W \/ 4 * P <= W)
      /\ P = TwoTo[bm] /\ Q = TwoTo[SI_TYPE_SIZE - bm]
      /\ W \in Nat \ {0} /\ Word = 0..(W - 1)
  BY <1>2, WordSize DEF Normalises, Word
<1>4. n \in Nat /\ d \in Nat \ {0}
  <2>1. n \in Nat /\ d \in Nat
    BY WordsOf
  <2>2. d # 0
    <3>1. SUFFICES ASSUME d = 0 PROVE FALSE
      OBVIOUS
    <3>2. 0 = W * 0 + 0 /\ 0 \in 0..(W - 1) /\ 0 \in Int /\ W \in Nat \ {0}
      BY <1>3
    <3>3. 0 \div W = 0
      BY <3>2, Quotient
    <3> QED BY <3>1, <3>3 DEF High
  <2> QED BY <2>1, <2>2
<1>5. PICK d1 : d1 = ShiftLeft(High(d), bm) + ShiftRight(Low(d), SI_TYPE_SIZE - bm)
  OBVIOUS
<1>6. PICK d0 : d0 = ShiftLeft(Low(d), bm)
  OBVIOUS
<1>7. PICK D : D = d1 * W + d0
  OBVIOUS
<1>8. /\ d1 \in Word /\ TopBitSet(d1) /\ W <= 2 * d1 /\ P <= d1
      /\ d0 \in 0..(W - P) /\ D = d * P /\ d0 \in Word
  <2>1. LET a == ShiftLeft(High(d), bm) + ShiftRight(Low(d), SI_TYPE_SIZE - bm)
            b == ShiftLeft(Low(d), bm)
        IN  /\ a \in Word /\ TopBitSet(a) /\ W <= 2 * a /\ P <= a
            /\ b \in 0..(W - P) /\ a * W + b = d * P
    BY <1>2, DivisorPair
  <2>2. /\ d1 \in Word /\ TopBitSet(d1) /\ W <= 2 * d1 /\ P <= d1
        /\ d0 \in 0..(W - P) /\ d1 * W + d0 = d * P
    BY <1>5, <1>6, <2>1, Zenon
  <2> QED BY <1>3, <1>7, <2>2
<1>9. PICK n2 : n2 = Normalized(n, bm).n2
  OBVIOUS
<1>10. PICK n1 : n1 = Normalized(n, bm).n1
  OBVIOUS
<1>11. PICK n0 : n0 = Normalized(n, bm).n0
  OBVIOUS
<1>12. n2 \in 0..(P - 1) /\ n1 \in Word /\ n0 \in Word /\ n * P = (n2 * W + n1) * W + n0
  <2>1. LET m == Normalized(n, bm)
        IN  /\ m.n2 \in 0..(P - 1) /\ m.n1 \in Word /\ m.n0 \in Word
            /\ n * P = (m.n2 * W + m.n1) * W + m.n0
            /\ \E c \in 0..(P - 1) : High(n) * P + c = m.n2 * W + m.n1
    BY <1>2, DividendShifted
  <2> QED BY <1>9, <1>10, <1>11, <2>1, Zenon
<1>13. PICK x : x = n2 * W + n1
  OBVIOUS
<1>14. x \in Nat /\ x < P * W
  <2>1. P \in Nat \ {0} /\ W \in Nat \ {0} /\ n2 \in 0..(P - 1) /\ n1 \in 0..(W - 1)
    BY <1>3, <1>12
  <2>2. PICK a : a = n2 * W
    OBVIOUS
  <2>3. PICK b : b = P * W
    OBVIOUS
  <2>4. (P - 1 - n2) * W >= 0 /\ (P - 1 - n2) * W = b - W - a
    BY <2>1, <2>2, <2>3, SMT
  <2>5. a \in Nat /\ b \in Int
    BY <2>1, <2>2, <2>3, SMT
  <2> QED BY <1>13, <2>1, <2>2, <2>3, <2>4, <2>5
<1>15. PICK q : q = x \div d1
  OBVIOUS
<1>16. PICK r : r = x % d1
  OBVIOUS
<1>17. udiv_qrnnd(n2, n1, d1) = [q |-> q, r |-> r]
  <2>1. n2 \in 0..(d1 - 1)
    BY <1>3, <1>8, <1>12
  <2>2. udiv_qrnnd(n2, n1, d1) = [q |-> (n2 * W + n1) \div d1, r |-> (n2 * W + n1) % d1]
    BY <1>8, <1>12, <2>1, DivisionExact
  <2> QED BY <1>13, <1>15, <1>16, <2>2, Zenon
<1>18. PICK s, R : HighEstimate(x, n0, d1, d0, q, r, s, R)
  <2>1. \E s, R : HighEstimate(x, n0, d1, d0, x \div d1, x % d1, s, R)
    BY <1>3, <1>8, <1>12, <1>14, EstimatedByHigh
  <2> QED BY <1>15, <1>16, <2>1, Zenon
<1>19. /\ q \in Word /\ r \in Word /\ s \in {0, 1} /\ d0 * q \in DWord
       /\ R \in Nat /\ R < D
  BY <1>7, <1>18, Zenon DEF HighEstimate
<1>20. PICK y : y = d0 * q
  OBVIOUS
<1>21. PICK z : z = r * W + n0
  OBVIOUS
<1>22. (s = 1 <=> y > z) /\ R = z - y + s * D /\ n * P = (q - s) * D + R
  <2>1. (s = 1 <=> y > z) /\ R = z - y + s * D
    BY <1>7, <1>18, <1>20, <1>21, Zenon DEF HighEstimate
  <2>2. x * W + n0 = (q - s) * D + R
    BY <1>7, <1>18, Zenon DEF HighEstimate
  <2> QED BY <1>12, <1>13, <2>1, <2>2, Zenon
(* The corrected quotient and the remainder are the right ones. *)
<1>23. n \div d = q - s /\ (n % d) * P = R /\ n % d \in Int
  <2>1. (n * P) \div (d * P) = n \div d /\ (n * P) % (d * P) = (n % d) * P
    <3>1. n \in Nat /\ d \in Nat \ {0} /\ P \in Nat \ {0}
      BY <1>3, <1>4
    <3> QED BY <3>1, CommonFactor
  <2>2. PICK N : N = n * P
    OBVIOUS
  <2>3. D \in Nat \ {0} /\ N \in Int /\ q - s \in Int /\ R \in 0..(D - 1)
    <3>1. P \in Nat \ {0} /\ q \in Int /\ s \in Int
      BY <1>3, <1>19
    <3>2. P * d >= P /\ P * d = d * P
      BY <1>4, <3>1, SMT
    <3>3. N \in Int /\ d * P \in Int
      BY <1>4, <2>2, <3>1, SMT
    <3>4. D \in Nat \ {0}
      BY <1>8, <3>1, <3>2, <3>3
    <3> QED BY <1>19, <3>1, <3>3, <3>4
  <2>4. N = (q - s) * D + R
    BY <1>22, <2>2
  <2>5. N \div D = q - s /\ N % D = R
    <3>1. PICK m : m = q - s
      OBVIOUS
    <3>2. m \in Int /\ N = m * D + R
      BY <2>3, <2>4, <3>1
    <3>3. N \div D = m /\ N % D = R
      BY <2>3, <3>2, Divided
    <3> QED BY <3>1, <3>3
  <2>6. n % d \in Int
    BY <1>4, SMT
  <2> QED BY <1>8, <2>1, <2>2, <2>5, <2>6, Zenon
<1>24. R \in DWord
  <2>1. Pair(d1, d0) \in DWord /\ Pair(d1, d0) = d1 * W + d0
    BY <1>8, PairOf
  <2>2. D \in DWord /\ W * W \in Int
    BY <1>3, <1>7, <2>1, SMT
  <2>3. R \in Nat /\ R < D
    BY <1>19
  <2> QED BY <2>2, <2>3 DEF DWord
<1>25. PICK p : p = umul_ppmm(q, d0)
  OBVIOUS
<1>26. p.h \in Word /\ p.l \in Word /\ p.h * W + p.l = y
  <2>1. q * d0 = y
    BY <1>3, <1>8, <1>19, <1>20, SMT
  <2>2. p.h = High(y) /\ p.l = Low(y)
    BY <1>25, <2>1 DEF umul_ppmm, High, Low
  <2>3. y = High(y) * W + Low(y) /\ High(y) \in Word /\ Low(y) \in Word
    BY <1>19, <1>20, WordsOf
  <2> QED BY <2>2, <2>3, Zenon
<1>27. p.h > r \/ (p.h = r /\ p.l > n0) <=> s = 1
  <2>1. p.h > r \/ (p.h = r /\ p.l > n0) <=> p.h * W + p.l > r * W + n0
    BY <1>12, <1>19, <1>26, ComparedPairs
  <2> QED BY <1>21, <1>22, <1>26, <2>1, Zenon
<1>28. y \in Int /\ z \in Int /\ D \in Int /\ R \in Int /\ W * W \in Int
  <2>1. r \in Nat /\ n0 \in Nat
    BY <1>3, <1>12, <1>19
  <2> QED BY <1>3, <1>4, <1>8, <1>19, <1>20, <1>21, <2>1, SMT DEF DWord
(* The pair that is subtracted, and what it is, modulo W * W. *)
<1>29. PICK t : t = IF s = 1 THEN sub_ddmmss(p.h, p.l, d1, d0) ELSE p
  OBVIOUS
<1>30. PICK k \in Int : /\ t.h \in Word /\ t.l \in Word
                        /\ z - (t.h * W + t.l) = k * (W * W) + R
  <2>1. CASE s = 1
    <3>1. /\ t.h \in Word /\ t.l \in Word
          /\ t.h * W + t.l = (y - D) % (W * W)
      <4>1. LET e == sub_ddmmss(p.h, p.l, d1, d0)
            IN  /\ e.h \in Word /\ e.l \in Word
                /\ e.h * W + e.l = ((p.h * W + p.l) - (d1 * W + d0)) % (W * W)
        <5>1. PICK ph : ph = p.h
          OBVIOUS
        <5>2. PICK pl : pl = p.l
          OBVIOUS
        <5>3. ph \in Word /\ pl \in Word /\ d1 \in Word /\ d0 \in Word
          BY <1>8, <1>26, <5>1, <5>2
        <5>4. LET e == sub_ddmmss(ph, pl, d1, d0)
              IN  /\ e.h \in Word /\ e.l \in Word
                  /\ e.h * W + e.l = ((ph * W + pl) - (d1 * W + d0)) % (W * W)
          BY <5>3, SubtractPair
        <5> QED BY <5>1, <5>2, <5>4, Zenon
      <4>2. t = sub_ddmmss(p.h, p.l, d1, d0)
        BY <1>29, <2>1
      <4> QED BY <1>7, <1>26, <4>1, <4>2, Zenon
    <3>2. PICK w : w = W * W
      OBVIOUS
    <3>3. PICK T : T = (y - D) % w
      OBVIOUS
    <3>4. PICK j : j = (y - D) \div w
      OBVIOUS
    <3>5. w \in Nat \ {0}
      BY <1>3, <3>2, SMT
    <3>6. y - D = w * j + T /\ j \in Int /\ T \in Int
      BY <1>28, <3>3, <3>4, <3>5, SMT
    <3>7. w * j = j * w /\ j * w \in Int
      BY <3>5, <3>6, SMT
    <3>8. s * D = D
      BY <1>28, <2>1
    <3>9. z - T = j * w + R
      <4>1. PICK a : a = j * w
        OBVIOUS
      <4>2. y - D = a + T /\ a \in Int /\ T \in Int
        BY <3>6, <3>7, <4>1
      <4>3. R = (z - y) + D
        BY <1>22, <3>8, Zenon
      <4> QED BY <1>28, <4>1, <4>2, <4>3
    <3> QED BY <3>1, <3>2, <3>3, <3>6, <3>9
  <2>2. CASE s = 0
    <3>1. t = p
      BY <1>29, <2>2
    <3>2. s * D = 0 /\ 0 * (W * W) = 0
      BY <1>28, <2>2
    <3>3. z - y = 0 * (W * W) + R
      BY <1>22, <1>28, <3>2
    <3> QED BY <1>26, <3>1, <3>3
  <2> QED BY <1>19, <2>1, <2>2
<1>31. PICK e : e = sub_ddmmss(r, n0, t.h, t.l)
  OBVIOUS
<1>32. e.h \in Word /\ e.l \in Word /\ e.h * W + e.l = R
  <2>1. (r * W + n0) - (t.h * W + t.l) = k * (W * W) + R
    BY <1>21, <1>30, Zenon
  <2>2. LET f == sub_ddmmss(r, n0, t.h, t.l)
        IN  f.h \in Word /\ f.l \in Word /\ f.h * W + f.l = R
    BY <1>12, <1>19, <1>24, <1>30, <2>1, Remaining
  <2> QED BY <1>31, <2>2, Zenon
<1>33. PICK rest : rest = Pair(ShiftRight(e.h, bm), ShiftLeft(e.h, SI_TYPE_SIZE - bm) + ShiftRight(e.l, bm))
  OBVIOUS
<1>34. rest = n % d
  <2>1. e.h * W + e.l = (n % d) * P
    BY <1>23, <1>32, Zenon
  <2>2. Pair(ShiftRight(e.h, bm), ShiftLeft(e.h, SI_TYPE_SIZE - bm) + ShiftRight(e.l, bm)) = n % d
    BY <1>2, <1>23, <1>32, <2>1, RemainderShifted
  <2> QED BY <1>33, <2>2, Zenon
<1>35. DivideByHigh(n, d) = [q |-> IF s = 1 THEN q - 1 ELSE q, r |-> rest]
  <2>1. PICK f : f = udiv_qrnnd(n2, n1, d1)
    OBVIOUS
  <2>2. f.q = q /\ f.r = r
    BY <1>17, <2>1
  <2>3. DivideByHigh(n, d) = Adjusted(f, n0, d1, d0, p, bm)
    <3>1. DivideByHigh(n, d) =
            Adjusted(udiv_qrnnd(Normalized(n, count_leading_zeros(High(d))).n2,
                                Normalized(n, count_leading_zeros(High(d))).n1,
                                HighDigit(d, count_leading_zeros(High(d)))),
                     Normalized(n, count_leading_zeros(High(d))).n0,
                     HighDigit(d, count_leading_zeros(High(d))),
                     ShiftLeft(Low(d), count_leading_zeros(High(d))),
                     umul_ppmm(udiv_qrnnd(Normalized(n, count_leading_zeros(High(d))).n2,
                                          Normalized(n, count_leading_zeros(High(d))).n1,
                                          HighDigit(d, count_leading_zeros(High(d)))).q,
                               ShiftLeft(Low(d), count_leading_zeros(High(d)))),
                     count_leading_zeros(High(d)))
      BY Zenon DEF DivideByHigh, Adjusted, Left, HighDigit
    <3>2. HighDigit(d, bm) = d1
      BY <1>5 DEF HighDigit
    <3>3. umul_ppmm(f.q, d0) = p
      BY <1>25, <2>2, Zenon
    <3> QED BY <1>1, <1>6, <1>9, <1>10, <1>11, <2>1, <3>1, <3>2, <3>3, Zenon
  <2>4. Left(f.r, n0, t, bm) = rest
    BY <1>31, <1>33, <2>2, Zenon DEF Left
  <2>5. CASE s = 1
    <3>1. t = sub_ddmmss(p.h, p.l, d1, d0)
      BY <1>29, <2>5
    <3>2. Adjusted(f, n0, d1, d0, p, bm) = [q |-> f.q - 1, r |-> Left(f.r, n0, t, bm)]
      BY <1>27, <2>2, <2>5, <3>1, Zenon DEF Adjusted
    <3> QED BY <2>2, <2>3, <2>4, <2>5, <3>2
  <2>6. CASE s # 1
    <3>1. t = p
      BY <1>29, <2>6
    <3>2. Adjusted(f, n0, d1, d0, p, bm) = [q |-> f.q, r |-> Left(f.r, n0, t, bm)]
      BY <1>27, <2>2, <2>6, <3>1, Zenon DEF Adjusted
    <3> QED BY <2>2, <2>3, <2>4, <2>6, <3>2
  <2> QED BY <2>5, <2>6
<1>36. (IF s = 1 THEN q - 1 ELSE q) = q - s
  BY <1>3, <1>19
<1> QED BY <1>23, <1>34, <1>35, <1>36, Zenon

(* A number divided by a greater one. *)
LEMMA Smaller ==
  ASSUME NEW n \in Nat, NEW d \in Nat, n < d
  PROVE  n \div d = 0 /\ n % d = n
<1>1. d \in Nat \ {0} /\ 0 \in Int /\ n \in 0..(d - 1) /\ n \in Int /\ n = 0 * d + n
  OBVIOUS
<1> QED BY <1>1, Divided

(* __udivmoddi4 divides, whichever of its four ways it takes, and traps on *)
(* a divisor of 0.                                                         *)
LEMMA UnsignedDivision ==
  ASSUME NEW n \in DWord, NEW d \in DWord
  PROVE  /\ d = 0 => udivmoddi4(n, d) = Trap
         /\ d # 0 => udivmoddi4(n, d) = [q |-> n \div d, r |-> n % d]
<1>1. PICK h : h = High(d)
  OBVIOUS
<1>2. PICK l : l = Low(d)
  OBVIOUS
<1>3. PICK nh : nh = High(n)
  OBVIOUS
<1>4. /\ d = h * W + l /\ h \in Word /\ l \in Word /\ d \in Nat
      /\ nh \in Word /\ n = nh * W + Low(n) /\ Low(n) \in Word /\ n \in Nat
  BY <1>1, <1>2, <1>3, WordsOf
<1>5. W \in Nat \ {0} /\ h \in Nat /\ l \in Nat /\ nh \in Nat /\ Word = 0..(W - 1)
  BY <1>4, WordSize DEF Word
<1>6. udivmoddi4(n, d) =
        IF h = 0
        THEN IF l > nh THEN DivideToWord(n, l)
             ELSE IF l = 0 THEN Trap
             ELSE DivideByWord(n, l)
        ELSE IF h > nh THEN [q |-> 0, r |-> n]
             ELSE IF count_leading_zeros(h) = 0 THEN SubtractOnce(n, d)
             ELSE DivideByHigh(n, d)
  BY <1>1, <1>2, <1>3, Zenon DEF udivmoddi4
<1>7. CASE h = 0
  <2>1. d = l
    <3>1. h * W = 0
      BY <1>5, <1>7
    <3> QED BY <1>4, <1>5, <3>1
  <2>2. CASE l > nh
    <3>1. DivideToWord(n, l) = [q |-> n \div l, r |-> n % l]
      BY <1>3, <1>4, <2>2, ToWord
    <3>2. d # 0
      BY <1>5, <2>1, <2>2
    <3> QED BY <1>6, <1>7, <2>1, <2>2, <3>1, <3>2
  <2>3. CASE ~(l > nh) /\ l = 0
    BY <1>6, <1>7, <2>1, <2>3
  <2>4. CASE ~(l > nh) /\ l # 0
    <3>1. l <= High(n)
      BY <1>3, <1>5, <2>4
    <3>2. DivideByWord(n, l) = [q |-> n \div l, r |-> n % l]
      BY <1>4, <2>4, <3>1, ByWord
    <3> QED BY <1>6, <1>7, <2>1, <2>4, <3>2
  <2> QED BY <2>2, <2>3, <2>4
<1>8. CASE h # 0
  <2>1. d # 0
    <3>1. W * h >= W /\ W * h = h * W /\ h * W \in Int
      BY <1>5, <1>8, SMT
    <3> QED BY <1>4, <1>5, <3>1
  <2>2. CASE h > nh
    <3>1. nh < h => nh * W + Low(n) < h * W + l
      BY <1>4, <1>5, PairOrder
    <3>2. n < d
      BY <1>4, <2>2, <3>1
    <3>3. n \div d = 0 /\ n % d = n
      BY <1>4, <3>2, Smaller
    <3> QED BY <1>6, <1>8, <2>1, <2>2, <3>3
  <2>3. CASE ~(h > nh) /\ count_leading_zeros(h) = 0
    <3>1. PICK P, Q : Normalises(h, 0, P, Q)
      BY <1>4, <1>8, <2>3, LeadingZeros
    <3>2. P = 1 /\ TopBitSet(h * P)
      BY <3>1 DEF Normalises
    <3>3. TopBitSet(h)
      <4>1. h * P = h
        BY <1>5, <3>2
      <4> QED BY <3>2, <4>1
    <3>4. W <= 2 * h
      BY <3>3, MoreThanHalf, <1>5
    <3>5. High(d) <= High(n) /\ W <= 2 * High(d)
      BY <1>1, <1>3, <1>5, <2>3, <3>4
    <3>6. SubtractOnce(n, d) = [q |-> n \div d, r |-> n % d]
      BY <3>5, ByNormalised
    <3> QED BY <1>6, <1>8, <2>1, <2>3, <3>6
  <2>4. CASE ~(h > nh) /\ count_leading_zeros(h) # 0
    <3>1. High(d) # 0 /\ count_leading_zeros(High(d)) # 0
      BY <1>1, <1>8, <2>4
    <3>2. DivideByHigh(n, d) = [q |-> n \div d, r |-> n % d]
      BY <3>1, ByHigh
    <3> QED BY <1>6, <1>8, <2>1, <2>4, <3>2
  <2> QED BY <2>2, <2>3, <2>4
<1> QED BY <1>7, <1>8

(* Quotients and remainders of double words are double words. *)
LEMMA QuotientFits ==
  ASSUME NEW n \in DWord, NEW d \in DWord, d # 0
  PROVE  n \div d \in DWord /\ n % d \in DWord
<1>1. PICK w : w = W * W
  OBVIOUS
<1>2. w \in Nat \ {0} /\ DWord = 0..(w - 1)
  BY <1>1, WordSize, SMT DEF DWord
<1>3. n \in Nat /\ n < w /\ d \in Nat \ {0} /\ d < w
  BY <1>2
<1>4. PICK q : q = n \div d
  OBVIOUS
<1>5. PICK r : r = n % d
  OBVIOUS
<1>6. n = d * q + r /\ q \in Nat /\ r \in 0..(d - 1)
  BY <1>3, <1>4, <1>5, SMT
<1>7. q <= d * q /\ d * q \in Nat
  BY <1>3, <1>6, SMT
<1> QED BY <1>2, <1>3, <1>4, <1>5, <1>6, <1>7

-----------------------------------------------------------------------------
(* Signed operands. *)

(* __negdi2 negates, modulo the range of double words. *)
LEMMA Negation ==
  ASSUME NEW x \in DWord
  PROVE  /\ negdi2(x) = (-x) % (W * W) /\ negdi2(x) \in DWord
         /\ x = 0 => negdi2(x) = 0
         /\ x # 0 => negdi2(x) = W * W - x
<1>1. PICK h : h = High(x)
  OBVIOUS
<1>2. PICK l : l = Low(x)
  OBVIOUS
<1>3. PICK w : w = W
  OBVIOUS
<1>4. x = h * w + l /\ h \in 0..(w - 1) /\ l \in 0..(w - 1) /\ x \in Nat /\ w \in Nat \ {0}
  <2>1. x = h * W + l /\ h \in Word /\ l \in Word /\ x \in Nat
    BY <1>1, <1>2, WordsOf
  <2>2. W \in Nat \ {0}
    BY WordSize
  <2> QED BY <1>3, <2>1, <2>2 DEF Word
<1>5. PICK low : low = (-l) % w
  OBVIOUS
<1>6. PICK c : c = IF low > 0 THEN 1 ELSE 0
  OBVIOUS
<1>7. low \in 0..(w - 1) /\ c \in {0, 1} /\ -l = low - c * w
  <2>1. CASE l = 0
    <3>1. 0 \div w = 0 /\ 0 % w = 0
      BY <1>4, Smaller
    <3>2. low = 0
      BY <1>5, <2>1, <3>1
    <3>3. c = 0 /\ c * w = 0
      BY <1>4, <1>6, <3>2
    <3> QED BY <1>4, <2>1, <3>2, <3>3
  <2>2. CASE l # 0
    <3>1. PICK m : m = -l
      OBVIOUS
    <3>2. PICK y : y = w - l
      OBVIOUS
    <3>3. m \in Int /\ -1 \in Int /\ y \in 0..(w - 1) /\ m = (-1) * w + y /\ w \in Nat \ {0}
      BY <1>4, <2>2, <3>1, <3>2
    <3>4. m % w = y
      BY <3>3, Divided
    <3>5. low = w - l
      BY <1>5, <3>1, <3>2, <3>4
    <3>6. c = 1 /\ c * w = w
      BY <1>4, <1>6, <2>2, <3>5
    <3> QED BY <1>4, <2>2, <3>5, <3>6
  <2> QED BY <2>1, <2>2
<1>8. PICK g : g = -h - c
  OBVIOUS
<1>9. PICK e : e = g % w
  OBVIOUS
<1>10. PICK k : k = g \div w
  OBVIOUS
<1>11. g = w * k + e /\ e \in 0..(w - 1) /\ k \in Int /\ g \in Int
  BY <1>4, <1>7, <1>8, <1>9, <1>10, SMT
<1>12. negdi2(x) = Pair(e, low)
  <2>1. negdi2(x) = Pair((-High(x) - (IF (-Low(x)) % W > 0 THEN 1 ELSE 0)) % W, (-Low(x)) % W)
    BY Zenon DEF negdi2
  <2> QED BY <1>1, <1>2, <1>3, <1>5, <1>6, <1>8, <1>9, <2>1, Zenon
<1>13. PICK y : y = e * w + low
  OBVIOUS
<1>14. negdi2(x) = y /\ y \in DWord /\ y \in Int
  <2>1. e \in Word /\ low \in Word
    BY <1>3, <1>7, <1>11 DEF Word
  <2>2. Pair(e, low) \in DWord /\ Pair(e, low) = e * W + low
    BY <2>1, PairOf
  <2>3. y \in Int
    BY <1>4, <1>7, <1>11, <1>13, SMT
  <2> QED BY <1>3, <1>12, <1>13, <2>2, <2>3, Zenon
<1>15. -x = k * (w * w) + y
  <2>1. -x = g * w + low
    <3>1. g * w = -(h * w) - c * w
      BY <1>4, <1>7, <1>8, SMT
    <3>2. h * w \in Int /\ c * w \in Int
      BY <1>4, <1>7, SMT
    <3>3. PICK i : i = h * w
      OBVIOUS
    <3>4. PICK j : j = c * w
      OBVIOUS
    <3>5. -x = -i - l /\ -l = low - j /\ g * w = -i - j /\ i \in Int /\ j \in Int
      BY <1>4, <1>7, <3>1, <3>2, <3>3, <3>4
    <3> QED BY <1>4, <1>7, <3>5
  <2>2. g * w = k * (w * w) + e * w
    <3>1. (w * k + e) * w = k * (w * w) + e * w
      BY <1>4, <1>11, SMT
    <3> QED BY <1>11, <3>1
  <2>3. k * (w * w) \in Int /\ e * w \in Int
    BY <1>4, <1>11, SMT
  <2> QED BY <1>7, <1>13, <2>1, <2>2, <2>3
<1>16. (-x) % (W * W) = y
  <2>1. -x \in Int /\ -x = k * (W * W) + y
    BY <1>3, <1>4, <1>15
  <2> QED BY <1>11, <1>14, <2>1, WrappedPair
<1>17. x = 0 => y = 0
  <2>1. SUFFICES ASSUME x = 0 PROVE y = 0
    OBVIOUS
  <2>2. 0 \in DWord /\ -x = 0
    BY <1>4, <2>1
  <2>3. 0 % (W * W) = 0
    BY <2>1, <2>2, WrappedPair
  <2> QED BY <1>16, <2>2, <2>3
<1>18. x # 0 => y = W * W - x
  <2>1. SUFFICES ASSUME x # 0 PROVE y = W * W - x
    OBVIOUS
  <2>2. W * W \in Int /\ x < W * W
    BY <1>3, <1>4, SMT DEF DWord
  <2>3. W * W - x \in DWord /\ W * W - x \in Int
    BY <1>4, <2>1, <2>2 DEF DWord
  <2>4. -x = (-1) * (W * W) + (W * W - x) /\ -x \in Int /\ -1 \in Int
    BY <1>4, <2>2
  <2>5. (-x) % (W * W) = W * W - x
    BY <2>3, <2>4, WrappedPair
  <2> QED BY <1>16, <2>5
<1> QED BY <1>14, <1>16, <1>17, <1>18

(* What the code tests for a sign, and the magnitude it divides.           *)
LEMMA Magnitudes ==
  ASSUME NEW x \in DWord
  PROVE  /\ Magnitude(x) = Magn(Signed(x)) /\ Magnitude(x) \in DWord
         /\ x # 0 => Magnitude(x) # 0
         /\ Negative(x) \in BOOLEAN
<1>1. PICK h : h = High(x)
  OBVIOUS
<1>2. h \in Word /\ x \in Nat /\ x < W * W /\ W \in Nat \ {0} /\ W * W \in Nat
  <2>1. W \in Nat \ {0}
    BY WordSize
  <2>2. W * W \in Nat
    BY <2>1, SMT
  <2> QED BY <1>1, <2>1, <2>2, WordsOf DEF DWord
<1>3. h \in Nat /\ h < W
  BY <1>2 DEF Word
<1>4. Negative(x) <=> h >= W \div 2
  <2>1. PICK half : half = W \div 2
    OBVIOUS
  <2>2. Negative(x) <=> (IF h >= half THEN h - W ELSE h) < 0
    BY <1>1, <2>1, Zenon DEF Negative, SignedWord
  <2> QED BY <1>2, <1>3, <2>1, <2>2
<1>5. PICK w : w = W * W
  OBVIOUS
<1>6. CASE Negative(x)
  <2>1. Signed(x) = x - w
    BY <1>1, <1>4, <1>5, <1>6 DEF Signed
  <2>2. x # 0
    <3>1. SUFFICES ASSUME x = 0 PROVE FALSE
      OBVIOUS
    <3>2. h = 0
      BY <1>1, <1>2, <3>1, Smaller DEF High
    <3>3. W >= 2
      BY WordSize
    <3>4. W \div 2 >= 1
      BY <1>2, <3>3
    <3>5. h >= W \div 2
      BY <1>4, <1>6, Zenon
    <3> QED BY <1>2, <3>2, <3>4, <3>5
  <2>3. Magn(Signed(x)) = w - x
    BY <1>2, <1>5, <2>1 DEF Magn
  <2>4. Magnitude(x) = negdi2(x)
    BY <1>6 DEF Magnitude
  <2>5. negdi2(x) = w - x /\ negdi2(x) \in DWord
    BY <1>5, <2>2, Negation
  <2>6. w - x # 0
    BY <1>2, <1>5
  <2> QED BY <1>6, <2>3, <2>4, <2>5, <2>6
<1>7. CASE ~Negative(x)
  <2>1. Signed(x) = x
    BY <1>1, <1>4, <1>7 DEF Signed
  <2>2. Magn(Signed(x)) = x
    BY <1>2, <2>1 DEF Magn
  <2>3. Magnitude(x) = x
    BY <1>7 DEF Magnitude
  <2>4. Negative(x) \in BOOLEAN
    BY DEF Negative
  <2> QED BY <2>2, <2>3, <2>4
<1>8. Negative(x) \in BOOLEAN
  BY DEF Negative
<1> QED BY <1>6, <1>7, <1>8

(* A result that the code negates or leaves alone. *)
LEMMA SignOfResult ==
  ASSUME NEW x \in DWord, NEW b \in BOOLEAN
  PROVE  (IF b THEN negdi2(x) ELSE x) = (IF b THEN -x ELSE x) % (W * W)
<1>1. x \in Int
  BY WordsOf
<1>2. x % (W * W) = x
  BY <1>1, WrappedPair
<1>3. negdi2(x) = (-x) % (W * W)
  BY Negation
<1> QED BY <1>2, <1>3

(* The division of a processor with an instruction for words of any size.  *)
LEMMA DirectDivision ==
  ASSUME NEW n \in DWord, NEW d \in Word, d # 0
  PROVE  DivideDirectly(n, d) = [q |-> n \div d, r |-> n % d]
<1>1. PICK h : h = High(n)
  OBVIOUS
<1>2. PICK l : l = Low(n)
  OBVIOUS
<1>3. n = h * W + l /\ h \in Word /\ l \in Word
  BY <1>1, <1>2, WordsOf
<1>4. h \in Nat /\ l \in Nat /\ d \in Nat \ {0} /\ W \in Nat \ {0}
  BY <1>3, WordSize DEF Word
<1> DEFINE q1 == IF d > h THEN [q |-> 0, r |-> h] ELSE DivideInstruction(0, h, d)
<1>5. q1.q = h \div d /\ q1.r = h % d
  <2>1. CASE d > h
    <3>1. h \div d = 0 /\ h % d = h
      BY <1>4, <2>1, Smaller
    <3> QED BY <2>1, <3>1
  <2>2. CASE ~(d > h)
    <3>1. Pair(0, h) = h
      BY <1>4 DEF Pair
    <3>2. DivideInstruction(0, h, d) = [q |-> h \div d, r |-> h % d]
      BY <3>1 DEF DivideInstruction
    <3> QED BY <2>2, <3>2
  <2> QED BY <2>1, <2>2
<1>6. DivideDirectly(n, d) =
        [q |-> Pair(q1.q, Pair(q1.r, l) \div d), r |-> Pair(q1.r, l) % d]
  <2> HIDE DEF q1
  <2>1. DivideDirectly(n, d) =
          [q |-> Pair(q1.q, DivideInstruction(q1.r, l, d).q), r |-> DivideInstruction(q1.r, l, d).r]
    BY <1>1, <1>2, Zenon DEF DivideDirectly, q1
  <2>2. DivideInstruction(q1.r, l, d) = [q |-> Pair(q1.r, l) \div d, r |-> Pair(q1.r, l) % d]
    BY DEF DivideInstruction
  <2> QED BY <2>1, <2>2
<1> HIDE DEF q1
<1>7. /\ (h * W + l) \div d = (h \div d) * W + (((h % d) * W + l) \div d)
      /\ (h * W + l) % d = ((h % d) * W + l) % d
  BY <1>4, LongDivision
<1> QED BY <1>3, <1>5, <1>6, <1>7, Zenon DEF Pair

-----------------------------------------------------------------------------
(* Every operand is a double word. *)
Operands == u \in DWord /\ v \in DWord

LEMMA OperandsTyped == EveryPair => []Operands
<1>1. FirstPair => Operands
  <2>1. W \in Nat \ {0}
    BY WordSize
  <2>2. W * W \in Nat /\ W * W >= 1
    BY <2>1, SMT
  <2> QED BY <2>2 DEF FirstPair, DWord, Operands
<1>2. Operands /\ [NextOperand]_<<u, v>> => Operands'
  BY DEF NextOperand, Operands
<1> QED BY <1>1, <1>2, PTL DEF EveryPair

(* libgcc2.c 201-213 and 481-772: for words of every size, and             *)
(* every pair of operands, __udivdi3 and __umoddi3 divide natural numbers, *)
(* __divdi3 and __moddi3 divide as C does, and a division by 0 traps.      *)
THEOREM DivisionIsC == EveryPair => []Division
<1>1. Operands => Division
  <2> SUFFICES ASSUME Operands PROVE Division
    OBVIOUS
  <2> USE DEF Operands
  <2>1. CASE v = 0
    BY <2>1, UnsignedDivision DEF Division
  <2>2. CASE v # 0
    <3>1. PICK a : a = Magnitude(u)
      OBVIOUS
    <3>2. PICK b : b = Magnitude(v)
      OBVIOUS
    <3>3. a = Magn(Signed(u)) /\ b = Magn(Signed(v)) /\ a \in DWord /\ b \in DWord /\ b # 0
          /\ Negative(u) \in BOOLEAN /\ Negative(v) \in BOOLEAN
      BY <2>2, <3>1, <3>2, Magnitudes
    <3>4. PICK q : q = a \div b
      OBVIOUS
    <3>5. PICK r : r = a % b
      OBVIOUS
    <3>6. q \in DWord /\ r \in DWord
      BY <3>3, <3>4, <3>5, QuotientFits
    <3>7. udivmoddi4(a, b) = [q |-> q, r |-> r]
      BY <3>3, <3>4, <3>5, UnsignedDivision
    <3>8. udivdi3(u, v) = u \div v /\ umoddi3(u, v) = u % v
      <4>1. udivmoddi4(u, v) = [q |-> u \div v, r |-> u % v]
        BY <2>2, UnsignedDivision
      <4> QED BY <4>1 DEF udivdi3, umoddi3
    <3>9. v < W => DivideDirectly(u, v) = [q |-> u \div v, r |-> u % v]
      <4>1. SUFFICES ASSUME v < W PROVE DivideDirectly(u, v) = [q |-> u \div v, r |-> u % v]
        OBVIOUS
      <4>2. v \in Nat /\ W \in Nat
        BY WordsOf, WordSize
      <4>3. v \in Word
        BY <4>1, <4>2 DEF Word
      <4> QED BY <2>2, <4>3, DirectDivision
    <3>10. divdi3(u, v) = (IF Negative(u) # Negative(v) THEN -q ELSE q) % (W * W)
      <4>1. PICK s : s = (Negative(u) # Negative(v))
        OBVIOUS
      <4>2. s \in BOOLEAN
        BY <4>1
      <4>3. divdi3(u, v) = IF s THEN negdi2(q) ELSE q
        <5>1. divdi3(u, v) = IF Negative(u) # Negative(v)
                             THEN negdi2(udivmoddi4(a, b).q) ELSE udivmoddi4(a, b).q
          BY <3>1, <3>2, Zenon DEF divdi3
        <5>2. udivmoddi4(a, b).q = q
          BY <3>7
        <5> QED BY <4>1, <5>1, <5>2, Zenon
      <4>4. (IF s THEN negdi2(q) ELSE q) = (IF s THEN -q ELSE q) % (W * W)
        BY <3>6, <4>2, SignOfResult
      <4> QED BY <4>1, <4>3, <4>4, Zenon
    <3>11. moddi3(u, v) = (IF Negative(u) THEN -r ELSE r) % (W * W)
      <4>1. moddi3(u, v) = IF Negative(u) THEN negdi2(r) ELSE r
        BY <3>1, <3>2, <3>7 DEF moddi3
      <4>2. (IF Negative(u) THEN negdi2(r) ELSE r) = (IF Negative(u) THEN -r ELSE r) % (W * W)
        BY <3>3, <3>6, SignOfResult
      <4> QED BY <4>1, <4>2, Zenon
    <3>12. Magn(Signed(u)) \div Magn(Signed(v)) = q /\ Magn(Signed(u)) % Magn(Signed(v)) = r
      BY <3>3, <3>4, <3>5, Zenon
    <3> QED BY <2>2, <3>8, <3>9, <3>10, <3>11, <3>12 DEF Division
  <2> QED BY <2>1, <2>2
<1> QED BY <1>1, OperandsTyped, PTL

-----------------------------------------------------------------------------
(* Cycles, rates and hashes                                                *)

(* The signed words. *)
LEMMA SignedWords ==
  /\ W \div 2 \in Nat /\ W = 2 * (W \div 2) /\ W \in Nat \ {0} /\ W \div 2 >= 1
  /\ \A x \in Word : x >= W \div 2 => SignedWord(x) = x - W
  /\ \A x \in Word : x < W \div 2 => SignedWord(x) = x
<1>1. PICK c : c = B \div 2
  OBVIOUS
<1>2. c \in Nat /\ B = 2 * c
  BY <1>1, WordSize, WordAssumption
<1>3. PICK m : m = c * B
  OBVIOUS
<1>4. B * B = 2 * m /\ m \in Nat
  BY <1>2, <1>3, WordSize, SMT
<1>5. W = 2 * m /\ W \div 2 = m /\ W \in Nat \ {0}
  BY <1>4, WordSize
<1>6. m >= 1
  BY <1>4, <1>5
<1>7. \A x \in Word : x \in Int
  BY <1>5 DEF Word
<1> QED BY <1>4, <1>5, <1>6, <1>7 DEF SignedWord

(* The loops of intr.c. *)
LEMMA WaitLasts ==
  ASSUME NEW start \in Word, NEW d \in Word, NEW w \in Word
  PROVE  /\ start + d < W =>
              (Waiting((start + w) % W, WaitEnd(start, d)) <=> w < d \/ ~(start + w < W))
         /\ ~(start + d < W) => ~Waiting(start, WaitEnd(start, d))
<1>1. /\ W \in Nat \ {0} /\ start \in Nat /\ start < W
      /\ d \in Nat /\ d < W /\ w \in Nat /\ w < W
  BY SignedWords DEF Word
<1>2. ASSUME NEW x \in Word
      PROVE  (start + x) % W = IF start + x < W THEN start + x ELSE start + x - W
  <2>1. x \in Nat /\ x < W
    BY <1>1, <1>2 DEF Word
  <2>2. CASE start + x < W
    BY <1>1, <2>1, <2>2, Smaller
  <2>3. CASE ~(start + x < W)
    <3>1. start + x = W * 1 + (start + x - W) /\ start + x - W \in 0..(W - 1)
      BY <1>1, <2>1, <2>3
    <3>2. (start + x) % W = start + x - W
      BY <1>1, <2>1, <3>1, Remainder
    <3> QED BY <2>3, <3>2
  <2> QED BY <2>2, <2>3
<1>3. PICK now, end : now = (start + w) % W /\ end = (start + d) % W
  OBVIOUS
<1>4. /\ now = IF start + w < W THEN start + w ELSE start + w - W
      /\ end = IF start + d < W THEN start + d ELSE start + d - W
  BY <1>2, <1>3
<1>5. Waiting((start + w) % W, WaitEnd(start, d)) <=> now < end
  BY <1>3, Zenon DEF Waiting, WaitEnd
<1>6. Waiting(start, WaitEnd(start, d)) <=> start < end
  BY <1>3, Zenon DEF Waiting, WaitEnd
<1>7. start + d < W => (now < end <=> w < d \/ ~(start + w < W))
  BY <1>1, <1>4
<1>8. ~(start + d < W) => ~(start < end)
  BY <1>1, <1>4
<1> QED BY <1>5, <1>6, <1>7, <1>8

(* What passed between two looks at a counter that wraps around. *)
LEMMA Passed ==
  ASSUME NEW x \in Word, NEW y \in Word
  PROVE  (x + y) % W \in Word /\ (((x + y) % W) - x) % W = y
<1>1. W \in Nat \ {0} /\ x \in Nat /\ x < W /\ y \in Nat /\ y < W
  BY SignedWords DEF Word
<1>2. CASE x + y < W
  <2>1. (x + y) % W = x + y
    BY <1>1, <1>2, Smaller
  <2>2. (x + y) - x = y /\ y % W = y
    BY <1>1, Smaller
  <2> QED BY <1>1, <1>2, <2>1, <2>2 DEF Word
<1>3. CASE x + y >= W
  <2>1. (x + y) % W = x + y - W
    <3>1. x + y = W * 1 + (x + y - W) /\ x + y - W \in 0..(W - 1)
      BY <1>1, <1>3
    <3> QED BY <1>1, <3>1, Remainder
  <2>2. (y - W) % W = y
    <3>1. y - W = W * (-1) + y /\ y \in 0..(W - 1)
      BY <1>1
    <3> QED BY <1>1, <3>1, Remainder
  <2>3. (x + y - W) - x = y - W
    BY <1>1
  <2> QED BY <1>1, <1>3, <2>1, <2>2, <2>3 DEF Word
<1> QED BY <1>1, <1>2, <1>3

(* Division of int, of numbers that are not negative. *)
LEMMA OverNat ==
  ASSUME NEW a \in Nat, NEW b \in Nat \ {0}
  PROVE  Over(a, b) = a \div b
<1>1. (IF a < 0 THEN -a ELSE a) = a /\ (IF b < 0 THEN -b ELSE b) = b
  OBVIOUS
<1>2. (a < 0) <=> (b < 0)
  OBVIOUS
<1> QED BY <1>1, <1>2 DEF Over

(* intr.c 22-36, stats.c 21-30: for words of every size, waits last as     *)
(* long as they are asked for until the counter wraps around, and rates    *)
(* survive that.                                                           *)
LEMMA CyclesElapsed ==
  ASSUME u \in DWord, v \in DWord
  PROVE  ElapsedTime
<1>1. PICK start : start = High(u)
  OBVIOUS
<1>2. PICK c : c = Low(u)
  OBVIOUS
<1>3. PICK h : h = W \div 2
  OBVIOUS
<1>4. PICK s : s = CPU_CYCLES_PER_SECOND
  OBVIOUS
<1>5. start \in Word /\ c \in Word /\ v \in Nat /\ (v < W => v \in Word)
  <2>1. v \in Nat /\ W \in Nat
    BY WordsOf, WordSize
  <2> QED BY <1>1, <1>2, <2>1, WordsOf DEF Word
<1>6. /\ h \in Nat /\ W = 2 * h /\ W \in Nat \ {0} /\ h >= 1
      /\ c \in Nat /\ s \in Nat \ {0} /\ s < h /\ s \in Word
  <2>1. s \in 1..(h - 1)
    BY <1>3, <1>4, CyclesAssumption
  <2> QED BY <1>3, <1>5, <2>1, SignedWords DEF Word
<1>7. ASSUME v < W, NEW d \in Word, NEW end, end = WaitEnd(start, d)
      PROVE  IF start + d < W
             THEN Waiting((start + v) % W, end) <=> v < d \/ ~(start + v < W)
             ELSE ~Waiting(start, end)
  BY <1>5, <1>7, WaitLasts, Zenon
<1>10. Seconds((start + v) % W, start) # 0
  <2>1. PICK t : t = Over(SignedWord((((start + v) % W) - start) % W), s)
    OBVIOUS
  <2>2. Seconds((start + v) % W, start) = IF t = 0 THEN 1 ELSE t
    BY <1>4, <2>1, Zenon DEF Seconds
  <2> QED BY <2>2
<1>11. ASSUME v < h, c < h
       PROVE  Rate(c, (start + v) % W, start) = c \div (IF v < s THEN 1 ELSE v \div s)
  <2>1. v < W /\ v \in Word
    BY <1>5, <1>6, <1>11
  <2>2. (((start + v) % W) - start) % W = v
    BY <1>5, <2>1, Passed
  <2>3. SignedWord(v) = v /\ SignedWord(c) = c
    BY <1>3, <1>5, <1>11, <2>1, SignedWords
  <2>4. Over(v, s) = v \div s
    BY <1>5, <1>6, OverNat
  <2>5. PICK t : t = v \div s
    OBVIOUS
  <2>6. t \in Nat /\ (t = 0 <=> v < s)
    <3>1. CASE v < s
      BY <1>5, <1>6, <2>5, <3>1, Smaller
    <3>2. CASE v >= s
      <4>1. PICK r : r = v % s
        OBVIOUS
      <4>2. v = s * t + r /\ r \in 0..(s - 1) /\ t \in Nat
        BY <1>5, <1>6, <2>5, <4>1, SMT
      <4>3. t # 0
        BY <1>6, <3>2, <4>2
      <4> QED BY <1>5, <1>6, <3>2, <4>2, <4>3
    <3> QED BY <1>5, <1>6, <3>1, <3>2
  <2>7. PICK secs : secs = IF t = 0 THEN 1 ELSE t
    OBVIOUS
  <2>8. Seconds((start + v) % W, start) = secs
    BY <1>4, <2>2, <2>3, <2>4, <2>5, <2>7, Zenon DEF Seconds
  <2>9. secs \in Nat \ {0} /\ secs = IF v < s THEN 1 ELSE v \div s
    BY <2>5, <2>6, <2>7
  <2>10. Over(c, secs) = c \div secs
    BY <1>6, <2>9, OverNat
  <2>11. Rate(c, (start + v) % W, start) = Over(c, secs)
    BY <2>3, <2>8, Zenon DEF Rate
  <2> QED BY <2>9, <2>10, <2>11, Zenon
<1>12. BusyWaitEnd(start, 1) = WaitEnd(start, s)
  <2>1. 1 * s = s
    BY <1>6
  <2> QED BY <1>4, <2>1, Zenon DEF BusyWaitEnd
<1>13. ASSUME v < W
       PROVE  /\ IF start + c < W
                 THEN Waiting((start + v) % W, WaitEnd(start, c)) <=> v < c \/ ~(start + v < W)
                 ELSE ~Waiting(start, WaitEnd(start, c))
              /\ IF start + s < W
                 THEN Waiting((start + v) % W, BusyWaitEnd(start, 1)) <=> v < s \/ ~(start + v < W)
                 ELSE ~Waiting(start, BusyWaitEnd(start, 1))
  BY <1>5, <1>6, <1>7, <1>12, <1>13, Zenon
<1> QED BY <1>1, <1>2, <1>3, <1>4, <1>10, <1>11, <1>13, Zenon DEF ElapsedTime

(* An odd factor cannot make up for a missing factor of two. *)
LEMMA OddFactor ==
  ASSUME NEW n \in 0..SI_TYPE_SIZE, NEW d \in Int, NEW k \in Int, 33 * d = TwoTo[n] * k
  PROVE  \E j \in Int : d = TwoTo[n] * j
<1> DEFINE Divides(m) == \A e, i \in Int : 33 * e = TwoTo[m] * i
                            => \E j \in Int : e = TwoTo[m] * j
           S == {m \in Nat : Divides(m)}
<1>1. SI_TYPE_SIZE \in Nat /\ 2 * SI_TYPE_SIZE \in Nat
  BY WordAssumption
<1>2. 0 \in S
  <2>1. TwoTo[0] = 1
    BY PowerEquations
  <2> QED BY <2>1
<1>3. ASSUME NEW m \in 0..(SI_TYPE_SIZE - 1), m \in S PROVE m + 1 \in S
  <2> SUFFICES ASSUME NEW e \in Int, NEW i \in Int, 33 * e = TwoTo[m + 1] * i
               PROVE  \E j \in Int : e = TwoTo[m + 1] * j
    OBVIOUS
  <2>1. PICK t : t = TwoTo[m]
    OBVIOUS
  <2>2. TwoTo[m + 1] = 2 * t /\ t \in Nat
    <3>1. m \in 0..(2 * SI_TYPE_SIZE - 1) /\ m \in 0..2 * SI_TYPE_SIZE
      BY <1>1
    <3> QED BY <2>1, <3>1, PowerEquations
  <2>3. PICK f : f = t * i
    OBVIOUS
  <2>4. f \in Int /\ 33 * e = 2 * f
    <3>1. (2 * t) * i = 2 * (t * i) /\ t * i \in Int
      BY <2>2, SMT
    <3> QED BY <2>2, <2>3, <3>1
  <2>5. PICK g : g = f - 16 * e
    OBVIOUS
  <2>6. g \in Int /\ e = 2 * g /\ 33 * g = f
    BY <2>4, <2>5
  <2>7. PICK j \in Int : g = t * j
    BY <1>3, <2>1, <2>3, <2>6
  <2>8. 2 * (t * j) = (2 * t) * j
    BY <2>2, SMT
  <2>9. e = (2 * t) * j
    BY <2>6, <2>7, <2>8
  <2> QED BY <2>2, <2>9
<1>4. \A m \in 0..SI_TYPE_SIZE : m \in S
  <2> HIDE DEF S
  <2> QED BY <1>1, <1>2, <1>3, IntervalInduction
<1> QED BY <1>4

(* One round of the hash loses nothing of the hash before it, nor of the   *)
(* byte.                                                                   *)
LEMMA HashRound ==
  ASSUME NEW x \in Word, NEW y \in Word, NEW c \in Word, NEW d \in Word,
         (x * 33 + c) % W = (y * 33 + d) % W
  PROVE  (c = d => x = y) /\ (x = y => c = d)
<1>1. PICK w : w = W
  OBVIOUS
<1>2. w \in Nat \ {0} /\ x \in Nat /\ x < w /\ y \in Nat /\ y < w
      /\ c \in Nat /\ c < w /\ d \in Nat /\ d < w
  BY <1>1, SignedWords DEF Word
<1>3. PICK p : p = (x * 33 + c) \div w
  OBVIOUS
<1>4. PICK q : q = (y * 33 + d) \div w
  OBVIOUS
<1>5. PICK r : r = (x * 33 + c) % w
  OBVIOUS
<1>6. p \in Int /\ q \in Int /\ r \in Nat /\ x * 33 + c = w * p + r /\ y * 33 + d = w * q + r
  <2>1. x * 33 + c \in Nat /\ y * 33 + d \in Nat
    BY <1>2
  <2>2. r = (y * 33 + d) % w
    BY <1>1, <1>5
  <2> QED BY <1>2, <1>3, <1>4, <1>5, <2>1, <2>2, SMT
<1>7. w * p - w * q = w * (p - q) /\ w * p \in Int /\ w * q \in Int /\ p - q \in Int
  BY <1>2, <1>6, SMT
<1>8. ASSUME NEW e \in Int, NEW j \in Int, e = w * j, e < w, -w < e PROVE e = 0
  <2>1. CASE j >= 1
    BY <1>2, <1>8, <2>1, Multiple
  <2>2. CASE j <= -1
    <3>1. -j \in Int /\ -j >= 1
      BY <2>2
    <3>2. w * (-j) >= w
      BY <1>2, <3>1, Multiple
    <3>3. w * (-j) = -(w * j)
      BY <1>2, SMT
    <3> QED BY <1>2, <1>8, <3>2, <3>3
  <2>3. CASE j = 0
    BY <1>2, <1>8, <2>3
  <2> QED BY <2>1, <2>2, <2>3
<1>9. ASSUME c = d PROVE x = y
  <2>1. 33 * (x - y) = w * (p - q)
    BY <1>2, <1>6, <1>7, <1>9
  <2>2. SI_TYPE_SIZE \in 0..SI_TYPE_SIZE /\ w = TwoTo[SI_TYPE_SIZE]
    BY <1>1, WordAssumption
  <2>3. x - y \in Int
    BY <1>2
  <2>4. PICK j \in Int : x - y = w * j
    BY <1>7, <2>1, <2>2, <2>3, OddFactor
  <2>5. x - y = 0
    BY <1>2, <1>8, <2>3, <2>4
  <2> QED BY <1>2, <2>5
<1>10. ASSUME x = y PROVE c = d
  <2>1. c - d = w * (p - q) /\ c - d \in Int /\ c - d < w /\ -w < c - d
    BY <1>2, <1>6, <1>7, <1>10
  <2>2. c - d = 0
    BY <1>7, <1>8, <2>1
  <2> QED BY <1>2, <2>2
<1> QED BY <1>9, <1>10

(* The hash of the first bytes of a packet, round by round. *)
IsHash(f, pkt, n) ==
  /\ f \in [0..n -> Word]
  /\ f[0] = InitialHash
  /\ \A i \in 1..n : f[i] = (f[i - 1] * 33 + pkt[i]) % W

(* djb2() goes through these rounds. *)
LEMMA HashRounds ==
  ASSUME NEW n \in Nat, NEW pkt, \A i \in 1..n : pkt[i] \in Nat
  PROVE  \E f : IsHash(f, pkt, n) /\ djb2(pkt, n) = f[n]
<1> DEFINE step == [i \in 1..n |-> [x \in Word |-> (x * 33 + pkt[i]) % W]]
           eq(f) == [i \in 0..n |-> IF i = 0 THEN InitialHash
                                    ELSE (f[i - 1] * 33 + pkt[i]) % W]
           all == CHOOSE f : f = eq(f)
<1>1. PICK base : base = InitialHash
  OBVIOUS
<1>2. W \in Nat \ {0}
  BY SignedWords
<1>3. \A a \in Nat : a % W \in Word
  BY <1>2 DEF Word
<1>4. base \in Word
  BY <1>1, <1>3 DEF InitialHash
<1>5. \A x \in Word : x \in Nat
  BY <1>2 DEF Word
<1>6. step \in [1..n -> [Word -> Word]]
  <2>1. ASSUME NEW i \in 1..n, NEW x \in Word PROVE (x * 33 + pkt[i]) % W \in Word
    <3>1. x * 33 + pkt[i] \in Nat
      BY <1>5
    <3> QED BY <1>3, <3>1
  <2> QED BY <2>1
<1>7. PICK f : IsRecursive(f, n, Word, base, step)
  <2> HIDE DEF step
  <2> QED BY <1>4, <1>6, IntervalRecursion
<1>8. f \in [0..n -> Word] /\ \A i \in 0..n : f[i] = IF i = 0 THEN base ELSE step[i][f[i - 1]]
  BY <1>7 DEF IsRecursive
<1>9. ASSUME NEW i \in 0..n
      PROVE  f[i] = IF i = 0 THEN InitialHash ELSE (f[i - 1] * 33 + pkt[i]) % W
  <2>1. CASE i = 0
    <3>1. f[i] = base
      <4> HIDE DEF step
      <4> QED BY <1>8, <2>1, Zenon
    <3> QED BY <1>1, <2>1, <3>1, Zenon
  <2>2. CASE i # 0
    <3>1. i \in 1..n /\ i - 1 \in 0..n
      BY <2>2
    <3>2. f[i - 1] \in Word
      BY <1>8, <3>1
    <3>3. f[i] = step[i][f[i - 1]]
      <4> HIDE DEF step
      <4> QED BY <1>8, <2>2, Zenon
    <3>4. step[i][f[i - 1]] = (f[i - 1] * 33 + pkt[i]) % W
      BY <3>1, <3>2
    <3> QED BY <2>2, <3>3, <3>4, Zenon
  <2> QED BY <2>1, <2>2
<1>10. f = eq(f)
  <2>1. f = [i \in 0..n |-> f[i]]
    BY <1>8
  <2> QED BY <1>9, <2>1, Zenon
<1>11. all = eq(all)
  <2> HIDE DEF eq
  <2> QED BY <1>10
<1>12. djb2(pkt, n) = all[n]
  BY DEF djb2
<1>13. \A i \in 0..n : all[i] = IF i = 0 THEN InitialHash ELSE (all[i - 1] * 33 + pkt[i]) % W
  <2> HIDE DEF all
  <2> QED BY <1>11
<1>14. all[0] = InitialHash /\ \A i \in 1..n : all[i] = (all[i - 1] * 33 + pkt[i]) % W
  <2> HIDE DEF all
  <2> QED BY <1>13
<1>15. all \in [0..n -> Word]
  <2> DEFINE S == {i \in Nat : all[i] \in Word}
  <2>1. 0 \in S
    <3> HIDE DEF all
    <3> QED BY <1>1, <1>4, <1>14
  <2>2. ASSUME NEW i \in 0..(n - 1), i \in S PROVE i + 1 \in S
    <3> HIDE DEF all
    <3>1. i + 1 \in 1..n /\ (i + 1) - 1 = i /\ all[i] \in Word
      BY <2>2
    <3>2. all[i + 1] = (all[i] * 33 + pkt[i + 1]) % W
      BY <1>14, <3>1
    <3>3. all[i] * 33 + pkt[i + 1] \in Nat
      BY <1>5, <3>1
    <3> QED BY <1>3, <3>1, <3>2, <3>3
  <2>3. \A i \in 0..n : i \in S
    <3> HIDE DEF S
    <3> QED BY <2>1, <2>2, IntervalInduction
  <2>4. \A i \in 0..n : all[i] \in Word
    BY <2>3
  <2> HIDE DEF all
  <2>5. all = [i \in 0..n |-> all[i]]
    BY <1>11
  <2> QED BY <2>4, <2>5
<1> HIDE DEF all
<1> QED BY <1>12, <1>14, <1>15 DEF IsHash

(* network.c 148-157: two packets of the same length that differ in one    *)
(* byte never have the same hash, whatever their length and the size of    *)
(* the word.                                                               *)
THEOREM OneByteChangesHash ==
  ASSUME NEW n \in Nat, NEW a, NEW b, NEW k \in 1..n, a[k] # b[k],
         \A i \in 1..n : a[i] \in Word /\ b[i] \in Word /\ (i # k => a[i] = b[i])
  PROVE  djb2(a, n) # djb2(b, n)
<1>1. \A x \in Word : x \in Nat
  BY SignedWords DEF Word
<1>2. PICK f : IsHash(f, a, n) /\ djb2(a, n) = f[n]
  BY <1>1, HashRounds
<1>3. PICK g : IsHash(g, b, n) /\ djb2(b, n) = g[n]
  BY <1>1, HashRounds
<1> DEFINE S == {i \in Nat : IF i < k THEN f[i] = g[i] ELSE f[i] # g[i]}
<1>4. 0 \in S
  BY <1>2, <1>3 DEF IsHash
<1>5. ASSUME NEW m \in 0..(n - 1), m \in S PROVE m + 1 \in S
  <2>1. PICK i : i = m + 1
    OBVIOUS
  <2>2. i \in 1..n /\ i - 1 = m /\ m \in 0..n
    BY <2>1
  <2>3. f[i] = (f[m] * 33 + a[i]) % W /\ g[i] = (g[m] * 33 + b[i]) % W
    BY <1>2, <1>3, <2>2 DEF IsHash
  <2>4. f[m] \in Word /\ g[m] \in Word /\ a[i] \in Word /\ b[i] \in Word
    BY <1>2, <1>3, <2>2 DEF IsHash
  <2>5. f[i] = g[i] => (a[i] = b[i] => f[m] = g[m]) /\ (f[m] = g[m] => a[i] = b[i])
    BY <2>3, <2>4, HashRound
  <2>6. CASE i < k
    <3>1. f[m] = g[m] /\ a[i] = b[i]
      BY <1>5, <2>2, <2>6
    <3>2. f[i] = g[i]
      BY <2>3, <3>1
    <3> QED BY <2>1, <2>2, <2>6, <3>2
  <2>7. CASE i = k
    <3>1. f[m] = g[m]
      BY <1>5, <2>2, <2>7
    <3>2. f[i] # g[i]
      BY <2>5, <2>7, <3>1
    <3> QED BY <2>1, <2>2, <2>7, <3>2
  <2>8. CASE i > k
    <3>1. f[m] # g[m] /\ a[i] = b[i]
      BY <1>5, <2>2, <2>8
    <3>2. f[i] # g[i]
      BY <2>5, <3>1
    <3> QED BY <2>1, <2>2, <2>8, <3>2
  <2> QED BY <2>2, <2>6, <2>7, <2>8
<1>6. \A m \in 0..n : m \in S
  <2> HIDE DEF S
  <2> QED BY <1>4, <1>5, IntervalInduction
<1>7. f[n] # g[n]
  <2>1. n \in S /\ ~(n < k)
    BY <1>6
  <2> QED BY <2>1
<1> QED BY <1>2, <1>3, <1>7

(* The hash of a packet depends on nothing behind its length. *)
LEMMA HashOfLength ==
  ASSUME NEW n \in Nat, NEW a, NEW b, \A i \in 1..n : a[i] = b[i]
  PROVE  djb2(a, n) = djb2(b, n)
<1> DEFINE ea(f) == [i \in 0..n |-> IF i = 0 THEN InitialHash ELSE (f[i - 1] * 33 + a[i]) % W]
           eb(f) == [i \in 0..n |-> IF i = 0 THEN InitialHash ELSE (f[i - 1] * 33 + b[i]) % W]
<1>1. ASSUME NEW f PROVE ea(f) = eb(f)
  <2>1. ASSUME NEW i \in 0..n
        PROVE  (IF i = 0 THEN InitialHash ELSE (f[i - 1] * 33 + a[i]) % W)
                 = (IF i = 0 THEN InitialHash ELSE (f[i - 1] * 33 + b[i]) % W)
    <3>1. CASE i = 0
      BY <3>1, Zenon
    <3>2. CASE i # 0
      <4>1. i \in 1..n
        BY <3>2
      <4>2. a[i] = b[i]
        BY <4>1
      <4> QED BY <4>2, Zenon
    <3> QED BY <3>1, <3>2
  <2> QED BY <2>1, Zenon
<1>2. (CHOOSE f : f = ea(f)) = (CHOOSE f : f = eb(f))
  <2> HIDE DEF ea, eb
  <2> QED BY <1>1
<1> QED BY <1>2, Zenon DEF djb2

(* intr.c 22-36, stats.c 21-30: waits and rates under a counter that wraps *)
(* around, for words of every size and every number of cycles per second   *)
(* below half of the words.                                                *)
THEOREM KernelCycles == EveryPair => []ElapsedTime
<1>1. Operands => ElapsedTime
  BY CyclesElapsed DEF Operands
<1> QED BY <1>1, OperandsTyped, PTL

(* network.c 148-157: one changed byte changes the hash, and a byte behind *)
(* the length does not.                                                    *)
THEOREM HashesDiffer == EveryPair => []HashTellsApart
<1>1. ASSUME Operands PROVE HashTellsApart
  <2>1. PICK a : a = <<High(u), Low(u), High(v)>>
    OBVIOUS
  <2>2. PICK l : l = Low(v)
    OBVIOUS
  <2>3. l \in Word /\ a \in [1..3 -> Word]
    BY <1>1, <2>1, <2>2, WordsOf DEF Operands
  <2>4. ASSUME NEW i \in 1..3
        PROVE  djb2(a, 2) = djb2([a EXCEPT ![i] = l], 2) <=> i = 3 \/ a = [a EXCEPT ![i] = l]
    <3>1. PICK b : b = [a EXCEPT ![i] = l]
      OBVIOUS
    <3>2. b \in [1..3 -> Word] /\ b[i] = l /\ (\A j \in 1..3 : j # i => b[j] = a[j])
      BY <2>3, <3>1
    <3>3. CASE i = 3
      <4>1. \A j \in 1..2 : a[j] = b[j]
        BY <3>2, <3>3
      <4>2. 2 \in Nat
        OBVIOUS
      <4>3. djb2(a, 2) = djb2(b, 2)
        BY <4>1, <4>2, HashOfLength
      <4> QED BY <3>1, <3>3, <4>3, Zenon
    <3>4. CASE i # 3 /\ a[i] = l
      <4>1. a = b
        BY <2>3, <3>1, <3>4
      <4> QED BY <3>1, <4>1, Zenon
    <3>5. CASE i # 3 /\ a[i] # l
      <4>1. /\ 2 \in Nat /\ i \in 1..2 /\ a[i] # b[i]
            /\ \A j \in 1..2 : a[j] \in Word /\ b[j] \in Word /\ (j # i => a[j] = b[j])
        BY <2>3, <3>2, <3>5
      <4>2. djb2(a, 2) # djb2(b, 2)
        BY <4>1, OneByteChangesHash
      <4>3. a # b
        BY <4>1
      <4> QED BY <3>1, <3>5, <4>2, <4>3, Zenon
    <3> QED BY <3>3, <3>4, <3>5
  <2> QED BY <2>1, <2>2, <2>4, Zenon DEF HashTellsApart
<1> QED BY <1>1, OperandsTyped, PTL

-----------------------------------------------------------------------------
(* Products                                                                *)

(* A product of half words, and one more half word, is a word. *)
LEMMA HalfProduct ==
  ASSUME NEW x \in 0..(B - 1), NEW y \in 0..(B - 1), NEW z \in 0..(B - 1)
  PROVE  x * y \in Nat /\ x * y + z < W /\ x * y + z + 1 + (B - 1) <= W
<1>1. B \in Nat /\ B >= 2 /\ W = B * B
  BY WordSize
<1>2. x \in Nat /\ y \in Nat /\ z \in Nat /\ x <= B - 1 /\ y <= B - 1 /\ z <= B - 1
  BY <1>1
<1>3. x * y \in Nat /\ x * (B - 1) \in Nat /\ x * (B - 1 - y) >= 0
      /\ x * (B - 1 - y) = x * (B - 1) - x * y
  BY <1>1, <1>2, SMT
<1>4. (B - 1 - x) * (B - 1) >= 0 /\ (B - 1 - x) * (B - 1) = (B - 1) * (B - 1) - x * (B - 1)
      /\ (B - 1) * (B - 1) = B * B - 2 * B + 1
  BY <1>1, <1>2, SMT
<1>5. B * B \in Int /\ (B - 1) * (B - 1) \in Int
  BY <1>1, SMT
<1> QED BY <1>1, <1>2, <1>3, <1>4, <1>5

(* longlong.h 1145-1167: umul_ppmm from products of half words is the      *)
(* product, also when the sum of the two middle products overflows.        *)
LEMMA GenericProduct ==
  ASSUME NEW x \in Word, NEW y \in Word
  PROVE  umul_ppmm_c(x, y) = umul_ppmm(x, y)
<1>1. PICK b : b = B
  OBVIOUS
<1>2. PICK w : w = W
  OBVIOUS
<1>3. PICK xh : xh = HighPart(x)
  OBVIOUS
<1>4. PICK xl : xl = LowPart(x)
  OBVIOUS
<1>5. PICK yh : yh = HighPart(y)
  OBVIOUS
<1>6. PICK yl : yl = LowPart(y)
  OBVIOUS
<1>7. /\ w = b * b /\ w \in Nat \ {0} /\ b \in Nat /\ b >= 2
      /\ xh \in 0..(b - 1) /\ xl \in 0..(b - 1) /\ yh \in 0..(b - 1) /\ yl \in 0..(b - 1)
      /\ x = xh * b + xl /\ y = yh * b + yl
  <2>1. w = b * b /\ w \in Nat \ {0} /\ b \in Nat /\ b >= 2
    BY <1>1, <1>2, WordSize, SignedWords
  <2>2. x = xh * B + xl /\ xh \in 0..(B - 1) /\ xl \in 0..(B - 1)
    BY <1>3, <1>4, Halves
  <2>3. y = yh * B + yl /\ yh \in 0..(B - 1) /\ yl \in 0..(B - 1)
    BY <1>5, <1>6, Halves
  <2> QED BY <1>1, <2>1, <2>2, <2>3
<1>8. PICK p0 : p0 = xl * yl
  OBVIOUS
<1>9. PICK p1 : p1 = xl * yh
  OBVIOUS
<1>10. PICK p2 : p2 = xh * yl
  OBVIOUS
<1>11. PICK p3 : p3 = xh * yh
  OBVIOUS
<1>12. PICK c : c = HighPart(p0)
  OBVIOUS
<1>13. PICK l : l = LowPart(p0)
  OBVIOUS
<1>14. p0 \in Nat /\ p1 \in Nat /\ p2 \in Nat /\ p3 \in Nat /\ p0 < w /\ p2 < w
  <2>1. 0 \in 0..(B - 1) /\ B \in Nat
    BY <1>1, <1>7
  <2>2. \A s \in 0..(B - 1), t \in 0..(B - 1) : s * t \in Nat /\ s * t + 0 < W
    BY <2>1, HalfProduct
  <2> QED BY <1>1, <1>2, <1>7, <1>8, <1>9, <1>10, <1>11, <2>2
<1>15. p0 = c * b + l /\ c \in 0..(b - 1) /\ l \in 0..(b - 1)
  <2>1. p0 \in Word
    BY <1>2, <1>7, <1>14 DEF Word
  <2> QED BY <1>1, <1>12, <1>13, <2>1, Halves
<1>16. p1 + c < w
  BY <1>1, <1>2, <1>7, <1>9, <1>15, HalfProduct
<1>17. PICK m : m = (p1 + c + p2) % w
  OBVIOUS
<1>18. PICK k : k = IF m < p2 THEN 1 ELSE 0
  OBVIOUS
<1>19. m \in 0..(w - 1) /\ k \in {0, 1} /\ p1 + c + p2 = k * w + m
  <2>1. PICK s : s = p1 + c + p2
    OBVIOUS
  <2>2. s \in Int /\ s >= 0 /\ s < 2 * w /\ s >= p2 /\ s - w < p2
    BY <1>7, <1>14, <1>15, <1>16, <2>1
  <2>3. CASE s < w
    <3>1. m = s
      BY <1>2, <1>17, <2>1, <2>2, <2>3, Wrapped
    <3>2. k = 0
      BY <1>18, <2>2, <3>1, <1>14
    <3> QED BY <1>7, <2>1, <2>2, <2>3, <3>1, <3>2
  <2>4. CASE w <= s
    <3>1. m = s - w
      BY <1>2, <1>17, <2>1, <2>2, <2>4, Wrapped
    <3>2. k = 1
      BY <1>18, <2>2, <3>1
    <3> QED BY <1>7, <2>1, <2>2, <2>4, <3>1, <3>2
  <2> QED BY <1>7, <2>2, <2>3, <2>4
<1>20. PICK mh : mh = HighPart(m)
  OBVIOUS
<1>21. PICK ml : ml = LowPart(m)
  OBVIOUS
<1>22. m = mh * b + ml /\ mh \in 0..(b - 1) /\ ml \in 0..(b - 1)
  <2>1. m \in Word
    BY <1>2, <1>19 DEF Word
  <2> QED BY <1>1, <1>20, <1>21, <2>1, Halves
<1>23. PICK h : h = p3 + (IF m < p2 THEN b ELSE 0) + mh
  OBVIOUS
<1>24. PICK low : low = ml * b + l
  OBVIOUS
<1>25. h = p3 + k * b + mh /\ h \in Nat
  BY <1>7, <1>14, <1>18, <1>22, <1>23
<1>26. low \in 0..(w - 1)
  <2>1. (b - 1 - ml) * b >= 0 /\ (b - 1 - ml) * b = b * b - b - ml * b /\ ml * b \in Nat
    BY <1>7, <1>22, SMT
  <2>2. b * b \in Int
    BY <1>7, SMT
  <2> QED BY <1>7, <1>15, <1>22, <1>24, <2>1, <2>2
<1>27. x * y = h * w + low
  <2>1. x * y = p3 * w + (p1 + p2) * b + p0
    <3>1. (xh * b + xl) * (yh * b + yl)
            = (xh * yh) * (b * b) + (xl * yh) * b + (xh * yl) * b + xl * yl
      BY <1>7, SMT
    <3>2. (p1 + p2) * b = p1 * b + p2 * b
      BY <1>7, <1>14, SMT
    <3>3. p1 * b \in Int /\ p2 * b \in Int /\ p3 * w \in Int
      BY <1>7, <1>14, SMT
    <3>4. x * y = p3 * w + p1 * b + p2 * b + p0
      BY <1>7, <1>8, <1>9, <1>10, <1>11, <3>1, Zenon
    <3> QED BY <1>14, <3>2, <3>3, <3>4
  <2>2. (p1 + p2) * b = (k * w + m - c) * b
    BY <1>7, <1>14, <1>15, <1>19
  <2>3. (k * w + m - c) * b = (k * b) * w + m * b - c * b
    BY <1>7, <1>15, <1>19, SMT
  <2>4. m * b = mh * w + ml * b
    <3>1. (mh * b + ml) * b = mh * (b * b) + ml * b
      BY <1>7, <1>22, SMT
    <3> QED BY <1>7, <1>22, <3>1, Zenon
  <2>5. h * w = p3 * w + (k * b) * w + mh * w
    <3>1. (p3 + k * b + mh) * w = p3 * w + (k * b) * w + mh * w
      BY <1>7, <1>14, <1>19, <1>22, SMT
    <3> QED BY <1>25, <3>1, Zenon
  <2>6. /\ p3 * w \in Int /\ (k * b) * w \in Int /\ mh * w \in Int /\ ml * b \in Int
        /\ c * b \in Int /\ m * b \in Int
    BY <1>7, <1>14, <1>15, <1>19, <1>22, SMT
  <2>7. p0 = c * b + l /\ low = ml * b + l /\ l \in Int /\ low \in Int
    BY <1>7, <1>15, <1>24, <1>26
  <2> QED BY <2>1, <2>2, <2>3, <2>4, <2>5, <2>6, <2>7
<1>28. h < w
  <2>1. x \in 0..(w - 1) /\ y \in 0..(w - 1)
    BY <1>2 DEF Word
  <2>2. SUFFICES ASSUME h >= w PROVE FALSE
    BY <1>7, <1>25
  <2>3. (h - w) * w >= 0 /\ (h - w) * w = h * w - w * w /\ h * w \in Int /\ w * w \in Int
    BY <1>7, <1>25, <2>2, SMT
  <2>4. x * y <= x * w
    <3>1. x * (w - y) >= 0 /\ x * (w - y) = x * w - x * y /\ x * w \in Int /\ x * y \in Int
      BY <1>7, <2>1, SMT
    <3> QED BY <3>1
  <2>5. x * w <= w * w - w
    <3>1. (w - 1 - x) * w >= 0 /\ (w - 1 - x) * w = w * w - w - x * w /\ x * w \in Int
      BY <1>7, <2>1, SMT
    <3> QED BY <1>7, <2>3, <3>1
  <2>6. x * y \in Int /\ x * w \in Int
    BY <1>7, <2>1, SMT
  <2> QED BY <1>7, <1>26, <1>27, <2>3, <2>4, <2>5, <2>6
<1>29. (x * y) \div w = h /\ (x * y) % w = low
  <2>1. x * y \in Int
    BY <1>2, <1>7, SMT DEF Word
  <2>2. PICK z : z = x * y
    OBVIOUS
  <2>3. w \in Nat \ {0} /\ h \in Int /\ low \in 0..(w - 1) /\ z \in Int /\ z = h * w + low
    BY <1>7, <1>25, <1>26, <1>27, <2>1, <2>2
  <2>4. z \div w = h /\ z % w = low
    BY <2>3, Divided
  <2> QED BY <2>2, <2>4, Zenon
<1>30. h % w = h /\ low % w = low
  <2>1. w \in Nat /\ low \in Nat /\ low < w /\ h \in Nat
    BY <1>7, <1>25, <1>26
  <2> QED BY <1>28, <2>1, Smaller
<1>31. umul_ppmm(x, y) = [h |-> h, l |-> low]
  BY <1>2, <1>29, Zenon DEF umul_ppmm
<1>32. umul_ppmm_c(x, y) = [h |-> h % w, l |-> low % w]
  <2>1. umul_ppmm_c(x, y)
          = [h |-> (p3 + (IF m < p2 THEN b ELSE 0) + mh) % w, l |-> (ml * b + l) % w]
    BY <1>1, <1>2, <1>3, <1>4, <1>5, <1>6, <1>8, <1>9, <1>10, <1>11, <1>12, <1>13, <1>17, <1>20,
       <1>21, Zenon DEF umul_ppmm_c
  <2> QED BY <1>23, <1>24, <2>1, Zenon
<1> QED BY <1>30, <1>31, <1>32, Zenon

(* libgcc2.c 329-341: the product of two double words. *)
LEMMA LongProduct ==
  ASSUME NEW x \in DWord, NEW y \in DWord
  PROVE  muldi3(x, y) = (x * y) % (W * W)
<1>1. PICK w : w = W
  OBVIOUS
<1>2. PICK xh : xh = High(x)
  OBVIOUS
<1>3. PICK xl : xl = Low(x)
  OBVIOUS
<1>4. PICK yh : yh = High(y)
  OBVIOUS
<1>5. PICK yl : yl = Low(y)
  OBVIOUS
<1>6. /\ x = xh * w + xl /\ xh \in 0..(w - 1) /\ xl \in 0..(w - 1)
      /\ y = yh * w + yl /\ yh \in 0..(w - 1) /\ yl \in 0..(w - 1)
      /\ w \in Nat \ {0}
  BY <1>1, <1>2, <1>3, <1>4, <1>5, WordsOf, SignedWords DEF Word
<1>7. xl \in Word /\ yl \in Word
  BY <1>1, <1>6 DEF Word
<1>8. PICK p : p = xl * yl
  OBVIOUS
<1>9. PICK ph : ph = p \div w
  OBVIOUS
<1>10. PICK pl : pl = p % w
  OBVIOUS
<1>11. p \in Nat /\ p = ph * w + pl /\ pl \in 0..(w - 1) /\ ph \in Nat
  <2>1. p \in Nat
    BY <1>6, <1>8, SMT
  <2>2. p = w * ph + pl /\ pl \in 0..(w - 1) /\ ph \in Nat
    BY <1>6, <1>9, <1>10, <2>1, SMT
  <2>3. w * ph = ph * w
    BY <1>6, <2>2, SMT
  <2> QED BY <2>1, <2>2, <2>3
<1>12. umulsidi3(xl, yl) = p
  <2>1. umul_ppmm_c(xl, yl) = umul_ppmm(xl, yl)
    BY <1>7, GenericProduct
  <2>2. umul_ppmm_c(xl, yl) = [h |-> ph, l |-> pl]
    BY <1>1, <1>8, <1>9, <1>10, <2>1, Zenon DEF umul_ppmm
  <2>3. umulsidi3(xl, yl) = ph * w + pl
    BY <1>1, <2>2 DEF umulsidi3, Pair
  <2> QED BY <1>11, <2>3
<1>13. PICK a : a = xl * yh
  OBVIOUS
<1>14. PICK b : b = xh * yl
  OBVIOUS
<1>15. PICK t : t = ph + a + b
  OBVIOUS
<1>16. PICK q : q = t \div w
  OBVIOUS
<1>17. PICK r : r = t % w
  OBVIOUS
<1>18. a \in Nat /\ b \in Nat /\ t \in Nat /\ t = w * q + r /\ r \in 0..(w - 1) /\ q \in Nat
  <2>1. a \in Nat /\ b \in Nat
    BY <1>6, <1>13, <1>14, SMT
  <2>2. t \in Nat
    BY <1>11, <1>15, <2>1
  <2> QED BY <1>6, <1>16, <1>17, <2>1, <2>2, SMT
<1>19. muldi3(x, y) = Pair(r, pl)
  <2>1. muldi3(x, y) = Pair((High(p) + xl * yh + xh * yl) % W, Low(p))
    BY <1>2, <1>3, <1>4, <1>5, <1>12, Zenon DEF muldi3
  <2>2. High(p) = ph /\ Low(p) = pl
    BY <1>1, <1>9, <1>10 DEF High, Low
  <2> QED BY <1>1, <1>13, <1>14, <1>15, <1>17, <2>1, <2>2, Zenon
<1>20. Pair(r, pl) \in DWord /\ Pair(r, pl) = r * w + pl
  <2>1. r \in Word /\ pl \in Word
    BY <1>1, <1>11, <1>18 DEF Word
  <2> QED BY <1>1, <2>1, PairOf
<1>21. PICK k : k = xh * yh + q
  OBVIOUS
<1>22. k \in Int
  BY <1>6, <1>18, <1>21, SMT
<1>23. x * y = k * (w * w) + Pair(r, pl)
  <2>1. (xh * w + xl) * (yh * w + yl)
          = (xh * yh) * (w * w) + (xl * yh) * w + (xh * yl) * w + xl * yl
    BY <1>6, SMT
  <2>2. x * y = (xh * yh) * (w * w) + a * w + b * w + p
    BY <1>6, <1>8, <1>13, <1>14, <2>1, Zenon
  <2>3. k * (w * w) = (xh * yh) * (w * w) + q * (w * w)
    <3>1. (xh * yh + q) * (w * w) = (xh * yh) * (w * w) + q * (w * w)
      BY <1>6, <1>18, SMT
    <3> QED BY <1>21, <3>1, Zenon
  <2>4. ph * w + a * w + b * w = q * (w * w) + r * w
    <3>1. (ph + a + b) * w = ph * w + a * w + b * w
      BY <1>6, <1>11, <1>18, SMT
    <3>2. (w * q + r) * w = q * (w * w) + r * w
      BY <1>6, <1>18, SMT
    <3> QED BY <1>15, <1>18, <3>1, <3>2, Zenon
  <2>5. PICK f : f = (xh * yh) * (w * w)
    OBVIOUS
  <2>6. f \in Int /\ q * (w * w) \in Int /\ a * w \in Int /\ b * w \in Int /\ ph * w \in Int
        /\ r * w \in Int
    BY <1>6, <1>11, <1>18, <2>5, SMT
  <2> QED BY <1>11, <1>20, <2>2, <2>3, <2>4, <2>5, <2>6
<1>24. x * y \in Int
  BY <1>6, SMT
<1>25. (x * y) % (W * W) = Pair(r, pl)
  <2>1. x * y = k * (W * W) + Pair(r, pl)
    BY <1>1, <1>23, Zenon
  <2>2. Pair(r, pl) \in Int
    BY <1>20, WordsOf
  <2> QED BY <1>20, <1>22, <1>24, <2>1, <2>2, WrappedPair
<1> QED BY <1>19, <1>25, Zenon

(* longlong.h 1145-1167 and libgcc2.c 329-341: for words of every size,    *)
(* the products that are put together from halves are the products.        *)
THEOREM ProductIsExact == EveryPair => []Product
<1>1. ASSUME Operands PROVE Product
  <2>1. muldi3(u, v) = (u * v) % (W * W)
    BY <1>1, LongProduct DEF Operands
  <2>2. High(u) \in Word /\ Low(u) \in Word
    BY <1>1, WordsOf DEF Operands
  <2>3. umul_ppmm_c(High(u), Low(u)) = umul_ppmm(High(u), Low(u))
    BY <2>2, GenericProduct
  <2> QED BY <2>1, <2>3 DEF Product
<1> QED BY <1>1, OperandsTyped, PTL

(* The bits of a word cut in two. *)
LEMMA BitsCut ==
  ASSUME NEW b \in 0..SI_TYPE_SIZE
  PROVE  /\ TwoTo[b] \in Nat \ {0} /\ TwoTo[SI_TYPE_SIZE - b] \in Nat \ {0}
         /\ TwoTo[b] * TwoTo[SI_TYPE_SIZE - b] = W
<1>1. PICK S : S = SI_TYPE_SIZE
  OBVIOUS
<1>2. S \in Nat /\ b \in Nat /\ S - b \in Nat /\ b + (S - b) = S /\ S <= 2 * S
      /\ b \in 0..2 * S /\ S - b \in 0..2 * S
  BY <1>1, WordAssumption
<1>3. TwoTo[b + (S - b)] = TwoTo[b] * TwoTo[S - b]
  BY <1>1, <1>2, PowerSum
<1>4. TwoTo[S] = W
  BY <1>1, WordAssumption
<1> QED BY <1>1, <1>2, <1>3, <1>4, PowerEquations

(* Bits above those of a word. *)
LEMMA BitsAbove ==
  ASSUME NEW b \in SI_TYPE_SIZE..(2 * SI_TYPE_SIZE)
  PROVE  /\ TwoTo[b - SI_TYPE_SIZE] \in Nat \ {0}
         /\ TwoTo[b] = W * TwoTo[b - SI_TYPE_SIZE]
<1>1. PICK S : S = SI_TYPE_SIZE
  OBVIOUS
<1>2. S \in Nat /\ b - S \in Nat /\ S + (b - S) = b /\ b <= 2 * S /\ b - S \in 0..2 * S
  BY <1>1, WordAssumption
<1>3. TwoTo[S + (b - S)] = TwoTo[S] * TwoTo[b - S]
  BY <1>1, <1>2, PowerSum
<1>4. TwoTo[S] = W
  BY <1>1, WordAssumption
<1> QED BY <1>1, <1>2, <1>3, <1>4, PowerEquations

(* A division by a product is two divisions, also of negative numbers. *)
LEMMA DividedTwice ==
  ASSUME NEW x \in Int, NEW a \in Nat \ {0}, NEW b \in Nat \ {0}
  PROVE  x \div (a * b) = (x \div a) \div b
<1>1. PICK q : q = x \div a
  OBVIOUS
<1>2. PICK r : r = x % a
  OBVIOUS
<1>3. x = a * q + r /\ q \in Int /\ r \in 0..(a - 1)
  BY <1>1, <1>2, SMT
<1>4. PICK p : p = q \div b
  OBVIOUS
<1>5. PICK s : s = q % b
  OBVIOUS
<1>6. q = b * p + s /\ p \in Int /\ s \in 0..(b - 1)
  BY <1>3, <1>4, <1>5, SMT
<1>7. PICK d : d = a * b
  OBVIOUS
<1>8. PICK t : t = a * s + r
  OBVIOUS
<1>9. d \in Nat \ {0}
  BY <1>7, SMT
<1>10. t \in 0..(d - 1)
  <2>1. a * s \in Nat
    BY <1>6, SMT
  <2>2. a * (b - 1 - s) >= 0 /\ a * (b - 1 - s) = d - a - a * s
    BY <1>6, <1>7, SMT
  <2> QED BY <1>3, <1>8, <1>9, <2>1, <2>2
<1>11. x = p * d + t
  <2>1. a * (b * p + s) = p * (a * b) + a * s
    BY <1>6, SMT
  <2>2. p * (a * b) \in Int /\ a * s \in Int
    BY <1>6, SMT
  <2> QED BY <1>3, <1>6, <1>7, <1>8, <2>1, <2>2
<1>12. x \div d = p
  BY <1>6, <1>9, <1>10, <1>11, Divided
<1> QED BY <1>1, <1>4, <1>7, <1>12

(* __lshrdi3 *)
LEMMA ShiftedRight ==
  ASSUME NEW x \in DWord, NEW b \in 0..(2 * SI_TYPE_SIZE - 1)
  PROVE  lshrdi3(x, b) = x \div TwoTo[b]
<1>1. PICK h, l : h = High(x) /\ l = Low(x)
  OBVIOUS
<1>2. x = h * W + l /\ h \in Word /\ l \in Word /\ x \in Nat
  BY <1>1, WordsOf
<1>3. PICK S : S = SI_TYPE_SIZE
  OBVIOUS
<1>4. S \in Nat /\ b \in Int
  BY <1>3, WordAssumption
<1>5. CASE b = 0
  <2>1. TwoTo[0] = 1
    BY PowerEquations
  <2>2. lshrdi3(x, 0) = x
    BY DEF lshrdi3
  <2>3. x \div 1 = x
    BY <1>2
  <2> QED BY <1>5, <2>1, <2>2, <2>3
<1>6. CASE 0 < b /\ b < S
  <2>1. PICK P, Q : P = TwoTo[b] /\ Q = TwoTo[S - b]
    OBVIOUS
  <2>2. P \in Nat \ {0} /\ Q \in Nat \ {0} /\ P * Q = W
    BY <1>3, <1>4, <1>6, <2>1, BitsCut
  <2>3. Pair(h \div P, ((h * Q) % W) + (l \div P)) = (h * W + l) \div P
    BY <1>2, <2>2, PairShiftedBack
  <2>4. ((h * Q) % W) + (l \div P) = (l \div P) + ((h * Q) % W)
    BY <1>2, <2>2, WordSize, SMT DEF Word
  <2>5. lshrdi3(x, b) = Pair(h \div P, (l \div P) + ((h * Q) % W))
    <3>1. b # 0 /\ ~(S - b <= 0)
      BY <1>4, <1>6
    <3> QED BY <1>1, <1>3, <2>1, <3>1, Zenon DEF lshrdi3, ShiftRight, ShiftLeft
  <2> QED BY <1>2, <2>1, <2>3, <2>4, <2>5
<1>7. CASE S <= b /\ b # 0
  <2>1. PICK K : K = TwoTo[b - S]
    OBVIOUS
  <2>2. K \in Nat \ {0} /\ TwoTo[b] = W * K
    BY <1>3, <1>4, <1>7, <2>1, BitsAbove
  <2>3. lshrdi3(x, b) = h \div K
    <3>1. S - b <= 0 /\ -(S - b) = b - S
      BY <1>4, <1>7
    <3> QED BY <1>1, <1>3, <1>7, <2>1, <3>1 DEF lshrdi3, ShiftRight
  <2>4. x \div (W * K) = (x \div W) \div K
    BY <1>2, <2>2, WordSize, DividedTwice
  <2> QED BY <1>1, <2>2, <2>3, <2>4 DEF High
<1> QED BY <1>4, <1>5, <1>6, <1>7

(* __ashldi3 *)
LEMMA ShiftedLeft ==
  ASSUME NEW x \in DWord, NEW b \in 0..(2 * SI_TYPE_SIZE - 1)
  PROVE  ashldi3(x, b) = (x * TwoTo[b]) % (W * W)
<1>1. PICK h, l, w : h = High(x) /\ l = Low(x) /\ w = W
  OBVIOUS
<1>2. x = h * w + l /\ h \in Word /\ l \in Word /\ x \in Nat
  BY <1>1, WordsOf
<1>3. PICK S : S = SI_TYPE_SIZE
  OBVIOUS
<1>4. S \in Nat /\ b \in Int /\ w \in Nat \ {0} /\ h \in 0..(w - 1) /\ l \in 0..(w - 1)
  BY <1>1, <1>2, <1>3, WordAssumption, WordSize DEF Word
<1>5. CASE b = 0
  <2>1. TwoTo[0] = 1
    BY PowerEquations
  <2>2. ashldi3(x, 0) = x
    BY DEF ashldi3
  <2>3. x * 1 = x
    BY <1>2
  <2>4. x % (W * W) = x
    BY <1>2, WrappedPair
  <2> QED BY <1>5, <2>1, <2>2, <2>3, <2>4
<1>6. CASE 0 < b /\ b < S
  <2>1. PICK P, Q : P = TwoTo[b] /\ Q = TwoTo[S - b]
    OBVIOUS
  <2>2. P \in Nat \ {0} /\ Q \in Nat \ {0} /\ P * Q = W
    BY <1>3, <1>4, <1>6, <2>1, BitsCut
  <2>3. PICK a, s, c, t : a = h \div Q /\ s = (h * P) % W /\ c = l \div Q /\ t = (l * P) % W
    OBVIOUS
  <2>4. h * P = a * w + s /\ s \in 0..(w - P) /\ a \in 0..(P - 1)
    BY <1>1, <1>2, <2>2, <2>3, WordShifted
  <2>5. l * P = c * w + t /\ c \in 0..(P - 1) /\ t \in 0..(w - P)
    BY <1>1, <1>2, <2>2, <2>3, WordShifted
  <2>6. ashldi3(x, b) = Pair(s + c, t)
    <3>1. b # 0 /\ ~(S - b <= 0)
      BY <1>4, <1>6
    <3> QED BY <1>1, <1>3, <2>1, <2>3, <3>1, Zenon DEF ashldi3, ShiftRight, ShiftLeft
  <2>7. s + c \in Word /\ t \in Word
    BY <1>1, <1>4, <2>2, <2>4, <2>5 DEF Word
  <2>8. Pair(s + c, t) \in DWord /\ Pair(s + c, t) = (s + c) * w + t
    BY <1>1, <2>7, PairOf
  <2>9. x * P = a * (w * w) + ((s + c) * w + t)
    <3>1. x * P = (h * P) * w + l * P
      BY <1>2, <1>4, <2>2, SMT
    <3>2. (a * w + s) * w = a * (w * w) + s * w
      BY <1>4, <2>2, <2>4, SMT
    <3>3. (s + c) * w = s * w + c * w
      BY <1>4, <2>2, <2>4, <2>5, SMT
    <3>4. a * (w * w) \in Int /\ s * w \in Int /\ c * w \in Int
      BY <1>4, <2>2, <2>4, <2>5, SMT
    <3> QED BY <2>2, <2>4, <2>5, <3>1, <3>2, <3>3, <3>4
  <2>10. x * P \in Int /\ (s + c) * w + t \in Int /\ a \in Int
    BY <1>2, <1>4, <2>2, <2>4, <2>5, SMT
  <2>11. (x * P) % (W * W) = Pair(s + c, t)
    BY <1>1, <2>8, <2>9, <2>10, WrappedPair
  <2> QED BY <2>1, <2>6, <2>11
<1>7. CASE S <= b /\ b # 0
  <2>1. PICK K : K = TwoTo[b - S]
    OBVIOUS
  <2>2. K \in Nat \ {0} /\ TwoTo[b] = w * K
    BY <1>1, <1>3, <1>4, <1>7, <2>1, BitsAbove
  <2>3. PICK s, c : s = (l * K) % w /\ c = (l * K) \div w
    OBVIOUS
  <2>4. l * K = w * c + s /\ s \in 0..(w - 1) /\ c \in Int
    <3>1. PICK y : y = l * K
      OBVIOUS
    <3>2. y \in Nat
      BY <1>4, <2>2, <3>1, SMT
    <3>4. s = y % w /\ c = y \div w
      BY <2>3, <3>1, Zenon
    <3>3. y = w * c + s /\ s \in 0..(w - 1) /\ c \in Int
      BY <1>4, <3>2, <3>4, SMT
    <3> QED BY <3>1, <3>3
  <2>5. ashldi3(x, b) = Pair(s, 0)
    <3>1. S - b <= 0 /\ -(S - b) = b - S
      BY <1>4, <1>7
    <3> QED BY <1>1, <1>3, <1>7, <2>1, <2>3, <3>1 DEF ashldi3, ShiftLeft
  <2>6. s \in Word /\ 0 \in Word
    BY <1>1, <1>4, <2>4 DEF Word
  <2>7. Pair(s, 0) \in DWord /\ Pair(s, 0) = s * w + 0
    BY <1>1, <2>6, PairOf
  <2>8. x * (w * K) = (h * K + c) * (w * w) + (s * w + 0)
    <3>1. (h * w + l) * (w * K) = (h * K) * (w * w) + (l * K) * w
      BY <1>4, <2>2, SMT
    <3>2. (w * c + s) * w = c * (w * w) + s * w
      BY <1>4, <2>4, SMT
    <3>3. (h * K + c) * (w * w) = (h * K) * (w * w) + c * (w * w)
      BY <1>4, <2>2, <2>4, SMT
    <3>4. (h * K) * (w * w) \in Int /\ c * (w * w) \in Int /\ s * w \in Int
      BY <1>4, <2>2, <2>4, SMT
    <3> QED BY <1>2, <2>4, <3>1, <3>2, <3>3, <3>4
  <2>9. h * K + c \in Int /\ s * w + 0 \in Int /\ x * (w * K) \in Int
    BY <1>2, <1>4, <2>2, <2>4, SMT
  <2>10. (x * (w * K)) % (W * W) = Pair(s, 0)
    BY <1>1, <2>7, <2>8, <2>9, WrappedPair
  <2> QED BY <2>2, <2>5, <2>10
<1> QED BY <1>4, <1>5, <1>6, <1>7

(* A signed double word has a signed high word. *)
LEMMA SignedPair ==
  ASSUME NEW x \in DWord
  PROVE  /\ Signed(x) = SignedWord(High(x)) * W + Low(x)
         /\ SignedWord(High(x)) \in Int /\ Signed(x) \in Int
         /\ SignedWord(High(x)) \in -(W \div 2)..(W \div 2 - 1)
<1>1. PICK h, l, w : h = High(x) /\ l = Low(x) /\ w = W
  OBVIOUS
<1>2. x = h * w + l /\ h \in Word /\ l \in Word /\ x \in Nat
  BY <1>1, WordsOf
<1>3. PICK half : half = W \div 2
  OBVIOUS
<1>4. w \in Nat \ {0} /\ w = 2 * half /\ half \in Nat /\ h \in 0..(w - 1) /\ l \in 0..(w - 1)
  BY <1>1, <1>2, <1>3, SignedWords DEF Word
<1>5. CASE h >= half
  <2>1. SignedWord(h) = h - w /\ Signed(x) = x - w * w
    BY <1>1, <1>2, <1>3, <1>5, SignedWords DEF Signed
  <2>2. (h - w) * w = h * w - w * w /\ h * w \in Int /\ w * w \in Int
    BY <1>4, SMT
  <2> QED BY <1>1, <1>2, <1>3, <1>4, <1>5, <2>1, <2>2
<1>6. CASE ~(h >= half)
  <2>1. h < half
    BY <1>4, <1>6
  <2>2. SignedWord(h) = h /\ Signed(x) = x
    BY <1>1, <1>2, <1>3, <2>1, <1>6, SignedWords DEF Signed
  <2> QED BY <1>1, <1>2, <1>3, <1>4, <2>1, <2>2
<1> QED BY <1>5, <1>6

(* A word below 0 divided by a power of two, in two's complement. *)
LEMMA WordShiftedArithmetic ==
  ASSUME NEW x \in Word, NEW P \in Nat \ {0}, NEW Q \in Nat \ {0}, P * Q = W
  PROVE  /\ x >= W \div 2 => (SignedWord(x) \div P) % W = (x \div P) - Q + W
         /\ x < W \div 2 => (SignedWord(x) \div P) % W = x \div P
         /\ (x \div P) \in 0..(Q - 1) /\ Q <= W
         /\ x >= W \div 2 => (x \div P) - Q + W \in Word
         /\ x \div P \in Word
<1>1. PICK a, t, w : a = x \div P /\ t = x % P /\ w = W
  OBVIOUS
<1>2. x \in Nat /\ x < w /\ w \in Nat \ {0}
  BY <1>1, WordSize DEF Word
<1>3. x = P * a + t /\ t \in 0..(P - 1) /\ a \in Nat
  BY <1>1, <1>2, SMT
<1>4. Q * P = w
  BY <1>1, SMT
<1>5. a \in 0..(Q - 1)
  BY <1>1, <1>4, WordShifted
<1>6. Q <= w
  <2>1. (P - 1) * Q >= 0 /\ (P - 1) * Q = P * Q - Q
    BY SMT
  <2> QED BY <1>1, <1>4, <2>1, SMT
<1>7. a - Q + w \in 0..(w - 1) /\ a \in 0..(w - 1)
  BY <1>2, <1>5, <1>6
<1>8. ASSUME x >= W \div 2 PROVE (SignedWord(x) \div P) % W = a - Q + w
  <2>1. SignedWord(x) = x - w
    BY <1>1, <1>8, SignedWords
  <2>2. PICK y, m : y = x - w /\ m = a - Q
    OBVIOUS
  <2>3. y \in Int /\ m \in Int /\ y = m * P + t
    <3>1. (a - Q) * P = P * a - Q * P
      BY <1>3, SMT
    <3> QED BY <1>2, <1>3, <1>4, <2>2, <3>1
  <2>4. y \div P = m
    BY <1>3, <2>3, Divided
  <2>5. PICK k, n : k = -1 /\ n = a - Q + w
    OBVIOUS
  <2>6. m = k * w + n /\ n \in 0..(w - 1) /\ k \in Int
    BY <1>2, <1>7, <2>2, <2>3, <2>5
  <2>7. m % w = n
    BY <1>2, <2>3, <2>6, Divided
  <2> QED BY <1>1, <2>1, <2>2, <2>4, <2>5, <2>7
<1>9. ASSUME x < W \div 2 PROVE (SignedWord(x) \div P) % W = a
  <2>1. SignedWord(x) = x
    BY <1>9, SignedWords
  <2>2. a \in Int /\ a >= 0 /\ a < W
    BY <1>1, <1>7
  <2>3. a % W = a
    BY <2>2, Wrapped
  <2> QED BY <1>1, <2>1, <2>3
<1> QED BY <1>1, <1>5, <1>6, <1>7, <1>8, <1>9 DEF Word

(* __ashrdi3 *)
LEMMA ShiftedArithmetic ==
  ASSUME NEW x \in DWord, NEW b \in 0..(2 * SI_TYPE_SIZE - 1)
  PROVE  ashrdi3(x, b) = (Signed(x) \div TwoTo[b]) % (W * W)
<1>1. PICK h, l, w, y : h = High(x) /\ l = Low(x) /\ w = W /\ y = Signed(x)
  OBVIOUS
<1>2. x = h * w + l /\ h \in Word /\ l \in Word /\ x \in Nat
  BY <1>1, WordsOf
<1>3. PICK S, half : S = SI_TYPE_SIZE /\ half = W \div 2
  OBVIOUS
<1>4. S \in Nat /\ b \in Int /\ w \in Nat \ {0} /\ h \in 0..(w - 1) /\ l \in 0..(w - 1)
      /\ w = 2 * half /\ half \in Nat \ {0}
  BY <1>1, <1>2, <1>3, WordAssumption, SignedWords DEF Word
<1>5. PICK g : g = SignedWord(h)
  OBVIOUS
<1>6. y = g * w + l /\ g \in Int /\ y \in Int /\ g \in -half..(half - 1)
      /\ (h >= half => y = x - w * w /\ g < 0) /\ (h < half => y = x /\ g >= 0)
  <2>1. y = g * w + l /\ g \in Int /\ y \in Int /\ g \in -half..(half - 1)
    BY <1>1, <1>3, <1>5, SignedPair
  <2>2. (h >= half => y = x - w * w) /\ (h < half => y = x)
    BY <1>1, <1>3, <1>4 DEF Signed
  <2>3. (h >= half => g = h - w) /\ (h < half => g = h)
    BY <1>1, <1>2, <1>3, <1>5, SignedWords
  <2> QED BY <1>4, <2>1, <2>2, <2>3
<1>7. CASE b = 0
  <2>1. TwoTo[0] = 1
    BY PowerEquations
  <2>2. ashrdi3(x, 0) = x
    BY DEF ashrdi3
  <2>3. y \div 1 = y
    BY <1>6
  <2>4. y % (W * W) = x
    <3>1. w * w \in Int
      BY <1>4, SMT
    <3>2. CASE h >= half
      <4>1. y = (-1) * (w * w) + x /\ -1 \in Int
        BY <1>2, <1>6, <3>1, <3>2
      <4> QED BY <1>1, <1>2, <1>6, <4>1, WrappedPair
    <3>3. CASE h < half
      BY <1>2, <1>6, <3>3, WrappedPair
    <3> QED BY <1>4, <3>2, <3>3
  <2> QED BY <1>1, <1>7, <2>1, <2>2, <2>3, <2>4
<1>8. CASE 0 < b /\ b < S
  <2>1. PICK P, Q : P = TwoTo[b] /\ Q = TwoTo[S - b]
    OBVIOUS
  <2>2. P \in Nat \ {0} /\ Q \in Nat \ {0} /\ P * Q = W
    BY <1>3, <1>4, <1>8, <2>1, BitsCut
  <2>3. PICK a, low, z : a = h \div P /\ low = (l \div P) + ((h * Q) % W) /\ z = x \div P
    OBVIOUS
  <2>4. ashrdi3(x, b) = Pair((g \div P) % W, low)
    <3>1. b # 0 /\ ~(S - b <= 0)
      BY <1>4, <1>8
    <3> QED BY <1>1, <1>3, <1>5, <2>1, <2>3, <3>1, Zenon
            DEF ashrdi3, ShiftRight, ShiftLeft, ShiftArithmetic
  <2>5. a * w + low = z /\ low \in Int /\ z \in Int
    <3>1. Pair(h \div P, ((h * Q) % W) + (l \div P)) = (h * W + l) \div P
      BY <1>2, <2>2, PairShiftedBack
    <3>2. l \div P \in Int /\ (h * Q) % W \in Int
      BY <1>1, <1>4, <2>2, SMT
    <3>3. ((h * Q) % W) + (l \div P) = low
      BY <2>3, <3>2
    <3>4. z \in Int
      BY <1>2, <2>2, <2>3, SMT
    <3>5. Pair(a, low) = z
      BY <1>1, <1>2, <2>3, <3>1, <3>3, Zenon
    <3> QED BY <1>1, <2>3, <3>2, <3>4, <3>5 DEF Pair
  <2>6. /\ h >= half => (g \div P) % W = a - Q + w
        /\ h < half => (g \div P) % W = a
        /\ a \in 0..(Q - 1) /\ Q <= w
    BY <1>1, <1>2, <1>3, <1>5, <2>2, <2>3, WordShiftedArithmetic
  <2>7. z \in DWord
    <3>1. z <= x /\ z >= 0
      <4>1. PICK r : r = x % P
        OBVIOUS
      <4>4. z = x \div P
        BY <2>3
      <4>2. x = P * z + r /\ r \in 0..(P - 1) /\ z \in Nat
        <5>1. x \in Nat /\ P \in Nat \ {0} /\ z = x \div P /\ r = x % P
          BY <1>2, <2>2, <4>1, <4>4
        <5> QED BY ONLY <5>1, SMT
      <4>3. (P - 1) * z >= 0 /\ (P - 1) * z = P * z - z /\ P * z \in Int
        BY <2>2, <4>2, SMT
      <4> QED BY <2>2, <4>2, <4>3
    <3>2. W * W \in Int
      BY WordSize, SMT
    <3> QED BY <1>2, <2>5, <3>1, <3>2 DEF DWord
  <2>8. CASE h >= half
    <3>1. y \div P = z - Q * w
      <4>1. PICK r : r = x % P
        OBVIOUS
      <4>9. z = x \div P
        BY <2>3
      <4>2. x = P * z + r /\ r \in 0..(P - 1)
        <5>1. x \in Nat /\ P \in Nat \ {0} /\ z = x \div P /\ r = x % P
          BY <1>2, <2>2, <4>1, <4>9
        <5> QED BY ONLY <5>1, SMT
      <4>3. PICK m : m = z - Q * w
        OBVIOUS
      <4>4. Q * w \in Int
        BY <1>4, <2>2, SMT
      <4>5. m * P = P * z - (P * Q) * w
        BY <1>4, <2>2, <2>5, <4>3, SMT
      <4>6. (P * Q) * w = w * w /\ P * z \in Int /\ w * w \in Int
        BY <1>1, <1>4, <2>2, <2>5, SMT
      <4>7. y = m * P + r /\ m \in Int
        BY <1>2, <1>6, <2>5, <2>8, <4>2, <4>3, <4>4, <4>5, <4>6
      <4>8. y \div P = m
        <5>1. P \in Nat \ {0} /\ m \in Int /\ r \in 0..(P - 1)
          BY <2>2, <4>2, <4>7
        <5>2. y \in Int /\ y = m * P + r
          BY <1>6, <4>7
        <5> QED BY ONLY <5>1, <5>2, Divided
      <4> QED BY <4>3, <4>8
    <3>2. (a - Q + w) * w + low = z - Q * w + w * w
      <4>1. (a - Q + w) * w = a * w - Q * w + w * w
        BY <1>4, <2>2, <2>6, SMT
      <4>2. a * w \in Int /\ Q * w \in Int /\ w * w \in Int
        BY <1>4, <2>2, <2>6, SMT
      <4> QED BY <2>5, <4>1, <4>2
    <3>3. PICK n, m : n = z - Q * w + w * w /\ m = z - Q * w
      OBVIOUS
    <3>4. n \in DWord /\ n \in Int /\ m \in Int /\ m = (-1) * (w * w) + n /\ -1 \in Int
      <4>1. w * w - Q * w >= 0 /\ Q * w \in Int /\ w * w \in Int
        <5>1. (w - Q) * w >= 0 /\ (w - Q) * w = w * w - Q * w
          BY <1>4, <2>2, <2>6, SMT
        <5> QED BY <1>4, <2>2, <5>1, SMT
      <4>2. z < Q * w
        <5>1. (Q - 1 - a) * w >= 0 /\ (Q - 1 - a) * w = Q * w - w - a * w
          BY <1>4, <2>2, <2>6, SMT
        <5>2. low < w
          <6>1. PICK c, s : c = l \div P /\ s = (h * Q) % W
            OBVIOUS
          <6>2. s \in 0..(w - Q)
            <7>1. Q * P = W
              BY <2>2, SMT
            <7> QED BY <1>1, <1>2, <2>2, <6>1, <7>1, WordShifted
          <6>3. c \in 0..(Q - 1)
            <7>1. c = l \div P /\ l \in Word
              BY <1>2, <6>1
            <7> QED BY <2>2, <7>1, WordShiftedArithmetic
          <6> QED BY <1>4, <2>2, <2>3, <6>1, <6>2, <6>3
        <5>3. a * w \in Int
          BY <1>4, <2>6, SMT
        <5> QED BY <1>4, <2>5, <4>1, <5>1, <5>2, <5>3
      <4>3. z >= 0
        BY <2>7, <4>1 DEF DWord
      <4> QED BY <1>1, <2>5, <3>3, <4>1, <4>2, <4>3 DEF DWord
    <3>5. m % (W * W) = n
      BY <1>1, <3>4, WrappedPair
    <3>6. ashrdi3(x, b) = n
      BY <1>1, <2>4, <2>6, <2>8, <3>2, <3>3 DEF Pair
    <3> QED BY <1>1, <2>1, <3>1, <3>3, <3>5, <3>6
  <2>9. CASE h < half
    <3>1. ashrdi3(x, b) = z
      BY <1>1, <2>4, <2>5, <2>6, <2>9 DEF Pair
    <3>2. z % (W * W) = z
      BY <2>5, <2>7, WrappedPair
    <3> QED BY <1>1, <1>6, <2>1, <2>3, <2>9, <3>1, <3>2
  <2> QED BY <1>4, <2>8, <2>9
<1>9. CASE S <= b /\ b # 0
  <2>1. PICK K, p : K = TwoTo[b - S] /\ p = g \div K
    OBVIOUS
  <2>2. K \in Nat \ {0} /\ TwoTo[b] = w * K
    BY <1>1, <1>3, <1>4, <1>9, <2>1, BitsAbove
  <2>3. y \div TwoTo[b] = p
    <3>1. y \div (w * K) = (y \div w) \div K
      BY <1>4, <1>6, <2>2, DividedTwice
    <3>2. y \div w = g
      BY <1>4, <1>6, Divided
    <3> QED BY <2>1, <2>2, <3>1, <3>2
  <2>4. TwoTo[S - 1] = half
    <3>1. S - 1 \in 0..(2 * S - 1)
      BY <1>3, <1>4, <1>9
    <3>2. TwoTo[(S - 1) + 1] = 2 * TwoTo[S - 1] /\ TwoTo[S - 1] \in Nat
      <4>1. S - 1 \in 0..2 * S
        BY <1>4, <3>1
      <4> QED BY <1>3, <3>1, <4>1, PowerEquations
    <3>3. (S - 1) + 1 = S /\ TwoTo[S] = w
      <4>1. TwoTo[S] = w
        BY <1>1, <1>3, WordAssumption
      <4> QED BY <1>4, <4>1
    <3> QED BY <1>4, <3>2, <3>3
  <2>5. ashrdi3(x, b) = Pair((g \div half) % w, p % w)
    <3>1. S - b <= 0 /\ -(S - b) = b - S
      BY <1>4, <1>9
    <3> QED BY <1>1, <1>3, <1>5, <1>9, <2>1, <2>4, <3>1 DEF ashrdi3, ShiftArithmetic
  <2>6. CASE g >= 0
    <3>1. g \div half = 0
      <4>1. g = 0 * half + g /\ g \in 0..(half - 1)
        BY <1>4, <1>6, <2>6
      <4> QED BY <1>4, <1>6, <4>1, Divided
    <3>2. p \in 0..(w - 1)
      <4>1. PICK r : r = g % K
        OBVIOUS
      <4>2. g = K * p + r /\ r \in 0..(K - 1) /\ p \in Nat
        BY <1>6, <2>1, <2>2, <2>6, <4>1, SMT
      <4>3. (K - 1) * p >= 0 /\ (K - 1) * p = K * p - p /\ K * p \in Int
        BY <2>2, <4>2, SMT
      <4> QED BY <1>4, <1>6, <2>2, <4>2, <4>3
    <3>3. 0 % w = 0 /\ p % w = p
      BY <1>1, <1>4, <3>2, Wrapped
    <3>4. 0 \in Word /\ p \in Word
      BY <1>1, <1>4, <3>2 DEF Word
    <3>5. Pair(0, p) \in DWord /\ Pair(0, p) = 0 * w + p
      BY <1>1, <3>4, PairOf
    <3>6. 0 * w + p = p /\ p \in Int
      BY <1>4, <3>2
    <3>7. p % (W * W) = p
      BY <3>5, <3>6, WrappedPair
    <3> QED BY <1>1, <2>3, <2>5, <3>1, <3>3, <3>5, <3>6, <3>7
  <2>7. CASE g < 0
    <3>1. g \div half = -1
      <4>1. g = (-1) * half + (g + half) /\ g + half \in 0..(half - 1) /\ -1 \in Int
        BY <1>4, <1>6, <2>7
      <4> QED BY <1>4, <1>6, <4>1, Divided
    <3>2. p \in -w..-1
      <4>1. PICK r : r = g % K
        OBVIOUS
      <4>2. g = K * p + r /\ r \in 0..(K - 1) /\ p \in Int
        BY <1>6, <2>1, <2>2, <4>1, SMT
      <4>3. p < 0
        <5>1. SUFFICES ASSUME p >= 0 PROVE FALSE
          BY <4>2
        <5>2. K * p >= 0
          BY <2>2, <4>2, <5>1, SMT
        <5> QED BY <2>2, <2>7, <4>2, <5>2
      <4>4. p >= g
        <5>1. (K - 1) * (-(p + 1)) >= 0 /\ (K - 1) * (-(p + 1)) = p + 1 - K * p - K
          BY <2>2, <4>2, <4>3, SMT
        <5>2. K * p \in Int
          BY <2>2, <4>2, SMT
        <5> QED BY <2>2, <4>2, <5>1, <5>2
      <4> QED BY <1>4, <1>6, <4>2, <4>3, <4>4
    <3>3. p + w \in 0..(w - 1) /\ p = (-1) * w + (p + w) /\ -1 \in Int /\ p \in Int
      BY <1>4, <3>2
    <3>4. p % w = p + w
      BY <1>4, <3>3, Divided
    <3>5. (-1) % w = w - 1
      <4>1. -1 = (-1) * w + (w - 1) /\ w - 1 \in 0..(w - 1) /\ -1 \in Int
        BY <1>4
      <4> QED BY <1>4, <4>1, Divided
    <3>6. w - 1 \in Word /\ p + w \in Word
      BY <1>1, <1>4, <3>3 DEF Word
    <3>7. Pair(w - 1, p + w) \in DWord /\ Pair(w - 1, p + w) = (w - 1) * w + (p + w)
      BY <1>1, <3>6, PairOf
    <3>8. p = (-1) * (w * w) + ((w - 1) * w + (p + w)) /\ (w - 1) * w + (p + w) \in Int
      <4>1. (w - 1) * w = w * w - w /\ w * w \in Int
        BY <1>4, SMT
      <4> QED BY <1>4, <3>3, <4>1
    <3>9. p % (W * W) = Pair(w - 1, p + w)
      BY <1>1, <3>3, <3>7, <3>8, WrappedPair
    <3> QED BY <1>1, <2>3, <2>5, <3>1, <3>4, <3>5, <3>9
  <2> QED BY <1>4, <1>6, <2>6, <2>7
<1> QED BY <1>4, <1>7, <1>8, <1>9

(* The lowest 1 of a word. *)
LEMMA LowestOne ==
  ASSUME NEW x \in Word, x # 0
  PROVE  /\ ffs(x) \in 1..SI_TYPE_SIZE
         /\ \E k \in Nat : x = (2 * k + 1) * TwoTo[ffs(x) - 1]
<1>1. PICK S, w : S = SI_TYPE_SIZE /\ w = W
  OBVIOUS
<1>2. S \in Nat /\ x \in Nat /\ x < w /\ w \in Nat \ {0}
  BY <1>1, WordAssumption, WordSize DEF Word
<1>3. \A i \in 0..S : TwoTo[i] \in Nat \ {0}
  BY <1>1, BitsCut
<1> DEFINE T == {i \in 0..S : x % TwoTo[i] # 0}
<1>4. PICK i \in T : \A j \in T : i <= j
  <2>1. S \in T
    <3>1. TwoTo[S] = w /\ x % w = x
      BY <1>1, <1>2, WordAssumption, Wrapped
    <3> QED BY <1>2, <3>1
  <2>2. T \subseteq Nat
    BY <1>2
  <2> HIDE DEF T
  <2> QED BY <2>1, <2>2, LeastNumber
<1>5. i \in 1..S
  <2>1. x % 1 = 0 /\ TwoTo[0] = 1
    BY <1>2, PowerEquations
  <2> QED BY <1>2, <2>1
<1>6. PICK P : P = TwoTo[i - 1]
  OBVIOUS
<1>7. P \in Nat \ {0} /\ TwoTo[i] = 2 * P
  <2>1. i - 1 \in 0..S /\ i - 1 \in 0..(2 * S - 1) /\ (i - 1) + 1 = i
    BY <1>2, <1>5
  <2>2. TwoTo[(i - 1) + 1] = 2 * TwoTo[i - 1]
    BY <1>1, <2>1, PowerEquations
  <2> QED BY <1>3, <1>6, <2>1, <2>2
<1>8. x % P = 0
  <2>1. i - 1 \notin T /\ i - 1 \in 0..S
    <3>1. ~(i <= i - 1) /\ i - 1 \in 0..S
      BY <1>2, <1>5
    <3> HIDE DEF T
    <3> QED BY <1>4, <3>1
  <2> QED BY <1>6, <2>1
<1>9. PICK m : m = x \div P
  OBVIOUS
<1>10. x = P * m /\ m \in Nat
  <2>1. x = P * m + (x % P) /\ m \in Nat
    <3>1. PICK z : z = x % P
      OBVIOUS
    <3>3. x \in Int /\ x >= 0 /\ P \in Nat \ {0} /\ m = x \div P /\ z = x % P
      BY <1>2, <1>7, <1>9, <3>1
    <3>2. x = P * m + z /\ m \in Nat
      BY ONLY <3>3, SMT
    <3> QED BY <3>1, <3>2, Zenon
  <2>2. P * m \in Nat
    BY <1>7, <2>1, SMT
  <2> QED BY <1>8, <2>1, <2>2
<1>11. PICK k, r : k = m \div 2 /\ r = m % 2
  OBVIOUS
<1>12. m = 2 * k + r /\ k \in Nat /\ r \in {0, 1}
  BY <1>10, <1>11
<1>13. x = k * (2 * P) + r * P /\ r * P \in 0..(2 * P - 1)
  <2>1. P * (2 * k + r) = k * (2 * P) + r * P
    BY <1>7, <1>12, SMT
  <2>2. r * P \in 0..(2 * P - 1)
    <3>1. CASE r = 0
      BY <1>7, <3>1
    <3>2. CASE r = 1
      BY <1>7, <3>2
    <3> QED BY <1>12, <3>1, <3>2
  <2> QED BY <1>10, <1>12, <2>1, <2>2
<1>14. x % TwoTo[i] = r * P
  <2>1. PICK D, y : D = 2 * P /\ y = r * P
    OBVIOUS
  <2>2. D \in Nat \ {0} /\ x = k * D + y /\ y \in 0..(D - 1) /\ k \in Int /\ x \in Int
    BY <1>2, <1>7, <1>12, <1>13, <2>1
  <2>3. x % D = y
    BY <2>2, Divided
  <2> QED BY <1>7, <2>1, <2>3
<1>15. r = 1 /\ x % TwoTo[i] = TwoTo[i - 1]
  <2>1. x % TwoTo[i] # 0
    BY <1>4
  <2>2. r # 0
    <3>1. r = 0 => r * P = 0
      BY <1>7
    <3> QED BY <1>14, <2>1, <3>1
  <2>3. r = 1 /\ r * P = P
    BY <1>7, <1>12, <2>2
  <2> QED BY <1>6, <1>14, <2>3
<1> HIDE DEF T
<1>16. PICK f : f = ffs(x)
  OBVIOUS
<1>17. f \in 1..S /\ x % TwoTo[f] = TwoTo[f - 1]
  <2>1. f = CHOOSE j \in 1..S : x % TwoTo[j] = TwoTo[j - 1]
    BY <1>1, <1>16 DEF ffs
  <2>2. \E j \in 1..S : x % TwoTo[j] = TwoTo[j - 1]
    BY <1>5, <1>15
  <2> QED BY <2>1, <2>2, Zenon
<1>18. PICK R : R = TwoTo[f - 1]
  OBVIOUS
<1>19. R \in Nat \ {0} /\ TwoTo[f] = 2 * R
  <2>1. f - 1 \in 0..S /\ f - 1 \in 0..(2 * S - 1) /\ (f - 1) + 1 = f
    BY <1>2, <1>17
  <2>2. TwoTo[(f - 1) + 1] = 2 * TwoTo[f - 1]
    BY <1>1, <2>1, PowerEquations
  <2> QED BY <1>3, <1>18, <2>1, <2>2
<1>20. PICK D, n : D = 2 * R /\ n = x \div D
  OBVIOUS
<1>21. n \in Nat /\ x = D * n + R /\ D \in Nat \ {0}
  <2>1. D \in Nat \ {0} /\ R = x % D
    BY <1>17, <1>18, <1>19, <1>20
  <2>2. x \in Int /\ x >= 0 /\ D \in Nat \ {0} /\ n = x \div D /\ R = x % D
    BY <1>2, <1>20, <2>1
  <2>3. x = D * n + R /\ n \in Nat
    BY ONLY <2>2, SMT
  <2> QED BY <2>1, <2>3
<1>22. x = (2 * n + 1) * R
  <2>1. (2 * n + 1) * R = (2 * R) * n + R
    BY <1>19, <1>21, SMT
  <2> QED BY <1>20, <1>21, <2>1
<1> QED BY <1>1, <1>16, <1>17, <1>18, <1>21, <1>22

(* __ffsdi2 *)
LEMMA LowestOneOfPair ==
  ASSUME NEW x \in DWord, x # 0
  PROVE  \E odd \in 0..W * W : odd % 2 = 1 /\ x = odd * TwoTo[ffsdi2(x) - 1]
<1>1. PICK h, l, w, S : h = High(x) /\ l = Low(x) /\ w = W /\ S = SI_TYPE_SIZE
  OBVIOUS
<1>2. x = h * w + l /\ h \in Word /\ l \in Word /\ x \in Nat
  BY <1>1, WordsOf
<1>3. w \in Nat \ {0} /\ h \in 0..(w - 1) /\ l \in 0..(w - 1) /\ w * w \in Nat /\ S \in Nat /\ x < w * w
  <2>1. w \in Nat \ {0} /\ h \in 0..(w - 1) /\ l \in 0..(w - 1) /\ S \in Nat
    BY <1>1, <1>2, WordAssumption, WordSize DEF Word
  <2>2. w * w \in Nat
    BY <2>1, SMT
  <2> QED BY <1>1, <2>1, <2>2 DEF DWord
<1>4. ASSUME NEW k \in Nat, NEW T \in Nat \ {0}, T = TwoTo[ffsdi2(x) - 1], x = (2 * k + 1) * T
      PROVE  \E odd \in 0..W * W : odd % 2 = 1 /\ x = odd * TwoTo[ffsdi2(x) - 1]
  <2>1. PICK o : o = 2 * k + 1
    OBVIOUS
  <2>2. o \in Nat /\ o % 2 = 1
    BY <2>1
  <2>3. o <= x
    <3>1. (T - 1) * o >= 0 /\ (T - 1) * o = o * T - o /\ o * T \in Int
      BY <2>2, SMT
    <3> QED BY <1>2, <1>4, <2>1, <2>2, <3>1
  <2>4. o \in 0..W * W
    BY <1>1, <1>2, <1>3, <2>2, <2>3
  <2> QED BY <1>4, <2>1, <2>2, <2>4
<1>5. CASE l # 0
  <2>1. PICK i : i = ffs(l)
    OBVIOUS
  <2>2. i \in 1..S
    BY <1>1, <1>2, <1>5, <2>1, LowestOne
  <2>3. PICK k \in Nat : l = (2 * k + 1) * TwoTo[i - 1]
    BY <1>2, <1>5, <2>1, LowestOne
  <2>4. ffsdi2(x) = i
    <3>1. i # 0
      BY <1>3, <2>2
    <3> QED BY <1>1, <2>1, <3>1 DEF ffsdi2
  <2>5. PICK P, R : P = TwoTo[i - 1] /\ R = TwoTo[S - i]
    OBVIOUS
  <2>6. P \in Nat \ {0} /\ R \in Nat \ {0} /\ w = (2 * P) * R
    <3>1. i \in 0..S /\ i - 1 \in 0..S /\ i - 1 \in 0..(2 * S - 1) /\ (i - 1) + 1 = i
      BY <1>3, <2>2
    <3>2. TwoTo[i] * R = w /\ R \in Nat \ {0} /\ P \in Nat \ {0}
      BY <1>1, <2>5, <3>1, BitsCut
    <3>3. TwoTo[(i - 1) + 1] = 2 * P
      BY <1>1, <2>5, <3>1, PowerEquations
    <3> QED BY <3>1, <3>2, <3>3
  <2>7. x = (2 * (h * R + k) + 1) * P
    <3>1. h * ((2 * P) * R) + (2 * k + 1) * P = (2 * (h * R + k) + 1) * P
      BY <1>3, <2>6, SMT
    <3> QED BY <1>2, <2>3, <2>5, <2>6, <3>1
  <2>8. h * R + k \in Nat
    BY <1>3, <2>6, SMT
  <2> QED BY <1>4, <2>4, <2>5, <2>6, <2>7, <2>8
<1>6. CASE l = 0
  <2>1. h # 0
    <3>1. h = 0 => h * w = 0
      BY <1>3
    <3> QED BY <1>2, <1>3, <1>6, <3>1
  <2>2. PICK j : j = ffs(h)
    OBVIOUS
  <2>3. j \in 1..S
    BY <1>1, <1>2, <2>1, <2>2, LowestOne
  <2>4. PICK k \in Nat : h = (2 * k + 1) * TwoTo[j - 1]
    BY <1>2, <2>1, <2>2, LowestOne
  <2>5. ffsdi2(x) = j + S
    <3>1. j # 0 /\ ffs(l) = 0
      BY <1>3, <1>6, <2>3 DEF ffs
    <3> QED BY <1>1, <2>2, <3>1 DEF ffsdi2
  <2>6. PICK P, T : P = TwoTo[j - 1] /\ T = TwoTo[ffsdi2(x) - 1]
    OBVIOUS
  <2>7. T = w * P /\ P \in Nat \ {0}
    <3>1. PICK b : b = ffsdi2(x) - 1
      OBVIOUS
    <3>2. b \in S..2 * S /\ b - S = j - 1
      BY <1>3, <2>3, <2>5, <3>1
    <3> QED BY <1>1, <2>6, <3>1, <3>2, BitsAbove
  <2>8. T \in Nat \ {0}
    BY <1>3, <2>7, SMT
  <2>9. x = (2 * k + 1) * T
    <3>1. ((2 * k + 1) * P) * w = (2 * k + 1) * (w * P)
      BY <1>3, <2>7, SMT
    <3>2. h * w \in Int
      BY <1>3, SMT
    <3> QED BY <1>2, <1>6, <2>4, <2>6, <2>7, <3>1, <3>2
  <2> QED BY <1>4, <2>6, <2>8, <2>9
<1> QED BY <1>3, <1>5, <1>6

(* Which of two numbers is less, from their digits. *)
LEMMA DigitsCompared ==
  ASSUME NEW ah \in Int, NEW bh \in Int, NEW al \in Word, NEW bl \in Word
  PROVE  Compare(ah, bh, al, bl) - 1
           = (IF ah * W + al < bh * W + bl THEN -1
              ELSE IF ah = bh /\ al = bl THEN 0 ELSE 1)
<1>1. PICK w, a, b : w = W /\ a = ah * w + al /\ b = bh * w + bl
  OBVIOUS
<1>2. w \in Nat \ {0} /\ al \in 0..(w - 1) /\ bl \in 0..(w - 1)
  BY <1>1, WordSize DEF Word
<1>3. a \in Int /\ b \in Int /\ (ah < bh => a < b) /\ (bh < ah => b < a)
  BY <1>1, <1>2, PairOrder
<1>4. ah = bh => (al < bl => a < b) /\ (bl < al => b < a) /\ (al = bl => a = b)
  <2>1. ah * w \in Int
    BY <1>2, SMT
  <2> QED BY <1>1, <1>2, <2>1
<1>5. Compare(ah, bh, al, bl) - 1 = (IF a < b THEN -1 ELSE IF ah = bh /\ al = bl THEN 0 ELSE 1)
  BY <1>2, <1>3, <1>4 DEF Compare
<1> QED BY <1>1, <1>5

(* __cmpdi2 and __ucmpdi2 *)
LEMMA PairsCompared ==
  ASSUME NEW x \in DWord, NEW y \in DWord
  PROVE  /\ cmpdi2(x, y) - 1
              = (IF Signed(x) < Signed(y) THEN -1 ELSE IF x = y THEN 0 ELSE 1)
         /\ ucmpdi2(x, y) - 1 = (IF x < y THEN -1 ELSE IF x = y THEN 0 ELSE 1)
<1>1. PICK h, l, g, k : h = High(x) /\ l = Low(x) /\ g = High(y) /\ k = Low(y)
  OBVIOUS
<1>2. /\ x = h * W + l /\ h \in Word /\ l \in Word
      /\ y = g * W + k /\ g \in Word /\ k \in Word
  BY <1>1, WordsOf
<1>3. PICK w : w = W
  OBVIOUS
<1>4. w \in Nat \ {0} /\ h \in Int /\ g \in Int
  BY <1>2, <1>3, WordSize DEF Word
<1>5. x = y <=> h = g /\ l = k
  BY <1>1, <1>2, Zenon
<1>6. PICK p, q : p = SignedWord(h) /\ q = SignedWord(g)
  OBVIOUS
<1>7. /\ Signed(x) = p * W + l /\ p \in Int
      /\ Signed(y) = q * W + k /\ q \in Int
  BY <1>1, <1>6, SignedPair
<1>8. p = q <=> h = g
  <2>1. PICK half : half = W \div 2
    OBVIOUS
  <2>2. /\ w = 2 * half /\ half \in Nat /\ h \in 0..(w - 1) /\ g \in 0..(w - 1)
        /\ p = (IF h >= half THEN h - w ELSE h) /\ q = (IF g >= half THEN g - w ELSE g)
    BY <1>2, <1>3, <1>6, <2>1, SignedWords DEF Word, SignedWord
  <2> QED BY <2>2
<1>9. cmpdi2(x, y) = Compare(p, q, l, k) /\ ucmpdi2(x, y) = Compare(h, g, l, k)
  BY <1>1, <1>6, Zenon DEF cmpdi2, ucmpdi2
<1>10. Compare(p, q, l, k) - 1
         = (IF p * W + l < q * W + k THEN -1 ELSE IF p = q /\ l = k THEN 0 ELSE 1)
  BY <1>2, <1>7, DigitsCompared
<1>11. Compare(h, g, l, k) - 1
         = (IF h * W + l < g * W + k THEN -1 ELSE IF h = g /\ l = k THEN 0 ELSE 1)
  BY <1>2, <1>4, DigitsCompared
<1>12. cmpdi2(x, y) - 1 = (IF Signed(x) < Signed(y) THEN -1 ELSE IF x = y THEN 0 ELSE 1)
  BY <1>5, <1>7, <1>8, <1>9, <1>10, Zenon
<1>13. ucmpdi2(x, y) - 1 = (IF x < y THEN -1 ELSE IF x = y THEN 0 ELSE 1)
  BY <1>2, <1>5, <1>9, <1>11, Zenon
<1> QED BY <1>12, <1>13

(* __gcc_bcmp of the bytes of two pairs, the higher ones first. *)
LEMMA BytesCompared ==
  ASSUME NEW x \in DWord, NEW y \in DWord, NEW order,
         order = gcc_bcmp(<<High(x), Low(x)>>, <<High(y), Low(y)>>, 2)
  PROVE  (order < 0 <=> x < y) /\ (order = 0 <=> x = y)
<1>1. PICK h, l, g, k, w : h = High(x) /\ l = Low(x) /\ g = High(y) /\ k = Low(y) /\ w = W
  OBVIOUS
<1>2. /\ x = h * w + l /\ h \in Word /\ l \in Word
      /\ y = g * w + k /\ g \in Word /\ k \in Word
  BY <1>1, WordsOf
<1>3. w \in Nat \ {0} /\ h \in 0..(w - 1) /\ g \in 0..(w - 1) /\ l \in 0..(w - 1) /\ k \in 0..(w - 1)
  BY <1>1, <1>2, WordSize DEF Word
<1>4. x \in Int /\ y \in Int /\ (h < g => x < y) /\ (g < h => y < x)
  BY <1>2, <1>3, PairOrder
<1>5. h = g => (l < k <=> x < y) /\ (l = k <=> x = y)
  <2>1. h * w \in Int
    BY <1>3, SMT
  <2> QED BY <1>2, <1>3, <2>1
<1>6. PICK a, b : a = <<h, l>> /\ b = <<g, k>>
  OBVIOUS
<1>7. a[1] = h /\ a[2] = l /\ b[1] = g /\ b[2] = k
  BY <1>6
<1>8. PICK D : D = {i \in 1..2 : a[i] # b[i]}
  OBVIOUS
<1>9. order = IF D = {} THEN 0
              ELSE a[CHOOSE i \in D : \A j \in D : i <= j] - b[CHOOSE i \in D : \A j \in D : i <= j]
  <2>1. order = gcc_bcmp(a, b, 2)
    BY <1>1, <1>6, Zenon
  <2> QED BY <1>8, <2>1, Zenon DEF gcc_bcmp
<1>10. (1 \in D <=> h # g) /\ (2 \in D <=> l # k) /\ \A i \in D : i = 1 \/ i = 2
  BY <1>7, <1>8
<1>11. PICK f : f = CHOOSE i \in D : \A j \in D : i <= j
  OBVIOUS
<1>12. CASE h # g
  <2>1. 1 \in D /\ \A j \in D : 1 <= j
    BY <1>10, <1>12
  <2>2. f \in D /\ \A j \in D : f <= j
    BY <1>11, <2>1, Zenon
  <2>3. f = 1
    BY <1>10, <2>1, <2>2
  <2>4. order = h - g
    BY <1>7, <1>9, <1>11, <2>1, <2>3
  <2> QED BY <1>3, <1>4, <1>12, <2>4
<1>13. CASE h = g /\ l # k
  <2>1. 2 \in D /\ \A j \in D : 2 <= j
    BY <1>10, <1>13
  <2>2. f \in D
    BY <1>11, <2>1, Zenon
  <2>3. f = 2
    BY <1>10, <1>13, <2>2
  <2>4. order = l - k
    BY <1>7, <1>9, <1>11, <2>1, <2>3
  <2> QED BY <1>3, <1>5, <1>13, <2>4
<1>14. CASE h = g /\ l = k
  <2>1. D = {}
    BY <1>10, <1>14
  <2>2. order = 0
    BY <1>9, <2>1, Zenon
  <2> QED BY <1>2, <1>4, <1>14, <2>2
<1> QED BY <1>12, <1>13, <1>14

(* libgcc2.c, __lshrdi3, __ashldi3, __ashrdi3, __ffsdi2, __cmpdi2,         *)
(* __ucmpdi2 and __gcc_bcmp: for words of every size, shifts multiply and  *)
(* divide by powers of two, across the words and with the sign, and what   *)
(* looks at one word after the other finds the lowest 1 and the order.     *)
THEOREM ShiftsAreExact == EveryPair => []ShiftsAndOrder
<1>1. Operands => ShiftsAndOrder
  <2> SUFFICES ASSUME Operands PROVE ShiftsAndOrder
    OBVIOUS
  <2>1. PICK x, y : x = u /\ y = v
    OBVIOUS
  <2>2. x \in DWord /\ y \in DWord
    BY <2>1 DEF Operands
  <2>3. y \in 0..(2 * SI_TYPE_SIZE - 1) =>
          /\ lshrdi3(x, y) = x \div TwoTo[y]
          /\ ashldi3(x, y) = (x * TwoTo[y]) % (W * W)
          /\ ashrdi3(x, y) = (Signed(x) \div TwoTo[y]) % (W * W)
    BY <2>2, ShiftedRight, ShiftedLeft, ShiftedArithmetic
  <2>4. x # 0 => \E odd \in 0..W * W : odd % 2 = 1 /\ x = odd * TwoTo[ffsdi2(x) - 1]
    BY <2>2, LowestOneOfPair
  <2>5. /\ cmpdi2(x, y) - 1
             = (IF Signed(x) < Signed(y) THEN -1 ELSE IF x = y THEN 0 ELSE 1)
        /\ ucmpdi2(x, y) - 1 = (IF x < y THEN -1 ELSE IF x = y THEN 0 ELSE 1)
    BY <2>2, PairsCompared
  <2>6. PICK order : order = gcc_bcmp(<<High(x), Low(x)>>, <<High(y), Low(y)>>, 2)
    OBVIOUS
  <2>7. (order < 0 <=> x < y) /\ (order = 0 <=> x = y)
    BY <2>2, <2>6, BytesCompared
  <2> QED BY <2>1, <2>3, <2>4, <2>5, <2>6, <2>7, Zenon DEF ShiftsAndOrder
<1> QED BY <1>1, OperandsTyped, PTL

(* A quotient of one word. *)
LEMMA WordQuotient ==
  ASSUME NEW h \in Word, NEW l \in Word, NEW d \in Word, h < d,
         NEW n, NEW q, NEW r, n = h * W + l, q = n \div d, r = n % d
  PROVE  n \in Nat /\ n = d * q + r /\ q \in Word /\ r \in 0..(d - 1) /\ d \in Nat \ {0}
<1>1. PICK w : w = W
  OBVIOUS
<1>2. w \in Nat \ {0} /\ h \in 0..(w - 1) /\ l \in 0..(w - 1) /\ d \in 1..(w - 1) /\ h \in 0..(d - 1)
  BY <1>1, WordSize DEF Word
<1>3. n \in Nat
  BY <1>1, <1>2, SMT
<1>4. n = d * q + r /\ q \in Nat /\ r \in 0..(d - 1)
  <2>1. n \in Nat /\ d \in Nat \ {0} /\ q = n \div d /\ r = n % d
    BY <1>2, <1>3
  <2> QED BY ONLY <2>1, SMT
<1>5. q < w
  <2>1. SUFFICES ASSUME q >= w PROVE FALSE
    BY <1>2, <1>4
  <2>2. d * (q - w) >= 0 /\ d * (q - w) = d * q - d * w
    <3>1. q \in Nat /\ w \in Nat /\ d \in Nat /\ q >= w
      BY <1>2, <1>4, <2>1
    <3> QED BY ONLY <3>1, SMT
  <2>3. (d - 1 - h) * w >= 0 /\ (d - 1 - h) * w = d * w - w - h * w
    BY <1>2, SMT
  <2>4. d * q \in Int /\ d * w \in Int /\ h * w \in Int
    BY <1>2, <1>4, SMT
  <2> QED BY <1>1, <1>2, <1>4, <2>2, <2>3, <2>4
<1> QED BY <1>1, <1>2, <1>3, <1>4, <1>5 DEF Word

(* The signed division divides numbers that are not negative. *)
LEMMA SignedDivision ==
  ASSUME NEW h \in Word, NEW l \in Word, NEW d \in Word, h < d, d < W \div 2
  PROVE  sdiv_qrnnd(h, l, d) = [q |-> (h * W + l) \div d, r |-> (h * W + l) % d]
<1>1. PICK n, q, r : n = h * W + l /\ q = n \div d /\ r = n % d
  OBVIOUS
<1>2. n \in Nat /\ n = d * q + r /\ q \in Word /\ r \in 0..(d - 1) /\ d \in Nat \ {0}
  BY <1>1, WordQuotient
<1>3. h < W \div 2 /\ W \in Nat \ {0}
  <2>1. PICK half : half = W \div 2
    OBVIOUS
  <2>2. half \in Nat /\ W \in Nat
    BY <2>1, SignedWords
  <2>3. h \in Nat /\ d < half /\ d \in Nat
    BY <1>2, <2>1, <2>2 DEF Word
  <2>4. h < half
    BY <2>2, <2>3
  <2> QED BY <2>1, <2>4, WordSize
<1>4. Pair(h, l) = n /\ Signed(n) = n
  <2>1. Pair(h, l) = n
    BY <1>1 DEF Pair
  <2>2. High(n) = h
    <3>1. h \in Int /\ l \in 0..(W - 1) /\ n \in Int
      BY <1>2, <1>3 DEF Word
    <3>2. n \div W = h
      BY <1>1, <1>3, <3>1, Divided
    <3> QED BY <3>2 DEF High
  <2>3. ~(h >= W \div 2)
    <3>1. PICK half : half = W \div 2
      OBVIOUS
    <3>2. half \in Int /\ h \in Int /\ h < half
      BY <1>3, <3>1, SignedWords DEF Word
    <3> QED BY <3>1, <3>2
  <2> QED BY <2>1, <2>2, <2>3 DEF Signed
<1>5. SignedWord(d) = d
  BY SignedWords
<1>6. Magn(n) = n /\ Magn(d) = d /\ ~(n < 0) /\ ~(d < 0)
  BY <1>2 DEF Magn
<1>7. q % W = q /\ r % W = r
  <2>1. q \in Int /\ q >= 0 /\ q < W /\ r \in Int /\ r >= 0 /\ r < W
    BY <1>2, <1>3 DEF Word
  <2> QED BY <2>1, Wrapped
<1>8. sdiv_qrnnd(h, l, d) = [q |-> q % W, r |-> r % W]
  <2>1. sdiv_qrnnd(h, l, d) =
          [q |-> (IF (n < 0) # (d < 0) THEN -(n \div d) ELSE n \div d) % W,
           r |-> (IF n < 0 THEN -(n % d) ELSE n % d) % W]
    BY <1>4, <1>5, <1>6, Zenon DEF sdiv_qrnnd
  <2>2. (n < 0) = FALSE /\ (d < 0) = FALSE
    BY <1>6
  <2> QED BY <1>1, <2>1, <2>2
<1> QED BY <1>1, <1>7, <1>8

(* A division by the even number 2 * b below d or at d becomes one by d. *)
LEMMA DividedByOdd ==
  ASSUME NEW d \in Word, W <= 2 * d, NEW b, b = d \div 2, NEW q \in Word,
         NEW r \in 0..(2 * b - 1), NEW n \in Nat, n = b * (2 * q) + r
  PROVE  OddDivisor(q, r, d) = [q |-> n \div d, r |-> n % d]
<1>1. PICK w : w = W
  OBVIOUS
<1>2. w \in Nat /\ w >= 4 /\ d \in 2..(w - 1) /\ w <= 2 * d /\ q \in 0..(w - 1)
      /\ b \in Nat /\ d \in Nat \ {0} /\ r \in Nat
  BY <1>1, WordSize DEF Word
<1>3. ASSUME NEW p \in Nat, NEW s \in 0..(d - 1), n = p * d + s
      PROVE  [q |-> p, r |-> s] = [q |-> n \div d, r |-> n % d]
  <2>1. d \in Nat \ {0} /\ p \in Int /\ n \in Int
    BY <1>2
  <2>2. n \div d = p /\ n % d = s
    BY <1>3, <2>1, Divided
  <2> QED BY <2>2
<1>4. b * (2 * q) = (2 * b) * q
  BY <1>2, SMT
<1>5. CASE d % 2 = 0
  <2>1. d = 2 * b
    BY <1>2, <1>5
  <2>2. (2 * b) * q = q * (2 * b)
    BY <1>2, SMT
  <2>3. n = q * d + r /\ r \in 0..(d - 1) /\ q \in Nat
    BY <1>2, <1>4, <2>1, <2>2
  <2> QED BY <1>3, <1>5, <2>3 DEF OddDivisor
<1>6. CASE d % 2 # 0
  <2>1. d = 2 * b + 1
    BY <1>2, <1>6
  <2>2. q * d \in Int /\ n = q * d + (r - q)
    <3>1. (2 * b + 1) * q = (2 * b) * q + q /\ (2 * b) * q \in Int
      BY <1>2, SMT
    <3>2. d * q = q * d
      BY <1>2, SMT
    <3> QED BY <1>2, <1>4, <2>1, <3>1, <3>2
  <2>3. CASE r >= q
    <3>1. r - q \in 0..(d - 1) /\ q \in Nat
      BY <1>2, <2>1, <2>3
    <3>2. OddDivisor(q, r, d) = [q |-> q, r |-> r - q]
      BY <1>6, <2>3 DEF OddDivisor
    <3> QED BY <1>3, <2>2, <3>1, <3>2
  <2>4. CASE ~(r >= q) /\ q - r <= d
    <3>1. PICK p, s : p = q - 1 /\ s = r - q + d
      OBVIOUS
    <3>2. p \in Nat /\ s \in 0..(d - 1) /\ p < w
      BY <1>2, <2>1, <2>4, <3>1
    <3>3. n = p * d + s
      <4>1. (q - 1) * d = q * d - d
        BY <1>2, SMT
      <4> QED BY <1>2, <2>2, <3>1, <4>1
    <3>4. p % W = p /\ s % W = s
      <4>1. p \in Int /\ p >= 0 /\ p < W /\ s \in Int /\ s >= 0 /\ s < W
        BY <1>1, <1>2, <3>2
      <4> QED BY <4>1, Wrapped
    <3>5. OddDivisor(q, r, d) = [q |-> p % W, r |-> s % W]
      BY <1>6, <2>4, <3>1, Zenon DEF OddDivisor
    <3> QED BY <1>3, <3>2, <3>3, <3>4, <3>5
  <2>5. CASE ~(r >= q) /\ ~(q - r <= d)
    <3>1. PICK p, s : p = q - 2 /\ s = r - q + 2 * d
      OBVIOUS
    <3>2. p \in Nat /\ s \in 0..(d - 1) /\ p < w
      BY <1>2, <2>1, <2>5, <3>1
    <3>3. n = p * d + s
      <4>1. (q - 2) * d = q * d - 2 * d
        BY <1>2, SMT
      <4> QED BY <1>2, <2>2, <3>1, <4>1
    <3>4. p % W = p /\ s % W = s
      <4>1. p \in Int /\ p >= 0 /\ p < W /\ s \in Int /\ s >= 0 /\ s < W
        BY <1>1, <1>2, <3>2
      <4> QED BY <4>1, Wrapped
    <3>5. OddDivisor(q, r, d) = [q |-> p % W, r |-> s % W]
      BY <1>6, <2>5, <3>1, Zenon DEF OddDivisor
    <3> QED BY <1>3, <3>2, <3>3, <3>4, <3>5
  <2> QED BY <1>2, <2>3, <2>4, <2>5
<1> QED BY <1>5, <1>6

(* __udiv_w_sdiv by a divisor that is not negative as a signed number: if  *)
(* the quotient is too large for a signed word, half of the words times    *)
(* the divisor is subtracted from the dividend first.                      *)
LEMMA BySmallDivisor ==
  ASSUME NEW h \in Word, NEW l \in Word, NEW d \in Word, h < d, d < W \div 2
  PROVE  udiv_w_sdiv(h, l, d) = [q |-> (h * W + l) \div d, r |-> (h * W + l) % d]
<1>1. PICK w, top, n : w = W /\ top = W \div 2 /\ n = h * W + l
  OBVIOUS
<1>2. /\ top \in Nat \ {0} /\ w = 2 * top /\ w \in Nat \ {0}
      /\ h \in 0..(w - 1) /\ l \in 0..(w - 1) /\ d \in 1..(top - 1) /\ h \in 0..(d - 1)
  <2>1. top \in Nat \ {0} /\ w = 2 * top /\ w \in Nat \ {0}
    BY <1>1, SignedWords
  <2> QED BY <1>1, <2>1 DEF Word
<1>3. PICK bit : bit = l \div top
  OBVIOUS
<1>4. PICK rest : rest = l % top
  OBVIOUS
<1>5. l = top * bit + rest /\ bit \in {0, 1} /\ rest \in 0..(top - 1)
  <2>1. l \in Nat /\ top \in Nat \ {0}
    BY <1>2
  <2>2. l = top * bit + rest /\ bit \in Nat /\ rest \in 0..(top - 1)
    BY ONLY <1>3, <1>4, <2>1, SMT
  <2>3. bit < 2
    <3>1. SUFFICES ASSUME bit >= 2 PROVE FALSE
      BY <2>2
    <3>2. top * (bit - 2) >= 0 /\ top * (bit - 2) = top * bit - 2 * top
      BY <1>2, <2>2, <3>1, SMT
    <3>3. top * bit \in Int
      BY <1>2, <2>2, SMT
    <3> QED BY <1>2, <2>2, <3>2, <3>3
  <2> QED BY <2>2, <2>3
<1>6. PICK t, s : t = (d - h - bit) % w /\ s = sub_ddmmss(h, l, d \div 2, (d * top) % W)
  OBVIOUS
<1>7. udiv_w_sdiv(h, l, d) =
        IF h < t THEN sdiv_qrnnd(h, l, d)
        ELSE [q |-> (sdiv_qrnnd(s.h, s.l, d).q + top) % W, r |-> sdiv_qrnnd(s.h, s.l, d).r]
  BY <1>1, <1>3, <1>6, Zenon DEF udiv_w_sdiv
<1>8. CASE h < t
  BY <1>7, <1>8, SignedDivision
<1>9. CASE ~(h < t)
  <2>1. 2 * h + bit >= d
    <3>1. d - h - bit \in 0..(w - 1)
      BY <1>2, <1>5
    <3>2. PICK z : z = d - h - bit
      OBVIOUS
    <3>3. z \in Int /\ z >= 0 /\ z < W
      BY <1>1, <1>2, <3>1, <3>2
    <3>4. z % W = z
      BY <3>3, Wrapped
    <3>5. t = z
      BY <1>1, <1>6, <3>2, <3>4, Zenon
    <3> QED BY <1>2, <1>5, <1>9, <3>2, <3>5
  <2>2. PICK e, f, g : e = d \div 2 /\ f = (d * top) % W /\ g = d * top
    OBVIOUS
  <2>3. e \in Word /\ f \in Word /\ e * w + f = g /\ g \in Nat
    <3>1. top \in Nat \ {0} /\ 2 \in Nat \ {0} /\ top * 2 = W
      BY <1>1, <1>2
    <3>2. d * top = (d \div 2) * W + ((d * top) % W) /\ (d * top) % W \in 0..(W - top)
      BY <3>1, WordShifted
    <3>3. e \in Word
      BY <1>1, <1>2, <2>2 DEF Word
    <3>4. f \in Word
      <4>1. f \in 0..(w - top)
        BY <1>1, <2>2, <3>2, Zenon
      <4>2. f \in 0..(w - 1)
        BY <1>2, <4>1
      <4> QED BY <1>1, <4>2 DEF Word
    <3>5. g \in Nat
      BY <1>2, <2>2, SMT
    <3> QED BY <1>1, <2>2, <3>2, <3>3, <3>4, <3>5
  <2>4. PICK m : m = n - g
    OBVIOUS
  <2>5. m \in Nat /\ m < g /\ n \in Nat
    <3>1. n = (2 * h + bit) * top + rest
      BY <1>1, <1>2, <1>5, SMT
    <3>2. (2 * h + bit) * top >= d * top
      <4>1. PICK z : z = 2 * h + bit
        OBVIOUS
      <4>2. z \in Nat /\ z >= d
        BY <1>2, <1>5, <2>1, <4>1
      <4>3. (z - d) * top >= 0 /\ (z - d) * top = z * top - d * top
        BY <1>2, <4>2, SMT
      <4>4. z * top \in Int /\ d * top \in Int
        BY <1>2, <4>2, SMT
      <4> QED BY <4>1, <4>3, <4>4
    <3>3. (2 * h + bit) * top \in Int
      BY <1>2, <1>5, SMT
    <3>4. n >= g
      BY <1>5, <2>2, <2>3, <3>1, <3>2, <3>3
    <3>5. n < 2 * g
      <4>1. (d - 1 - h) * w >= 0 /\ (d - 1 - h) * w = d * w - w - h * w
        BY <1>2, SMT
      <4>2. d * (2 * top) = 2 * (d * top)
        BY <1>2, SMT
      <4>3. h * w \in Int
        BY <1>2, SMT
      <4> QED BY <1>1, <1>2, <2>2, <2>3, <4>1, <4>2, <4>3
    <3>6. n \in Int
      BY <1>2, <3>1, <3>3, <1>5
    <3> QED BY <2>3, <2>4, <3>4, <3>5, <3>6
  <2>6. s.h \in Word /\ s.l \in Word /\ s.h * w + s.l = m
    <3>1. /\ s.h \in Word /\ s.l \in Word
          /\ s.h * W + s.l = ((h * W + l) - (e * W + f)) % (W * W)
      <4>1. s = sub_ddmmss(h, l, e, f) /\ e \in Word /\ f \in Word
        BY <1>6, <2>2, <2>3, Zenon
      <4>2. h \in Word /\ l \in Word /\ e \in Word /\ f \in Word
        BY <4>1
      <4>3. LET r == sub_ddmmss(h, l, e, f)
            IN  /\ r.h \in Word /\ r.l \in Word
                /\ r.h * W + r.l = ((h * W + l) - (e * W + f)) % (W * W)
        BY ONLY <4>2, SubtractPair
      <4> QED BY <4>1, <4>3, Zenon
    <3>2. m % (W * W) = m
      <4>1. n \in DWord
        BY <1>1, PairOf DEF Pair
      <4>2. m \in DWord
        <5>1. W * W \in Int
          BY WordSize, SMT
        <5> QED BY <2>3, <2>4, <2>5, <4>1, <5>1 DEF DWord
      <4> QED BY <2>5, <4>2, WrappedPair
    <3> QED BY <1>1, <2>3, <2>4, <3>1, <3>2
  <2>7. PICK sh, sl : sh = s.h /\ sl = s.l
    OBVIOUS
  <2>8. sh \in Word /\ sl \in Word /\ sh * w + sl = m
    BY <2>6, <2>7
  <2>9. sh < d
    <3>1. sh \in Nat /\ sl \in Nat
      BY <1>2, <2>8, WordSize DEF Word
    <3>2. SUFFICES ASSUME sh >= d PROVE FALSE
      BY <1>2, <3>1
    <3>3. (sh - d) * w >= 0 /\ (sh - d) * w = sh * w - d * w
      <4>1. sh \in Nat /\ w \in Nat /\ d \in Nat /\ sh >= d
        BY <1>2, <3>1, <3>2
      <4> QED BY ONLY <4>1, SMT
    <3>4. d * (2 * top) = 2 * (d * top) /\ sh * w \in Int
      BY <1>2, <3>1, SMT
    <3> QED BY <1>2, <2>2, <2>3, <2>5, <2>8, <3>1, <3>3, <3>4
  <2>10. PICK p, r : p = m \div d /\ r = m % d
    OBVIOUS
  <2>11. m = d * p + r /\ p \in Word /\ r \in 0..(d - 1)
    BY <1>1, <2>8, <2>9, <2>10, WordQuotient
  <2>12. sdiv_qrnnd(s.h, s.l, d) = [q |-> p, r |-> r]
    <3>1. sdiv_qrnnd(sh, sl, d) = [q |-> (sh * W + sl) \div d, r |-> (sh * W + sl) % d]
      BY <2>8, <2>9, SignedDivision
    <3> QED BY <1>1, <2>7, <2>8, <2>10, <3>1
  <2>13. p < top
    <3>1. p \in Nat
      BY <1>2, <2>11, WordSize DEF Word
    <3>2. SUFFICES ASSUME p >= top PROVE FALSE
      BY <1>2, <3>1
    <3>3. d * (p - top) >= 0 /\ d * (p - top) = d * p - d * top
      <4>1. p \in Nat /\ top \in Nat /\ d \in Nat /\ p >= top
        BY <1>2, <3>1, <3>2
      <4> QED BY ONLY <4>1, SMT
    <3>4. d * p \in Int
      BY <1>2, <3>1, SMT
    <3> QED BY <1>2, <2>2, <2>3, <2>5, <2>11, <3>3, <3>4
  <2>14. PICK k : k = p + top
    OBVIOUS
  <2>15. k \in Nat /\ k < w
    BY <1>2, <2>11, <2>13, <2>14, WordSize DEF Word
  <2>16. k % W = k
    BY <1>1, <2>15, Wrapped
  <2>17. n \div d = k /\ n % d = r
    <3>1. n = k * d + r
      <4>1. (p + top) * d = d * p + d * top
        <5>1. p \in Nat /\ top \in Nat /\ d \in Nat
          BY <1>2, <2>11, WordSize DEF Word
        <5> QED BY ONLY <5>1, SMT
      <4> QED BY <2>2, <2>3, <2>4, <2>5, <2>11, <2>14, <4>1
    <3>2. d \in Nat \ {0} /\ k \in Int /\ n \in Int
      BY <1>2, <2>5, <2>15
    <3> QED BY <2>11, <3>1, <3>2, Divided
  <2>18. udiv_w_sdiv(h, l, d) = [q |-> k % W, r |-> r]
    <3>1. udiv_w_sdiv(h, l, d) =
            [q |-> (sdiv_qrnnd(s.h, s.l, d).q + top) % W, r |-> sdiv_qrnnd(s.h, s.l, d).r]
      BY <1>7, <1>9, Zenon
    <3> QED BY <2>12, <2>14, <3>1
  <2> QED BY <1>1, <2>16, <2>17, <2>18
<1> QED BY <1>8, <1>9

(* __udiv_w_sdiv by a divisor whose highest bit is 1: half of the dividend *)
(* is divided by half of the divisor, or the complement of that half is,   *)
(* and only a high word next to the divisor is left.                       *)
LEMMA ByLargeDivisor ==
  ASSUME NEW h \in Word, NEW l \in Word, NEW d \in Word, h < d, ~(d < W \div 2)
  PROVE  udiv_w_sdiv(h, l, d) = [q |-> (h * W + l) \div d, r |-> (h * W + l) % d]
<1>1. PICK w, top, n : w = W /\ top = W \div 2 /\ n = h * W + l
  OBVIOUS
<1>2. /\ top \in Nat /\ top >= 2 /\ w = 2 * top /\ w \in Nat \ {0}
      /\ h \in 0..(w - 1) /\ l \in 0..(w - 1) /\ d \in top..(w - 1) /\ h \in 0..(d - 1)
  <2>1. top \in Nat \ {0} /\ w = 2 * top /\ w \in Nat \ {0} /\ w >= 4
    BY <1>1, SignedWords, WordSize
  <2> QED BY <1>1, <2>1 DEF Word
<1>14. PICK g : g = (h * top) % W
  OBVIOUS
<1>3. PICK b1, c1, c0, bit, m :
        /\ b1 = d \div 2 /\ c1 = h \div 2 /\ c0 = g + (l \div 2)
        /\ bit = l % 2 /\ m = c1 * w + c0
  OBVIOUS
<1>4. b1 \in 1..(top - 1) /\ (d = 2 * b1 \/ d = 2 * b1 + 1) /\ bit \in {0, 1}
      /\ c1 \in Nat /\ 2 * c1 <= h /\ h <= 2 * c1 + 1 /\ l \div 2 \in 0..(top - 1)
  BY <1>2, <1>3
<1>5. c0 \in 0..(w - 1)
  <2>1. top \in Nat \ {0} /\ 2 \in Nat \ {0} /\ top * 2 = W
    BY <1>1, <1>2
  <2>2. (h * top) % W \in 0..(W - top)
    BY <2>1, WordShifted
  <2>3. g \in 0..(w - top)
    BY <1>1, <1>14, <2>2, Zenon
  <2>4. c0 = g + (l \div 2)
    BY <1>3
  <2> QED BY <1>2, <1>4, <2>3, <2>4
<1>6. n = 2 * m + bit /\ m \in Nat
  <2>1. 2 \in Nat \ {0} /\ top \in Nat \ {0} /\ 2 * top = W
    BY <1>1, <1>2
  <2>2. Pair(h \div 2, ((h * top) % W) + (l \div 2)) = (h * W + l) \div 2
    BY <2>1, PairShiftedBack
  <2>3. m = n \div 2
    BY <1>1, <1>3, <1>14, <2>2, Zenon DEF Pair
  <2>4. PICK k : k = h * top
    OBVIOUS
  <2>5. k \in Nat /\ n = 2 * k + l
    <3>1. h * (2 * top) = 2 * (h * top) /\ h * top \in Nat
      BY <1>2, SMT
    <3> QED BY <1>1, <1>2, <2>4, <3>1
  <2>6. bit = l % 2
    BY <1>3
  <2> QED BY <1>2, <2>3, <2>5, <2>6
<1>7. PICK low, not :
        low = sdiv_qrnnd(c1, c0, b1) /\ not = sdiv_qrnnd(b1 - 1 - c1, w - 1 - c0, b1)
  OBVIOUS
<1>8. udiv_w_sdiv(h, l, d) =
        IF h < b1 THEN OddDivisor(low.q, (2 * low.r + bit) % w, d)
        ELSE IF c1 < b1 THEN OddDivisor(w - 1 - not.q, (2 * (b1 - 1 - not.r) + bit) % w, d)
        ELSE IF l >= (-d) % w THEN [q |-> w - 1, r |-> (l + d) % w]
        ELSE [q |-> w - 2, r |-> (l + 2 * d) % w]
  <2>1. c0 % W = c0
    <3>1. c0 \in Int /\ c0 >= 0 /\ c0 < W
      BY <1>1, <1>2, <1>5
    <3> QED BY <3>1, Wrapped
  <2> QED BY <1>1, <1>3, <1>7, <1>14, <2>1, Zenon DEF udiv_w_sdiv
<1>9. /\ b1 \in Word /\ b1 < W \div 2 /\ c0 \in Word /\ w - 1 - c0 \in Word /\ W <= 2 * d
      /\ b1 = d \div 2
  BY <1>1, <1>2, <1>3, <1>4, <1>5 DEF Word
<1>10. ASSUME NEW q \in Word, NEW s \in 0..(b1 - 1), m = b1 * q + s
       PROVE  OddDivisor(q, (2 * s + bit) % w, d) = [q |-> n \div d, r |-> n % d]
  <2>1. PICK r : r = 2 * s + bit
    OBVIOUS
  <2>2. r \in 0..(2 * b1 - 1) /\ r < w
    BY <1>2, <1>4, <2>1
  <2>3. r % W = r
    BY <1>1, <2>2, Wrapped
  <2>4. n = b1 * (2 * q) + r
    <3>1. 2 * (b1 * q) = b1 * (2 * q) /\ b1 * q \in Int
      BY <1>1, <1>2, <1>4, SMT DEF Word
    <3> QED BY <1>6, <1>10, <2>1, <3>1, <1>4
  <2>5. n \in Nat
    BY <1>4, <1>6
  <2>6. OddDivisor(q, r, d) = [q |-> n \div d, r |-> n % d]
    <3>1. r \in 0..(2 * b1 - 1)
      BY <2>2
    <3>2. /\ d \in Word /\ W <= 2 * d /\ b1 = d \div 2 /\ q \in Word
          /\ r \in 0..(2 * b1 - 1) /\ n \in Nat /\ n = b1 * (2 * q) + r
      BY <1>9, <2>4, <2>5, <3>1
    <3> QED BY ONLY <3>2, DividedByOdd
  <2> QED BY <1>1, <2>1, <2>3, <2>6, Zenon
<1>11. CASE h < b1
  <2>1. c1 \in Word /\ c1 < b1
    BY <1>1, <1>2, <1>4, <1>11 DEF Word
  <2>2. PICK q, s : q = m \div b1 /\ s = m % b1
    OBVIOUS
  <2>3. m = b1 * q + s /\ q \in Word /\ s \in 0..(b1 - 1)
    BY <1>1, <1>3, <1>9, <2>1, <2>2, WordQuotient
  <2>4. low = [q |-> q, r |-> s]
    <3>1. sdiv_qrnnd(c1, c0, b1) = [q |-> (c1 * W + c0) \div b1, r |-> (c1 * W + c0) % b1]
      BY <1>9, <2>1, SignedDivision
    <3> QED BY <1>1, <1>3, <1>7, <2>2, <3>1, Zenon
  <2>5. low.q = q /\ low.r = s
    BY <2>4
  <2>6. udiv_w_sdiv(h, l, d) = OddDivisor(q, (2 * s + bit) % w, d)
    BY <1>8, <1>11, <2>5, Zenon
  <2> QED BY <1>1, <1>10, <2>3, <2>6, Zenon
<1>12. CASE ~(h < b1) /\ c1 < b1
  <2>1. PICK e1, e0, y : e1 = b1 - 1 - c1 /\ e0 = w - 1 - c0 /\ y = e1 * W + e0
    OBVIOUS
  <2>2. e1 \in Word /\ e1 < b1 /\ e0 \in Word
    BY <1>1, <1>2, <1>4, <1>9, <1>12, <2>1 DEF Word
  <2>3. PICK p, t : p = y \div b1 /\ t = y % b1
    OBVIOUS
  <2>4. y = b1 * p + t /\ p \in Word /\ t \in 0..(b1 - 1)
    BY <1>9, <2>1, <2>2, <2>3, WordQuotient
  <2>5. not.q = p /\ not.r = t
    <3>1. sdiv_qrnnd(e1, e0, b1) = [q |-> (e1 * W + e0) \div b1, r |-> (e1 * W + e0) % b1]
      BY <1>9, <2>2, SignedDivision
    <3>2. not = [q |-> p, r |-> t]
      BY <1>7, <2>1, <2>3, <3>1, Zenon
    <3> QED BY <3>2
  <2>6. PICK q, s : q = w - 1 - p /\ s = b1 - 1 - t
    OBVIOUS
  <2>7. q \in Word /\ s \in 0..(b1 - 1)
    BY <1>1, <1>2, <1>4, <2>4, <2>6 DEF Word
  <2>8. m = b1 * q + s
    <3>1. y = b1 * w - 1 - m
      <4>1. (b1 - 1 - c1) * w = b1 * w - w - c1 * w
        BY <1>2, <1>4, SMT
      <4>2. b1 * w \in Int /\ c1 * w \in Int
        BY <1>2, <1>4, SMT
      <4>3. m = c1 * w + c0 /\ y = (b1 - 1 - c1) * w + (w - 1 - c0)
        BY <1>1, <1>3, <2>1, Zenon
      <4> QED BY <1>2, <1>4, <1>5, <4>1, <4>2, <4>3
    <3>2. p \in Int
      BY <1>1, <1>2, <2>4 DEF Word
    <3>3. b1 * (w - 1 - p) = b1 * w - b1 - b1 * p
      BY <1>2, <1>4, <3>2, SMT
    <3>4. b1 * w \in Int /\ b1 * p \in Int
      BY <1>2, <1>4, <3>2, SMT
    <3>5. y = b1 * p + t /\ t \in Int /\ m \in Int /\ b1 \in Int /\ s = b1 - 1 - t
      BY <1>4, <1>6, <2>4, <2>6
    <3>6. b1 * q = b1 * w - b1 - b1 * p
      BY <2>6, <3>3
    <3> QED BY <3>1, <3>4, <3>5, <3>6
  <2>9. udiv_w_sdiv(h, l, d) = OddDivisor(q, (2 * s + bit) % w, d)
    BY <1>8, <1>12, <2>5, <2>6, Zenon
  <2> QED BY <1>1, <1>10, <2>7, <2>8, <2>9, Zenon
<1>13. CASE ~(h < b1) /\ ~(c1 < b1)
  <2>1. h = d - 1
    BY <1>2, <1>4, <1>13
  <2>2. n = (d - 1) * w + l /\ (d - 1) * w = d * w - w /\ d * w \in Int
    BY <1>1, <1>2, <2>1, SMT
  <2>3. d \in Nat \ {0} /\ n \in Int /\ d * w = w * d
    <3>1. d * w = w * d
      BY <1>2, SMT
    <3> QED BY <1>2, <2>2, <3>1
  <2>4. (-d) % w = w - d
    <3>1. PICK z, k, y : z = -d /\ k = -1 /\ y = w - d
      OBVIOUS
    <3>2. z = k * w + y /\ y \in 0..(w - 1) /\ z \in Int /\ k \in Int
      BY <1>2, <3>1
    <3>3. z % w = y
      BY <1>2, <3>2, Divided
    <3> QED BY <3>1, <3>3
  <2>5. CASE l >= w - d
    <3>1. PICK y, k, r : y = l + d /\ k = w - 1 /\ r = l + d - w
      OBVIOUS
    <3>2. r \in 0..(d - 1) /\ k \in Int /\ n = k * d + r
      <4>1. (w - 1) * d = w * d - d
        BY <1>2, SMT
      <4> QED BY <1>2, <2>2, <2>3, <2>5, <3>1, <4>1
    <3>3. n \div d = k /\ n % d = r
      BY <2>3, <3>2, Divided
    <3>4. y % W = r
      <4>1. y \in Int /\ y >= 0 /\ W <= y /\ y < 2 * W /\ r = y - W
        BY <1>1, <1>2, <2>5, <3>1
      <4> QED BY <4>1, Wrapped
    <3>5. udiv_w_sdiv(h, l, d) = [q |-> k, r |-> y % W]
      BY <1>1, <1>8, <1>13, <2>4, <2>5, <3>1, Zenon
    <3> QED BY <1>1, <3>3, <3>4, <3>5, Zenon
  <2>6. CASE ~(l >= w - d)
    <3>1. PICK y, k, r : y = l + 2 * d /\ k = w - 2 /\ r = l + 2 * d - w
      OBVIOUS
    <3>2. r \in 0..(d - 1) /\ k \in Int /\ n = k * d + r
      <4>1. (w - 2) * d = w * d - 2 * d
        BY <1>2, SMT
      <4> QED BY <1>2, <2>2, <2>3, <2>6, <3>1, <4>1
    <3>3. n \div d = k /\ n % d = r
      BY <2>3, <3>2, Divided
    <3>4. y % W = r
      <4>1. y \in Int /\ y >= 0 /\ W <= y /\ y < 2 * W /\ r = y - W
        BY <1>1, <1>2, <2>6, <3>1
      <4> QED BY <4>1, Wrapped
    <3>5. udiv_w_sdiv(h, l, d) = [q |-> k, r |-> y % W]
      BY <1>1, <1>8, <1>13, <2>4, <2>6, <3>1, Zenon
    <3> QED BY <1>1, <3>3, <3>4, <3>5, Zenon
  <2> QED BY <2>5, <2>6
<1> QED BY <1>11, <1>12, <1>13

(* longlong.h, udiv_qrnnd, and libgcc2.c, __udiv_w_sdiv: for words of      *)
(* every size, a word of a quotient is exact, from half words as well as   *)
(* from signed divisions; the second for every divisor above the high      *)
(* word, its own assumption, and the first for the normalised ones.        *)
THEOREM WordsOfQuotients == EveryPair => []WordDivision
<1>1. Operands => WordDivision
  <2> SUFFICES ASSUME Operands, Low(v) = 0, High(u) < High(v)
               PROVE  LET d == High(v)
                          exact == [q |-> u \div d, r |-> u % d]
                      IN  /\ d >= W \div 2 => udiv_qrnnd(High(u), Low(u), d) = exact
                          /\ udiv_w_sdiv(High(u), Low(u), d) = exact
    BY Zenon DEF WordDivision
  <2>1. PICK n, h, l, d : n = u /\ h = High(u) /\ l = Low(u) /\ d = High(v)
    OBVIOUS
  <2>2. n = h * W + l /\ h \in Word /\ l \in Word /\ d \in Word /\ h < d
    BY <2>1, WordsOf DEF Operands
  <2>3. udiv_w_sdiv(h, l, d) = [q |-> n \div d, r |-> n % d]
    BY <2>2, BySmallDivisor, ByLargeDivisor
  <2>4. d >= W \div 2 => udiv_qrnnd(h, l, d) = [q |-> n \div d, r |-> n % d]
    <3>1. SUFFICES ASSUME d >= W \div 2
                   PROVE  udiv_qrnnd(h, l, d) = [q |-> n \div d, r |-> n % d]
      OBVIOUS
    <3>2. d \in Nat /\ d < W /\ W <= 2 * d /\ h \in 0..(d - 1)
      <4>1. PICK half : half = W \div 2
        OBVIOUS
      <4>2. half \in Nat /\ W = 2 * half
        BY <4>1, SignedWords
      <4> QED BY <2>2, <3>1, <4>1, <4>2 DEF Word
    <3>3. TopBitSet(d)
      BY <3>2, TopBit
    <3>4. udiv_qrnnd(h, l, d) = [q |-> (h * W + l) \div d, r |-> (h * W + l) % d]
      BY <2>2, <3>2, <3>3, DivisionExact
    <3> QED BY <2>2, <3>4, Zenon
  <2> QED BY <2>1, <2>3, <2>4, Zenon
<1> QED BY <1>1, OperandsTyped, PTL

-----------------------------------------------------------------------------

(* Exp2 is what its name says. *)
LEMMA Exp2Powers == MAX_BITS \in Nat /\ PowersOfTwo(Exp2, MAX_BITS)
<1>1. PICK N : N = MAX_BITS
  OBVIOUS
<1>2. N \in Nat
  BY <1>1, FloatAssumption
<1>3. PowersOfTwo(CHOOSE f : f = [n \in 0..N |-> IF n = 0 THEN 1 ELSE 2 * f[n - 1]], N)
  BY <1>2, PowersDefined
<1> QED BY <1>1, <1>2, <1>3 DEF Exp2

(* Powers of two that numbers have are positive. *)
LEMMA Exp2Positive == \A n \in 0..MAX_BITS : Exp2[n] \in Nat /\ Exp2[n] >= 1
<1>1. \A n \in 0..MAX_BITS : Exp2[n] \in Nat \ {0}
  BY Exp2Powers DEF PowersOfTwo
<1> QED BY <1>1

(* A power of two is a multiple of every smaller one. *)
LEMMA Exp2Multiple ==
  ASSUME NEW n \in 0..MAX_BITS, NEW m \in 0..n
  PROVE  /\ n - m \in 0..MAX_BITS /\ Exp2[n] = Exp2[n - m] * Exp2[m]
         /\ Exp2[m] <= Exp2[n]
<1>1. MAX_BITS \in Nat /\ n \in Nat /\ m \in Nat /\ n - m \in Nat /\ n <= MAX_BITS
  BY Exp2Powers
<1>2. PICK p : p = Exp2
  OBVIOUS
<1>3. PICK k \in Nat : k = n - m
  BY <1>1
<1>4. PowersOfTwo(p, MAX_BITS)
  BY <1>2, Exp2Powers
<1>5. k + m = n /\ k + m <= MAX_BITS /\ m \in 0..MAX_BITS /\ m <= n
  BY <1>1, <1>3
<1>6. p[k + m] = p[k] * p[m]
  BY <1>1, <1>4, <1>5, ExponentsAdd
<1>7. p[m] <= p[n]
  BY <1>1, <1>4, <1>5, ExponentOrder
<1> QED BY <1>1, <1>2, <1>3, <1>5, <1>6, <1>7

(* One bit more is twice as much. *)
LEMMA Exp2Next ==
  ASSUME NEW n \in 1..MAX_BITS
  PROVE  n - 1 \in 0..MAX_BITS /\ Exp2[n] = 2 * Exp2[n - 1]
<1>1. MAX_BITS \in Nat
  BY Exp2Powers
<1>2. n - 1 \in 0..(MAX_BITS - 1) /\ (n - 1) + 1 = n
  BY <1>1
<1> QED BY <1>1, <1>2, Exp2Powers DEF PowersOfTwo

-----------------------------------------------------------------------------
(* A number in the range that is considered. *)
Within(x) == x \in Int /\ Magn(x) < Exp2[MAX_BITS]

(* The magnitude of a number. *)
LEMMA MagnitudeOf ==
  ASSUME NEW x \in Int
  PROVE  /\ Magn(x) \in Nat /\ Magn(-x) = Magn(x)
         /\ x >= 0 => Magn(x) = x
         /\ x < 0 => Magn(x) = -x
BY DEF Magn

(* The number of bits of a number. *)
LEMMA BitsOf ==
  ASSUME NEW x, Within(x)
  PROVE  /\ Bits(x) \in 0..MAX_BITS /\ Magn(x) < Exp2[Bits(x)]
         /\ Bits(x) > 0 => Exp2[Bits(x) - 1] <= Magn(x)
<1>1. MAX_BITS \in Nat /\ MAX_BITS \in 0..MAX_BITS
  BY Exp2Powers
<1>2. PICK y \in Nat : y = Magn(x)
  BY MagnitudeOf DEF Within
<1>3. PICK p : p = Exp2
  OBVIOUS
<1>4. PowersOfTwo(p, MAX_BITS) /\ y < p[MAX_BITS]
  BY <1>2, <1>3, Exp2Powers DEF Within
<1>5. \E k \in 0..MAX_BITS : y < p[k] /\ (k > 0 => p[k - 1] <= y)
  BY <1>1, <1>4, NumberOfBits
<1>6. \E n \in 0..MAX_BITS : Magn(x) < Exp2[n] /\ (n > 0 => Exp2[n - 1] <= Magn(x))
  BY <1>2, <1>3, <1>5
<1> QED BY <1>6 DEF Bits

(* A number below a power has at most the bits of its exponent. *)
LEMMA FewerBits ==
  ASSUME NEW x, Within(x), NEW n \in 0..MAX_BITS, Magn(x) < Exp2[n]
  PROVE  Bits(x) <= n
<1>1. PICK b : b = Bits(x)
  OBVIOUS
<1>2. b \in 0..MAX_BITS /\ (b > 0 => Exp2[b - 1] <= Magn(x)) /\ MAX_BITS \in Nat
  BY <1>1, BitsOf, Exp2Powers
<1>3. SUFFICES ASSUME b > n PROVE FALSE
  BY <1>1, <1>2
<1>4. b - 1 \in 0..MAX_BITS /\ n \in 0..(b - 1)
  BY <1>2, <1>3
<1>5. PICK k \in 0..MAX_BITS : k = b - 1
  BY <1>4
<1>6. n \in 0..k
  BY <1>4, <1>5
<1>7. Exp2[n] <= Exp2[k]
  BY <1>6, Exp2Multiple
<1>8. Exp2[n] \in Nat /\ Exp2[k] \in Nat /\ Magn(x) \in Nat
  BY Exp2Positive, MagnitudeOf DEF Within
<1> QED BY <1>2, <1>3, <1>5, <1>7, <1>8

(* The bits of a number grow with its magnitude. *)
LEMMA BitsOrder ==
  ASSUME NEW x, Within(x), NEW y, Within(y), Magn(x) <= Magn(y)
  PROVE  Bits(x) <= Bits(y)
<1>1. PICK n : n = Bits(y)
  OBVIOUS
<1>2. n \in 0..MAX_BITS /\ Magn(y) < Exp2[n]
  BY <1>1, BitsOf
<1>3. Magn(x) \in Nat /\ Magn(y) \in Nat /\ Exp2[n] \in Nat
  BY <1>2, Exp2Positive, MagnitudeOf DEF Within
<1>4. Magn(x) < Exp2[n]
  BY <1>2, <1>3
<1>5. Bits(x) <= n
  BY <1>2, <1>4, FewerBits
<1> QED BY <1>1, <1>5

(* The last bit of a number is worth a power of two. *)
LEMMA UlpOf ==
  ASSUME NEW x, Within(x), NEW size \in Nat
  PROVE  \E e \in 0..MAX_BITS :
           /\ Ulp(x, size) = Exp2[e] /\ e <= Bits(x)
           /\ Bits(x) <= size => e = 0
           /\ Bits(x) > size => e = Bits(x) - size
<1>1. PICK b : b = Bits(x)
  OBVIOUS
<1>2. b \in 0..MAX_BITS /\ MAX_BITS \in Nat /\ Exp2[0] = 1
  BY <1>1, BitsOf, Exp2Powers DEF PowersOfTwo
<1>3. CASE b <= size
  <2>1. Ulp(x, size) = 1
    BY <1>1, <1>2, <1>3 DEF Ulp
  <2> QED BY <1>1, <1>2, <1>3, <2>1
<1>4. CASE b > size
  <2>1. Ulp(x, size) = Exp2[b - size]
    BY <1>1, <1>2, <1>4 DEF Ulp
  <2>2. b - size \in 0..MAX_BITS /\ b - size <= b
    BY <1>2, <1>4
  <2> QED BY <1>1, <1>2, <1>4, <2>1, <2>2
<1> QED BY <1>2, <1>3, <1>4

-----------------------------------------------------------------------------
(* The multiple of p next to y, in numbers of p.                           *)
Steps(y, p) ==
  y \div p + (IF 2 * (y % p) > p \/ (2 * (y % p) = p /\ (y \div p) % 2 = 1) THEN 1 ELSE 0)

(* Round counts steps of an ulp, away from zero. *)
LEMMA RoundSteps ==
  ASSUME NEW x, NEW size
  PROVE  Round(x, size)
           = (IF x < 0 THEN -1 ELSE 1) * Steps(Magn(x), Ulp(x, size)) * Ulp(x, size)
BY Zenon DEF Round, Steps

(* A natural number lies between two multiples of its ulp and is rounded   *)
(* to one of them, and to itself only if it is a multiple.                 *)
LEMMA RoundNatural ==
  ASSUME NEW x \in Nat, Within(x), NEW size \in Nat
  PROVE  \E p, k \in Nat :
           /\ p = Ulp(x, size) /\ p >= 1
           /\ k * p <= x /\ x < k * p + p
           /\ Round(x, size) \in {k * p, k * p + p}
           /\ (x = k * p) <=> (Round(x, size) = x)
<1>1. PICK p : p = Ulp(x, size)
  OBVIOUS
<1>2. p \in Nat \ {0}
  BY <1>1, UlpOf, Exp2Positive
<1>3. Magn(x) = x
  BY MagnitudeOf
<1>4. PICK k, r : k = x \div p /\ r = x % p
  OBVIOUS
<1>5. x = p * k + r /\ r \in 0..(p - 1) /\ k \in Nat
  BY <1>2, <1>4, SMT
<1>6. PICK s : s = Steps(x, p)
  OBVIOUS
<1>7. s \in {k, k + 1} /\ (r = 0 => s = k)
  BY <1>2, <1>4, <1>5, <1>6 DEF Steps
<1>8. Round(x, size) = 1 * s * p
  <2>1. ~(x < 0)
    OBVIOUS
  <2> QED BY <1>1, <1>3, <1>6, <2>1, RoundSteps
<1>9. p * k = k * p /\ (k + 1) * p = k * p + p /\ 1 * s * p = s * p /\ k * p \in Nat
  BY <1>2, <1>5, <1>7, SMT
<1>10. k * p <= x /\ x < k * p + p
  BY <1>2, <1>5, <1>9
<1>11. Round(x, size) \in {k * p, k * p + p}
  BY <1>7, <1>8, <1>9
<1>12. (x = k * p) <=> (Round(x, size) = x)
  <2>1. CASE r = 0
    BY <1>5, <1>7, <1>8, <1>9, <2>1
  <2>2. CASE r # 0
    BY <1>2, <1>5, <1>9, <1>11, <2>2
  <2> QED BY <2>1, <2>2
<1> QED BY <1>1, <1>2, <1>5, <1>10, <1>11, <1>12

(* Rounding knows no sign. *)
LEMMA RoundNegated ==
  ASSUME NEW x, Within(x), NEW size \in Nat
  PROVE  /\ Within(-x) /\ Bits(-x) = Bits(x) /\ Ulp(-x, size) = Ulp(x, size)
         /\ Round(x, size) \in Int /\ Round(-x, size) = -Round(x, size)
<1>1. x \in Int /\ Magn(-x) = Magn(x) /\ Magn(x) \in Nat
  BY MagnitudeOf DEF Within
<1>2. -x \in Int
  BY <1>1
<1>3. Within(-x) /\ Bits(-x) = Bits(x)
  BY <1>1, <1>2 DEF Within, Bits
<1>4. Ulp(-x, size) = Ulp(x, size)
  BY <1>3 DEF Ulp
<1>5. PICK p : p = Ulp(x, size)
  OBVIOUS
<1>6. p \in Nat \ {0}
  BY <1>5, UlpOf, Exp2Positive
<1>7. PICK y \in Nat : y = Magn(x)
  BY <1>1
<1>8. PICK s : s = Steps(y, p)
  OBVIOUS
<1>9. s \in Nat /\ (y = 0 => s = 0)
  BY <1>6, <1>8, SMT DEF Steps
<1>10. Round(x, size) = (IF x < 0 THEN -1 ELSE 1) * s * p
  BY <1>5, <1>7, <1>8, RoundSteps
<1>11. Round(-x, size) = (IF -x < 0 THEN -1 ELSE 1) * s * p
  BY <1>1, <1>4, <1>5, <1>7, <1>8, RoundSteps
<1>12. PICK w : w = s * p
  OBVIOUS
<1>13. w \in Nat /\ 1 * s * p = w /\ (-1) * s * p = -w /\ (s = 0 => w = 0)
  BY <1>6, <1>9, <1>12, SMT
<1>14. ASSUME x < 0 PROVE Round(x, size) \in Int /\ Round(-x, size) = -Round(x, size)
  <2>1. ~(-x < 0)
    BY <1>1, <1>14
  <2>2. Round(x, size) = -w /\ Round(-x, size) = w
    BY <1>10, <1>11, <1>13, <1>14, <2>1, Zenon
  <2>3. -w \in Int /\ w = -(-w)
    BY <1>13
  <2> QED BY <2>2, <2>3, Zenon
<1>15. ASSUME x > 0 PROVE Round(x, size) \in Int /\ Round(-x, size) = -Round(x, size)
  <2>1. ~(x < 0) /\ -x < 0
    BY <1>1, <1>15
  <2>2. Round(x, size) = w /\ Round(-x, size) = -w
    BY <1>10, <1>11, <1>13, <2>1, Zenon
  <2> QED BY <1>13, <2>2
<1>16. ASSUME x = 0 PROVE Round(x, size) \in Int /\ Round(-x, size) = -Round(x, size)
  <2>1. y = 0
    BY <1>7, <1>16, MagnitudeOf
  <2> QED BY <1>9, <1>10, <1>11, <1>13, <1>16, <2>1
<1> QED BY <1>1, <1>3, <1>4, <1>14, <1>15, <1>16

(* A number that a format of `size` bits has. *)
IsFloat(x, size) == Within(x) /\ Round(x, size) = x

(* These are the multiples of their last bit. *)
LEMMA FloatMultiple ==
  ASSUME NEW x, Within(x), NEW size \in Nat
  PROVE  IsFloat(x, size) <=> \E k \in Int : x = k * Ulp(x, size)
<1>1. x \in Int
  BY DEF Within
<1>2. ASSUME NEW y \in Nat, Within(y)
      PROVE  IsFloat(y, size) <=> \E k \in Int : y = k * Ulp(y, size)
  <2>1. PICK p, k \in Nat :
          /\ p = Ulp(y, size) /\ p >= 1
          /\ k * p <= y /\ y < k * p + p
          /\ Round(y, size) \in {k * p, k * p + p}
          /\ (y = k * p) <=> (Round(y, size) = y)
    BY <1>2, RoundNatural
  <2>2. ASSUME NEW j \in Int, y = j * p PROVE y = k * p
    <3>1. PICK a : a = j - k
      OBVIOUS
    <3>2. a \in Int /\ a * p = j * p - k * p /\ j * p \in Int /\ k * p \in Int
      <4>1. (j - k) * p = j * p - k * p /\ j * p \in Int /\ k * p \in Int
        BY <2>1, SMT
      <4> QED BY <3>1, <4>1
    <3>3. a * p \in Int /\ a * p >= 0 /\ a * p < p
      <4>1. PICK b, c \in Int : b = j * p /\ c = k * p
        BY <3>2
      <4>2. a * p = b - c /\ y = b /\ c <= y /\ y < c + p
        BY <2>1, <2>2, <3>2, <4>1
      <4> QED BY <4>2
    <3>4. a = 0
      <4>1. ~(a >= 1)
        <5>1. a >= 1 => a * p >= p
          BY <2>1, <3>2, SMT
        <5> QED BY <2>1, <3>2, <3>3, <5>1
      <4>2. ~(a <= -1)
        <5>1. a <= -1 => a * p <= -p
          BY <2>1, <3>2, SMT
        <5> QED BY <2>1, <3>2, <3>3, <5>1
      <4> QED BY <3>2, <4>1, <4>2
    <3>5. j = k
      BY <3>1, <3>4
    <3> QED BY <2>2, <3>5
  <2>3. IsFloat(y, size) <=> (y = k * p)
    BY <1>2, <2>1, Zenon DEF IsFloat
  <2>4. (\E j \in Int : y = j * p) <=> (y = k * p)
    <3>1. k \in Int
      OBVIOUS
    <3> QED BY <2>2, <3>1, Zenon
  <2> QED BY <2>1, <2>3, <2>4, Zenon
<1>3. CASE x >= 0
  BY <1>1, <1>2, <1>3
<1>4. CASE x < 0
  <2>1. PICK y \in Nat : y = -x
    BY <1>1, <1>4
  <2>2. Within(y) /\ Ulp(y, size) = Ulp(x, size) /\ Round(y, size) = -Round(x, size)
        /\ Round(x, size) \in Int
    BY <2>1, RoundNegated
  <2>3. IsFloat(x, size) <=> IsFloat(y, size)
    BY <1>1, <2>1, <2>2 DEF IsFloat
  <2>4. PICK p \in Nat : p = Ulp(x, size)
    BY UlpOf, Exp2Positive
  <2>5. ASSUME NEW k \in Int PROVE (y = k * p) <=> (x = (-k) * p)
    <3>1. k * p \in Int /\ (-k) * p = -(k * p)
      BY <2>4, SMT
    <3> QED BY <1>1, <2>1, <3>1
  <2>6. (\E k \in Int : y = k * p) <=> (\E k \in Int : x = k * p)
    <3>1. ASSUME NEW k \in Int, x = k * p PROVE \E j \in Int : y = j * p
      <4>1. -k \in Int /\ -(-k) = k
        OBVIOUS
      <4>2. (y = (-k) * p) <=> (x = (-(-k)) * p)
        BY <2>5, <4>1
      <4> QED BY <3>1, <4>1, <4>2
    <3>2. ASSUME NEW k \in Int, y = k * p PROVE \E j \in Int : x = j * p
      <4>1. -k \in Int /\ x = (-k) * p
        BY <2>5, <3>2
      <4> QED BY <4>1
    <3> QED BY <3>1, <3>2
  <2> QED BY <1>2, <2>2, <2>3, <2>4, <2>6
<1> QED BY <1>1, <1>3, <1>4

(* What is a multiple of a power of two is one of every smaller power.     *)
LEMMA SmallerMultiple ==
  ASSUME NEW e \in 0..MAX_BITS, NEW m \in 0..e, NEW k \in Int
  PROVE  \E j \in Int : k * Exp2[e] = j * Exp2[m]
<1>1. Exp2[e] = Exp2[e - m] * Exp2[m] /\ e - m \in 0..MAX_BITS
  BY Exp2Multiple
<1>2. m \in 0..MAX_BITS
  BY Exp2Powers
<1>3. PICK a, b, c \in Nat : a = Exp2[e] /\ b = Exp2[e - m] /\ c = Exp2[m]
  BY <1>1, <1>2, Exp2Positive
<1>4. k * (b * c) = (k * b) * c /\ k * b \in Int
  BY SMT
<1>5. k * Exp2[e] = (k * b) * Exp2[m]
  BY <1>1, <1>3, <1>4
<1> QED BY <1>4, <1>5

(* A number of so few bits needs no rounding. *)
LEMMA FewBitsFloat ==
  ASSUME NEW x, Within(x), NEW n \in 0..MAX_BITS, Magn(x) < Exp2[n],
         NEW size \in Nat, n <= size
  PROVE  IsFloat(x, size)
<1>1. Bits(x) <= n
  BY FewerBits
<1>2. Bits(x) \in Nat /\ n \in Nat
  BY BitsOf, Exp2Powers
<1>3. Ulp(x, size) = 1
  BY <1>1, <1>2 DEF Ulp
<1>4. x \in Int /\ x = x * 1
  BY DEF Within
<1> QED BY <1>3, <1>4, FloatMultiple

(* A format of more bits has every number that one of fewer has. *)
LEMMA MoreBits ==
  ASSUME NEW x, NEW few \in Nat, IsFloat(x, few), NEW size \in Nat, few <= size
  PROVE  IsFloat(x, size)
<1>1. Within(x)
  BY DEF IsFloat
<1>2. PICK e \in 0..MAX_BITS :
        /\ Ulp(x, few) = Exp2[e] /\ e <= Bits(x)
        /\ Bits(x) <= few => e = 0
        /\ Bits(x) > few => e = Bits(x) - few
  BY <1>1, UlpOf
<1>3. PICK m \in 0..MAX_BITS :
        /\ Ulp(x, size) = Exp2[m] /\ m <= Bits(x)
        /\ Bits(x) <= size => m = 0
        /\ Bits(x) > size => m = Bits(x) - size
  BY <1>1, UlpOf
<1>4. Bits(x) \in Nat /\ MAX_BITS \in Nat
  BY <1>1, BitsOf, Exp2Powers
<1>5. m \in 0..e
  BY <1>2, <1>3, <1>4
<1>6. PICK k \in Int : x = k * Ulp(x, few)
  BY <1>1, FloatMultiple
<1>7. \E j \in Int : x = j * Exp2[m]
  BY <1>2, <1>5, <1>6, SmallerMultiple
<1> QED BY <1>1, <1>3, <1>7, FloatMultiple

(* What is left of a number when its high bits are cut off is a number of  *)
(* the same format.                                                        *)
LEMMA CutFloat ==
  ASSUME NEW x \in Nat, NEW size \in Nat, IsFloat(x, size), NEW n \in 0..MAX_BITS,
         NEW y \in Nat, NEW h \in Int, x = h * Exp2[n] + y, y < Exp2[n]
  PROVE  IsFloat(y, size)
<1>1. Within(x) /\ Magn(x) = x /\ Magn(y) = y
  BY MagnitudeOf DEF IsFloat
<1>2. PICK c \in Nat : c = Exp2[n] /\ c >= 1
  BY Exp2Positive
<1>3. y <= x
  <2>1. h >= 0
    <3>1. SUFFICES ASSUME h <= -1 PROVE FALSE
      OBVIOUS
    <3>2. h * c <= -c /\ h * c \in Int
      BY <1>2, <3>1, SMT
    <3> QED BY <1>2, <3>2
  <2>2. h * c >= 0 /\ h * c \in Int
    BY <1>2, <2>1, SMT
  <2> QED BY <1>2, <2>2
<1>4. Exp2[MAX_BITS] \in Nat /\ MAX_BITS \in Nat
  BY Exp2Positive, Exp2Powers
<1>5. Within(y)
  BY <1>1, <1>3, <1>4 DEF Within
<1>6. PICK e \in 0..MAX_BITS :
        /\ Ulp(x, size) = Exp2[e] /\ e <= Bits(x)
        /\ Bits(x) <= size => e = 0
        /\ Bits(x) > size => e = Bits(x) - size
  BY <1>1, UlpOf
<1>7. PICK m \in 0..MAX_BITS :
        /\ Ulp(y, size) = Exp2[m] /\ m <= Bits(y)
        /\ Bits(y) <= size => m = 0
        /\ Bits(y) > size => m = Bits(y) - size
  BY <1>5, UlpOf
<1>8. Bits(y) <= Bits(x)
  BY <1>1, <1>3, <1>5, BitsOrder
<1>9. Bits(x) \in Nat /\ Bits(y) \in Nat
  BY <1>1, <1>4, <1>5, BitsOf
<1>10. m \in 0..e
  BY <1>4, <1>6, <1>7, <1>8, <1>9
<1>11. PICK k \in Int : x = k * Exp2[e]
  BY <1>1, <1>6, FloatMultiple
<1>12. \E j \in Int : y = j * Exp2[m]
  <2>1. CASE e <= n
    <3>1. e \in 0..n
      BY <1>4, <2>1
    <3>2. PICK i \in Int : h * Exp2[n] = i * Exp2[e]
      BY <3>1, SmallerMultiple
    <3>3. PICK d \in Nat : d = Exp2[e]
      BY Exp2Positive
    <3>4. (k - i) * d = k * d - i * d /\ k * d \in Int /\ i * d \in Int
      BY SMT
    <3>5. y = (k - i) * Exp2[e]
      <4>1. PICK a, b \in Int : a = k * d /\ b = i * d
        BY <3>4
      <4>2. x = a /\ x = b + y
        BY <1>11, <3>2, <3>3, <4>1
      <4> QED BY <3>3, <3>4, <4>1, <4>2
    <3>6. PICK j \in Int : (k - i) * Exp2[e] = j * Exp2[m]
      <4>1. k - i \in Int
        OBVIOUS
      <4> QED BY <1>10, <4>1, SmallerMultiple
    <3> QED BY <3>5, <3>6
  <2>2. CASE e > n
    <3>1. n \in 0..e
      BY <1>4, <2>2
    <3>2. PICK i \in Int : k * Exp2[e] = i * Exp2[n]
      BY <3>1, SmallerMultiple
    <3>3. (i - h) * c = i * c - h * c /\ i * c \in Int /\ h * c \in Int
      BY <1>2, SMT
    <3>4. y = (i - h) * c
      <4>1. PICK a, b \in Int : a = i * c /\ b = h * c
        BY <3>3
      <4>2. x = a /\ x = b + y
        BY <1>2, <1>11, <3>2, <4>1
      <4> QED BY <3>3, <4>1, <4>2
    <3>5. i - h = 0
      <4>1. PICK t \in Int : t = i - h
        OBVIOUS
      <4>2. ~(t >= 1)
        <5>1. t >= 1 => t * c >= c
          BY <1>2, SMT
        <5>2. t * c \in Int /\ t * c = y
          BY <3>4, <4>1
        <5> QED BY <1>2, <5>1, <5>2
      <4>3. ~(t <= -1)
        <5>1. t <= -1 => t * c <= -c
          BY <1>2, SMT
        <5>2. t * c \in Int /\ t * c = y
          BY <3>4, <4>1
        <5> QED BY <1>2, <5>1, <5>2
      <4> QED BY <4>1, <4>2, <4>3
    <3>6. y = 0
      <4>1. 0 * c = 0
        OBVIOUS
      <4> QED BY <3>4, <3>5, <4>1
    <3>7. Exp2[m] \in Nat
      BY Exp2Positive
    <3>8. y = 0 * Exp2[m]
      BY <3>6, <3>7
    <3> QED BY <3>8
  <2> QED BY <1>4, <2>1, <2>2
<1> QED BY <1>5, <1>7, <1>12, FloatMultiple

(* Multiplying with a power of two loses no bits. *)
LEMMA ScaledFloat ==
  ASSUME NEW x \in Int, NEW size \in Nat, IsFloat(x, size), NEW n \in 0..MAX_BITS,
         NEW y \in Int, y = x * Exp2[n], Within(y)
  PROVE  IsFloat(y, size)
<1>1. Within(x) /\ MAX_BITS \in Nat
  BY Exp2Powers DEF IsFloat
<1>2. PICK b : b = Bits(x)
  OBVIOUS
<1>3. b \in 0..MAX_BITS /\ Magn(x) < Exp2[b]
  BY <1>1, <1>2, BitsOf
<1>4. PICK c \in Nat : c = Exp2[n] /\ c >= 1
  BY Exp2Positive
<1>5. Bits(y) \in 0..MAX_BITS
  BY BitsOf
<1>6. Bits(y) <= b + n
  <2>1. CASE b + n > MAX_BITS
    BY <1>1, <1>3, <1>5, <2>1
  <2>2. CASE b + n <= MAX_BITS
    <3>1. PICK s : s = b + n
      OBVIOUS
    <3>2. s \in 0..MAX_BITS /\ n \in 0..s /\ s - n = b
      BY <1>1, <1>3, <2>2, <3>1
    <3>3. Exp2[s] = Exp2[b] * Exp2[n]
      BY <3>2, Exp2Multiple
    <3>4. PICK a, g \in Nat : a = Magn(x) /\ g = Exp2[b]
      BY <1>3, Exp2Positive, MagnitudeOf
    <3>5. Magn(y) = a * c
      <4>1. CASE x >= 0
        <5>1. a = x /\ x * c >= 0
          BY <1>4, <3>4, <4>1, MagnitudeOf, SMT
        <5> QED BY <1>4, <5>1, MagnitudeOf
      <4>2. CASE x < 0
        <5>1. a = -x
          BY <3>4, <4>2, MagnitudeOf
        <5>2. x * c <= 0 /\ (-x) * c = -(x * c)
          BY <1>4, <4>2, SMT
        <5>3. y <= 0 /\ a * c = -y
          BY <1>4, <5>1, <5>2
        <5> QED BY <5>3, MagnitudeOf
      <4> QED BY <4>1, <4>2
    <3>6. a + 1 <= g
      BY <1>3, <3>4
    <3>7. (a + 1) * c <= g * c /\ (a + 1) * c = a * c + c /\ a * c \in Nat /\ g * c \in Nat
      BY <3>6, SMT
    <3>8. Magn(y) < g * c
      BY <1>4, <3>5, <3>7
    <3>9. Magn(y) < Exp2[s]
      BY <1>4, <3>3, <3>4, <3>8
    <3> QED BY <3>1, <3>2, <3>9, FewerBits
  <2> QED BY <1>1, <1>3, <2>1, <2>2
<1>7. PICK e \in 0..MAX_BITS :
        /\ Ulp(x, size) = Exp2[e] /\ e <= Bits(x)
        /\ Bits(x) <= size => e = 0
        /\ Bits(x) > size => e = Bits(x) - size
  BY <1>1, UlpOf
<1>8. PICK m \in 0..MAX_BITS :
        /\ Ulp(y, size) = Exp2[m] /\ m <= Bits(y)
        /\ Bits(y) <= size => m = 0
        /\ Bits(y) > size => m = Bits(y) - size
  BY UlpOf
<1>9. m <= e + n
  BY <1>1, <1>2, <1>3, <1>5, <1>6, <1>7, <1>8
<1>10. PICK k \in Int : x = k * Exp2[e]
  BY <1>1, <1>7, FloatMultiple
<1>11. \E j \in Int : y = j * Exp2[m]
  <2>1. CASE m <= n
    <3>1. m \in 0..n
      BY <1>1, <2>1
    <3> QED BY <3>1, SmallerMultiple
  <2>2. CASE m > n
    <3>1. PICK f : f = m - n
      OBVIOUS
    <3>2. f \in 0..e /\ n \in 0..m /\ f \in 0..MAX_BITS
      BY <1>1, <1>9, <2>2, <3>1
    <3>3. Exp2[m] = Exp2[f] * Exp2[n]
      BY <3>1, <3>2, Exp2Multiple
    <3>4. PICK i \in Int : x = i * Exp2[f]
      <4>1. PICK z \in 0..e : z = f
        BY <3>2
      <4>2. PICK i \in Int : k * Exp2[e] = i * Exp2[z]
        BY SmallerMultiple
      <4> QED BY <1>10, <4>1, <4>2
    <3>5. PICK g \in Nat : g = Exp2[f]
      BY <3>2, Exp2Positive
    <3>6. (i * g) * c = i * (g * c)
      BY <1>4, SMT
    <3>7. y = i * Exp2[m]
      BY <1>4, <3>3, <3>4, <3>5, <3>6
    <3> QED BY <3>7
  <2> QED BY <1>1, <2>1, <2>2
<1> QED BY <1>8, <1>11, FloatMultiple

(* Multiples of p are p apart. *)
LEMMA WholeSteps ==
  ASSUME NEW p \in Nat, p >= 1, NEW i \in Int, NEW k \in Int
  PROVE  /\ i * p < k * p + p => i * p <= k * p
         /\ i * p > k * p => i * p >= k * p + p
<1>1. i * p \in Int /\ k * p \in Int
  BY SMT
<1>2. i <= k => i * p <= k * p
  BY SMT
<1>3. i >= k + 1 => i * p >= k * p + p
  <2>1. SUFFICES ASSUME i >= k + 1 PROVE i * p >= k * p + p
    OBVIOUS
  <2>2. (i - (k + 1)) * p >= 0
    BY <2>1, SMT
  <2>3. (i - (k + 1)) * p = i * p - k * p - p
    BY SMT
  <2> QED BY <1>1, <2>2, <2>3
<1> QED BY <1>1, <1>2, <1>3

(* Rounding does not pass a number of the format. *)
LEMMA RoundBetween ==
  ASSUME NEW size \in Nat, size >= 1, NEW x \in Nat, IsFloat(x, size),
         NEW y \in Nat, Within(y)
  PROVE  /\ x <= y => x <= Round(y, size)
         /\ y <= x => Round(y, size) <= x
<1>1. PICK p, k \in Nat :
        /\ p = Ulp(y, size) /\ p >= 1
        /\ k * p <= y /\ y < k * p + p
        /\ Round(y, size) \in {k * p, k * p + p}
        /\ (y = k * p) <=> (Round(y, size) = y)
  BY RoundNatural
<1>2. PICK low \in Nat : low = k * p
  BY SMT
<1>3. SUFFICES ASSUME y # low
               PROVE  (x <= y => x <= low) /\ (y <= x => low + p <= x)
  BY <1>1, <1>2
<1>4. Within(x) /\ Magn(x) = x /\ Magn(y) = y /\ MAX_BITS \in Nat
  BY MagnitudeOf, Exp2Powers DEF IsFloat
<1>5. PICK a, b : a = Bits(x) /\ b = Bits(y)
  OBVIOUS
<1>6. /\ a \in 0..MAX_BITS /\ x < Exp2[a] /\ (a > 0 => Exp2[a - 1] <= x)
      /\ b \in 0..MAX_BITS /\ y < Exp2[b] /\ (b > 0 => Exp2[b - 1] <= y)
  BY <1>4, <1>5, BitsOf
<1>7. PICK e \in 0..MAX_BITS :
        /\ Ulp(y, size) = Exp2[e] /\ e <= Bits(y)
        /\ Bits(y) <= size => e = 0
        /\ Bits(y) > size => e = Bits(y) - size
  BY UlpOf
<1>8. p = Exp2[e] /\ p >= 2
  <2>1. y \in k * p..(k * p + p) /\ y # k * p
    BY <1>1, <1>2, <1>3
  <2> QED BY <1>1, <1>2, <1>3, <1>7
<1>9. e <= b - 1 /\ b >= 1
  <2>1. e # 0
    <3>1. Exp2[0] = 1
      BY Exp2Powers DEF PowersOfTwo
    <3> QED BY <1>8, <3>1
  <2>2. b > size
    BY <1>5, <1>6, <1>7, <2>1
  <2> QED BY <1>5, <1>6, <1>7, <2>2
<1>10. ASSUME a = b PROVE \E j \in Int : x = j * p
  <2>1. Ulp(x, size) = p
    BY <1>1, <1>5, <1>10, Zenon DEF Ulp
  <2> QED BY <1>4, <2>1, FloatMultiple
<1>11. ASSUME x <= y PROVE x <= low
  <2>1. a <= b
    BY <1>4, <1>5, <1>11, BitsOrder
  <2>2. CASE a = b
    <3>1. PICK j \in Int : x = j * p
      BY <1>10, <2>2
    <3>2. j * p < k * p + p => j * p <= k * p
      <4>1. p \in Nat /\ p >= 1 /\ j \in Int /\ k \in Int
        BY <1>1
      <4> QED BY <4>1, WholeSteps, Zenon
    <3> QED BY <1>1, <1>2, <1>11, <3>1, <3>2
  <2>3. CASE a # b
    <3>1. PICK n \in 0..MAX_BITS : n = b - 1
      BY <1>4, <1>6, <1>9
    <3>2. a \in 0..n /\ e \in 0..n
      BY <1>6, <1>7, <1>9, <2>1, <2>3, <3>1
    <3>3. Exp2[a] <= Exp2[n]
      <4>1. a \in 0..n
        BY <3>2
      <4> QED BY <4>1, Exp2Multiple
    <3>4. PICK i \in Int : Exp2[n] = i * p
      <4>1. PICK q : q = 1
        OBVIOUS
      <4>2. q \in Int /\ e \in 0..n
        BY <3>2, <4>1
      <4>3. PICK i \in Int : q * Exp2[n] = i * Exp2[e]
        BY <4>2, SmallerMultiple
      <4>4. 1 * Exp2[n] = Exp2[n]
        BY Exp2Positive
      <4> QED BY <1>8, <4>1, <4>3, <4>4
    <3>5. Exp2[n] <= y
      BY <1>6, <1>9, <3>1
    <3>6. Exp2[n] \in Nat /\ Exp2[a] \in Nat
      BY <1>6, Exp2Positive
    <3>7. i * p < k * p + p => i * p <= k * p
      <4>1. p \in Nat /\ p >= 1 /\ i \in Int /\ k \in Int
        BY <1>1
      <4> QED BY <4>1, WholeSteps, Zenon
    <3> QED BY <1>1, <1>2, <1>6, <3>3, <3>4, <3>5, <3>6, <3>7
  <2> QED BY <2>2, <2>3
<1>12. ASSUME y <= x PROVE low + p <= x
  <2>1. b <= a
    BY <1>4, <1>5, <1>12, BitsOrder
  <2>2. CASE a = b
    <3>1. PICK j \in Int : x = j * p
      BY <1>10, <2>2
    <3>2. j * p > k * p => j * p >= k * p + p
      <4>1. p \in Nat /\ p >= 1 /\ j \in Int /\ k \in Int
        BY <1>1
      <4> QED BY <4>1, WholeSteps, Zenon
    <3> QED BY <1>1, <1>2, <1>3, <1>12, <3>1, <3>2
  <2>3. CASE a # b
    <3>1. PICK n \in 0..MAX_BITS : n = a - 1
      BY <1>4, <1>6, <1>9, <2>1
    <3>2. b \in 0..n /\ e \in 0..b
      BY <1>6, <1>7, <1>9, <2>1, <2>3, <3>1
    <3>3. Exp2[b] <= Exp2[n]
      <4>1. b \in 0..n
        BY <3>2
      <4> QED BY <4>1, Exp2Multiple
    <3>4. PICK i \in Int : Exp2[b] = i * p
      <4>1. PICK q : q = 1
        OBVIOUS
      <4>2. q \in Int /\ e \in 0..b /\ b \in 0..MAX_BITS
        BY <1>6, <3>2, <4>1
      <4>3. PICK i \in Int : q * Exp2[b] = i * Exp2[e]
        BY <4>2, SmallerMultiple
      <4>4. 1 * Exp2[b] = Exp2[b]
        BY <1>6, Exp2Positive
      <4> QED BY <1>8, <4>1, <4>3, <4>4
    <3>5. Exp2[n] <= x
      BY <1>6, <1>9, <2>1, <3>1
    <3>6. Exp2[n] \in Nat /\ Exp2[b] \in Nat
      BY <1>6, Exp2Positive
    <3>7. i * p > k * p => i * p >= k * p + p
      <4>1. p \in Nat /\ p >= 1 /\ i \in Int /\ k \in Int
        BY <1>1
      <4> QED BY <4>1, WholeSteps, Zenon
    <3> QED BY <1>1, <1>2, <1>3, <1>6, <3>3, <3>4, <3>5, <3>6, <3>7
  <2> QED BY <2>2, <2>3
<1> QED BY <1>11, <1>12

(* The same for numbers of both signs. *)
LEMMA RoundKeepsOrder ==
  ASSUME NEW size \in Nat, size >= 1, NEW x, IsFloat(x, size), NEW y, Within(y)
  PROVE  /\ Round(y, size) \in Int
         /\ x <= y => x <= Round(y, size)
         /\ y <= x => Round(y, size) <= x
<1>1. x \in Int /\ y \in Int /\ Within(x) /\ Round(x, size) = x
  BY DEF IsFloat, Within
<1>2. /\ Within(-x) /\ Round(-x, size) = -Round(x, size)
      /\ Within(-y) /\ Round(-y, size) = -Round(y, size) /\ Round(y, size) \in Int
  BY <1>1, RoundNegated
<1>3. IsFloat(-x, size)
  BY <1>1, <1>2 DEF IsFloat
<1>4. PICK z \in Nat : z = 0
  OBVIOUS
<1>5. IsFloat(z, size)
  <2>1. Magn(z) = z
    BY MagnitudeOf
  <2>2. MAX_BITS \in 0..MAX_BITS /\ 0 \in 0..MAX_BITS
    BY Exp2Powers
  <2>3. Exp2[0] = 1 /\ Exp2[MAX_BITS] \in Nat /\ Exp2[MAX_BITS] >= 1
    BY <2>2, Exp2Positive, Exp2Powers DEF PowersOfTwo
  <2>4. Within(z)
    BY <1>4, <2>1, <2>3 DEF Within
  <2>5. PICK n \in 0..MAX_BITS : n = 0
    BY <2>2
  <2>6. Magn(z) < Exp2[n] /\ n <= size
    BY <1>4, <2>1, <2>3, <2>5
  <2> QED BY <2>4, <2>6, FewBitsFloat
<1>6. ASSUME y >= 0
      PROVE  /\ Round(y, size) >= 0
             /\ x <= y => x <= Round(y, size)
             /\ y <= x => Round(y, size) <= x
  <2>1. y \in Nat
    BY <1>1, <1>6
  <2>2. z <= y => z <= Round(y, size)
    BY <1>5, <2>1, RoundBetween
  <2>3. Round(y, size) >= 0
    BY <1>4, <1>6, <2>2
  <2>4. CASE x >= 0
    <3>1. x \in Nat
      BY <1>1, <2>4
    <3> QED BY <2>1, <2>3, <3>1, RoundBetween
  <2>5. CASE x < 0
    BY <1>1, <1>2, <1>6, <2>3, <2>5
  <2> QED BY <1>1, <2>4, <2>5
<1>7. ASSUME y < 0
      PROVE  /\ x <= y => x <= Round(y, size)
             /\ y <= x => Round(y, size) <= x
  <2>1. PICK s, t : s = -x /\ t = -y
    OBVIOUS
  <2>2. t \in Nat /\ s \in Int /\ IsFloat(s, size) /\ Within(t)
    BY <1>1, <1>2, <1>3, <1>7, <2>1
  <2>3. PICK r \in Int : r = Round(y, size)
    BY <1>2
  <2>4. Round(t, size) = -r
    BY <1>2, <2>1, <2>3
  <2>5. z <= t => z <= Round(t, size)
    BY <1>5, <2>2, RoundBetween
  <2>6. r <= 0
    BY <1>4, <2>2, <2>3, <2>4, <2>5
  <2>7. CASE s >= 0
    <3>1. s \in Nat
      BY <2>2, <2>7
    <3>2. (s <= t => s <= Round(t, size)) /\ (t <= s => Round(t, size) <= s)
      BY <2>2, <3>1, RoundBetween
    <3>3. (s <= t => s <= -r) /\ (t <= s => -r <= s)
      BY <2>4, <3>2
    <3> QED BY <1>1, <2>1, <2>2, <2>3, <3>3
  <2>8. CASE s < 0
    BY <1>1, <1>7, <2>1, <2>2, <2>3, <2>6, <2>8
  <2> QED BY <2>2, <2>7, <2>8
<1> QED BY <1>1, <1>2, <1>6, <1>7

-----------------------------------------------------------------------------
(* The sizes of words, and the base of half words, are powers of two.      *)
LEMMA WordPowers ==
  /\ SI_TYPE_SIZE \in 0..MAX_BITS /\ DI_SIZE \in 0..MAX_BITS /\ DI_SIZE + 1 \in 0..MAX_BITS
  /\ UNIT_BITS \in 0..MAX_BITS
  /\ SI_TYPE_SIZE >= 2
  /\ W = Exp2[SI_TYPE_SIZE] /\ W * W = Exp2[DI_SIZE]
  /\ \E h \in 0..MAX_BITS : B = Exp2[h]
  /\ \A n \in 0..DI_SIZE : TwoTo[n] = Exp2[n]
<1>1. PICK s, d, M : s = SI_TYPE_SIZE /\ d = DI_SIZE /\ M = MAX_BITS
  OBVIOUS
<1>2. /\ s \in Nat /\ d = 2 * s /\ M \in Nat /\ UNIT_BITS \in Nat /\ M > d + UNIT_BITS
      /\ s \in 0..M /\ d \in 0..M /\ d + 1 \in 0..M /\ UNIT_BITS \in 0..M
  BY <1>1, WordAssumption, FloatAssumption DEF DI_SIZE
<1>3. PowersOfTwo(TwoTo, d) /\ PowersOfTwo(Exp2, M)
  BY <1>1, TwoToPowers, Exp2Powers DEF DI_SIZE
<1>4. PICK p, q : p = TwoTo /\ q = Exp2
  OBVIOUS
<1>5. \A n \in 0..d : n \in Nat /\ p[n] = q[n]
  <2> DEFINE S == {n \in Nat : p[n] = q[n]}
  <2>1. 0 \in S
    BY <1>3, <1>4 DEF PowersOfTwo
  <2>2. ASSUME NEW n \in 0..(d - 1), n \in S PROVE n + 1 \in S
    <3>1. n \in 0..(M - 1) /\ n + 1 \in Nat
      BY <1>2
    <3>2. p[n + 1] = 2 * p[n] /\ q[n + 1] = 2 * q[n]
      BY <1>3, <1>4, <3>1 DEF PowersOfTwo
    <3> QED BY <2>2, <3>1, <3>2
  <2>3. \A n \in 0..d : n \in S
    <3> HIDE DEF S
    <3>1. d \in Nat
      BY <1>2
    <3> QED BY <2>1, <2>2, <3>1, IntervalInduction
  <2> QED BY <2>3
<1>6. W = q[s]
  BY <1>1, <1>2, <1>4, <1>5, WordAssumption
<1>7. W * W = q[d]
  <2>1. s \in 0..d /\ d - s = s /\ d \in 0..M
    BY <1>2
  <2>2. q[d] = q[d - s] * q[s]
    BY <1>1, <1>4, <2>1, Exp2Multiple
  <2> QED BY <1>6, <2>1, <2>2
<1>8. \E h \in 0..M : B = q[h]
  <2>1. B \in Nat /\ B * B = q[s]
    BY <1>6, WordSize
  <2> QED BY <1>2, <1>3, <1>4, <2>1, RootOfPower
<1>9. s >= 2
  <2>1. SUFFICES ASSUME s <= 1 PROVE FALSE
    BY <1>2
  <2>2. PICK i, j \in Nat : i = s /\ j = 1
    BY <1>2
  <2>3. j \in 0..M /\ i <= j
    BY <1>2, <2>1, <2>2
  <2>4. q[i] <= q[j]
    BY <1>2, <1>3, <1>4, <2>3, ExponentOrder
  <2>5. q[1] = 2 * q[0] /\ q[0] = 1
    <3>1. PICK z \in 0..(M - 1) : z = 0
      BY <1>2
    <3>2. q[z + 1] = 2 * q[z]
      BY <1>3, <1>4 DEF PowersOfTwo
    <3> QED BY <1>3, <1>4, <3>1, <3>2 DEF PowersOfTwo
  <2>6. W >= 4 /\ W \in Nat
    BY WordSize
  <2> QED BY <1>6, <2>2, <2>4, <2>5, <2>6
<1> QED BY <1>1, <1>2, <1>4, <1>5, <1>6, <1>7, <1>8, <1>9

(* The parts of 1, of a word and of a double word. *)
LEMMA UnitPowers ==
  /\ UNIT \in Nat /\ UNIT >= 1
  /\ \E n \in 0..MAX_BITS : Exp2[n] = W * UNIT
  /\ \E n \in 0..MAX_BITS : Exp2[n] = (W \div 2) * UNIT
  /\ (W * W) * UNIT < Exp2[MAX_BITS]
<1>1. PICK s, d, M, e : s = SI_TYPE_SIZE /\ d = DI_SIZE /\ M = MAX_BITS /\ e = UNIT_BITS
  OBVIOUS
<1>2. s \in Nat /\ s >= 2 /\ d = 2 * s /\ M \in Nat /\ e \in Nat /\ M > d + e
  BY <1>1, WordPowers, FloatAssumption, WordAssumption DEF DI_SIZE
<1>3. PICK q : q = Exp2
  OBVIOUS
<1>4. UNIT = q[e] /\ W = q[s] /\ W * W = q[d] /\ \A n \in 0..M : q[n] \in Nat /\ q[n] >= 1
  BY <1>1, <1>3, WordPowers, Exp2Positive DEF UNIT
<1>5. ASSUME NEW n \in Nat, n + e <= M PROVE n + e \in 0..M /\ q[n + e] = q[n] * UNIT
  <2>1. PICK k \in 0..M : k = n + e
    BY <1>2, <1>5
  <2>2. e \in 0..k /\ k - e = n
    BY <1>2, <2>1
  <2>3. q[k] = q[k - e] * q[e]
    BY <1>1, <1>3, <2>2, Exp2Multiple
  <2> QED BY <1>4, <2>1, <2>2, <2>3
<1>6. s + e \in 0..M /\ q[s + e] = W * UNIT
  BY <1>2, <1>4, <1>5
<1>7. PICK t \in Nat : t = s - 1
  BY <1>2
<1>8. W \div 2 = q[t]
  <2>1. s \in 1..MAX_BITS
    BY <1>1, <1>2
  <2>2. q[s] = 2 * q[s - 1]
    BY <1>3, <2>1, Exp2Next
  <2>3. t \in 0..M
    BY <1>2, <1>7
  <2>4. q[t] \in Nat
    BY <1>4, <2>3
  <2>5. W = 2 * q[t]
    BY <1>4, <1>7, <2>2
  <2> QED BY <2>4, <2>5
<1>9. t + e \in 0..M /\ q[t + e] = (W \div 2) * UNIT
  BY <1>2, <1>5, <1>7, <1>8
<1>10. d + e \in 0..M /\ q[d + e] = (W * W) * UNIT
  BY <1>2, <1>4, <1>5
<1>11. q[d + e] < q[M]
  <2>1. M \in 1..MAX_BITS
    BY <1>1, <1>2
  <2>2. q[M] = 2 * q[M - 1]
    BY <1>3, <2>1, Exp2Next
  <2>3. PICK n \in 0..MAX_BITS : n = M - 1
    BY <1>1, <1>2
  <2>4. PICK k \in 0..n : k = d + e
    BY <1>2, <2>3
  <2>5. q[k] <= q[n]
    BY <1>3, Exp2Multiple
  <2>6. q[k] \in Nat /\ q[k] >= 1 /\ q[n] \in Nat
    BY <1>1, <1>4, <1>10, <2>3, <2>4
  <2> QED BY <2>2, <2>3, <2>4, <2>5, <2>6
<1>12. UNIT \in Nat /\ UNIT >= 1
  BY <1>2, <1>4
<1> QED BY <1>1, <1>3, <1>6, <1>9, <1>10, <1>11, <1>12

(* The number a is the double word x and a fraction f, in parts of UNIT.   *)
StandsFor(a, x, f) == x \in DWord /\ f \in 0..(UNIT - 1) /\ a = x * UNIT + f

(* The words of its integer part. *)
LEMMA PartsOf ==
  ASSUME NEW x \in DWord, NEW f \in 0..(UNIT - 1), NEW a, StandsFor(a, x, f)
  PROVE  \E h, l \in Word, y \in Nat, c, w \in Nat :
           /\ w = W /\ c = UNIT /\ w >= 1 /\ c >= 1
           /\ h = High(x) /\ l = Low(x) /\ x = h * w + l
           /\ h \in 0..(w - 1) /\ l \in 0..(w - 1)
           /\ y = l * c + f /\ y < w * c
           /\ a \in Nat /\ a = h * (w * c) + y /\ a = x * c + f /\ Within(a)
           /\ a < (w * w) * c
<1>1. PICK c, w \in Nat : c = UNIT /\ w = W /\ w >= 1 /\ c >= 1
  BY UnitPowers, WordSize
<1>2. PICK h, l \in Word : h = High(x) /\ l = Low(x)
  BY WordsOf
<1>3. x = h * w + l /\ x \in Nat /\ h \in 0..(w - 1) /\ l \in 0..(w - 1) /\ f \in 0..(c - 1)
  BY <1>1, <1>2, WordsOf DEF Word
<1>4. PICK y \in Nat : y = l * c + f
  <2>1. l * c \in Nat
    BY <1>3, SMT
  <2> QED BY <1>3, <2>1
<1>5. y < w * c
  <2>1. (w - 1 - l) * c >= 0
    BY <1>3, SMT
  <2>2. (w - 1 - l) * c = w * c - c - l * c /\ w * c \in Nat /\ l * c \in Nat
    BY <1>3, SMT
  <2> QED BY <1>3, <1>4, <2>1, <2>2
<1>6. a = x * c + f
  BY <1>1 DEF StandsFor
<1>7. a = h * (w * c) + y
  <2>1. (h * w + l) * c = h * (w * c) + l * c
    BY <1>3, SMT
  <2>2. h * (w * c) \in Nat /\ l * c \in Nat
    BY <1>3, SMT
  <2> QED BY <1>3, <1>4, <1>6, <2>1, <2>2
<1>8. a \in Nat /\ a < (w * w) * c
  <2>1. x < w * w /\ w * w \in Nat
    BY <1>1 DEF DWord
  <2>2. (w * w - 1 - x) * c >= 0
    BY <1>3, <2>1, SMT
  <2>3. (w * w - 1 - x) * c = (w * w) * c - c - x * c /\ (w * w) * c \in Nat /\ x * c \in Nat
    BY <1>3, <2>1, SMT
  <2> QED BY <1>3, <1>6, <2>2, <2>3
<1>9. Within(a)
  <2>1. Magn(a) = a
    BY <1>8, MagnitudeOf
  <2>2. (w * w) * c < Exp2[MAX_BITS]
    BY <1>1, UnitPowers
  <2>3. Exp2[MAX_BITS] \in Nat /\ (w * w) * c \in Nat
    <3>1. MAX_BITS \in 0..MAX_BITS
      BY Exp2Powers
    <3>2. (w * w) * c \in Nat
      BY SMT
    <3> QED BY <3>1, <3>2, Exp2Positive
  <2> QED BY <1>8, <2>1, <2>2, <2>3 DEF Within
<1> QED BY <1>1, <1>2, <1>3, <1>4, <1>5, <1>6, <1>7, <1>8, <1>9

(* What a number of natural value keeps as an integer. *)
LEMMA IntegerOf ==
  ASSUME NEW a \in Nat, NEW q \in Int, NEW r \in 0..(UNIT - 1), a = q * UNIT + r
  PROVE  Integer(a) = q
<1>1. UNIT \in Nat \ {0}
  BY UnitPowers
<1>2. a \div UNIT = q
  BY <1>1, Divided
<1>3. ~(a < 0)
  OBVIOUS
<1> QED BY <1>2, <1>3 DEF Integer

(* A number of a format becomes its integer part, one word after the other. *)
LEMMA FloatFixed ==
  ASSUME NEW size \in Nat, NEW x \in DWord, NEW f \in 0..(UNIT - 1),
         NEW a, StandsFor(a, x, f), IsFloat(a, size)
  PROVE  fixunsdi(a, size) = x
<1>1. PICK h, l \in Word, y \in Nat, c, w \in Nat :
           /\ w = W /\ c = UNIT /\ w >= 1 /\ c >= 1
           /\ h = High(x) /\ l = Low(x) /\ x = h * w + l
           /\ h \in 0..(w - 1) /\ l \in 0..(w - 1)
           /\ y = l * c + f /\ y < w * c
           /\ a \in Nat /\ a = h * (w * c) + y /\ a = x * c + f /\ Within(a)
           /\ a < (w * w) * c
  BY PartsOf
<1>2. Round(a, size) = a
  BY DEF IsFloat
<1>3. w = W /\ c = UNIT
  BY <1>1, Zenon
<1>4. w >= 1 /\ c >= 1 /\ h \in 0..(w - 1) /\ l \in 0..(w - 1)
  BY <1>1, Zenon
<1>5. a \in Nat /\ x = h * w + l /\ y = l * c + f
  BY <1>1, Zenon
<1>6. PICK d \in Nat : d = w * c
  BY SMT
<1>7. PICK t \in Nat : t = h * w
  BY <1>4, SMT
<1>8. a = h * d + y /\ y < d
  BY <1>1, <1>6, Zenon
<1>9. d >= 1
  BY <1>4, <1>6, SMT
<1>10. Integer(a \div w) = h
  <2>1. h \in Int /\ y \in 0..(d - 1) /\ d \in Nat \ {0} /\ a \in Int
    BY <1>4, <1>5, <1>8, <1>9
  <2>2. a \div d = h
    BY <1>8, <2>1, Divided
  <2>3. w \in Nat \ {0} /\ c \in Nat \ {0}
    BY <1>4
  <2>4. a \div (w * c) = (a \div w) \div c
    BY <2>1, <2>3, DividedTwice
  <2>5. ~(a \div w < 0)
    BY <1>5, <2>3, SMT
  <2> QED BY <1>3, <1>6, <2>2, <2>4, <2>5, Zenon DEF Integer
<1>11. h % W = h
  <2>1. h \in Int /\ h >= 0 /\ h < w
    BY <1>4
  <2> QED BY <1>3, <2>1, Wrapped
<1>12. Pair(h, 0) = t
  BY <1>3, <1>7 DEF Pair
<1>13. a - t * c = y
  <2>1. t * c = h * d /\ h * d \in Nat
    <3>1. (h * w) * c = h * (w * c)
      BY <1>4, SMT
    <3>2. h * d \in Nat
      BY <1>4, SMT
    <3> QED BY <1>6, <1>7, <3>1, <3>2
  <2>2. PICK e \in Nat : e = h * d
    BY <2>1
  <2>3. a = e + y /\ t * c = e
    BY <1>8, <2>1, <2>2
  <2> QED BY <2>3
<1>14. Round(y, size) = y
  <2>1. PICK n \in 0..MAX_BITS : Exp2[n] = W * UNIT
    BY UnitPowers
  <2>2. Exp2[n] = d
    BY <1>3, <1>6, <2>1
  <2>3. h \in Int /\ a = h * Exp2[n] + y /\ y < Exp2[n]
    BY <1>4, <1>8, <2>2
  <2>4. IsFloat(y, size)
    BY <1>5, <2>3, CutFloat
  <2> QED BY <2>4 DEF IsFloat
<1>15. Integer(y) = l
  <2>1. l \in Int /\ y = l * UNIT + f
    BY <1>3, <1>4, <1>5
  <2> QED BY <2>1, IntegerOf
<1>16. l % W = l
  <2>1. l \in Int /\ l >= 0 /\ l < w
    BY <1>4
  <2> QED BY <1>3, <2>1, Wrapped
<1>17. (t + l) % (W * W) = x
  <2>1. t + l = x /\ x \in Int
    BY <1>5, <1>7, WordsOf
  <2> QED BY <2>1, WrappedPair
<1>18. ~(a < 0) /\ ~(y < 0)
  BY <1>5
<1>19. Pair(Integer(Round(a, size) \div W) % W, 0) = t
  BY <1>2, <1>3, <1>10, <1>11, <1>12, Zenon
<1>20. Round(a - t * UNIT, size) = y
  BY <1>3, <1>13, <1>14, Zenon
<1> QED BY <1>15, <1>16, <1>17, <1>18, <1>19, <1>20, Zenon DEF fixunsdi

(* A double word as a signed number: the upper half of them is negative.   *)
LEMMA SignedValue ==
  ASSUME NEW x \in DWord
  PROVE  Signed(x) = IF x >= W * (W \div 2) THEN x - W * W ELSE x
<1>1. PICK w, half \in Nat : w = W /\ half = W \div 2 /\ w = 2 * half /\ half >= 1
  BY SignedWords
<1>2. PICK h, l : h = High(x) /\ l = Low(x)
  OBVIOUS
<1>3. x = h * w + l /\ h \in 0..(w - 1) /\ l \in 0..(w - 1) /\ x \in Nat
  BY <1>1, <1>2, WordsOf DEF Word
<1>4. half * w = w * half /\ w * half \in Nat /\ h * w \in Nat
  BY <1>3, SMT
<1>5. h >= half => x >= w * half
  <2>1. h >= half => h * w >= half * w
    BY <1>3, SMT
  <2> QED BY <1>3, <1>4, <2>1
<1>6. h < half => x < w * half
  <2>1. SUFFICES ASSUME h < half PROVE x < w * half
    OBVIOUS
  <2>2. (half - 1 - h) * w >= 0
    BY <1>3, <2>1, SMT
  <2>3. (half - 1 - h) * w = half * w - w - h * w
    BY <1>3, SMT
  <2> QED BY <1>3, <1>4, <2>2, <2>3
<1>7. (High(x) >= W \div 2) <=> (x >= w * half)
  BY <1>1, <1>2, <1>3, <1>4, <1>5, <1>6
<1> QED BY <1>1, <1>7, Zenon DEF Signed

(* The lower half of the double words, and their negations, as signed      *)
(* numbers.                                                                *)
LEMMA SignedNatural ==
  ASSUME NEW x \in DWord, x < W * (W \div 2)
  PROVE  Signed(x) = x /\ Signed(negdi2(x)) = -x
<1>1. PICK w, half \in Nat : w = W /\ half = W \div 2 /\ w = 2 * half /\ half >= 1
  BY SignedWords
<1>2. x \in Nat /\ x < w * half
  BY <1>1, WordsOf
<1>3. w * w = 2 * (w * half) /\ w * half \in Nat /\ w * w \in Nat
  <2>1. w * (2 * half) = 2 * (w * half) /\ w * half \in Nat
    BY SMT
  <2> QED BY <1>1, <2>1
<1>4. ASSUME NEW y \in DWord
      PROVE  Signed(y) = IF y >= w * half THEN y - w * w ELSE y
  BY <1>1, SignedValue
<1>5. Signed(x) = x
  BY <1>2, <1>3, <1>4
<1>6. CASE x = 0
  <2>1. negdi2(x) = x
    BY <1>6, Negation
  <2> QED BY <1>5, <1>6, <2>1
<1>7. CASE x # 0
  <2>1. PICK y \in DWord : y = negdi2(x)
    BY Negation
  <2>2. y = w * w - x
    BY <1>1, <1>7, <2>1, Negation
  <2>3. Signed(y) = IF y >= w * half THEN y - w * w ELSE y
    BY <1>4
  <2> QED BY <1>2, <1>3, <1>5, <2>1, <2>2, <2>3
<1> QED BY <1>6, <1>7

(* What the conversions to signed double words do. *)
FixSigned(a, size) == IF a < 0 THEN negdi2(fixunsdi(-a, size)) ELSE fixunsdi(a, size)

(* A number becomes its integer part, and its negation that of the other   *)
(* sign.                                                                   *)
LEMMA FloatFixedSigned ==
  ASSUME NEW size \in Nat, NEW x \in DWord, NEW f \in 0..(UNIT - 1),
         NEW a, StandsFor(a, x, f), IsFloat(a, size), x < W * (W \div 2)
  PROVE  Signed(FixSigned(a, size)) = x /\ Signed(FixSigned(-a, size)) = -x
<1>1. a \in Nat
  BY PartsOf, Zenon
<1>2. fixunsdi(a, size) = x
  BY FloatFixed
<1>3. Signed(x) = x /\ Signed(negdi2(x)) = -x
  BY SignedNatural
<1>4. FixSigned(a, size) = x
  BY <1>1, <1>2 DEF FixSigned
<1>5. CASE a = 0
  <2>1. PICK c \in Nat : c = UNIT /\ c >= 1
    BY UnitPowers
  <2>2. a = x * c + f /\ x \in Nat /\ f \in 0..(c - 1)
    BY <2>1, WordsOf DEF StandsFor
  <2>3. x * c >= x
    BY <2>1, <2>2, SMT
  <2>4. x * c \in Nat
    BY <2>2, SMT
  <2>5. x = 0
    BY <1>5, <2>2, <2>3, <2>4
  <2>6. -a = a
    <3>1. PICK y, z \in Int : y = a /\ z = -a
      BY <1>1
    <3>2. y + z = 0 /\ y = 0
      <4>1. z = -y
        BY <3>1
      <4> QED BY <1>5, <3>1, <4>1
    <3>3. z = y
      BY <3>2
    <3> QED BY <3>1, <3>3, Zenon
  <2> QED BY <1>3, <1>4, <2>5, <2>6
<1>6. CASE a # 0
  <2>1. -a < 0 /\ -(-a) = a
    BY <1>1, <1>6
  <2>2. FixSigned(-a, size) = negdi2(x)
    BY <1>2, <2>1, Zenon DEF FixSigned
  <2> QED BY <1>3, <1>4, <2>2
<1> QED BY <1>5, <1>6

(* A number below a word becomes a word. *)
LEMMA FloatFixedWord ==
  ASSUME NEW size \in Nat, NEW x \in DWord, NEW f \in 0..(UNIT - 1),
         NEW a, StandsFor(a, x, f), IsFloat(a, size), x < W
  PROVE  fixunsfsi(a, size) = x
<1>1. a \in Nat
  BY PartsOf, Zenon
<1>2. PICK w, half \in Nat : w = W /\ half = W \div 2 /\ w = 2 * half /\ half >= 1
  BY SignedWords
<1>3. PICK c \in Nat : c = UNIT /\ c >= 1
  BY UnitPowers
<1>4. a = x * c + f /\ x \in Nat /\ x < w /\ f \in 0..(c - 1)
  BY <1>2, <1>3, WordsOf DEF StandsFor
<1>5. x % W = x
  <2>1. x \in Int /\ x >= 0
    BY <1>4
  <2> QED BY <2>1, Wrapped
<1>6. PICK d \in Nat : d = half * c
  BY SMT
<1>7. CASE a >= d
  <2>1. PICK b \in Nat : b = a - d
    BY <1>1, <1>7
  <2>2. b < d
    <3>1. (w - 1 - x) * c >= 0
      BY <1>2, <1>3, <1>4, SMT
    <3>2. (w - 1 - x) * c = w * c - c - x * c /\ x * c \in Nat
      BY <1>4, SMT
    <3>3. (2 * half) * c = 2 * (half * c)
      BY SMT
    <3>4. w * c = 2 * d
      BY <1>2, <1>6, <3>3
    <3> QED BY <1>1, <1>4, <2>1, <3>1, <3>2, <3>4
  <2>3. IsFloat(b, size)
    <3>1. PICK n \in 0..MAX_BITS : Exp2[n] = (W \div 2) * UNIT
      BY UnitPowers
    <3>2. PICK one \in Int : one = 1
      OBVIOUS
    <3>3. Exp2[n] = d
      BY <1>2, <1>3, <1>6, <3>1
    <3>4. a = one * Exp2[n] + b /\ b < Exp2[n]
      BY <1>1, <2>1, <2>2, <3>2, <3>3
    <3> QED BY <1>1, <3>4, CutFloat
  <2>4. Integer(b) = x - half
    <3>1. PICK y \in Int : y = x - half
      BY <1>4
    <3>2. (x - half) * c = x * c - half * c /\ x * c \in Nat
      BY <1>4, SMT
    <3>3. b = y * UNIT + f
      BY <1>3, <1>4, <1>6, <2>1, <3>1, <3>2
    <3> QED BY <3>1, <3>3, IntegerOf
  <2>5. Round(b, size) = b
    BY <2>3 DEF IsFloat
  <2>6. a >= (W \div 2) * UNIT /\ a - (W \div 2) * UNIT = b
    BY <1>2, <1>3, <1>6, <1>7, <2>1
  <2>7. x - half + W \div 2 = x
    BY <1>2, <1>4
  <2> QED BY <1>5, <2>4, <2>5, <2>6, <2>7, Zenon DEF fixunsfsi
<1>8. CASE ~(a >= d)
  <2>1. Integer(a) = x
    <3>1. x \in Int /\ a = x * UNIT + f
      BY <1>3, <1>4
    <3> QED BY <1>1, <3>1, IntegerOf
  <2>2. ~(a >= (W \div 2) * UNIT)
    BY <1>2, <1>3, <1>6, <1>8
  <2> QED BY <1>5, <2>1, <2>2, Zenon DEF fixunsfsi
<1> QED BY <1>7, <1>8

-----------------------------------------------------------------------------
(* The numbers up to the size of a double word are in range, and that size *)
(* is a number of every format.                                            *)
LEMMA DoubleWordRange ==
  /\ \A x \in -(W * W)..(W * W) : Within(x)
  /\ \A size \in Nat : size >= 1 => IsFloat(W * W, size) /\ IsFloat(-(W * W), size)
<1>1. PICK g \in Nat : g = W * W
  BY WordSize, SMT
<1>2. g = Exp2[DI_SIZE] /\ DI_SIZE \in 0..MAX_BITS /\ DI_SIZE + 1 \in 0..MAX_BITS
  BY <1>1, WordPowers
<1>3. MAX_BITS \in Nat /\ MAX_BITS \in 0..MAX_BITS
  BY Exp2Powers
<1>4. g >= 1 /\ g < Exp2[MAX_BITS] /\ Exp2[MAX_BITS] \in Nat
  <2>1. PICK n \in 0..MAX_BITS : n = DI_SIZE + 1
    BY <1>2
  <2>2. n \in 1..MAX_BITS /\ n - 1 = DI_SIZE
    BY <1>2, <2>1
  <2>3. Exp2[n] = 2 * g
    BY <1>2, <2>2, Exp2Next
  <2>4. Exp2[n] <= Exp2[MAX_BITS]
    BY <1>3, Exp2Multiple
  <2>5. g >= 1 /\ Exp2[MAX_BITS] \in Nat
    BY <1>2, <1>3, Exp2Positive
  <2> QED BY <2>3, <2>4, <2>5
<1>5. ASSUME NEW x \in -g..g PROVE Within(x)
  <2>1. Magn(x) <= g /\ Magn(x) \in Nat
    BY <1>1, MagnitudeOf
  <2> QED BY <1>4, <2>1 DEF Within
<1>6. ASSUME NEW size \in Nat, size >= 1 PROVE IsFloat(g, size) /\ IsFloat(-g, size)
  <2>1. PICK one \in Int : one = 1
    OBVIOUS
  <2>2. one \in -g..g
    BY <1>4, <2>1
  <2>3. Within(one) /\ Magn(one) = 1
    BY <1>5, <2>1, <2>2, MagnitudeOf
  <2>4. PICK n \in 0..MAX_BITS : n = 1
    <3>1. PICK d : d = DI_SIZE
      OBVIOUS
    <3>2. d \in Nat /\ d + 1 <= MAX_BITS
      BY <1>2, <1>3, <3>1
    <3> QED BY <1>3, <3>2
  <2>5. Exp2[n] = 2
    <3>1. n \in 1..MAX_BITS /\ n - 1 = 0
      BY <1>3, <2>4
    <3> QED BY <3>1, Exp2Next, Exp2Powers DEF PowersOfTwo
  <2>6. IsFloat(one, size)
    <3>1. Magn(one) < Exp2[n] /\ n <= size
      BY <1>6, <2>3, <2>4, <2>5
    <3> QED BY <2>3, <3>1, FewBitsFloat
  <2>7. g \in Int /\ g = one * Exp2[DI_SIZE] /\ g \in -g..g
    BY <1>2, <1>4, <2>1
  <2>8. IsFloat(g, size)
    <3>1. Within(g)
      BY <1>5, <2>7
    <3> QED BY <1>2, <2>6, <2>7, <3>1, ScaledFloat
  <2>9. Within(g) /\ Round(g, size) = g
    BY <2>8 DEF IsFloat
  <2>10. Within(-g) /\ Round(-g, size) = -g
    BY <2>9, RoundNegated
  <2> QED BY <2>8, <2>10 DEF IsFloat
<1> QED BY <1>1, <1>5, <1>6

(* A signed double word is below half of them in magnitude.                *)
LEMMA SignedRange ==
  ASSUME NEW x \in DWord
  PROVE  /\ Signed(x) \in Int /\ Within(Signed(x))
         /\ Signed(x) \in -(W * W)..(W * W) /\ Magn(Signed(x)) < Exp2[DI_SIZE]
<1>1. PICK w, half \in Nat : w = W /\ half = W \div 2 /\ w = 2 * half /\ half >= 1
  BY SignedWords
<1>2. PICK g, m \in Nat : g = w * w /\ m = w * half
  BY SMT
<1>3. g = 2 * m
  <2>1. w * (2 * half) = 2 * (w * half)
    BY SMT
  <2> QED BY <1>1, <1>2, <2>1
<1>4. m >= 1
  <2>1. w >= 1
    BY <1>1
  <2> QED BY <1>1, <1>2, <2>1, SMT
<1>5. x \in 0..(g - 1)
  BY <1>1, <1>2 DEF DWord
<1>6. Signed(x) = IF x >= m THEN x - g ELSE x
  BY <1>1, <1>2, SignedValue
<1>7. PICK y \in Int : y = Signed(x)
  BY <1>5, <1>6
<1>8. y \in -m..(m - 1)
  BY <1>3, <1>5, <1>6, <1>7
<1>9. Magn(y) < g
  BY <1>3, <1>4, <1>8, MagnitudeOf
<1>10. y \in -g..g
  BY <1>3, <1>8
<1>11. Exp2[DI_SIZE] = g
  BY <1>1, <1>2, WordPowers
<1>12. Within(y)
  BY <1>1, <1>2, <1>10, DoubleWordRange
<1> QED BY <1>1, <1>2, <1>7, <1>9, <1>10, <1>11, <1>12

(* The words of a double word are put together exactly; only the addition  *)
(* of the low one rounds.                                                  *)
LEMMA FloatedOnce ==
  ASSUME NEW x \in DWord, NEW size \in Nat, size >= SI_TYPE_SIZE
  PROVE  floatdi(x, size) = Round(Signed(x), size)
<1>1. PICK w, half \in Nat : w = W /\ half = W \div 2 /\ w = 2 * half /\ half >= 1
  BY SignedWords
<1>2. PICK h \in Int : h = SignedWord(High(x))
  BY SignedPair
<1>3. h \in -half..(half - 1) /\ Signed(x) = h * w + Low(x)
  BY <1>1, <1>2, SignedPair
<1>4. PICK b \in Nat : b = B /\ w = b * b /\ b >= 2
  BY <1>1, WordSize
<1>5. PICK i \in Int : i = h * b
  BY SMT
<1>6. PICK j \in Int : j = i * b
  BY SMT
<1>7. j = h * w
  <2>1. (h * b) * b = h * (b * b)
    BY SMT
  <2> QED BY <1>4, <1>5, <1>6, <2>1
<1>8. PICK g \in Nat : g = w * w
  BY SMT
<1>9. w >= b /\ g >= w
  <2>1. b * b >= b
    BY <1>4, SMT
  <2>2. w >= 1
    BY <1>1
  <2>3. w * w >= w
    BY <2>2, SMT
  <2> QED BY <1>4, <1>8, <2>1, <2>3
<1>10. ASSUME NEW c \in Nat, c <= w PROVE h * c \in Int /\ h * c \in -g..g
  <2>1. h + w >= 0 /\ w - h >= 0
    BY <1>1, <1>3
  <2>2. (h + w) * c >= 0 /\ (w - h) * c >= 0
    BY <2>1, SMT
  <2>3. (h + w) * c = h * c + w * c /\ (w - h) * c = w * c - h * c
        /\ h * c \in Int /\ w * c \in Nat
    BY SMT
  <2>4. w * c <= w * w
    BY <1>10, SMT
  <2> QED BY <1>8, <2>2, <2>3, <2>4
<1>11. Within(h) /\ Within(i) /\ Within(j)
  <2>1. i \in -g..g
    BY <1>5, <1>9, <1>10
  <2>2. j \in -g..g
    BY <1>7, <1>10
  <2>3. h \in -g..g
    BY <1>1, <1>3, <1>9
  <2>4. \A y \in -g..g : Within(y)
    BY <1>1, <1>8, DoubleWordRange
  <2> QED BY <2>1, <2>2, <2>3, <2>4
<1>12. IsFloat(h, size)
  <2>1. Magn(h) < w
    BY <1>1, <1>3, MagnitudeOf
  <2>2. SI_TYPE_SIZE \in 0..MAX_BITS /\ w = Exp2[SI_TYPE_SIZE]
    BY <1>1, WordPowers
  <2>3. Magn(h) < Exp2[SI_TYPE_SIZE]
    BY <2>1, <2>2
  <2> QED BY <1>11, <2>2, <2>3, FewBitsFloat
<1>13. PICK n \in 0..MAX_BITS : b = Exp2[n]
  BY <1>4, WordPowers
<1>14. IsFloat(i, size)
  <2>1. i = h * Exp2[n]
    BY <1>5, <1>13
  <2> QED BY <1>11, <1>12, <2>1, ScaledFloat
<1>15. IsFloat(j, size)
  <2>1. j = i * Exp2[n]
    BY <1>6, <1>13
  <2> QED BY <1>11, <1>14, <2>1, ScaledFloat
<1>16. Round(h, size) = h /\ Round(i, size) = i /\ Round(j, size) = j
  BY <1>12, <1>14, <1>15 DEF IsFloat
<1>17. Round(Round(Round(SignedWord(High(x)), size) * B, size) * B, size) = j
  BY <1>2, <1>4, <1>5, <1>6, <1>16, Zenon
<1>18. j + Low(x) = Signed(x)
  BY <1>3, <1>7
<1> QED BY <1>17, <1>18, Zenon DEF floatdi

(* A long double holds a double word. *)
LEMMA FloatedExactly ==
  ASSUME NEW x \in DWord, NEW size \in Nat, size >= DI_SIZE
  PROVE  floatdi(x, size) = Signed(x)
<1>1. PICK y : y = Signed(x)
  OBVIOUS
<1>2. Within(y) /\ Magn(y) < Exp2[DI_SIZE]
  BY <1>1, SignedRange
<1>3. DI_SIZE \in 0..MAX_BITS /\ size >= SI_TYPE_SIZE
  <2>1. SI_TYPE_SIZE \in Nat
    BY WordAssumption
  <2>2. DI_SIZE \in 0..MAX_BITS
    BY WordPowers
  <2> QED BY <2>1, <2>2 DEF DI_SIZE
<1>4. IsFloat(y, size)
  BY <1>2, <1>3, FewBitsFloat
<1>5. floatdi(x, size) = Round(Signed(x), size)
  BY <1>3, FloatedOnce
<1> QED BY <1>1, <1>4, <1>5 DEF IsFloat

-----------------------------------------------------------------------------
(* When __floatdisf cares for bits that a double might lose.               *)
Guard == DFBits < DI_SIZE /\ DFBits > DI_SIZE - DFBits + SFBits

(* Twice REP_BIT divides a word, the numbers a double holds exactly, and   *)
(* every float that is larger.                                             *)
LEMMA RepresentingBit ==
  ASSUME Guard
  PROVE  \E R, T, m, g \in Nat :
           /\ R = REP_BIT /\ T = 2 * R /\ R >= 1
           /\ W = m * T /\ Exp2[DFBits] = g * T
           /\ \A y : IsFloat(y, SFBits) /\ Magn(y) >= Exp2[DFBits] => \E k \in Int : y = k * T
<1>1. PICK s, d, M, b, f : s = SI_TYPE_SIZE /\ d = DI_SIZE /\ M = MAX_BITS
                          /\ b = DFBits /\ f = SFBits
  OBVIOUS
<1>2. /\ s \in Nat /\ s >= 2 /\ d = 2 * s /\ M \in Nat /\ d <= M
      /\ b \in Nat /\ b >= s /\ b <= M /\ f \in Nat /\ f >= 1
      /\ b < d /\ b > d - b + f
  <2>1. s \in Nat /\ s >= 2 /\ d = 2 * s /\ M \in Nat /\ d <= M
    BY <1>1, WordPowers, WordAssumption, FloatAssumption DEF DI_SIZE
  <2>2. b \in s..M /\ f \in 1..b
    BY <1>1, FloatAssumption
  <2>3. b < d /\ b > d - b + f
    BY <1>1 DEF Guard
  <2> QED BY <2>1, <2>2, <2>3
<1>3. PICK r \in Nat : r = d - b
  <2>1. PICK i, j \in Int : i = d /\ j = b /\ j < i
    BY <1>2
  <2>2. i - j \in Nat /\ i - j = d - b
    BY <2>1
  <2> QED BY <2>2
<1>4. PICK n \in 0..MAX_BITS : n = r + 1
  BY <1>1, <1>2, <1>3
<1>5. n \in 1..MAX_BITS /\ n - 1 = r /\ r \in 0..MAX_BITS
  BY <1>1, <1>2, <1>3, <1>4
<1>6. PICK R, T \in Nat : R = Exp2[r] /\ T = Exp2[n] /\ R >= 1
  BY <1>5, Exp2Positive
<1>7. T = 2 * R
  BY <1>5, <1>6, Exp2Next
<1>8. R = REP_BIT
  BY <1>1, <1>3, <1>6 DEF REP_BIT
<1>9. s \in 0..MAX_BITS /\ n \in 0..s
  BY <1>1, <1>2, <1>3, <1>4
<1>10. PICK m \in Nat : m = Exp2[s - n]
  BY <1>9, Exp2Multiple, Exp2Positive
<1>11. W = m * T
  <2>1. Exp2[s] = Exp2[s - n] * Exp2[n]
    BY <1>9, Exp2Multiple
  <2> QED BY <1>1, <1>6, <1>10, <2>1, WordPowers
<1>12. b \in 0..MAX_BITS /\ n \in 0..b
  BY <1>1, <1>2, <1>3, <1>4
<1>13. PICK g \in Nat : g = Exp2[b - n]
  BY <1>12, Exp2Multiple, Exp2Positive
<1>14. Exp2[b] = g * T
  BY <1>6, <1>12, <1>13, Exp2Multiple
<1>15. ASSUME NEW y, IsFloat(y, SFBits), Magn(y) >= Exp2[DFBits]
       PROVE  \E k \in Int : y = k * T
  <2>1. Within(y)
    BY <1>15 DEF IsFloat
  <2>2. PICK c : c = Bits(y)
    OBVIOUS
  <2>3. c \in 0..MAX_BITS /\ Magn(y) < Exp2[c]
    BY <2>1, <2>2, BitsOf
  <2>4. c > b
    <3>1. SUFFICES ASSUME c <= b PROVE FALSE
      BY <1>12, <2>3, <1>1, <1>2
    <3>2. c \in 0..b
      BY <2>3, <3>1
    <3>3. Exp2[c] <= Exp2[b]
      BY <1>12, <3>2, Exp2Multiple
    <3>4. Exp2[c] \in Nat /\ Exp2[b] \in Nat /\ Magn(y) \in Nat
      BY <1>12, <2>1, <2>3, Exp2Positive, MagnitudeOf DEF Within
    <3> QED BY <1>1, <1>15, <2>3, <3>3, <3>4
  <2>5. PICK e \in 0..MAX_BITS :
          /\ Ulp(y, SFBits) = Exp2[e] /\ e <= Bits(y)
          /\ Bits(y) <= SFBits => e = 0
          /\ Bits(y) > SFBits => e = Bits(y) - SFBits
    <3>1. f \in Nat
      BY <1>2
    <3> QED BY <1>1, <2>1, <3>1, UlpOf
  <2>6. e = c - f /\ n \in 0..e
    <3>1. c > f
      BY <1>2, <2>3, <2>4, <1>1
    <3>2. e = c - f
      BY <1>1, <2>2, <2>5, <3>1
    <3> QED BY <1>1, <1>2, <1>3, <1>4, <2>3, <2>4, <3>2
  <2>7. PICK k \in Int : y = k * Exp2[e]
    <3>1. f \in Nat
      BY <1>2
    <3>2. \E k \in Int : y = k * Ulp(y, f)
      BY <1>1, <1>15, <2>1, <3>1, FloatMultiple
    <3> QED BY <1>1, <2>5, <3>2
  <2>8. PICK i \in Int : k * Exp2[e] = i * Exp2[n]
    BY <2>6, SmallerMultiple
  <2> QED BY <1>6, <2>7, <2>8
<1> QED BY <1>1, <1>6, <1>7, <1>8, <1>11, <1>14, <1>15

(* The argument of the double that is rounded again. *)
Represented(x) ==
  IF Low(x) % REP_BIT # 0 /\ (x \div REP_BIT) % 2 = 0 THEN x + REP_BIT ELSE x

(* Setting REP_BIT wherever bits below it are set, and it is not, gives a  *)
(* signed number that is larger by it, with no float in between.           *)
LEMMA RepresentedValue ==
  ASSUME NEW x \in DWord, Guard,
         ~(-Exp2[DFBits] < Signed(x) /\ Signed(x) < Exp2[DFBits])
  PROVE  /\ Represented(x) \in DWord /\ Signed(x) <= Signed(Represented(x))
         /\ \A y : IsFloat(y, SFBits) /\ Signed(x) <= y => Signed(Represented(x)) <= y
<1>1. PICK R, T, m, g \in Nat :
           /\ R = REP_BIT /\ T = 2 * R /\ R >= 1
           /\ W = m * T /\ Exp2[DFBits] = g * T
           /\ \A y : IsFloat(y, SFBits) /\ Magn(y) >= Exp2[DFBits] => \E k \in Int : y = k * T
  BY RepresentingBit
<1>2. R = REP_BIT /\ T = 2 * R /\ R >= 1 /\ W = m * T /\ Exp2[DFBits] = g * T
  BY <1>1, Zenon
<1>3. ASSUME NEW y, IsFloat(y, SFBits), Magn(y) >= Exp2[DFBits] PROVE \E k \in Int : y = k * T
  BY <1>1, <1>3, Zenon
<1>4. PICK S \in Int : S = Signed(x)
  BY SignedRange
<1>5. CASE ~(Low(x) % R # 0 /\ (x \div R) % 2 = 0)
  <2>1. Represented(x) = x
    BY <1>2, <1>5, Zenon DEF Represented
  <2> QED BY <1>4, <2>1
<1>6. CASE Low(x) % R # 0 /\ (x \div R) % 2 = 0
  <2>1. PICK z : z = x + R
    OBVIOUS
  <2>2. Represented(x) = z
    BY <1>2, <1>6, <2>1, Zenon DEF Represented
  <2>3. PICK w, half \in Nat : w = W /\ half = W \div 2 /\ w = 2 * half /\ half >= 1
    BY SignedWords
  <2>4. PICK h, l \in Nat : h = High(x) /\ l = Low(x) /\ x = h * w + l /\ l < w
    BY <2>3, WordsOf DEF Word
  <2>5. x \in Nat
    BY WordsOf
  <2>6. PICK q, j \in Nat : q = x \div R /\ j = x % R /\ x = R * q + j /\ j < R
    <3>1. PICK q, j : q = x \div R /\ j = x % R
      OBVIOUS
    <3>2. x = R * q + j /\ q \in Nat /\ j \in 0..(R - 1)
      BY <1>2, <2>5, <3>1, SMT
    <3> QED BY <3>1, <3>2
  <2>7. PICK i \in Nat : q = 2 * i
    <3>1. q % 2 = 0
      BY <1>6, <2>6
    <3>2. PICK i : i = q \div 2
      OBVIOUS
    <3>3. q = 2 * i /\ i \in Int
      BY <3>1, <3>2
    <3>4. i \in Nat
      BY <3>3
    <3> QED BY <3>3, <3>4
  <2>8. PICK p \in Nat : p = T * i
    BY SMT
  <2>9. x = p + j
    <3>1. R * (2 * i) = (2 * R) * i
      BY SMT
    <3> QED BY <1>2, <2>6, <2>7, <2>8, <3>1
  <2>10. j # 0
    <3>1. PICK o \in Int : o = q - h * (m * 2)
      BY SMT
    <3>2. R * (q - h * (m * 2)) = R * q - h * (m * (2 * R)) /\ R * q \in Nat
      BY SMT
    <3>3. h * (m * (2 * R)) = h * w
      BY <1>2, <2>3
    <3>4. h * w \in Nat
      BY SMT
    <3>5. l = R * o + j
      <4>1. R * o = R * q - h * w
        BY <3>1, <3>2, <3>3
      <4>2. PICK A, D \in Nat : A = R * q /\ D = h * w
        BY <3>2, <3>4
      <4>3. x = A + j /\ x = D + l /\ R * o = A - D
        BY <2>4, <2>6, <4>1, <4>2
      <4> QED BY <4>3
    <3>6. l % R = j
      <4>1. R \in Nat \ {0} /\ j \in 0..(R - 1) /\ l \in Int
        BY <1>2, <2>6
      <4> QED BY <3>5, <4>1, Remainder
    <3> QED BY <1>6, <2>4, <3>6
  <2>11. PICK a \in Nat : a = half * m
    BY SMT
  <2>12. PICK c \in Nat : c = w * half /\ c = T * a /\ w * w = 2 * c
    <3>1. (m * T) * half = T * (half * m) /\ (m * T) * half \in Nat
      BY SMT
    <3>2. w * (2 * half) = 2 * (w * half)
      BY SMT
    <3> QED BY <1>2, <2>3, <2>11, <3>1, <3>2
  <2>13. x < 2 * c
    BY <2>3, <2>12 DEF DWord
  <2>14. T \in Nat \ {0}
    BY <1>2
  <2>15. ASSUME NEW n \in Int, x < T * n PROVE z < T * n
    <3>1. i < n
      <4>1. SUFFICES ASSUME n <= i PROVE FALSE
        OBVIOUS
      <4>2. T * (i - n) >= 0
        BY <2>14, <4>1, SMT
      <4>3. T * (i - n) = T * i - T * n /\ T * n \in Int
        BY SMT
      <4> QED BY <2>5, <2>8, <2>9, <2>15, <4>2, <4>3
    <3>2. T * (n - 1 - i) >= 0
      BY <2>14, <3>1, SMT
    <3>3. T * (n - 1 - i) = T * n - T - T * i /\ T * n \in Int
      BY SMT
    <3> QED BY <1>2, <2>1, <2>6, <2>8, <2>9, <3>2, <3>3
  <2>16. z \in DWord
    <3>1. T * (2 * a) = 2 * (T * a)
      BY SMT
    <3>2. z < T * (2 * a)
      <4>1. PICK n \in Int : n = 2 * a
        OBVIOUS
      <4>2. x < T * n
        BY <2>12, <2>13, <3>1, <4>1
      <4> QED BY <2>15, <4>1, <4>2
    <3>3. z \in Nat /\ z < w * w
      BY <2>1, <2>5, <2>12, <3>1, <3>2
    <3> QED BY <2>3, <3>3 DEF DWord
  <2>17. x >= c <=> z >= c
    <3>1. x < c => z < c
      BY <2>12, <2>15
    <3> QED BY <2>1, <2>5, <3>1
  <2>18. S = (IF x >= c THEN x - 2 * c ELSE x) /\ Signed(z) = IF z >= c THEN z - 2 * c ELSE z
    BY <1>4, <2>3, <2>12, <2>16, SignedValue
  <2>19. Signed(z) = S + R
    BY <2>1, <2>5, <2>17, <2>18
  <2>20. PICK k \in Int : S = k * T + j
    <3>1. PICK k \in Int : k = i - 2 * a
      OBVIOUS
    <3>2. (i - 2 * a) * T = T * i - 2 * (T * a) /\ i * T = T * i
      BY SMT
    <3>3. CASE x >= c
      <4>1. S = p + j - 2 * c
        BY <2>5, <2>9, <2>18, <3>3
      <4>2. k * T = p - 2 * c
        BY <2>8, <2>12, <3>1, <3>2
      <4> QED BY <4>1, <4>2
    <3>4. CASE ~(x >= c)
      <4>1. S = i * T + j
        BY <2>8, <2>9, <2>18, <3>2, <3>4
      <4> QED BY <4>1
    <3> QED BY <3>3, <3>4
  <2>21. ASSUME NEW y, IsFloat(y, SFBits), S <= y PROVE S + R <= y
    <3>1. y \in Int
      BY <2>21 DEF IsFloat, Within
    <3>2. ASSUME NEW n \in Int, n * T > k * T PROVE n * T >= k * T + T
      BY <2>14, <3>2, WholeSteps
    <3>3. PICK low \in Int : low = k * T
      BY SMT
    <3>4. CASE Magn(y) >= Exp2[DFBits]
      <4>1. PICK n \in Int : y = n * T
        BY <1>3, <2>21, <3>4
      <4>2. y > low
        BY <2>10, <2>20, <2>21, <3>1, <3>3
      <4>3. y >= low + T
        BY <3>2, <3>3, <4>1, <4>2
      <4> QED BY <1>2, <2>6, <2>20, <3>1, <3>3, <4>3
    <3>5. CASE ~(Magn(y) >= Exp2[DFBits])
      <4>1. PICK e \in Nat : e = g * T
        BY SMT
      <4>2. ~(-e < S /\ S < e)
        BY <1>2, <1>4, <4>1
      <4>3. -e < y /\ y < e
        BY <1>2, <3>1, <3>5, <4>1, MagnitudeOf
      <4>4. S <= -e
        BY <2>21, <3>1, <4>2, <4>3
      <4>5. PICK n \in Int : n = -g
        OBVIOUS
      <4>6. n * T = -e
        <5>1. (-g) * T = -(g * T)
          BY SMT
        <5> QED BY <4>1, <4>5, <5>1
      <4>7. n * T > k * T
        BY <2>10, <2>20, <3>3, <4>4, <4>6
      <4>8. -e >= low + T
        BY <3>2, <3>3, <4>6, <4>7
      <4> QED BY <1>2, <2>6, <2>20, <3>1, <3>3, <4>3, <4>8
    <3> QED BY <3>4, <3>5
  <2> QED BY <1>2, <1>4, <2>2, <2>16, <2>19, <2>21
<1> QED BY <1>2, <1>5, <1>6, Zenon

(* __floatdisf rounds to a double and then to a float: if the double holds *)
(* the number it is the nearest float, and in any case a neighbour.        *)
LEMMA FloatedTwice ==
  ASSUME NEW x \in DWord
  PROVE  /\ Magn(Signed(x)) < Exp2[DFBits] => floatdisf(x) = Round(Signed(x), SFBits)
         /\ \A y : IsFloat(y, SFBits) =>
              /\ y <= Signed(x) => y <= floatdisf(x)
              /\ Signed(x) <= y => floatdisf(x) <= y
<1>1. PICK b, f \in Nat : b = DFBits /\ f = SFBits /\ b >= f /\ f >= 1 /\ b >= 1
                          /\ b >= SI_TYPE_SIZE /\ b \in 0..MAX_BITS
  <2>1. PICK s, M : s = SI_TYPE_SIZE /\ M = MAX_BITS
    OBVIOUS
  <2>2. s \in Nat /\ M \in Nat /\ DFBits \in s..M /\ SFBits \in 1..DFBits
    BY <2>1, WordAssumption, FloatAssumption
  <2> QED BY <2>1, <2>2
<1>2. PICK S \in Int : S = Signed(x) /\ Within(S) /\ Magn(S) \in Nat
  BY SignedRange, MagnitudeOf
<1>3. PICK large \in BOOLEAN :
        large <=> ~(-Exp2[DFBits] < Signed(x) /\ Signed(x) < Exp2[DFBits])
  OBVIOUS
<1>4. PICK z : z = IF Guard /\ large THEN Represented(x) ELSE x
  OBVIOUS
<1>5. floatdisf(x) = Round(floatdidf(z), SFBits)
  BY <1>3, <1>4, Zenon DEF floatdisf, Guard, Represented
<1>6. /\ z \in DWord /\ S <= Signed(z)
      /\ \A y : IsFloat(y, SFBits) /\ S <= y => Signed(z) <= y
  <2>1. CASE Guard /\ large
    BY <1>2, <1>3, <1>4, <2>1, RepresentedValue, Zenon
  <2>2. CASE ~(Guard /\ large)
    <3>1. z = x
      BY <1>4, <2>2, Zenon
    <3> QED BY <1>2, <3>1
  <2> QED BY <2>1, <2>2
<1>7. floatdidf(z) = Round(Signed(z), b)
  BY <1>1, <1>6, FloatedOnce DEF floatdidf
<1>8. PICK Z \in Int : Z = Signed(z) /\ Within(Z) /\ Z \in -(W * W)..(W * W)
  BY <1>6, SignedRange
<1>9. PICK d : d = Round(Z, b)
  OBVIOUS
<1>10. floatdisf(x) = Round(d, f)
  BY <1>1, <1>5, <1>7, <1>8, <1>9, Zenon
<1>11. ASSUME NEW y, IsFloat(y, b)
       PROVE  d \in Int /\ (y <= Z => y <= d) /\ (Z <= y => d <= y)
  BY <1>1, <1>8, <1>9, <1>11, RoundKeepsOrder
<1>12. d \in Int /\ Within(d)
  <2>1. PICK g \in Nat : g = W * W
    BY WordSize, SMT
  <2>2. IsFloat(g, b) /\ IsFloat(-g, b)
    BY <1>1, <2>1, DoubleWordRange
  <2>3. Z \in -g..g
    BY <1>8, <2>1
  <2>4. d \in Int /\ (Z <= g => d <= g)
    BY <1>11, <2>2
  <2>5. -g <= Z => -g <= d
    BY <1>11, <2>2
  <2>6. d \in -g..g
    BY <2>3, <2>4, <2>5
  <2> QED BY <2>1, <2>4, <2>6, DoubleWordRange
<1>13. ASSUME Magn(Signed(x)) < Exp2[DFBits]
       PROVE  floatdisf(x) = Round(Signed(x), SFBits)
  <2>1. PICK e \in Nat : e = Exp2[b]
    BY <1>1, Exp2Positive
  <2>2. Magn(S) < e
    BY <1>1, <1>2, <1>13, <2>1
  <2>3. -e < S /\ S < e
    BY <2>2, MagnitudeOf
  <2>4. ~large
    BY <1>1, <1>2, <1>3, <2>1, <2>3
  <2>5. z = x
    BY <1>4, <2>4, Zenon
  <2>6. IsFloat(S, b)
    BY <1>1, <1>2, <2>1, <2>2, FewBitsFloat
  <2>7. d = S
    BY <1>2, <1>8, <1>9, <2>5, <2>6 DEF IsFloat
  <2> QED BY <1>1, <1>2, <1>10, <2>7
<1>14. ASSUME NEW y, IsFloat(y, SFBits)
       PROVE  (y <= S => y <= floatdisf(x)) /\ (S <= y => floatdisf(x) <= y)
  <2>1. y \in Int
    BY <1>14 DEF IsFloat, Within
  <2>2. IsFloat(y, f) /\ IsFloat(y, b)
    BY <1>1, <1>14, MoreBits
  <2>3. (y <= Z => y <= d) /\ (Z <= y => d <= y)
    BY <1>11, <2>2
  <2>4. Round(d, f) \in Int /\ (y <= d => y <= Round(d, f)) /\ (d <= y => Round(d, f) <= y)
    BY <1>1, <1>12, <2>2, RoundKeepsOrder
  <2>5. S <= Z /\ (S <= y => Z <= y)
    BY <1>6, <1>8, <1>14
  <2>6. y <= S => y <= Z
    BY <2>1, <2>5
  <2> QED BY <1>10, <2>3, <2>4, <2>5, <2>6, Zenon
<1> QED BY <1>2, <1>13, <1>14, Zenon

(* libgcc2.c 814-1282: for words and formats of every size that nest as    *)
(* those of the code do, a floating point number becomes the integer next  *)
(* to it towards zero if the type has it, a double word is rounded once to *)
(* a double and not at all to a long double, and __floatdisf finds a       *)
(* neighbour among the floats.                                             *)
THEOREM ConversionsRound == EveryPair => []Conversions
<1>1. Operands => Conversions
  <2> SUFFICES ASSUME Operands PROVE Conversions
    OBVIOUS
  <2>1. PICK x \in DWord : x = u
    BY DEF Operands
  <2>2. PICK fs, fd, fx, ft \in Nat : /\ fs = SFBits /\ fd = DFBits /\ fx = XFBits /\ ft = TFBits
                                     /\ fs <= fd /\ fd >= SI_TYPE_SIZE
                                     /\ fx >= DI_SIZE /\ ft >= DI_SIZE
    <3>1. PICK s, M : s = SI_TYPE_SIZE /\ M = MAX_BITS
      OBVIOUS
    <3>2. s \in Nat /\ M \in Nat /\ DFBits \in s..M /\ SFBits \in 1..DFBits
      BY <3>1, WordAssumption, FloatAssumption
    <3>3. XFBits \in Nat /\ XFBits >= DI_SIZE /\ TFBits \in Nat /\ TFBits >= DI_SIZE
      BY FloatAssumption
    <3> QED BY <3>1, <3>2, <3>3
  <2>3. ASSUME NEW size \in Nat, NEW a \in Floats(size)
        PROVE  \E f \in 0..(UNIT - 1) : StandsFor(a, x, f) /\ IsFloat(a, size)
    <3>1. PICK f : f = v
      OBVIOUS
    <3>2. a = x * UNIT + f /\ f < UNIT /\ Round(a, size) = a
      BY <2>1, <2>3, <3>1 DEF Floats
    <3>3. f \in 0..(UNIT - 1)
      <4>1. f \in DWord /\ W * W \in Int
        BY <3>1, WordSize, SMT DEF Operands
      <4>2. PICK c \in Nat : c = UNIT
        BY UnitPowers
      <4> QED BY <3>2, <4>1, <4>2 DEF DWord
    <3>4. StandsFor(a, x, f)
      BY <3>2, <3>3 DEF StandsFor
    <3>5. Within(a)
      BY <3>3, <3>4, PartsOf, Zenon
    <3> QED BY <3>2, <3>3, <3>4, <3>5 DEF IsFloat
  <2>4. ASSUME NEW few \in Nat, NEW size \in Nat, few <= size, NEW a \in Floats(few)
        PROVE  /\ fixunsdi(a, size) = u
               /\ u < W * (W \div 2) =>
                    Signed(FixSigned(a, size)) = u /\ Signed(FixSigned(-a, size)) = -u
               /\ u < W => fixunsfsi(a, few) = u
    <3>1. PICK f \in 0..(UNIT - 1) : StandsFor(a, x, f) /\ IsFloat(a, few)
      BY <2>3
    <3>2. IsFloat(a, size)
      BY <2>4, <3>1, MoreBits
    <3>3. fixunsdi(a, size) = x
      BY <3>1, <3>2, FloatFixed
    <3>4. x < W * (W \div 2) =>
            Signed(FixSigned(a, size)) = x /\ Signed(FixSigned(-a, size)) = -x
      BY <3>1, <3>2, FloatFixedSigned
    <3>5. x < W => fixunsfsi(a, few) = x
      BY <3>1, FloatFixedWord
    <3> QED BY <2>1, <3>3, <3>4, <3>5, Zenon
  <2>5. Converts(SFBits, fixunssfdi, fixsfdi) /\ ConvertsWord(SFBits, fixunssfsi)
    <3>1. \A a \in Floats(fs) :
            /\ fixunsdi(a, fd) = u
            /\ u < W * (W \div 2) =>
                 Signed(FixSigned(a, fd)) = u /\ Signed(FixSigned(-a, fd)) = -u
            /\ u < W => fixunsfsi(a, fs) = u
      BY <2>2, <2>4, Zenon
    <3> QED BY <2>2, <3>1, Zenon DEF Converts, ConvertsWord, fixunssfdi, fixsfdi, fixunssfsi,
                                    fixunsdfdi, FixSigned
  <2>6. ASSUME NEW size \in Nat
        PROVE  \A a \in Floats(size) :
                 /\ fixunsdi(a, size) = u
                 /\ u < W * (W \div 2) =>
                      Signed(FixSigned(a, size)) = u /\ Signed(FixSigned(-a, size)) = -u
                 /\ u < W => fixunsfsi(a, size) = u
    <3>1. size <= size
      OBVIOUS
    <3> QED BY <2>4, <3>1, Zenon
  <2>7. Converts(DFBits, fixunsdfdi, fixdfdi) /\ ConvertsWord(DFBits, fixunsdfsi)
    BY <2>2, <2>6, Zenon DEF Converts, ConvertsWord, fixunsdfdi, fixdfdi, fixunsdfsi, FixSigned
  <2>8. Converts(XFBits, fixunsxfdi, fixxfdi) /\ ConvertsWord(XFBits, fixunsxfsi)
    BY <2>2, <2>6, Zenon DEF Converts, ConvertsWord, fixunsxfdi, fixxfdi, fixunsxfsi, FixSigned
  <2>9. Converts(TFBits, fixunstfdi, fixtfdi)
    BY <2>2, <2>6, Zenon DEF Converts, fixunstfdi, fixtfdi, FixSigned
  <2>10. floatdidf(u) = Round(Signed(u), DFBits)
    BY <2>1, <2>2, FloatedOnce DEF floatdidf
  <2>11. floatdixf(u) = Signed(u) /\ floatditf(u) = Signed(u)
    BY <2>1, <2>2, FloatedExactly DEF floatdixf, floatditf
  <2>12. Magn(Signed(u)) < Exp2[DFBits] => floatdisf(u) = Round(Signed(u), SFBits)
    BY <2>1, FloatedTwice, Zenon
  <2>13. ASSUME NEW x0 \in -(W * W)..(W * W), Round(x0, SFBits) = x0
         PROVE  (x0 <= Signed(u) => x0 <= floatdisf(u)) /\ (x0 >= Signed(u) => x0 >= floatdisf(u))
    <3>1. IsFloat(x0, SFBits)
      BY <2>13, DoubleWordRange DEF IsFloat
    <3>2. (x0 <= Signed(u) => x0 <= floatdisf(u)) /\ (Signed(u) <= x0 => floatdisf(u) <= x0)
      BY <2>1, <3>1, FloatedTwice, Zenon
    <3> QED BY <3>2
  <2> QED BY <2>5, <2>7, <2>8, <2>9, <2>10, <2>11, <2>12, <2>13, Zenon DEF Conversions
<1> QED BY <1>1, OperandsTyped, PTL

=============================================================================
