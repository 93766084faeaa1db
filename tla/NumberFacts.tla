---------------------------- MODULE NumberFacts -----------------------------
(***************************************************************************)
(* Facts about numbers that several components need: induction, what       *)
(* becomes of counters that wrap around, and powers of two.                *)
(***************************************************************************)
EXTENDS Integers, WellFoundedInduction, TLAPS

(* Induction over the natural numbers, of a property given as the set of   *)
(* the numbers that have it: a least number outside S would be neither 0   *)
(* nor a successor.                                                        *)
LEMMA SetInduction ==
  ASSUME NEW S, 0 \in S, \A n \in Nat : n \in S => n + 1 \in S
  PROVE  \A n \in Nat : n \in S
<1> DEFINE T == {n \in Nat : n \notin S}
<1>1. SUFFICES ASSUME T # {} PROVE FALSE
  OBVIOUS
<1>2. PICK x \in T : \A y \in T : <<y, x>> \notin OpToRel(<, Nat)
  <2> HIDE DEF T
  <2>1. IsWellFoundedOn(OpToRel(<, Nat), Nat)
    BY NatLessThanWellFounded
  <2>2. T \subseteq Nat
    BY DEF T
  <2> QED BY <1>1, <2>1, <2>2, WFMin
<1>3. x \in Nat /\ x \notin S
  OBVIOUS
<1>4. x # 0
  BY <1>3
<1>5. x - 1 \in Nat /\ (x - 1) + 1 = x /\ x - 1 < x
  BY <1>3, <1>4
<1>6. x - 1 \notin S
  BY <1>3, <1>5
<1>7. <<x - 1, x>> \in OpToRel(<, Nat)
  BY <1>3, <1>5 DEF OpToRel
<1> QED BY <1>2, <1>5, <1>6, <1>7

(* Every set of natural numbers that is not empty has a least one. *)
LEMMA LeastNumber ==
  ASSUME NEW T, T \subseteq Nat, T # {}
  PROVE  \E x \in T : \A y \in T : x <= y
<1>1. PICK x \in T : \A y \in T : <<y, x>> \notin OpToRel(<, Nat)
  <2>1. IsWellFoundedOn(OpToRel(<, Nat), Nat)
    BY NatLessThanWellFounded
  <2> QED BY <2>1, WFMin
<1>2. ASSUME NEW y \in T PROVE x <= y
  <2>1. x \in Nat /\ y \in Nat
    OBVIOUS
  <2>2. ~(y < x)
    <3>1. y < x => <<y, x>> \in OpToRel(<, Nat)
      BY <2>1 DEF OpToRel
    <3>2. <<y, x>> \notin OpToRel(<, Nat)
      BY <1>1
    <3> QED BY <3>1, <3>2, Zenon
  <2> QED BY <2>1, <2>2
<1> QED BY <1>2

(* Induction over an interval. *)
LEMMA IntervalInduction ==
  ASSUME NEW N \in Nat, NEW S, 0 \in S, \A n \in 0..(N - 1) : n \in S => n + 1 \in S
  PROVE  \A n \in 0..N : n \in S
<1> DEFINE T == {n \in Nat : n <= N => n \in S}
<1>1. 0 \in T
  OBVIOUS
<1>2. ASSUME NEW n \in Nat, n \in T PROVE n + 1 \in T
  <2>1. CASE n + 1 <= N
    <3>1. n \in 0..(N - 1) /\ n \in S
      BY <1>2, <2>1
    <3> QED BY <3>1
  <2>2. CASE ~(n + 1 <= N)
    BY <2>2
  <2> QED BY <2>1, <2>2
<1>3. \A n \in Nat : n \in T
  <2> HIDE DEF T
  <2> QED BY <1>1, <1>2, SetInduction
<1> QED BY <1>3

(* f is defined by recursion over 0..N, with values in X. *)
IsRecursive(f, N, X, base, step) ==
  /\ f \in [0..N -> X]
  /\ \A n \in 0..N : f[n] = IF n = 0 THEN base ELSE step[n][f[n - 1]]

(* A function defined by recursion over an interval exists. *)
LEMMA IntervalRecursion ==
  ASSUME NEW N \in Nat, NEW X, NEW base \in X, NEW step \in [1..N -> [X -> X]]
  PROVE  \E f : IsRecursive(f, N, X, base, step)
<1> DEFINE Solves(f, m) ==
             \A n \in 0..m : f[n] = IF n = 0 THEN base ELSE step[n][f[n - 1]]
           S == {m \in Nat : m <= N => \E f \in [0..m -> X] : Solves(f, m)}
<1>1. 0 \in S
  <2> DEFINE f == [n \in 0..0 |-> base]
  <2>1. f \in [0..0 -> X] /\ Solves(f, 0)
    OBVIOUS
  <2> QED BY <2>1
<1>2. ASSUME NEW m \in Nat, m \in S PROVE m + 1 \in S
  <2>1. SUFFICES ASSUME m + 1 <= N
                 PROVE  \E g \in [0..(m + 1) -> X] : Solves(g, m + 1)
    OBVIOUS
  <2>2. PICK f \in [0..m -> X] : Solves(f, m)
    BY <1>2, <2>1
  <2> DEFINE g == [n \in 0..(m + 1) |-> IF n = m + 1 THEN step[m + 1][f[m]] ELSE f[n]]
  <2>3. step[m + 1][f[m]] \in X
    <3>1. m + 1 \in 1..N /\ m \in 0..m
      BY <2>1
    <3> QED BY <3>1
  <2>4. g \in [0..(m + 1) -> X]
    BY <2>3
  <2>5. ASSUME NEW n \in 0..(m + 1)
        PROVE  g[n] = IF n = 0 THEN base ELSE step[n][g[n - 1]]
    <3>1. CASE n = m + 1
      BY <3>1
    <3>2. CASE n # m + 1
      BY <2>2, <3>2
    <3> QED BY <3>1, <3>2
  <2> QED BY <2>4, <2>5
<1>3. \A m \in Nat : m \in S
  <2> HIDE DEF S
  <2> QED BY <1>1, <1>2, SetInduction
<1> QED BY <1>3 DEF IsRecursive

(* f is defined by recursion over 0..N where f[n] depends on the value at  *)
(* an earlier place than n, which may be any.                              *)
GoesBack(f, N, X, base, step, pred) ==
  /\ f \in [0..N -> X]
  /\ \A n \in 0..N : f[n] = IF n = 0 THEN base ELSE step[n][f[pred[n]]]

(* A function defined by such a recursion exists. *)
LEMMA CourseRecursion ==
  ASSUME NEW N \in Nat, NEW X, NEW base \in X, NEW step \in [1..N -> [X -> X]],
         NEW pred \in [1..N -> Nat], \A n \in 1..N : pred[n] < n
  PROVE  \E f : GoesBack(f, N, X, base, step, pred)
<1> DEFINE Solves(f, m) ==
             \A n \in 0..m : f[n] = IF n = 0 THEN base ELSE step[n][f[pred[n]]]
           S == {m \in Nat : m <= N => \E f \in [0..m -> X] : Solves(f, m)}
<1>1. 0 \in S
  <2> DEFINE f == [n \in 0..0 |-> base]
  <2>1. f \in [0..0 -> X] /\ Solves(f, 0)
    OBVIOUS
  <2> QED BY <2>1
<1>2. ASSUME NEW m \in Nat, m \in S PROVE m + 1 \in S
  <2>1. SUFFICES ASSUME m + 1 <= N
                 PROVE  \E g \in [0..(m + 1) -> X] : Solves(g, m + 1)
    OBVIOUS
  <2>2. PICK f \in [0..m -> X] : Solves(f, m)
    BY <1>2, <2>1
  <2> DEFINE g == [n \in 0..(m + 1) |-> IF n = m + 1 THEN step[m + 1][f[pred[m + 1]]]
                                        ELSE f[n]]
  <2>3. \A n \in 1..(m + 1) : pred[n] \in 0..m /\ pred[n] < n
    BY <2>1
  <2>4. step[m + 1][f[pred[m + 1]]] \in X
    <3>1. m + 1 \in 1..N /\ pred[m + 1] \in 0..m
      BY <2>1, <2>3
    <3> QED BY <3>1
  <2>5. g \in [0..(m + 1) -> X]
    BY <2>4
  <2>6. ASSUME NEW n \in 0..(m + 1)
        PROVE  g[n] = IF n = 0 THEN base ELSE step[n][g[pred[n]]]
    <3>1. CASE n = 0
      BY <2>2, <3>1
    <3>2. CASE n # 0
      <4>1. pred[n] \in 0..m
        BY <2>3, <3>2
      <4>2. g[pred[n]] = f[pred[n]]
        BY <4>1
      <4>3. CASE n = m + 1
        BY <3>2, <4>2, <4>3
      <4>4. CASE n # m + 1
        <5>1. n \in 0..m /\ g[n] = f[n]
          BY <4>4
        <5> QED BY <2>2, <3>2, <4>2, <5>1
      <4> QED BY <4>3, <4>4
    <3> QED BY <3>1, <3>2
  <2> QED BY <2>5, <2>6
<1>3. \A m \in Nat : m \in S
  <2> HIDE DEF S
  <2> QED BY <1>1, <1>2, SetInduction
<1>4. PICK f \in [0..N -> X] : Solves(f, N)
  <2>1. N \in S /\ N <= N
    <3> HIDE DEF S
    <3> QED BY <1>3
  <2> HIDE DEF Solves
  <2> QED BY <2>1
<1>5. GoesBack(f, N, X, base, step, pred)
  BY <1>4, Zenon DEF GoesBack
<1> QED BY <1>5

-----------------------------------------------------------------------------
(* Two counters modulo W and the slots they point at, modulo R, when R     *)
(* divides W.                                                              *)

(* A positive multiple of R is at least R. *)
LEMMA Multiple ==
  ASSUME NEW R \in Nat \ {0}, NEW a \in Int, a >= 1
  PROVE  R * a >= R
BY SMT

(* Quotient and remainder are unique. *)
LEMMA Remainder ==
  ASSUME NEW R \in Nat \ {0}, NEW q \in Int, NEW r \in 0..(R - 1),
         NEW y \in Int, y = R * q + r
  PROVE  y % R = r
<1> DEFINE d == y \div R
           m == y % R
<1>1. y = R * d + m /\ m \in 0..(R - 1) /\ d \in Int
  BY SMT
<1> HIDE DEF d, m
<1>2. R * (q - d) = m - r /\ R * (d - q) = r - m
  BY <1>1, SMT
<1>3. CASE q - d >= 1
  <2>1. R * (q - d) >= R
    BY <1>1, <1>3, Multiple, q - d \in Int
  <2> QED
    BY <2>1, <1>1, <1>2, SMT
<1>4. CASE d - q >= 1
  <2>1. R * (d - q) >= R
    BY <1>1, <1>4, Multiple, d - q \in Int
  <2> QED
    BY <2>1, <1>1, <1>2, SMT
<1>5. CASE q = d
  <2>1. R * (q - d) = 0
    BY <1>1, <1>5, SMT
  <2>2. m = r
    BY <2>1, <1>1, <1>2, SMT
  <2> QED
    BY <2>2 DEF m
<1> QED
  BY <1>1, <1>3, <1>4, <1>5, SMT

(* The quotient that goes with such a remainder. *)
LEMMA Quotient ==
  ASSUME NEW R \in Nat \ {0}, NEW q \in Int, NEW r \in 0..(R - 1),
         NEW y \in Int, y = R * q + r
  PROVE  y \div R = q
<1> DEFINE d == y \div R
<1>1. y = R * d + (y % R) /\ d \in Int
  BY SMT
<1>2. y % R = r
  BY Remainder
<1> HIDE DEF d
<1>3. R * (q - d) = 0 /\ R * (d - q) = 0
  BY <1>1, <1>2, SMT
<1>4. CASE q - d >= 1
  <2>1. R * (q - d) >= R
    BY <1>1, <1>4, Multiple, q - d \in Int
  <2> QED
    BY <2>1, <1>3, SMT
<1>5. CASE d - q >= 1
  <2>1. R * (d - q) >= R
    BY <1>1, <1>5, Multiple, d - q \in Int
  <2> QED
    BY <2>1, <1>3, SMT
<1>6. d = q
  BY <1>1, <1>4, <1>5, SMT
<1> QED
  BY <1>6 DEF d

(* Multiples of R do not change a remainder. *)
LEMMA ShiftRemainder ==
  ASSUME NEW R \in Nat \ {0}, NEW x \in Int, NEW k \in Int
  PROVE  (x + R * k) % R = x % R
<1> DEFINE d == x \div R
           m == x % R
<1>1. x = R * d + m /\ m \in 0..(R - 1) /\ d \in Int
  BY SMT
<1> HIDE DEF d, m
<1>2. x + R * k = R * (d + k) + m
  BY <1>1, SMT
<1>3. (x + R * k) % R = m
  BY <1>1, <1>2, Remainder, d + k \in Int, x + R * k \in Int
<1> QED
  BY <1>3 DEF m

(* The distance of two counters modulo W, and the successor of one. *)
LEMMA Distance ==
  ASSUME NEW W \in Nat \ {0}, NEW x \in 0..(W - 1), NEW y \in 0..(W - 1)
  PROVE  /\ (x - y) % W = IF x >= y THEN x - y ELSE x - y + W
         /\ (x + 1) % W = IF x + 1 = W THEN 0 ELSE x + 1
<1>1. x >= y => (x - y) % W = x - y
  <2> SUFFICES ASSUME x >= y PROVE (x - y) % W = x - y
    OBVIOUS
  <2>1. x - y \in 0..(W - 1) /\ x - y \in Int /\ x - y = W * 0 + (x - y)
    BY SMT
  <2> QED
    BY <2>1, Remainder, 0 \in Int
<1>2. x < y => (x - y) % W = x - y + W
  <2> SUFFICES ASSUME x < y PROVE (x - y) % W = x - y + W
    OBVIOUS
  <2>1. x - y + W \in 0..(W - 1) /\ x - y \in Int /\ x - y = W * (-1) + (x - y + W)
    BY SMT
  <2> QED
    BY <2>1, Remainder, -1 \in Int
<1>3. x + 1 = W => (x + 1) % W = 0
  <2> SUFFICES ASSUME x + 1 = W PROVE (x + 1) % W = 0
    OBVIOUS
  <2>1. 0 \in 0..(W - 1) /\ x + 1 \in Int /\ x + 1 = W * 1 + 0
    BY SMT
  <2> QED
    BY <2>1, Remainder, 1 \in Int
<1>4. x + 1 # W => (x + 1) % W = x + 1
  BY SMT
<1> QED
  BY <1>1, <1>2, <1>3, <1>4, SMT

(* Counting one counter up moves the distance by one. *)
LEMMA DistanceSteps ==
  ASSUME NEW W \in Nat \ {0}, NEW x \in 0..(W - 1), NEW y \in 0..(W - 1)
  PROVE  /\ (x - y) % W < W - 1 => (((x + 1) % W) - y) % W = ((x - y) % W) + 1
         /\ (x - y) % W >= 1 => (x - ((y + 1) % W)) % W = ((x - y) % W) - 1
         /\ (x - y) % W = 0 <=> x = y
         /\ (x - y) % W \in 0..(W - 1)
<1> DEFINE xx == (x + 1) % W
           yy == (y + 1) % W
<1>1. xx \in 0..(W - 1) /\ xx = IF x + 1 = W THEN 0 ELSE x + 1
  BY Distance, SMT
<1>2. yy \in 0..(W - 1) /\ yy = IF y + 1 = W THEN 0 ELSE y + 1
  BY Distance, SMT
<1>3. (x - y) % W = IF x >= y THEN x - y ELSE x - y + W
  BY Distance
<1> HIDE DEF xx, yy
<1>4. (xx - y) % W = IF xx >= y THEN xx - y ELSE xx - y + W
  BY <1>1, Distance
<1>5. (x - yy) % W = IF x >= yy THEN x - yy ELSE x - yy + W
  BY <1>2, Distance
<1>6. (x - y) % W < W - 1 => (xx - y) % W = ((x - y) % W) + 1
  BY <1>1, <1>3, <1>4, SMT
<1>7. (x - y) % W >= 1 => (x - yy) % W = ((x - y) % W) - 1
  BY <1>2, <1>3, <1>5, SMT
<1>8. ((x - y) % W = 0 <=> x = y) /\ (x - y) % W \in 0..(W - 1)
  BY <1>3, SMT
<1> QED
  BY <1>6, <1>7, <1>8 DEF xx, yy

(* Two counters modulo W at a distance of at most R, which divides W,      *)
(* point at different slots of R unless they are equal or R apart.         *)
LEMMA SameSlot ==
  ASSUME NEW R \in Nat \ {0}, NEW W \in Nat \ {0}, W % R = 0,
         NEW x \in 0..(W - 1), NEW y \in 0..(W - 1), (x - y) % W <= R
  PROVE  /\ x # y /\ (x - y) % W # R => x % R # y % R
         /\ x % R # y % R => x # y /\ (x - y) % W # R
<1> DEFINE o == (x - y) % W
           k == W \div R
           m == y % R
           d == y \div R
<1>1. W = R * k /\ k \in Int /\ x \in Int /\ y \in Int
  BY SMT
<1>2. o \in 0..R /\ o = IF x >= y THEN x - y ELSE x - y + W
  BY Distance, SMT
<1>3. y = R * d + m /\ m \in 0..(R - 1) /\ d \in Int
  BY SMT
<1>4. x % R = (y + o) % R
  <2>1. CASE x >= y
    BY <2>1, <1>2, SMT
  <2>2. CASE x < y
    <3>1. (x + R * k) % R = x % R
      BY <1>1, ShiftRemainder
    <3>2. y + o = x + R * k
      BY <1>1, <1>2, <2>2, SMT
    <3> QED
      BY <3>1, <3>2
  <2> QED
    BY <2>1, <2>2
<1>5. o = R => x % R = y % R
  <2> SUFFICES ASSUME o = R PROVE x % R = y % R
    OBVIOUS
  <2>1. (y + R * 1) % R = y % R
    BY <1>1, ShiftRemainder, 1 \in Int
  <2>2. R * 1 = R
    BY SMT
  <2> QED
    BY <2>1, <2>2, <1>4
<1>6. o \in 1..(R - 1) => x % R # y % R
  <2> SUFFICES ASSUME o \in 1..(R - 1) PROVE (y + o) % R # m
    BY <1>4
  <2> HIDE DEF o, k, m, d
  <2>1. CASE m + o < R
    <3>1. m + o \in 0..(R - 1) /\ y + o \in Int /\ y + o = R * d + (m + o)
      BY <1>3, <2>1, SMT
    <3>2. (y + o) % R = m + o
      BY <3>1, <1>3, Remainder
    <3> QED
      BY <3>2, <1>3, SMT
  <2>2. CASE m + o >= R
    <3> DEFINE q == d + 1
               r == m + o - R
               z == y + o
    <3>1. r \in 0..(R - 1) /\ z \in Int /\ q \in Int
      BY <1>1, <1>3, <2>2, SMT
    <3>2. z = R * q + r
      BY <1>3, SMT
    <3> HIDE DEF q, r, z
    <3>3. z % R = r
      BY <3>1, <3>2, Remainder
    <3> QED
      BY <3>3, <1>3, SMT DEF r, z
  <2> QED
    BY <2>1, <2>2, <1>3, SMT
<1>7. o = 0 => x = y
  BY <1>2, SMT
<1> HIDE DEF o
<1>8. o = 0 \/ o = R \/ o \in 1..(R - 1)
  BY <1>2, SMT
<1> QED
  BY <1>5, <1>6, <1>7, <1>8 DEF o

-----------------------------------------------------------------------------
(* Powers of two, as a function of exponents up to N.                      *)
PowersOfTwo(p, N) ==
  /\ N \in Nat
  /\ p[0] = 1
  /\ \A n \in 0..(N - 1) : p[n + 1] = 2 * p[n]
  /\ \A n \in 0..N : p[n] \in Nat \ {0}

(* The function that a recursive definition of them chooses. *)
LEMMA PowersDefined ==
  ASSUME NEW N \in Nat
  PROVE  PowersOfTwo(CHOOSE f : f = [n \in 0..N |-> IF n = 0 THEN 1 ELSE 2 * f[n - 1]], N)
<1> DEFINE X == Nat
           step == [n \in 1..N |-> [x \in X |-> 2 * x]]
           eq(f) == [n \in 0..N |-> IF n = 0 THEN 1 ELSE 2 * f[n - 1]]
           p == CHOOSE f : f = eq(f)
<1>1. \E f : f = eq(f)
  <2>1. step \in [1..N -> [X -> X]]
    OBVIOUS
  <2>2. PICK one : one = 1
    OBVIOUS
  <2>3. PICK f \in [0..N -> X] :
          \A n \in 0..N : f[n] = IF n = 0 THEN one ELSE step[n][f[n - 1]]
    <3>1. one \in X
      BY <2>2
    <3> HIDE DEF step, X
    <3>2. \E f : IsRecursive(f, N, X, one, step)
      BY <2>1, <3>1, IntervalRecursion DEF X
    <3> QED BY <3>2 DEF IsRecursive
  <2>4. ASSUME NEW n \in 0..N
        PROVE  f[n] = IF n = 0 THEN 1 ELSE 2 * f[n - 1]
    <3>1. CASE n = 0
      BY <2>2, <2>3, <3>1
    <3>2. CASE n # 0
      <4>1. n \in 1..N /\ n - 1 \in 0..N
        BY <3>2
      <4>2. f[n - 1] \in X
        BY <2>3, <4>1
      <4> QED BY <2>3, <3>2, <4>1, <4>2
    <3> QED BY <3>1, <3>2
  <2>5. f = eq(f)
    BY <2>3, <2>4
  <2> QED BY <2>5
<1>2. p = eq(p)
  <2> HIDE DEF eq
  <2> QED BY <1>1
<1>3. \A n \in 0..N : p[n] = IF n = 0 THEN 1 ELSE 2 * p[n - 1]
  <2> HIDE DEF p
  <2> QED BY <1>2
<1> HIDE DEF p
<1>4. p[0] = 1 /\ \A n \in 0..(N - 1) : p[n + 1] = 2 * p[n]
  BY <1>3
<1>5. \A n \in 0..N : p[n] \in Nat \ {0}
  <2> DEFINE S == {n \in Nat : p[n] \in Nat \ {0}}
  <2>1. 0 \in S
    BY <1>4
  <2>2. \A n \in 0..(N - 1) : n \in S => n + 1 \in S
    BY <1>4
  <2>3. \A n \in 0..N : n \in S
    <3> HIDE DEF S
    <3> QED BY <2>1, <2>2, IntervalInduction
  <2> QED BY <2>3
<1> QED BY <1>4, <1>5 DEF PowersOfTwo, p

(* Exponents are added. *)
LEMMA ExponentsAdd ==
  ASSUME NEW N \in Nat, NEW p, PowersOfTwo(p, N), NEW m \in Nat, NEW n \in Nat, m + n <= N
  PROVE  p[m + n] = p[m] * p[n]
<1> DEFINE S == {k \in Nat : m + k <= N => p[m + k] = p[m] * p[k]}
<1>1. 0 \in S
  BY DEF PowersOfTwo
<1>2. ASSUME NEW k \in Nat, k \in S PROVE k + 1 \in S
  <2> SUFFICES ASSUME m + (k + 1) <= N PROVE p[m + (k + 1)] = p[m] * p[k + 1]
    OBVIOUS
  <2>1. PICK a : a = p[m]
    OBVIOUS
  <2>2. PICK b : b = p[k]
    OBVIOUS
  <2>3. p[m + k] = a * b
    BY <1>2, <2>1, <2>2
  <2>4. m \in 0..N /\ k \in 0..N /\ k \in 0..(N - 1) /\ m + k \in 0..(N - 1) /\ m + (k + 1) = (m + k) + 1
    OBVIOUS
  <2>5. a \in Nat /\ b \in Nat
    BY <2>1, <2>2, <2>4 DEF PowersOfTwo
  <2>6. p[m + (k + 1)] = 2 * p[m + k] /\ p[k + 1] = 2 * b
    BY <2>2, <2>4 DEF PowersOfTwo
  <2>7. 2 * (a * b) = a * (2 * b)
    BY <2>5, SMT
  <2> QED BY <2>1, <2>3, <2>6, <2>7
<1>3. \A k \in Nat : k \in S
  <2> HIDE DEF S
  <2> QED BY <1>1, <1>2, SetInduction
<1> QED BY <1>3

(* Powers grow with the exponent. *)
LEMMA ExponentOrder ==
  ASSUME NEW N \in Nat, NEW p, PowersOfTwo(p, N), NEW m \in Nat, NEW n \in 0..N, m <= n
  PROVE  p[m] <= p[n]
<1>1. PICK k : k = n - m
  OBVIOUS
<1>2. k \in Nat /\ m + k = n /\ n \in Nat /\ n <= N
  BY <1>1
<1>3. p[n] = p[m] * p[k]
  BY <1>2, ExponentsAdd
<1>4. PICK a : a = p[m]
  OBVIOUS
<1>5. PICK b : b = p[k]
  OBVIOUS
<1>6. m \in 0..N /\ k \in 0..N
  BY <1>2
<1>7. a \in Nat \ {0} /\ b \in Nat \ {0}
  BY <1>4, <1>5, <1>6 DEF PowersOfTwo
<1>8. a * b >= a
  BY <1>7, SMT
<1> QED BY <1>3, <1>4, <1>5, <1>8

(* The bits of a number below the power of n. *)
LEMMA NumberOfBits ==
  ASSUME NEW N \in Nat, NEW p, PowersOfTwo(p, N), NEW n \in 0..N, NEW x \in Nat, x < p[n]
  PROVE  \E k \in 0..n : x < p[k] /\ (k > 0 => p[k - 1] <= x)
<1> DEFINE T == {k \in 0..n : x < p[k]}
<1>1. n \in T /\ T \subseteq Nat
  OBVIOUS
<1>2. PICK k \in T : \A y \in T : k <= y
  <2> HIDE DEF T
  <2>1. T # {}
    BY <1>1
  <2> QED BY <1>1, <2>1, LeastNumber
<1>3. ASSUME k > 0 PROVE p[k - 1] <= x
  <2>1. k - 1 \in 0..n /\ ~(k <= k - 1)
    BY <1>3
  <2>2. k - 1 \notin T
    BY <1>2, <2>1
  <2>3. ~(x < p[k - 1])
    BY <2>1, <2>2
  <2>4. p[k - 1] \in Nat
    BY <2>1 DEF PowersOfTwo
  <2> QED BY <2>3, <2>4
<1> QED BY <1>2, <1>3

(* The square root of a power of two is a power of two.                    *)
LEMMA RootOfPower ==
  ASSUME NEW N \in Nat, NEW p, PowersOfTwo(p, N), NEW n \in 0..N, NEW b \in Nat, b * b = p[n]
  PROVE  \E m \in 0..N : b = p[m]
<1> DEFINE Has(k) == \A c \in Nat : c * c = p[k] => \E m \in 0..N : c = p[m]
           S == {k \in Nat : (k <= N => Has(k)) /\ (k + 1 <= N => Has(k + 1))}
<1>1. p[0] = 1 /\ (1 <= N => p[1] = 2)
  <2>1. p[0] = 1
    BY DEF PowersOfTwo
  <2>2. ASSUME 1 <= N PROVE p[1] = 2
    <3>1. PICK z \in 0..(N - 1) : z = 0
      BY <2>2
    <3>2. p[z + 1] = 2 * p[z]
      BY DEF PowersOfTwo
    <3> QED BY <2>1, <3>1, <3>2
  <2> QED BY <2>1, <2>2
<1>2. 0 \in S
  <2>1. Has(0)
    <3>1. ASSUME NEW c \in Nat, c * c = 1 PROVE c = 1
      <4>1. c >= 2 => c * c >= 2
        BY SMT
      <4>2. c = 0 => c * c = 0
        BY SMT
      <4> QED BY <3>1, <4>1, <4>2
    <3> QED BY <1>1, <3>1
  <2>2. ASSUME 1 <= N PROVE Has(1)
    <3>1. ASSUME NEW c \in Nat, c * c = 2 PROVE FALSE
      <4>1. c >= 2 => c * c >= 2 * c
        BY SMT
      <4>2. c = 0 => c * c = 0
        BY SMT
      <4>3. c = 1 => c * c = 1
        BY SMT
      <4> QED BY <3>1, <4>1, <4>2, <4>3
    <3> QED BY <1>1, <2>2, <3>1
  <2> QED BY <2>1, <2>2
<1>3. ASSUME NEW k \in Nat, k \in S PROVE k + 1 \in S
  <2>1. k + 1 <= N => Has(k + 1)
    BY <1>3
  <2>2. ASSUME k + 2 <= N PROVE Has(k + 2)
    <3>1. SUFFICES ASSUME NEW c \in Nat, c * c = p[k + 2] PROVE \E m \in 0..N : c = p[m]
      OBVIOUS
    <3>2. p[k + 1] = 2 * p[k] /\ p[k + 2] = 2 * p[k + 1] /\ p[k] \in Nat
      <4>1. PICK i \in 0..(N - 1) : i = k
        BY <2>2
      <4>2. PICK j \in 0..(N - 1) : j = k + 1
        BY <2>2
      <4>3. p[i + 1] = 2 * p[i] /\ p[j + 1] = 2 * p[j] /\ p[i] \in Nat
        BY DEF PowersOfTwo
      <4>4. j + 1 = k + 2
        BY <4>2
      <4> QED BY <4>1, <4>2, <4>3, <4>4
    <3>3. PICK h, r \in Nat : c = 2 * h + r /\ r \in {0, 1}
      <4>1. PICK h, r : h = c \div 2 /\ r = c % 2
        OBVIOUS
      <4>2. c = 2 * h + r /\ h \in Int /\ r \in 0..1
        BY <4>1
      <4>3. h >= 0
        BY <4>2
      <4> QED BY <4>2, <4>3
    <3>4. PICK a, g \in Nat : a = p[k] /\ g = h * h
      BY <3>2, SMT
    <3>5. c * c = 4 * a
      BY <3>1, <3>2, <3>4
    <3>6. r = 0
      <4>1. SUFFICES ASSUME r = 1 PROVE FALSE
        BY <3>3
      <4>2. (2 * h + 1) * (2 * h + 1) = 4 * (h * h) + 4 * h + 1
        <5>1. PICK t \in Nat : t = 2 * h
          OBVIOUS
        <5>2. (t + 1) * (t + 1) = t * t + 2 * t + 1 /\ t * t \in Nat
          BY SMT
        <5>3. (2 * h) * (2 * h) = 4 * (h * h)
          BY SMT
        <5> QED BY <5>1, <5>2, <5>3
      <4>3. 4 * a = 4 * g + 4 * h + 1
        BY <3>3, <3>4, <3>5, <4>1, <4>2
      <4> QED BY <4>3
    <3>7. h * h = a
      <4>1. (2 * h) * (2 * h) = 4 * (h * h)
        BY SMT
      <4>2. 4 * a = 4 * g
        BY <3>3, <3>4, <3>5, <3>6, <4>1
      <4> QED BY <3>4, <4>2
    <3>8. PICK m \in 0..N : h = p[m]
      <4>1. Has(k)
        BY <1>3, <2>2
      <4> QED BY <3>4, <3>7, <4>1
    <3>9. m + 1 <= N
      <4>1. SUFFICES ASSUME m = N PROVE FALSE
        OBVIOUS
      <4>2. PICK q : q = p[N]
        OBVIOUS
      <4>3. q \in Nat /\ q >= 1 /\ p[k + 2] <= q
        <5>1. q \in Nat \ {0}
          BY <4>2 DEF PowersOfTwo
        <5>2. PICK i, j \in Nat : i = k + 2 /\ j = N
          OBVIOUS
        <5>3. j \in 0..N /\ i <= j
          BY <2>2, <5>2
        <5>4. p[i] <= p[j]
          BY <5>3, ExponentOrder
        <5> QED BY <4>2, <5>1, <5>2, <5>4
      <4>4. h = q /\ 4 * a <= q
        BY <3>1, <3>5, <3>8, <4>1, <4>2, <4>3
      <4>5. q * q = a /\ q * q >= q
        BY <3>7, <4>3, <4>4, SMT
      <4> QED BY <4>3, <4>4, <4>5
    <3>10. p[m + 1] = 2 * p[m] /\ m + 1 \in 0..N
      <4>1. m \in 0..(N - 1)
        BY <3>9
      <4> QED BY <4>1 DEF PowersOfTwo
    <3>11. c = p[m + 1]
      BY <3>3, <3>6, <3>8, <3>10
    <3> QED BY <3>10, <3>11
  <2>3. (k + 1) + 1 = k + 2
    OBVIOUS
  <2> HIDE DEF Has
  <2> QED BY <2>1, <2>2, <2>3
<1>4. \A k \in Nat : k \in S
  <2> HIDE DEF S
  <2> QED BY <1>2, <1>3, SetInduction
<1>5. Has(n)
  <2> HIDE DEF Has
  <2> QED BY <1>4
<1> QED BY <1>5
=============================================================================
