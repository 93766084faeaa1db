---------------------------- MODULE PrintfProofs ----------------------------
(***************************************************************************)
(* Theorems about Printf, for words and buffers of any size.               *)
(***************************************************************************)
EXTENDS Printf, LongLongProofs, SequenceTheorems

-----------------------------------------------------------------------------
(* The words of the arguments *)

(* As long as no double was taken from an odd word, print() is where the   *)
(* caller is.                                                              *)
ArgumentInv == varg \in Nat /\ pushed \in Nat /\ (~skewed => varg = pushed)

(* ArgumentInv holds, and is all that ArgumentsInStep needs. *)
LEMMA ArgumentsTaken == Spec => [](ArgumentInv /\ ArgumentsInStep)
<1>1. Init => ArgumentInv
  BY DEF Init, ArgumentInv, FirstArgument
<1>2. ArgumentInv /\ [Next]_vars => ArgumentInv'
  <2> SUFFICES ASSUME ArgumentInv, [Next]_vars PROVE ArgumentInv'
    OBVIOUS
  <2>1. ASSUME NEW x \in Nat PROVE Even(x) \in Nat
    BY <2>1 DEF Even
  <2>2. Even(varg) \in Nat /\ Even(pushed) \in Nat
    BY <2>1 DEF ArgumentInv
  <2> USE DEF ArgumentInv
  <2>3. CASE Literal \/ Percent \/ Return \/ PercentSign
    BY <2>3 DEF Literal, Percent, Return, PercentSign
  <2>4. CASE FormatStep
    BY <2>4 DEF FormatStep, Justify, PadZero, DecimalPoint, Long, LongLong, Width, Decimals,
                Reading
  <2>5. ASSUME NEW c, ConvertInt(c) PROVE ArgumentInv'
    BY <2>5 DEF ConvertInt, Take
  <2>6. ASSUME NEW c, ConvertLong(c) PROVE ArgumentInv'
    BY <2>2, <2>6 DEF ConvertLong, Take
  <2>7. ASSUME NEW given, NEW read, NEW Values, UNCHANGED skewed,
               Take(1, varg, pushed, given, read, Values)
        PROVE  ArgumentInv'
    BY <2>7 DEF Take
  <2>8. CASE ConvertPointer \/ ConvertString \/ ConvertChar
    <3>1. CASE ConvertPointer
      <4>1. PICK given, read \in IntArgument :
              Take(1, varg, pushed, given, read, IntArgument) /\ UNCHANGED skewed
        BY <3>1, Zenon DEF ConvertPointer
      <4> QED BY <2>7, <4>1
    <3>2. CASE ConvertString
      <4>1. PICK given, read \in StringArgument :
              Take(1, varg, pushed, given, read, StringArgument) /\ UNCHANGED skewed
        BY <3>2, Zenon DEF ConvertString
      <4> QED BY <2>7, <4>1
    <3>3. CASE ConvertChar
      <4>1. PICK given, read \in IntArgument :
              Take(1, varg, pushed, given, read, IntArgument) /\ UNCHANGED skewed
        BY <3>3, Zenon DEF ConvertChar
      <4> QED BY <2>7, <4>1
    <3> QED BY <2>8, <3>1, <3>2, <3>3
  <2>11. CASE ConvertDouble
    <3>1. PICK given, read \in DoubleArgument :
            /\ Take(2, varg, Even(pushed), given, read, DoubleArgument)
            /\ skewed' = (skewed \/ varg # Even(pushed))
      BY <2>11, Zenon DEF ConvertDouble
    <3>2. varg' = varg + 2 /\ pushed' = Even(pushed) + 2
      BY <3>1 DEF Take
    <3>3. ~skewed' => varg = Even(pushed)
      BY <3>1, Zenon
    <3>4. ~skewed' => varg' = pushed'
      BY <3>2, <3>3, Zenon
    <3> QED BY <2>2, <3>2, <3>4
  <2>9. CASE ConvertUnknown
    BY <2>9 DEF ConvertUnknown
  <2>10. CASE UNCHANGED vars
    BY <2>10 DEF vars
  <2> QED BY <2>3, <2>4, <2>5, <2>6, <2>7, <2>8, <2>9, <2>10, <2>11 DEF Next, Conversion
<1>3. ArgumentInv => ArgumentsInStep
  BY DEF ArgumentInv, ArgumentsInStep
<1> QED BY <1>1, <1>2, <1>3, PTL DEF Spec

(* printf.c 299-446: every conversion takes the argument that the caller   *)
(* pushed for it, whatever came before it.                                 *)
THEOREM PrintfArguments == Spec => []ArgumentsInStep
BY ArgumentsTaken, PTL

-----------------------------------------------------------------------------
(* The figures of a number *)

(* The equations of Tens. *)
LEMMA TensEquations ==
  /\ Tens[0] = 1
  /\ \A n \in 0..(MostTens - 1) : Tens[n + 1] = 10 * Tens[n]
  /\ \A n \in 0..MostTens : Tens[n] \in Nat \ {0}
<1> DEFINE N == MostTens
           X == Nat
           step == [n \in 1..N |-> [x \in X |-> 10 * x]]
           eq(f) == [n \in 0..N |-> IF n = 0 THEN 1 ELSE 10 * f[n - 1]]
           all == CHOOSE f : f = eq(f)
<1>1. N \in Nat
  BY PrintfAssumption, BufferAssumption DEF MostTens
<1>2. Tens = all
  BY DEF Tens
<1>3. \E f : f = eq(f)
  <2>1. step \in [1..N -> [X -> X]]
    OBVIOUS
  <2>2. PICK one : one = 1
    OBVIOUS
  <2>3. PICK f \in [0..N -> X] :
          \A n \in 0..N : f[n] = IF n = 0 THEN one ELSE step[n][f[n - 1]]
    <3>1. one \in X
      BY <2>2
    <3> HIDE DEF step, N, X
    <3>2. \E f : IsRecursive(f, N, X, one, step)
      BY <1>1, <2>1, <3>1, IntervalRecursion DEF X
    <3> QED BY <3>2 DEF IsRecursive
  <2>4. ASSUME NEW n \in 0..N
        PROVE  f[n] = IF n = 0 THEN 1 ELSE 10 * f[n - 1]
    <3>1. CASE n = 0
      BY <2>2, <2>3, <3>1
    <3>2. CASE n # 0
      <4>1. n \in 1..N /\ n - 1 \in 0..N
        BY <1>1, <3>2
      <4>2. f[n - 1] \in X
        BY <2>3, <4>1
      <4> QED BY <2>3, <3>2, <4>1, <4>2
    <3> QED BY <3>1, <3>2
  <2>5. f = eq(f)
    BY <2>3, <2>4
  <2> QED BY <2>5
<1>4. Tens = eq(Tens)
  <2> HIDE DEF eq
  <2>1. all = eq(all)
    BY <1>3
  <2> QED BY <1>2, <2>1
<1>5. \A n \in 0..N : Tens[n] = IF n = 0 THEN 1 ELSE 10 * Tens[n - 1]
  BY <1>4
<1>6. Tens[0] = 1 /\ \A n \in 0..(N - 1) : Tens[n + 1] = 10 * Tens[n]
  BY <1>1, <1>5
<1>7. \A n \in 0..N : Tens[n] \in Nat \ {0}
  <2> DEFINE S == {n \in Nat : Tens[n] \in Nat \ {0}}
  <2>1. 0 \in S
    BY <1>6
  <2>2. \A n \in 0..(N - 1) : n \in S => n + 1 \in S
    BY <1>1, <1>6
  <2>3. \A n \in 0..N : n \in S
    <3> HIDE DEF S, N
    <3> QED BY <1>1, <2>1, <2>2, IntervalInduction
  <2> QED BY <2>3
<1> QED BY <1>6, <1>7

(* A number without its last figure is smaller. *)
LEMMA WithoutLast ==
  ASSUME NEW n \in Nat, NEW b \in Nat, b >= 2
  PROVE  /\ n \div b \in Nat /\ n % b \in 0..(b - 1) /\ n = b * (n \div b) + (n % b)
         /\ n \div b <= n /\ (n # 0 => n \div b < n)
<1>1. PICK q : q = n \div b
  OBVIOUS
<1>2. PICK r : r = n % b
  OBVIOUS
<1>3. n = b * q + r /\ q \in Nat /\ r \in 0..(b - 1)
  BY <1>1, <1>2, SMT
<1>4. b * q >= 2 * q /\ b * q \in Nat
  <2>1. (b - 2) * q >= 0 /\ (b - 2) * q = b * q - 2 * q /\ b * q \in Nat
    BY <1>3, SMT
  <2> QED BY <1>3, <2>1
<1>5. q <= n /\ (n # 0 => q < n)
  BY <1>3, <1>4
<1> QED BY <1>1, <1>2, <1>3, <1>5

(* The bases and letters that print() converts with. *)
IsBase(b, l) == b \in {10, 16} /\ l \in {UpperA, LowerA}

(* F gives the figures of the numbers below M. *)
IsFigures(F, M, b, l) ==
  /\ F \in [0..(M - 1) -> Seq(Nat)]
  /\ \A n \in 0..(M - 1) :
       F[n] = IF n = 0 THEN <<>> ELSE Append(F[n \div b], Figure(n % b, l))

(* A figure is a character. *)
LEMMA FigureIsCharacter ==
  ASSUME NEW b, NEW l, IsBase(b, l), NEW t \in 0..(b - 1)
  PROVE  Figure(t, l) \in Nat
<1>1. t \in Nat
  BY DEF IsBase
<1> QED BY <1>1 DEF IsBase, Figure, UpperA, LowerA, Zero

(* The loops of printi() and printl() end. *)
LEMMA FiguresExist ==
  ASSUME NEW M \in Nat \ {0}, NEW b, NEW l, IsBase(b, l)
  PROVE  \E F : IsFigures(F, M, b, l)
<1>1. PICK N : N = M - 1
  OBVIOUS
<1>2. PICK X : X = Seq(Nat)
  OBVIOUS
<1>3. PICK empty : empty = <<>>
  OBVIOUS
<1> DEFINE step == [n \in 1..N |-> [s \in X |-> Append(s, Figure(n % b, l))]]
           pred == [n \in 1..N |-> n \div b]
<1>4. N \in Nat /\ b \in Nat /\ b >= 2
  BY <1>1 DEF IsBase
<1>5. \A n \in 0..N : n \div b \in Nat /\ n % b \in 0..(b - 1) /\ (n # 0 => n \div b < n)
  <2> SUFFICES ASSUME NEW n \in 0..N
               PROVE  n \div b \in Nat /\ n % b \in 0..(b - 1) /\ (n # 0 => n \div b < n)
    OBVIOUS
  <2>1. n \in Nat
    BY <1>4
  <2> QED BY <1>4, <2>1, WithoutLast
<1>6. step \in [1..N -> [X -> X]] /\ pred \in [1..N -> Nat] /\ empty \in X
      /\ \A n \in 1..N : pred[n] < n
  <2>1. \A n \in 1..N : Figure(n % b, l) \in Nat /\ n \div b \in Nat /\ n \div b < n
    <3> SUFFICES ASSUME NEW n \in 1..N
                 PROVE  Figure(n % b, l) \in Nat /\ n \div b \in Nat /\ n \div b < n
      OBVIOUS
    <3>1. n \in 0..N /\ n # 0
      BY <1>4
    <3>2. n \div b \in Nat /\ n % b \in 0..(b - 1) /\ n \div b < n
      BY <1>5, <3>1
    <3>3. Figure(n % b, l) \in Nat
      BY <3>2, FigureIsCharacter
    <3> QED BY <3>2, <3>3
  <2>2. \A s \in X, c \in Nat : Append(s, c) \in X
    BY <1>2
  <2>3. empty \in X
    BY <1>2, <1>3
  <2> QED BY <2>1, <2>2, <2>3
<1>7. PICK F : GoesBack(F, N, X, empty, step, pred)
  <2> HIDE DEF step, pred
  <2> QED BY <1>4, <1>6, CourseRecursion
<1>8. F \in [0..N -> X] /\ \A n \in 0..N : F[n] = IF n = 0 THEN empty ELSE step[n][F[pred[n]]]
  BY <1>7 DEF GoesBack
<1>9. ASSUME NEW n \in 0..N
      PROVE  F[n] = IF n = 0 THEN <<>> ELSE Append(F[n \div b], Figure(n % b, l))
  <2>1. CASE n = 0
    BY <1>3, <1>8, <2>1
  <2>2. CASE n # 0
    <3>1. n \in 1..N /\ n \div b \in 0..N
      BY <1>4, <1>5, <2>2
    <3>2. F[n \div b] \in X
      BY <1>8, <3>1
    <3> QED BY <1>8, <2>2, <3>1, <3>2
  <2> QED BY <2>1, <2>2
<1> QED BY <1>1, <1>2, <1>8, <1>9 DEF IsFigures

(* A function with the equations of the loops gives figures. *)
LEMMA FiguresTyped ==
  ASSUME NEW M \in Nat \ {0}, NEW b, NEW l, IsBase(b, l), NEW F,
         F = [x \in 0..(M - 1) |->
                IF x = 0 THEN <<>> ELSE Append(F[x \div b], Figure(x % b, l))]
  PROVE  IsFigures(F, M, b, l)
<1> DEFINE X == 0..(M - 1)
           S == {n \in Nat : \A x \in X : x <= n => F[x] \in Seq(Nat)}
<1>1. \A x \in X : F[x] = IF x = 0 THEN <<>> ELSE Append(F[x \div b], Figure(x % b, l))
  OBVIOUS
<1>2. b \in Nat /\ b >= 2
  BY DEF IsBase
<1>3. 0 \in S
  BY <1>1
<1>4. ASSUME NEW n \in Nat, n \in S PROVE n + 1 \in S
  <2> SUFFICES ASSUME NEW x \in X, x <= n + 1 PROVE F[x] \in Seq(Nat)
    OBVIOUS
  <2>1. CASE x <= n
    BY <1>4, <2>1
  <2>2. CASE x = n + 1
    <3>1. x \div b \in Nat /\ x \div b < x /\ x % b \in 0..(b - 1)
      <4>1. x \in Nat /\ x # 0
        BY <2>2
      <4> QED BY <1>2, <4>1, WithoutLast
    <3>2. x \div b \in X /\ x \div b <= n
      BY <2>2, <3>1
    <3>3. F[x \div b] \in Seq(Nat)
      BY <1>4, <3>2
    <3>4. Figure(x % b, l) \in Nat
      BY <3>1, FigureIsCharacter
    <3>5. F[x] = Append(F[x \div b], Figure(x % b, l))
      <4>1. x # 0
        BY <2>2
      <4> QED BY <1>1, <4>1, Zenon
    <3>6. PICK s : s = F[x \div b]
      OBVIOUS
    <3>7. PICK c : c = Figure(x % b, l)
      OBVIOUS
    <3>8. Append(s, c) \in Seq(Nat)
      BY <3>3, <3>4, <3>6, <3>7
    <3> QED BY <3>5, <3>6, <3>7, <3>8, Zenon
  <2> QED BY <2>1, <2>2
<1>5. \A n \in Nat : n \in S
  <2> HIDE DEF S
  <2> QED BY <1>3, <1>4, SetInduction
<1>6. \A x \in X : F[x] \in Seq(Nat)
  <2> SUFFICES ASSUME NEW x \in X PROVE F[x] \in Seq(Nat)
    OBVIOUS
  <2>1. x \in Nat /\ x <= x
    OBVIOUS
  <2>2. x \in S
    BY <1>5, <2>1
  <2> QED BY <2>1, <2>2
<1>7. F \in [X -> Seq(Nat)]
  <2>1. F = [x \in X |-> F[x]]
    OBVIOUS
  <2> HIDE DEF X
  <2> QED BY <1>6, <2>1
<1> QED BY <1>1, <1>7 DEF IsFigures

(* What the loop of printi() leaves in the buffer. *)
LEMMA FiguresAre ==
  ASSUME NEW b, NEW l, IsBase(b, l)
  PROVE  \E F : IsFigures(F, W, b, l) /\ \A x \in Word : Figures(x, b, l) = F[x]
<1> DEFINE eq(f) == [x \in Word |-> IF x = 0 THEN <<>>
                                     ELSE Append(f[x \div b], Figure(x % b, l))]
           all == CHOOSE f : f = eq(f)
<1>1. W \in Nat \ {0} /\ Word = 0..(W - 1)
  BY WordSize DEF Word
<1>2. \A x \in Word : Figures(x, b, l) = all[x]
  BY DEF Figures
<1>3. PICK F : IsFigures(F, W, b, l)
  BY <1>1, FiguresExist
<1>4. F = eq(F)
  <2>1. F = [x \in Word |-> F[x]]
    BY <1>1, <1>3 DEF IsFigures
  <2>2. \A x \in Word : F[x] = IF x = 0 THEN <<>> ELSE Append(F[x \div b], Figure(x % b, l))
    BY <1>1, <1>3, Zenon DEF IsFigures
  <2> QED BY <2>1, <2>2
<1>5. all = eq(all)
  <2> HIDE DEF eq
  <2> QED BY <1>4
<1>6. IsFigures(all, W, b, l)
  <2> HIDE DEF all
  <2> QED BY <1>1, <1>5, FiguresTyped
<1> HIDE DEF all
<1> QED BY <1>2, <1>6

(* The divisions of printl() are those of numbers. *)
LEMMA LongDivisions ==
  ASSUME NEW x \in DWord, NEW b \in {10, 16}
  PROVE  udivdi3(x, b) = x \div b /\ umoddi3(x, b) = x % b
<1>1. b \in DWord /\ b # 0
  <2>1. 16 < W /\ W \in Nat
    BY BufferAssumption, WordSize DEF Word
  <2>2. W * W >= W /\ W * W \in Int
    BY <2>1, SMT
  <2> QED BY <2>1, <2>2 DEF DWord
<1>2. udivmoddi4(x, b) = [q |-> x \div b, r |-> x % b]
  BY <1>1, UnsignedDivision
<1> QED BY <1>2 DEF udivdi3, umoddi3

(* What the loop of printl() leaves in the buffer. *)
LEMMA LongFiguresAre ==
  ASSUME NEW b, NEW l, IsBase(b, l)
  PROVE  \E F : IsFigures(F, W * W, b, l) /\ \A x \in DWord : LongFigures(x, b, l) = F[x]
<1> DEFINE eq(f) == [x \in DWord |-> IF x = 0 THEN <<>>
                                      ELSE Append(f[x \div b], Figure(x % b, l))]
           long(f) == [x \in DWord |-> IF x = 0 THEN <<>>
                                       ELSE Append(f[udivdi3(x, b)], Figure(umoddi3(x, b), l))]
           all == CHOOSE f : f = long(f)
<1>1. PICK M : M = W * W
  OBVIOUS
<1>2. M \in Nat \ {0} /\ DWord = 0..(M - 1)
  BY <1>1, WordSize, SMT DEF DWord
<1>3. \A x \in DWord : LongFigures(x, b, l) = all[x]
  BY DEF LongFigures
<1>4. ASSUME NEW f PROVE eq(f) = long(f)
  <2>1. \A x \in DWord : udivdi3(x, b) = x \div b /\ umoddi3(x, b) = x % b
    BY LongDivisions DEF IsBase
  <2> QED BY <2>1
<1>5. PICK F : IsFigures(F, M, b, l)
  BY <1>2, FiguresExist
<1>6. F = eq(F)
  <2>1. F = [x \in DWord |-> F[x]]
    BY <1>2, <1>5 DEF IsFigures
  <2>2. \A x \in DWord : F[x] = IF x = 0 THEN <<>> ELSE Append(F[x \div b], Figure(x % b, l))
    BY <1>2, <1>5, Zenon DEF IsFigures
  <2> QED BY <2>1, <2>2
<1>7. all = eq(all)
  <2>1. all = long(all)
    <3>1. F = long(F)
      <4> HIDE DEF eq, long
      <4> QED BY <1>4, <1>6
    <3> HIDE DEF long
    <3> QED BY <3>1
  <2> HIDE DEF eq, long, all
  <2> QED BY <1>4, <2>1
<1>8. IsFigures(all, M, b, l)
  <2> HIDE DEF all
  <2> QED BY <1>2, <1>7, FiguresTyped
<1> HIDE DEF all
<1> QED BY <1>1, <1>3, <1>8

(* A number below the n-th power of ten has at most n figures. *)
LEMMA NumberOfFigures ==
  ASSUME NEW M \in Nat \ {0}, NEW b, NEW l, IsBase(b, l), NEW F, IsFigures(F, M, b, l)
  PROVE  \A n \in 0..MostTens : \A x \in 0..(M - 1) :
           x < Tens[n] => F[x] \in Seq(Nat) /\ Len(F[x]) <= n
<1> DEFINE X == 0..(M - 1)
           S == {n \in Nat : \A x \in X : x < Tens[n] => Len(F[x]) <= n}
<1>1. \A x \in X : /\ F[x] \in Seq(Nat)
                   /\ F[x] = IF x = 0 THEN <<>> ELSE Append(F[x \div b], Figure(x % b, l))
  BY Zenon DEF IsFigures
<1>2. b \in Nat /\ b >= 10
  BY DEF IsBase
<1>3. MostTens \in Nat
  BY PrintfAssumption, BufferAssumption DEF MostTens
<1>4. 0 \in S
  <2>1. Tens[0] = 1
    BY TensEquations
  <2>2. \A x \in X : x < 1 => x = 0
    OBVIOUS
  <2>3. \A x \in X : x = 0 => Len(F[x]) = 0
    BY <1>1
  <2> QED BY <2>1, <2>2, <2>3
<1>5. ASSUME NEW n \in 0..(MostTens - 1), n \in S PROVE n + 1 \in S
  <2> SUFFICES ASSUME NEW x \in X, x < Tens[n + 1] PROVE Len(F[x]) <= n + 1
    OBVIOUS
  <2>1. PICK t : t = Tens[n]
    OBVIOUS
  <2>2. t \in Nat \ {0} /\ x < 10 * t
    <3>1. n \in 0..MostTens
      BY <1>3
    <3> QED BY <2>1, <3>1, TensEquations
  <2>3. CASE x = 0
    BY <1>1, <2>3
  <2>4. CASE x # 0
    <3>1. PICK q : q = x \div b
      OBVIOUS
    <3>2. PICK r : r = x % b
      OBVIOUS
    <3>3. q \in Nat /\ r \in 0..(b - 1) /\ x = b * q + r /\ q < x
      <4>1. x \in Nat /\ b >= 2
        BY <1>2
      <4>2. /\ x \div b \in Nat /\ x % b \in 0..(b - 1)
            /\ x = b * (x \div b) + (x % b) /\ x \div b < x
        BY <1>2, <2>4, <4>1, WithoutLast
      <4> QED BY <3>1, <3>2, <4>2
    <3>4. q < t
      <4>1. (b - 10) * q >= 0 /\ (b - 10) * q = b * q - 10 * q /\ b * q \in Int
        BY <1>2, <3>3, SMT
      <4> QED BY <1>2, <2>2, <3>3, <4>1
    <3>5. q \in X
      BY <3>3
    <3>6. Len(F[q]) <= n /\ F[q] \in Seq(Nat)
      BY <1>1, <1>5, <2>1, <3>4, <3>5
    <3>7. Figure(r, l) \in Nat
      BY <3>3, FigureIsCharacter
    <3>8. F[x] = Append(F[q], Figure(r, l))
      BY <1>1, <2>4, <3>1, <3>2
    <3>9. Len(Append(F[q], Figure(r, l))) = Len(F[q]) + 1 /\ Len(F[q]) \in Nat
      BY <3>6, <3>7
    <3> QED BY <1>5, <3>6, <3>8, <3>9
  <2> QED BY <2>3, <2>4
<1>6. \A n \in 0..MostTens : n \in S
  <2> HIDE DEF S
  <2> QED BY <1>3, <1>4, <1>5, IntervalInduction
<1> QED BY <1>1, <1>6

-----------------------------------------------------------------------------
(* The buffers *)

(* The sign takes one character, in the buffer or before it. *)
LEMMA SignFits ==
  ASSUME NEW figures \in Seq(Nat), NEW neg \in BOOLEAN, NEW w, NEW p,
         NEW s, s = WithSign(figures, neg, w, p).buffer
  PROVE  /\ Len(s) \in Nat
         /\ neg => Len(s) <= Len(figures) + 1
         /\ ~neg => Len(s) = Len(figures)
<1>1. Len(figures) \in Nat
  OBVIOUS
<1>2. CASE neg /\ w # 0 /\ "zero" \in p
  <2>1. WithSign(figures, neg, w, p).buffer = figures
    BY <1>2 DEF WithSign
  <2>2. Len(s) = Len(figures)
    BY <2>1, Zenon
  <2> QED BY <1>1, <2>2
<1>3. CASE ~(neg /\ w # 0 /\ "zero" \in p)
  <2>1. s = (IF neg THEN <<Minus>> ELSE <<>>) \o figures
    BY <1>3 DEF WithSign
  <2>2. <<Minus>> \in Seq(Nat) /\ Len(<<Minus>>) = 1
    BY DEF Minus
  <2>3. CASE neg
    BY <1>1, <2>1, <2>2, <2>3
  <2>4. CASE ~neg
    BY <1>1, <2>1, <2>4
  <2> QED BY <2>3, <2>4
<1> QED BY <1>2, <1>3

(* Words and double words come in two halves: those with a sign and those  *)
(* without.                                                                *)
LEMMA SignedHalves ==
  /\ W \div 2 \in Nat /\ W = 2 * (W \div 2)
  /\ (W * W) \div 2 = (W \div 2) * W /\ W * W = 2 * ((W \div 2) * W)
<1>1. PICK c : c = B \div 2
  OBVIOUS
<1>2. c \in Nat /\ B = 2 * c
  BY <1>1, WordSize, WordAssumption
<1>3. PICK m : m = c * B
  OBVIOUS
<1>4. B * B = 2 * m /\ m \in Nat
  BY <1>2, <1>3, WordSize, SMT
<1>5. W = 2 * m /\ W \div 2 = m
  BY <1>4, WordSize
<1>6. PICK t : t = m * W
  OBVIOUS
<1>7. W * W = 2 * t /\ t \in Nat
  BY <1>4, <1>5, <1>6, WordSize, SMT
<1>8. (W * W) \div 2 = t
  BY <1>7
<1> QED BY <1>4, <1>5, <1>6, <1>7, <1>8

(* A buffer that has room for the figures of the most negative number has  *)
(* room for the sign too, and for the figures of the largest number: that  *)
(* has one more at most.                                                   *)
LEMMA BufferHolds ==
  ASSUME NEW M \in Nat \ {0}, NEW LEN \in 2..PRINTL_BUF_LEN, M \div 2 < Tens[LEN - 2],
         NEW b, NEW l, IsBase(b, l), NEW F, IsFigures(F, M, b, l),
         NEW j \in 0..(M - 1), NEW neg \in BOOLEAN, neg => j <= M \div 2, NEW w, NEW p,
         NEW s, s = WithSign(F[j], neg, w, p).buffer
  PROVE  Len(s) + 1 <= LEN
<1>1. LEN - 2 \in 0..(MostTens - 1) /\ LEN - 1 \in 0..MostTens
      /\ LEN - 2 \in 0..MostTens /\ (LEN - 2) + 1 = LEN - 1
      /\ PRINTL_BUF_LEN \in Nat /\ LEN \in Nat
  BY PrintfAssumption, BufferAssumption DEF MostTens
<1>2. PICK t : t = Tens[LEN - 2]
  OBVIOUS
<1>3. Tens[LEN - 1] = 10 * t /\ t \in Nat \ {0}
  <2>1. Tens[(LEN - 2) + 1] = 10 * Tens[LEN - 2]
    BY <1>1, TensEquations
  <2>2. Tens[LEN - 2] \in Nat \ {0}
    BY <1>1, TensEquations
  <2> QED BY <1>1, <1>2, <2>1, <2>2
<1>4. M \div 2 < t /\ j < 10 * t /\ j \in Nat
  BY <1>2, <1>3
<1>5. \A n \in 0..MostTens : j < Tens[n] => F[j] \in Seq(Nat) /\ Len(F[j]) <= n
  BY NumberOfFigures
<1>6. F[j] \in Seq(Nat) /\ Len(F[j]) <= LEN - 1
  BY <1>1, <1>3, <1>4, <1>5
<1>7. PICK figures : figures = F[j]
  OBVIOUS
<1>8. figures \in Seq(Nat) /\ s = WithSign(figures, neg, w, p).buffer
  BY <1>6, <1>7, Zenon
<1>9. Len(s) \in Nat /\ (neg => Len(s) <= Len(figures) + 1) /\ (~neg => Len(s) = Len(figures))
  BY <1>8, SignFits
<1>10. Len(figures) \in Nat
  BY <1>8
<1>11. CASE neg
  <2>1. j < Tens[LEN - 2]
    BY <1>2, <1>3, <1>4, <1>11
  <2>2. Len(figures) <= LEN - 2
    BY <1>1, <1>5, <1>7, <2>1
  <2>3. Len(s) <= Len(figures) + 1
    BY <1>9, <1>11, Zenon
  <2>4. PICK n : n = Len(s)
    OBVIOUS
  <2>5. PICK m : m = Len(figures)
    OBVIOUS
  <2>6. n <= m + 1 /\ m <= LEN - 2 /\ n \in Nat /\ m \in Nat
    BY <1>9, <1>10, <2>2, <2>3, <2>4, <2>5, Zenon
  <2>7. n + 1 <= LEN
    BY <1>1, <2>6
  <2> QED BY <2>4, <2>7, Zenon
<1>12. CASE ~neg
  <2>1. Len(figures) <= LEN - 1
    BY <1>6, <1>7, Zenon
  <2> QED BY <1>1, <1>9, <1>10, <1>12, <2>1
<1> QED BY <1>11, <1>12

(* The buffer of the number zero. *)
LEMMA ZeroFits ==
  ASSUME NEW w, NEW p, NEW s, s = WithSign(<<Zero>>, FALSE, w, p).buffer
  PROVE  Len(s) = 1
<1>1. s = <<>> \o <<Zero>>
  BY DEF WithSign
<1>2. PICK e, z : e = <<>> /\ z = <<Zero>>
  OBVIOUS
<1>3. e \in Seq(Nat) /\ z \in Seq(Nat) /\ Len(z) = 1 /\ Len(e) = 0
  BY <1>2 DEF Zero
<1>4. Len(e \o z) = 1
  BY <1>3
<1>5. s = e \o z
  BY <1>1, <1>2, Zenon
<1> QED BY <1>4, <1>5, Zenon

(* The magnitude of a number with a sign is half of the words at most. *)
LEMMA NegatedHalf ==
  ASSUME NEW M \in Nat \ {0}, NEW i \in 1..(M - 1), 2 * i >= M
  PROVE  (-i) % M = M - i /\ (-i) % M \in 1..(M - 1) /\ (-i) % M <= M \div 2
<1>1. (-i) % M = M - i
  <2>1. -i = M * (-1) + (M - i) /\ M - i \in 0..(M - 1)
    OBVIOUS
  <2> QED BY <2>1, Remainder
<1> QED BY <1>1

(* What the code tests for the sign of a double word. *)
LEMMA SignedDoubles ==
  ASSUME NEW i \in DWord
  PROVE  IF Negative(i) THEN 2 * i >= W * W /\ Signed(i) = i - W * W ELSE Signed(i) = i
<1>1. PICK M : M = W * W
  OBVIOUS
<1>2. PICK h : h = High(i)
  OBVIOUS
<1>3. PICK half : half = W \div 2
  OBVIOUS
<1>4. i = h * W + Low(i) /\ h \in Nat /\ h < W /\ Low(i) \in Nat /\ W \in Nat /\ half \in Nat
  BY <1>2, <1>3, WordsOf, WordSize, SignedHalves DEF Word
<1>5. Negative(i) <=> h >= half
  <2>1. Negative(i) <=> (IF h >= half THEN h - W ELSE h) < 0
    BY <1>2, <1>3, Zenon DEF Negative, SignedWord
  <2> QED BY <1>4, <2>1
<1>6. Signed(i) = IF h >= half THEN i - M ELSE i
  BY <1>1, <1>2, <1>3, Zenon DEF Signed
<1>7. h >= half => 2 * i >= M
  <2> SUFFICES ASSUME h >= half PROVE 2 * i >= M
    OBVIOUS
  <2>1. (h - half) * W >= 0 /\ (h - half) * W = h * W - half * W
    BY <1>4, SMT
  <2>2. PICK t, rest : t = half * W /\ rest = h * W
    OBVIOUS
  <2>3. M = 2 * t /\ t \in Int /\ rest \in Int
    BY <1>1, <1>3, <1>4, <2>2, SignedHalves, SMT
  <2>4. rest >= t
    BY <2>1, <2>2, <2>3
  <2> QED BY <1>4, <2>2, <2>3, <2>4
<1> QED BY <1>1, <1>5, <1>6, <1>7

(* The bases of printi() and printl() take a sign only in base 10.         *)
IsSign(sg, b) == sg \in BOOLEAN /\ (sg => b = 10)

(* A conversion of the number i, which has M values, to a text of figures  *)
(* that denote a number.                                                   *)
IsConversion(text, M, number, b, l, w, p) ==
  \E F : \E j \in 1..(M - 1) : \E neg \in BOOLEAN :
    /\ IsFigures(F, M, b, l)
    /\ text = WithSign(F[j], neg, w, p)
    /\ neg => j <= M \div 2
    /\ number = IF neg THEN -j ELSE j

(* printf.c 219-255: printi() converts the magnitude of a number.          *)
LEMMA PrintiConverts ==
  ASSUME NEW i \in Word, i # 0, NEW b, NEW l, IsBase(b, l), NEW sg, IsSign(sg, b),
         NEW w, NEW p, NEW number, number = IF sg THEN SignedWord(i) ELSE i
  PROVE  IsConversion(printi(i, b, sg, w, p, l), W, number, b, l, w, p)
<1>1. W \in Nat \ {0} /\ Word = 0..(W - 1) /\ i \in 1..(W - 1)
  BY WordSize DEF Word
<1>2. PICK neg : neg = (sg /\ b = 10 /\ SignedWord(i) < 0)
  OBVIOUS
<1>3. PICK j : j = IF neg THEN (-i) % W ELSE i
  OBVIOUS
<1>4. PICK F : IsFigures(F, W, b, l) /\ \A x \in Word : Figures(x, b, l) = F[x]
  BY FiguresAre
<1>5. neg \in BOOLEAN
  BY <1>2
<1>6. PICK half : half = W \div 2
  OBVIOUS
<1>7. /\ W = 2 * half /\ half \in Nat
      /\ i >= half => SignedWord(i) = i - W
      /\ i < half => SignedWord(i) = i
  BY <1>6, SignedWords
<1>8. j \in 1..(W - 1) /\ (neg => j <= half) /\ number = IF neg THEN -j ELSE j
  <2>1. CASE neg
    <3>1. sg /\ SignedWord(i) < 0
      BY <1>2, <2>1, Zenon
    <3>2. i >= half /\ number = i - W
      BY <1>1, <1>7, <3>1
    <3>3. 2 * i >= W
      BY <1>1, <1>7, <3>2
    <3>4. (-i) % W = W - i /\ (-i) % W \in 1..(W - 1) /\ (-i) % W <= W \div 2
      BY <1>1, <3>3, NegatedHalf
    <3>5. j = W - i /\ j \in 1..(W - 1) /\ j <= half
      BY <1>3, <1>6, <2>1, <3>4, Zenon
    <3> QED BY <1>1, <2>1, <3>2, <3>5
  <2>2. CASE ~neg
    <3>1. j = i
      BY <1>3, <2>2, Zenon
    <3>2. CASE sg
      <4>1. ~(SignedWord(i) < 0)
        BY <1>2, <2>2, <3>2, Zenon DEF IsSign
      <4>2. number = i
        BY <1>1, <1>7, <3>2, <4>1
      <4> QED BY <1>1, <2>2, <3>1, <4>2
    <3>3. CASE ~sg
      BY <1>1, <2>2, <3>1, <3>3
    <3> QED BY <3>2, <3>3
  <2> QED BY <2>1, <2>2
<1>9. printi(i, b, sg, w, p, l) = WithSign(F[j], neg, w, p)
  <2>1. printi(i, b, sg, w, p, l) = WithSign(Figures(j, b, l), neg, w, p)
    BY <1>2, <1>3, Zenon DEF printi
  <2>2. j \in Word
    BY <1>1, <1>8
  <2> QED BY <1>4, <2>1, <2>2, Zenon
<1> QED BY <1>4, <1>5, <1>6, <1>8, <1>9, Zenon DEF IsConversion

(* printf.c 259-296: printl() does.                                        *)
LEMMA PrintlConverts ==
  ASSUME NEW i \in DWord, i # 0, NEW b, NEW l, IsBase(b, l), NEW sg, IsSign(sg, b),
         NEW w, NEW p, NEW number, number = IF sg THEN Signed(i) ELSE i
  PROVE  IsConversion(printl(i, b, sg, w, p, l), W * W, number, b, l, w, p)
<1>1. PICK M : M = W * W
  OBVIOUS
<1>2. M \in Nat \ {0} /\ DWord = 0..(M - 1) /\ i \in 1..(M - 1)
  BY <1>1, WordSize, SMT DEF DWord
<1>3. PICK neg : neg = (sg /\ b = 10 /\ Negative(i))
  OBVIOUS
<1>4. PICK j : j = IF neg THEN (-i) % M ELSE i
  OBVIOUS
<1>5. PICK F : IsFigures(F, M, b, l) /\ \A x \in DWord : LongFigures(x, b, l) = F[x]
  BY <1>1, LongFiguresAre
<1>6. neg \in BOOLEAN
  BY <1>3
<1>7. IF Negative(i) THEN 2 * i >= M /\ Signed(i) = i - M ELSE Signed(i) = i
  BY <1>1, SignedDoubles
<1>8. j \in 1..(M - 1) /\ (neg => j <= M \div 2) /\ number = IF neg THEN -j ELSE j
  <2>1. CASE neg
    <3>1. sg /\ Negative(i)
      BY <1>3, <2>1, Zenon
    <3>2. 2 * i >= M /\ number = i - M
      BY <1>7, <3>1, Zenon
    <3>3. (-i) % M = M - i /\ (-i) % M \in 1..(M - 1) /\ (-i) % M <= M \div 2
      BY <1>2, <3>2, NegatedHalf
    <3>4. j = M - i /\ j \in 1..(M - 1) /\ j <= M \div 2
      BY <1>4, <2>1, <3>3, Zenon
    <3> QED BY <1>2, <2>1, <3>2, <3>4
  <2>2. CASE ~neg
    <3>1. j = i
      BY <1>4, <2>2, Zenon
    <3>2. number = i
      BY <1>3, <1>7, <2>2, Zenon DEF IsSign
    <3> QED BY <1>2, <2>2, <3>1, <3>2
  <2> QED BY <2>1, <2>2
<1>9. printl(i, b, sg, w, p, l) = WithSign(F[j], neg, w, p)
  <2>1. printl(i, b, sg, w, p, l) = WithSign(LongFigures(j, b, l), neg, w, p)
    BY <1>1, <1>3, <1>4, Zenon DEF printl
  <2>2. j \in DWord
    BY <1>2, <1>8
  <2> QED BY <1>5, <2>1, <2>2, Zenon
<1> QED BY <1>1, <1>5, <1>6, <1>8, <1>9, Zenon DEF IsConversion

(* A conversion fits a buffer that is large enough for its numbers.        *)
LEMMA ConversionFits ==
  ASSUME NEW M \in Nat \ {0}, NEW LEN \in 2..PRINTL_BUF_LEN, M \div 2 < Tens[LEN - 2],
         NEW b, NEW l, IsBase(b, l), NEW w, NEW p, NEW number, NEW text,
         \/ text = WithSign(<<Zero>>, FALSE, w, p)
         \/ IsConversion(text, M, number, b, l, w, p),
         NEW s, s = text.buffer
  PROVE  Len(s) + 1 <= LEN
<1>1. CASE text = WithSign(<<Zero>>, FALSE, w, p)
  <2>1. s = WithSign(<<Zero>>, FALSE, w, p).buffer
    BY <1>1, Zenon
  <2>2. Len(s) = 1
    BY <2>1, ZeroFits
  <2>3. LEN >= 2 /\ LEN \in Int
    BY BufferAssumption
  <2> QED BY <2>2, <2>3
<1>2. CASE IsConversion(text, M, number, b, l, w, p)
  <2>1. PICK F : \E j \in 1..(M - 1) : \E neg \in BOOLEAN :
          /\ IsFigures(F, M, b, l)
          /\ text = WithSign(F[j], neg, w, p)
          /\ neg => j <= M \div 2
    BY <1>2, Zenon DEF IsConversion
  <2>2. PICK j \in 1..(M - 1) : \E neg \in BOOLEAN :
          /\ IsFigures(F, M, b, l)
          /\ text = WithSign(F[j], neg, w, p)
          /\ neg => j <= M \div 2
    BY <2>1, Zenon
  <2>3. PICK neg \in BOOLEAN : /\ IsFigures(F, M, b, l)
                               /\ text = WithSign(F[j], neg, w, p)
                               /\ neg => j <= M \div 2
    BY <2>2, Zenon
  <2>4. s = WithSign(F[j], neg, w, p).buffer
    BY <2>3, Zenon
  <2>5. j \in 0..(M - 1)
    OBVIOUS
  <2> QED BY <2>3, <2>4, <2>5, BufferHolds
<1> QED BY <1>1, <1>2

(* printf.c 219-255: printi() writes nothing before its buffer. *)
LEMMA PrintiFits ==
  ASSUME NEW i \in Word, NEW b, NEW l, IsBase(b, l), NEW sg, IsSign(sg, b), NEW w, NEW p,
         NEW s, s = printi(i, b, sg, w, p, l).buffer
  PROVE  Len(s) + 1 <= PRINT_BUF_LEN
<1>1. PICK text : text = printi(i, b, sg, w, p, l)
  OBVIOUS
<1>2. PICK number : number = IF sg THEN SignedWord(i) ELSE i
  OBVIOUS
<1>3. \/ text = WithSign(<<Zero>>, FALSE, w, p)
      \/ IsConversion(text, W, number, b, l, w, p)
  <2>1. i = 0 => text = WithSign(<<Zero>>, FALSE, w, p)
    BY <1>1, Zenon DEF printi
  <2>2. i # 0 => IsConversion(text, W, number, b, l, w, p)
    BY <1>1, <1>2, PrintiConverts
  <2> QED BY <2>1, <2>2
<1>4. s = text.buffer
  BY <1>1, Zenon
<1>5. W \in Nat \ {0} /\ PRINT_BUF_LEN \in 2..PRINTL_BUF_LEN
      /\ W \div 2 < Tens[PRINT_BUF_LEN - 2]
  BY WordSize, BufferAssumption
<1> QED BY <1>3, <1>4, <1>5, ConversionFits

(* printf.c 259-296: printl() writes nothing before its buffer. *)
LEMMA PrintlFits ==
  ASSUME NEW i \in DWord, NEW b, NEW l, IsBase(b, l), NEW sg, IsSign(sg, b), NEW w, NEW p,
         NEW s, s = printl(i, b, sg, w, p, l).buffer
  PROVE  Len(s) + 1 <= PRINTL_BUF_LEN
<1>1. PICK text : text = printl(i, b, sg, w, p, l)
  OBVIOUS
<1>2. PICK number : number = IF sg THEN Signed(i) ELSE i
  OBVIOUS
<1>3. PICK M : M = W * W
  OBVIOUS
<1>4. \/ text = WithSign(<<Zero>>, FALSE, w, p)
      \/ IsConversion(text, M, number, b, l, w, p)
  <2>1. i = 0 => text = WithSign(<<Zero>>, FALSE, w, p)
    BY <1>1, Zenon DEF printl
  <2>2. i # 0 => IsConversion(text, M, number, b, l, w, p)
    BY <1>1, <1>2, <1>3, PrintlConverts
  <2> QED BY <2>1, <2>2
<1>5. s = text.buffer
  BY <1>1, Zenon
<1>6. M \in Nat \ {0} /\ PRINTL_BUF_LEN \in 2..PRINTL_BUF_LEN
      /\ M \div 2 < Tens[PRINTL_BUF_LEN - 2]
  <2>1. M \in Nat \ {0}
    BY <1>3, WordSize, SMT
  <2>2. PRINTL_BUF_LEN \in 2..PRINTL_BUF_LEN
    BY BufferAssumption
  <2>3. M \div 2 < Tens[PRINTL_BUF_LEN - 2]
    BY <1>3, BufferAssumption
  <2> QED BY <2>1, <2>2, <2>3
<1> QED BY <1>4, <1>5, <1>6, ConversionFits

(* What "%p" writes goes before the number, and is not in the buffer. *)
LEMMA PointerText ==
  ASSUME NEW read, NEW sg, NEW w, NEW p, NEW text, text = printi(read, 16, sg, w, p, LowerA),
         NEW f, f = text.field, NEW field, field = <<Zero, 120>> \o f,
         NEW written, written = [text EXCEPT !.field = <<Zero, 120>> \o @]
  PROVE  written.field = field /\ written.buffer = text.buffer
<1>1. DOMAIN text = {"buffer", "field"}
  <2>1. ASSUME NEW figures, NEW neg
        PROVE  DOMAIN WithSign(figures, neg, w, p) = {"buffer", "field"}
    BY DEF WithSign
  <2> QED BY <2>1 DEF printi
<1>2. written = [text EXCEPT !.field = field]
  BY Zenon
<1> QED BY <1>1, <1>2

(* A conversion that writes what fits the buffer. *)
LEMMA WrittenFits ==
  ASSUME NEW conv \in Numeric, NEW given, NEW text, Write(conv, given, text),
         NEW s, s = text.buffer,
         Len(s) + 1 <= IF at = "ll" /\ conv # "p" THEN PRINTL_BUF_LEN ELSE PRINT_BUF_LEN
  PROVE  BufferFits'
<1>1. last'.conv = conv /\ last'.long = (at = "ll") /\ last'.buffer = s
  BY DEF Write
<1> QED BY <1>1, Zenon DEF BufferFits

(* printf.c 219-296: whatever a number, a base and a width, printi() and   *)
(* printl() write nothing before their buffers.                            *)
THEOREM PrintfBuffers == Spec => []BufferFits
<1>1. Init => BufferFits
  BY DEF Init, BufferFits, None, Numeric
<1>2. BufferFits /\ [Next]_vars => BufferFits'
  <2> SUFFICES ASSUME BufferFits, [Next]_vars PROVE BufferFits'
    OBVIOUS
  <2>1. CASE last' = last
    BY <2>1, Zenon DEF BufferFits
  <2>2. ASSUME last'.conv \notin Numeric PROVE BufferFits'
    BY <2>2, Zenon DEF BufferFits
  <2>3. CASE Literal \/ Percent
    <3>1. last' = None
      BY <2>3 DEF Literal, Percent
    <3>2. last'.conv \notin Numeric
      BY <3>1 DEF None, Numeric
    <3> QED BY <2>2, <3>2
  <2>4. CASE Return \/ PercentSign \/ FormatStep \/ ConvertUnknown \/ UNCHANGED vars
    <3>1. last' = last
      BY <2>4 DEF Return, PercentSign, FormatStep, Justify, PadZero, DecimalPoint, Long,
                  LongLong, Width, Decimals, Reading, ConvertUnknown, vars, outputVars
    <3> QED BY <2>1, <3>1
  <2>5. ASSUME NEW c \in {"d", "u", "x", "X"}, ConvertInt(c) PROVE BufferFits'
    <3>1. PICK given, read \in IntArgument :
            /\ at # "ll"
            /\ Write(c, given, printi(read, Base(c), Sign(c), width, pad, Letter(c)))
      BY <2>5, Zenon DEF ConvertInt
    <3>2. PICK s : s = printi(read, Base(c), Sign(c), width, pad, Letter(c)).buffer
      OBVIOUS
    <3>3. IsBase(Base(c), Letter(c)) /\ IsSign(Sign(c), Base(c)) /\ read \in Word
          /\ c \in Numeric
      BY PrintfAssumption DEF IsBase, Base, Letter, Sign, IsSign, Numeric
    <3>4. Len(s) + 1 <= PRINT_BUF_LEN
      BY <3>2, <3>3, PrintiFits
    <3> QED BY <3>1, <3>2, <3>3, <3>4, WrittenFits
  <2>6. ASSUME NEW c \in {"d", "u", "x", "X"}, ConvertLong(c) PROVE BufferFits'
    <3>1. PICK given, read \in LongArgument :
            /\ at = "ll"
            /\ Write(c, given, printl(read, Base(c), Sign(c), width, pad, Letter(c)))
      BY <2>6, Zenon DEF ConvertLong
    <3>2. PICK s : s = printl(read, Base(c), Sign(c), width, pad, Letter(c)).buffer
      OBVIOUS
    <3>3. IsBase(Base(c), Letter(c)) /\ IsSign(Sign(c), Base(c)) /\ read \in DWord
          /\ c \in Numeric /\ c # "p"
      BY PrintfAssumption DEF IsBase, Base, Letter, Sign, IsSign, Numeric
    <3>4. Len(s) + 1 <= PRINTL_BUF_LEN
      BY <3>2, <3>3, PrintlFits
    <3> QED BY <3>1, <3>2, <3>3, <3>4, WrittenFits
  <2>7. CASE ConvertPointer
    <3>1. PICK w : w = IF width = 0 THEN 8 ELSE width
      OBVIOUS
    <3>2. PICK p : p = IF pad = {} THEN {"zero"} ELSE pad
      OBVIOUS
    <3>3. PICK given, read \in IntArgument :
            Write("p", given, [printi(read, 16, FALSE, w, p, LowerA)
                                 EXCEPT !.field = <<Zero, 120>> \o @])
      <4>1. PICK given, read \in IntArgument :
              Write("p", given, [printi(read, 16, FALSE, IF width = 0 THEN 8 ELSE width,
                                        IF pad = {} THEN {"zero"} ELSE pad, LowerA)
                                   EXCEPT !.field = <<Zero, 120>> \o @])
        BY <2>7, Zenon DEF ConvertPointer
      <4>2. printi(read, 16, FALSE, IF width = 0 THEN 8 ELSE width,
                   IF pad = {} THEN {"zero"} ELSE pad, LowerA)
              = printi(read, 16, FALSE, w, p, LowerA)
        BY <3>1, <3>2, Zenon
      <4>3. Write("p", given, [printi(read, 16, FALSE, w, p, LowerA)
                                 EXCEPT !.field = <<Zero, 120>> \o @])
        BY <4>1, <4>2, Zenon
      <4> QED BY <4>3, Zenon
    <3>4. PICK text : text = printi(read, 16, FALSE, w, p, LowerA)
      OBVIOUS
    <3>5. PICK s : s = text.buffer
      OBVIOUS
    <3>6. PICK written : written = [text EXCEPT !.field = <<Zero, 120>> \o @]
      OBVIOUS
    <3>8. s = written.buffer
      BY <3>4, <3>5, <3>6, PointerText
    <3>9. IsBase(16, LowerA) /\ read \in Word /\ "p" \in Numeric
      BY PrintfAssumption DEF IsBase, Numeric
    <3>10. PICK sg : sg = FALSE
      OBVIOUS
    <3>11. IsSign(sg, 16) /\ s = printi(read, 16, sg, w, p, LowerA).buffer
      BY <3>4, <3>5, <3>10, Zenon DEF IsSign
    <3>12. Len(s) + 1 <= PRINT_BUF_LEN
      BY <3>9, <3>11, PrintiFits
    <3>13. Write("p", given, written)
      BY <3>3, <3>4, <3>6, Zenon
    <3> QED BY <3>8, <3>9, <3>12, <3>13, WrittenFits
  <2>8. ASSUME NEW conv, NEW given, NEW text, Write(conv, given, text), conv \notin Numeric
        PROVE  BufferFits'
    <3>1. last'.conv = conv
      BY <2>8 DEF Write
    <3> QED BY <2>2, <2>8, <3>1, Zenon
  <2>9. CASE ConvertString \/ ConvertChar \/ ConvertDouble
    <3>1. \E conv \in {"s", "c", "f"} : \E given, text : Write(conv, given, text)
      BY <2>9, Zenon DEF ConvertString, ConvertChar, ConvertDouble
    <3>2. {"s", "c", "f"} \cap Numeric = {}
      BY DEF Numeric
    <3> QED BY <2>8, <3>1, <3>2
  <2> QED BY <2>3, <2>4, <2>5, <2>6, <2>7, <2>9 DEF Next, Conversion
<1> QED BY <1>1, <1>2, PTL DEF Spec

-----------------------------------------------------------------------------
(* What figures denote *)

(* The number that the first figures denote, figure by figure. *)
IsNatural(f, s, b) ==
  /\ f \in [0..Len(s) -> Int]
  /\ f[0] = 0
  /\ \A n \in 1..Len(s) : f[n] = f[n - 1] * b + Weight(s[n])

(* Natural goes through these numbers. *)
LEMMA NaturalRounds ==
  ASSUME NEW s \in Seq(Nat), NEW b \in Nat
  PROVE  \E f : IsNatural(f, s, b) /\ Natural(s, b) = f[Len(s)]
<1> DEFINE N == Len(s)
           step == [n \in 1..N |-> [x \in Int |-> x * b + Weight(s[n])]]
           eq(f) == [n \in 0..N |-> IF n = 0 THEN 0 ELSE f[n - 1] * b + Weight(s[n])]
           all == CHOOSE f : f = eq(f)
<1>1. N \in Nat
  OBVIOUS
<1>2. \A n \in 1..N : Weight(s[n]) \in Int
  BY DEF Weight, LowerA, UpperA, Zero
<1>3. ASSUME NEW x \in Int, NEW n \in 1..N PROVE x * b + Weight(s[n]) \in Int
  <2>1. x * b \in Int
    BY SMT
  <2> QED BY <1>2, <2>1
<1>4. step \in [1..N -> [Int -> Int]]
  <2> HIDE DEF N
  <2> QED BY <1>3
<1>5. PICK base : base = 0
  OBVIOUS
<1>6. PICK f : IsRecursive(f, N, Int, base, step)
  <2>1. base \in Int
    BY <1>5
  <2> HIDE DEF step, N
  <2> QED BY <1>1, <1>4, <2>1, IntervalRecursion
<1>7. f \in [0..N -> Int] /\ \A n \in 0..N : f[n] = IF n = 0 THEN base ELSE step[n][f[n - 1]]
  BY <1>6 DEF IsRecursive
<1>8. ASSUME NEW n \in 0..N
      PROVE  f[n] = IF n = 0 THEN 0 ELSE f[n - 1] * b + Weight(s[n])
  <2>1. CASE n = 0
    <3>1. f[n] = base
      <4> HIDE DEF step
      <4> QED BY <1>7, <2>1, Zenon
    <3> QED BY <1>5, <2>1, <3>1, Zenon
  <2>2. CASE n # 0
    <3>1. n \in 1..N /\ n - 1 \in 0..N
      BY <1>1, <2>2
    <3>2. f[n - 1] \in Int
      BY <1>7, <3>1
    <3>3. f[n] = step[n][f[n - 1]]
      <4> HIDE DEF step
      <4> QED BY <1>7, <2>2, Zenon
    <3>4. step[n][f[n - 1]] = f[n - 1] * b + Weight(s[n])
      <4> HIDE DEF N
      <4> QED BY <3>1, <3>2
    <3> QED BY <2>2, <3>3, <3>4, Zenon
  <2> QED BY <2>1, <2>2
<1>9. f = eq(f)
  <2>1. f = [n \in 0..N |-> f[n]]
    BY <1>7
  <2> QED BY <1>8, <2>1, Zenon
<1>10. all = eq(all)
  <2> HIDE DEF eq
  <2> QED BY <1>9
<1>11. Natural(s, b) = all[N]
  BY DEF Natural
<1>12. \A n \in 0..N : all[n] = IF n = 0 THEN 0 ELSE all[n - 1] * b + Weight(s[n])
  <2> HIDE DEF all, N
  <2> QED BY <1>10
<1>13. all[0] = 0 /\ \A n \in 1..N : all[n] = all[n - 1] * b + Weight(s[n])
  <2> HIDE DEF all, N
  <2> QED BY <1>1, <1>12
<1>14. all \in [0..N -> Int]
  <2> DEFINE S == {n \in Nat : all[n] \in Int}
  <2>1. 0 \in S
    <3> HIDE DEF all, N
    <3> QED BY <1>13
  <2>2. ASSUME NEW n \in 0..(N - 1), n \in S PROVE n + 1 \in S
    <3> HIDE DEF all, N
    <3>1. n + 1 \in 1..N /\ (n + 1) - 1 = n /\ all[n] \in Int
      BY <1>1, <2>2
    <3>2. PICK x : x = all[n]
      OBVIOUS
    <3>3. PICK m : m = n + 1
      OBVIOUS
    <3>4. all[m] = x * b + Weight(s[m])
      BY <1>13, <3>1, <3>2, <3>3
    <3>5. x * b + Weight(s[m]) \in Int
      BY <1>3, <3>1, <3>2, <3>3
    <3>6. m \in Nat
      BY <1>1, <3>3
    <3> QED BY <3>3, <3>4, <3>5, <3>6
  <2>3. \A n \in 0..N : n \in S
    <3> HIDE DEF S, N
    <3> QED BY <1>1, <2>1, <2>2, IntervalInduction
  <2>4. \A n \in 0..N : all[n] \in Int
    BY <2>3
  <2> HIDE DEF all, N
  <2>5. all = [n \in 0..N |-> all[n]]
    BY <1>10
  <2> QED BY <2>4, <2>5
<1> HIDE DEF all
<1> QED BY <1>11, <1>13, <1>14 DEF IsNatural

(* Zeros before figures do not count. *)
LEMMA LeadingZerosDenote ==
  ASSUME NEW s \in Seq(Nat), NEW t \in Seq(Nat), NEW k \in Nat, Len(t) = k + Len(s),
         \A i \in 1..k : t[i] = Zero, \A i \in 1..Len(s) : t[k + i] = s[i], NEW b \in Nat
  PROVE  Natural(t, b) = Natural(s, b)
<1>1. PICK f : IsNatural(f, t, b) /\ Natural(t, b) = f[Len(t)]
  BY NaturalRounds
<1>2. PICK g : IsNatural(g, s, b) /\ Natural(s, b) = g[Len(s)]
  BY NaturalRounds
<1>3. PICK M, N : M = Len(t) /\ N = Len(s)
  OBVIOUS
<1>4. M \in Nat /\ N \in Nat /\ M = k + N
  BY <1>3
<1> DEFINE S == {n \in Nat : f[n] = IF n <= k THEN 0 ELSE g[n - k]}
<1>5. 0 \in S
  BY <1>1 DEF IsNatural
<1>6. ASSUME NEW n \in 0..(M - 1), n \in S PROVE n + 1 \in S
  <2>1. n + 1 \in 1..M /\ (n + 1) - 1 = n
    BY <1>4
  <2>2. f[n + 1] = f[n] * b + Weight(t[n + 1])
    BY <1>1, <1>3, <2>1 DEF IsNatural
  <2>3. CASE n + 1 <= k
    <3>1. f[n] = 0
      BY <1>6, <2>3
    <3>2. t[n + 1] = Zero
      BY <2>3
    <3>3. Weight(Zero) = 0
      BY DEF Weight, Zero, LowerA, UpperA
    <3>4. 0 * b = 0
      BY SMT
    <3>5. f[n + 1] = 0
      BY <2>2, <3>1, <3>2, <3>3, <3>4
    <3> QED BY <2>3, <3>5
  <2>4. CASE n + 1 > k
    <3>1. PICK i : i = n + 1 - k
      OBVIOUS
    <3>2. i \in 1..N /\ k + i = n + 1 /\ i - 1 = n - k
      BY <1>4, <2>4, <3>1
    <3>3. t[n + 1] = s[i]
      BY <1>3, <3>2
    <3>4. f[n] = g[i - 1]
      <4>1. CASE n <= k
        <5>1. f[n] = 0 /\ i - 1 = 0
          BY <1>6, <2>4, <3>2, <4>1
        <5> QED BY <1>2, <5>1 DEF IsNatural
      <4>2. CASE ~(n <= k)
        BY <1>6, <3>2, <4>2
      <4> QED BY <4>1, <4>2
    <3>5. g[i] = g[i - 1] * b + Weight(s[i])
      BY <1>2, <1>3, <3>2 DEF IsNatural
    <3>6. f[n + 1] = g[i]
      BY <2>2, <3>3, <3>4, <3>5
    <3> QED BY <2>4, <3>1, <3>6
  <2> QED BY <1>4, <2>3, <2>4
<1>7. \A n \in 0..M : n \in S
  <2> HIDE DEF S
  <2> QED BY <1>4, <1>5, <1>6, IntervalInduction
<1>8. f[M] = g[N]
  <2>1. M \in 0..M /\ M \in S
    BY <1>4, <1>7
  <2>2. CASE N = 0
    <3>1. f[M] = 0 /\ g[N] = 0
      BY <1>2, <1>4, <2>1, <2>2 DEF IsNatural
    <3> QED BY <3>1
  <2>3. CASE N # 0
    <3>1. ~(M <= k) /\ M - k = N
      BY <1>4, <2>3
    <3> QED BY <2>1, <3>1
  <2> QED BY <2>2, <2>3
<1> QED BY <1>1, <1>2, <1>3, <1>8

(* One more figure. *)
LEMMA NaturalAppend ==
  ASSUME NEW s \in Seq(Nat), NEW c \in Nat, NEW b \in Nat
  PROVE  Natural(Append(s, c), b) = Natural(s, b) * b + Weight(c)
<1>1. PICK t : t = Append(s, c)
  OBVIOUS
<1>2. PICK N : N = Len(s)
  OBVIOUS
<1>3. t \in Seq(Nat) /\ N \in Nat /\ Len(t) = N + 1 /\ t[N + 1] = c
      /\ \A i \in 1..N : t[i] = s[i]
  BY <1>1, <1>2
<1>4. PICK f : IsNatural(f, t, b) /\ Natural(t, b) = f[Len(t)]
  BY <1>3, NaturalRounds
<1>5. PICK g : IsNatural(g, s, b) /\ Natural(s, b) = g[Len(s)]
  BY NaturalRounds
<1> DEFINE S == {n \in Nat : f[n] = g[n]}
<1>6. 0 \in S
  BY <1>4, <1>5 DEF IsNatural
<1>7. ASSUME NEW n \in 0..(N - 1), n \in S PROVE n + 1 \in S
  <2>1. n + 1 \in 1..N /\ (n + 1) - 1 = n /\ n + 1 \in 1..(N + 1)
    BY <1>3
  <2>2. f[n + 1] = f[n] * b + Weight(t[n + 1])
    BY <1>3, <1>4, <2>1 DEF IsNatural
  <2>3. g[n + 1] = g[n] * b + Weight(s[n + 1])
    BY <1>2, <1>5, <2>1 DEF IsNatural
  <2>4. f[n] = g[n] /\ t[n + 1] = s[n + 1]
    BY <1>3, <1>7, <2>1
  <2>5. f[n + 1] = g[n + 1]
    BY <2>2, <2>3, <2>4, Zenon
  <2> QED BY <2>5
<1>8. \A n \in 0..N : n \in S
  <2> HIDE DEF S
  <2> QED BY <1>3, <1>6, <1>7, IntervalInduction
<1>9. f[N] = g[N]
  BY <1>3, <1>8
<1>10. f[N + 1] = f[N] * b + Weight(c)
  <2>1. N + 1 \in 1..(N + 1) /\ (N + 1) - 1 = N
    BY <1>3
  <2> QED BY <1>3, <1>4, <2>1 DEF IsNatural
<1> QED BY <1>1, <1>2, <1>3, <1>4, <1>5, <1>9, <1>10, Zenon

(* The characters of figures. *)
IsFigure(c) == c \in Nat /\ c # Space /\ c # Minus

(* A figure is read as what was converted. *)
LEMMA FigureDenotes ==
  ASSUME NEW b, NEW l, IsBase(b, l), NEW t \in 0..(b - 1)
  PROVE  /\ IsFigure(Figure(t, l)) /\ Weight(Figure(t, l)) = t
         /\ t # 0 => Figure(t, l) # Zero
<1>1. t \in 0..15
  BY DEF IsBase
<1>2. CASE t < 10
  <2>1. Figure(t, l) = t + 48
    BY <1>1, <1>2 DEF Figure, Zero
  <2> QED BY <1>1, <1>2, <2>1 DEF IsFigure, Weight, Zero, LowerA, UpperA, Space, Minus
<1>3. CASE t >= 10 /\ l = LowerA
  <2>1. Figure(t, l) = t + 87
    BY <1>1, <1>3 DEF Figure, LowerA
  <2> QED BY <1>1, <1>3, <2>1 DEF IsFigure, Weight, Zero, LowerA, UpperA, Space, Minus
<1>4. CASE t >= 10 /\ l = UpperA
  <2>1. Figure(t, l) = t + 55
    BY <1>1, <1>4 DEF Figure, UpperA
  <2> QED BY <1>1, <1>4, <2>1 DEF IsFigure, Weight, Zero, LowerA, UpperA, Space, Minus
<1> QED BY <1>1, <1>2, <1>3, <1>4 DEF IsBase

(* A number in figures: what a reader makes of them. *)
InFigures(s, x, b) ==
  /\ s \in Seq(Nat) /\ Natural(s, b) = x
  /\ \A i \in 1..Len(s) : IsFigure(s[i])
  /\ x # 0 => Len(s) > 0 /\ s[1] # Zero
  /\ x = 0 => Len(s) = 0

(* The loops of printi() and printl() convert every number. *)
LEMMA FiguresDenote ==
  ASSUME NEW M \in Nat \ {0}, NEW b, NEW l, IsBase(b, l), NEW F, IsFigures(F, M, b, l)
  PROVE  \A x \in 0..(M - 1) : InFigures(F[x], x, b)
<1> DEFINE X == 0..(M - 1)
           S == {n \in Nat : \A x \in X : x <= n => InFigures(F[x], x, b)}
<1>1. \A x \in X : /\ F[x] \in Seq(Nat)
                   /\ F[x] = IF x = 0 THEN <<>> ELSE Append(F[x \div b], Figure(x % b, l))
  BY Zenon DEF IsFigures
<1>2. b \in Nat /\ b >= 2
  BY DEF IsBase
<1>3. InFigures(F[0], 0, b)
  <2>1. PICK s : s = F[0]
    OBVIOUS
  <2>2. s = <<>> /\ s \in Seq(Nat)
    BY <1>1, <2>1
  <2>3. Len(s) = 0
    BY <2>2
  <2>4. PICK f : IsNatural(f, s, b) /\ Natural(s, b) = f[Len(s)]
    BY <1>2, <2>2, NaturalRounds
  <2>5. Natural(s, b) = 0
    BY <2>3, <2>4 DEF IsNatural
  <2> QED BY <2>1, <2>2, <2>3, <2>5 DEF InFigures
<1>4. 0 \in S
  <2>1. \A x \in X : x <= 0 => x = 0
    OBVIOUS
  <2> HIDE DEF X
  <2> QED BY <1>3, <2>1
<1>5. ASSUME NEW n \in Nat, n \in S PROVE n + 1 \in S
  <2> SUFFICES ASSUME NEW x \in X, x <= n + 1 PROVE InFigures(F[x], x, b)
    OBVIOUS
  <2>1. CASE x <= n
    BY <1>5, <2>1
  <2>2. CASE x = n + 1
    <3>1. x \in Nat /\ x # 0
      BY <2>2
    <3>2. PICK q : q = x \div b
      OBVIOUS
    <3>3. PICK t : t = x % b
      OBVIOUS
    <3>4. q \in Nat /\ t \in 0..(b - 1) /\ x = b * q + t /\ q < x
      <4>1. /\ x \div b \in Nat /\ x % b \in 0..(b - 1)
            /\ x = b * (x \div b) + (x % b) /\ x \div b < x
        BY <1>2, <3>1, WithoutLast
      <4> QED BY <3>2, <3>3, <4>1
    <3>5. q \in X /\ q <= n
      BY <2>2, <3>1, <3>4
    <3>6. PICK s : s = F[q]
      OBVIOUS
    <3>7. InFigures(s, q, b)
      BY <1>5, <3>5, <3>6
    <3>8. PICK c : c = Figure(t, l)
      OBVIOUS
    <3>9. IsFigure(c) /\ Weight(c) = t /\ (t # 0 => c # Zero)
      BY <3>4, <3>8, FigureDenotes
    <3>10. F[x] = Append(s, c)
      BY <1>1, <3>1, <3>2, <3>3, <3>6, <3>8, Zenon
    <3>11. s \in Seq(Nat) /\ Natural(s, b) = q /\ (\A i \in 1..Len(s) : IsFigure(s[i]))
           /\ (q # 0 => Len(s) > 0 /\ s[1] # Zero) /\ (q = 0 => Len(s) = 0)
      BY <3>7 DEF InFigures
    <3>12. c \in Nat
      BY <3>9 DEF IsFigure
    <3>13. PICK r : r = Append(s, c)
      OBVIOUS
    <3>14. r \in Seq(Nat) /\ Len(r) = Len(s) + 1 /\ Len(s) \in Nat /\ r[Len(s) + 1] = c
           /\ \A i \in 1..Len(s) : r[i] = s[i]
      BY <3>11, <3>12, <3>13
    <3>15. Natural(r, b) = x
      <4>1. Natural(r, b) = q * b + t
        BY <1>2, <3>9, <3>11, <3>12, <3>13, NaturalAppend
      <4>2. q * b = b * q
        BY <1>2, <3>4, SMT
      <4> QED BY <3>4, <4>1, <4>2
    <3>16. \A i \in 1..Len(r) : IsFigure(r[i])
      <4> SUFFICES ASSUME NEW i \in 1..Len(r) PROVE IsFigure(r[i])
        OBVIOUS
      <4>1. CASE i = Len(s) + 1
        BY <3>9, <3>14, <4>1
      <4>2. CASE i # Len(s) + 1
        <5>1. i \in 1..Len(s)
          BY <3>14, <4>2
        <5> QED BY <3>11, <3>14, <5>1
      <4> QED BY <4>1, <4>2
    <3>17. r[1] # Zero
      <4>1. CASE q = 0
        <5>1. t # 0 /\ Len(s) = 0
          BY <1>2, <3>1, <3>4, <3>11, <4>1
        <5>2. r[1] = c
          BY <3>14, <5>1
        <5> QED BY <3>9, <5>1, <5>2
      <4>2. CASE q # 0
        <5>1. 1 \in 1..Len(s) /\ s[1] # Zero
          BY <3>11, <3>14, <4>2
        <5> QED BY <3>14, <5>1
      <4> QED BY <4>1, <4>2
    <3>18. Len(r) > 0
      BY <3>14
    <3> QED BY <3>1, <3>10, <3>13, <3>14, <3>15, <3>16, <3>17, <3>18, Zenon DEF InFigures
  <2> QED BY <2>1, <2>2
<1>6. \A n \in Nat : n \in S
  <2> HIDE DEF S
  <2> QED BY <1>4, <1>5, SetInduction
<1> SUFFICES ASSUME NEW x \in X PROVE InFigures(F[x], x, b)
  OBVIOUS
<1>7. x \in Nat /\ x <= x
  OBVIOUS
<1>8. x \in S
  BY <1>6, <1>7
<1> QED BY <1>7, <1>8

-----------------------------------------------------------------------------
(* Fields *)

(* A text with blanks before and after it. *)
IsAround(field, text, m, n) ==
  /\ Len(field) = m + Len(text) + n
  /\ \A i \in 1..m : field[i] = Space
  /\ \A i \in 1..Len(text) : field[m + i] = text[i]
  /\ \A i \in 1..n : field[m + Len(text) + i] = Space

Around(field, text) ==
  /\ field \in Seq(Nat) /\ text \in Seq(Nat) /\ Len(text) > 0 /\ Unbroken(text)
  /\ \E m, n \in Nat : IsAround(field, text, m, n)

(* The text of a field is what has blanks around it. *)
LEMMA TextOfField ==
  ASSUME NEW field, NEW text, Around(field, text)
  PROVE  Text(field) = text
<1>1. PICK m, n \in Nat : IsAround(field, text, m, n)
  BY DEF Around
<1>2. PICK L : L = Len(text)
  OBVIOUS
<1>3. PICK N : N = Len(field)
  OBVIOUS
<1>4. field \in Seq(Nat) /\ text \in Seq(Nat) /\ L \in Nat /\ L > 0 /\ N = m + L + n
      /\ \A i \in 1..L : text[i] # Space
  BY <1>1, <1>2, <1>3 DEF Around, IsAround, Unbroken
<1>5. PICK inside : inside = {i \in 1..Len(field) : field[i] # Space}
  OBVIOUS
<1>6. \A i : i \in inside <=> i \in (m + 1)..(m + L)
  <2>1. ASSUME NEW i \in 1..N, i <= m PROVE field[i] = Space
    BY <1>1, <2>1 DEF IsAround
  <2>2. ASSUME NEW i \in (m + 1)..(m + L) PROVE i \in 1..N /\ field[i] # Space
    <3>1. PICK j : j = i - m
      OBVIOUS
    <3>2. j \in 1..L /\ i = m + j /\ i \in 1..N
      BY <1>4, <3>1
    <3>3. field[m + j] = text[j]
      BY <1>1, <1>2, <3>2 DEF IsAround
    <3> QED BY <1>4, <3>2, <3>3
  <2>3. ASSUME NEW i \in 1..N, i > m + L PROVE field[i] = Space
    <3>1. PICK j : j = i - (m + L)
      OBVIOUS
    <3>2. j \in 1..n /\ i = m + L + j
      BY <1>4, <2>3, <3>1
    <3> QED BY <1>1, <1>2, <3>2 DEF IsAround
  <2>4. ASSUME NEW i, i \in 1..N, i \notin (m + 1)..(m + L) PROVE i <= m \/ i > m + L
    BY <1>4, <2>4
  <2> QED BY <1>3, <1>5, <2>1, <2>2, <2>3, <2>4
<1>7. PICK first : first = CHOOSE i \in inside : \A j \in inside : i <= j
  OBVIOUS
<1>8. PICK end : end = CHOOSE i \in inside : \A j \in inside : j <= i
  OBVIOUS
<1>9. Text(field) = SubSeq(field, first, end)
  BY <1>5, <1>7, <1>8, Zenon DEF Text
<1>10. first = m + 1
  <2>1. PICK a : a = m + 1
    OBVIOUS
  <2>2. a \in inside /\ \A j \in inside : a <= j
    BY <1>4, <1>6, <2>1
  <2>3. first \in inside /\ \A j \in inside : first <= j
    BY <1>7, <2>2, Zenon
  <2> QED BY <1>4, <1>6, <2>1, <2>2, <2>3
<1>11. end = m + L
  <2>1. PICK a : a = m + L
    OBVIOUS
  <2>2. a \in inside /\ \A j \in inside : j <= a
    BY <1>4, <1>6, <2>1
  <2>3. end \in inside /\ \A j \in inside : j <= end
    BY <1>8, <2>2, Zenon
  <2> QED BY <1>4, <1>6, <2>1, <2>2, <2>3
<1>12. PICK t : t = SubSeq(field, m + 1, m + L)
  OBVIOUS
<1>13. t \in Seq(Nat) /\ Len(t) = L /\ \A i \in 1..L : t[i] = field[m + i]
  <2>1. \A i \in (m + 1)..(m + L) : i \in 1..Len(field)
    BY <1>3, <1>4
  <2>2. Len(t) = L
    BY <1>4, <1>12, <2>1
  <2>3. \A i \in 1..L : t[i] = field[m + 1 + i - 1]
    BY <1>4, <1>12, <2>1, <2>2
  <2>4. \A i \in 1..L : m + 1 + i - 1 = m + i
    OBVIOUS
  <2>5. t \in Seq(Nat)
    BY <1>4, <1>12, <2>1
  <2> QED BY <2>2, <2>3, <2>4, <2>5
<1>14. t = text
  <2>1. \A i \in 1..L : t[i] = text[i]
    BY <1>1, <1>2, <1>13 DEF IsAround
  <2>2. Len(t) = Len(text) /\ \A i \in 1..Len(t) : t[i] = text[i]
    BY <1>2, <1>13, <2>1
  <2> QED BY <1>4, <1>13, <2>2, SeqEqual
<1> QED BY <1>9, <1>10, <1>11, <1>12, <1>14, Zenon

(* The characters of two strings, one after the other. *)
LEMMA Concatenation ==
  ASSUME NEW s \in Seq(Nat), NEW t \in Seq(Nat), NEW r, r = s \o t
  PROVE  /\ r \in Seq(Nat) /\ Len(r) = Len(s) + Len(t)
         /\ \A i \in 1..Len(s) : r[i] = s[i]
         /\ \A i \in 1..Len(t) : r[Len(s) + i] = t[i]
<1>1. PICK m, n : m = Len(s) /\ n = Len(t)
  OBVIOUS
<1>2. m \in Nat /\ n \in Nat
  BY <1>1
<1>3. r \in Seq(Nat) /\ Len(r) = m + n
      /\ \A i \in 1..(m + n) : r[i] = IF i <= m THEN s[i] ELSE t[i - m]
  BY <1>1, ConcatProperties
<1>4. ASSUME NEW i \in 1..m PROVE r[i] = s[i]
  BY <1>2, <1>3
<1>5. ASSUME NEW i \in 1..n PROVE r[m + i] = t[i]
  <2>1. m + i \in 1..(m + n) /\ ~(m + i <= m) /\ (m + i) - m = i
    BY <1>2
  <2> QED BY <1>3, <2>1
<1> QED BY <1>1, <1>3, <1>4, <1>5

(* A text without blanks around it. *)
LEMMA AroundItself ==
  ASSUME NEW text \in Seq(Nat), Len(text) > 0, Unbroken(text)
  PROVE  Around(text, text)
<1>1. Len(text) \in Nat
  OBVIOUS
<1>2. IsAround(text, text, 0, 0)
  <2>1. Len(text) = 0 + Len(text) + 0
    BY <1>1
  <2>2. (\A i \in 1..0 : text[i] = Space) /\ (\A i \in 1..0 : text[0 + Len(text) + i] = Space)
    OBVIOUS
  <2>3. \A i \in 1..Len(text) : text[0 + i] = text[i]
    <3>1. \A i \in 1..Len(text) : 0 + i = i
      BY <1>1
    <3> QED BY <3>1
  <2> QED BY <2>1, <2>2, <2>3 DEF IsAround
<1> QED BY <1>2 DEF Around

(* text is string with k zeros before it. *)
ZerosBefore(text, string, k) ==
  /\ Len(text) = k + Len(string)
  /\ \A i \in 1..k : text[i] = Zero
  /\ \A i \in 1..Len(string) : text[k + i] = string[i]

(* printf.c 191-216: prints() fills up the width. *)
LEMMA PrintsFills ==
  ASSUME NEW string \in Seq(Nat), Len(string) > 0, Unbroken(string), NEW w \in Nat, NEW p,
         NEW field, field = prints(string, w, p)
  PROVE  /\ field \in Seq(Nat) /\ Len(field) \in Nat /\ Len(field) >= w /\ Len(field) > 0
         /\ Len(field) > w => field = string
         /\ "zero" \notin p => Around(field, string)
         /\ "zero" \in p => Unbroken(field)
         /\ "zero" \in p /\ "right" \notin p => \E k \in Nat : ZerosBefore(field, string, k)
<1>1. PICK g : g = IF w > Len(string) THEN w - Len(string) ELSE 0
  OBVIOUS
<1>2. PICK c : c = IF "zero" \in p THEN Zero ELSE Space
  OBVIOUS
<1>3. PICK N : N = Len(string)
  OBVIOUS
<1>4. PICK padding : padding = [i \in 1..g |-> c]
  OBVIOUS
<1>5. field = IF "right" \in p THEN string \o padding ELSE padding \o string
  <2>1. padding = [i \in 1..(IF w > Len(string) THEN w - Len(string) ELSE 0) |->
                     IF "zero" \in p THEN Zero ELSE Space]
    BY <1>1, <1>2, <1>4, Zenon
  <2> QED BY <2>1, Zenon DEF prints
<1>6. N \in Nat /\ N > 0 /\ g \in Nat /\ g + N >= w /\ (g + N > w => g = 0) /\ c \in Nat
  BY <1>1, <1>2, <1>3 DEF Zero, Space
<1>7. padding \in Seq(Nat) /\ Len(padding) = g /\ \A i \in 1..g : padding[i] = c
  BY <1>4, <1>6
<1>8. \A i \in 1..N : string[i] # Space
  BY <1>3 DEF Unbroken
<1>9. CASE "right" \in p
  <2>1. field = string \o padding
    BY <1>5, <1>9, Zenon
  <2>2. field \in Seq(Nat) /\ Len(field) = N + g
    BY <1>3, <1>7, <2>1, Concatenation
  <2>3. (\A i \in 1..N : field[i] = string[i]) /\ (\A i \in 1..g : field[N + i] = c)
    BY <1>3, <1>7, <2>1, Concatenation
  <2>4. Len(field) > w => field = string
    <3> SUFFICES ASSUME Len(field) > w PROVE field = string
      OBVIOUS
    <3>1. Len(field) = Len(string) /\ \A i \in 1..Len(field) : field[i] = string[i]
      BY <1>3, <1>6, <2>2, <2>3
    <3> QED BY <2>2, <3>1, SeqEqual
  <2>5. "zero" \notin p => Around(field, string)
    <3> SUFFICES ASSUME "zero" \notin p PROVE Around(field, string)
      OBVIOUS
    <3>1. c = Space
      BY <1>2, Zenon
    <3>2. IsAround(field, string, 0, g)
      <4>1. Len(field) = 0 + N + g /\ \A i \in 1..0 : field[i] = Space
        BY <1>6, <2>2
      <4>2. \A i \in 1..N : field[0 + i] = string[i]
        <5>1. \A i \in 1..N : 0 + i = i
          BY <1>6
        <5> QED BY <2>3, <5>1
      <4>3. \A i \in 1..g : field[0 + N + i] = Space
        <5>1. 0 + N = N
          BY <1>6
        <5> QED BY <2>3, <3>1, <5>1
      <4> QED BY <1>3, <4>1, <4>2, <4>3 DEF IsAround
    <3>3. 0 \in Nat
      OBVIOUS
    <3> QED BY <1>6, <2>2, <3>2, <3>3 DEF Around
  <2>6. "zero" \in p => Unbroken(field)
    <3> SUFFICES ASSUME "zero" \in p PROVE Unbroken(field)
      OBVIOUS
    <3>1. c # Space
      BY <1>2 DEF Zero, Space
    <3> SUFFICES ASSUME NEW i \in 1..Len(field) PROVE field[i] # Space
      BY DEF Unbroken
    <3>2. CASE i <= N
      <4>1. i \in 1..N
        BY <1>6, <2>2, <3>2
      <4> QED BY <1>8, <2>3, <4>1
    <3>3. CASE ~(i <= N)
      <4>1. PICK j : j = i - N
        OBVIOUS
      <4>2. j \in 1..g /\ i = N + j
        BY <1>6, <2>2, <3>3, <4>1
      <4> QED BY <2>3, <3>1, <4>2
    <3> QED BY <3>2, <3>3
  <2> QED BY <1>6, <1>9, <2>2, <2>4, <2>5, <2>6
<1>10. CASE "right" \notin p
  <2>1. field = padding \o string
    BY <1>5, <1>10, Zenon
  <2>2. field \in Seq(Nat) /\ Len(field) = g + N
    BY <1>3, <1>7, <2>1, Concatenation
  <2>3. (\A i \in 1..g : field[i] = c) /\ (\A i \in 1..N : field[g + i] = string[i])
    BY <1>3, <1>7, <2>1, Concatenation
  <2>4. Len(field) > w => field = string
    <3> SUFFICES ASSUME Len(field) > w PROVE field = string
      OBVIOUS
    <3>1. g = 0 /\ Len(field) = Len(string)
      BY <1>3, <1>6, <2>2
    <3>2. \A i \in 1..N : g + i = i
      BY <3>1
    <3>3. \A i \in 1..Len(field) : field[i] = string[i]
      BY <1>3, <2>3, <3>1, <3>2
    <3> QED BY <2>2, <3>1, <3>3, SeqEqual
  <2>5. "zero" \notin p => Around(field, string)
    <3> SUFFICES ASSUME "zero" \notin p PROVE Around(field, string)
      OBVIOUS
    <3>1. c = Space
      BY <1>2, Zenon
    <3>2. IsAround(field, string, g, 0)
      <4>1. Len(field) = g + N + 0 /\ \A i \in 1..0 : field[g + N + i] = Space
        BY <1>6, <2>2
      <4> QED BY <1>3, <2>3, <3>1, <4>1 DEF IsAround
    <3>3. 0 \in Nat
      OBVIOUS
    <3> QED BY <1>6, <2>2, <3>2, <3>3 DEF Around
  <2>6. "zero" \in p => Unbroken(field)
    <3> SUFFICES ASSUME "zero" \in p PROVE Unbroken(field)
      OBVIOUS
    <3>1. c # Space
      BY <1>2 DEF Zero, Space
    <3> SUFFICES ASSUME NEW i \in 1..Len(field) PROVE field[i] # Space
      BY DEF Unbroken
    <3>2. CASE i <= g
      <4>1. i \in 1..g
        BY <1>6, <2>2, <3>2
      <4> QED BY <2>3, <3>1, <4>1
    <3>3. CASE ~(i <= g)
      <4>1. PICK j : j = i - g
        OBVIOUS
      <4>2. j \in 1..N /\ i = g + j
        BY <1>6, <2>2, <3>3, <4>1
      <4> QED BY <1>8, <2>3, <4>2
    <3> QED BY <3>2, <3>3
  <2>7. "zero" \in p => ZerosBefore(field, string, g)
    <3> SUFFICES ASSUME "zero" \in p PROVE ZerosBefore(field, string, g)
      OBVIOUS
    <3>1. c = Zero
      BY <1>2, Zenon
    <3> QED BY <1>3, <2>2, <2>3, <3>1 DEF ZerosBefore
  <2> QED BY <1>6, <1>10, <2>2, <2>4, <2>5, <2>6, <2>7
<1> QED BY <1>9, <1>10

(* What a reader makes of a field, which should be a number: FieldDenotes, *)
(* of the conversions but "%p".                                            *)
Denotes(field, number, w, p, b) ==
  \E text : /\ Around(field, text)
            /\ p # {"right", "zero"} => Number(text, b) = number
            /\ Len(field) >= w
            /\ Len(text) > w => text[1] # Zero \/ Len(text) = 1

(* A minus before figures. *)
LEMMA MinusBefore ==
  ASSUME NEW r \in Seq(Nat), Unbroken(r), NEW text, text = <<Minus>> \o r, NEW b
  PROVE  /\ text \in Seq(Nat) /\ Len(text) = Len(r) + 1 /\ Unbroken(text)
         /\ text[1] = Minus /\ text[1] # Zero
         /\ Number(text, b) = -Natural(r, b)
<1>1. PICK m : m = <<Minus>>
  OBVIOUS
<1>2. m \in Seq(Nat) /\ Len(m) = 1 /\ m[1] = Minus
  BY <1>1 DEF Minus
<1>3. text = m \o r
  BY <1>1, Zenon
<1>4. text \in Seq(Nat) /\ Len(text) = 1 + Len(r) /\ text[1] = m[1]
      /\ \A i \in 1..Len(r) : text[1 + i] = r[i]
  <2>1. 1 \in 1..1
    OBVIOUS
  <2> QED BY <1>2, <1>3, <2>1, Concatenation
<1>5. Len(r) \in Nat
  OBVIOUS
<1>6. Unbroken(text)
  <2> SUFFICES ASSUME NEW i \in 1..Len(text) PROVE text[i] # Space
    BY DEF Unbroken
  <2>1. CASE i = 1
    BY <1>2, <1>4, <2>1 DEF Minus, Space
  <2>2. CASE i # 1
    <3>1. PICK j : j = i - 1
      OBVIOUS
    <3>2. j \in 1..Len(r) /\ i = 1 + j
      BY <1>4, <1>5, <2>2, <3>1
    <3> QED BY <1>4, <3>2 DEF Unbroken
  <2> QED BY <2>1, <2>2
<1>7. PICK t : t = Tail(text)
  OBVIOUS
<1>8. t = r
  <2>1. t \in Seq(Nat) /\ Len(t) = Len(r) /\ \A i \in 1..Len(r) : t[i] = text[1 + i]
    <3>1. text # <<>>
      BY <1>4, <1>5
    <3>2. Len(t) = Len(text) - 1 /\ t \in Seq(Nat) /\ \A i \in 1..Len(t) : t[i] = text[i + 1]
      BY <1>4, <1>7, <3>1
    <3>3. \A i \in 1..Len(r) : i + 1 = 1 + i
      OBVIOUS
    <3>4. Len(t) = Len(r)
      BY <1>4, <1>5, <3>2
    <3> QED BY <3>2, <3>3, <3>4
  <2>2. \A i \in 1..Len(t) : t[i] = r[i]
    BY <1>4, <2>1
  <2> QED BY <2>1, <2>2, SeqEqual
<1>9. Number(text, b) = -Natural(r, b)
  <2>1. text[1] = Minus
    BY <1>2, <1>4
  <2> QED BY <1>7, <1>8, <2>1, Zenon DEF Number
<1>10. Minus # Zero
  BY DEF Minus, Zero
<1> QED BY <1>2, <1>4, <1>5, <1>6, <1>9, <1>10

(* A text that is around itself denotes what it should.                    *)
LEMMA DenotesItself ==
  ASSUME NEW field \in Seq(Nat), Len(field) > 0, Unbroken(field), NEW number, NEW w, NEW p,
         NEW b, p # {"right", "zero"} => Number(field, b) = number, Len(field) >= w,
         Len(field) > w => field[1] # Zero \/ Len(field) = 1
  PROVE  Denotes(field, number, w, p, b)
<1>1. Around(field, field)
  BY AroundItself
<1> QED BY <1>1, Zenon DEF Denotes

(* printf.c 244-252, 285-293: the sign of a number is where a reader finds *)
(* it.                                                                     *)
LEMMA SignDenotes ==
  ASSUME NEW figures \in Seq(Nat), Len(figures) > 0,
         \A i \in 1..Len(figures) : IsFigure(figures[i]),
         figures[1] # Zero \/ Len(figures) = 1,
         NEW neg \in BOOLEAN, NEW w \in Nat, NEW p, p \subseteq {"right", "zero"},
         NEW b \in Nat, NEW field, field = WithSign(figures, neg, w, p).field,
         NEW number, number = IF neg THEN -Natural(figures, b) ELSE Natural(figures, b)
  PROVE  Denotes(field, number, w, p, b)
<1>1. Unbroken(figures) /\ Len(figures) \in Nat
  BY DEF Unbroken, IsFigure
<1>2. p # {"right", "zero"} /\ "zero" \in p => "right" \notin p
  OBVIOUS
<1>3. CASE neg /\ w # 0 /\ "zero" \in p
  <2>1. PICK val : val = w - 1
    OBVIOUS
  <2>2. PICK r : r = prints(figures, val, p)
    OBVIOUS
  <2>3. field = <<Minus>> \o r
    <3>1. WithSign(figures, neg, w, p)
            = [buffer |-> figures, field |-> <<Minus>> \o prints(figures, w - 1, p)]
      BY <1>3, Zenon DEF WithSign
    <3>2. PICK f : f = <<Minus>> \o prints(figures, w - 1, p)
      OBVIOUS
    <3>3. WithSign(figures, neg, w, p) = [buffer |-> figures, field |-> f]
      BY <3>1, <3>2, Zenon
    <3>4. field = f
      BY <3>3
    <3> QED BY <2>1, <2>2, <3>2, <3>4, Zenon
  <2>4. val \in Nat /\ val + 1 = w
    BY <1>3, <2>1
  <2>5. r \in Seq(Nat) /\ Len(r) \in Nat /\ Len(r) >= val /\ Len(r) > 0 /\ Unbroken(r)
        /\ ("right" \notin p => \E k \in Nat : ZerosBefore(r, figures, k))
    BY <1>1, <1>3, <2>2, <2>4, PrintsFills
  <2>6. /\ field \in Seq(Nat) /\ Len(field) = Len(r) + 1 /\ Unbroken(field)
        /\ field[1] # Zero /\ Number(field, b) = -Natural(r, b)
    BY <2>3, <2>5, MinusBefore
  <2>7. Len(field) >= w /\ Len(field) > 0
    BY <2>4, <2>5, <2>6
  <2>8. p # {"right", "zero"} => Number(field, b) = number
    <3> SUFFICES ASSUME p # {"right", "zero"} PROVE Number(field, b) = number
      OBVIOUS
    <3>1. PICK k \in Nat : ZerosBefore(r, figures, k)
      BY <1>2, <1>3, <2>5
    <3>2. Natural(r, b) = Natural(figures, b)
      BY <2>5, <3>1, LeadingZerosDenote DEF ZerosBefore
    <3>3. number = -Natural(figures, b)
      BY <1>3, Zenon
    <3> QED BY <2>6, <3>2, <3>3, Zenon
  <2> QED BY <2>6, <2>7, <2>8, DenotesItself
<1>4. CASE ~(neg /\ w # 0 /\ "zero" \in p)
  <2>1. PICK s : s = (IF neg THEN <<Minus>> ELSE <<>>) \o figures
    OBVIOUS
  <2>2. field = prints(s, w, p)
    <3>1. WithSign(figures, neg, w, p) = [buffer |-> s, field |-> prints(s, w, p)]
      BY <1>4, <2>1, Zenon DEF WithSign
    <3> QED BY <3>1
  <2>3. ~neg => s = figures
    <3> SUFFICES ASSUME ~neg PROVE s = figures
      OBVIOUS
    <3>1. s = <<>> \o figures
      BY <2>1, Zenon
    <3> QED BY <3>1, ConcatEmptySeq
  <2>4. /\ s \in Seq(Nat) /\ Len(s) \in Nat /\ Len(s) > 0 /\ Unbroken(s)
        /\ Number(s, b) = number /\ (s[1] # Zero \/ Len(s) = 1)
    <3>1. CASE neg
      <4>1. s = <<Minus>> \o figures
        BY <2>1, <3>1, Zenon
      <4>2. /\ s \in Seq(Nat) /\ Len(s) = Len(figures) + 1 /\ Unbroken(s) /\ s[1] # Zero
            /\ Number(s, b) = -Natural(figures, b)
        BY <1>1, <4>1, MinusBefore
      <4>3. number = -Natural(figures, b)
        BY <3>1, Zenon
      <4>4. Len(s) \in Nat /\ Len(s) > 0
        BY <1>1, <4>2
      <4> QED BY <4>2, <4>3, <4>4, Zenon
    <3>2. CASE ~neg
      <4>1. s = figures /\ number = Natural(figures, b)
        BY <2>3, <3>2, Zenon
      <4>2. figures[1] # Minus
        BY <1>1 DEF IsFigure
      <4>3. Number(s, b) = number
        BY <4>1, <4>2, Zenon DEF Number
      <4> QED BY <1>1, <4>1, <4>3
    <3> QED BY <3>1, <3>2
  <2>5. /\ field \in Seq(Nat) /\ Len(field) \in Nat /\ Len(field) >= w /\ Len(field) > 0
        /\ Len(field) > w => field = s
        /\ "zero" \notin p => Around(field, s)
        /\ "zero" \in p => Unbroken(field)
        /\ "zero" \in p /\ "right" \notin p => \E k \in Nat : ZerosBefore(field, s, k)
    BY <2>2, <2>4, PrintsFills
  <2>6. CASE "zero" \notin p
    <3>1. Around(field, s)
      BY <2>5, <2>6
    <3> QED BY <2>4, <2>5, <3>1, Zenon DEF Denotes
  <2>7. CASE "zero" \in p
    <3>1. Len(field) > w => field[1] # Zero \/ Len(field) = 1
      BY <2>4, <2>5, Zenon
    <3>2. p # {"right", "zero"} => Number(field, b) = number
      <4> SUFFICES ASSUME p # {"right", "zero"} PROVE Number(field, b) = number
        OBVIOUS
      <4>1. CASE neg
        <5>1. w = 0
          BY <1>4, <2>7, <4>1
        <5>2. field = s
          BY <2>5, <5>1
        <5> QED BY <2>4, <5>2, Zenon
      <4>2. CASE ~neg
        <5>1. s = figures /\ number = Natural(figures, b)
          BY <2>3, <4>2, Zenon
        <5>2. PICK k \in Nat : ZerosBefore(field, s, k)
          BY <1>2, <2>5, <2>7
        <5>3. Natural(field, b) = Natural(s, b)
          BY <2>4, <2>5, <5>2, LeadingZerosDenote DEF ZerosBefore
        <5>4. field[1] # Minus
          <6>1. CASE k = 0
            <7>1. 1 \in 1..Len(s)
              BY <2>4
            <7>2. field[0 + 1] = s[1]
              BY <5>2, <6>1, <7>1 DEF ZerosBefore
            <7>3. field[1] = s[1]
              BY <7>2
            <7>4. s[1] # Minus
              BY <1>1, <5>1 DEF IsFigure
            <7> QED BY <7>3, <7>4
          <6>2. CASE k # 0
            <7>1. 1 \in 1..k
              BY <6>2
            <7>2. field[1] = Zero
              BY <5>2, <7>1 DEF ZerosBefore
            <7> QED BY <7>2 DEF Zero, Minus
          <6> QED BY <6>1, <6>2
        <5> QED BY <5>1, <5>3, <5>4, Zenon DEF Number
      <4> QED BY <4>1, <4>2
    <3> QED BY <2>5, <2>7, <3>1, <3>2, DenotesItself
  <2> QED BY <2>6, <2>7
<1> QED BY <1>3, <1>4

(* A conversion denotes its number. *)
LEMMA ConversionDenotes ==
  ASSUME NEW M \in Nat \ {0}, NEW b, NEW l, IsBase(b, l), NEW w \in Nat,
         NEW p, p \subseteq {"right", "zero"}, NEW number, NEW text,
         \/ text = WithSign(<<Zero>>, FALSE, w, p) /\ number = 0
         \/ IsConversion(text, M, number, b, l, w, p),
         NEW field, field = text.field
  PROVE  Denotes(field, number, w, p, b)
<1>1. b \in Nat
  BY DEF IsBase
<1>2. CASE text = WithSign(<<Zero>>, FALSE, w, p) /\ number = 0
  <2>1. PICK figures : figures = <<Zero>>
    OBVIOUS
  <2>2. PICK neg : neg = FALSE
    OBVIOUS
  <2>3. /\ figures \in Seq(Nat) /\ Len(figures) > 0 /\ Len(figures) = 1
        /\ \A i \in 1..Len(figures) : IsFigure(figures[i])
    BY <2>1 DEF Zero, IsFigure, Space, Minus
  <2>4. Natural(figures, b) = 0
    <3>1. PICK empty : empty = <<>>
      OBVIOUS
    <3>2. empty \in Seq(Nat) /\ Len(empty) = 0 /\ figures = Append(empty, Zero) /\ Zero \in Nat
      BY <2>1, <3>1 DEF Zero
    <3>3. Natural(empty, b) = 0
      <4>1. PICK f : IsNatural(f, empty, b) /\ Natural(empty, b) = f[Len(empty)]
        BY <1>1, <3>2, NaturalRounds
      <4> QED BY <3>2, <4>1 DEF IsNatural
    <3>4. Natural(figures, b) = 0 * b + Weight(Zero)
      BY <1>1, <3>2, <3>3, NaturalAppend
    <3>5. Weight(Zero) = 0
      BY DEF Weight, Zero, LowerA, UpperA
    <3>6. 0 * b = 0
      BY <1>1, SMT
    <3> QED BY <3>4, <3>5, <3>6
  <2>5. field = WithSign(figures, neg, w, p).field
    BY <1>2, <2>1, <2>2, Zenon
  <2>6. neg \in BOOLEAN /\ number = IF neg THEN -Natural(figures, b) ELSE Natural(figures, b)
    <3>1. number = Natural(figures, b) /\ ~neg
      BY <1>2, <2>2, <2>4
    <3> QED BY <2>2, <3>1, Zenon
  <2> QED BY <1>1, <2>3, <2>5, <2>6, SignDenotes
<1>3. CASE IsConversion(text, M, number, b, l, w, p)
  <2>1. PICK F : \E j \in 1..(M - 1) : \E neg \in BOOLEAN :
          /\ IsFigures(F, M, b, l)
          /\ text = WithSign(F[j], neg, w, p)
          /\ number = IF neg THEN -j ELSE j
    BY <1>3, Zenon DEF IsConversion
  <2>2. PICK j \in 1..(M - 1) : \E neg \in BOOLEAN :
          /\ IsFigures(F, M, b, l)
          /\ text = WithSign(F[j], neg, w, p)
          /\ number = IF neg THEN -j ELSE j
    BY <2>1, Zenon
  <2>3. PICK neg \in BOOLEAN : /\ IsFigures(F, M, b, l)
                               /\ text = WithSign(F[j], neg, w, p)
                               /\ number = IF neg THEN -j ELSE j
    BY <2>2, Zenon
  <2>4. PICK figures : figures = F[j]
    OBVIOUS
  <2>5. InFigures(figures, j, b)
    <3>1. j \in 0..(M - 1)
      OBVIOUS
    <3> QED BY <2>3, <2>4, <3>1, FiguresDenote
  <2>6. /\ figures \in Seq(Nat) /\ Len(figures) > 0 /\ Natural(figures, b) = j
        /\ \A i \in 1..Len(figures) : IsFigure(figures[i])
        /\ figures[1] # Zero \/ Len(figures) = 1
    BY <2>5 DEF InFigures
  <2>7. field = WithSign(figures, neg, w, p).field
    BY <2>3, <2>4, Zenon
  <2>8. number = IF neg THEN -Natural(figures, b) ELSE Natural(figures, b)
    BY <2>3, <2>6, Zenon
  <2> QED BY <1>1, <2>6, <2>7, <2>8, SignDenotes
<1> QED BY <1>2, <1>3

(* printf.c 219-255: what printi() writes is the number it was given.      *)
LEMMA PrintiDenotes ==
  ASSUME NEW i \in Word, NEW b, NEW l, IsBase(b, l), NEW sg, IsSign(sg, b), NEW w \in Nat,
         NEW p, p \subseteq {"right", "zero"},
         NEW number, number = IF sg THEN SignedWord(i) ELSE i,
         NEW field, field = printi(i, b, sg, w, p, l).field
  PROVE  Denotes(field, number, w, p, b)
<1>1. PICK text : text = printi(i, b, sg, w, p, l)
  OBVIOUS
<1>2. \/ text = WithSign(<<Zero>>, FALSE, w, p) /\ number = 0
      \/ IsConversion(text, W, number, b, l, w, p)
  <2>1. i = 0 => text = WithSign(<<Zero>>, FALSE, w, p)
    BY <1>1, Zenon DEF printi
  <2>2. i # 0 => IsConversion(text, W, number, b, l, w, p)
    BY <1>1, PrintiConverts
  <2>3. i = 0 => number = 0
    <3> SUFFICES ASSUME i = 0 PROVE number = 0
      OBVIOUS
    <3>1. i < W \div 2
      BY SignedWords
    <3>2. SignedWord(i) = i
      BY <3>1, SignedWords
    <3> QED BY <3>2
  <2> QED BY <2>1, <2>2, <2>3
<1>3. field = text.field
  BY <1>1, Zenon
<1>4. W \in Nat \ {0}
  BY WordSize
<1> QED BY <1>2, <1>3, <1>4, ConversionDenotes

(* printf.c 259-296: so is what printl() writes.                           *)
LEMMA PrintlDenotes ==
  ASSUME NEW i \in DWord, NEW b, NEW l, IsBase(b, l), NEW sg, IsSign(sg, b), NEW w \in Nat,
         NEW p, p \subseteq {"right", "zero"},
         NEW number, number = IF sg THEN Signed(i) ELSE i,
         NEW field, field = printl(i, b, sg, w, p, l).field
  PROVE  Denotes(field, number, w, p, b)
<1>1. PICK text : text = printl(i, b, sg, w, p, l)
  OBVIOUS
<1>2. PICK M : M = W * W
  OBVIOUS
<1>3. M \in Nat \ {0}
  BY <1>2, WordSize, SMT
<1>4. \/ text = WithSign(<<Zero>>, FALSE, w, p) /\ number = 0
      \/ IsConversion(text, M, number, b, l, w, p)
  <2>1. i = 0 => text = WithSign(<<Zero>>, FALSE, w, p)
    BY <1>1, Zenon DEF printl
  <2>2. i # 0 => IsConversion(text, M, number, b, l, w, p)
    BY <1>1, <1>2, PrintlConverts
  <2>3. i = 0 => number = 0
    <3> SUFFICES ASSUME i = 0 PROVE number = 0
      OBVIOUS
    <3>1. IF Negative(i) THEN 2 * i >= M /\ Signed(i) = i - M ELSE Signed(i) = i
      BY <1>2, SignedDoubles
    <3>2. Signed(i) = i
      BY <1>3, <3>1
    <3> QED BY <3>2
  <2> QED BY <2>1, <2>2, <2>3
<1>5. field = text.field
  BY <1>1, Zenon
<1> QED BY <1>3, <1>4, <1>5, ConversionDenotes

-----------------------------------------------------------------------------
(* What a conversion asks for *)

(* The flags and the width of a conversion. *)
FormatInv == pad \subseteq {"right", "zero"} /\ width \in Nat

(* A field that denotes a number, where FieldDenotes looks for it.         *)
LEMMA FieldIs ==
  ASSUME NEW field, NEW number, NEW w, NEW p, NEW b, Denotes(field, number, w, p, b)
  PROVE  /\ Unbroken(Text(field))
         /\ p # {"right", "zero"} => Number(Text(field), b) = number
         /\ Len(field) >= w
         /\ Len(Text(field)) > w => Text(field)[1] # Zero \/ Len(Text(field)) = 1
         /\ field \in Seq(Nat)
<1>1. PICK text : /\ Around(field, text)
                  /\ p # {"right", "zero"} => Number(text, b) = number
                  /\ Len(field) >= w
                  /\ Len(text) > w => text[1] # Zero \/ Len(text) = 1
  BY Zenon DEF Denotes
<1>2. Text(field) = text
  BY <1>1, TextOfField
<1>3. Unbroken(text) /\ field \in Seq(Nat)
  BY <1>1 DEF Around
<1> QED BY <1>1, <1>2, <1>3, Zenon

(* A conversion other than "%p" that writes a field. *)
LEMMA WrittenDenotes ==
  ASSUME NEW conv \in Numeric \ {"p"}, NEW given, NEW text, Write(conv, given, text),
         NEW field, field = text.field, NEW number, number = Meaning(conv, at = "ll", given),
         Denotes(field, number, width, pad, Base(conv))
  PROVE  FieldDenotes'
<1>1. /\ last'.conv = conv /\ last'.long = (at = "ll") /\ last'.given = given
      /\ last'.width = width /\ last'.pad = pad /\ last'.field = field
  BY DEF Write
<1>2. /\ Unbroken(Text(field))
      /\ pad # {"right", "zero"} => Number(Text(field), Base(conv)) = number
      /\ Len(field) >= width
      /\ Len(Text(field)) > width => Text(field)[1] # Zero \/ Len(Text(field)) = 1
  <2>1. PICK w, p, b : w = width /\ p = pad /\ b = Base(conv)
    OBVIOUS
  <2>2. Denotes(field, number, w, p, b)
    BY <2>1, Zenon
  <2>3. /\ Unbroken(Text(field))
        /\ p # {"right", "zero"} => Number(Text(field), b) = number
        /\ Len(field) >= w
        /\ Len(Text(field)) > w => Text(field)[1] # Zero \/ Len(Text(field)) = 1
    BY <2>2, FieldIs
  <2> QED BY <2>1, <2>3, Zenon
<1>3. conv # "p"
  OBVIOUS
<1> QED BY <1>1, <1>2, <1>3, Zenon DEF FieldDenotes

(* A string after the "0x" of "%p".                                        *)
LEMMA AfterPrefix ==
  ASSUME NEW f \in Seq(Nat), NEW field, field = <<Zero, 120>> \o f
  PROVE  Len(field) = Len(f) + 2 /\ SubSeq(field, 3, Len(field)) = f
<1>1. PICK ox : ox = <<Zero, 120>>
  OBVIOUS
<1>2. ox \in Seq(Nat) /\ Len(ox) = 2
  BY <1>1 DEF Zero
<1>3. PICK N : N = Len(f)
  OBVIOUS
<1>4. N \in Nat /\ field \in Seq(Nat) /\ Len(field) = 2 + N /\ \A i \in 1..N : field[2 + i] = f[i]
  <2>1. field = ox \o f
    BY <1>1, Zenon
  <2> QED BY <1>2, <1>3, <2>1, Concatenation
<1>5. PICK t : t = SubSeq(field, 3, 2 + N)
  OBVIOUS
<1>6. t \in Seq(Nat) /\ Len(t) = N /\ \A i \in 1..N : t[i] = field[2 + i]
  <2>1. \A i \in 3..(2 + N) : i \in 1..Len(field)
    BY <1>4
  <2>2. Len(t) = N
    BY <1>4, <1>5, <2>1
  <2>3. \A i \in 1..N : t[i] = field[3 + i - 1]
    BY <1>4, <1>5, <2>1, <2>2
  <2>4. \A i \in 1..N : 3 + i - 1 = 2 + i
    OBVIOUS
  <2>5. t \in Seq(Nat)
    BY <1>4, <1>5, <2>1
  <2> QED BY <2>2, <2>3, <2>4, <2>5
<1>7. t = f
  <2>1. Len(t) = Len(f) /\ \A i \in 1..Len(t) : t[i] = f[i]
    BY <1>3, <1>4, <1>6
  <2> QED BY <1>6, <2>1, SeqEqual
<1> QED BY <1>3, <1>4, <1>5, <1>7

(* What "%p" writes. *)
LEMMA PointerDenotes ==
  ASSUME width \in Nat, NEW given, NEW read \in Word, read = given,
         NEW w \in Nat, w >= width, NEW p, p \subseteq {"right", "zero"},
         pad # {"right", "zero"} => p # {"right", "zero"},
         NEW sg, sg = FALSE, NEW f, f = printi(read, 16, sg, w, p, LowerA).field,
         NEW field, field = <<Zero, 120>> \o f,
         NEW written, written.field = field, Write("p", given, written)
  PROVE  FieldDenotes'
<1>1. PICK conv : conv = "p"
  OBVIOUS
<1>2. PICK b : b = 16
  OBVIOUS
<1>3. /\ last'.conv = "p" /\ last'.long = (at = "ll") /\ last'.given = given
      /\ last'.width = width /\ last'.pad = pad /\ last'.field = field
  <2>1. Write(conv, given, written)
    BY <1>1, Zenon
  <2>2. /\ last'.conv = conv /\ last'.long = (at = "ll") /\ last'.given = given
        /\ last'.width = width /\ last'.pad = pad /\ last'.field = written.field
    BY ONLY <2>1 DEF Write
  <2> QED BY <1>1, <2>2, Zenon
<1>4. Denotes(f, read, w, p, b)
  <2>1. IsSign(sg, b) /\ read = (IF sg THEN SignedWord(read) ELSE read)
    BY <1>2, Zenon DEF IsSign
  <2>2. f = printi(read, b, sg, w, p, LowerA).field
    BY <1>2, Zenon
  <2>3. IsBase(b, LowerA)
    BY <1>2 DEF IsBase
  <2> QED BY <2>1, <2>2, <2>3, PrintiDenotes
<1>5. /\ Unbroken(Text(f))
      /\ p # {"right", "zero"} => Number(Text(f), b) = read
      /\ Len(f) >= w /\ f \in Seq(Nat)
  BY <1>4, FieldIs
<1>6. Len(field) = Len(f) + 2 /\ SubSeq(field, 3, Len(field)) = f
  BY <1>5, AfterPrefix
<1>7. Len(field) >= width
  <2>1. PICK n : n = Len(f)
    OBVIOUS
  <2>2. n \in Nat /\ n >= w /\ Len(field) = n + 2
    BY <1>5, <1>6, <2>1
  <2> QED BY <2>2
<1>8. Base("p") = b /\ Meaning("p", at = "ll", given) = read
  BY <1>2 DEF Base, Meaning
<1>9. pad # {"right", "zero"} => Number(Text(f), Base("p")) = Meaning("p", at = "ll", given)
  BY <1>5, <1>8, Zenon
<1> QED BY <1>3, <1>5, <1>6, <1>7, <1>9, Zenon DEF FieldDenotes

(* The flags are PAD_RIGHT and PAD_ZERO, the width a number. *)
LEMMA FormatStays ==
  ASSUME FormatInv, [Next]_vars
  PROVE  FormatInv'
<1>1. CASE UNCHANGED formatVars
  BY <1>1 DEF formatVars, FormatInv
<1>2. CASE Literal \/ Return \/ PercentSign \/ Conversion \/ UNCHANGED vars
  <2>1. CASE Literal \/ Return \/ PercentSign \/ ConvertUnknown \/ UNCHANGED vars
    BY <1>1, <2>1 DEF Literal, Return, PercentSign, ConvertUnknown, vars
  <2>2. ASSUME NEW conv, NEW given, NEW text, Write(conv, given, text) PROVE FormatInv'
    BY <1>1, <2>2 DEF Write
  <2>3. CASE \E c : ConvertInt(c) \/ ConvertLong(c)
    BY <2>2, <2>3, Zenon DEF ConvertInt, ConvertLong
  <2>4. CASE ConvertPointer \/ ConvertString \/ ConvertChar \/ ConvertDouble
    BY <2>2, <2>4, Zenon DEF ConvertPointer, ConvertString, ConvertChar, ConvertDouble
  <2> QED BY <1>2, <2>1, <2>3, <2>4 DEF Conversion
<1>3. CASE Percent
  BY <1>3 DEF Percent, FormatInv
<1>4. CASE FormatStep
  <2>1. CASE Justify \/ PadZero \/ DecimalPoint \/ Long \/ LongLong
    BY <2>1 DEF Justify, PadZero, DecimalPoint, Long, LongLong, formatVars, FormatInv
  <2>2. ASSUME NEW n \in FormatDigit, Width(n) PROVE FormatInv'
    <3>1. n \in Nat
      BY PrintfAssumption
    <3> QED BY <2>2, <3>1 DEF Width, FormatInv
  <2>3. ASSUME NEW n \in FormatDigit, Decimals(n) PROVE FormatInv'
    BY <2>3 DEF Decimals, FormatInv
  <2> QED BY <1>4, <2>1, <2>2, <2>3 DEF FormatStep
<1> QED BY <1>2, <1>3, <1>4 DEF Next

(* printf.c 158-296, 346-438: an integer is printed so that a reader finds *)
(* it, whatever the number, its base, the flags and the width.             *)
THEOREM PrintfDenotes == Spec => []FieldDenotes
<1>1. Init => FormatInv /\ FieldDenotes
  BY DEF Init, FormatInv, FieldDenotes, None, Numeric
<1>2. ArgumentInv /\ FormatInv /\ FieldDenotes /\ [Next]_vars => FormatInv' /\ FieldDenotes'
  <2> SUFFICES ASSUME ArgumentInv, FormatInv, FieldDenotes, [Next]_vars PROVE FieldDenotes'
    BY FormatStays
  <2>1. CASE last' = last /\ skewed' = skewed
    BY <2>1, Zenon DEF FieldDenotes
  <2>2. ASSUME last'.conv \notin Numeric \/ skewed' PROVE FieldDenotes'
    BY <2>2, Zenon DEF FieldDenotes
  <2>3. CASE Literal \/ Percent
    <3>1. last' = None
      BY <2>3 DEF Literal, Percent
    <3>2. last'.conv \notin Numeric
      BY <3>1 DEF None, Numeric
    <3> QED BY <2>2, <3>2
  <2>4. CASE Return \/ PercentSign \/ FormatStep \/ ConvertUnknown \/ UNCHANGED vars
    <3>1. last' = last /\ skewed' = skewed
      BY <2>4 DEF Return, PercentSign, FormatStep, Justify, PadZero, DecimalPoint, Long,
                  LongLong, Width, Decimals, Reading, ConvertUnknown, vars, outputVars
    <3> QED BY <2>1, <3>1
  <2>5. ~skewed => varg = pushed /\ Even(varg) = Even(pushed)
    BY Zenon DEF ArgumentInv
  <2>6. ASSUME NEW c \in {"d", "u", "x", "X"}, ConvertInt(c) PROVE FieldDenotes'
    <3>1. PICK given, read \in IntArgument :
            /\ at # "ll"
            /\ Take(1, varg, pushed, given, read, IntArgument)
            /\ Write(c, given, printi(read, Base(c), Sign(c), width, pad, Letter(c)))
            /\ skewed' = skewed
      BY <2>6, Zenon DEF ConvertInt
    <3>2. CASE skewed
      BY <2>2, <3>1, <3>2
    <3>3. CASE ~skewed
      <4>1. read = given
        BY <2>5, <3>1, <3>3, Zenon DEF Take
      <4>2. PICK text : text = printi(read, Base(c), Sign(c), width, pad, Letter(c))
        OBVIOUS
      <4>3. PICK field : field = text.field
        OBVIOUS
      <4>4. PICK number : number = IF Sign(c) THEN SignedWord(read) ELSE read
        OBVIOUS
      <4>5. IsBase(Base(c), Letter(c)) /\ IsSign(Sign(c), Base(c)) /\ read \in Word
        BY PrintfAssumption DEF IsBase, Base, Letter, Sign, IsSign
      <4>6. PICK w, p : w = width /\ p = pad
        OBVIOUS
      <4>7. w \in Nat /\ p \subseteq {"right", "zero"}
        BY <4>6 DEF FormatInv
      <4>8. field = printi(read, Base(c), Sign(c), w, p, Letter(c)).field
        BY <4>2, <4>3, <4>6, Zenon
      <4>9. Denotes(field, number, w, p, Base(c))
        BY <4>4, <4>5, <4>7, <4>8, PrintiDenotes
      <4>10. number = Meaning(c, at = "ll", given)
        BY <3>1, <4>1, <4>4, Zenon DEF Meaning, Sign
      <4>11. c \in Numeric \ {"p"}
        BY DEF Numeric
      <4>12. Write(c, given, text) /\ Denotes(field, number, width, pad, Base(c))
        BY <3>1, <4>2, <4>6, <4>9, Zenon
      <4> QED BY <4>3, <4>10, <4>11, <4>12, WrittenDenotes
    <3> QED BY <3>2, <3>3
  <2>7. ASSUME NEW c \in {"d", "u", "x", "X"}, ConvertLong(c) PROVE FieldDenotes'
    <3>1. PICK given, read \in LongArgument :
            /\ at = "ll"
            /\ Take(2, Even(varg), Even(pushed), given, read, LongArgument)
            /\ Write(c, given, printl(read, Base(c), Sign(c), width, pad, Letter(c)))
            /\ skewed' = skewed
      BY <2>7, Zenon DEF ConvertLong
    <3>2. CASE skewed
      BY <2>2, <3>1, <3>2
    <3>3. CASE ~skewed
      <4>1. read = given
        BY <2>5, <3>1, <3>3, Zenon DEF Take
      <4>2. PICK text : text = printl(read, Base(c), Sign(c), width, pad, Letter(c))
        OBVIOUS
      <4>3. PICK field : field = text.field
        OBVIOUS
      <4>4. PICK number : number = IF Sign(c) THEN Signed(read) ELSE read
        OBVIOUS
      <4>5. IsBase(Base(c), Letter(c)) /\ IsSign(Sign(c), Base(c)) /\ read \in DWord
        BY PrintfAssumption DEF IsBase, Base, Letter, Sign, IsSign
      <4>6. PICK w, p : w = width /\ p = pad
        OBVIOUS
      <4>7. w \in Nat /\ p \subseteq {"right", "zero"}
        BY <4>6 DEF FormatInv
      <4>8. field = printl(read, Base(c), Sign(c), w, p, Letter(c)).field
        BY <4>2, <4>3, <4>6, Zenon
      <4>9. Denotes(field, number, w, p, Base(c))
        BY <4>4, <4>5, <4>7, <4>8, PrintlDenotes
      <4>10. number = Meaning(c, at = "ll", given)
        BY <3>1, <4>1, <4>4, Zenon DEF Meaning, Sign
      <4>11. c \in Numeric \ {"p"}
        BY DEF Numeric
      <4>12. Write(c, given, text) /\ Denotes(field, number, width, pad, Base(c))
        BY <3>1, <4>2, <4>6, <4>9, Zenon
      <4> QED BY <4>3, <4>10, <4>11, <4>12, WrittenDenotes
    <3> QED BY <3>2, <3>3
  <2>8. CASE ConvertPointer
    <3>1. PICK w : w = IF width = 0 THEN 8 ELSE width
      OBVIOUS
    <3>2. PICK p : p = IF pad = {} THEN {"zero"} ELSE pad
      OBVIOUS
    <3>3. PICK given, read \in IntArgument :
            /\ Take(1, varg, pushed, given, read, IntArgument)
            /\ Write("p", given, [printi(read, 16, FALSE, w, p, LowerA)
                                    EXCEPT !.field = <<Zero, 120>> \o @])
            /\ skewed' = skewed
      <4>1. PICK given, read \in IntArgument :
              /\ Take(1, varg, pushed, given, read, IntArgument)
              /\ Write("p", given, [printi(read, 16, FALSE, IF width = 0 THEN 8 ELSE width,
                                           IF pad = {} THEN {"zero"} ELSE pad, LowerA)
                                      EXCEPT !.field = <<Zero, 120>> \o @])
              /\ skewed' = skewed
        BY <2>8, Zenon DEF ConvertPointer
      <4>2. printi(read, 16, FALSE, IF width = 0 THEN 8 ELSE width,
                   IF pad = {} THEN {"zero"} ELSE pad, LowerA)
              = printi(read, 16, FALSE, w, p, LowerA)
        BY <3>1, <3>2, Zenon
      <4>3. Write("p", given, [printi(read, 16, FALSE, w, p, LowerA)
                                 EXCEPT !.field = <<Zero, 120>> \o @])
        BY <4>1, <4>2, Zenon
      <4> QED BY <4>1, <4>3, Zenon
    <3>4. CASE skewed
      BY <2>2, <3>3, <3>4
    <3>5. CASE ~skewed
      <4>1. read = given
        BY <2>5, <3>3, <3>5, Zenon DEF Take
      <4>2. PICK sg : sg = FALSE
        OBVIOUS
      <4>3. PICK text : text = printi(read, 16, sg, w, p, LowerA)
        OBVIOUS
      <4>4. PICK written : written = [text EXCEPT !.field = <<Zero, 120>> \o @]
        OBVIOUS
      <4>5. PICK f : f = text.field
        OBVIOUS
      <4>6. PICK field : field = <<Zero, 120>> \o f
        OBVIOUS
      <4>7. Write("p", given, written)
        BY <3>3, <4>2, <4>3, <4>4, Zenon
      <4>8. written.field = field
        BY ONLY <4>3, <4>4, <4>5, <4>6, PointerText
      <4>9. f = printi(read, 16, sg, w, p, LowerA).field
        BY <4>3, <4>5, Zenon
      <4>10. read \in Word
        BY PrintfAssumption
      <4>11. /\ width \in Nat /\ w \in Nat /\ w >= width
             /\ p \subseteq {"right", "zero"}
             /\ pad # {"right", "zero"} => p # {"right", "zero"}
        <5>1. PICK wid, q : wid = width /\ q = pad
          OBVIOUS
        <5>2. wid \in Nat /\ q \subseteq {"right", "zero"}
          BY <5>1 DEF FormatInv
        <5>3. w = IF wid = 0 THEN 8 ELSE wid
          BY <3>1, <5>1, Zenon
        <5>4. p = IF q = {} THEN {"zero"} ELSE q
          BY <3>2, <5>1, Zenon
        <5>5. w \in Nat /\ w >= wid
          BY ONLY <5>2, <5>3
        <5>6. p \subseteq {"right", "zero"} /\ (q # {"right", "zero"} => p # {"right", "zero"})
          BY ONLY <5>2, <5>4
        <5> QED BY <5>1, <5>2, <5>5, <5>6, Zenon
      <4> QED BY <4>1, <4>2, <4>6, <4>7, <4>8, <4>9, <4>10, <4>11, PointerDenotes
    <3> QED BY <3>4, <3>5
  <2>9. CASE ConvertString \/ ConvertChar \/ ConvertDouble
    <3>1. \E conv \in {"s", "c", "f"} : \E given, text : Write(conv, given, text)
      BY <2>9, Zenon DEF ConvertString, ConvertChar, ConvertDouble
    <3>2. PICK conv \in {"s", "c", "f"} : last'.conv = conv
      BY <3>1 DEF Write
    <3>3. last'.conv \notin Numeric
      BY <3>2 DEF Numeric
    <3> QED BY <2>2, <3>3
  <2> QED BY <2>3, <2>4, <2>6, <2>7, <2>8, <2>9 DEF Next, Conversion
<1> QED BY <1>1, <1>2, ArgumentsTaken, PTL DEF Spec

-----------------------------------------------------------------------------
(* Doubles *)

(* The digit more than asked for rounds the last one: half of its unit is  *)
(* added, whatever the two divisions drop.  D is the denominator, T the    *)
(* power of ten, w the whole part and f / D the fraction.                  *)
LEMMA FractionRounds ==
  ASSUME NEW D \in Nat \ {0}, NEW f \in 0..(D - 1), NEW T \in Nat \ {0}, NEW w \in Nat,
         NEW q, q = ((f * (10 * T)) \div D + 5) \div 10
  PROVE  /\ q \in 0..T
         /\ (2 * f * T + D) \div (2 * D) = q
         /\ (2 * (D * w + f) * T + D) \div (2 * D) = w * T + q
<1>1. PICK a : a = f * T
  OBVIOUS
<1>2. a \in Nat /\ f * (10 * T) = 10 * a /\ 2 * f * T = 2 * a
  BY <1>1, SMT
<1>3. PICK y, r : y = (10 * a) \div D /\ r = (10 * a) % D
  OBVIOUS
<1>4. y \in Nat /\ r \in 0..(D - 1) /\ 10 * a = D * y + r
  <2>1. 10 * a \in Nat
    BY <1>2
  <2>2. ASSUME NEW n \in Nat
        PROVE  n \div D \in Nat /\ n % D \in 0..(D - 1) /\ n = D * (n \div D) + (n % D)
    BY SMT
  <2> QED BY <1>3, <2>1, <2>2
<1>5. q = (y + 5) \div 10
  BY <1>2, <1>3
<1>6. PICK s : s = (y + 5) % 10
  OBVIOUS
<1>7. q \in Nat /\ s \in 0..9 /\ y + 5 = 10 * q + s
  BY <1>4, <1>5, <1>6
<1>8. PICK Dq, Ds : Dq = D * q /\ Ds = D * s
  OBVIOUS
<1>9. D * y = 10 * Dq + Ds - 5 * D /\ Dq \in Nat /\ Ds \in Nat /\ Ds <= 9 * D
  <2>1. y = 10 * q + s - 5
    BY <1>4, <1>7
  <2>2. D * (10 * q + s - 5) = 10 * (D * q) + D * s - 5 * D
    BY <1>7, SMT
  <2>3. (9 - s) * D >= 0 /\ (9 - s) * D = 9 * D - D * s /\ D * q \in Nat /\ D * s \in Nat
    BY <1>7, SMT
  <2> QED BY <1>8, <2>1, <2>2, <2>3
<1>10. PICK t : t = 2 * a + D - 2 * Dq
  OBVIOUS
<1>11. 10 * t = 2 * Ds + 2 * r /\ t \in Int
  BY <1>2, <1>4, <1>9, <1>10
<1>12. t \in 0..(2 * D - 1)
  BY <1>4, <1>9, <1>11
<1>13. 2 * D \in Nat \ {0} /\ q * (2 * D) = 2 * Dq
  BY <1>7, <1>8, SMT
<1>14. (2 * a + D) \div (2 * D) = q
  <2>1. PICK E, z : E = 2 * D /\ z = 2 * a + D
    OBVIOUS
  <2>2. E \in Nat \ {0} /\ z \in Int /\ z = q * E + t /\ t \in 0..(E - 1) /\ q \in Int
    BY <1>2, <1>7, <1>9, <1>10, <1>12, <1>13, <2>1
  <2>3. z \div E = q
    BY <2>2, Divided
  <2> QED BY <2>1, <2>3, Zenon
<1>15. PICK val : val = w * T
  OBVIOUS
<1>16. val \in Nat /\ 2 * (D * w + f) * T = val * (2 * D) + 2 * a
  <2>1. val \in Nat
    BY <1>15, SMT
  <2>2. 2 * (D * w + f) * T = (w * T) * (2 * D) + 2 * (f * T)
    BY SMT
  <2> QED BY <1>1, <1>15, <2>1, <2>2
<1>17. (val * (2 * D) + 2 * a + D) \div (2 * D) = val + q
  <2>1. PICK p : p = val * (2 * D)
    OBVIOUS
  <2>2. (val + q) * (2 * D) = p + 2 * Dq /\ p \in Int
    BY <1>7, <1>13, <1>16, <2>1, SMT
  <2>3. p + 2 * a + D = (val + q) * (2 * D) + t /\ p + 2 * a + D \in Int /\ val + q \in Int
    BY <1>2, <1>7, <1>9, <1>10, <1>16, <2>2
  <2>4. (p + 2 * a + D) \div (2 * D) = val + q
    BY <1>12, <1>13, <2>3, Divided
  <2> QED BY <2>1, <2>4
<1>18. q <= T
  <2>1. PICK b : b = D * T
    OBVIOUS
  <2>2. a <= b - T /\ b \in Nat
    <3>1. (D - 1 - f) * T >= 0 /\ (D - 1 - f) * T = D * T - T - f * T /\ D * T \in Nat
      BY SMT
    <3> QED BY <1>1, <1>2, <2>1, <3>1
  <2>3. SUFFICES ASSUME q >= T + 1 PROVE FALSE
    BY <1>7
  <2>4. Dq >= b + D
    <3>1. (q - T - 1) * D >= 0 /\ (q - T - 1) * D = D * q - D * T - D
      BY <1>7, <2>3, SMT
    <3>2. Dq - b - D >= 0
      BY <1>8, <2>1, <3>1
    <3> QED BY <1>9, <2>2, <3>2
  <2> QED BY <1>2, <1>9, <1>10, <1>12, <2>2, <2>4
<1>19. q \in 0..T
  BY <1>7, <1>18
<1> QED BY <1>2, <1>14, <1>15, <1>16, <1>17, <1>19

(* What the loops of dbl2stri() leave in their buffer. *)
LEMMA DecimalsDenote ==
  ASSUME NEW n \in Nat
  PROVE  /\ InFigures(DecimalFigures(n), n, 10)
         /\ \A k \in 0..MostTens : n < Tens[k] => Len(DecimalFigures(n)) <= k
<1> DEFINE X == 0..n
           eq(f) == [x \in X |-> IF x = 0 THEN <<>>
                                 ELSE Append(f[x \div 10], Figure(x % 10, LowerA))]
           all == CHOOSE f : f = eq(f)
<1>1. PICK M : M = n + 1
  OBVIOUS
<1>2. M \in Nat \ {0} /\ 0..n = 0..(M - 1) /\ n \in 0..(M - 1)
  BY <1>1
<1>3. DecimalFigures(n) = all[n]
  BY DEF DecimalFigures
<1>4. PICK b, l : b = 10 /\ l = LowerA
  OBVIOUS
<1>5. IsBase(b, l)
  BY <1>4 DEF IsBase
<1>6. PICK F : IsFigures(F, M, b, l)
  BY <1>2, <1>5, FiguresExist
<1>7. F = eq(F)
  <2>1. F = [x \in X |-> F[x]]
    BY <1>2, <1>6 DEF IsFigures
  <2>2. \A x \in X : F[x] = IF x = 0 THEN <<>> ELSE Append(F[x \div 10], Figure(x % 10, LowerA))
    BY <1>2, <1>4, <1>6, Zenon DEF IsFigures
  <2> QED BY <2>1, <2>2
<1>8. all = eq(all)
  <2> HIDE DEF eq
  <2> QED BY <1>7
<1>9. IsFigures(all, M, b, l)
  <2>1. all = [x \in 0..(M - 1) |-> IF x = 0 THEN <<>> ELSE Append(all[x \div b], Figure(x % b, l))]
    <3> HIDE DEF all
    <3> QED BY <1>2, <1>4, <1>8, Zenon
  <2> HIDE DEF all
  <2> QED BY <1>2, <1>5, <2>1, FiguresTyped
<1> HIDE DEF all
<1>10. \A x \in 0..(M - 1) : InFigures(all[x], x, b)
  BY <1>2, <1>5, <1>9, FiguresDenote
<1>11. \A k \in 0..MostTens : \A x \in 0..(M - 1) :
         x < Tens[k] => all[x] \in Seq(Nat) /\ Len(all[x]) <= k
  BY <1>2, <1>5, <1>9, NumberOfFigures
<1> QED BY <1>2, <1>3, <1>4, <1>10, <1>11

(* Figures one after the other, in base 10: the first ones are worth a     *)
(* power of ten more.                                                      *)
LEMMA NaturalConcatenation ==
  ASSUME NEW s \in Seq(Nat), NEW t \in Seq(Nat), Len(t) <= MostTens,
         NEW r, r = s \o t
  PROVE  Natural(r, 10) = Natural(s, 10) * Tens[Len(t)] + Natural(t, 10)
<1>1. PICK m, n, b : m = Len(s) /\ n = Len(t) /\ b = 10
  OBVIOUS
<1>2. m \in Nat /\ n \in Nat /\ b \in Nat /\ n <= MostTens /\ MostTens \in Nat
  BY <1>1, PrintfAssumption, BufferAssumption DEF MostTens
<1>3. /\ r \in Seq(Nat) /\ Len(r) = m + n
      /\ \A i \in 1..m : r[i] = s[i]
      /\ \A i \in 1..n : r[m + i] = t[i]
  BY <1>1, Concatenation
<1>4. PICK f : IsNatural(f, r, b) /\ Natural(r, b) = f[Len(r)]
  BY <1>2, <1>3, NaturalRounds
<1>5. PICK g : IsNatural(g, s, b) /\ Natural(s, b) = g[Len(s)]
  BY <1>2, NaturalRounds
<1>6. PICK h : IsNatural(h, t, b) /\ Natural(t, b) = h[Len(t)]
  BY <1>2, NaturalRounds
<1>7. /\ f \in [0..(m + n) -> Int] /\ f[0] = 0
      /\ \A i \in 1..(m + n) : f[i] = f[i - 1] * b + Weight(r[i])
  BY <1>3, <1>4 DEF IsNatural
<1>8. /\ g \in [0..m -> Int] /\ g[0] = 0 /\ \A i \in 1..m : g[i] = g[i - 1] * b + Weight(s[i])
  BY <1>1, <1>5 DEF IsNatural
<1>9. /\ h \in [0..n -> Int] /\ h[0] = 0 /\ \A i \in 1..n : h[i] = h[i - 1] * b + Weight(t[i])
  BY <1>1, <1>6 DEF IsNatural
<1>10. f[m] = g[m]
  <2> DEFINE S == {i \in Nat : f[i] = g[i]}
  <2>1. 0 \in S
    BY <1>7, <1>8
  <2>2. ASSUME NEW i \in 0..(m - 1), i \in S PROVE i + 1 \in S
    <3>1. PICK j : j = i + 1
      OBVIOUS
    <3>2. j \in 1..m /\ j \in 1..(m + n) /\ j - 1 = i /\ j \in Nat
      BY <1>2, <3>1
    <3>3. f[j] = f[i] * b + Weight(r[j]) /\ g[j] = g[i] * b + Weight(s[j])
      BY <1>7, <1>8, <3>2
    <3>4. r[j] = s[j] /\ f[i] = g[i]
      BY <1>3, <2>2, <3>2
    <3>5. f[j] = g[j]
      BY <3>3, <3>4, Zenon
    <3> QED BY <3>1, <3>2, <3>5
  <2>3. \A i \in 0..m : i \in S
    <3> HIDE DEF S
    <3> QED BY <1>2, <2>1, <2>2, IntervalInduction
  <2>4. m \in 0..m
    BY <1>2
  <2> QED BY <2>3, <2>4, Zenon
<1>11. \A i \in 0..n : Tens[i] \in Nat \ {0}
  BY <1>2, TensEquations
<1>12. PICK G : G = g[m]
  OBVIOUS
<1>13. G \in Int
  BY <1>2, <1>8, <1>12
<1> DEFINE S == {i \in Nat : f[m + i] = G * Tens[i] + h[i]}
<1>14. 0 \in S
  <2>1. Tens[0] = 1 /\ m + 0 = m
    BY <1>2, TensEquations
  <2> QED BY <1>9, <1>10, <1>12, <1>13, <2>1
<1>15. ASSUME NEW i \in 0..(n - 1), i \in S PROVE i + 1 \in S
  <2>1. PICK j : j = i + 1
    OBVIOUS
  <2>2. PICK k : k = m + j
    OBVIOUS
  <2>3. /\ j \in 1..n /\ j - 1 = i /\ j \in Nat /\ k \in 1..(m + n) /\ k - 1 = m + i
        /\ i \in 0..n /\ i \in 0..(MostTens - 1)
    BY <1>2, <2>1, <2>2
  <2>4. f[k] = f[m + i] * b + Weight(r[k]) /\ h[j] = h[i] * b + Weight(t[j])
    BY <1>7, <1>9, <2>3
  <2>5. r[k] = t[j]
    BY <1>3, <2>2, <2>3
  <2>6. PICK T, H, c : T = Tens[i] /\ H = h[i] /\ c = Weight(t[j])
    OBVIOUS
  <2>7. f[m + i] = G * T + H
    BY <1>15, <2>6
  <2>8. Tens[j] = 10 * T /\ T \in Nat
    BY <1>11, <2>1, <2>3, <2>6, TensEquations
  <2>9. H \in Int
    BY <1>9, <2>3, <2>6
  <2>10. c \in Int
    <3>1. t[j] \in Nat
      BY <1>1, <2>3
    <3> QED BY <2>6, <3>1 DEF Weight, LowerA, UpperA, Zero
  <2>11. (G * T + H) * 10 + c = G * (10 * T) + (H * 10 + c)
    BY <1>13, <2>8, <2>9, <2>10, SMT
  <2>12. f[k] = (G * T + H) * 10 + c /\ h[j] = H * 10 + c
    BY <1>1, <2>4, <2>5, <2>6, <2>7, Zenon
  <2>13. f[k] = G * Tens[j] + h[j]
    BY <2>8, <2>11, <2>12, Zenon
  <2> QED BY <2>1, <2>2, <2>3, <2>13
<1>16. \A i \in 0..n : i \in S
  <2> HIDE DEF S
  <2> QED BY <1>2, <1>14, <1>15, IntervalInduction
<1>17. f[m + n] = G * Tens[n] + h[n]
  BY <1>2, <1>16
<1>18. Natural(r, b) = f[m + n] /\ Natural(s, b) = G /\ Natural(t, b) = h[n]
  BY <1>1, <1>3, <1>4, <1>5, <1>6, <1>12, Zenon
<1> QED BY <1>1, <1>17, <1>18, Zenon

(* A string made of two. *)
Joins(r, s, t) == s \in Seq(Nat) /\ t \in Seq(Nat) /\ r = s \o t

(* Where the characters of such a string are. *)
InTwoParts(r, s, t) ==
  /\ Len(s) \in Nat /\ Len(t) \in Nat
  /\ r \in Seq(Nat) /\ Len(r) = Len(s) + Len(t)
  /\ \A i \in 1..Len(s) : r[i] = s[i]
  /\ \A i \in 1..Len(t) : r[Len(s) + i] = t[i]

(* It has first those of the one, then those of the other. *)
LEMMA Joined ==
  ASSUME NEW r, NEW s, NEW t, Joins(r, s, t)
  PROVE  InTwoParts(r, s, t)
<1>1. s \in Seq(Nat) /\ t \in Seq(Nat) /\ r = s \o t
  BY Zenon DEF Joins
<1> QED BY <1>1, Concatenation DEF InTwoParts

(* Three strings may be joined in either order. *)
LEMMA JoinedThree ==
  ASSUME NEW s, NEW t, NEW r, NEW st, NEW tr, NEW left, NEW right,
         Joins(st, s, t), Joins(tr, t, r), Joins(left, st, r), Joins(right, s, tr)
  PROVE  left = right
<1>1. s \in Seq(Nat) /\ t \in Seq(Nat) /\ r \in Seq(Nat)
  BY Zenon DEF Joins
<1>2. ASSUME NEW a \in Seq(Nat), NEW b \in Seq(Nat), NEW c \in Seq(Nat)
      PROVE  (a \o b) \o c = a \o (b \o c)
  BY ConcatAssociative, SMTT(60)
<1>3. (s \o t) \o r = s \o (t \o r)
  BY <1>1, <1>2, Zenon
<1> QED BY <1>3, Zenon DEF Joins

(* A part of a string, by its indexes. *)
LEMMA PartIs ==
  ASSUME NEW r \in Seq(Nat), NEW s \in Seq(Nat), NEW k \in Nat, k + Len(s) <= Len(r),
         \A i \in 1..Len(s) : r[k + i] = s[i], NEW a, NEW z, a = k + 1, z = k + Len(s)
  PROVE  SubSeq(r, a, z) = s
<1>1. PICK n, N : n = Len(s) /\ N = Len(r)
  OBVIOUS
<1>2. n \in Nat /\ N \in Nat /\ k + n <= N /\ a = k + 1 /\ z = k + n
  BY <1>1
<1>3. PICK t : t = SubSeq(r, a, z)
  OBVIOUS
<1>4. \A i \in a..z : i \in 1..Len(r)
  BY <1>1, <1>2
<1>5. t \in Seq(Nat) /\ Len(t) = n
  BY <1>2, <1>3, <1>4
<1>6. ASSUME NEW i \in 1..n PROVE t[i] = s[i]
  <2>1. t[i] = r[a + i - 1]
    BY <1>2, <1>3, <1>4, <1>5
  <2>2. a + i - 1 = k + i
    BY <1>2
  <2> QED BY <1>1, <2>1, <2>2
<1>7. Len(t) = Len(s) /\ \A i \in 1..Len(t) : t[i] = s[i]
  BY <1>1, <1>5, <1>6
<1>8. t = s
  BY <1>5, <1>7, SeqEqual
<1> QED BY <1>3, <1>8, Zenon

(* A text with a point in it. *)
Pointed(r, s, t) == s \in Seq(Nat) /\ t \in Seq(Nat) /\ r = s \o (<<Point>> \o t)

(* The point is before the decimals, and the rest of the text around it. *)
LEMMA PointBetween ==
  ASSUME NEW r, NEW s, NEW t, Pointed(r, s, t), Len(t) > 0
  PROVE  /\ r \in Seq(Nat) /\ Len(r) = Len(s) + 1 + Len(t)
         /\ \A i \in 1..Len(s) : r[i] = s[i]
         /\ HasPoint(r, Len(t))
         /\ Joins(WithoutPoint(r, Len(t)), s, t)
<1>1. PICK n, N, d, p : n = Len(s) /\ N = Len(r) /\ d = Len(t) /\ p = <<Point>>
  OBVIOUS
<1>4. PICK rest, joined : rest = p \o t /\ joined = s \o t
  OBVIOUS
<1>2. s \in Seq(Nat) /\ t \in Seq(Nat) /\ r = s \o rest
  BY <1>1, <1>4, Zenon DEF Pointed
<1>3. p \in Seq(Nat) /\ Len(p) = 1 /\ p[1] = Point
  BY <1>1 DEF Point
<1>14. Joins(rest, p, t) /\ rest \in Seq(Nat)
  <2>1. Joins(rest, p, t)
    BY <1>2, <1>3, <1>4, Zenon DEF Joins
  <2> QED BY <2>1, Joined, Zenon DEF InTwoParts
<1>15. Joins(r, s, rest) /\ Joins(joined, s, t)
  BY <1>2, <1>4, <1>14, Zenon DEF Joins
<1>5. n \in Nat /\ d \in Nat /\ d > 0
  <2>1. d > 0
    BY <1>1
  <2> QED BY <1>1, <1>2, <2>1
<1>6. rest \in Seq(Nat) /\ Len(rest) = 1 + d /\ rest[1] = Point /\ \A i \in 1..d : rest[1 + i] = t[i]
  <2>1. PICK e : e = 1
    OBVIOUS
  <2>3. /\ rest \in Seq(Nat) /\ Len(rest) = e + d
        /\ \A i \in 1..e : rest[i] = p[i]
        /\ \A i \in 1..d : rest[e + i] = t[i]
    <3>1. /\ Len(p) \in Nat /\ Len(t) \in Nat
          /\ rest \in Seq(Nat) /\ Len(rest) = Len(p) + Len(t)
          /\ \A i \in 1..Len(p) : rest[i] = p[i]
          /\ \A i \in 1..Len(t) : rest[Len(p) + i] = t[i]
      <4>1. InTwoParts(rest, p, t)
        BY <1>14, Joined, Zenon
      <4> QED BY <4>1 DEF InTwoParts
    <3>2. e = Len(p)
      BY <1>3, <2>1, Zenon
    <3> QED BY <1>1, <3>1, <3>2, Zenon
  <2>4. 1 \in 1..e
    BY <2>1
  <2>5. rest[1] = Point
    BY <1>3, <2>3, <2>4, Zenon
  <2> QED BY <2>1, <2>3, <2>5, Zenon
<1>8. /\ r \in Seq(Nat) /\ N = n + (1 + d) /\ N \in Nat
      /\ \A i \in 1..n : r[i] = s[i]
      /\ \A i \in 1..(1 + d) : r[n + i] = rest[i]
  <2>1. PICK L : L = Len(rest) /\ L = 1 + d
    BY <1>6
  <2>2. /\ r \in Seq(Nat) /\ N = n + L /\ n \in Nat /\ L \in Nat
        /\ \A i \in 1..n : r[i] = s[i]
        /\ \A i \in 1..L : r[n + i] = rest[i]
    <3>1. /\ r \in Seq(Nat) /\ Len(r) = Len(s) + Len(rest)
          /\ Len(s) \in Nat /\ Len(rest) \in Nat
          /\ \A i \in 1..Len(s) : r[i] = s[i]
          /\ \A i \in 1..Len(rest) : r[Len(s) + i] = rest[i]
      <4>1. InTwoParts(r, s, rest)
        BY <1>15, Joined, Zenon
      <4> QED BY <4>1 DEF InTwoParts
    <3> QED BY <1>1, <2>1, <3>1, Zenon
  <2>3. N \in Nat
    BY <2>2
  <2> QED BY <2>1, <2>2, <2>3, Zenon
<1>9. HasPoint(r, d)
  <2>1. n + 1 \in 1..N /\ N - (n + 1) = d /\ 1 \in 1..(1 + d)
    BY <1>5, <1>8
  <2>2. r[n + 1] = Point
    BY <1>6, <1>8, <2>1
  <2> QED BY <1>1, <2>1, <2>2 DEF HasPoint
<1>10. SubSeq(r, 1, N - d - 1) = s
  <2>1. 0 + n <= N /\ 1 = 0 + 1 /\ N - d - 1 = 0 + n /\ 0 \in Nat
    BY <1>5, <1>8
  <2>2. \A i \in 1..n : r[0 + i] = s[i]
    <3>1. \A i \in 1..n : 0 + i = i
      BY <1>5
    <3> QED BY <1>8, <3>1
  <2>3. PICK z : z = N - d - 1
    OBVIOUS
  <2>4. SubSeq(r, 1, z) = s
    BY <1>1, <1>2, <1>8, <2>1, <2>2, <2>3, PartIs
  <2> QED BY <2>3, <2>4
<1>11. SubSeq(r, N - d + 1, N) = t
  <2>1. PICK k : k = n + 1
    OBVIOUS
  <2>2. k \in Nat /\ k + d <= N /\ N - d + 1 = k + 1 /\ N = k + d
    BY <1>5, <1>8, <2>1
  <2>3. \A i \in 1..d : r[k + i] = t[i]
    <3> SUFFICES ASSUME NEW i \in 1..d PROVE r[k + i] = t[i]
      OBVIOUS
    <3>1. 1 + i \in 1..(1 + d) /\ k + i = n + (1 + i)
      BY <1>5, <2>1
    <3> QED BY <1>6, <1>8, <3>1
  <2>4. PICK a : a = N - d + 1
    OBVIOUS
  <2>5. SubSeq(r, a, N) = t
    <3>1. PICK L : L = Len(r) /\ L = N
      BY <1>1
    <3>2. /\ r \in Seq(Nat) /\ t \in Seq(Nat) /\ k \in Nat /\ k + Len(t) <= Len(r)
          /\ \A i \in 1..Len(t) : r[k + i] = t[i]
          /\ a = k + 1 /\ N = k + Len(t)
      BY <1>1, <1>2, <1>8, <2>2, <2>3, <2>4, Zenon
    <3> QED BY ONLY <3>2, PartIs
  <2> QED BY <2>4, <2>5
<1>12. WithoutPoint(r, d) = s \o t
  <2>1. d # 0
    BY <1>5
  <2>2. WithoutPoint(r, d) = SubSeq(r, 1, N - d - 1) \o SubSeq(r, N - d + 1, N)
    BY <1>1, <2>1, Zenon DEF WithoutPoint
  <2> QED BY <1>2, <1>10, <1>11, <2>2, Zenon
<1>13. Len(r) = n + 1 + d
  <2>1. N = n + 1 + d
    BY <1>5, <1>8
  <2> QED BY <1>1, <2>1, Zenon
<1>16. WithoutPoint(r, d) = joined
  BY <1>4, <1>12, Zenon
<1> QED BY <1>1, <1>8, <1>9, <1>13, <1>15, <1>16, Zenon

(* The sign of a text, and the text without it. *)
LEMMA SignBefore ==
  ASSUME NEW t \in Seq(Nat), Len(t) > 0, t[1] # Minus, NEW neg \in BOOLEAN,
         NEW text, text = (IF neg THEN <<Minus>> ELSE <<>>) \o t
  PROVE  Unsigned(text) = t /\ (text[1] = Minus <=> neg)
<1>1. CASE neg
  <2>1. PICK m : m = <<Minus>>
    OBVIOUS
  <2>2. m \in Seq(Nat) /\ Len(m) = 1 /\ m[1] = Minus /\ 1 \in 1..Len(m)
    BY <2>1 DEF Minus
  <2>3. text = m \o t
    BY <1>1, <2>1, Zenon
  <2>4. text \in Seq(Nat) /\ Len(text) = 1 + Len(t) /\ text[1] = Minus
        /\ \A i \in 1..Len(t) : text[1 + i] = t[i]
    <3>1. PICK e, n : e = 1 /\ n = Len(t)
      OBVIOUS
    <3>2. Joins(text, m, t) /\ e = Len(m) /\ n = Len(t)
      BY <2>2, <2>3, <3>1, Zenon DEF Joins
    <3>3. /\ text \in Seq(Nat) /\ Len(text) = e + n
          /\ \A i \in 1..e : text[i] = m[i]
          /\ \A i \in 1..n : text[e + i] = t[i]
      <4>1. /\ Len(m) \in Nat /\ Len(t) \in Nat
            /\ text \in Seq(Nat) /\ Len(text) = Len(m) + Len(t)
            /\ \A i \in 1..Len(m) : text[i] = m[i]
            /\ \A i \in 1..Len(t) : text[Len(m) + i] = t[i]
        <5>1. InTwoParts(text, m, t)
          BY <3>2, Joined, Zenon
        <5> QED BY <5>1 DEF InTwoParts
      <4> QED BY <3>2, <4>1, Zenon
    <3>4. 1 \in 1..e
      BY <3>1
    <3>5. text[1] = Minus
      BY <2>2, <3>3, <3>4, Zenon
    <3> QED BY <3>1, <3>3, <3>5, Zenon
  <2>5. PICK r : r = Tail(text)
    OBVIOUS
  <2>6. Len(t) \in Nat
    OBVIOUS
  <2>7. text # <<>>
    BY <2>4, <2>6
  <2>8. Len(r) = Len(text) - 1 /\ r \in Seq(Nat) /\ \A i \in 1..Len(r) : r[i] = text[i + 1]
    BY <2>4, <2>5, <2>7
  <2>9. Len(r) = Len(t) /\ \A i \in 1..Len(r) : r[i] = t[i]
    <3>1. Len(r) = Len(t) /\ \A i \in 1..Len(t) : i + 1 = 1 + i
      BY <2>4, <2>6, <2>8
    <3> QED BY <2>4, <2>8, <3>1
  <2>10. r = t
    BY <2>8, <2>9, SeqEqual
  <2> QED BY <1>1, <2>4, <2>5, <2>10, Zenon DEF Unsigned
<1>2. CASE ~neg
  <2>1. text = <<>> \o t
    BY <1>2, Zenon
  <2>2. text = t
    BY <2>1, ConcatEmptySeq
  <2> QED BY <1>2, <2>2, Zenon DEF Unsigned
<1> QED BY <1>1, <1>2

(* printf.c 95-179: what dbl2stri() writes is the double, rounded.         *)
LEMMA DoubleDenotes ==
  ASSUME NEW dbl \in Int, NEW d \in 0..(MaxPrecision + 6), ~Carries(dbl, d),
         NEW text, text = dbl2stri(dbl, d)
  PROVE  HasPoint(Unsigned(text), d) /\ Scaled(text, d) = Rounded(dbl, d)
<1>1. PICK D : D = DENOMINATOR
  OBVIOUS
<1>2. PICK x : x = Magn(dbl)
  OBVIOUS
<1>3. D \in Nat \ {0} /\ x \in Nat /\ MaxPrecision \in Nat /\ PRINTL_BUF_LEN \in Nat
  BY <1>1, <1>2, PrintfAssumption, BufferAssumption DEF Magn
<1>4. PICK w, f : w = x \div D /\ f = x % D
  OBVIOUS
<1>5. w \in Nat /\ f \in 0..(D - 1) /\ x = D * w + f
  <2>1. ASSUME NEW n \in Nat
        PROVE  n \div D \in Nat /\ n % D \in 0..(D - 1) /\ n = D * (n \div D) + (n % D)
    BY <1>3, SMT
  <2> QED BY <1>3, <1>4, <2>1
<1>6. PICK T : T = Tens[d]
  OBVIOUS
<1>7. d \in Nat /\ d <= MostTens /\ T \in Nat \ {0} /\ Tens[d + 1] = 10 * T /\ (d = 0 => T = 1)
  <2>1. d \in 0..(MostTens - 1) /\ d \in 0..MostTens /\ MostTens \in Int /\ d \in Nat
    BY <1>3 DEF MostTens
  <2> QED BY <1>6, <2>1, TensEquations
<1>8. PICK q : q = ((f * (10 * T)) \div D + 5) \div 10
  OBVIOUS
<1>9. DecimalNum(x, d) = q
  BY <1>1, <1>4, <1>7, <1>8, Zenon DEF DecimalNum
<1>10. /\ q \in 0..T
       /\ (2 * f * T + D) \div (2 * D) = q
       /\ (2 * x * T + D) \div (2 * D) = w * T + q
  BY <1>3, <1>5, <1>7, <1>8, FractionRounds
<1>11. q < T
  <2>1. Magn(f) = f /\ ~(f < 0)
    BY <1>5 DEF Magn
  <2>2. Rounded(f, d) = (2 * f * T + D) \div (2 * D)
    BY <1>1, <1>6, <2>1, Zenon DEF Rounded
  <2>3. Rounded(Magn(dbl) % DENOMINATOR, d) = q
    BY <1>1, <1>2, <1>4, <1>10, <2>2, Zenon
  <2>4. q # T
    BY <1>6, <2>3, Zenon DEF Carries
  <2> QED BY <1>7, <1>10, <2>4
<1>12. PICK val : val = w * T + q
  OBVIOUS
<1>13. Rounded(dbl, d) = IF dbl < 0 THEN -val ELSE val
  BY <1>1, <1>2, <1>6, <1>10, <1>12, Zenon DEF Rounded
<1>14. PICK low : low = DecimalFigures(q)
  OBVIOUS
<1>15. low \in Seq(Nat) /\ Natural(low, 10) = q /\ Len(low) <= d /\ Len(low) \in Nat
  <2>1. q \in Nat /\ d \in 0..MostTens
    <3>1. MostTens \in Int
      BY <1>3 DEF MostTens
    <3> QED BY <1>7, <1>10, <3>1
  <2>2. InFigures(low, q, 10) /\ (q < Tens[d] => Len(low) <= d)
    BY <1>14, <2>1, DecimalsDenote
  <2>3. low \in Seq(Nat) /\ Natural(low, 10) = q /\ Len(low) <= d
    BY <1>6, <1>11, <2>2 DEF InFigures
  <2> QED BY <2>3
<1>16. PICK whole : whole = IF x < D THEN <<Zero>> ELSE DecimalFigures(w)
  OBVIOUS
<1>17. whole \in Seq(Nat) /\ Natural(whole, 10) = w /\ Len(whole) > 0 /\ Len(whole) \in Nat
       /\ whole[1] # Minus
  <2>1. CASE x < D
    <3>1. w = 0
      BY <1>3, <1>4, <2>1
    <3>2. PICK empty, ten : empty = <<>> /\ ten = 10
      OBVIOUS
    <3>3. empty \in Seq(Nat) /\ Len(empty) = 0 /\ <<Zero>> = Append(empty, Zero) /\ Zero \in Nat
          /\ ten \in Nat
      BY <3>2 DEF Zero
    <3>4. Natural(empty, ten) = 0
      <4>1. PICK g : IsNatural(g, empty, ten) /\ Natural(empty, ten) = g[Len(empty)]
        BY <3>3, NaturalRounds
      <4> QED BY <3>3, <4>1 DEF IsNatural
    <3>5. Natural(<<Zero>>, ten) = 0 * ten + Weight(Zero)
      BY <3>3, <3>4, NaturalAppend
    <3>6. Weight(Zero) = 0
      BY DEF Weight, Zero, LowerA, UpperA
    <3>7. Natural(<<Zero>>, 10) = 0
      BY <3>2, <3>5, <3>6
    <3>8. whole = <<Zero>>
      BY <1>16, <2>1, Zenon
    <3>9. whole \in Seq(Nat) /\ Len(whole) = 1 /\ whole[1] # Minus
      BY <3>8 DEF Zero, Minus
    <3> QED BY <3>1, <3>7, <3>8, <3>9
  <2>2. CASE ~(x < D)
    <3>1. w # 0
      BY <1>3, <1>5, <2>2, SMT
    <3>2. InFigures(whole, w, 10)
      <4>1. InFigures(DecimalFigures(w), w, 10)
        BY <1>5, DecimalsDenote
      <4> QED BY <1>16, <2>2, <4>1, Zenon
    <3>3. whole \in Seq(Nat) /\ Natural(whole, 10) = w /\ Len(whole) > 0
          /\ \A i \in 1..Len(whole) : IsFigure(whole[i])
      BY <3>1, <3>2 DEF InFigures
    <3>4. Len(whole) \in Nat /\ 1 \in 1..Len(whole)
      BY <3>3
    <3> QED BY <3>3, <3>4 DEF IsFigure
  <2> QED BY <2>1, <2>2
<1>18. PICK zeros : zeros = [i \in 1..(d - Len(low)) |-> Zero]
  OBVIOUS
<1>19. PICK decimals : decimals = zeros \o low
  OBVIOUS
<1>20. zeros \in Seq(Nat) /\ decimals \in Seq(Nat) /\ Len(decimals) = d
       /\ Natural(decimals, 10) = q
  <2>1. PICK k : k = d - Len(low)
    OBVIOUS
  <2>2. k \in Nat /\ k + Len(low) = d
    BY <1>7, <1>15, <2>1
  <2>3. zeros \in Seq(Nat) /\ Len(zeros) = k /\ \A i \in 1..k : zeros[i] = Zero
    <3>1. zeros = [i \in 1..k |-> Zero]
      BY <1>18, <2>1, Zenon
    <3>2. Zero \in Nat
      BY DEF Zero
    <3> QED BY <2>2, <3>1, <3>2
  <2>4. /\ decimals \in Seq(Nat) /\ Len(decimals) = k + Len(low)
        /\ \A i \in 1..k : decimals[i] = zeros[i]
        /\ \A i \in 1..Len(low) : decimals[k + i] = low[i]
    <3>1. PICK n : n = Len(low)
      OBVIOUS
    <3>2. Joins(decimals, zeros, low) /\ k = Len(zeros) /\ n = Len(low)
      BY <1>15, <1>19, <2>3, <3>1, Zenon DEF Joins
    <3>3. /\ decimals \in Seq(Nat) /\ Len(decimals) = k + n
          /\ \A i \in 1..k : decimals[i] = zeros[i]
          /\ \A i \in 1..n : decimals[k + i] = low[i]
      <4>1. /\ decimals \in Seq(Nat) /\ Len(decimals) = Len(zeros) + Len(low)
            /\ \A i \in 1..Len(zeros) : decimals[i] = zeros[i]
            /\ \A i \in 1..Len(low) : decimals[Len(zeros) + i] = low[i]
        <5>1. InTwoParts(decimals, zeros, low)
          BY <3>2, Joined, Zenon
        <5> QED BY <5>1 DEF InTwoParts
      <4> QED BY <3>2, <4>1, Zenon
    <3> QED BY <3>1, <3>3, Zenon
  <2>5. \A i \in 1..k : decimals[i] = Zero
    BY <2>3, <2>4
  <2>6. PICK ten : ten = 10
    OBVIOUS
  <2>7. ten \in Nat
    BY <2>6
  <2>8. Natural(decimals, ten) = Natural(low, ten)
    BY <1>15, <2>2, <2>4, <2>5, <2>7, LeadingZerosDenote
  <2>9. Natural(decimals, 10) = q
    BY <1>15, <2>6, <2>8, Zenon
  <2> QED BY <2>2, <2>3, <2>4, <2>9
<1>21. PICK t : t = whole \o (IF d = 0 THEN <<>> ELSE <<Point>> \o decimals)
  OBVIOUS
<1>22. PICK neg : neg = (dbl < 0)
  OBVIOUS
<1>23. text = (IF neg THEN <<Minus>> ELSE <<>>) \o t
  <2>1. PICK sign : sign = IF neg THEN <<Minus>> ELSE <<>>
    OBVIOUS
  <2>2. PICK point : point = <<Point>>
    OBVIOUS
  <2>3. sign \in Seq(Nat) /\ point \in Seq(Nat)
    BY <2>1, <2>2 DEF Minus, Point
  <2>4. text = (sign \o whole) \o (IF d = 0 THEN <<>> ELSE (point \o zeros) \o low)
    BY <1>1, <1>2, <1>4, <1>9, <1>14, <1>16, <1>18, <1>22, <2>1, <2>2, Zenon DEF dbl2stri
  <2>5. (point \o zeros) \o low = point \o decimals
    <3>1. PICK r, left, right : r = point \o zeros /\ left = r \o low /\ right = point \o decimals
      OBVIOUS
    <3>2. Joins(r, point, zeros) /\ Joins(decimals, zeros, low)
      BY <1>15, <1>19, <1>20, <2>3, <3>1, Zenon DEF Joins
    <3>4. r \in Seq(Nat)
      BY <2>3, <1>20, <3>1, Concatenation
    <3>5. Joins(left, r, low) /\ Joins(right, point, decimals)
      BY <1>15, <1>20, <2>3, <3>1, <3>4, Zenon DEF Joins
    <3>3. left = right
      BY <3>2, <3>5, JoinedThree, Zenon
    <3> QED BY <3>1, <3>3, Zenon
  <2>6. PICK end : end = IF d = 0 THEN <<>> ELSE point \o decimals
    OBVIOUS
  <2>7. end \in Seq(Nat)
    BY <1>20, <2>3, <2>6, Concatenation
  <2>8. text = (sign \o whole) \o end
    BY <2>4, <2>5, <2>6, Zenon
  <2>9. (sign \o whole) \o end = sign \o (whole \o end)
    <3>1. PICK r, rest, left, right :
            r = sign \o whole /\ rest = whole \o end /\ left = r \o end /\ right = sign \o rest
      OBVIOUS
    <3>2. Joins(r, sign, whole) /\ Joins(rest, whole, end)
      BY <1>17, <2>3, <2>7, <3>1, Zenon DEF Joins
    <3>4. r \in Seq(Nat) /\ rest \in Seq(Nat)
      BY <1>17, <2>3, <2>7, <3>1, Concatenation
    <3>5. Joins(left, r, end) /\ Joins(right, sign, rest)
      BY <2>3, <2>7, <3>1, <3>4, Zenon DEF Joins
    <3>3. left = right
      BY <3>2, <3>5, JoinedThree, Zenon
    <3> QED BY <3>1, <3>3, Zenon
  <2>10. t = whole \o end
    BY <1>21, <2>2, <2>6, Zenon
  <2> QED BY <2>1, <2>8, <2>9, <2>10, Zenon
<1>24. /\ t \in Seq(Nat) /\ Len(t) > 0 /\ t[1] # Minus /\ HasPoint(t, d)
       /\ Natural(WithoutPoint(t, d), 10) = val
  <2>1. CASE d = 0
    <3>1. t = whole
      <4>1. t = whole \o <<>>
        BY <1>21, <2>1, Zenon
      <4> QED BY <1>17, <4>1, ConcatEmptySeq
    <3>2. HasPoint(t, d) /\ WithoutPoint(t, d) = t
      BY <2>1 DEF HasPoint, WithoutPoint
    <3>3. val = w
      <4>1. T = 1 /\ q = 0
        BY <1>7, <1>10, <1>11, <2>1
      <4> QED BY <1>5, <1>12, <4>1
    <3> QED BY <1>17, <3>1, <3>2, <3>3
  <2>2. CASE d # 0
    <3>1. t = whole \o (<<Point>> \o decimals)
      BY <1>21, <2>2, Zenon
    <3>2. d > 0 /\ d = Len(decimals)
      BY <1>7, <1>20, <2>2
    <3>3. /\ t \in Seq(Nat) /\ Len(t) = Len(whole) + 1 + d
          /\ \A i \in 1..Len(whole) : t[i] = whole[i]
          /\ HasPoint(t, d)
          /\ WithoutPoint(t, d) = whole \o decimals
      <4>1. Pointed(t, whole, decimals) /\ Len(decimals) > 0
        BY <1>17, <1>20, <3>1, <3>2, Zenon DEF Pointed
      <4>2. /\ t \in Seq(Nat) /\ Len(t) = Len(whole) + 1 + Len(decimals)
            /\ \A i \in 1..Len(whole) : t[i] = whole[i]
            /\ HasPoint(t, Len(decimals))
            /\ Joins(WithoutPoint(t, Len(decimals)), whole, decimals)
        BY ONLY <4>1, PointBetween
      <4>3. WithoutPoint(t, d) = whole \o decimals
        BY <3>2, <4>2, Zenon DEF Joins
      <4> QED BY <3>2, <4>2, <4>3, Zenon
    <3>4. PICK r : r = whole \o decimals
      OBVIOUS
    <3>5. Len(decimals) <= MostTens
      BY <1>7, <1>20
    <3>6. Natural(r, 10) = Natural(whole, 10) * Tens[Len(decimals)] + Natural(decimals, 10)
      BY <1>17, <1>20, <3>4, <3>5, NaturalConcatenation
    <3>7. Natural(WithoutPoint(t, d), 10) = val
      BY <1>6, <1>12, <1>17, <1>20, <3>3, <3>4, <3>6, Zenon
    <3>8. 1 \in 1..Len(whole) /\ Len(t) > 0
      BY <1>7, <1>17, <3>3
    <3> QED BY <1>17, <3>3, <3>7, <3>8
  <2> QED BY <2>1, <2>2
<1>25. Unsigned(text) = t /\ (text[1] = Minus <=> neg)
  <2>1. neg \in BOOLEAN
    BY <1>22
  <2> QED BY <1>23, <1>24, <2>1, SignBefore
<1>26. Scaled(text, d) = IF dbl < 0 THEN -val ELSE val
  BY <1>22, <1>24, <1>25, Zenon DEF Scaled
<1> QED BY <1>13, <1>24, <1>25, <1>26, Zenon

(* The number of decimals is the default or what the format asks for. *)
DecimalsInv == dec_width \in 0..(MaxPrecision + 6)

(* Only the format changes it. *)
LEMMA DecimalsStay ==
  ASSUME DecimalsInv, [Next]_vars
  PROVE  DecimalsInv'
<1>1. CASE UNCHANGED dec_width
  BY <1>1 DEF DecimalsInv
<1>2. CASE Literal \/ Percent \/ Return \/ PercentSign \/ Conversion \/ UNCHANGED vars
  <2>1. CASE Literal \/ Percent \/ Return \/ PercentSign \/ ConvertUnknown \/ UNCHANGED vars
    BY <1>1, <2>1 DEF Literal, Percent, Return, PercentSign, ConvertUnknown, vars, formatVars
  <2>2. ASSUME NEW conv, NEW given, NEW text, Write(conv, given, text) PROVE DecimalsInv'
    BY <1>1, <2>2 DEF Write, formatVars
  <2>3. CASE \E c : ConvertInt(c) \/ ConvertLong(c)
    BY <2>2, <2>3, Zenon DEF ConvertInt, ConvertLong
  <2>4. CASE ConvertPointer \/ ConvertString \/ ConvertChar \/ ConvertDouble
    BY <2>2, <2>4, Zenon DEF ConvertPointer, ConvertString, ConvertChar, ConvertDouble
  <2> QED BY <1>2, <2>1, <2>3, <2>4 DEF Conversion
<1>3. CASE FormatStep
  <2>1. CASE Justify \/ PadZero \/ Long \/ LongLong \/ \E n \in FormatDigit : Width(n)
    BY <1>1, <2>1 DEF Justify, PadZero, Long, LongLong, Width, formatVars
  <2>2. CASE DecimalPoint
    BY <2>2, PrintfAssumption DEF DecimalPoint, DecimalsInv
  <2>3. ASSUME NEW n \in FormatDigit, Decimals(n) PROVE DecimalsInv'
    <3>1. n \in Nat /\ MaxPrecision \in Nat
      BY PrintfAssumption
    <3> QED BY <2>3, <3>1 DEF Decimals, DecimalsInv
  <2> QED BY <1>3, <2>1, <2>2, <2>3 DEF FormatStep
<1> QED BY <1>2, <1>3 DEF Next

(* printf.c 95-179, 415-423: a double is printed rounded to its last       *)
(* decimal, with the decimals asked for, unless the rounding carries into  *)
(* the whole part.                                                         *)
THEOREM PrintfFractions == Spec => []FractionDenotes
<1>1. Init => DecimalsInv /\ FractionDenotes
  BY PrintfAssumption DEF Init, DecimalsInv, FractionDenotes, None
<1>2. ArgumentInv /\ DecimalsInv /\ FractionDenotes /\ [Next]_vars
        => DecimalsInv' /\ FractionDenotes'
  <2> SUFFICES ASSUME ArgumentInv, DecimalsInv, FractionDenotes, [Next]_vars
               PROVE  FractionDenotes'
    BY DecimalsStay
  <2>1. CASE last' = last /\ skewed' = skewed
    BY <2>1, Zenon DEF FractionDenotes
  <2>2. ASSUME last'.conv # "f" \/ skewed' PROVE FractionDenotes'
    BY <2>2, Zenon DEF FractionDenotes
  <2>3. CASE Literal \/ Percent
    <3>1. last' = None
      BY <2>3 DEF Literal, Percent
    <3>2. last'.conv # "f"
      BY <3>1 DEF None
    <3> QED BY <2>2, <3>2
  <2>4. CASE Return \/ PercentSign \/ FormatStep \/ ConvertUnknown \/ UNCHANGED vars
    <3>1. last' = last /\ skewed' = skewed
      BY <2>4 DEF Return, PercentSign, FormatStep, Justify, PadZero, DecimalPoint, Long,
                  LongLong, Width, Decimals, Reading, ConvertUnknown, vars, outputVars
    <3> QED BY <2>1, <3>1
  <2>5. CASE \/ \E c \in {"d", "u", "x", "X"} : ConvertInt(c) \/ ConvertLong(c)
             \/ ConvertPointer \/ ConvertString \/ ConvertChar
    <3>1. \E conv \in {"d", "u", "x", "X", "p", "s", "c"} : \E given, text :
             Write(conv, given, text)
      BY <2>5, Zenon DEF ConvertInt, ConvertLong, ConvertPointer, ConvertString, ConvertChar
    <3>2. PICK conv \in {"d", "u", "x", "X", "p", "s", "c"} : last'.conv = conv
      BY <3>1 DEF Write
    <3>3. last'.conv # "f"
      BY <3>2
    <3> QED BY <2>2, <3>3
  <2>6. CASE ConvertDouble
    <3>1. PICK given, read \in DoubleArgument :
            /\ Take(2, varg, Even(pushed), given, read, DoubleArgument)
            /\ Write("f", given, [buffer |-> dbl2stri(read, dec_width),
                                  field |-> prints(dbl2stri(read, dec_width), width, pad)])
            /\ skewed' = (skewed \/ varg # Even(pushed))
      BY <2>6, Zenon DEF ConvertDouble
    <3>2. CASE skewed \/ varg # Even(pushed)
      BY <2>2, <3>1, <3>2, Zenon
    <3>3. CASE ~(skewed \/ varg # Even(pushed))
      <4>1. read = given
        BY <3>1, <3>3, Zenon DEF Take
      <4>2. PICK d, text : d = dec_width /\ text = dbl2stri(given, d)
        OBVIOUS
      <4>3. last'.conv = "f" /\ last'.given = given /\ last'.dec_width = d /\ last'.buffer = text
        <5>1. PICK shown : shown = [buffer |-> dbl2stri(read, dec_width),
                                    field |-> prints(dbl2stri(read, dec_width), width, pad)]
          OBVIOUS
        <5>2. shown.buffer = dbl2stri(read, dec_width)
          BY <5>1
        <5>3. shown.buffer = text
          BY <4>1, <4>2, <5>2, Zenon
        <5>4. Write("f", given, shown)
          BY <3>1, <5>1, Zenon
        <5> QED BY <4>2, <5>3, <5>4 DEF Write
      <4>4. given \in Int /\ d \in 0..(MaxPrecision + 6)
        BY <4>2, PrintfAssumption DEF DecimalsInv
      <4>5. ~Carries(given, d) => HasPoint(Unsigned(text), d) /\ Scaled(text, d) = Rounded(given, d)
        BY <4>2, <4>4, DoubleDenotes
      <4> QED BY <4>3, <4>5, Zenon DEF FractionDenotes
    <3> QED BY <3>2, <3>3
  <2> QED BY <2>3, <2>4, <2>5, <2>6 DEF Next, Conversion
<1> QED BY <1>1, <1>2, ArgumentsTaken, PTL DEF Spec
=============================================================================
