-------------------------- MODULE HashtableProofs ---------------------------
(***************************************************************************)
(* Theorems about Hashtable, for any hash function and any sizes.          *)
(*                                                                         *)
(* The model's three recursive functions - the inputs of a row of buckets, *)
(* the buckets after some inputs were rehashed, and the counts of a value  *)
(* in a row of inputs - are first shown to satisfy their equations; what   *)
(* they compute is then proved by induction over the row.                  *)
(***************************************************************************)
EXTENDS Hashtable, NumberFacts, SequenceTheorems, TLAPS

(* The equations of InputsBelow. *)
LEMMA BelowEquations ==
  ASSUME NEW s \in Nat, NEW bs, NEW S, \A n \in 0..(s - 1) : bs[n].inputs \in Seq(S)
  PROVE  /\ InputsBelow(bs, s)[0] = <<>>
         /\ \A n \in 0..(s - 1) :
              InputsBelow(bs, s)[n + 1] = InputsBelow(bs, s)[n] \o bs[n].inputs
         /\ \A n \in 0..s : InputsBelow(bs, s)[n] \in Seq(S)
<1> DEFINE step == [n \in 1..s |-> [x \in Seq(S) |-> x \o bs[n - 1].inputs]]
           eq(f) == [n \in 0..s |-> IF n = 0 THEN <<>> ELSE f[n - 1] \o bs[n - 1].inputs]
           below == CHOOSE f : f = eq(f)
<1>1. \E f : f = eq(f)
  <2>1. step \in [1..s -> [Seq(S) -> Seq(S)]]
    <3>1. ASSUME NEW n \in 1..s, NEW x \in Seq(S) PROVE x \o bs[n - 1].inputs \in Seq(S)
      <4>1. bs[n - 1].inputs \in Seq(S)
        OBVIOUS
      <4> QED BY <4>1, ConcatProperties
    <3> QED BY <3>1
  <2>2. <<>> \in Seq(S)
    OBVIOUS
  <2>3. PICK f \in [0..s -> Seq(S)] :
          \A n \in 0..s : f[n] = IF n = 0 THEN <<>> ELSE step[n][f[n - 1]]
    <3> HIDE DEF step
    <3>1. \E f : IsRecursive(f, s, Seq(S), <<>>, step)
      BY <2>1, <2>2, IntervalRecursion
    <3> QED BY <3>1 DEF IsRecursive
  <2>4. ASSUME NEW n \in 0..s
        PROVE  f[n] = IF n = 0 THEN <<>> ELSE f[n - 1] \o bs[n - 1].inputs
    <3>1. CASE n = 0
      BY <2>3, <3>1
    <3>2. CASE n # 0
      <4>1. n \in 1..s /\ n - 1 \in 0..s
        BY <3>2
      <4>2. f[n - 1] \in Seq(S)
        BY <2>3, <4>1
      <4> QED BY <2>3, <3>2, <4>1, <4>2
    <3> QED BY <3>1, <3>2
  <2>5. f = eq(f)
    BY <2>3, <2>4
  <2> QED BY <2>5
<1>2. below = eq(below)
  <2> HIDE DEF eq
  <2> QED BY <1>1
<1>3. InputsBelow(bs, s) = below
  BY DEF InputsBelow
<1> HIDE DEF below
<1>4. below[0] = <<>>
  BY <1>2
<1>5. ASSUME NEW n \in 0..(s - 1) PROVE below[n + 1] = below[n] \o bs[n].inputs
  <2>1. n + 1 \in 0..s /\ n + 1 # 0 /\ (n + 1) - 1 = n
    OBVIOUS
  <2> QED BY <1>2, <2>1
<1>6. \A n \in 0..s : below[n] \in Seq(S)
  <2> DEFINE T == {n \in Nat : n <= s => below[n] \in Seq(S)}
  <2>1. 0 \in T
    <3>1. below[0] \in Seq(S)
      BY <1>4
    <3> QED BY <3>1
  <2>2. ASSUME NEW n \in Nat, n \in T PROVE n + 1 \in T
    <3>1. CASE n + 1 <= s
      <4>1. n \in 0..(s - 1) /\ below[n] \in Seq(S) /\ bs[n].inputs \in Seq(S)
        BY <2>2, <3>1
      <4>2. below[n + 1] \in Seq(S)
        BY <1>5, <4>1, ConcatProperties
      <4> QED BY <4>2
    <3>2. CASE ~(n + 1 <= s)
      BY <3>2
    <3> QED BY <3>1, <3>2
  <2>3. \A n \in Nat : n \in T
    <3> HIDE DEF T
    <3> QED BY <2>1, <2>2, SetInduction
  <2> QED BY <2>3
<1> QED BY <1>3, <1>4, <1>5, <1>6

-----------------------------------------------------------------------------
(* What the buckets of a buffer of size s have to be: every input carries  *)
(* the hash of its value, is in the bucket that hash leads to, and has     *)
(* room there.                                                             *)
Tagged == {x \in Input : x.my_hash = Hash(x.value)}

TaggedBucket == [inputs : Seq(Tagged), bucket_size : Nat \ {0}]

Placed(bs, s) ==
  \A i \in 0..(s - 1) : \A j \in 1..Len(bs[i].inputs) :
    Hash(bs[i].inputs[j].value) % s = i

Fits(bs, s) == \A i \in 0..(s - 1) : Len(bs[i].inputs) <= bs[i].bucket_size

SoundBuckets(s) == {bs \in [0..(s - 1) -> TaggedBucket] : Placed(bs, s) /\ Fits(bs, s)}

(* The bucket of a hash is a bucket of the buffer. *)
LEMMA IndexInBuffer ==
  ASSUME NEW s \in Nat \ {0}, NEW h \in Nat
  PROVE  h % s \in 0..(s - 1)
PROOF OBVIOUS

(* What is known of a tagged input. *)
LEMMA TaggedInput ==
  ASSUME NEW x \in Tagged
  PROVE  /\ x.value \in Value /\ x.count \in 0..MaxCount
         /\ x.my_hash = Hash(x.value) /\ x.my_hash \in Nat
PROOF BY HashtableAssumption DEF Tagged, Input

(* bucket_toss() puts the input behind the others, and makes the buffer of *)
(* the bucket larger when it has no room for it.                           *)
LEMMA TossProperties ==
  ASSUME NEW b \in TaggedBucket, NEW x \in Tagged, Len(b.inputs) <= b.bucket_size
  PROVE  LET c == BucketToss(b, x)
         IN  /\ c \in TaggedBucket
             /\ c.inputs = Append(b.inputs, x)
             /\ Len(c.inputs) <= c.bucket_size
<1> DEFINE xs == Append(b.inputs, x)
           n  == IF Full(b) THEN 2 * b.bucket_size ELSE b.bucket_size
<1>1. b.inputs \in Seq(Tagged) /\ b.bucket_size \in Nat \ {0} /\ Len(b.inputs) \in Nat
  BY DEF TaggedBucket
<1>2. xs \in Seq(Tagged) /\ Len(xs) = Len(b.inputs) + 1
  BY <1>1, AppendProperties
<1>3. n \in Nat \ {0} /\ Len(b.inputs) + 1 <= n
  BY <1>1 DEF Full
<1>4. BucketToss(b, x) = [inputs |-> xs, bucket_size |-> n]
  BY DEF BucketToss
<1> HIDE DEF xs, n
<1>5. [inputs |-> xs, bucket_size |-> n] \in TaggedBucket
  BY <1>2, <1>3 DEF TaggedBucket
<1> QED BY <1>2, <1>3, <1>4, <1>5 DEF xs

(* Hashing an input into a sound buffer leaves it sound. *)
LEMMA RehashKeepsSound ==
  ASSUME NEW s \in Nat \ {0}, NEW bs \in SoundBuckets(s), NEW x \in Tagged
  PROVE  LET i  == x.my_hash % s
             cs == rehash(bs, s, x)
         IN  /\ i \in 0..(s - 1)
             /\ cs \in SoundBuckets(s)
             /\ cs[i].inputs = Append(bs[i].inputs, x)
             /\ \A k \in 0..(s - 1) : k # i => cs[k] = bs[k]
<1> DEFINE i  == x.my_hash % s
           c  == BucketToss(bs[i], x)
           cs == [bs EXCEPT ![i] = c]
<1>1. i \in 0..(s - 1) /\ x.my_hash = Hash(x.value)
  BY TaggedInput, IndexInBuffer
<1>2. bs \in [0..(s - 1) -> TaggedBucket] /\ Placed(bs, s) /\ Fits(bs, s)
  BY DEF SoundBuckets
<1>3. rehash(bs, s, x) = cs
  BY <1>1, <1>2 DEF rehash
<1> HIDE DEF i
<1>4. /\ c \in TaggedBucket /\ c.inputs = Append(bs[i].inputs, x)
      /\ Len(c.inputs) <= c.bucket_size
  BY <1>1, <1>2, TossProperties DEF Fits
<1> HIDE DEF c
<1>5. cs \in [0..(s - 1) -> TaggedBucket]
  BY <1>2, <1>4
<1>6. cs[i] = c /\ \A k \in 0..(s - 1) : k # i => cs[k] = bs[k]
  BY <1>1, <1>2
<1> HIDE DEF cs
<1>7. Fits(cs, s)
  BY <1>2, <1>4, <1>6 DEF Fits
<1>8. Placed(cs, s)
  <2> SUFFICES ASSUME NEW k \in 0..(s - 1), NEW j \in 1..Len(cs[k].inputs)
               PROVE  Hash(cs[k].inputs[j].value) % s = k
    BY DEF Placed
  <2>1. CASE k # i
    BY <1>2, <1>6, <2>1 DEF Placed
  <2>2. CASE k = i
    <3>1. bs[i].inputs \in Seq(Tagged)
      BY <1>1, <1>2 DEF TaggedBucket
    <3>2. cs[k].inputs = Append(bs[i].inputs, x)
      BY <1>4, <1>6, <2>2
    <3>3. \/ j \in 1..Len(bs[i].inputs) /\ cs[k].inputs[j] = bs[i].inputs[j]
          \/ cs[k].inputs[j] = x
      BY <3>1, <3>2, AppendProperties
    <3>4. \A m \in 1..Len(bs[i].inputs) : Hash(bs[i].inputs[m].value) % s = i
      BY <1>1, <1>2 DEF Placed
    <3>5. Hash(x.value) % s = i
      BY <1>1 DEF i
    <3> QED BY <2>2, <3>3, <3>4, <3>5
  <2> QED BY <2>1, <2>2
<1>9. cs \in SoundBuckets(s)
  BY <1>5, <1>7, <1>8 DEF SoundBuckets
<1> QED BY <1>1, <1>3, <1>4, <1>6, <1>9 DEF i

(* A new buffer is sound: its buckets are empty. *)
LEMMA EmptyIsSound ==
  ASSUME NEW s \in Nat \ {0}
  PROVE  /\ EmptyBuckets(s) \in SoundBuckets(s)
         /\ \A i \in 0..(s - 1) : EmptyBuckets(s)[i].inputs = <<>>
<1>1. [inputs |-> <<>>, bucket_size |-> BUCKET_SIZE] \in TaggedBucket
  BY HashtableAssumption DEF TaggedBucket
<1>2. EmptyBuckets(s) \in [0..(s - 1) -> TaggedBucket]
  BY <1>1 DEF EmptyBuckets
<1>3. \A i \in 0..(s - 1) : EmptyBuckets(s)[i].inputs = <<>>
  BY DEF EmptyBuckets
<1>4. \A i \in 0..(s - 1) : EmptyBuckets(s)[i].bucket_size = BUCKET_SIZE
  BY DEF EmptyBuckets
<1>5. Placed(EmptyBuckets(s), s) /\ Fits(EmptyBuckets(s), s)
  BY <1>3, <1>4, HashtableAssumption DEF Placed, Fits
<1> QED BY <1>2, <1>3, <1>5 DEF SoundBuckets

(* The equations of Rehashed, and what they preserve. *)
LEMMA RehashedEquations ==
  ASSUME NEW s \in Nat \ {0}, NEW bs \in SoundBuckets(s), NEW xs \in Seq(Tagged)
  PROVE  /\ Rehashed(bs, s, xs)[0] = bs
         /\ \A n \in 0..(Len(xs) - 1) :
              Rehashed(bs, s, xs)[n + 1] = rehash(Rehashed(bs, s, xs)[n], s, xs[n + 1])
         /\ \A n \in 0..Len(xs) : Rehashed(bs, s, xs)[n] \in SoundBuckets(s)
<1> DEFINE N  == Len(xs)
           X  == SoundBuckets(s)
           step == [n \in 1..N |-> [cs \in X |-> rehash(cs, s, xs[n])]]
           eq(f) == [n \in 0..N |-> IF n = 0 THEN bs ELSE rehash(f[n - 1], s, xs[n])]
           all  == CHOOSE f : f = eq(f)
<1>1. N \in Nat /\ \A n \in 1..N : xs[n] \in Tagged
  OBVIOUS
<1>2. Rehashed(bs, s, xs) = all
  BY DEF Rehashed
<1>3. \A n \in 1..N, cs \in X : rehash(cs, s, xs[n]) \in X
  BY <1>1, RehashKeepsSound
<1> HIDE DEF N, X
<1>4. \E f : f = eq(f)
  <2>1. step \in [1..N -> [X -> X]] /\ bs \in X
    BY <1>3 DEF X
  <2>2. PICK f \in [0..N -> X] :
          \A n \in 0..N : f[n] = IF n = 0 THEN bs ELSE step[n][f[n - 1]]
    <3>1. N \in Nat /\ bs \in X /\ step \in [1..N -> [X -> X]]
      BY <1>1, <2>1
    <3> HIDE DEF step
    <3>2. \E f : IsRecursive(f, N, X, bs, step)
      BY <3>1, IntervalRecursion
    <3> QED BY <3>2 DEF IsRecursive
  <2>3. ASSUME NEW n \in 0..N
        PROVE  f[n] = IF n = 0 THEN bs ELSE rehash(f[n - 1], s, xs[n])
    <3>1. CASE n = 0
      BY <2>2, <3>1
    <3>2. CASE n # 0
      <4>1. n \in 1..N /\ n - 1 \in 0..N
        BY <1>1, <3>2
      <4>2. f[n - 1] \in X
        BY <2>2, <4>1
      <4> QED BY <2>2, <3>2, <4>1, <4>2
    <3> QED BY <3>1, <3>2
  <2>4. f = eq(f)
    BY <2>2, <2>3
  <2> QED BY <2>4
<1>5. all = eq(all)
  <2> HIDE DEF eq
  <2> QED BY <1>4
<1> HIDE DEF all
<1>6. all[0] = bs
  BY <1>1, <1>5
<1>7. ASSUME NEW n \in 0..(N - 1) PROVE all[n + 1] = rehash(all[n], s, xs[n + 1])
  <2>1. n + 1 \in 0..N /\ n + 1 # 0 /\ (n + 1) - 1 = n
    BY <1>1
  <2> QED BY <1>5, <2>1
<1>8. \A n \in 0..N : all[n] \in X
  <2> DEFINE T == {n \in Nat : n <= N => all[n] \in X}
  <2>1. 0 \in T
    <3>1. all[0] \in X
      BY <1>6 DEF X
    <3> QED BY <3>1
  <2>2. ASSUME NEW n \in Nat, n \in T PROVE n + 1 \in T
    <3>1. CASE n + 1 <= N
      <4>1. n \in 0..(N - 1) /\ n + 1 \in 1..N /\ all[n] \in X
        BY <1>1, <2>2, <3>1
      <4>2. all[n + 1] \in X
        BY <1>3, <1>7, <4>1
      <4> QED BY <4>2
    <3>2. CASE ~(n + 1 <= N)
      BY <3>2
    <3> QED BY <3>1, <3>2
  <2>3. \A n \in Nat : n \in T
    <3> HIDE DEF T
    <3> QED BY <2>1, <2>2, SetInduction
  <2> QED BY <1>1, <2>3
<1> QED BY <1>2, <1>6, <1>7, <1>8 DEF N, X

(* The equations of CountsIn. *)
LEMMA CountsEquations ==
  ASSUME NEW xs \in Seq(Tagged), NEW v
  PROVE  /\ CountsIn(xs, v)[0] = <<>>
         /\ \A n \in 0..(Len(xs) - 1) :
              CountsIn(xs, v)[n + 1] =
                IF xs[n + 1].value = v THEN Append(CountsIn(xs, v)[n], xs[n + 1].count)
                                       ELSE CountsIn(xs, v)[n]
         /\ \A n \in 0..Len(xs) : CountsIn(xs, v)[n] \in Seq(0..MaxCount)
<1> DEFINE N  == Len(xs)
           X  == Seq(0..MaxCount)
           own(n)  == xs[n].value = v
           next(n, c) == IF own(n) THEN Append(c, xs[n].count) ELSE c
           step == [n \in 1..N |-> [c \in X |-> next(n, c)]]
           eq(f) == [n \in 0..N |-> IF n = 0 THEN <<>> ELSE next(n, f[n - 1])]
           all  == CHOOSE f : f = eq(f)
<1>1. N \in Nat /\ \A n \in 1..N : xs[n].count \in 0..MaxCount
  <2>1. \A n \in 1..N : xs[n] \in Tagged
    OBVIOUS
  <2> QED BY <2>1, TaggedInput
<1>2. CountsIn(xs, v) = all
  BY DEF CountsIn
<1>3. \A n \in 1..N, c \in X : next(n, c) \in X
  BY <1>1, AppendProperties
<1>4. <<>> \in X
  OBVIOUS
<1> HIDE DEF N, X, next
<1>5. \E f : f = eq(f)
  <2> DEFINE base == <<>>
  <2>1. step \in [1..N -> [X -> X]] /\ base \in X
    BY <1>3, <1>4
  <2>2. PICK f \in [0..N -> X] :
          \A n \in 0..N : f[n] = IF n = 0 THEN base ELSE step[n][f[n - 1]]
    <3>1. N \in Nat /\ base \in X /\ step \in [1..N -> [X -> X]]
      BY <1>1, <2>1
    <3> HIDE DEF step, base
    <3>2. \E f : IsRecursive(f, N, X, base, step)
      BY <3>1, IntervalRecursion
    <3> QED BY <3>2 DEF IsRecursive
  <2>3. ASSUME NEW n \in 0..N
        PROVE  f[n] = IF n = 0 THEN <<>> ELSE next(n, f[n - 1])
    <3>1. CASE n = 0
      BY <2>2, <3>1
    <3>2. CASE n # 0
      <4>1. n \in 1..N /\ n - 1 \in 0..N
        BY <1>1, <3>2
      <4>2. f[n - 1] \in X
        BY <2>2, <4>1
      <4> QED BY <2>2, <3>2, <4>1, <4>2
    <3> QED BY <3>1, <3>2
  <2>4. f = eq(f)
    BY <2>2, <2>3
  <2> QED BY <2>4
<1>6. all = eq(all)
  <2> HIDE DEF eq
  <2> QED BY <1>5
<1> HIDE DEF all
<1>7. all[0] = <<>>
  BY <1>1, <1>6
<1>8. ASSUME NEW n \in 0..(N - 1) PROVE all[n + 1] = next(n + 1, all[n])
  <2>1. n + 1 \in 0..N /\ n + 1 # 0 /\ (n + 1) - 1 = n
    BY <1>1
  <2> QED BY <1>6, <2>1
<1>9. \A n \in 0..N : all[n] \in X
  <2> DEFINE T == {n \in Nat : n <= N => all[n] \in X}
  <2>1. 0 \in T
    <3>1. all[0] \in X
      BY <1>4, <1>7
    <3> QED BY <3>1
  <2>2. ASSUME NEW n \in Nat, n \in T PROVE n + 1 \in T
    <3>1. CASE n + 1 <= N
      <4>1. n \in 0..(N - 1) /\ n + 1 \in 1..N /\ all[n] \in X
        BY <1>1, <2>2, <3>1
      <4>2. all[n + 1] \in X
        BY <1>3, <1>8, <4>1
      <4> QED BY <4>2
    <3>2. CASE ~(n + 1 <= N)
      BY <3>2
    <3> QED BY <3>1, <3>2
  <2>3. \A n \in Nat : n \in T
    <3> HIDE DEF T
    <3> QED BY <2>1, <2>2, SetInduction
  <2> QED BY <1>1, <2>3
<1> QED BY <1>2, <1>7, <1>8, <1>9 DEF N, X, next

-----------------------------------------------------------------------------
(* \o and Append under names of their own: the provers then treat them as  *)
(* unknown operators, of which they know what a lemma says.                *)
Joined(a, b) == a \o b

Longer(a, e) == Append(a, e)

(* Appending to a row appends to its second part. *)
LEMMA JoinedLonger ==
  ASSUME NEW S, NEW a \in Seq(S), NEW b \in Seq(S), NEW e \in S
  PROVE  Longer(Joined(a, b), e) = Joined(a, Longer(b, e))
PROOF BY DEF Joined, Longer

(* Rows of inputs, and of counts, likewise. *)
Rows == Seq(Tagged)

CountRows == Seq(0..MaxCount)

(* The empty row is neutral. *)
LEMMA JoinedEmpty ==
  ASSUME NEW a \in CountRows
  PROVE  Joined(a, <<>>) = a /\ Joined(<<>>, a) = a
PROOF BY ConcatEmptySeq DEF Joined, CountRows

(* The counts of a value in a row of inputs, in their order. *)
Counts(xs, v) == CountsIn(xs, v)[Len(xs)]

(* The counts after one more input. *)
LEMMA CountsNext ==
  ASSUME NEW xs \in Seq(Tagged), NEW v, NEW n \in 0..(Len(xs) - 1)
  PROVE  CountsIn(xs, v)[n + 1] =
           IF xs[n + 1].value = v THEN Append(CountsIn(xs, v)[n], xs[n + 1].count)
                                  ELSE CountsIn(xs, v)[n]
PROOF BY CountsEquations

(* The counts in the first inputs of a row depend on nothing behind them. *)
LEMMA CountsPrefix ==
  ASSUME NEW xs \in Seq(Tagged), NEW ys \in Seq(Tagged), NEW v, Len(xs) <= Len(ys),
         \A i \in 1..Len(xs) : xs[i] = ys[i]
  PROVE  \A n \in 0..Len(xs) : CountsIn(xs, v)[n] = CountsIn(ys, v)[n]
<1> DEFINE S == {n \in Nat : CountsIn(xs, v)[n] = CountsIn(ys, v)[n]}
<1>1. 0 \in S
  BY CountsEquations
<1>2. ASSUME NEW n \in 0..(Len(xs) - 1), n \in S PROVE n + 1 \in S
  <2>1. n + 1 \in 1..Len(xs) /\ n \in 0..(Len(ys) - 1) /\ xs[n + 1] = ys[n + 1]
    OBVIOUS
  <2>2. CountsIn(xs, v)[n] = CountsIn(ys, v)[n]
    BY <1>2
  <2>3. CountsIn(ys, v)[n + 1] =
          IF ys[n + 1].value = v THEN Append(CountsIn(ys, v)[n], ys[n + 1].count)
                                 ELSE CountsIn(ys, v)[n]
    BY <2>1, CountsNext
  <2>4. CountsIn(xs, v)[n + 1] = CountsIn(ys, v)[n + 1]
    BY <2>1, <2>2, <2>3, CountsNext
  <2> QED BY <2>4
<1>3. \A n \in 0..Len(xs) : n \in S
  <2>1. Len(xs) \in Nat
    OBVIOUS
  <2> HIDE DEF S
  <2> QED BY <1>1, <1>2, <2>1, IntervalInduction
<1> QED BY <1>3

(* The counts are natural numbers, and an empty row has none. *)
LEMMA CountsType ==
  ASSUME NEW v
  PROVE  /\ Counts(<<>>, v) = <<>>
         /\ <<>> \in Rows /\ <<>> \in CountRows
         /\ \A xs \in Rows : Counts(xs, v) \in CountRows
<1> USE DEF Rows, CountRows
<1>1. <<>> \in Rows /\ <<>> \in CountRows
  OBVIOUS
<1>2. Counts(<<>>, v) = <<>>
  <2>1. <<>> \in Seq(Tagged) /\ Len(<<>>) = 0
    OBVIOUS
  <2>2. CountsIn(<<>>, v)[0] = <<>>
    BY <2>1, CountsEquations
  <2> QED BY <2>1, <2>2 DEF Counts
<1>3. ASSUME NEW xs \in Rows PROVE Counts(xs, v) \in CountRows
  <2>1. Len(xs) \in 0..Len(xs)
    OBVIOUS
  <2> QED BY <2>1, CountsEquations DEF Counts
<1> QED BY <1>1, <1>2, <1>3

(* One more input adds its count. *)
LEMMA CountsAppend ==
  ASSUME NEW xs \in Rows, NEW x \in Tagged, NEW v
  PROVE  /\ Longer(xs, x) \in Rows
         /\ Counts(Longer(xs, x), v) =
              IF x.value = v THEN Longer(Counts(xs, v), x.count) ELSE Counts(xs, v)
<1> USE DEF Rows, CountRows, Longer
<1> DEFINE ys == Append(xs, x)
<1>1. /\ ys \in Seq(Tagged) /\ Len(ys) = Len(xs) + 1 /\ Len(xs) \in Nat
      /\ ys[Len(xs) + 1] = x /\ \A i \in 1..Len(xs) : xs[i] = ys[i]
  BY AppendProperties
<1> HIDE DEF ys
<1>2. Len(xs) \in 0..Len(xs) /\ Len(xs) \in 0..(Len(ys) - 1)
  BY <1>1
<1>3. CountsIn(ys, v)[Len(xs)] = CountsIn(xs, v)[Len(xs)]
  <2>1. Len(xs) <= Len(ys)
    BY <1>1
  <2> QED BY <1>1, <1>2, <2>1, CountsPrefix
<1>4. CountsIn(ys, v)[Len(xs) + 1] =
        IF x.value = v THEN Append(CountsIn(ys, v)[Len(xs)], x.count)
                       ELSE CountsIn(ys, v)[Len(xs)]
  BY <1>1, <1>2, CountsEquations
<1> QED BY <1>1, <1>3, <1>4 DEF Counts, ys

(* The counts of two rows, one behind the other. *)
LEMMA CountsConcat ==
  ASSUME NEW xs \in Rows, NEW ys \in Rows, NEW v
  PROVE  /\ Joined(xs, ys) \in Rows
         /\ Counts(Joined(xs, ys), v) = Joined(Counts(xs, v), Counts(ys, v))
<1> USE DEF Rows
<1> DEFINE zs == xs \o ys
           m  == Len(xs)
           k  == Len(ys)
           S  == {n \in Nat : CountsIn(zs, v)[m + n] = Counts(xs, v) \o CountsIn(ys, v)[n]}
<1>1. /\ zs \in Seq(Tagged) /\ Len(zs) = m + k /\ m \in Nat /\ k \in Nat
      /\ \A i \in 1..m : xs[i] = zs[i]
      /\ \A i \in 1..k : zs[m + i] = ys[i]
  <2>1. /\ zs \in Seq(Tagged) /\ Len(zs) = m + k /\ m \in Nat /\ k \in Nat
        /\ \A i \in 1..(m + k) : zs[i] = IF i <= m THEN xs[i] ELSE ys[i - m]
    BY ConcatProperties
  <2> HIDE DEF zs, m, k
  <2>2. \A i \in 1..m : xs[i] = zs[i]
    BY <2>1
  <2>3. ASSUME NEW i \in 1..k PROVE zs[m + i] = ys[i]
    <3>1. m + i \in 1..(m + k) /\ ~(m + i <= m) /\ (m + i) - m = i
      BY <2>1
    <3> QED BY <2>1, <3>1
  <2> QED BY <2>1, <2>2, <2>3
<1> HIDE DEF zs
<1>2. Counts(xs, v) \in Seq(0..MaxCount) /\ \A n \in 0..k : CountsIn(ys, v)[n] \in Seq(0..MaxCount)
  <2>1. m \in 0..m
    BY <1>1
  <2> QED BY <2>1, CountsEquations DEF Counts
<1>3. 0 \in S
  <2>1. CountsIn(zs, v)[m] = CountsIn(xs, v)[m]
    <3>1. m <= Len(zs) /\ m \in 0..m
      BY <1>1
    <3> QED BY <1>1, <3>1, CountsPrefix
  <2>2. CountsIn(ys, v)[0] = <<>>
    BY CountsEquations
  <2>3. Counts(xs, v) \o <<>> = Counts(xs, v)
    BY <1>2, ConcatEmptySeq
  <2>4. m + 0 = m
    BY <1>1
  <2> QED BY <2>1, <2>2, <2>3, <2>4 DEF Counts
<1>4. ASSUME NEW n \in 0..(k - 1), n \in S PROVE n + 1 \in S
  <2> DEFINE c == CountsIn(ys, v)[n]
  <2>1. /\ n \in Nat /\ n + 1 \in 1..k /\ n \in 0..k /\ m + n \in 0..(Len(zs) - 1)
        /\ (m + n) + 1 = m + (n + 1)
    BY <1>1
  <2>2. zs[(m + n) + 1] = ys[n + 1] /\ ys[n + 1] \in Tagged
    BY <1>1, <2>1
  <2>3. CountsIn(zs, v)[m + n] = Counts(xs, v) \o c
    BY <1>4
  <2>4. CountsIn(zs, v)[m + (n + 1)] =
          IF ys[n + 1].value = v THEN Append(Counts(xs, v) \o c, ys[n + 1].count)
                                 ELSE Counts(xs, v) \o c
    <3>1. PICK j : j = m + n /\ j \in 0..(Len(zs) - 1) /\ j + 1 = m + (n + 1)
      BY <2>1
    <3>2. CountsIn(zs, v)[j + 1] =
            IF zs[j + 1].value = v THEN Append(CountsIn(zs, v)[j], zs[j + 1].count)
                                   ELSE CountsIn(zs, v)[j]
      BY <1>1, <3>1, CountsNext
    <3>3. zs[j + 1] = ys[n + 1]
      BY <2>1, <2>2, <3>1
    <3> QED BY <2>3, <3>1, <3>2, <3>3
  <2>5. CountsIn(ys, v)[n + 1] =
          IF ys[n + 1].value = v THEN Append(c, ys[n + 1].count) ELSE c
    BY <2>1, CountsNext
  <2>6. c \in Seq(0..MaxCount) /\ ys[n + 1].count \in 0..MaxCount
    BY <1>2, <2>1, <2>2, TaggedInput
  <2> HIDE DEF c
  <2>7. Append(Counts(xs, v) \o c, ys[n + 1].count) = Counts(xs, v) \o Append(c, ys[n + 1].count)
    <3> DEFINE a == Counts(xs, v)
               e == ys[n + 1].count
               N == 0..MaxCount
    <3>1. a \in Seq(N) /\ c \in Seq(N) /\ e \in N
      BY <1>2, <2>6
    <3> HIDE DEF a, e, N
    <3>2. Longer(Joined(a, c), e) = Joined(a, Longer(c, e))
      BY <3>1, JoinedLonger
    <3>3. Append(a \o c, e) = a \o Append(c, e)
      BY <3>2, Zenon DEF Joined, Longer
    <3> QED BY <3>3, Zenon DEF a, e
  <2>8. CountsIn(zs, v)[m + (n + 1)] = Counts(xs, v) \o CountsIn(ys, v)[n + 1]
    BY <2>4, <2>5, <2>7
  <2> QED BY <2>1, <2>8
<1>5. \A n \in 0..k : n \in S
  <2> HIDE DEF S, k
  <2> QED BY <1>1, <1>3, <1>4, IntervalInduction
<1>6. k \in 0..k
  BY <1>1
<1> QED BY <1>1, <1>5, <1>6 DEF Counts, zs, Joined

(* A row without the value has no counts of it. *)
LEMMA CountsNone ==
  ASSUME NEW xs \in Rows, NEW v, \A i \in 1..Len(xs) : xs[i].value # v
  PROVE  Counts(xs, v) = <<>>
<1> USE DEF Rows
<1> DEFINE S == {n \in Nat : CountsIn(xs, v)[n] = <<>>}
<1>1. 0 \in S
  BY CountsEquations
<1>2. ASSUME NEW n \in 0..(Len(xs) - 1), n \in S PROVE n + 1 \in S
  <2>1. n + 1 \in 1..Len(xs)
    OBVIOUS
  <2>2. CountsIn(xs, v)[n + 1] = <<>>
    BY <1>2, <2>1, CountsNext
  <2> QED BY <2>2
<1>3. \A n \in 0..Len(xs) : n \in S
  <2>1. Len(xs) \in Nat
    OBVIOUS
  <2> HIDE DEF S
  <2> QED BY <1>1, <1>2, <2>1, IntervalInduction
<1>4. Len(xs) \in 0..Len(xs)
  OBVIOUS
<1> QED BY <1>3, <1>4 DEF Counts

(* The inputs of a row of sound buckets are tagged. *)
LEMMA SoundInputs ==
  ASSUME NEW s \in Nat \ {0}, NEW bs \in SoundBuckets(s)
  PROVE  /\ \A n \in 0..(s - 1) : bs[n].inputs \in Rows
         /\ \A n \in 0..s : InputsBelow(bs, s)[n] \in Rows
         /\ InputsBelow(bs, s)[0] = <<>>
         /\ \A n \in 0..(s - 1) :
              InputsBelow(bs, s)[n + 1] = Joined(InputsBelow(bs, s)[n], bs[n].inputs)
<1> USE DEF Rows, Joined
<1>1. \A n \in 0..(s - 1) : bs[n].inputs \in Rows
  BY DEF SoundBuckets, TaggedBucket
<1> QED BY <1>1, BelowEquations

(* In a sound buffer the counts of a value are those in its own bucket. *)
LEMMA BucketCounts ==
  ASSUME NEW s \in Nat \ {0}, NEW bs \in SoundBuckets(s), NEW v \in Value
  PROVE  Counts(InputsBelow(bs, s)[s], v) = Counts(bs[Hash(v) % s].inputs, v)
<1> DEFINE h == Hash(v) % s
           own == Counts(bs[h].inputs, v)
           In(n) == InputsBelow(bs, s)[n]
           T == {n \in Nat : Counts(In(n), v) = IF h < n THEN own ELSE <<>>}
<1>1. h \in 0..(s - 1)
  BY HashtableAssumption, IndexInBuffer
<1>2. own \in CountRows
  BY <1>1, SoundInputs, CountsType
<1> HIDE DEF h, own
<1>3. 0 \in T
  <2>1. Counts(In(0), v) = <<>>
    <3>1. In(0) = <<>>
      BY SoundInputs
    <3>2. Counts(<<>>, v) = <<>>
      BY CountsType
    <3> QED BY <3>1, <3>2, CountsNone
  <2> QED BY <1>1, <2>1
<1>4. ASSUME NEW n \in 0..(s - 1), n \in T PROVE n + 1 \in T
  <2> DEFINE xs == In(n)
             ys == bs[n].inputs
  <2>1. xs \in Rows /\ ys \in Rows /\ In(n + 1) = Joined(xs, ys)
    <3>1. n \in 0..s
      OBVIOUS
    <3> QED BY <3>1, SoundInputs
  <2>2. Counts(xs, v) = IF h < n THEN own ELSE <<>>
    BY <1>4
  <2>3. \A i \in 1..Len(ys) : Hash(ys[i].value) % s = n
    BY DEF SoundBuckets, Placed
  <2> HIDE DEF xs, ys, In
  <2>4. Counts(In(n + 1), v) = Joined(Counts(xs, v), Counts(ys, v))
    BY <2>1, CountsConcat
  <2>5. CASE n = h
    <3>1. Counts(xs, v) = <<>> /\ Counts(ys, v) = own
      BY <1>1, <2>2, <2>5 DEF own, ys
    <3>2. Joined(<<>>, own) = own
      BY <1>2, JoinedEmpty, CountsType
    <3> QED BY <1>1, <2>4, <2>5, <3>1, <3>2
  <2>6. CASE n # h
    <3>1. Counts(ys, v) = <<>>
      <4>1. \A i \in 1..Len(ys) : ys[i].value # v
        BY <2>3, <2>6 DEF h
      <4> QED BY <2>1, <4>1, CountsNone
    <3>2. Joined(own, <<>>) = own /\ Joined(<<>>, <<>>) = <<>>
      BY <1>2, JoinedEmpty, CountsType
    <3>3. Counts(In(n + 1), v) = IF h < n THEN own ELSE <<>>
      BY <2>2, <2>4, <3>1, <3>2
    <3>4. (h < n) <=> (h < n + 1)
      BY <1>1, <2>6
    <3> QED BY <3>3, <3>4
  <2> QED BY <2>5, <2>6
<1>5. \A n \in 0..s : n \in T
  <2> HIDE DEF T
  <2> QED BY <1>3, <1>4, IntervalInduction
<1>6. s \in 0..s /\ h < s
  BY <1>1
<1> QED BY <1>5, <1>6 DEF h, own

(* The lengths of longer rows. *)
LEMMA RowLengths ==
  /\ Len(<<>>) = 0
  /\ \A xs \in Rows : Len(xs) \in Nat
  /\ \A xs, ys \in Rows : Len(Joined(xs, ys)) = Len(xs) + Len(ys)
  /\ \A xs \in Rows, x \in Tagged : Len(Longer(xs, x)) = Len(xs) + 1
<1>1. ASSUME NEW xs \in Rows, NEW ys \in Rows PROVE Len(Joined(xs, ys)) = Len(xs) + Len(ys)
  BY ConcatProperties DEF Rows, Joined
<1>2. ASSUME NEW xs \in Rows, NEW x \in Tagged PROVE Len(Longer(xs, x)) = Len(xs) + 1
  BY AppendProperties DEF Rows, Longer
<1> QED BY <1>1, <1>2 DEF Rows

(* What hashing one input into a sound buffer does. *)
LEMMA RehashOne ==
  ASSUME NEW s \in Nat \ {0}, NEW bs \in SoundBuckets(s), NEW x \in Tagged
  PROVE  LET i  == Hash(x.value) % s
             cs == rehash(bs, s, x)
         IN  /\ i \in 0..(s - 1)
             /\ cs \in SoundBuckets(s)
             /\ cs[i].inputs = Longer(bs[i].inputs, x)
             /\ \A k \in 0..(s - 1) : k # i => cs[k] = bs[k]
<1>1. x.my_hash = Hash(x.value)
  BY TaggedInput
<1> QED BY <1>1, RehashKeepsSound DEF Longer

(* The counts of a value once the first inputs of a row are rehashed into  *)
(* a new buffer are its counts in those inputs.                            *)
LEMMA RehashedCounts ==
  ASSUME NEW s \in Nat \ {0}, NEW xs \in Rows, NEW v \in Value
  PROVE  LET R == Rehashed(EmptyBuckets(s), s, xs)
         IN  /\ \A n \in 0..Len(xs) : R[n] \in SoundBuckets(s)
             /\ \A n \in 0..Len(xs) :
                  Counts(R[n][Hash(v) % s].inputs, v) = CountsIn(xs, v)[n]
<1> DEFINE R == Rehashed(EmptyBuckets(s), s, xs)
           h == Hash(v) % s
           T == {n \in Nat : Counts(R[n][h].inputs, v) = CountsIn(xs, v)[n]}
<1>1. /\ R[0] = EmptyBuckets(s)
      /\ \A n \in 0..(Len(xs) - 1) : R[n + 1] = rehash(R[n], s, xs[n + 1])
      /\ \A n \in 0..Len(xs) : R[n] \in SoundBuckets(s)
  BY EmptyIsSound, RehashedEquations DEF Rows
<1>2. h \in 0..(s - 1)
  BY HashtableAssumption, IndexInBuffer
<1>3. /\ CountsIn(xs, v)[0] = <<>>
      /\ \A n \in 0..(Len(xs) - 1) :
           CountsIn(xs, v)[n + 1] =
             IF xs[n + 1].value = v THEN Longer(CountsIn(xs, v)[n], xs[n + 1].count)
                                    ELSE CountsIn(xs, v)[n]
  BY CountsEquations DEF Rows, Longer
<1>4. Len(xs) \in Nat /\ \A n \in 0..(Len(xs) - 1) : xs[n + 1] \in Tagged
  BY DEF Rows
<1> HIDE DEF R
<1>5. 0 \in T
  <2>1. R[0][h].inputs = <<>>
    BY <1>1, <1>2, EmptyIsSound
  <2> QED BY <1>3, <2>1, CountsType
<1>6. ASSUME NEW n \in 0..(Len(xs) - 1), n \in T PROVE n + 1 \in T
  <2>1. PICK x : x = xs[n + 1]
    OBVIOUS
  <2>2. PICK i : i = Hash(x.value) % s
    OBVIOUS
  <2>3. PICK bs : bs = R[n]
    OBVIOUS
  <2>4. PICK cs : cs = R[n + 1]
    OBVIOUS
  <2>5. x \in Tagged /\ bs \in SoundBuckets(s) /\ cs = rehash(bs, s, x)
    <3>1. n \in 0..Len(xs)
      BY <1>4
    <3> QED BY <1>1, <1>4, <2>1, <2>3, <2>4, <3>1
  <2>6. /\ cs[i].inputs = Longer(bs[i].inputs, x)
        /\ \A k \in 0..(s - 1) : k # i => cs[k] = bs[k]
    BY <2>2, <2>5, RehashOne
  <2>7. bs[h].inputs \in Rows
    BY <1>2, <2>5, SoundInputs
  <2>8. Counts(bs[h].inputs, v) = CountsIn(xs, v)[n]
    BY <1>6, <2>3
  <2>9. Counts(cs[h].inputs, v) =
          IF x.value = v THEN Longer(Counts(bs[h].inputs, v), x.count)
                         ELSE Counts(bs[h].inputs, v)
    <3>1. CASE h # i
      BY <1>2, <2>2, <2>6, <3>1
    <3>2. CASE h = i
      <4>1. PICK b : b = bs[h].inputs
        OBVIOUS
      <4>2. cs[h].inputs = Longer(b, x) /\ b \in Rows
        BY <2>6, <2>7, <3>2, <4>1
      <4> QED BY <2>5, <4>1, <4>2, CountsAppend
    <3> QED BY <3>1, <3>2
  <2>10. CountsIn(xs, v)[n + 1] =
           IF x.value = v THEN Longer(CountsIn(xs, v)[n], x.count) ELSE CountsIn(xs, v)[n]
    BY <1>3, <2>1
  <2>11. Counts(R[n + 1][h].inputs, v) = CountsIn(xs, v)[n + 1]
    BY <2>4, <2>8, <2>9, <2>10
  <2> QED BY <1>4, <2>11
<1>7. \A n \in 0..Len(xs) : n \in T
  <2> HIDE DEF T
  <2> QED BY <1>4, <1>5, <1>6, IntervalInduction
<1> QED BY <1>1, <1>7 DEF R

-----------------------------------------------------------------------------
(* The number of inputs in a buffer of s buckets. *)
Total(bs, s) == Len(InputsBelow(bs, s)[s])

(* The buckets of two buffers are equally long, but for one that is longer *)
(* by d in the second.                                                     *)
LongerAt(bs, cs, s, i, d) ==
  /\ Len(cs[i].inputs) = Len(bs[i].inputs) + d
  /\ \A k \in 0..(s - 1) : k # i => Len(cs[k].inputs) = Len(bs[k].inputs)

(* A bucket that becomes longer or shorter changes the total likewise. *)
LEMMA TotalChange ==
  ASSUME NEW s \in Nat \ {0}, NEW bs \in SoundBuckets(s), NEW cs \in SoundBuckets(s),
         NEW i \in 0..(s - 1), NEW d \in Int, LongerAt(bs, cs, s, i, d)
  PROVE  Total(bs, s) \in Nat /\ Total(cs, s) = Total(bs, s) + d
<1> USE DEF LongerAt
<1> DEFINE T == {n \in Nat : Len(InputsBelow(cs, s)[n]) =
                               Len(InputsBelow(bs, s)[n]) + (IF i < n THEN d ELSE 0)}
<1>1. ASSUME NEW bb \in SoundBuckets(s)
      PROVE  /\ Len(InputsBelow(bb, s)[0]) = 0
             /\ \A n \in 0..s : Len(InputsBelow(bb, s)[n]) \in Nat
             /\ \A n \in 0..(s - 1) :
                  /\ Len(bb[n].inputs) \in Nat
                  /\ Len(InputsBelow(bb, s)[n + 1]) =
                       Len(InputsBelow(bb, s)[n]) + Len(bb[n].inputs)
  <2>1. Len(InputsBelow(bb, s)[0]) = 0
    BY SoundInputs, RowLengths
  <2>2. \A n \in 0..s : Len(InputsBelow(bb, s)[n]) \in Nat
    BY SoundInputs, RowLengths
  <2>3. ASSUME NEW n \in 0..(s - 1)
        PROVE  /\ Len(bb[n].inputs) \in Nat
               /\ Len(InputsBelow(bb, s)[n + 1]) =
                    Len(InputsBelow(bb, s)[n]) + Len(bb[n].inputs)
    <3>1. PICK a : a = InputsBelow(bb, s)[n]
      OBVIOUS
    <3>2. PICK b : b = bb[n].inputs
      OBVIOUS
    <3>3. a \in Rows /\ b \in Rows /\ InputsBelow(bb, s)[n + 1] = Joined(a, b)
      <4>1. n \in 0..s
        OBVIOUS
      <4> QED BY <3>1, <3>2, <4>1, SoundInputs
    <3>4. Len(Joined(a, b)) = Len(a) + Len(b) /\ Len(b) \in Nat
      BY <3>3, RowLengths
    <3> QED BY <3>1, <3>2, <3>3, <3>4
  <2> QED BY <2>1, <2>2, <2>3
<1>2. 0 \in T
  <2>1. Len(InputsBelow(bs, s)[0]) = 0 /\ Len(InputsBelow(cs, s)[0]) = 0
    BY <1>1
  <2>2. ~(i < 0)
    OBVIOUS
  <2> QED BY <2>1, <2>2
<1>3. ASSUME NEW n \in 0..(s - 1), n \in T PROVE n + 1 \in T
  <2> DEFINE b == Len(InputsBelow(bs, s)[n])
             c == Len(InputsBelow(cs, s)[n])
             x == Len(bs[n].inputs)
             y == Len(cs[n].inputs)
  <2>1. /\ b \in Nat /\ c \in Nat /\ x \in Nat /\ y \in Nat
        /\ Len(InputsBelow(bs, s)[n + 1]) = b + x
        /\ Len(InputsBelow(cs, s)[n + 1]) = c + y
    <3>1. n \in 0..s
      OBVIOUS
    <3> QED BY <1>1, <3>1
  <2>2. c = b + (IF i < n THEN d ELSE 0)
    BY <1>3
  <2>3. y = IF n = i THEN x + d ELSE x
    OBVIOUS
  <2> HIDE DEF b, c, x, y
  <2>4. c + y = (b + x) + (IF i < n + 1 THEN d ELSE 0)
    <3>1. CASE n = i
      BY <2>1, <2>2, <2>3, <3>1
    <3>2. CASE n # i /\ i < n
      BY <2>1, <2>2, <2>3, <3>2
    <3>3. CASE n # i /\ ~(i < n)
      BY <2>1, <2>2, <2>3, <3>3
    <3> QED BY <3>1, <3>2, <3>3
  <2>5. Len(InputsBelow(cs, s)[n + 1]) =
          Len(InputsBelow(bs, s)[n + 1]) + (IF i < n + 1 THEN d ELSE 0)
    BY <2>1, <2>4
  <2>6. n + 1 \in Nat
    OBVIOUS
  <2> QED BY <2>5, <2>6, Zenon
<1>4. \A n \in 0..s : n \in T
  <2> HIDE DEF T
  <2> QED BY <1>2, <1>3, IntervalInduction
<1>5. s \in 0..s /\ i < s
  OBVIOUS
<1> QED BY <1>1, <1>4, <1>5 DEF Total

(* A new buffer holds nothing. *)
LEMMA EmptyTotal ==
  ASSUME NEW s \in Nat \ {0}
  PROVE  Total(EmptyBuckets(s), s) = 0
<1> DEFINE E == EmptyBuckets(s)
           T == {n \in Nat : InputsBelow(E, s)[n] = <<>>}
<1>1. E \in SoundBuckets(s) /\ \A n \in 0..(s - 1) : E[n].inputs = <<>>
  BY EmptyIsSound
<1> HIDE DEF E
<1>2. 0 \in T
  BY <1>1, SoundInputs
<1>3. ASSUME NEW n \in 0..(s - 1), n \in T PROVE n + 1 \in T
  <2>1. InputsBelow(E, s)[n + 1] = Joined(InputsBelow(E, s)[n], E[n].inputs)
    BY <1>1, SoundInputs
  <2>2. InputsBelow(E, s)[n] = <<>> /\ E[n].inputs = <<>>
    BY <1>1, <1>3
  <2>3. Joined(<<>>, <<>>) = <<>>
    BY JoinedEmpty, CountsType
  <2> QED BY <2>1, <2>2, <2>3
<1>4. \A n \in 0..s : n \in T
  <2> HIDE DEF T
  <2> QED BY <1>2, <1>3, IntervalInduction
<1>5. s \in 0..s
  OBVIOUS
<1> QED BY <1>4, <1>5, RowLengths DEF Total, E

(* Hashing an input into a sound buffer makes its total one larger. *)
LEMMA TotalRehash ==
  ASSUME NEW s \in Nat \ {0}, NEW bs \in SoundBuckets(s), NEW x \in Tagged
  PROVE  Total(bs, s) \in Nat /\ Total(rehash(bs, s, x), s) = Total(bs, s) + 1
<1>1. PICK i : i = Hash(x.value) % s
  OBVIOUS
<1>2. PICK cs : cs = rehash(bs, s, x)
  OBVIOUS
<1>3. /\ i \in 0..(s - 1) /\ cs \in SoundBuckets(s)
      /\ cs[i].inputs = Longer(bs[i].inputs, x)
      /\ \A k \in 0..(s - 1) : k # i => cs[k] = bs[k]
  BY <1>1, <1>2, RehashOne
<1>4. PICK d : d = 1
  OBVIOUS
<1>5. Len(cs[i].inputs) = Len(bs[i].inputs) + d
  <2>1. bs[i].inputs \in Rows
    BY <1>3, SoundInputs
  <2> QED BY <1>3, <1>4, <2>1, RowLengths
<1>6. \A k \in 0..(s - 1) : k # i => Len(cs[k].inputs) = Len(bs[k].inputs)
  BY <1>3
<1>7. Total(bs, s) \in Nat /\ Total(cs, s) = Total(bs, s) + d
  <2>1. d \in Int /\ LongerAt(bs, cs, s, i, d)
    BY <1>4, <1>5, <1>6 DEF LongerAt
  <2> QED BY <1>3, <2>1, TotalChange
<1> QED BY <1>2, <1>4, <1>7

(* Rehashing a row into a new buffer loses none of its inputs. *)
LEMMA RehashedTotal ==
  ASSUME NEW s \in Nat \ {0}, NEW xs \in Rows
  PROVE  LET R == Rehashed(EmptyBuckets(s), s, xs)
         IN  /\ R[Len(xs)] \in SoundBuckets(s)
             /\ Total(R[Len(xs)], s) = Len(xs)
<1> DEFINE R == Rehashed(EmptyBuckets(s), s, xs)
           T == {n \in Nat : Total(R[n], s) = n}
<1>1. /\ R[0] = EmptyBuckets(s)
      /\ \A n \in 0..(Len(xs) - 1) : R[n + 1] = rehash(R[n], s, xs[n + 1])
      /\ \A n \in 0..Len(xs) : R[n] \in SoundBuckets(s)
  BY EmptyIsSound, RehashedEquations DEF Rows
<1>2. Len(xs) \in Nat /\ \A n \in 0..(Len(xs) - 1) : xs[n + 1] \in Tagged
  BY DEF Rows
<1> HIDE DEF R
<1>3. 0 \in T
  BY <1>1, EmptyTotal
<1>4. ASSUME NEW n \in 0..(Len(xs) - 1), n \in T PROVE n + 1 \in T
  <2>1. n \in 0..Len(xs) /\ n + 1 \in Nat
    BY <1>2
  <2>2. PICK bs : bs = R[n]
    OBVIOUS
  <2>3. PICK x : x = xs[n + 1]
    OBVIOUS
  <2>4. bs \in SoundBuckets(s) /\ x \in Tagged /\ R[n + 1] = rehash(bs, s, x)
    BY <1>1, <1>2, <2>1, <2>2, <2>3
  <2>5. Total(rehash(bs, s, x), s) = Total(bs, s) + 1
    BY <2>4, TotalRehash
  <2>6. Total(R[n + 1], s) = n + 1
    BY <1>4, <2>2, <2>4, <2>5
  <2> QED BY <2>1, <2>6
<1>5. \A n \in 0..Len(xs) : n \in T
  <2> HIDE DEF T
  <2> QED BY <1>2, <1>3, <1>4, IntervalInduction
<1>6. Len(xs) \in 0..Len(xs)
  BY <1>2
<1> QED BY <1>1, <1>5, <1>6 DEF R

-----------------------------------------------------------------------------
(* What is before a place of a row, and what is behind it. *)
Before(xs, f) == SubSeq(xs, 1, f - 1)

Behind(xs, f) == SubSeq(xs, f + 1, Len(xs))

Parts(xs, f, a, b) ==
  /\ a \in Rows /\ b \in Rows /\ Len(a) = f - 1 /\ Len(b) = Len(xs) - f
  /\ \A i \in 1..Len(a) : a[i] = xs[i]
  /\ \A i \in 1..Len(b) : b[i] = xs[f + i]
  /\ RemoveAt(xs, f) = Joined(a, b)

(* A row with another input at one place is what is before that place, the *)
(* input, and what is behind it; without the place, it is the first and    *)
(* the last of the three.                                                  *)
LEMMA SplitRow ==
  ASSUME NEW xs \in Rows, NEW f \in 1..Len(xs), NEW a, NEW b,
         a = Before(xs, f), b = Behind(xs, f)
  PROVE  Parts(xs, f, a, b)
<1> USE DEF Before, Behind
<1> DEFINE L == Len(xs)
<1>1. L \in Nat /\ xs \in [1..L -> Tagged] /\ f \in 1..L
  BY DEF Rows
<1> HIDE DEF L
<1>2. \A i \in 1..(f - 1) : xs[i] \in Tagged
  BY <1>1
<1>3. \A i \in (f + 1)..L : xs[i] \in Tagged
  BY <1>1
<1>4. /\ a \in Seq(Tagged) /\ Len(a) = IF 1 <= f - 1 THEN (f - 1) - 1 + 1 ELSE 0
      /\ \A i \in 1..((f - 1) - 1 + 1) : a[i] = xs[1 + i - 1]
  <2>1. 1 \in Int /\ f - 1 \in Int
    BY <1>1
  <2> QED BY <1>2, <2>1, SubSeqProperties
<1>5. /\ b \in Seq(Tagged) /\ Len(b) = IF f + 1 <= L THEN L - (f + 1) + 1 ELSE 0
      /\ \A i \in 1..(L - (f + 1) + 1) : b[i] = xs[(f + 1) + i - 1]
  <2>1. f + 1 \in Int /\ L \in Int
    BY <1>1
  <2>2. b = SubSeq(xs, f + 1, L)
    BY DEF L
  <2> QED BY <1>3, <2>1, <2>2, SubSeqProperties
<1>6. Len(a) = f - 1 /\ Len(b) = L - f
  BY <1>1, <1>4, <1>5
<1>7. \A i \in 1..Len(a) : a[i] = xs[i]
  <2> SUFFICES ASSUME NEW i \in 1..Len(a) PROVE a[i] = xs[i]
    OBVIOUS
  <2>1. i \in 1..((f - 1) - 1 + 1) /\ 1 + i - 1 = i
    BY <1>1, <1>6
  <2> QED BY <1>4, <2>1
<1>8. \A i \in 1..Len(b) : b[i] = xs[f + i]
  <2> SUFFICES ASSUME NEW i \in 1..Len(b) PROVE b[i] = xs[f + i]
    OBVIOUS
  <2>1. i \in 1..(L - (f + 1) + 1) /\ (f + 1) + i - 1 = f + i
    BY <1>1, <1>6
  <2> QED BY <1>5, <2>1
<1>9. RemoveAt(xs, f) = Joined(a, b)
  BY Zenon DEF RemoveAt, Joined, Before, Behind
<1> QED BY <1>4, <1>5, <1>6, <1>7, <1>8, <1>9 DEF Rows, L, Parts

(* A sequence with another element at one place. *)
LEMMA Replaced ==
  ASSUME NEW T, NEW t \in Seq(T), NEW i \in 1..Len(t), NEW d \in T, NEW w,
         w = [t EXCEPT ![i] = d]
  PROVE  /\ w \in Seq(T) /\ Len(w) = Len(t)
         /\ \A j \in 1..Len(t) : w[j] = IF j = i THEN d ELSE t[j]
<1>1. /\ [t EXCEPT ![i] = d] \in Seq(T) /\ Len([t EXCEPT ![i] = d]) = Len(t)
      /\ \A j \in 1..Len(t) : [t EXCEPT ![i] = d][j] = IF j = i THEN d ELSE t[j]
  BY ExceptSeq
<1> QED BY <1>1

(* The same, of a row in which the place is given another input. *)
LEMMA ReplaceSplit ==
  ASSUME NEW xs \in Rows, NEW f \in 1..Len(xs), NEW y \in Tagged, NEW a, NEW b,
         a = Before(xs, f), b = Behind(xs, f)
  PROVE  [xs EXCEPT ![f] = y] = Joined(Longer(a, y), b)
<1> DEFINE L == Len(xs)
           w == [xs EXCEPT ![f] = y]
<1>1. L \in Nat /\ xs \in [1..L -> Tagged] /\ f \in 1..L
  BY DEF Rows
<1>2. /\ a \in Seq(Tagged) /\ b \in Seq(Tagged) /\ Len(a) = f - 1 /\ Len(b) = L - f
      /\ \A i \in 1..Len(a) : a[i] = xs[i]
      /\ \A i \in 1..Len(b) : b[i] = xs[f + i]
  <2>1. Parts(xs, f, a, b)
    BY SplitRow
  <2> QED BY <2>1 DEF Parts, Rows
<1>p. PICK p : p = Append(a, y)
  OBVIOUS
<1>3. /\ p \in Seq(Tagged) /\ Len(p) = Len(a) + 1
      /\ \A i \in 1..Len(a) : p[i] = a[i]
      /\ p[Len(a) + 1] = y
  BY <1>p, <1>2, AppendProperties
<1> HIDE DEF L
<1>z. PICK z : z = p \o b
  OBVIOUS
<1>4. /\ z \in Seq(Tagged) /\ Len(z) = Len(p) + Len(b)
      /\ \A i \in 1..(Len(p) + Len(b)) : z[i] = IF i <= Len(p) THEN p[i] ELSE b[i - Len(p)]
  <2>1. p \in Seq(Tagged) /\ b \in Seq(Tagged)
    BY <1>2, <1>3
  <2> QED BY <1>z, <2>1, ConcatProperties
<1>5. Len(z) = L /\ Len(p) = f
  BY <1>1, <1>2, <1>3, <1>4
<1>6. w \in Seq(Tagged) /\ Len(w) = L
  BY Replaced DEF Rows, L
<1>7. ASSUME NEW i \in 1..L PROVE z[i] = w[i]
  <2>1. z[i] = IF i <= f THEN p[i] ELSE b[i - f]
    BY <1>1, <1>2, <1>4, <1>5
  <2>2. CASE i < f
    <3>1. i \in 1..Len(a)
      BY <1>1, <1>2, <2>2
    <3>2. z[i] = xs[i]
      BY <1>2, <1>3, <2>1, <2>2, <3>1
    <3>3. i # f
      BY <1>1, <2>2
    <3> QED BY <1>1, <3>2, <3>3
  <2>3. CASE i = f
    <3>1. p[f] = y
      BY <1>1, <1>2, <1>3
    <3> QED BY <1>1, <2>1, <2>3, <3>1
  <2>4. CASE i > f
    <3>1. i - f \in 1..Len(b) /\ f + (i - f) = i /\ ~(i <= f) /\ i # f
      BY <1>1, <1>2, <2>4
    <3>2. z[i] = xs[i]
      BY <1>2, <2>1, <3>1
    <3> QED BY <1>1, <3>1, <3>2
  <2> QED BY <1>1, <2>2, <2>3, <2>4
<1>8. z = w
  <2> HIDE DEF w
  <2> QED BY <1>4, <1>5, <1>6, <1>7, SeqEqual
<1> QED BY <1>8, <1>p, <1>z, Zenon DEF w, Joined, Longer

(* The counts of a value in a row that is split at one of its inputs. *)
LEMMA SplitCounts ==
  ASSUME NEW a \in Rows, NEW b \in Rows, NEW y \in Tagged, NEW v
  PROVE  /\ Longer(a, y) \in Rows /\ Joined(Longer(a, y), b) \in Rows
         /\ y.value = v => Counts(Joined(Longer(a, y), b), v) =
                            Joined(Longer(Counts(a, v), y.count), Counts(b, v))
         /\ y.value # v => Counts(Joined(Longer(a, y), b), v) =
                            Joined(Counts(a, v), Counts(b, v))
<1>1. PICK c : c = Longer(a, y)
  OBVIOUS
<1>2. c \in Rows /\ Counts(c, v) = IF y.value = v THEN Longer(Counts(a, v), y.count)
                                                  ELSE Counts(a, v)
  BY <1>1, CountsAppend
<1>3. Joined(c, b) \in Rows /\ Counts(Joined(c, b), v) = Joined(Counts(c, v), Counts(b, v))
  BY <1>2, CountsConcat
<1> QED BY <1>1, <1>2, <1>3

(* t is the element e, followed by the row r, and what that means place by *)
(* place.                                                                  *)
Begun(r, e, t) == t = Joined(Longer(<<>>, e), r)

Leads(T, r, e, t) ==
  /\ t \in Seq(T) /\ Len(t) = 1 + Len(r) /\ t[1] = e
  /\ \A i \in 1..Len(r) : t[1 + i] = r[i]

(* A sequence behind one element. *)
LEMMA Leading ==
  ASSUME NEW T, NEW r \in Seq(T), NEW e \in T, NEW t, Begun(r, e, t)
  PROVE  Leads(T, r, e, t)
PROOF BY DEF Joined, Longer, Begun, Leads

(* A sequence that begins with a given element. *)
LEMMA FirstElement ==
  ASSUME NEW T, NEW r \in Seq(T), NEW c \in T, NEW t, Begun(r, c, t)
  PROVE  t # <<>> /\ t[1] = c /\ Tail(t) = r
<1>0. Leads(T, r, c, t)
  BY Leading
<1>1. /\ t \in Seq(T) /\ Len(t) = 1 + Len(r) /\ t[1] = c
      /\ \A i \in 1..Len(r) : t[1 + i] = r[i]
  BY <1>0 DEF Leads
<1>3. Len(r) \in Nat
  OBVIOUS
<1>4. t # <<>>
  BY <1>1, <1>3
<1>5. Tail(t) = r
  <2>1. PICK q : q = Tail(t)
    OBVIOUS
  <2>2. q \in Seq(T) /\ Len(q) = Len(t) - 1 /\ \A i \in 1..Len(q) : q[i] = t[i + 1]
    BY <1>1, <1>4, <2>1, HeadTailProperties
  <2>3. Len(q) = Len(r)
    BY <1>1, <1>3, <2>2
  <2>4. \A i \in 1..Len(q) : q[i] = r[i]
    <3> SUFFICES ASSUME NEW i \in 1..Len(q) PROVE q[i] = r[i]
      OBVIOUS
    <3>1. i + 1 = 1 + i
      OBVIOUS
    <3> QED BY <1>1, <2>2, <2>3, <3>1
  <2>5. q = r
    BY <2>2, <2>3, <2>4, SeqEqual
  <2> QED BY <2>1, <2>5
<1> QED BY <1>1, <1>4, <1>5

(* The same sequence, with another element in its place. *)
LEMMA OtherElement ==
  ASSUME NEW T, NEW r \in Seq(T), NEW c \in T, NEW d \in T, NEW t, NEW u,
         Begun(r, c, t), Begun(r, d, u)
  PROVE  u = [t EXCEPT ![1] = d]
<1>0. Leads(T, r, c, t) /\ Leads(T, r, d, u)
  BY Leading
<1>1. /\ t \in Seq(T) /\ Len(t) = 1 + Len(r) /\ t[1] = c
      /\ \A i \in 1..Len(r) : t[1 + i] = r[i]
  BY <1>0 DEF Leads
<1>2. /\ u \in Seq(T) /\ Len(u) = 1 + Len(r) /\ u[1] = d
      /\ \A i \in 1..Len(r) : u[1 + i] = r[i]
  BY <1>0 DEF Leads
<1>3. Len(r) \in Nat
  OBVIOUS
<1>4. [t EXCEPT ![1] = d] = u
  <2>k. PICK k : k = 1
    OBVIOUS
  <2>w. PICK w : w = [t EXCEPT ![k] = d]
    OBVIOUS
  <2>1. /\ w \in Seq(T) /\ Len(w) = Len(t)
        /\ \A j \in 1..Len(t) : w[j] = IF j = k THEN d ELSE t[j]
    <3>1. k \in 1..Len(t)
      BY <1>1, <1>3, <2>k
    <3> QED BY <1>1, <2>w, <3>1, Replaced
  <2>2. ASSUME NEW i \in 1..Len(w) PROVE w[i] = u[i]
    <3>1. CASE i = 1
      BY <1>2, <2>k, <2>1, <3>1
    <3>2. CASE i # 1
      <4>1. i - 1 \in 1..Len(r) /\ 1 + (i - 1) = i
        BY <1>1, <1>3, <2>1, <3>2
      <4>2. t[i] = r[i - 1] /\ u[i] = r[i - 1]
        BY <1>1, <1>2, <4>1
      <4> QED BY <2>1, <2>k, <3>2, <4>2
    <3> QED BY <3>1, <3>2
  <2>3. w = u
    BY <1>1, <1>2, <2>1, <2>2, SeqEqual
  <2> QED BY <2>w, <2>k, <2>3
<1> QED BY <1>4

(* A row of counts that begins with a given count. *)
LEMMA FirstCount ==
  ASSUME NEW r \in CountRows, NEW c \in 0..MaxCount, NEW t, Begun(r, c, t)
  PROVE  t # <<>> /\ t[1] = c /\ Tail(t) = r
<1> DEFINE N == 0..MaxCount
<1>1. r \in Seq(N) /\ c \in N
  BY DEF CountRows
<1> HIDE DEF N
<1> QED BY <1>1, FirstElement

(* The same row, with another count in its place. *)
LEMMA OtherCount ==
  ASSUME NEW r \in CountRows, NEW c \in 0..MaxCount, NEW d \in 0..MaxCount, NEW t, NEW u,
         Begun(r, c, t), Begun(r, d, u)
  PROVE  u = [t EXCEPT ![1] = d]
<1> DEFINE N == 0..MaxCount
<1>1. r \in Seq(N) /\ c \in N /\ d \in N
  BY DEF CountRows
<1> HIDE DEF N
<1> QED BY <1>1, OtherElement

-----------------------------------------------------------------------------
(* The first listing of a value in a row of inputs: what its counts are    *)
(* when that input is there, is replaced by another one of the value, or   *)
(* is removed.  The counts of the other values stay.                       *)
FirstIn(xs, f, v, r) ==
  /\ Begun(r, xs[f].count, Counts(xs, v))
  /\ \A y \in Tagged : y.value = v =>
       /\ [xs EXCEPT ![f] = y] \in Rows
       /\ Begun(r, y.count, Counts([xs EXCEPT ![f] = y], v))
       /\ \A w : w # v => Counts([xs EXCEPT ![f] = y], w) = Counts(xs, w)
  /\ RemoveAt(xs, f) \in Rows
  /\ Counts(RemoveAt(xs, f), v) = r
  /\ \A w : w # v => Counts(RemoveAt(xs, f), w) = Counts(xs, w)

(* Every first place of a value is one.                                    *)
LEMMA FirstListing ==
  ASSUME NEW xs \in Rows, NEW f \in 1..Len(xs), NEW v,
         xs[f].value = v, \A k \in 1..(f - 1) : xs[k].value # v
  PROVE  \E r \in CountRows : FirstIn(xs, f, v, r)
<1>1. PICK a : a = Before(xs, f)
  OBVIOUS
<1>2. PICK b : b = Behind(xs, f)
  OBVIOUS
<1>3. PICK r : r = Counts(b, v)
  OBVIOUS
<1>4. /\ a \in Rows /\ b \in Rows /\ Len(a) = f - 1
      /\ \A i \in 1..Len(a) : a[i] = xs[i]
      /\ RemoveAt(xs, f) = Joined(a, b)
  <2>1. Parts(xs, f, a, b)
    BY <1>1, <1>2, SplitRow
  <2> QED BY <2>1 DEF Parts
<1>5. r \in CountRows
  BY <1>3, <1>4, CountsType
<1>6. Counts(a, v) = <<>>
  BY <1>4, CountsNone
<1>7. ASSUME NEW y \in Tagged, NEW z, z = [xs EXCEPT ![f] = y]
      PROVE  /\ z \in Rows
             /\ y.value = v => Begun(r, y.count, Counts(z, v))
             /\ \A w : w # y.value => Counts(z, w) = Joined(Counts(a, w), Counts(b, w))
  <2>1. z = Joined(Longer(a, y), b)
    BY <1>1, <1>2, <1>7, ReplaceSplit
  <2>2. z \in Rows
    BY <1>4, <2>1, SplitCounts
  <2>3. ASSUME y.value = v PROVE Begun(r, y.count, Counts(z, v))
    BY <1>3, <1>4, <1>6, <2>1, <2>3, SplitCounts DEF Begun
  <2>4. ASSUME NEW w, w # y.value PROVE Counts(z, w) = Joined(Counts(a, w), Counts(b, w))
    BY <1>4, <2>1, <2>4, SplitCounts
  <2> QED BY <2>2, <2>3, <2>4
<1>8. PICK x : x = xs[f]
  OBVIOUS
<1>9. x \in Tagged /\ x.value = v /\ xs = [xs EXCEPT ![f] = x]
  BY <1>8 DEF Rows
<1>10. /\ Begun(r, x.count, Counts(xs, v))
       /\ \A w : w # v => Counts(xs, w) = Joined(Counts(a, w), Counts(b, w))
  BY <1>7, <1>9
<1>11. ASSUME NEW y \in Tagged, y.value = v
       PROVE  /\ [xs EXCEPT ![f] = y] \in Rows
              /\ Begun(r, y.count, Counts([xs EXCEPT ![f] = y], v))
              /\ \A w : w # v => Counts([xs EXCEPT ![f] = y], w) = Counts(xs, w)
  <2>1. PICK z : z = [xs EXCEPT ![f] = y]
    OBVIOUS
  <2>2. /\ z \in Rows /\ Begun(r, y.count, Counts(z, v))
        /\ \A w : w # v => Counts(z, w) = Counts(xs, w)
    BY <1>7, <1>10, <1>11, <2>1
  <2> QED BY <2>1, <2>2
<1>12. /\ Joined(a, b) \in Rows
       /\ \A w : Counts(Joined(a, b), w) = Joined(Counts(a, w), Counts(b, w))
  BY <1>4, CountsConcat
<1>13. Counts(Joined(a, b), v) = r
  <2>1. Joined(<<>>, r) = r
    BY <1>5, JoinedEmpty
  <2> QED BY <1>3, <1>6, <1>12, <2>1
<1>14. FirstIn(xs, f, v, r)
  BY <1>4, <1>8, <1>10, <1>11, <1>12, <1>13 DEF FirstIn
<1> QED BY <1>5, <1>14

(* A row is one shorter than another and has inputs of that one only. *)
Shorter(xs, z) ==
  /\ Len(z) = Len(xs) - 1
  /\ \A j \in 1..Len(z) : \E k \in 1..Len(xs) : z[j] = xs[k]

(* The inputs of a row with one removed are inputs of the row. *)
LEMMA RemovedRow ==
  ASSUME NEW xs \in Rows, NEW f \in 1..Len(xs), NEW z, z = RemoveAt(xs, f)
  PROVE  Shorter(xs, z)
<1>1. PICK a : a = Before(xs, f)
  OBVIOUS
<1>2. PICK b : b = Behind(xs, f)
  OBVIOUS
<1>3. /\ a \in Rows /\ b \in Rows /\ Len(a) = f - 1 /\ Len(b) = Len(xs) - f
      /\ \A i \in 1..Len(a) : a[i] = xs[i]
      /\ \A i \in 1..Len(b) : b[i] = xs[f + i]
      /\ z = Joined(a, b)
  <2>1. Parts(xs, f, a, b)
    BY <1>1, <1>2, SplitRow
  <2> QED BY <2>1 DEF Parts
<1>4. /\ Len(z) = Len(a) + Len(b)
      /\ \A i \in 1..(Len(a) + Len(b)) : z[i] = IF i <= Len(a) THEN a[i] ELSE b[i - Len(a)]
  <2>1. z = a \o b
    BY <1>3, Zenon DEF Joined
  <2>2. a \in Seq(Tagged) /\ b \in Seq(Tagged)
    BY <1>3 DEF Rows
  <2> QED BY <2>1, <2>2, ConcatProperties
<1>5. Len(xs) \in Nat
  BY DEF Rows
<1>6. ASSUME NEW j \in 1..Len(z) PROVE \E k \in 1..Len(xs) : z[j] = xs[k]
  <2>1. CASE j <= Len(a)
    <3>0. j \in 1..(Len(a) + Len(b)) /\ j \in 1..Len(a) /\ j \in 1..Len(xs)
      BY <1>3, <1>4, <1>5, <2>1
    <3>1. z[j] = xs[j] /\ j \in 1..Len(xs)
      BY <1>3, <1>4, <2>1, <3>0
    <3> QED BY <3>1
  <2>2. CASE ~(j <= Len(a))
    <3>1. PICK i : i = j - Len(a)
      OBVIOUS
    <3>2. i \in 1..Len(b) /\ f + i \in 1..Len(xs)
      BY <1>3, <1>4, <1>5, <2>2, <3>1
    <3>3. z[j] = b[i]
      BY <1>3, <1>4, <1>5, <2>2, <3>1
    <3>4. z[j] = xs[f + i]
      BY <1>3, <3>2, <3>3
    <3> QED BY <3>2, <3>4
  <2> QED BY <2>1, <2>2
<1> QED BY <1>3, <1>4, <1>5, <1>6 DEF Shorter

-----------------------------------------------------------------------------
(* What is listed in a buffer: the counts of every value. *)
CountsAt(bs, s, w) == Counts(InputsBelow(bs, s)[s], w)

(* What a sound buffer has in its bucket of a value. *)
LEMMA SoundBucket ==
  ASSUME NEW s \in Nat \ {0}, NEW bs \in SoundBuckets(s), NEW i \in 0..(s - 1)
  PROVE  /\ bs[i] \in TaggedBucket /\ bs[i].inputs \in Rows
         /\ bs[i].bucket_size \in Nat \ {0}
         /\ Len(bs[i].inputs) <= bs[i].bucket_size
         /\ \A j \in 1..Len(bs[i].inputs) : Hash(bs[i].inputs[j].value) % s = i
PROOF BY DEF SoundBuckets, Placed, Fits, TaggedBucket, Rows

(* A buffer in which the inputs of one bucket are replaced by others that  *)
(* belong there and fit is sound, and lists the same of the values that    *)
(* are in other buckets or are listed the same in this one.                *)
Edited(bs, cs, s, i, xs) ==
  /\ cs \in SoundBuckets(s)
  /\ cs[i].inputs = xs
  /\ \A k \in 0..(s - 1) : k # i => cs[k] = bs[k]
  /\ \A w \in Value :
       CountsAt(cs, s, w) = IF Hash(w) % s = i THEN Counts(xs, w) ELSE CountsAt(bs, s, w)

(* Every such buffer is one.                                               *)
LEMMA SoundEdit ==
  ASSUME NEW s \in Nat \ {0}, NEW bs \in SoundBuckets(s), NEW i \in 0..(s - 1),
         NEW xs \in Rows, Len(xs) <= bs[i].bucket_size,
         \A j \in 1..Len(xs) : Hash(xs[j].value) % s = i,
         NEW cs, cs = [bs EXCEPT ![i].inputs = xs]
  PROVE  Edited(bs, cs, s, i, xs)
<1> DEFINE c == [inputs |-> xs, bucket_size |-> bs[i].bucket_size]
<1>1. /\ bs \in [0..(s - 1) -> TaggedBucket] /\ Placed(bs, s) /\ Fits(bs, s)
  BY DEF SoundBuckets
<1>2. c \in TaggedBucket /\ c.inputs = xs /\ c.bucket_size = bs[i].bucket_size
  BY SoundBucket DEF TaggedBucket, Rows
<1>3. cs = [bs EXCEPT ![i] = c]
  <2>1. bs[i] \in [inputs : Seq(Tagged), bucket_size : Nat \ {0}]
    BY <1>1 DEF TaggedBucket
  <2>2. [bs[i] EXCEPT !.inputs = xs] = c
    BY <2>1
  <2> HIDE DEF c
  <2> QED BY <2>2
<1> HIDE DEF c
<1>4. cs \in [0..(s - 1) -> TaggedBucket] /\ cs[i] = c
      /\ \A k \in 0..(s - 1) : k # i => cs[k] = bs[k]
  BY <1>1, <1>2, <1>3
<1>5. Placed(cs, s)
  <2> SUFFICES ASSUME NEW k \in 0..(s - 1), NEW j \in 1..Len(cs[k].inputs)
               PROVE  Hash(cs[k].inputs[j].value) % s = k
    BY DEF Placed
  <2>1. CASE k = i
    BY <1>2, <1>4, <2>1
  <2>2. CASE k # i
    BY <1>1, <1>4, <2>2 DEF Placed
  <2> QED BY <2>1, <2>2
<1>6. Fits(cs, s)
  <2> SUFFICES ASSUME NEW k \in 0..(s - 1)
               PROVE  Len(cs[k].inputs) <= cs[k].bucket_size
    BY DEF Fits
  <2>1. CASE k = i
    BY <1>2, <1>4, <2>1
  <2>2. CASE k # i
    BY <1>1, <1>4, <2>2 DEF Fits
  <2> QED BY <2>1, <2>2
<1>7. cs \in SoundBuckets(s)
  BY <1>4, <1>5, <1>6 DEF SoundBuckets
<1>8. ASSUME NEW w \in Value
      PROVE  CountsAt(cs, s, w) = IF Hash(w) % s = i THEN Counts(xs, w)
                                                     ELSE CountsAt(bs, s, w)
  <2>1. PICK h : h = Hash(w) % s
    OBVIOUS
  <2>2. h \in 0..(s - 1)
    BY <2>1, HashtableAssumption, IndexInBuffer
  <2>3. CountsAt(cs, s, w) = Counts(cs[h].inputs, w)
    BY <1>7, <2>1, BucketCounts DEF CountsAt
  <2>4. CountsAt(bs, s, w) = Counts(bs[h].inputs, w)
    BY <2>1, BucketCounts DEF CountsAt
  <2>5. cs[h].inputs = IF h = i THEN xs ELSE bs[h].inputs
    BY <1>2, <1>4, <2>2
  <2>6. CASE h = i
    BY <2>1, <2>3, <2>5, <2>6
  <2>7. CASE h # i
    BY <2>1, <2>3, <2>4, <2>5, <2>7
  <2> QED BY <2>6, <2>7
<1> QED BY <1>2, <1>4, <1>7, <1>8 DEF Edited

(* A scan of the bucket of a value that finds it at its first place f. *)
FoundAt(bs, s, v, f) ==
  LET xs == bs[Hash(v) % s].inputs
  IN  /\ f \in 1..Len(xs) /\ xs[f].value = v
      /\ \A k \in 1..(f - 1) : xs[k].value # v

(* What is listed before and after the first listing is incremented. *)
Incremented(bs, cs, s, v) ==
  /\ cs \in SoundBuckets(s) /\ Total(cs, s) = Total(bs, s)
  /\ CountsAt(cs, s, v) = [CountsAt(bs, s, v) EXCEPT ![1] = @ + 1]
  /\ \A w \in Value : w # v => CountsAt(cs, s, w) = CountsAt(bs, s, w)

(* What is listed before and after the first listing is removed. *)
Removed(bs, cs, s, v) ==
  /\ cs \in SoundBuckets(s) /\ Total(cs, s) = Total(bs, s) - 1
  /\ CountsAt(cs, s, v) = Tail(CountsAt(bs, s, v))
  /\ \A w \in Value : w # v => CountsAt(cs, s, w) = CountsAt(bs, s, w)

(* A value that is not in its bucket is not listed; one that is, is listed *)
(* first with the count of its first input there.                          *)
LEMMA ScanCounts ==
  ASSUME NEW s \in Nat \ {0}, NEW bs \in SoundBuckets(s), NEW v \in Value
  PROVE  LET xs == bs[Hash(v) % s].inputs
         IN  /\ (\A j \in 1..Len(xs) : xs[j].value # v) => CountsAt(bs, s, v) = <<>>
             /\ \A f : FoundAt(bs, s, v, f) =>
                  /\ CountsAt(bs, s, v) # <<>>
                  /\ CountsAt(bs, s, v)[1] = xs[f].count
<1>1. PICK i : i = Hash(v) % s
  OBVIOUS
<1>2. i \in 0..(s - 1)
  BY <1>1, HashtableAssumption, IndexInBuffer
<1>3. PICK xs : xs = bs[i].inputs
  OBVIOUS
<1>4. xs \in Rows
  BY <1>2, <1>3, SoundBucket
<1>5. CountsAt(bs, s, v) = Counts(xs, v)
  BY <1>1, <1>3, BucketCounts DEF CountsAt
<1>6. (\A j \in 1..Len(xs) : xs[j].value # v) => Counts(xs, v) = <<>>
  BY <1>4, CountsNone
<1>7. ASSUME NEW f, FoundAt(bs, s, v, f)
      PROVE  Counts(xs, v) # <<>> /\ Counts(xs, v)[1] = xs[f].count
  <2>1. f \in 1..Len(xs) /\ xs[f].value = v /\ \A k \in 1..(f - 1) : xs[k].value # v
    BY <1>1, <1>3, <1>7 DEF FoundAt
  <2>2. PICK r \in CountRows : Begun(r, xs[f].count, Counts(xs, v))
    <3>1. \E r \in CountRows : FirstIn(xs, f, v, r)
      BY <1>4, <2>1, FirstListing
    <3> QED BY <3>1 DEF FirstIn
  <2>3. PICK c : c = xs[f].count
    OBVIOUS
  <2>4. c \in 0..MaxCount
    <3>1. xs[f] \in Tagged
      BY <1>4, <2>1 DEF Rows
    <3> QED BY <2>3, <3>1, TaggedInput
  <2> QED BY <2>2, <2>3, <2>4, FirstCount
<1> QED BY <1>1, <1>3, <1>5, <1>6, <1>7

(* Incrementing the first input of a value increments its first listing,   *)
(* and nothing else.                                                       *)
LEMMA IncrementEdit ==
  ASSUME NEW s \in Nat \ {0}, NEW bs \in SoundBuckets(s), NEW v \in Value, NEW f,
         FoundAt(bs, s, v, f), NEW i, i = Hash(v) % s,
         bs[i].inputs[f].count < MaxCount,
         NEW cs, cs = [bs EXCEPT ![i].inputs[f].count = @ + 1]
  PROVE  Incremented(bs, cs, s, v)
<1>1. i \in 0..(s - 1)
  BY HashtableAssumption, IndexInBuffer
<1>2. PICK xs : xs = bs[i].inputs
  OBVIOUS
<1>3. PICK x : x = xs[f]
  OBVIOUS
<1>4. PICK y : y = [x EXCEPT !.count = @ + 1]
  OBVIOUS
<1>5. PICK ys : ys = [xs EXCEPT ![f] = y]
  OBVIOUS
<1>6. /\ xs \in Rows /\ Len(xs) <= bs[i].bucket_size
      /\ \A j \in 1..Len(xs) : Hash(xs[j].value) % s = i
      /\ bs[i] \in TaggedBucket
  BY <1>1, <1>2, SoundBucket
<1>7. f \in 1..Len(xs) /\ x.value = v /\ \A k \in 1..(f - 1) : xs[k].value # v
  BY <1>2, <1>3 DEF FoundAt
<1>8. x \in Tagged
  BY <1>3, <1>6, <1>7 DEF Rows
<1>9. x.count \in 0..MaxCount /\ x.count + 1 \in 0..MaxCount
  <2>1. x.count < MaxCount
    BY <1>2, <1>3
  <2> QED BY <1>8, <2>1, TaggedInput, HashtableAssumption
<1>10. y \in Tagged /\ y.value = v /\ y.count = x.count + 1
  BY <1>4, <1>7, <1>8, <1>9 DEF Tagged, Input
<1>11. cs = [bs EXCEPT ![i].inputs = ys]
  BY <1>2, <1>3, <1>4, <1>5
<1>12. PICK r \in CountRows :
         /\ Begun(r, x.count, Counts(xs, v))
         /\ ys \in Rows
         /\ Begun(r, y.count, Counts(ys, v))
         /\ \A w : w # v => Counts(ys, w) = Counts(xs, w)
  <2>1. PICK r \in CountRows : FirstIn(xs, f, v, r)
    <3>1. /\ xs \in Rows /\ f \in 1..Len(xs) /\ xs[f].value = v
          /\ \A k \in 1..(f - 1) : xs[k].value # v
      BY <1>3, <1>6, <1>7
    <3> QED BY <3>1, FirstListing
  <2> QED BY <1>3, <1>5, <1>10, <2>1 DEF FirstIn
<1>13. /\ Len(ys) = Len(xs)
       /\ \A j \in 1..Len(ys) : Hash(ys[j].value) % s = i
  <2>1. /\ Len(ys) = Len(xs)
        /\ \A j \in 1..Len(xs) : ys[j] = IF j = f THEN y ELSE xs[j]
    BY <1>5, <1>6, <1>7, <1>10, Replaced DEF Rows
  <2> QED BY <1>3, <1>6, <1>7, <1>10, <2>1
<1>14. /\ cs \in SoundBuckets(s)
       /\ cs[i].inputs = ys
       /\ \A k \in 0..(s - 1) : k # i => cs[k] = bs[k]
       /\ \A w \in Value :
            CountsAt(cs, s, w) = IF Hash(w) % s = i THEN Counts(ys, w)
                                                    ELSE CountsAt(bs, s, w)
  <2>1. ys \in Rows /\ Len(ys) <= bs[i].bucket_size
    BY <1>6, <1>12, <1>13
  <2>2. Edited(bs, cs, s, i, ys)
    BY <1>1, <1>11, <1>13, <2>1, SoundEdit
  <2> QED BY <2>2 DEF Edited
<1>15. Total(cs, s) = Total(bs, s)
  <2>1. PICK d : d = 0
    OBVIOUS
  <2>2. Len(cs[i].inputs) = Len(bs[i].inputs) + d /\ d \in Int
    <3>1. Len(xs) \in Nat
      BY <1>6 DEF Rows
    <3> QED BY <1>2, <1>13, <1>14, <2>1, <3>1
  <2>3. \A k \in 0..(s - 1) : k # i => Len(cs[k].inputs) = Len(bs[k].inputs)
    BY <1>14
  <2>4. Total(bs, s) \in Nat /\ Total(cs, s) = Total(bs, s) + d
    <3>1. cs \in SoundBuckets(s) /\ d \in Int /\ LongerAt(bs, cs, s, i, d)
      BY <1>14, <2>2, <2>3 DEF LongerAt
    <3> QED BY <1>1, <3>1, TotalChange
  <2> QED BY <2>1, <2>4
<1>16. \A w \in Value : Hash(w) % s = i => CountsAt(bs, s, w) = Counts(xs, w)
  BY <1>2, BucketCounts DEF CountsAt
<1>17. CountsAt(cs, s, v) = [CountsAt(bs, s, v) EXCEPT ![1] = @ + 1]
  <2>1. PICK t : t = Counts(xs, v)
    OBVIOUS
  <2>2. PICK d : d = y.count
    OBVIOUS
  <2>3. PICK u : u = Counts(ys, v)
    OBVIOUS
  <2>4. t[1] = x.count
    BY <1>9, <1>12, <2>1, FirstCount
  <2>5. u = [t EXCEPT ![1] = d]
    BY <1>9, <1>10, <1>12, <2>1, <2>2, <2>3, OtherCount
  <2>6. d = t[1] + 1
    BY <1>10, <2>2, <2>4
  <2>7. u = [t EXCEPT ![1] = @ + 1]
    BY <2>5, <2>6
  <2>8. CountsAt(cs, s, v) = u /\ CountsAt(bs, s, v) = t
    BY <1>14, <1>16, <2>1, <2>3
  <2> QED BY <2>7, <2>8
<1>18. \A w \in Value : w # v => CountsAt(cs, s, w) = CountsAt(bs, s, w)
  BY <1>12, <1>14, <1>16
<1> QED BY <1>14, <1>15, <1>17, <1>18 DEF Incremented

(* Removing the first input of a value removes its first listing, and      *)
(* nothing else.                                                           *)
LEMMA RemoveEdit ==
  ASSUME NEW s \in Nat \ {0}, NEW bs \in SoundBuckets(s), NEW v \in Value, NEW f,
         FoundAt(bs, s, v, f), NEW i, i = Hash(v) % s,
         NEW cs, cs = [bs EXCEPT ![i].inputs = RemoveAt(@, f)]
  PROVE  Removed(bs, cs, s, v)
<1>1. i \in 0..(s - 1)
  BY HashtableAssumption, IndexInBuffer
<1>2. PICK xs : xs = bs[i].inputs
  OBVIOUS
<1>3. PICK c : c = xs[f].count
  OBVIOUS
<1>4. PICK ys : ys = RemoveAt(xs, f)
  OBVIOUS
<1>5. /\ xs \in Rows /\ Len(xs) <= bs[i].bucket_size
      /\ \A j \in 1..Len(xs) : Hash(xs[j].value) % s = i
      /\ bs[i].bucket_size \in Nat
  BY <1>1, <1>2, SoundBucket
<1>6. f \in 1..Len(xs) /\ xs[f].value = v /\ \A k \in 1..(f - 1) : xs[k].value # v
  BY <1>2 DEF FoundAt
<1>7. c \in 0..MaxCount
  <2>1. xs[f] \in Tagged
    BY <1>5, <1>6 DEF Rows
  <2> QED BY <1>3, <2>1, TaggedInput
<1>8. cs = [bs EXCEPT ![i].inputs = ys]
  BY <1>2, <1>4
<1>9. PICK r \in CountRows :
        /\ Begun(r, c, Counts(xs, v))
        /\ ys \in Rows
        /\ Counts(ys, v) = r
        /\ \A w : w # v => Counts(ys, w) = Counts(xs, w)
  <2>1. PICK r \in CountRows : FirstIn(xs, f, v, r)
    <3>1. xs \in Rows
      BY <1>5
    <3> QED BY <1>6, <3>1, FirstListing
  <2> QED BY <1>3, <1>4, <2>1 DEF FirstIn
<1>10. /\ Len(ys) = Len(xs) - 1
       /\ \A j \in 1..Len(ys) : Hash(ys[j].value) % s = i
  <2>1. /\ Len(ys) = Len(xs) - 1
        /\ \A j \in 1..Len(ys) : \E k \in 1..Len(xs) : ys[j] = xs[k]
    <3>1. xs \in Rows /\ f \in 1..Len(xs)
      BY <1>5, <1>6
    <3>2. Shorter(xs, ys)
      BY <1>4, <3>1, RemovedRow
    <3> QED BY <3>2 DEF Shorter
  <2> QED BY <1>5, <2>1
<1>11. Len(xs) \in Nat /\ Len(ys) <= bs[i].bucket_size
  <2>1. Len(xs) \in Nat
    BY <1>5 DEF Rows
  <2> QED BY <1>5, <1>10, <2>1
<1>12. /\ cs \in SoundBuckets(s)
       /\ cs[i].inputs = ys
       /\ \A k \in 0..(s - 1) : k # i => cs[k] = bs[k]
       /\ \A w \in Value :
            CountsAt(cs, s, w) = IF Hash(w) % s = i THEN Counts(ys, w)
                                                    ELSE CountsAt(bs, s, w)
  <2>1. ys \in Rows
    BY <1>9
  <2>2. Edited(bs, cs, s, i, ys)
    BY <1>1, <1>8, <1>10, <1>11, <2>1, SoundEdit
  <2> QED BY <2>2 DEF Edited
<1>13. Total(cs, s) = Total(bs, s) - 1
  <2>1. PICK d : d = -1
    OBVIOUS
  <2>2. Len(cs[i].inputs) = Len(bs[i].inputs) + d /\ d \in Int
    BY <1>2, <1>10, <1>11, <1>12, <2>1
  <2>3. \A k \in 0..(s - 1) : k # i => Len(cs[k].inputs) = Len(bs[k].inputs)
    BY <1>12
  <2>4. Total(bs, s) \in Nat /\ Total(cs, s) = Total(bs, s) + d
    <3>1. cs \in SoundBuckets(s) /\ d \in Int /\ LongerAt(bs, cs, s, i, d)
      BY <1>12, <2>2, <2>3 DEF LongerAt
    <3> QED BY <1>1, <3>1, TotalChange
  <2> QED BY <2>1, <2>4
<1>14. \A w \in Value : Hash(w) % s = i => CountsAt(bs, s, w) = Counts(xs, w)
  BY <1>2, BucketCounts DEF CountsAt
<1>15. CountsAt(cs, s, v) = Tail(CountsAt(bs, s, v))
  <2>1. PICK t : t = Counts(xs, v)
    OBVIOUS
  <2>2. Tail(t) = r
    BY <1>7, <1>9, <2>1, FirstCount
  <2>3. CountsAt(cs, s, v) = r /\ CountsAt(bs, s, v) = t
    BY <1>9, <1>12, <1>14, <2>1
  <2> QED BY <2>2, <2>3
<1>16. \A w \in Value : w # v => CountsAt(cs, s, w) = CountsAt(bs, s, w)
  BY <1>9, <1>12, <1>14
<1> QED BY <1>12, <1>13, <1>15, <1>16 DEF Removed

(* What is listed before and after a value is put. *)
Put(bs, cs, s, v) ==
  /\ cs \in SoundBuckets(s) /\ Total(cs, s) = Total(bs, s) + 1
  /\ CountsAt(cs, s, v) = Append(CountsAt(bs, s, v), 0)
  /\ \A w \in Value : w # v => CountsAt(cs, s, w) = CountsAt(bs, s, w)

(* A value that is put is listed last, with the count 0. *)
LEMMA PutEdit ==
  ASSUME NEW s \in Nat \ {0}, NEW bs \in SoundBuckets(s), NEW v \in Value,
         NEW cs, cs = rehash(bs, s, input_create(v))
  PROVE  Put(bs, cs, s, v)
<1>1. PICK x : x = input_create(v)
  OBVIOUS
<1>2. x \in Tagged /\ x.value = v /\ x.count = 0
  BY <1>1, HashtableAssumption DEF input_create, Tagged, Input
<1>3. PICK i : i = Hash(v) % s
  OBVIOUS
<1>4. /\ i \in 0..(s - 1) /\ cs \in SoundBuckets(s)
      /\ cs[i].inputs = Longer(bs[i].inputs, x)
      /\ \A k \in 0..(s - 1) : k # i => cs[k] = bs[k]
  BY <1>1, <1>2, <1>3, RehashOne
<1>5. Total(cs, s) = Total(bs, s) + 1
  BY <1>1, <1>2, TotalRehash
<1>6. PICK xs : xs = bs[i].inputs
  OBVIOUS
<1>7. xs \in Rows
  BY <1>4, <1>6, SoundBucket
<1>8. \A w : Counts(Longer(xs, x), w) = IF w = v THEN Longer(Counts(xs, w), 0) ELSE Counts(xs, w)
  BY <1>2, <1>7, CountsAppend
<1>9. ASSUME NEW w \in Value
      PROVE  CountsAt(cs, s, w) = IF w = v THEN Longer(CountsAt(bs, s, w), 0)
                                           ELSE CountsAt(bs, s, w)
  <2>1. PICK h : h = Hash(w) % s
    OBVIOUS
  <2>2. h \in 0..(s - 1)
    BY <2>1, HashtableAssumption, IndexInBuffer
  <2>3. CountsAt(cs, s, w) = Counts(cs[h].inputs, w)
    BY <1>4, <2>1, BucketCounts DEF CountsAt
  <2>4. CountsAt(bs, s, w) = Counts(bs[h].inputs, w)
    BY <2>1, BucketCounts DEF CountsAt
  <2>5. CASE h = i
    BY <1>4, <1>6, <1>8, <2>3, <2>4, <2>5
  <2>6. CASE h # i
    <3>1. w # v
      BY <1>3, <2>1, <2>6
    <3> QED BY <1>4, <2>2, <2>3, <2>4, <2>6, <3>1
  <2> QED BY <2>5, <2>6
<1> QED BY <1>4, <1>5, <1>9 DEF Put, Longer

(* The doubled buffer is sound and lists what the inputs list.             *)
LEMMA ResizedLists ==
  ASSUME NEW t \in Nat \ {0}, NEW xs \in Rows,
         NEW bs, bs = Rehashed(EmptyBuckets(t), t, xs)[Len(xs)]
  PROVE  /\ bs \in SoundBuckets(t) /\ Total(bs, t) = Len(xs)
         /\ \A w \in Value : CountsAt(bs, t, w) = Counts(xs, w)
<1>1. bs \in SoundBuckets(t) /\ Total(bs, t) = Len(xs)
  BY RehashedTotal
<1>2. ASSUME NEW w \in Value PROVE CountsAt(bs, t, w) = Counts(xs, w)
  <2>1. Len(xs) \in 0..Len(xs)
    BY DEF Rows
  <2>2. Counts(bs[Hash(w) % t].inputs, w) = CountsIn(xs, w)[Len(xs)]
    BY <2>1, RehashedCounts
  <2>3. CountsAt(bs, t, w) = Counts(bs[Hash(w) % t].inputs, w)
    BY <1>1, BucketCounts DEF CountsAt
  <2> QED BY <2>2, <2>3 DEF Counts
<1> QED BY <1>1, <1>2

(* A sound buffer has the type of a buffer.                                *)
LEMMA SoundTyped ==
  ASSUME NEW s \in Nat \ {0}, NEW bs \in SoundBuckets(s)
  PROVE  bs \in [0..(s - 1) -> BucketType]
<1>1. ASSUME NEW i \in 0..(s - 1) PROVE bs[i] \in BucketType
  <2>1. bs[i] \in TaggedBucket
    BY DEF SoundBuckets
  <2>2. bs[i].inputs \in Seq(Tagged)
    BY <2>1 DEF TaggedBucket
  <2>3. \A j \in 1..Len(bs[i].inputs) : bs[i].inputs[j] \in Input
    <3>1. \A j \in 1..Len(bs[i].inputs) : bs[i].inputs[j] \in Tagged
      BY <2>2
    <3> QED BY <3>1 DEF Tagged
  <2>4. bs[i].inputs \in Seq(Input)
    BY <2>2, <2>3
  <2> QED BY <2>1, <2>4 DEF TaggedBucket, BucketType
<1> QED BY <1>1 DEF SoundBuckets

-----------------------------------------------------------------------------
(* The inductive invariant: the buckets are sound for the present size,    *)
(* and the length does not count more inputs than there are.               *)
HashtableInv ==
  /\ TypeOK
  /\ buckets \in SoundBuckets(size)
  /\ length <= Total(buckets, size)

(* What the invariant says of the table. *)
LEMMA InvFacts ==
  ASSUME HashtableInv
  PROVE  /\ size \in Nat \ {0} /\ size <= MaxSize
         /\ buckets \in SoundBuckets(size)
         /\ length \in Int /\ length <= Total(buckets, size)
         /\ Inputs \in Rows /\ Len(Inputs) = Total(buckets, size)
         /\ Total(buckets, size) \in Nat
<1>1. size \in Nat \ {0} /\ size <= MaxSize /\ buckets \in SoundBuckets(size)
  BY HashtableAssumption DEF HashtableInv, TypeOK
<1>2. Inputs \in Rows
  <2>1. size \in 0..size
    BY <1>1
  <2> QED BY <1>1, <2>1, SoundInputs DEF Inputs
<1>3. Len(Inputs) = Total(buckets, size) /\ Len(Inputs) \in Nat
  BY <1>2, RowLengths DEF Inputs, Total
<1> QED BY <1>1, <1>2, <1>3 DEF HashtableInv, TypeOK

(* The first place of a value is where a scan of its bucket finds it; the  *)
(* others have no place.                                                   *)
LEMMA Scan ==
  ASSUME HashtableInv, NEW v \in Value
  PROVE  /\ Places(v) # {} => FoundAt(buckets, size, v, First(v))
         /\ Places(v) = {} => CountsAt(buckets, size, v) = <<>>
<1>1. PICK xs : xs = buckets[Bucket(v)].inputs
  OBVIOUS
<1>2. Places(v) = {j \in 1..Len(xs) : xs[j].value = v}
  BY <1>1 DEF Places
<1>3. xs = buckets[Hash(v) % size].inputs
  BY <1>1 DEF Bucket
<1>4. ASSUME Places(v) # {} PROVE FoundAt(buckets, size, v, First(v))
  <2>1. \E j \in Places(v) : \A k \in Places(v) : j <= k
    <3>1. Places(v) \subseteq Nat
      BY <1>2
    <3> QED BY <1>4, <3>1, LeastNumber
  <2>2. First(v) \in Places(v) /\ \A k \in Places(v) : First(v) <= k
    BY <2>1 DEF First
  <2>3. PICK f : f = First(v)
    OBVIOUS
  <2>4. f \in 1..Len(xs) /\ xs[f].value = v
    BY <1>2, <2>2, <2>3
  <2>5. ASSUME NEW k \in 1..(f - 1) PROVE xs[k].value # v
    <3>1. xs \in Rows
      <4>1. size \in Nat \ {0} /\ buckets \in SoundBuckets(size)
        BY InvFacts
      <4>2. Hash(v) % size \in 0..(size - 1)
        BY <4>1, HashtableAssumption, IndexInBuffer
      <4> QED BY <1>3, <4>1, <4>2, SoundBucket
    <3>2. Len(xs) \in Nat
      BY <3>1 DEF Rows
    <3>3. k \in 1..Len(xs) /\ ~(f <= k)
      BY <2>4, <2>5, <3>2
    <3> QED BY <1>2, <2>2, <2>3, <3>3
  <2> QED BY <1>3, <2>3, <2>4, <2>5 DEF FoundAt
<1>5. ASSUME Places(v) = {} PROVE CountsAt(buckets, size, v) = <<>>
  <2>1. \A j \in 1..Len(xs) : xs[j].value # v
    BY <1>2, <1>5
  <2>2. size \in Nat \ {0} /\ buckets \in SoundBuckets(size)
    BY InvFacts
  <2> QED BY <1>3, <2>1, <2>2, ScanCounts
<1> QED BY <1>4, <1>5

(* The table is empty at first.                                            *)
LEMMA HashtableInit ==
  ASSUME Init
  PROVE  HashtableInv /\ \A w \in Value : CountsAt(buckets, size, w) = <<>>
<1>1. size \in Nat \ {0} /\ size \in 1..MaxSize /\ buckets = EmptyBuckets(size)
      /\ length = 0 /\ result = 0
  BY HashtableAssumption DEF Init
<1>2. buckets \in SoundBuckets(size) /\ \A i \in 0..(size - 1) : buckets[i].inputs = <<>>
  BY <1>1, EmptyIsSound
<1>3. Total(buckets, size) = 0
  BY <1>1, EmptyTotal
<1>4. TypeOK
  BY <1>1, <1>2, SoundTyped, HashtableAssumption DEF TypeOK
<1>5. ASSUME NEW w \in Value PROVE CountsAt(buckets, size, w) = <<>>
  <2>1. Hash(w) % size \in 0..(size - 1)
    BY <1>1, HashtableAssumption, IndexInBuffer
  <2>2. CountsAt(buckets, size, w) = Counts(buckets[Hash(w) % size].inputs, w)
    BY <1>1, <1>2, BucketCounts DEF CountsAt
  <2> QED BY <1>2, <2>1, <2>2, CountsType
<1> QED BY <1>1, <1>2, <1>3, <1>4, <1>5 DEF HashtableInv

(* How the listing changes from the buckets bs of size s to the present.   *)
Lists(bs, s, cs, t) == \A w \in Value : CountsAt(cs, t, w) = CountsAt(bs, s, w)

(* hashtable_put() keeps the invariant and lists the value once more.      *)
LEMMA PutStep ==
  ASSUME HashtableInv, NEW v \in Value, HashtablePut(v)
  PROVE  /\ HashtableInv'
         /\ CountsAt(buckets', size', v) = Append(CountsAt(buckets, size, v), 0)
         /\ \A w \in Value : w # v => CountsAt(buckets', size', w) = CountsAt(buckets, size, w)
<1>1. PICK s : s = IF Overloaded THEN 2 * size ELSE size
  OBVIOUS
<1>2. PICK bs : bs = IF Overloaded THEN Resized ELSE buckets
  OBVIOUS
<1>3. PICK x : x = input_create(v)
  OBVIOUS
<1>4. /\ s <= MaxSize /\ size' = s /\ buckets' = rehash(bs, s, x)
      /\ length' = (IF Full(bs[x.my_hash % s]) THEN length ELSE length + 1)
      /\ result' = 0
  BY <1>1, <1>2, <1>3 DEF HashtablePut, rehash
<1>5. /\ size \in Nat \ {0} /\ buckets \in SoundBuckets(size)
      /\ length \in Int /\ length <= Total(buckets, size)
      /\ Inputs \in Rows /\ Len(Inputs) = Total(buckets, size)
      /\ Total(buckets, size) \in Nat
  BY InvFacts
<1>6. /\ s \in Nat \ {0} /\ bs \in SoundBuckets(s)
      /\ Total(bs, s) = Total(buckets, size)
      /\ Lists(buckets, size, bs, s)
  <2>1. CASE ~Overloaded
    BY <1>1, <1>2, <1>5, <2>1 DEF Lists
  <2>2. CASE Overloaded
    <3>1. PICK xs : xs = Inputs
      OBVIOUS
    <3>2. s \in Nat \ {0} /\ s = 2 * size
      BY <1>1, <1>5, <2>2
    <3>3. bs = Rehashed(EmptyBuckets(s), s, xs)[Len(xs)]
      BY <1>2, <2>2, <3>1, <3>2 DEF Resized
    <3>4. xs \in Rows
      BY <1>5, <3>1
    <3>5. /\ bs \in SoundBuckets(s) /\ Total(bs, s) = Len(xs)
          /\ \A w \in Value : CountsAt(bs, s, w) = Counts(xs, w)
      BY <3>2, <3>3, <3>4, ResizedLists
    <3>6. \A w \in Value : CountsAt(buckets, size, w) = Counts(xs, w)
      BY <3>1 DEF CountsAt, Inputs
    <3> QED BY <1>5, <3>1, <3>2, <3>5, <3>6 DEF Lists
  <2> QED BY <2>1, <2>2
<1>7. PICK cs : cs = buckets'
  OBVIOUS
<1>8. Put(bs, cs, s, v)
  BY <1>3, <1>4, <1>6, <1>7, PutEdit
<1>9. cs \in SoundBuckets(s) /\ Total(cs, s) = Total(bs, s) + 1
  BY <1>8 DEF Put
<1>10. TypeOK'
  <2>1. cs \in [0..(s - 1) -> BucketType]
    BY <1>6, <1>9, SoundTyped
  <2>2. length' \in Int /\ result' \in -1..MaxCount \cup {1}
    BY <1>4, <1>5, HashtableAssumption
  <2>3. size' \in 1..MaxSize
    BY <1>4, <1>6, HashtableAssumption
  <2> QED BY <1>4, <1>7, <2>1, <2>2, <2>3 DEF TypeOK
<1>11. length' <= Total(buckets', size')
  <2>1. length' = length \/ length' = length + 1
    BY <1>4
  <2>2. Total(buckets', size') = Total(buckets, size) + 1
    BY <1>4, <1>6, <1>7, <1>9
  <2> QED BY <1>5, <2>1, <2>2
<1>12. HashtableInv'
  BY <1>4, <1>7, <1>9, <1>10, <1>11 DEF HashtableInv
<1>13. /\ CountsAt(buckets', size', v) = Append(CountsAt(buckets, size, v), 0)
       /\ \A w \in Value : w # v => CountsAt(buckets', size', w) = CountsAt(buckets, size, w)
  <2>1. CountsAt(buckets', size', v) = Append(CountsAt(bs, s, v), 0)
    BY <1>4, <1>7, <1>8 DEF Put
  <2>2. CountsAt(bs, s, v) = CountsAt(buckets, size, v)
    BY <1>6 DEF Lists
  <2>3. ASSUME NEW w \in Value, w # v
        PROVE  CountsAt(buckets', size', w) = CountsAt(buckets, size, w)
    BY <1>4, <1>6, <1>7, <1>8, <2>3 DEF Put, Lists
  <2> QED BY <2>1, <2>2, <2>3
<1> QED BY <1>12, <1>13

(* hashtable_increment() keeps the invariant, increments the first listing *)
(* of the value and returns whether there is one.                          *)
LEMMA IncrementStep ==
  ASSUME HashtableInv, NEW v \in Value, HashtableIncrement(v)
  PROVE  /\ HashtableInv'
         /\ \/ /\ CountsAt(buckets, size, v) = <<>> /\ result' = 0
               /\ Lists(buckets, size, buckets', size')
            \/ /\ CountsAt(buckets, size, v) # <<>> /\ result' = 1
               /\ CountsAt(buckets', size', v) =
                    [CountsAt(buckets, size, v) EXCEPT ![1] = @ + 1]
               /\ \A w \in Value : w # v =>
                    CountsAt(buckets', size', w) = CountsAt(buckets, size, w)
<1>1. /\ size \in Nat \ {0} /\ buckets \in SoundBuckets(size)
      /\ length \in Int /\ length <= Total(buckets, size) /\ TypeOK
  BY InvFacts DEF HashtableInv
<1>2. CASE Places(v) = {}
  <2>1. UNCHANGED <<size, buckets, length>> /\ result' = 0
    BY <1>2 DEF HashtableIncrement
  <2>2. HashtableInv'
    BY <1>1, <2>1, HashtableAssumption DEF HashtableInv, TypeOK
  <2> QED BY <1>2, <2>1, <2>2, Scan DEF Lists
<1>3. CASE Places(v) # {}
  <2>1. PICK f : f = First(v)
    OBVIOUS
  <2>2. PICK i : i = Hash(v) % size
    OBVIOUS
  <2>3. PICK cs : cs = buckets'
    OBVIOUS
  <2>4. /\ buckets[i].inputs[f].count < MaxCount
        /\ cs = [buckets EXCEPT ![i].inputs[f].count = @ + 1]
        /\ result' = 1 /\ size' = size /\ length' = length
    BY <1>3, <2>1, <2>2, <2>3 DEF HashtableIncrement, Bucket
  <2>5. FoundAt(buckets, size, v, f)
    BY <1>3, <2>1, Scan
  <2>6. Incremented(buckets, cs, size, v)
    BY <1>1, <2>2, <2>4, <2>5, IncrementEdit
  <2>7. cs \in SoundBuckets(size) /\ Total(cs, size) = Total(buckets, size)
    BY <2>6 DEF Incremented
  <2>8. HashtableInv'
    <3>1. cs \in [0..(size - 1) -> BucketType]
      BY <1>1, <2>7, SoundTyped
    <3>2. TypeOK'
      BY <1>1, <2>3, <2>4, <3>1 DEF TypeOK
    <3> QED BY <1>1, <2>3, <2>4, <2>7, <3>2 DEF HashtableInv
  <2>9. CountsAt(buckets, size, v) # <<>>
    BY <1>1, <2>5, ScanCounts
  <2> QED BY <2>3, <2>4, <2>6, <2>8, <2>9 DEF Incremented
<1> QED BY <1>2, <1>3

(* hashtable_get() returns the first count of the value, or -1.            *)
LEMMA GetStep ==
  ASSUME HashtableInv, NEW v \in Value, HashtableGet(v)
  PROVE  /\ HashtableInv'
         /\ UNCHANGED <<size, buckets>>
         /\ result' = IF CountsAt(buckets, size, v) # <<>> THEN CountsAt(buckets, size, v)[1]
                                                           ELSE -1
<1>1. /\ size \in Nat \ {0} /\ buckets \in SoundBuckets(size) /\ TypeOK
  BY InvFacts DEF HashtableInv
<1>2. UNCHANGED <<size, buckets, length>>
  BY DEF HashtableGet
<1>3. /\ result' = IF CountsAt(buckets, size, v) # <<>> THEN CountsAt(buckets, size, v)[1]
                                                        ELSE -1
      /\ result' \in -1..MaxCount
  <2>1. CASE Places(v) = {}
    <3>1. result' = -1
      BY <2>1 DEF HashtableGet
    <3>2. result' \in -1..MaxCount
      BY <3>1, HashtableAssumption
    <3> QED BY <2>1, <3>1, <3>2, Scan
  <2>2. CASE Places(v) # {}
    <3>1. PICK f : f = First(v)
      OBVIOUS
    <3>2. PICK xs : xs = buckets[Hash(v) % size].inputs
      OBVIOUS
    <3>3. result' = xs[f].count
      BY <2>2, <3>1, <3>2 DEF HashtableGet, Bucket
    <3>4. FoundAt(buckets, size, v, f)
      BY <2>2, <3>1, Scan
    <3>5. CountsAt(buckets, size, v) # <<>> /\ CountsAt(buckets, size, v)[1] = xs[f].count
      BY <1>1, <3>2, <3>4, ScanCounts
    <3>6. xs[f].count \in 0..MaxCount
      <4>1. xs \in Rows
        <5>1. Hash(v) % size \in 0..(size - 1)
          BY <1>1, HashtableAssumption, IndexInBuffer
        <5> QED BY <1>1, <3>2, <5>1, SoundBucket
      <4>2. xs[f] \in Tagged
        BY <3>2, <3>4, <4>1 DEF FoundAt, Rows
      <4> QED BY <4>2, TaggedInput
    <3>7. result' \in -1..MaxCount
      BY <3>3, <3>6, HashtableAssumption
    <3> QED BY <3>3, <3>5, <3>7
  <2> QED BY <2>1, <2>2
<1>4. HashtableInv'
  BY <1>1, <1>2, <1>3 DEF HashtableInv, TypeOK
<1> QED BY <1>2, <1>3, <1>4

(* hashtable_remove() keeps the invariant, removes the first listing of    *)
(* the value and returns whether there was one.                            *)
LEMMA RemoveStep ==
  ASSUME HashtableInv, NEW v \in Value, HashtableRemove(v)
  PROVE  /\ HashtableInv'
         /\ \/ /\ CountsAt(buckets, size, v) = <<>> /\ result' = 0
               /\ Lists(buckets, size, buckets', size')
            \/ /\ CountsAt(buckets, size, v) # <<>> /\ result' = 1
               /\ CountsAt(buckets', size', v) = Tail(CountsAt(buckets, size, v))
               /\ \A w \in Value : w # v =>
                    CountsAt(buckets', size', w) = CountsAt(buckets, size, w)
<1>1. /\ size \in Nat \ {0} /\ buckets \in SoundBuckets(size)
      /\ length \in Int /\ length <= Total(buckets, size) /\ TypeOK
      /\ Total(buckets, size) \in Nat
  BY InvFacts DEF HashtableInv
<1>2. CASE Places(v) = {}
  <2>1. UNCHANGED <<size, buckets, length>> /\ result' = 0
    BY <1>2 DEF HashtableRemove
  <2>2. HashtableInv'
    BY <1>1, <2>1, HashtableAssumption DEF HashtableInv, TypeOK
  <2> QED BY <1>2, <2>1, <2>2, Scan DEF Lists
<1>3. CASE Places(v) # {}
  <2>1. PICK f : f = First(v)
    OBVIOUS
  <2>2. PICK i : i = Hash(v) % size
    OBVIOUS
  <2>3. PICK cs : cs = buckets'
    OBVIOUS
  <2>4. /\ cs = [buckets EXCEPT ![i].inputs = RemoveAt(@, f)]
        /\ result' = 1 /\ size' = size /\ length' = length - 1
    BY <1>3, <2>1, <2>2, <2>3 DEF HashtableRemove, Bucket
  <2>5. FoundAt(buckets, size, v, f)
    BY <1>3, <2>1, Scan
  <2>6. Removed(buckets, cs, size, v)
    BY <1>1, <2>2, <2>4, <2>5, RemoveEdit
  <2>7. cs \in SoundBuckets(size) /\ Total(cs, size) = Total(buckets, size) - 1
    BY <2>6 DEF Removed
  <2>8. HashtableInv'
    <3>1. cs \in [0..(size - 1) -> BucketType]
      BY <1>1, <2>7, SoundTyped
    <3>2. TypeOK'
      BY <1>1, <2>3, <2>4, <3>1 DEF TypeOK
    <3>3. length' <= Total(cs, size)
      BY <1>1, <2>4, <2>7
    <3> QED BY <1>1, <2>3, <2>4, <2>7, <3>2, <3>3 DEF HashtableInv
  <2>9. CountsAt(buckets, size, v) # <<>>
    BY <1>1, <2>5, ScanCounts
  <2> QED BY <2>3, <2>4, <2>6, <2>8, <2>9 DEF Removed
<1> QED BY <1>2, <1>3

(* The invariant is inductive.                                             *)
LEMMA HashtableInvariance == Spec => []HashtableInv
<1>1. Init => HashtableInv
  BY HashtableInit
<1>2. HashtableInv /\ [Next]_vars => HashtableInv'
  <2> SUFFICES ASSUME HashtableInv, [Next]_vars PROVE HashtableInv'
    OBVIOUS
  <2>1. ASSUME NEW v \in Value, HashtablePut(v) PROVE HashtableInv'
    BY <2>1, PutStep
  <2>2. ASSUME NEW v \in Value, HashtableIncrement(v) PROVE HashtableInv'
    BY <2>2, IncrementStep
  <2>3. ASSUME NEW v \in Value, HashtableGet(v) PROVE HashtableInv'
    BY <2>3, GetStep
  <2>4. ASSUME NEW v \in Value, HashtableRemove(v) PROVE HashtableInv'
    BY <2>4, RemoveStep
  <2>5. CASE UNCHANGED vars
    BY <2>5 DEF vars, HashtableInv, TypeOK
  <2> QED BY <2>1, <2>2, <2>3, <2>4, <2>5 DEF Next
<1> QED BY <1>1, <1>2, PTL DEF Spec

(* Every variable of the table has its type.                               *)
THEOREM HashtableTyped == Spec => []TypeOK
<1>1. HashtableInv => TypeOK
  BY DEF HashtableInv
<1> QED BY <1>1, HashtableInvariance, PTL

(* No scan of hashtable.c looks in the wrong bucket: every input is where  *)
(* its hash and the present size lead to, after any number of doublings    *)
(* and removals.                                                           *)
THEOREM HashtableWellPlaced == Spec => []WellPlaced
<1>1. HashtableInv => WellPlaced
  BY DEF HashtableInv, SoundBuckets, Placed, WellPlaced
<1> QED BY <1>1, HashtableInvariance, PTL

(* bucket_toss() and rehash() never write behind the end of a bucket.      *)
THEOREM HashtableWithinBuffers == Spec => []WithinBuffers
<1>1. HashtableInv => WithinBuffers
  BY DEF HashtableInv, SoundBuckets, Fits, WithinBuffers
<1> QED BY <1>1, HashtableInvariance, PTL

(* The length, which decides on the doubling, never counts an input that   *)
(* is not there, although bucket_toss() does not always count.             *)
THEOREM HashtableNeverOvercounts == Spec => []NeverOvercounts
<1>1. HashtableInv => NeverOvercounts
  BY InvFacts DEF NeverOvercounts
<1> QED BY <1>1, HashtableInvariance, PTL

-----------------------------------------------------------------------------
(* The listing that CountTable is about, in the state and in the next one. *)
LEMMA CountsAre ==
  /\ \A w : CountsOf(w) = CountsAt(buckets, size, w)
  /\ \A w : CountsOf(w)' = CountsAt(buckets', size', w)
PROOF BY DEF CountsOf, CountsAt, Counts, Inputs

(* The listing of all values, in the state and in the next one.            *)
ListingOf(bs, s) == [v \in Value |-> CountsAt(bs, s, v)]

(* Every step of the table is the step of CountTable of the same name.     *)
LEMMA TableStep ==
  ASSUME HashtableInv, Next
  PROVE  Table!Next
<1>1. PICK c : c = ListingOf(buckets, size)
  OBVIOUS
<1>2. PICK d : d = ListingOf(buckets', size')
  OBVIOUS
<1>3. /\ [v \in Value |-> CountsOf(v)] = c
      /\ [v \in Value |-> CountsOf(v)]' = d
  <2>1. [v \in Value |-> CountsOf(v)] = c
    BY <1>1, CountsAre DEF ListingOf
  <2>2. [v \in Value |-> CountsOf(v)]' = [v \in Value |-> CountsAt(buckets', size', v)]
    BY DEF CountsOf, CountsAt, Counts, Inputs
  <2> QED BY <1>2, <2>1, <2>2 DEF ListingOf
<1>4. /\ \A w \in Value : c[w] = CountsAt(buckets, size, w)
      /\ \A w \in Value : d[w] = CountsAt(buckets', size', w)
      /\ c = [w \in Value |-> c[w]] /\ d = [w \in Value |-> d[w]]
  BY <1>1, <1>2 DEF ListingOf
<1>5. ASSUME NEW v \in Value, HashtablePut(v) PROVE Table!Put(v)
  <2>1. d[v] = Append(c[v], 0) /\ \A w \in Value : w # v => d[w] = c[w]
    BY <1>4, <1>5, PutStep
  <2>2. d = [c EXCEPT ![v] = Append(@, 0)]
    BY <1>4, <2>1
  <2>3. result' = 0
    BY <1>5 DEF HashtablePut
  <2> QED BY <1>3, <2>2, <2>3 DEF Table!Put, Table!WithPut
<1>6. ASSUME NEW v \in Value, HashtableIncrement(v) PROVE Table!Increment(v)
  <2>1. CASE c[v] = <<>>
    <3>1. result' = 0 /\ \A w \in Value : d[w] = c[w]
      BY <1>4, <1>6, <2>1, IncrementStep DEF Lists
    <3>2. d = c
      BY <1>4, <3>1
    <3> QED BY <1>3, <2>1, <3>1, <3>2
            DEF Table!Increment, Table!WithIncrement, Table!Found, Table!Listed
  <2>2. CASE c[v] # <<>>
    <3>1. /\ result' = 1 /\ d[v] = [c[v] EXCEPT ![1] = @ + 1]
          /\ \A w \in Value : w # v => d[w] = c[w]
      BY <1>4, <1>6, <2>2, IncrementStep
    <3>2. d = [c EXCEPT ![v][1] = @ + 1]
      BY <1>4, <3>1
    <3> QED BY <1>3, <2>2, <3>1, <3>2
            DEF Table!Increment, Table!WithIncrement, Table!Found, Table!Listed
  <2> QED BY <2>1, <2>2
<1>7. ASSUME NEW v \in Value, HashtableGet(v) PROVE Table!Get(v)
  <2>1. /\ UNCHANGED <<size, buckets>>
        /\ result' = IF c[v] # <<>> THEN c[v][1] ELSE -1
    BY <1>4, <1>7, GetStep
  <2>2. d = c
    BY <1>1, <1>2, <2>1
  <2> QED BY <1>3, <2>1, <2>2 DEF Table!Get, Table!Listed
<1>8. ASSUME NEW v \in Value, HashtableRemove(v) PROVE Table!Remove(v)
  <2>1. CASE c[v] = <<>>
    <3>1. result' = 0 /\ \A w \in Value : d[w] = c[w]
      BY <1>4, <1>8, <2>1, RemoveStep DEF Lists
    <3>2. d = c
      BY <1>4, <3>1
    <3> QED BY <1>3, <2>1, <3>1, <3>2
            DEF Table!Remove, Table!WithRemove, Table!Found, Table!Listed
  <2>2. CASE c[v] # <<>>
    <3>1. /\ result' = 1 /\ d[v] = Tail(c[v])
          /\ \A w \in Value : w # v => d[w] = c[w]
      BY <1>4, <1>8, <2>2, RemoveStep
    <3>2. d = [c EXCEPT ![v] = Tail(@)]
      BY <1>4, <3>1
    <3> QED BY <1>3, <2>2, <3>1, <3>2
            DEF Table!Remove, Table!WithRemove, Table!Found, Table!Listed
  <2> QED BY <2>1, <2>2
<1> QED BY <1>5, <1>6, <1>7, <1>8 DEF Next, Table!Next

(* hashtable.c implements the table of counts: for any hash function and   *)
(* any sizes, every call returns what CountTable's returns, and doubling   *)
(* the table or a bucket, and removing from the middle of one, are not to  *)
(* be seen.                                                                *)
THEOREM HashtableCounts == Spec => ImplementsTable
<1>1. Init => Table!Init
  <2> SUFFICES ASSUME Init PROVE Table!Init
    OBVIOUS
  <2>1. \A w \in Value : CountsOf(w) = <<>>
    BY HashtableInit, CountsAre
  <2>2. result = 0
    BY DEF Init
  <2> QED BY <2>1, <2>2 DEF Table!Init, Table!Unlisted
<1>2. HashtableInv /\ [Next]_vars => [Table!Next]_(Table!vars)
  <2>1. ASSUME HashtableInv, Next PROVE Table!Next
    BY <2>1, TableStep
  <2>2. ASSUME UNCHANGED vars PROVE UNCHANGED Table!vars
    BY <2>2 DEF vars, Table!vars, CountsOf, Inputs
  <2> QED BY <2>1, <2>2
<1> QED BY <1>1, <1>2, HashtableInvariance, PTL DEF Spec, ImplementsTable, Table!Spec
=============================================================================
