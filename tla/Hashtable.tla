----------------------------- MODULE Hashtable ------------------------------
(***************************************************************************)
(* hashtable.c: the table that lists the spammers, the vulnerable ports or *)
(* the evil hashes.  Every operation runs under the table's lock and only  *)
(* core 2 calls them, so an operation is one step.                         *)
(*                                                                         *)
(* The insertion counter, which only an unused print reads, and the input  *)
(* that every hashtable_put() allocates and never frees are left out.      *)
(*                                                                         *)
(* A definition marked "Deviation" is no part of the specification: it is  *)
(* the one that follows it with a mistake, which a property has to catch.  *)
(***************************************************************************)
EXTENDS Integers, Sequences, SequencesExt

CONSTANTS
  Value,           \* the values put, counted and removed
  Hash(_),         \* hasher(), as the unsigned number the index is taken from
  HASHTABLE_SIZE,  \* the buckets of a new table
  BUCKET_SIZE,     \* the inputs a new bucket has room for
  WORD,            \* the length is read modulo WORD (2^32)
  MaxEntries,      \* bound: no put into a table of as many inputs
  MaxSize,         \* bound: no put that makes a table of more buckets
  MaxCount         \* bound: no increment beyond this count

ASSUME HashtableAssumption ==
  /\ HASHTABLE_SIZE \in Nat \ {0}
  /\ BUCKET_SIZE \in Nat \ {0}
  /\ WORD \in Nat
  /\ MaxEntries \in Nat /\ MaxEntries < WORD
  /\ MaxSize \in Nat /\ HASHTABLE_SIZE <= MaxSize
  /\ MaxCount \in Nat
  /\ \A v \in Value : Hash(v) \in Nat

VARIABLES
  size,     \* self->size
  buckets,  \* self->buffer
  length,   \* self->length
  result    \* what the last call returned; 0 for hashtable_put()

vars == <<size, buckets, length, result>>

-----------------------------------------------------------------------------
input_create(v) == [value |-> v, count |-> 0, my_hash |-> Hash(v)]

(* bucket_create(), for every bucket of a buffer *)
EmptyBuckets(s) == [i \in 0..(s - 1) |-> [inputs |-> <<>>, bucket_size |-> BUCKET_SIZE]]

Init ==
  /\ size = HASHTABLE_SIZE
  /\ buckets = EmptyBuckets(HASHTABLE_SIZE)
  /\ length = 0
  /\ result = 0

(* bucket_toss() doubles a full bucket, and then returns 0. *)
Full(b) == Len(b.inputs) + 1 > b.bucket_size

(* Deviation: a bucket is doubled one input too late. *)
BucketTossLate(b, x) ==
  [inputs      |-> Append(b.inputs, x),
   bucket_size |-> IF Len(b.inputs) > b.bucket_size THEN 2 * b.bucket_size
                                                    ELSE b.bucket_size]

BucketToss(b, x) ==
  [inputs      |-> Append(b.inputs, x),
   bucket_size |-> IF Full(b) THEN 2 * b.bucket_size ELSE b.bucket_size]

(* The inputs of the first of s buckets, in the order of the rehashing. *)
InputsBelow(bs, s) ==
  LET below[n \in 0..s] == IF n = 0 THEN <<>> ELSE below[n - 1] \o bs[n - 1].inputs
  IN  below

Inputs == InputsBelow(buckets, size)[size]

rehash(bs, s, x) == [bs EXCEPT ![x.my_hash % s] = BucketToss(@, x)]

(* The buckets once the first inputs of a sequence are rehashed into them. *)
Rehashed(bs, s, xs) ==
  LET rehashed[n \in 0..Len(xs)] == IF n = 0 THEN bs ELSE rehash(rehashed[n - 1], s, xs[n])
  IN  rehashed

(* Deviation: the inputs are rehashed before the new size is stored. *)
ResizedStale == Rehashed(EmptyBuckets(2 * size), size, Inputs)[Len(Inputs)]

(* Deviation: the buckets are rehashed from their ends. *)
ResizedBackwards ==
  Rehashed(EmptyBuckets(2 * size), 2 * size, Reverse(Inputs))[Len(Inputs)]

(* The buffer of twice the size, every input rehashed into it. *)
Resized == Rehashed(EmptyBuckets(2 * size), 2 * size, Inputs)[Len(Inputs)]

(* (length + 1) / (float) size > LOAD_FACTOR, of an unsigned length *)
Overloaded == 4 * ((length + 1) % WORD) > 3 * size

Bucket(v) == Hash(v) % size

(* The places of a value in its bucket.  A scan stops at the first one. *)
Places(v) == {j \in 1..Len(buckets[Bucket(v)].inputs) :
                buckets[Bucket(v)].inputs[j].value = v}

First(v) == CHOOSE j \in Places(v) : \A k \in Places(v) : j <= k

-----------------------------------------------------------------------------
(* hashtable_put(): there is no test whether the value is listed already,  *)
(* and an input that makes its bucket grow does not add to the length.     *)
HashtablePut(v) ==
  LET x  == input_create(v)
      s  == IF Overloaded THEN 2 * size ELSE size
      bs == IF Overloaded THEN Resized ELSE buckets
      i  == x.my_hash % s
  IN  /\ Len(Inputs) < MaxEntries
      /\ s <= MaxSize
      /\ size' = s
      /\ buckets' = [bs EXCEPT ![i] = BucketToss(@, x)]
      /\ length' = IF Full(bs[i]) THEN length ELSE length + 1
      /\ result' = 0

(* hashtable_increment(): returns whether the value is listed *)
HashtableIncrement(v) ==
  IF Places(v) = {}
  THEN /\ result' = 0
       /\ UNCHANGED <<size, buckets, length>>
  ELSE /\ buckets[Bucket(v)].inputs[First(v)].count < MaxCount
       /\ buckets' = [buckets EXCEPT ![Bucket(v)].inputs[First(v)].count = @ + 1]
       /\ result' = 1
       /\ UNCHANGED <<size, length>>

(* Deviation: the value is returned instead of its count, as it once was. *)
HashtableGetValue(v) ==
  /\ result' = IF Places(v) = {} THEN -1 ELSE v
  /\ UNCHANGED <<size, buckets, length>>

(* hashtable_get() *)
HashtableGet(v) ==
  /\ result' = IF Places(v) = {} THEN -1
               ELSE buckets[Bucket(v)].inputs[First(v)].count
  /\ UNCHANGED <<size, buckets, length>>

(* Deviation: removing does not touch the length. *)
HashtableRemoveUncounted(v) ==
  IF Places(v) = {}
  THEN /\ result' = 0
       /\ UNCHANGED <<size, buckets, length>>
  ELSE /\ buckets' = [buckets EXCEPT ![Bucket(v)].inputs = RemoveAt(@, First(v))]
       /\ result' = 1
       /\ UNCHANGED <<size, length>>

(* hashtable_remove(): moves the inputs behind the removed one up *)
HashtableRemove(v) ==
  IF Places(v) = {}
  THEN /\ result' = 0
       /\ UNCHANGED <<size, buckets, length>>
  ELSE /\ buckets' = [buckets EXCEPT ![Bucket(v)].inputs = RemoveAt(@, First(v))]
       /\ length' = length - 1
       /\ result' = 1
       /\ UNCHANGED size

Next ==
  \E v \in Value :
    HashtablePut(v) \/ HashtableIncrement(v) \/ HashtableGet(v) \/ HashtableRemove(v)

Spec == Init /\ [][Next]_vars

-----------------------------------------------------------------------------
Input == [value : Value, count : 0..MaxCount, my_hash : {Hash(v) : v \in Value}]

BucketType == [inputs : Seq(Input), bucket_size : Nat \ {0}]

(* Every variable has its type. *)
TypeOK ==
  /\ size \in 1..MaxSize
  /\ buckets \in [0..(size - 1) -> BucketType]
  /\ length \in Int
  /\ result \in -1..MaxCount \cup {1}

(* Every input is in the bucket its hash and the present size lead to: no  *)
(* scan looks in the wrong bucket after the table was doubled.             *)
WellPlaced ==
  \A i \in 0..(size - 1) : \A j \in 1..Len(buckets[i].inputs) :
    Hash(buckets[i].inputs[j].value) % size = i

(* No bucket holds more inputs than its buffer was allocated for.          *)
WithinBuffers ==
  \A i \in 0..(size - 1) : Len(buckets[i].inputs) <= buckets[i].bucket_size

(* The length never counts an input that is not there, so the table is     *)
(* never doubled too early as long as the length is not negative.          *)
NeverOvercounts == length <= Len(Inputs)

(* Doubling the table or a bucket, and removing from the middle of a       *)
(* bucket, are invisible: what is listed, with which counts, and in which  *)
(* order a value that was put twice is counted and removed.                *)
CountsIn(xs, v) ==
  LET counts[n \in 0..Len(xs)] ==
        IF n = 0 THEN <<>>
        ELSE IF xs[n].value = v THEN Append(counts[n - 1], xs[n].count) ELSE counts[n - 1]
  IN  counts

CountsOf(v) == CountsIn(Inputs, v)[Len(Inputs)]

Table == INSTANCE CountTable WITH counts <- [v \in Value |-> CountsOf(v)]

ImplementsTable == Table!Spec

(* The table is doubled when the inputs, with the new one, are more than   *)
(* LOAD_FACTOR = 0.75 of its buckets ("if we must double the size").       *)
DoublesWhenLoaded == [][size' # size => 4 * (Len(Inputs) + 1) > 3 * size]_vars
=============================================================================
