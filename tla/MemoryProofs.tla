---------------------------- MODULE MemoryProofs -----------------------------
(***************************************************************************)
(* The allocator of Memory.tla keeps its types, whatever is asked of it.   *)
(* What callers see is proved from one invariant: every page is used for   *)
(* one thing, and a page that is in use with one before it for nothing     *)
(* else.  It holds as long as the pages that alloc_pages() finds are free: *)
(* always when they are one, and when they are several and follow the hint.*)
(***************************************************************************)
EXTENDS Memory, NumberFacts, TLAPS

-----------------------------------------------------------------------------
(* The sizes of pieces.                                                    *)

(* The equations of blocksize. *)
LEMMA BlocksizeEquations ==
  /\ blocksize[0] = 1
  /\ \A n \in 0..(MAX_BLOCKSIZE2 - 1) : blocksize[n + 1] = 2 * blocksize[n]
  /\ \A n \in 0..MAX_BLOCKSIZE2 : blocksize[n] \in Nat
<1> DEFINE N == MAX_BLOCKSIZE2
           X == Nat
           step == [n \in 1..N |-> [x \in X |-> 2 * x]]
           eq(f) == [c \in 0..N |-> IF c = 0 THEN 1 ELSE 2 * f[c - 1]]
           all == CHOOSE f : f = eq(f)
<1>1. N \in Nat
  BY MemoryAssumption
<1>2. blocksize = all
  BY DEF blocksize
<1>3. \E f : f = eq(f)
  <2>1. step \in [1..N -> [X -> X]]
    OBVIOUS
  <2>2. PICK one : one = 1
    OBVIOUS
  <2>3. PICK f \in [0..N -> X] :
          \A n \in 0..N : f[n] = IF n = 0 THEN one ELSE step[n][f[n - 1]]
    <3>1. one \in X
      BY <2>2
    <3> HIDE DEF step, N, X
    <3>2. \E f : IsRecursive(f, N, X, one, step)
      BY <1>1, <2>1, <3>1, IntervalRecursion DEF X
    <3> QED BY <3>2 DEF IsRecursive
  <2>4. ASSUME NEW n \in 0..N
        PROVE  f[n] = IF n = 0 THEN 1 ELSE 2 * f[n - 1]
    <3>1. CASE n = 0
      BY <2>2, <2>3, <3>1
    <3>2. CASE n # 0
      <4>1. n \in 1..N /\ n - 1 \in 0..N
        BY <1>1, <3>2
      <4>2. f[n - 1] \in X
        BY <2>3, <4>1
      <4> QED BY <2>3, <3>2, <4>1, <4>2
    <3> QED BY <3>1, <3>2
  <2>5. f = eq(f)
    BY <2>3, <2>4
  <2> QED BY <2>5
<1>4. blocksize = eq(blocksize)
  <2> HIDE DEF eq
  <2>1. all = eq(all)
    BY <1>3
  <2> QED BY <1>2, <2>1
<1>5. \A n \in 0..N : blocksize[n] = IF n = 0 THEN 1 ELSE 2 * blocksize[n - 1]
  BY <1>4
<1>6. blocksize[0] = 1 /\ \A n \in 0..(N - 1) : blocksize[n + 1] = 2 * blocksize[n]
  BY <1>1, <1>5
<1>7. \A n \in 0..N : blocksize[n] \in Nat
  <2> DEFINE S == {n \in Nat : blocksize[n] \in Nat}
  <2>1. 0 \in S
    BY <1>6
  <2>2. \A n \in 0..(N - 1) : n \in S => n + 1 \in S
    BY <1>1, <1>6
  <2>3. \A n \in 0..N : n \in S
    <3> HIDE DEF S, N
    <3> QED BY <1>1, <2>1, <2>2, IntervalInduction
  <2> QED BY <2>3
<1> QED BY <1>6, <1>7

(* The sizes of pieces grow with their class. *)
LEMMA BlocksizeGrows ==
  \A n \in 0..MAX_BLOCKSIZE2 : \A m \in 0..n : 1 <= blocksize[m] /\ blocksize[m] <= blocksize[n]
<1> DEFINE N == MAX_BLOCKSIZE2
           S == {n \in Nat : \A m \in 0..n : 1 <= blocksize[m] /\ blocksize[m] <= blocksize[n]}
<1>1. N \in Nat
  BY MemoryAssumption
<1>2. 0 \in S
  BY <1>1, BlocksizeEquations
<1>3. ASSUME NEW n \in 0..(N - 1), n \in S PROVE n + 1 \in S
  <2>1. blocksize[n] \in Nat /\ blocksize[n + 1] = 2 * blocksize[n]
    BY <1>1, BlocksizeEquations
  <2>2. 1 <= blocksize[n]
    BY <1>3
  <2>3. ASSUME NEW m \in 0..(n + 1)
        PROVE  1 <= blocksize[m] /\ blocksize[m] <= blocksize[n + 1]
    <3>1. CASE m = n + 1
      BY <2>1, <2>2, <3>1
    <3>2. CASE m # n + 1
      <4>1. m \in 0..n /\ m \in 0..N
        BY <1>1, <3>2
      <4>2. blocksize[m] \in Nat
        BY <4>1, BlocksizeEquations
      <4> QED BY <1>3, <2>1, <4>1, <4>2
    <3> QED BY <3>1, <3>2
  <2> QED BY <2>3
<1>4. \A n \in 0..N : n \in S
  <2> HIDE DEF S, N
  <2> QED BY <1>1, <1>2, <1>3, IntervalInduction
<1> QED BY <1>4

(* The sizes of pieces lie between those of the accounting data and half   *)
(* a page.                                                                 *)
LEMMA ClassSizes ==
  ASSUME NEW c \in Class
  PROVE  /\ blocksize[c] \in Nat \ {0}
         /\ BIGBLOCK_INFO <= blocksize[MIN_BLOCKSIZE2]
         /\ blocksize[MIN_BLOCKSIZE2] \in Nat
         /\ blocksize[MIN_BLOCKSIZE2] <= blocksize[c]
         /\ blocksize[c] <= blocksize[MAX_BLOCKSIZE2]
         /\ blocksize[MAX_BLOCKSIZE2] \in Nat
         /\ 2 * blocksize[MAX_BLOCKSIZE2] <= PAGE_SIZE
<1>1. /\ MIN_BLOCKSIZE2 \in Nat /\ MAX_BLOCKSIZE2 \in Nat
      /\ MIN_BLOCKSIZE2 <= c /\ c <= MAX_BLOCKSIZE2 /\ c \in Nat
  BY MemoryAssumption DEF Class
<1>2. /\ c \in 0..MAX_BLOCKSIZE2 /\ MIN_BLOCKSIZE2 \in 0..c /\ c \in 0..c
      /\ MAX_BLOCKSIZE2 \in 0..MAX_BLOCKSIZE2 /\ MIN_BLOCKSIZE2 \in 0..MAX_BLOCKSIZE2
  BY <1>1
<1>3. /\ blocksize[c] \in Nat /\ blocksize[MIN_BLOCKSIZE2] \in Nat
      /\ blocksize[MAX_BLOCKSIZE2] \in Nat
  BY <1>2, BlocksizeEquations
<1>4. /\ 1 <= blocksize[c] /\ blocksize[MIN_BLOCKSIZE2] <= blocksize[c]
      /\ blocksize[c] <= blocksize[MAX_BLOCKSIZE2]
  BY <1>2, BlocksizeGrows
<1> QED BY <1>3, <1>4, MemoryAssumption

-----------------------------------------------------------------------------
(* Addresses.                                                              *)

(* A page has at least two bytes, and the constants are numbers. *)
LEMMA Sizes ==
  /\ PAGES \in Nat \ {0} /\ FIRST_PAGE \in Nat /\ KSEG \in Nat
  /\ PAGE_SIZE \in Nat /\ PAGE_SIZE >= 2
  /\ BIGBLOCK_INFO \in Nat \ {0} /\ 2 * BIGBLOCK_INFO <= PAGE_SIZE
  /\ TRAP_PAGES \in Nat \ {0} /\ TRAP_PAGES <= PAGES
  /\ Page \subseteq Nat
<1>1. MIN_BLOCKSIZE2 \in Class
  BY MemoryAssumption DEF Class
<1>2. /\ blocksize[MIN_BLOCKSIZE2] \in Nat \ {0} /\ BIGBLOCK_INFO <= blocksize[MIN_BLOCKSIZE2]
      /\ blocksize[MIN_BLOCKSIZE2] <= blocksize[MAX_BLOCKSIZE2]
      /\ blocksize[MAX_BLOCKSIZE2] \in Nat
      /\ 2 * blocksize[MAX_BLOCKSIZE2] <= PAGE_SIZE
  BY <1>1, ClassSizes
<1> QED BY <1>2, MemoryAssumption DEF Page

(* Where a page starts. *)
LEMMA AddressTyped ==
  ASSUME NEW p \in Nat
  PROVE  /\ Address(p) \in Nat
         /\ Address(p) >= KSEG
         /\ \A n \in Nat : Address(p + n) = Address(p) + n * PAGE_SIZE
<1>1. PAGE_SIZE \in Nat /\ FIRST_PAGE + p \in Nat /\ FIRST_PAGE \in Nat /\ KSEG \in Nat
  BY Sizes
<1>2. (FIRST_PAGE + p) * PAGE_SIZE \in Nat
  BY <1>1
<1>3. Address(p) = KSEG + (FIRST_PAGE + p) * PAGE_SIZE
  BY DEF Address, physical_to_virtual
<1>4. ASSUME NEW n \in Nat PROVE Address(p + n) = Address(p) + n * PAGE_SIZE
  <2>1. (FIRST_PAGE + (p + n)) * PAGE_SIZE = (FIRST_PAGE + p) * PAGE_SIZE + n * PAGE_SIZE
    BY <1>1, SMT
  <2>2. Address(p + n) = KSEG + (FIRST_PAGE + (p + n)) * PAGE_SIZE
    BY DEF Address, physical_to_virtual
  <2> DEFINE a == (FIRST_PAGE + (p + n)) * PAGE_SIZE
             b == (FIRST_PAGE + p) * PAGE_SIZE
             d == n * PAGE_SIZE
  <2>3. a \in Int /\ b \in Int /\ d \in Int
    BY <1>1
  <2>4. a = b + d /\ Address(p + n) = KSEG + a /\ Address(p) = KSEG + b
    BY <1>3, <2>1, <2>2
  <2> HIDE DEF a, b, d
  <2>5. Address(p + n) = Address(p) + d
    BY <1>1, <2>3, <2>4
  <2> QED BY <2>5 DEF d
<1> QED BY <1>1, <1>2, <1>3, <1>4

(* The page of an address, and where that page starts. *)
LEMMA AddressInPage ==
  ASSUME NEW p \in Nat, NEW k \in 0..(PAGE_SIZE - 1)
  PROVE  /\ PageAt(Address(p) + k) = p
         /\ PageBoundary(Address(p) + k) = Address(p)
         /\ virtual_to_physical(Address(p)) % PAGE_SIZE = 0
<1> DEFINE n == FIRST_PAGE + p
           a == n * PAGE_SIZE
           base == KSEG \div PAGE_SIZE
<1>1. PAGE_SIZE \in Nat \ {0} /\ FIRST_PAGE \in Nat /\ KSEG \in Nat /\ n \in Nat /\ k \in Int
  BY Sizes
<1>2. a \in Int /\ a = PAGE_SIZE * n
  BY <1>1, SMT
<1>3. Address(p) = KSEG + a
  BY DEF Address, physical_to_virtual
<1>4. KSEG = PAGE_SIZE * base /\ base \in Int
  BY <1>1, MemoryAssumption, SMT
<1> HIDE DEF n, a, base
<1>5. PageAt(Address(p) + k) = p
  <2>0. PICK y : y = virtual_to_physical(Address(p) + k)
    OBVIOUS
  <2>1. y \in Int /\ y = PAGE_SIZE * n + k
    BY <1>1, <1>2, <1>3, <2>0 DEF virtual_to_physical
  <2>2. y \div PAGE_SIZE = n
    BY <1>1, <2>1, Quotient
  <2>3. PageAt(Address(p) + k) = n - FIRST_PAGE
    BY <2>0, <2>2, Zenon DEF PageAt
  <2> QED BY <1>1, <2>3 DEF n
<1>6. PageBoundary(Address(p) + k) = Address(p)
  <2> DEFINE y == Address(p) + k
             q == base + n
  <2>1. y \in Int /\ q \in Int
    BY <1>1, <1>2, <1>3, <1>4
  <2>2. PAGE_SIZE * q = PAGE_SIZE * base + PAGE_SIZE * n
    BY <1>1, <1>4, SMT
  <2>3. y = PAGE_SIZE * q + k
    BY <1>1, <1>2, <1>3, <1>4, <2>2
  <2> HIDE DEF y, q
  <2>4. y % PAGE_SIZE = k
    BY <1>1, <2>1, <2>3, Remainder
  <2>5. PageBoundary(y) = y - k
    BY <2>4 DEF PageBoundary
  <2> QED BY <1>1, <1>2, <1>3, <2>5 DEF y
<1>7. virtual_to_physical(Address(p)) % PAGE_SIZE = 0
  <2>0. PICK z : z = 0
    OBVIOUS
  <2>1. a \in Int /\ a = PAGE_SIZE * n + z /\ z \in 0..(PAGE_SIZE - 1) /\ n \in Int
    BY <1>1, <1>2, <2>0
  <2>2. a % PAGE_SIZE = z
    BY <1>1, <2>1, Remainder
  <2>3. virtual_to_physical(Address(p)) = a
    BY <1>1, <1>2, <1>3 DEF virtual_to_physical
  <2> QED BY <2>0, <2>2, <2>3
<1> QED BY <1>5, <1>6, <1>7

-----------------------------------------------------------------------------
(* The search for free pages.                                              *)

(* The page looked at in a round. *)
LEMMA EndTyped ==
  ASSUME page_alloc_hint \in Page, NEW i \in Page
  PROVE  /\ End(i) \in Page
         /\ End(i) = IF page_alloc_hint + i < PAGES THEN page_alloc_hint + i
                     ELSE page_alloc_hint + i - PAGES
<1>1. PAGES \in Nat \ {0}
  BY Sizes
<1>2. PICK h : h = page_alloc_hint
  OBVIOUS
<1>3. h \in Int /\ 0 <= h /\ h < PAGES /\ i \in Int /\ 0 <= i /\ i < PAGES
  BY <1>1, <1>2 DEF Page
<1>4. CASE h + i < PAGES
  <2>1. (h + i) % PAGES = h + i
    BY <1>1, <1>3, <1>4
  <2> QED BY <1>1, <1>2, <1>3, <1>4, <2>1 DEF End, Page
<1>5. CASE ~(h + i < PAGES)
  <2>1. PICK y, r, q : y = h + i /\ r = h + i - PAGES /\ q = 1
    OBVIOUS
  <2>2. y \in Int /\ q \in Int /\ r \in 0..(PAGES - 1) /\ y = PAGES * q + r
    BY <1>1, <1>3, <1>5, <2>1
  <2>3. y % PAGES = r
    BY <1>1, <2>2, Remainder
  <2> QED BY <1>1, <1>2, <1>3, <1>5, <2>1, <2>3 DEF End, Page
<1> QED BY <1>4, <1>5

(* The equations of Seen. *)
LEMMA SeenEquations ==
  ASSUME page_alloc_hint \in Page
  PROVE  \A i \in Page :
           /\ Seen[i] = (IF i = 0 \/ End(i) = 0 THEN 0 ELSE Seen[i - 1])
                        + (IF End(i) \in busy THEN 0 ELSE 1)
           /\ Seen[i] \in Nat
<1> DEFINE N == PAGES - 1
           own(i) == IF End(i) \in busy THEN 0 ELSE 1
           step == [n \in 1..N |-> [x \in Nat |-> (IF End(n) = 0 THEN 0 ELSE x) + own(n)]]
           eq(f) == [i \in Page |-> (IF i = 0 \/ End(i) = 0 THEN 0 ELSE f[i - 1]) + own(i)]
           all == CHOOSE f : f = eq(f)
<1>1. N \in Nat /\ Page = 0..N
  BY Sizes DEF Page
<1>2. Seen = all
  BY DEF Seen
<1>3. \A i : own(i) \in Nat
  OBVIOUS
<1> HIDE DEF own, N
<1>4. \E f : f = eq(f) /\ f \in [0..N -> Nat]
  <2>1. step \in [1..N -> [Nat -> Nat]] /\ own(0) \in Nat
    BY <1>3
  <2>2. PICK one : one = own(0)
    OBVIOUS
  <2>3. PICK f \in [0..N -> Nat] :
          \A n \in 0..N : f[n] = IF n = 0 THEN one ELSE step[n][f[n - 1]]
    <3>1. one \in Nat
      BY <1>3, <2>2
    <3> HIDE DEF step
    <3>2. \E f : IsRecursive(f, N, Nat, one, step)
      BY <1>1, <2>1, <3>1, IntervalRecursion
    <3> QED BY <3>2 DEF IsRecursive
  <2>4. ASSUME NEW n \in 0..N
        PROVE  f[n] = (IF n = 0 \/ End(n) = 0 THEN 0 ELSE f[n - 1]) + own(n)
    <3>1. CASE n = 0
      <4>1. f[0] = own(0) /\ own(0) \in Nat
        <5>1. 0 \in 0..N
          BY <1>1
        <5>2. f[0] = one
          BY <2>3, <5>1
        <5> QED BY <2>1, <2>2, <5>2, Zenon
      <4> QED BY <3>1, <4>1
    <3>2. CASE n # 0
      <4>1. n \in 1..N /\ n - 1 \in 0..N
        BY <1>1, <3>2
      <4>2. f[n - 1] \in Nat
        BY <2>3, <4>1
      <4>3. f[n] = step[n][f[n - 1]]
        BY <2>3, <3>2
      <4>4. step[n][f[n - 1]] = (IF End(n) = 0 THEN 0 ELSE f[n - 1]) + own(n)
        BY <4>1, <4>2
      <4> QED BY <3>2, <4>3, <4>4
    <3> QED BY <3>1, <3>2
  <2>5. f = eq(f)
    BY <1>1, <2>3, <2>4
  <2> QED BY <2>5
<1>5. Seen = eq(Seen)
  <2> HIDE DEF eq
  <2>1. all = eq(all)
    BY <1>4
  <2> QED BY <1>2, <2>1
<1>6. \A i \in Page : Seen[i] = (IF i = 0 \/ End(i) = 0 THEN 0 ELSE Seen[i - 1]) + own(i)
  BY <1>5
<1>7. \A i \in 0..N : Seen[i] \in Nat
  <2> DEFINE S == {n \in Nat : Seen[n] \in Nat}
  <2>1. 0 \in S
    BY <1>1, <1>3, <1>6
  <2>2. ASSUME NEW n \in 0..(N - 1), n \in S PROVE n + 1 \in S
    <3>1. n + 1 \in Page /\ n \in Nat /\ n + 1 # 0 /\ (n + 1) - 1 = n
      BY <1>1
    <3>2. Seen[n + 1] = (IF End(n + 1) = 0 THEN 0 ELSE Seen[n]) + own(n + 1)
      BY <1>6, <3>1
    <3>3. Seen[n + 1] \in Nat
      BY <1>3, <2>2, <3>2
    <3> QED BY <3>1, <3>3
  <2>3. \A n \in 0..N : n \in S
    <3> HIDE DEF S
    <3> QED BY <1>1, <2>1, <2>2, IntervalInduction
  <2> QED BY <2>3
<1> QED BY <1>1, <1>6, <1>7 DEF own

(* The pages in a row that were seen are not before the first one. *)
LEMMA SeenBounded ==
  ASSUME page_alloc_hint \in Page
  PROVE  \A i \in Page : Seen[i] <= End(i) + 1
<1> DEFINE N == PAGES - 1
           S == {n \in Nat : Seen[n] <= End(n) + 1}
<1>1. N \in Nat /\ Page = 0..N
  BY Sizes DEF Page
<1>2. 0 \in S
  <2>1. 0 \in Page
    BY <1>1
  <2>2. Seen[0] = 0 + (IF End(0) \in busy THEN 0 ELSE 1)
    BY <2>1, SeenEquations
  <2>3. End(0) \in Nat
    BY <2>1, EndTyped, Sizes
  <2> QED BY <2>2, <2>3
<1>3. ASSUME NEW n \in 0..(N - 1), n \in S PROVE n + 1 \in S
  <2>1. n + 1 \in Page /\ n \in Page /\ n \in Nat /\ (n + 1) - 1 = n /\ n + 1 # 0
    BY <1>1
  <2>2. /\ Seen[n + 1] = (IF End(n + 1) = 0 THEN 0 ELSE Seen[n])
                         + (IF End(n + 1) \in busy THEN 0 ELSE 1)
        /\ Seen[n] \in Nat
    BY <2>1, SeenEquations
  <2>3. End(n + 1) = 0 \/ End(n + 1) = End(n) + 1
    <3>1. PICK h : h = page_alloc_hint
      OBVIOUS
    <3>2. h \in Int /\ 0 <= h /\ h < PAGES /\ PAGES \in Nat
      BY <3>1, Sizes DEF Page
    <3>3. /\ End(n) = IF h + n < PAGES THEN h + n ELSE h + n - PAGES
          /\ End(n + 1) = IF h + (n + 1) < PAGES THEN h + (n + 1) ELSE h + (n + 1) - PAGES
      BY <2>1, <3>1, EndTyped
    <3>4. n \in Int /\ 0 <= n /\ n < PAGES
      BY <1>1, Sizes
    <3> QED BY <3>2, <3>3, <3>4
  <2>4. End(n) \in Nat /\ End(n + 1) \in Nat
    BY <2>1, EndTyped, Sizes
  <2>5. Seen[n + 1] <= End(n + 1) + 1
    BY <1>3, <2>2, <2>3, <2>4
  <2> QED BY <2>1, <2>5
<1>4. \A n \in 0..N : n \in S
  <2> HIDE DEF S, N
  <2> QED BY <1>1, <1>2, <1>3, IntervalInduction
<1> QED BY <1>1, <1>4

(* The least of a set of natural numbers. *)
LEMMA MinTyped ==
  ASSUME NEW T, T \subseteq Nat, T # {}
  PROVE  Min(T) \in T /\ \A y \in T : Min(T) <= y
<1>1. \E x \in T : \A y \in T : x <= y
  BY LeastNumber
<1> QED BY <1>1 DEF Min

(* The round that ends the search. *)
LEMMA FoundRound ==
  ASSUME page_alloc_hint \in Page, NEW count, Found(count)
  PROVE  \E i \in Page : /\ Seen[i] = count /\ LastOf(count) = End(i)
                         /\ \A j \in Page : Seen[j] = count => i <= j
<1>1. Rounds(count) \subseteq Nat /\ Rounds(count) # {}
  BY Sizes DEF Rounds, Found
<1>2. Min(Rounds(count)) \in Rounds(count) /\ \A j \in Rounds(count) : Min(Rounds(count)) <= j
  BY <1>1, MinTyped
<1>3. PICK i : i = Min(Rounds(count))
  OBVIOUS
<1>4. i \in Rounds(count) /\ \A j \in Rounds(count) : i <= j
  BY <1>2, <1>3
<1>5. LastOf(count) = End(i)
  BY <1>3 DEF LastOf
<1> QED BY <1>4, <1>5 DEF Rounds

(* The pages found are pages, and so is the next hint. *)
LEMMA FoundTyped ==
  ASSUME page_alloc_hint \in Page, NEW count, Found(count)
  PROVE  /\ count \in Nat /\ LastOf(count) \in Page /\ FirstOf(count) \in Nat
         /\ FirstOf(count) = LastOf(count) - count + 1
         /\ FirstOf(count)..LastOf(count) \subseteq Page
         /\ (LastOf(count) + 1) % PAGES \in Page
<1>1. PICK i \in Page : Seen[i] = count /\ LastOf(count) = End(i)
  BY FoundRound
<1>2. count \in Nat /\ count <= End(i) + 1 /\ End(i) \in Page
  BY <1>1, SeenEquations, SeenBounded, EndTyped
<1>3. PICK l : l = LastOf(count)
  OBVIOUS
<1>4. /\ PAGES \in Nat \ {0} /\ l \in Nat /\ l < PAGES /\ count <= l + 1
      /\ LastOf(count) \in Page
  BY <1>1, <1>2, <1>3, Sizes DEF Page
<1>5. FirstOf(count) = l - count + 1
  BY <1>3 DEF FirstOf
<1>6. FirstOf(count) \in Nat
  BY <1>2, <1>4, <1>5
<1>7. FirstOf(count)..l \subseteq Page
  BY <1>4, <1>6 DEF Page
<1>8. (l + 1) % PAGES \in Page
  BY <1>4 DEF Page
<1> QED BY <1>2, <1>3, <1>4, <1>5, <1>6, <1>7, <1>8

(* The last page that a search takes is free. *)
LEMMA LastIsFree ==
  ASSUME page_alloc_hint \in Page, NEW n \in Nat \ {0}, Found(n)
  PROVE  LastOf(n) \in Page \ busy
<1>1. PICK i \in Page : /\ Seen[i] = n /\ LastOf(n) = End(i)
                        /\ \A j \in Page : Seen[j] = n => i <= j
  BY FoundRound
<1>2. End(i) \in Page
  BY EndTyped
<1>3. End(i) \notin busy
  <2>1. SUFFICES ASSUME End(i) \in busy PROVE FALSE
    OBVIOUS
  <2>2. Seen[i] = (IF i = 0 \/ End(i) = 0 THEN 0 ELSE Seen[i - 1]) + 0
    BY <2>1, SeenEquations
  <2>3. i # 0
    BY <1>1, <2>2
  <2>4. i - 1 \in Page /\ i \in Nat
    BY <2>3, Sizes DEF Page
  <2>5. Seen[i - 1] \in Nat
    BY <2>4, SeenEquations
  <2>6. Seen[i - 1] = n
    BY <1>1, <2>2, <2>5
  <2> QED BY <1>1, <2>4, <2>6
<1> QED BY <1>1, <1>2, <1>3

(* A count that has passed n has been n: it goes up by one, or down to one *)
(* or nothing.                                                             *)
LEMMA CountReached ==
  ASSUME page_alloc_hint \in Page, NEW n \in Nat \ {0}, NEW k \in Page, Seen[k] >= n
  PROVE  Found(n)
<1> DEFINE T == {i \in Page : Seen[i] >= n}
<1>1. T # {} /\ T \subseteq Nat
  BY Sizes
<1> HIDE DEF T
<1>2. PICK i \in T : \A j \in T : i <= j
  BY <1>1, LeastNumber
<1> USE DEF T
<1>3. i \in Page /\ Seen[i] >= n /\ Seen[i] \in Nat
  BY <1>2, SeenEquations
<1>4. SUFFICES ASSUME Seen[i] # n PROVE FALSE
  BY <1>3 DEF Found, Rounds
<1>5. Seen[i] = (IF i = 0 \/ End(i) = 0 THEN 0 ELSE Seen[i - 1])
                + (IF End(i) \in busy THEN 0 ELSE 1)
  BY <1>3, SeenEquations
<1>6. i # 0
  BY <1>3, <1>4, <1>5
<1>7. i - 1 \in Page /\ i \in Nat
  BY <1>3, <1>6, Sizes DEF Page
<1>8. Seen[i - 1] \in Nat
  BY <1>7, SeenEquations
<1>9. Seen[i - 1] >= n
  BY <1>3, <1>4, <1>5, <1>8
<1> QED BY <1>2, <1>7, <1>9

(* A run of free pages is found, unless the hint cuts it in two. *)
LEMMA RunFound ==
  ASSUME page_alloc_hint \in Page, NEW n \in Nat \ {0}, NEW p \in Page,
         p..(p + n - 1) \subseteq Page \ busy, page_alloc_hint \notin (p + 1)..(p + n - 1)
  PROVE  Found(n)
<1>1. PICK h, N : h = page_alloc_hint /\ N = n - 1
  OBVIOUS
<1>2. /\ h \in Nat /\ h < PAGES /\ PAGES \in Nat /\ p \in Nat /\ p < PAGES /\ N \in Nat
      /\ ~(p + 1 <= h /\ h <= p + N)
  BY <1>1, Sizes DEF Page
<1>3. \A k \in 0..N : p + k \in Page /\ p + k \notin busy /\ p + k < PAGES
  <2>1. \A k \in 0..N : p + k \in p..(p + n - 1)
    BY <1>1, <1>2
  <2>2. \A q \in Page : q < PAGES
    BY Sizes DEF Page
  <2> QED BY <2>1, <2>2
<1>4. PICK i : i = IF p >= h THEN p - h ELSE p - h + PAGES
  OBVIOUS
<1>5. N \in 0..N /\ p + N < PAGES
  BY <1>2, <1>3
<1>6. /\ i \in Nat /\ i + N < PAGES
      /\ \A k \in 0..N : p + k = IF h + (i + k) < PAGES THEN h + (i + k) ELSE h + (i + k) - PAGES
  BY <1>2, <1>4, <1>5
<1>7. ASSUME NEW k \in 0..N
      PROVE  i + k \in Page /\ End(i + k) = p + k /\ End(i + k) \notin busy
  <2>1. i + k \in Page
    BY <1>2, <1>6 DEF Page
  <2>2. End(i + k) = IF h + (i + k) < PAGES THEN h + (i + k) ELSE h + (i + k) - PAGES
    BY <1>1, <2>1, EndTyped
  <2> QED BY <1>3, <1>6, <2>1, <2>2
<1> DEFINE S == {k \in Nat : Seen[i + k] >= k + 1}
<1>8. 0 \in S
  <2>1. 0 \in 0..N /\ i + 0 = i
    BY <1>2, <1>6
  <2>2. i \in Page /\ End(i) \notin busy
    BY <1>7, <2>1
  <2>3. PICK x : x = IF i = 0 \/ End(i) = 0 THEN 0 ELSE Seen[i - 1]
    OBVIOUS
  <2>4. x \in Nat
    <3>1. CASE i = 0 \/ End(i) = 0
      BY <2>3, <3>1
    <3>2. CASE ~(i = 0 \/ End(i) = 0)
      <4>1. i - 1 \in Page
        BY <1>6, <2>2, <3>2, Sizes DEF Page
      <4> QED BY <2>3, <3>2, <4>1, SeenEquations
    <3> QED BY <3>1, <3>2
  <2>5. Seen[i] = x + 1
    BY <2>2, <2>3, SeenEquations
  <2> QED BY <2>1, <2>4, <2>5
<1>9. ASSUME NEW k \in 0..(N - 1), k \in S PROVE k + 1 \in S
  <2>1. PICK j, m : j = i + (k + 1) /\ m = i + k
    OBVIOUS
  <2>2. /\ k \in Nat /\ k + 1 \in Nat /\ k + 1 \in 0..N /\ k \in 0..N
        /\ j \in Nat /\ j # 0 /\ j - 1 = m
    BY <1>2, <1>6, <2>1
  <2>3. j \in Page /\ End(j) = p + (k + 1) /\ End(j) \notin busy /\ m \in Page
    BY <1>7, <2>1, <2>2
  <2>4. End(j) # 0
    BY <1>2, <2>2, <2>3
  <2>5. Seen[j] = Seen[j - 1] + 1
    BY <2>2, <2>3, <2>4, SeenEquations
  <2>6. Seen[m] \in Nat /\ Seen[m] >= k + 1
    BY <1>9, <2>1, <2>3, SeenEquations
  <2>7. Seen[j] >= (k + 1) + 1
    BY <2>2, <2>5, <2>6
  <2> QED BY <2>1, <2>2, <2>7
<1>10. \A k \in 0..N : k \in S
  <2> HIDE DEF S
  <2> QED BY <1>2, <1>8, <1>9, IntervalInduction
<1>11. i + N \in Page /\ Seen[i + N] >= n
  BY <1>1, <1>2, <1>5, <1>7, <1>10
<1> QED BY <1>11, CountReached

(* A search for one page finds one that is free, unless all are busy. *)
LEMMA OnePageFound ==
  ASSUME page_alloc_hint \in Page
  PROVE  /\ Found(1) => /\ FirstOf(1) = LastOf(1)
                        /\ FirstOf(1) \in Page \ busy
         /\ ~Found(1) => Page \subseteq busy
<1>1. ASSUME Found(1) PROVE FirstOf(1) = LastOf(1) /\ FirstOf(1) \in Page \ busy
  <2>1. PICK one : one = 1
    OBVIOUS
  <2>2. one \in Nat \ {0} /\ Found(one)
    BY <1>1, <2>1
  <2>3. LastOf(one) \in Page \ busy
    BY <2>2, LastIsFree
  <2>4. LastOf(1) \in Page \ busy /\ LastOf(1) \in Nat
    BY <2>1, <2>3, Sizes
  <2> QED BY <2>4 DEF FirstOf
<1>2. ASSUME NEW p \in Page, p \notin busy PROVE Found(1)
  <2>1. PICK one : one = 1
    OBVIOUS
  <2>2. p \in Nat /\ one \in Nat \ {0} /\ p..(p + one - 1) = {p} /\ (p + 1)..(p + one - 1) = {}
    BY <2>1, Sizes
  <2>3. Found(one)
    BY <1>2, <2>2, RunFound
  <2> QED BY <2>1, <2>3
<1> QED BY <1>1, <1>2

(* Where free pages follow the hint, the search counts every one of them. *)
LEMMA RunSeen ==
  ASSUME page_alloc_hint \in Page, NEW n \in Nat \ {0},
         page_alloc_hint..(page_alloc_hint + n - 1) \subseteq Page \ busy
  PROVE  \A i \in 0..(n - 1) :
           i \in Page /\ End(i) = page_alloc_hint + i /\ Seen[i] = i + 1
<1>1. PICK h, N : h = page_alloc_hint /\ N = n - 1
  OBVIOUS
<1>2. h \in Nat /\ N \in Nat /\ PAGES \in Nat /\ h < PAGES
  BY <1>1, Sizes DEF Page
<1>3. \A i \in 0..N : h + i \in Page /\ h + i \notin busy /\ h + i < PAGES /\ i \in Page
  <2>1. \A i \in 0..N : h + i \in h..(h + n - 1)
    BY <1>1, <1>2
  <2>2. \A i \in 0..N : h + i \in Page /\ h + i \notin busy
    BY <1>1, <2>1
  <2>3. \A q \in Page : q < PAGES
    BY Sizes DEF Page
  <2>4. \A i \in 0..N : h + i < PAGES
    BY <2>2, <2>3
  <2>5. \A i \in 0..N : i \in Page
    BY <1>2, <2>4 DEF Page
  <2> QED BY <2>2, <2>4, <2>5
<1>4. ASSUME NEW i \in 0..N PROVE End(i) = h + i /\ h + i \notin busy
  <2>1. End(i) = IF h + i < PAGES THEN h + i ELSE h + i - PAGES
    BY <1>1, <1>3, EndTyped
  <2> QED BY <1>3, <2>1
<1> DEFINE S == {m \in Nat : Seen[m] = m + 1}
<1>5. 0 \in S
  <2>1. 0 \in Page /\ 0 \in 0..N
    BY <1>2, <1>3
  <2>2. End(0) \notin busy
    BY <1>4, <2>1
  <2>3. Seen[0] = 0 + 1
    BY <2>1, <2>2, SeenEquations
  <2> QED BY <2>3
<1>6. ASSUME NEW m \in 0..(N - 1), m \in S PROVE m + 1 \in S
  <2>1. m + 1 \in 0..N /\ m \in Nat /\ (m + 1) - 1 = m /\ m + 1 # 0
    BY <1>2
  <2>2. m + 1 \in Page /\ End(m + 1) = h + (m + 1) /\ End(m + 1) \notin busy
    BY <1>3, <1>4, <2>1
  <2>3. End(m + 1) # 0
    BY <1>2, <2>1, <2>2
  <2>4. Seen[m + 1] = Seen[m] + 1
    BY <2>1, <2>2, <2>3, SeenEquations
  <2> QED BY <1>6, <2>1, <2>4
<1>7. \A m \in 0..N : m \in S
  <2> HIDE DEF S
  <2> QED BY <1>2, <1>5, <1>6, IntervalInduction
<1> QED BY <1>1, <1>3, <1>4, <1>7

(* So it finds the pages from the hint on. *)
LEMMA RunAtHint ==
  ASSUME page_alloc_hint \in Page, NEW n \in Nat \ {0},
         page_alloc_hint..(page_alloc_hint + n - 1) \subseteq Page \ busy
  PROVE  /\ Found(n) /\ FirstOf(n) = page_alloc_hint
         /\ LastOf(n) = page_alloc_hint + n - 1
<1>1. PICK h, N : h = page_alloc_hint /\ N = n - 1
  OBVIOUS
<1>2. h \in Nat /\ N \in Nat /\ n \in Nat /\ N \in 0..N
  BY <1>1, Sizes
<1>3. \A i \in 0..N : i \in Page /\ End(i) = h + i /\ Seen[i] = i + 1
  BY <1>1, RunSeen
<1>4. N \in Page /\ Seen[N] = n
  BY <1>1, <1>2, <1>3
<1>5. Found(n)
  BY <1>4 DEF Found, Rounds
<1>6. PICK i \in Page : /\ Seen[i] = n /\ LastOf(n) = End(i)
                        /\ \A j \in Page : Seen[j] = n => i <= j
  BY <1>5, FoundRound
<1>7. i \in 0..N
  BY <1>2, <1>4, <1>6, Sizes
<1>8. i = N
  BY <1>1, <1>2, <1>3, <1>6, <1>7
<1>9. PICK l : l = LastOf(n)
  OBVIOUS
<1>10. l = h + N
  BY <1>3, <1>6, <1>7, <1>8, <1>9
<1>11. l = h + n - 1 /\ l - n + 1 = h
  BY <1>1, <1>2, <1>10
<1>12. FirstOf(n) = h
  BY <1>9, <1>11 DEF FirstOf
<1> QED BY <1>1, <1>5, <1>9, <1>11, <1>12

-----------------------------------------------------------------------------
(* Pieces, and the bag of blocks.                                          *)

(* Piece j of a page of P bytes in pieces of R lies behind piece 0 and     *)
(* within the page.                                                        *)
LEMMA PieceWithin ==
  ASSUME NEW P \in Nat, NEW R \in Nat \ {0}, NEW j \in 1..(P \div R - 1)
  PROVE  /\ j \in 1..(P - 1)
         /\ j * R \in Nat /\ R <= j * R /\ j * R + R <= P
<1>1. PICK q : q = P \div R
  OBVIOUS
<1>2. PICK r : r = P % R
  OBVIOUS
<1>3. P = R * q + r /\ q \in Int /\ r \in Nat
  BY <1>1, <1>2, SMT
<1>4. j \in Nat /\ 1 <= j /\ j <= q - 1
  BY <1>1, <1>3
<1>5. R * (j - 1) >= 0 /\ R * (q - 1 - j) >= 0 /\ (R - 1) * (j - 1) >= 0
  <2>1. ASSUME NEW a \in Nat, NEW b \in Nat PROVE a * b >= 0
    OBVIOUS
  <2>2. j - 1 \in Nat /\ q - 1 - j \in Nat /\ R - 1 \in Nat /\ R \in Nat
    BY <1>3, <1>4
  <2> QED BY <2>1, <2>2
<1>6. PICK m : m = j * R
  OBVIOUS
<1>7. PICK w : w = R * q
  OBVIOUS
<1>8. /\ m \in Int /\ w \in Int
      /\ R * (j - 1) = m - R /\ R * (q - 1 - j) = w - R - m
      /\ (R - 1) * (j - 1) = m - R - j + 1
  BY <1>3, <1>4, <1>6, <1>7, SMT
<1>9. R <= m /\ m + R <= w /\ j <= m /\ w <= P
  BY <1>3, <1>4, <1>5, <1>7, <1>8
<1> QED BY <1>4, <1>6, <1>8, <1>9, <1>3

(* A page of at least twice the size of a piece has two of them. *)
LEMMA TwoPieces ==
  ASSUME NEW P \in Nat, NEW R \in Nat \ {0}, 2 * R <= P
  PROVE  P \div R \in Nat /\ P \div R >= 2
<1>1. PICK q : q = P \div R
  OBVIOUS
<1>2. PICK r : r = P % R
  OBVIOUS
<1>3. P = R * q + r /\ q \in Int /\ r \in 0..(R - 1)
  BY <1>1, <1>2, SMT
<1>4. q >= 2
  <2>1. SUFFICES ASSUME 1 - q \in Nat PROVE FALSE
    BY <1>3
  <2>2. R * (1 - q) \in Nat
    BY <2>1
  <2>3. PICK x : x = R * q
    OBVIOUS
  <2>4. R * (1 - q) = R - x /\ x \in Int
    BY <1>3, <2>3, SMT
  <2> QED BY <1>3, <2>2, <2>3, <2>4
<1> QED BY <1>1, <1>3, <1>4

(* The class of a small request. *)
LEMMA ClassOfTyped ==
  ASSUME NEW size \in Nat, Small(size)
  PROVE  ClassOf(size) \in Class /\ size <= blocksize[ClassOf(size)]
<1> DEFINE T == {c \in Class : size <= blocksize[c]}
<1>1. MAX_BLOCKSIZE2 \in T
  BY MemoryAssumption DEF Class, Small
<1>2. T \subseteq Nat
  BY MemoryAssumption DEF Class
<1>3. Min(T) \in T
  <2> HIDE DEF T
  <2> QED BY <1>1, <1>2, MinTyped
<1> QED BY <1>3 DEF ClassOf

(* The piece that malloc() takes. *)
LEMMA PieceFound ==
  ASSUME TypeOK, NEW c \in Class, PagesWithRoom(c) # {}
  PROVE  \E k \in 1..Len(smallblock[c]) :
           /\ Min(PagesWithRoom(c)) = k
           /\ smallblock[c][k] \in Page
           /\ Min(FreePieces(c, smallblock[c][k])) \in FreePieces(c, smallblock[c][k])
<1>1. smallblock[c] \in Seq(Page)
  BY DEF TypeOK
<1>2. Len(smallblock[c]) \in Nat
  BY <1>1
<1>3. PagesWithRoom(c) \subseteq Nat
  BY <1>2 DEF PagesWithRoom
<1>4. Min(PagesWithRoom(c)) \in PagesWithRoom(c)
  BY <1>3, MinTyped
<1>5. PICK k : k = Min(PagesWithRoom(c))
  OBVIOUS
<1>6. k \in 1..Len(smallblock[c]) /\ FreePieces(c, smallblock[c][k]) # {}
  BY <1>4, <1>5 DEF PagesWithRoom
<1>7. smallblock[c][k] \in Page
  BY <1>1, <1>6
<1>8. FreePieces(c, smallblock[c][k]) \subseteq Nat
  BY DEF FreePieces
<1>9. Min(FreePieces(c, smallblock[c][k])) \in FreePieces(c, smallblock[c][k])
  BY <1>6, <1>8, MinTyped
<1> QED BY <1>5, <1>6, <1>7, <1>9

(* Handing out a block adds it to those that are held. *)
LEMMA HandOutHolds ==
  ASSUME NEW pointer, NEW size, HandOut(pointer, size)
  PROVE  /\ Held' = Held \cup {[pointer |-> pointer, size |-> size]}
         /\ [pointer |-> pointer, size |-> size] \notin Held =>
              live'[[pointer |-> pointer, size |-> size]] = 1
         /\ \A b \in Held : b # [pointer |-> pointer, size |-> size] /\ live[b] = 1
                              => live'[b] = 1
<1>1. PICK x : x = [pointer |-> pointer, size |-> size]
  OBVIOUS
<1>2. live' = [e \in DOMAIN live \cup {x} |->
                 (IF e \in DOMAIN live THEN live[e] ELSE 0) + (IF e \in {x} THEN [y \in {x} |-> 1][e] ELSE 0)]
  BY <1>1 DEF HandOut, (+), SetToBag
<1>3. Held = DOMAIN live /\ Held' = DOMAIN live'
  BY DEF Held, BagToSet
<1>4. Held' = Held \cup {x}
  BY <1>2, <1>3
<1>5. x \notin Held => live'[x] = 1
  BY <1>2, <1>3
<1>6. \A b \in Held : b # x /\ live[b] = 1 => live'[b] = 1
  BY <1>2, <1>3
<1> QED BY <1>1, <1>4, <1>5, <1>6

(* Taking back a block removes it, when there is one copy of each. *)
LEMMA TakeBackHolds ==
  ASSUME NEW b \in Held, TakeBack(b)
  PROVE  /\ Held' \subseteq Held
         /\ (\A a \in Held : live[a] = 1) =>
              /\ Held' = Held \ {b}
              /\ \A a \in Held' : live'[a] = 1
<1> DEFINE less == [e \in DOMAIN live |-> IF e \in {b} THEN live[e] - [y \in {b} |-> 1][e]
                                                       ELSE live[e]]
<1>1. live' = [e \in {d \in DOMAIN less : less[d] > 0} |-> less[e]]
  BY DEF TakeBack, (-), SetToBag
<1>2. Held = DOMAIN live /\ Held' = DOMAIN live'
  BY DEF Held, BagToSet
<1>3. Held' \subseteq Held
  BY <1>1, <1>2
<1>4. ASSUME \A a \in Held : live[a] = 1
      PROVE  Held' = Held \ {b} /\ \A a \in Held' : live'[a] = 1
  <2>1. less[b] = 0 /\ \A a \in Held \ {b} : less[a] = 1
    BY <1>2, <1>4
  <2>2. \A a \in Held : a \in Held' <=> a # b
    BY <1>1, <1>2, <2>1
  <2> QED BY <1>1, <1>2, <1>3, <2>1, <2>2
<1> QED BY <1>3, <1>4

-----------------------------------------------------------------------------
(* Types.                                                                  *)

(* Everything wanted has a size. *)
LEMMA WantedTyped == Wanted \subseteq Nat \ {0}
BY MemoryAssumption DEF Wanted

(* A step is one call. *)
LEMMA NextCalls ==
  ASSUME Next
  PROVE  /\ stopped = Running
         /\ \/ trap_stack_top = 0 /\ TrapInit
            \/ /\ trap_stack_top # 0 /\ UNCHANGED trap_stack_top
               /\ \/ AllocPage
                  \/ AllocPagesStops(1)
                  \/ \E size \in Wanted : Malloc(size)
                  \/ \E b \in Held \ Kept : Free(b)
<1>1. (\E r \in CallocRequests : Calloc(r)) => \E size \in Wanted : Malloc(size)
  BY DEF Calloc, Wanted
<1>2. (\E size \in Requests : Malloc(size)) => \E size \in Wanted : Malloc(size)
  BY DEF Wanted
<1> QED BY <1>1, <1>2 DEF Next, Call

(* What may have stopped the kernel. *)
Causes == {Running, InFree} \cup (Nat \ {0})

(* The part of the types about the blocks. *)
BlocksTyped(H) == \A b \in H : b.pointer \in Nat /\ b.size \in Nat \ {0}

(* The part of the types about pages and pieces. *)
PagesTyped ==
  /\ busy \subseteq Page
  /\ page_alloc_hint \in Page
  /\ smallblock \in [Class -> Seq(Page)]
  /\ bitmap \in [Page -> SUBSET (1..(PAGE_SIZE - 1))]
  /\ magic \in [Page -> {"none", "data", "small", "big", "erased"}]
  /\ second \in [Page -> Nat]
  /\ stopped \in Causes

(* Handing out a block at an address keeps the types of the blocks. *)
LEMMA HandOutKeepsTypes ==
  ASSUME BlocksTyped(Held), NEW pointer \in Nat, NEW size \in Nat \ {0},
         HandOut(pointer, size)
  PROVE  BlocksTyped(Held')
<1>1. Held' = Held \cup {[pointer |-> pointer, size |-> size]}
  BY HandOutHolds
<1> QED BY <1>1 DEF BlocksTyped

(* The pages found are taken. *)
LEMMA AllocPagesTyped ==
  ASSUME busy \subseteq Page, page_alloc_hint \in Page, NEW count, AllocPages(count)
  PROVE  /\ busy' \subseteq Page /\ page_alloc_hint' \in Page
         /\ stopped' = stopped
         /\ FirstOf(count) \in Nat /\ Address(FirstOf(count)) \in Nat
<1>1. Found(count)
  BY DEF AllocPages
<1>2. /\ FirstOf(count) \in Nat /\ FirstOf(count)..LastOf(count) \subseteq Page
      /\ (LastOf(count) + 1) % PAGES \in Page
  BY <1>1, FoundTyped
<1>3. Address(FirstOf(count)) \in Nat
  BY <1>2, AddressTyped
<1> QED BY <1>2, <1>3 DEF AllocPages

(* The pages for a big block hold it and its accounting data, and the last *)
(* one holds some of it.                                                   *)
LEMMA PagesForBounds ==
  ASSUME NEW size \in Nat \ {0}, NEW n, n = PagesFor(size)
  PROVE  /\ n \in Nat \ {0}
         /\ BIGBLOCK_INFO + size <= n * PAGE_SIZE
         /\ (n - 1) * PAGE_SIZE < BIGBLOCK_INFO + size
         /\ BIGBLOCK_INFO + size <= PAGE_SIZE => n = 1
<1>1. PICK P, t, y : P = PAGE_SIZE /\ t = BIGBLOCK_INFO + size /\ y = t + P - 1
  OBVIOUS
<1>2. P \in Nat \ {0} /\ t \in Nat \ {0} /\ y \in Nat /\ y >= P
  BY <1>1, Sizes
<1>3. n = y \div P
  <2>1. size + BIGBLOCK_INFO + PAGE_SIZE - 1 = y
    BY <1>1, Sizes
  <2> QED BY <1>1, <2>1 DEF PagesFor
<1>4. PICK r : r = y % P
  OBVIOUS
<1>5. y = P * n + r /\ n \in Int /\ r \in 0..(P - 1)
  BY <1>2, <1>3, <1>4, SMT
<1>6. PICK w : w = P * n
  OBVIOUS
<1>7. w \in Int /\ y = w + r /\ w > y - P
  BY <1>2, <1>5, <1>6
<1>8. w > 0
  BY <1>2, <1>7
<1>9. n >= 1
  <2>1. SUFFICES ASSUME -n \in Nat PROVE FALSE
    BY <1>5
  <2>2. P * (-n) \in Nat
    BY <1>2, <2>1
  <2>3. P * (-n) = -w
    BY <1>2, <1>5, <1>6, SMT
  <2> QED BY <1>7, <1>8, <2>2, <2>3
<1>10. n * P = w /\ (n - 1) * P = w - P
  BY <1>2, <1>5, <1>6, SMT
<1>11. t <= w /\ w - P < t
  BY <1>1, <1>2, <1>5, <1>7
<1>12. ASSUME t <= P PROVE n = 1
  <2>1. SUFFICES ASSUME n - 2 \in Nat PROVE FALSE
    BY <1>5, <1>9
  <2>2. P * (n - 2) \in Nat
    BY <1>2, <2>1
  <2>3. P * (n - 2) = w - 2 * P
    BY <1>2, <1>5, <1>6, SMT
  <2> QED BY <1>2, <1>7, <1>11, <1>12, <2>2, <2>3
<1> QED BY <1>1, <1>5, <1>9, <1>10, <1>11, <1>12

(* malloc() keeps the types. *)
LEMMA MallocKeepsTypes ==
  ASSUME TypeOK, NEW size \in Nat \ {0}, Malloc(size)
  PROVE  PagesTyped' /\ BlocksTyped(Held')
<1>1. BlocksTyped(Held) /\ PagesTyped
  BY DEF TypeOK, BlocksTyped, PagesTyped, Causes
<1>2. CASE MallocPiece(size)
  <2>1. PICK c : c = ClassOf(size)
    OBVIOUS
  <2>2. c \in Class /\ PagesWithRoom(c) # {}
    BY <1>2, <2>1, ClassOfTyped DEF MallocPiece
  <2>3. PICK k \in 1..Len(smallblock[c]) :
           /\ Min(PagesWithRoom(c)) = k
           /\ smallblock[c][k] \in Page
           /\ Min(FreePieces(c, smallblock[c][k])) \in FreePieces(c, smallblock[c][k])
    BY <2>2, PieceFound
  <2>4. PICK p, j : p = smallblock[c][k] /\ j = Min(FreePieces(c, smallblock[c][k]))
    OBVIOUS
  <2>5. /\ bitmap' = [bitmap EXCEPT ![p] = bitmap_set(@, j, TRUE)]
        /\ HandOut(Address(p) + j * second[p], size)
        /\ UNCHANGED <<pageVars, smallblock, magic, second, stopped>>
    BY <1>2, <2>1, <2>3, <2>4 DEF MallocPiece
  <2>6. p \in Page /\ p \in Nat /\ second[p] \in Nat /\ Address(p) \in Nat
    BY <1>1, <2>3, <2>4, Sizes, AddressTyped DEF PagesTyped
  <2>7. j \in 1..(PAGE_SIZE - 1)
    <3>1. j \in 1..(PAGE_SIZE \div blocksize[c] - 1)
      BY <2>3, <2>4 DEF FreePieces
    <3> QED BY <2>2, <3>1, ClassSizes, Sizes, PieceWithin
  <2>8. Address(p) + j * second[p] \in Nat
    <3>1. j * second[p] \in Nat
      BY <2>6, <2>7, Sizes
    <3> QED BY <2>6, <3>1
  <2>9. BlocksTyped(Held')
    BY <1>1, <2>5, <2>8, HandOutKeepsTypes
  <2>10. bitmap' \in [Page -> SUBSET (1..(PAGE_SIZE - 1))]
    BY <1>1, <2>5, <2>7 DEF PagesTyped, bitmap_set
  <2> QED BY <1>1, <2>5, <2>9, <2>10 DEF PagesTyped, pageVars
<1>3. CASE MallocNewPage(size)
  <2>1. PICK c, p : c = ClassOf(size) /\ p = FirstOf(1)
    OBVIOUS
  <2>2. c \in Class /\ AllocPages(1)
    BY <1>3, <2>1, ClassOfTyped DEF MallocNewPage
  <2>3. p \in Page /\ Address(p) \in Nat
    <3>1. Found(1)
      BY <2>2 DEF AllocPages
    <3> QED BY <1>1, <2>1, <3>1, OnePageFound, AddressTyped, Sizes DEF PagesTyped
  <2>4. /\ smallblock' = [smallblock EXCEPT ![c] = Append(@, p)]
        /\ bitmap' = [bitmap EXCEPT ![p] = bitmap_set({}, 1, TRUE)]
        /\ magic' = [magic EXCEPT ![p] = "small"]
        /\ second' = [second EXCEPT ![p] = blocksize[c]]
        /\ HandOut(Address(p) + blocksize[c], size)
    BY <1>3, <2>1 DEF MallocNewPage
  <2>5. /\ busy' \subseteq Page /\ page_alloc_hint' \in Page /\ stopped' = stopped
    BY <1>1, <2>2, AllocPagesTyped DEF PagesTyped
  <2>6. blocksize[c] \in Nat /\ 1 \in 1..(PAGE_SIZE - 1)
    BY <2>2, ClassSizes, Sizes
  <2>7. BlocksTyped(Held')
    <3>1. Address(p) + blocksize[c] \in Nat
      BY <2>3, <2>6
    <3> QED BY <1>1, <2>4, <3>1, HandOutKeepsTypes
  <2>8. bitmap' \in [Page -> SUBSET (1..(PAGE_SIZE - 1))]
    BY <1>1, <2>4, <2>6 DEF PagesTyped, bitmap_set
  <2>9. smallblock' \in [Class -> Seq(Page)]
    <3>1. smallblock \in [Class -> Seq(Page)]
      BY <1>1 DEF PagesTyped
    <3>2. Append(smallblock[c], p) \in Seq(Page)
      BY <2>2, <2>3, <3>1
    <3> QED BY <2>4, <3>1, <3>2
  <2>10. magic' \in [Page -> {"none", "data", "small", "big", "erased"}]
    BY <1>1, <2>4 DEF PagesTyped
  <2>11. second' \in [Page -> Nat]
    BY <1>1, <2>4, <2>6 DEF PagesTyped
  <2>12. stopped' \in Causes
    BY <1>1, <2>5 DEF PagesTyped
  <2> QED BY <2>5, <2>7, <2>8, <2>9, <2>10, <2>11, <2>12 DEF PagesTyped
<1>4. CASE MallocBig(size)
  <2>1. PICK n, p : n = PagesFor(size) /\ p = FirstOf(PagesFor(size))
    OBVIOUS
  <2>2. /\ AllocPages(n)
        /\ magic' = [magic EXCEPT ![p] = "big"]
        /\ second' = [second EXCEPT ![p] = n]
        /\ HandOut(Address(p) + BIGBLOCK_INFO, size)
        /\ UNCHANGED <<smallblock, bitmap>>
    BY <1>4, <2>1 DEF MallocBig
  <2>3. /\ busy' \subseteq Page /\ page_alloc_hint' \in Page /\ stopped' = stopped
        /\ Address(p) \in Nat
    BY <1>1, <2>1, <2>2, AllocPagesTyped DEF PagesTyped
  <2>4. n \in Nat
    <3>1. Found(n)
      BY <2>2 DEF AllocPages
    <3> QED BY <1>1, <3>1, FoundTyped DEF PagesTyped
  <2>5. BlocksTyped(Held')
    <3>1. Address(p) + BIGBLOCK_INFO \in Nat
      BY <2>3, Sizes
    <3> QED BY <1>1, <2>2, <3>1, HandOutKeepsTypes
  <2>6. magic' \in [Page -> {"none", "data", "small", "big", "erased"}]
    BY <1>1, <2>2 DEF PagesTyped
  <2>7. second' \in [Page -> Nat]
    BY <1>1, <2>2, <2>4 DEF PagesTyped
  <2> QED BY <1>1, <2>2, <2>3, <2>5, <2>6, <2>7 DEF PagesTyped
<1>5. CASE MallocStops(size)
  <2>1. PICK n \in Nat \ {0} : AllocPagesStops(n)
    BY <1>5, PagesForBounds DEF MallocStops
  <2>2. stopped' \in Causes /\ UNCHANGED <<pageVars, blockVars, live>>
    BY <2>1 DEF AllocPagesStops, Shutdown, Causes
  <2> QED BY <1>1, <2>2 DEF PagesTyped, Held, pageVars, blockVars
<1> QED BY <1>2, <1>3, <1>4, <1>5 DEF Malloc

(* free() keeps the types. *)
LEMMA FreeKeepsTypes ==
  ASSUME TypeOK, NEW b \in Held, Free(b)
  PROVE  PagesTyped' /\ BlocksTyped(Held')
<1>1. BlocksTyped(Held) /\ PagesTyped
  BY DEF TypeOK, BlocksTyped, PagesTyped, Causes
<1>2. CASE Shutdown(InFree)
  BY <1>1, <1>2 DEF Shutdown, Causes, PagesTyped, Held, pageVars, blockVars
<1>3. CASE FreePiece(b)
  <2>1. BlocksTyped(Held')
    BY <1>1, <1>3, TakeBackHolds DEF FreePiece, BlocksTyped
  <2>2. PICK p, i : \/ stopped' = InFree /\ UNCHANGED bitmap
                    \/ /\ bitmap' = [bitmap EXCEPT ![p] = bitmap_set(@, i, FALSE)]
                       /\ UNCHANGED stopped
    BY <1>3 DEF FreePiece
  <2>3. bitmap' \in [Page -> SUBSET (1..(PAGE_SIZE - 1))] /\ stopped' \in Causes
    BY <1>1, <2>2 DEF PagesTyped, bitmap_set, Causes
  <2>4. UNCHANGED <<pageVars, smallblock, magic, second>>
    BY <1>3 DEF FreePiece
  <2> QED BY <1>1, <2>1, <2>3, <2>4 DEF PagesTyped, pageVars
<1>4. CASE FreeBig(b)
  <2>1. BlocksTyped(Held')
    BY <1>1, <1>4, TakeBackHolds DEF FreeBig, BlocksTyped
  <2>2. PICK p : magic' = [magic EXCEPT ![p] = "erased"]
    BY <1>4 DEF FreeBig
  <2>3. busy' \subseteq busy /\ stopped' \in Causes
    BY <1>4 DEF FreeBig, FreePages, Causes
  <2>4. UNCHANGED <<page_alloc_hint, smallblock, bitmap, second>>
    BY <1>4 DEF FreeBig
  <2>5. magic' \in [Page -> {"none", "data", "small", "big", "erased"}]
    BY <1>1, <2>2 DEF PagesTyped
  <2> QED BY <1>1, <2>1, <2>3, <2>4, <2>5 DEF PagesTyped
<1> QED BY <1>2, <1>3, <1>4 DEF Free

(* Every step keeps the types. *)
LEMMA StepKeepsTypes ==
  ASSUME TypeOK, [Next]_vars
  PROVE  TypeOK'
<1>1. BlocksTyped(Held) /\ PagesTyped /\ trap_stack_top \in Nat
  BY DEF TypeOK, BlocksTyped, PagesTyped, Causes
<1>2. SUFFICES PagesTyped' /\ BlocksTyped(Held') /\ trap_stack_top' \in Nat
  BY <1>2 DEF TypeOK, BlocksTyped, PagesTyped, Causes
<1>3. CASE UNCHANGED vars
  BY <1>1, <1>3 DEF vars, pageVars, blockVars, PagesTyped, Held
<1>4. CASE TrapInit
  <2>1. PICK p : p = FirstOf(TRAP_PAGES)
    OBVIOUS
  <2>2. /\ AllocPages(TRAP_PAGES)
        /\ HandOut(Address(p), TRAP_PAGES * PAGE_SIZE)
        /\ magic' = [magic EXCEPT ![p] = "data"]
        /\ trap_stack_top' = Address(p) + TRAP_PAGES * PAGE_SIZE - 4 - CORE_DATA
        /\ UNCHANGED <<smallblock, bitmap, second>>
    BY <1>4, <2>1 DEF TrapInit
  <2>3. /\ busy' \subseteq Page /\ page_alloc_hint' \in Page /\ stopped' = stopped
        /\ Address(p) \in Nat
    BY <1>1, <2>1, <2>2, AllocPagesTyped DEF PagesTyped
  <2>4. PICK t : t = TRAP_PAGES * PAGE_SIZE
    OBVIOUS
  <2>5. t \in Nat \ {0} /\ CORE_DATA + 4 < t /\ CORE_DATA \in Nat
    <3>1. t \in Nat
      BY <2>4, Sizes
    <3> QED BY <2>4, <3>1, MemoryAssumption
  <2>6. BlocksTyped(Held')
    BY <1>1, <2>2, <2>3, <2>4, <2>5, HandOutKeepsTypes
  <2>7. trap_stack_top' \in Nat
    <3>1. trap_stack_top' = Address(p) + t - 4 - CORE_DATA
      BY <2>2, <2>4
    <3> QED BY <2>3, <2>5, <3>1
  <2>8. magic' \in [Page -> {"none", "data", "small", "big", "erased"}]
    BY <1>1, <2>2 DEF PagesTyped
  <2> QED BY <1>1, <2>2, <2>3, <2>6, <2>7, <2>8 DEF PagesTyped
<1>5. CASE AllocPage /\ UNCHANGED trap_stack_top
  <2>1. PICK p : p = FirstOf(1)
    OBVIOUS
  <2>2. /\ AllocPages(1)
        /\ HandOut(Address(p), PAGE_SIZE)
        /\ magic' = [magic EXCEPT ![p] = "data"]
        /\ UNCHANGED <<smallblock, bitmap, second>>
    BY <1>5, <2>1 DEF AllocPage
  <2>3. /\ busy' \subseteq Page /\ page_alloc_hint' \in Page /\ stopped' = stopped
        /\ Address(p) \in Nat
    BY <1>1, <2>1, <2>2, AllocPagesTyped DEF PagesTyped
  <2>4. BlocksTyped(Held')
    BY <1>1, <2>2, <2>3, HandOutKeepsTypes, Sizes
  <2>5. magic' \in [Page -> {"none", "data", "small", "big", "erased"}]
    BY <1>1, <2>2 DEF PagesTyped
  <2> QED BY <1>1, <1>5, <2>2, <2>3, <2>4, <2>5 DEF PagesTyped
<1>6. CASE AllocPagesStops(1) /\ UNCHANGED trap_stack_top
  BY <1>1, <1>6 DEF AllocPagesStops, Shutdown, Causes, PagesTyped, Held, pageVars, blockVars
<1>7. CASE (\E size \in Wanted : Malloc(size)) /\ UNCHANGED trap_stack_top
  BY <1>1, <1>7, WantedTyped, MallocKeepsTypes
<1>8. CASE (\E b \in Held \ Kept : Free(b)) /\ UNCHANGED trap_stack_top
  BY <1>1, <1>8, FreeKeepsTypes
<1> QED BY <1>3, <1>4, <1>5, <1>6, <1>7, <1>8, NextCalls

(* What mem_init() leaves is of the types. *)
LEMMA InitTyped ==
  ASSUME Init
  PROVE  TypeOK
<1>1. Held = {}
  BY DEF Init, Held, BagToSet, EmptyBag, SetToBag
<1>2. busy = {} /\ page_alloc_hint \in Page
  BY Sizes DEF Init, PageAllocInit, Page
<1>3. smallblock \in [Class -> Seq(Page)]
  BY DEF Init, MallocInit
<1>4. bitmap \in [Page -> SUBSET (1..(PAGE_SIZE - 1))]
  BY DEF Init, MallocInit
<1>5. /\ magic \in [Page -> {"none", "data", "small", "big", "erased"}]
      /\ second \in [Page -> Nat]
  BY DEF Init, MallocInit
<1>6. trap_stack_top \in Nat /\ stopped \in Causes
  BY DEF Init, Causes
<1> QED BY <1>1, <1>2, <1>3, <1>4, <1>5, <1>6 DEF TypeOK, Causes

(* Whatever is asked of the allocator, in whatever order, every variable   *)
(* keeps its type: the search of alloc_pages() ends within the memory, and *)
(* no piece is taken outside its page.                                     *)
THEOREM MemoryTyped == Spec => []TypeOK
<1>1. Init => TypeOK
  BY InitTyped
<1>2. TypeOK /\ [Next]_vars => TypeOK'
  BY StepKeepsTypes
<1> QED BY <1>1, <1>2, PTL DEF Spec

-----------------------------------------------------------------------------
(* What the pages are used for.                                            *)

Block(pointer, size) == [pointer |-> pointer, size |-> size]

(* The blocks of H whose pointers are in page p. *)
On(H, p) == {b \in H : PageAt(b.pointer) = p}

(* How many pages are in use with page p, as the words mag and sec at its  *)
(* start tell, and the pages that are in use with one before them.         *)
Span(p, mag, sec) == IF p = 0 THEN TRAP_PAGES ELSE IF mag = "big" THEN sec ELSE 1

Behind(p, n) == (p + 1)..(p + n - 1)

Bodies(mg, sc) == {q \in Page : \E h \in Page : q \in Behind(h, Span(h, mg[h], sc[h]))}

(* What page p may be used for, when the blocks on it are those of on and  *)
(* the allocator remembers mag, sec and bits of it: for the trap stack,    *)
(* for somebody's data, for the start of a big block, or for pieces.       *)
TrapPage(p, on, mag) ==
  p = 0 /\ mag = "data" /\ on = {Block(Address(0), TRAP_PAGES * PAGE_SIZE)}
DataPage(p, on, mag) ==
  mag = "data" /\ on = {Block(Address(p), PAGE_SIZE)}
BigPage(p, on, mag, sec) ==
  /\ mag = "big" /\ sec \in 1..(PAGES - p)
  /\ \E size \in Wanted : sec = PagesFor(size) /\ on = {Block(Address(p) + BIGBLOCK_INFO, size)}
PiecesPage(p, on, mag, bits, sec) ==
  /\ mag = "small"
  /\ \E c \in Class : sec = blocksize[c]
  /\ bits \subseteq 1..(PAGE_SIZE \div sec - 1)
  /\ \E f \in [bits -> 1..sec] : on = {Block(Address(p) + j * sec, f[j]) : j \in bits}
FreePage(on, mag) ==
  mag \in {"none", "erased"} /\ on = {}

(* A page that is in use with one before it looks like a free one. *)
Sound(p, on, mag, bits, sec, used, inner) ==
  \/ used /\ inner /\ FreePage(on, mag)
  \/ ~used /\ ~inner /\ p # 0 /\ FreePage(on, mag)
  \/ used /\ ~inner /\ TrapPage(p, on, mag)
  \/ used /\ ~inner /\ p # 0 /\ ( \/ DataPage(p, on, mag)
                                  \/ BigPage(p, on, mag, sec)
                                  \/ PiecesPage(p, on, mag, bits, sec) )

Layout(H, bs, mg, bm, sc) ==
  \A p \in Page : Sound(p, On(H, p), mg[p], bm[p], sc[p], p \in bs, p \in Bodies(mg, sc))

(* The lists of smallblock[] hold the pages of pieces, each in its class. *)
Chained(sb, mg, sc) ==
  /\ \A c \in Class : \A k \in 1..Len(sb[c]) :
       mg[sb[c][k]] = "small" /\ sc[sb[c][k]] = blocksize[c]
  /\ \A p \in Page : mg[p] = "small" => \E c \in Class : \E k \in 1..Len(sb[c]) : p = sb[c][k]

(* Before trap_init() nothing is allocated. *)
Untouched ==
  /\ busy = {} /\ page_alloc_hint = 0 /\ Held = {} /\ stopped = Running
  /\ \A p \in Page : magic[p] = "none"
  /\ \A c \in Class : smallblock[c] = <<>>

(* The inductive invariant: every page is used for one of these. *)
MemoryInv ==
  /\ TypeOK
  /\ \A b \in Held : live[b] = 1 /\ PageAt(b.pointer) \in Page
  /\ trap_stack_top = 0 => Untouched
  /\ trap_stack_top # 0 => /\ Layout(Held, busy, magic, bitmap, second)
                           /\ Chained(smallblock, magic, second)

(* The bodies are the same when no page counts for another number. *)
LEMMA BodiesSame ==
  ASSUME NEW mg, NEW sc, NEW ng, NEW tc,
         \A h \in Page : Span(h, ng[h], tc[h]) = Span(h, mg[h], sc[h])
  PROVE  Bodies(ng, tc) = Bodies(mg, sc)
BY DEF Bodies

(* A page that counted for itself counts for n pages. *)
Spreads(mg, sc, ng, tc, p, n) ==
  /\ p \in Page /\ Span(p, mg[p], sc[p]) = 1 /\ Span(p, ng[p], tc[p]) = n
  /\ \A h \in Page \ {p} : Span(h, ng[h], tc[h]) = Span(h, mg[h], sc[h])
  /\ Behind(p, n) \subseteq Page

(* The bodies are then more by the pages behind it. *)
LEMMA BodiesMore ==
  ASSUME NEW mg, NEW sc, NEW ng, NEW tc, NEW p, NEW n, Spreads(mg, sc, ng, tc, p, n)
  PROVE  Bodies(ng, tc) = Bodies(mg, sc) \cup Behind(p, n)
<1> USE DEF Spreads
<1>0. PICK R : R = Behind(p, n)
  OBVIOUS
<1>1. Behind(p, 1) = {}
  BY Sizes DEF Behind
<1>2. ASSUME NEW q \in Bodies(ng, tc)
      PROVE  q \in Bodies(mg, sc) \cup R
  <2>1. PICK h \in Page : q \in Page /\ q \in Behind(h, Span(h, ng[h], tc[h]))
    BY DEF Bodies
  <2>2. CASE h = p
    BY <1>0, <2>1, <2>2
  <2>3. CASE h # p
    <3>1. q \in Behind(h, Span(h, mg[h], sc[h]))
      BY <2>1, <2>3
    <3> QED BY <2>1, <3>1 DEF Bodies
  <2> QED BY <2>2, <2>3
<1>3. ASSUME NEW q \in Bodies(mg, sc)
      PROVE  q \in Bodies(ng, tc)
  <2>1. PICK h \in Page : q \in Page /\ q \in Behind(h, Span(h, mg[h], sc[h]))
    BY DEF Bodies
  <2>2. h # p
    BY <1>1, <2>1
  <2>3. q \in Behind(h, Span(h, ng[h], tc[h]))
    BY <2>1, <2>2
  <2> QED BY <2>1, <2>3 DEF Bodies
<1>4. ASSUME NEW q \in R
      PROVE  q \in Bodies(ng, tc)
  <2>1. q \in Page /\ q \in Behind(p, Span(p, ng[p], tc[p]))
    BY <1>0, <1>4
  <2> QED BY <2>1 DEF Bodies
<1> QED BY <1>0, <1>2, <1>3, <1>4

(* Some pages change their use. *)
LEMMA LayoutChanges ==
  ASSUME NEW H, NEW bs, NEW mg, NEW bm, NEW sc, Layout(H, bs, mg, bm, sc),
         NEW G, NEW cs, NEW ng, NEW cm, NEW tc, NEW P, NEW p \in P,
         NEW B, B = Bodies(mg, sc), NEW C, C = Bodies(ng, tc),
         \A q \in Page \ P : /\ On(G, q) = On(H, q)
                             /\ ng[q] = mg[q] /\ cm[q] = bm[q] /\ tc[q] = sc[q]
                             /\ q \in cs <=> q \in bs
                             /\ q \in C <=> q \in B,
         \A q \in Page \cap P :
            Sound(q, On(G, q), ng[q], cm[q], tc[q], q \in cs, q \in C)
  PROVE  Layout(G, cs, ng, cm, tc)
<1> SUFFICES ASSUME NEW q \in Page
             PROVE  Sound(q, On(G, q), ng[q], cm[q], tc[q], q \in cs, q \in C)
  BY DEF Layout
<1>1. CASE q \in P
  BY <1>1
<1>2. CASE q \notin P
  <2>1. Sound(q, On(H, q), mg[q], bm[q], sc[q], q \in bs, q \in B)
    BY DEF Layout
  <2>2. /\ On(G, q) = On(H, q)
        /\ ng[q] = mg[q] /\ cm[q] = bm[q] /\ tc[q] = sc[q]
        /\ q \in cs <=> q \in bs
        /\ q \in C <=> q \in B
    BY <1>2
  <2>3. (q \in cs) = (q \in bs) /\ (q \in C) = (q \in B)
    BY <2>2
  <2> QED BY <2>1, <2>2, <2>3
<1> QED BY <1>1, <1>2

(* A free page is one of those that can be found. *)
LEMMA FreeIsSound ==
  ASSUME NEW p, NEW on, NEW mag, NEW bits, NEW sec, NEW inner,
         Sound(p, on, mag, bits, sec, FALSE, inner)
  PROVE  p # 0 /\ mag \in {"none", "erased"} /\ on = {} /\ ~inner
BY DEF Sound, FreePage

(* A page in use with one before it is in use, and looks like a free one. *)
LEMMA InnerIsSound ==
  ASSUME NEW p, NEW on, NEW mag, NEW bits, NEW sec, NEW used,
         Sound(p, on, mag, bits, sec, used, TRUE)
  PROVE  mag \in {"none", "erased"} /\ on = {} /\ used
BY DEF Sound, FreePage

(* The bytes from p on, for m pages, are in these pages. *)
LEMMA PageOfOffset ==
  ASSUME NEW p \in Nat, NEW m \in Nat, NEW k \in Nat, k < m * PAGE_SIZE
  PROVE  PageAt(Address(p) + k) \in p..(p + m - 1)
<1>1. PICK q : q = k \div PAGE_SIZE
  OBVIOUS
<1>2. PICK r : r = k % PAGE_SIZE
  OBVIOUS
<1>3. PAGE_SIZE \in Nat \ {0}
  BY Sizes
<1>4. k = PAGE_SIZE * q + r /\ q \in Nat /\ r \in 0..(PAGE_SIZE - 1)
  BY <1>1, <1>2, <1>3, SMT
<1>5. q < m
  <2>1. SUFFICES ASSUME q - m \in Nat PROVE FALSE
    BY <1>4
  <2>2. PAGE_SIZE * (q - m) \in Nat
    BY <1>3, <2>1
  <2>3. PICK x, y : x = PAGE_SIZE * q /\ y = m * PAGE_SIZE
    OBVIOUS
  <2>4. PAGE_SIZE * (q - m) = x - y /\ x \in Int /\ y \in Int
    BY <1>3, <1>4, <2>3, SMT
  <2> QED BY <1>4, <2>2, <2>3, <2>4
<1>6. Address(p + q) = Address(p) + q * PAGE_SIZE /\ Address(p) \in Nat
  BY <1>4, AddressTyped
<1>7. PICK w : w = q * PAGE_SIZE
  OBVIOUS
<1>8. w \in Nat /\ k = w + r
  BY <1>3, <1>4, <1>7, SMT
<1>9. Address(p) + k = Address(p + q) + r
  BY <1>4, <1>6, <1>7, <1>8
<1>10. PageAt(Address(p + q) + r) = p + q
  BY <1>4, AddressInPage
<1> QED BY <1>4, <1>5, <1>9, <1>10

(* Nothing changes but on page p. *)
Elsewhere(p, mg, sc, ng, tc) == \A q \in Page \ {p} : ng[q] = mg[q] /\ tc[q] = sc[q]

(* The lists stay right when a page that is not of pieces changes its use  *)
(* to another that is not.                                                 *)
LEMMA ChainedOther ==
  ASSUME NEW sb \in [Class -> Seq(Page)], NEW mg, NEW sc, Chained(sb, mg, sc),
         NEW ng, NEW tc, NEW p \in Page, mg[p] # "small", ng[p] # "small",
         Elsewhere(p, mg, sc, ng, tc)
  PROVE  Chained(sb, ng, tc)
<1> USE DEF Elsewhere
<1>1. ASSUME NEW c \in Class, NEW k \in 1..Len(sb[c])
      PROVE  ng[sb[c][k]] = "small" /\ tc[sb[c][k]] = blocksize[c]
  <2>1. sb[c][k] \in Page
    OBVIOUS
  <2>2. mg[sb[c][k]] = "small" /\ sc[sb[c][k]] = blocksize[c]
    BY DEF Chained
  <2> QED BY <2>1, <2>2
<1>2. ASSUME NEW q \in Page, ng[q] = "small"
      PROVE  \E c \in Class : \E k \in 1..Len(sb[c]) : q = sb[c][k]
  <2>1. q # p
    BY <1>2
  <2>2. mg[q] = "small"
    BY <1>2, <2>1
  <2> QED BY <2>2 DEF Chained
<1> QED BY <1>1, <1>2 DEF Chained

(* The lists stay right when a page is added to one. *)
LEMMA ChainedMore ==
  ASSUME NEW sb \in [Class -> Seq(Page)], NEW mg, NEW sc, Chained(sb, mg, sc),
         NEW ng, NEW tc, NEW p \in Page, NEW c \in Class, mg[p] # "small",
         ng[p] = "small", tc[p] = blocksize[c], Elsewhere(p, mg, sc, ng, tc),
         NEW tb, tb = [sb EXCEPT ![c] = Append(@, p)]
  PROVE  Chained(tb, ng, tc)
<1> USE DEF Elsewhere
<1>1. /\ Len(sb[c]) \in Nat /\ Len(tb[c]) = Len(sb[c]) + 1
      /\ \A k \in 1..Len(sb[c]) : tb[c][k] = sb[c][k]
      /\ tb[c][Len(sb[c]) + 1] = p
  OBVIOUS
<1>2. \A d \in Class \ {c} : tb[d] = sb[d]
  OBVIOUS
<1>3. ASSUME NEW d \in Class, NEW k \in 1..Len(sb[d])
      PROVE  ng[sb[d][k]] = "small" /\ tc[sb[d][k]] = blocksize[d]
  <2>1. sb[d][k] \in Page
    OBVIOUS
  <2>2. mg[sb[d][k]] = "small" /\ sc[sb[d][k]] = blocksize[d]
    BY DEF Chained
  <2> QED BY <2>1, <2>2
<1>4. ASSUME NEW d \in Class, NEW k \in 1..Len(tb[d])
      PROVE  ng[tb[d][k]] = "small" /\ tc[tb[d][k]] = blocksize[d]
  <2>1. CASE d # c
    <3>1. tb[d] = sb[d]
      BY <1>2, <2>1
    <3> QED BY <1>3, <3>1
  <2>2. CASE d = c /\ k \in 1..Len(sb[c])
    BY <1>1, <1>3, <2>2
  <2>3. CASE d = c /\ k \notin 1..Len(sb[c])
    <3>1. k = Len(sb[c]) + 1
      BY <1>1, <2>3
    <3> QED BY <1>1, <2>3, <3>1
  <2> QED BY <2>1, <2>2, <2>3
<1>5. ASSUME NEW q \in Page, ng[q] = "small"
      PROVE  \E d \in Class : \E k \in 1..Len(tb[d]) : q = tb[d][k]
  <2>1. CASE q = p
    <3>1. Len(sb[c]) + 1 \in 1..Len(tb[c])
      BY <1>1
    <3> QED BY <1>1, <2>1, <3>1
  <2>2. CASE q # p
    <3>1. mg[q] = "small"
      BY <1>5, <2>2
    <3>0. PICK d \in Class : \E k \in 1..Len(sb[d]) : q = sb[d][k]
      BY <3>1 DEF Chained
    <3>2. PICK k \in 1..Len(sb[d]) : q = sb[d][k]
      BY <3>0
    <3>3. CASE d = c
      <4>1. k \in 1..Len(tb[c]) /\ tb[c][k] = q
        BY <1>1, <3>2, <3>3
      <4> QED BY <4>1
    <3>4. CASE d # c
      <4>1. tb[d] = sb[d]
        BY <1>2, <3>4
      <4> QED BY <3>2, <4>1
    <3> QED BY <3>3, <3>4
  <2> QED BY <2>1, <2>2
<1> QED BY <1>4, <1>5 DEF Chained

-----------------------------------------------------------------------------
(* The calls.                                                              *)

(* What a call may rely on, and what it has to leave. *)
Working ==
  /\ TypeOK
  /\ \A b \in Held : live[b] = 1 /\ PageAt(b.pointer) \in Page
  /\ Layout(Held, busy, magic, bitmap, second)
  /\ Chained(smallblock, magic, second)

(* The first page of the trap stack, and one that is marked, is not in use *)
(* with one before it.                                                     *)
LEMMA HeadNotInner ==
  ASSUME Working, NEW p \in Page, p = 0 \/ magic[p] \notin {"none", "erased"}
  PROVE  p \notin Bodies(magic, second)
<1> SUFFICES ASSUME p \in Bodies(magic, second) PROVE FALSE
  OBVIOUS
<1>1. CASE p = 0
  <2>1. PICK h \in Page : p \in (h + 1)..(h + Span(h, magic[h], second[h]) - 1)
    BY DEF Bodies, Behind
  <2>2. h \in Nat
    BY Sizes
  <2> QED BY <1>1, <2>1, <2>2
<1>2. CASE p # 0
  <2>1. Sound(p, On(Held, p), magic[p], bitmap[p], second[p], p \in busy, p \in Bodies(magic, second))
    BY DEF Working, Layout
  <2>2. (p \in Bodies(magic, second)) = TRUE
    OBVIOUS
  <2>3. Sound(p, On(Held, p), magic[p], bitmap[p], second[p], p \in busy, TRUE)
    BY <2>1, <2>2
  <2> QED BY <1>2, <2>3, InnerIsSound
<1> QED BY <1>1, <1>2

(* What the page of a big block says. *)
LEMMA BigIsSound ==
  ASSUME Working, NEW p \in Page, p # 0, magic[p] = "big"
  PROVE  p \in busy /\ BigPage(p, On(Held, p), magic[p], second[p])
<1>1. Sound(p, On(Held, p), magic[p], bitmap[p], second[p], p \in busy, p \in Bodies(magic, second))
  BY DEF Working, Layout
<1>2. /\ ~TrapPage(p, On(Held, p), magic[p]) /\ ~FreePage(On(Held, p), magic[p])
      /\ ~DataPage(p, On(Held, p), magic[p])
      /\ ~PiecesPage(p, On(Held, p), magic[p], bitmap[p], second[p])
  BY DEF TrapPage, FreePage, DataPage, PiecesPage
<1> QED BY <1>1, <1>2 DEF Sound

(* What a page of pieces says. *)
LEMMA SmallIsSound ==
  ASSUME Working, NEW p \in Page, magic[p] = "small"
  PROVE  /\ p \in busy /\ p # 0 /\ p \notin Bodies(magic, second)
         /\ PiecesPage(p, On(Held, p), "small", bitmap[p], second[p])
<1>1. Sound(p, On(Held, p), magic[p], bitmap[p], second[p], p \in busy, p \in Bodies(magic, second))
  BY DEF Working, Layout
<1>2. /\ ~TrapPage(p, On(Held, p), magic[p]) /\ ~FreePage(On(Held, p), magic[p])
      /\ ~DataPage(p, On(Held, p), magic[p])
      /\ ~BigPage(p, On(Held, p), magic[p], second[p])
  BY DEF TrapPage, FreePage, DataPage, BigPage
<1> QED BY <1>1, <1>2 DEF Sound

(* The pages in use with a page are pages of the memory. *)
LEMMA SpanTyped ==
  ASSUME Working, NEW p \in Page, NEW s, s = Span(p, magic[p], second[p])
  PROVE  /\ s \in Nat \ {0} /\ p + s <= PAGES /\ p \in p..(p + s - 1)
         /\ p..(p + s - 1) \subseteq Page
<1>1. PAGES \in Nat /\ p \in Nat /\ p < PAGES /\ TRAP_PAGES \in Nat \ {0} /\ TRAP_PAGES <= PAGES
  BY Sizes DEF Page
<1>2. s \in Nat \ {0} /\ p + s <= PAGES
  <2>1. CASE p = 0
    BY <1>1, <2>1 DEF Span
  <2>2. CASE p # 0 /\ magic[p] # "big"
    BY <1>1, <2>2 DEF Span
  <2>3. CASE p # 0 /\ magic[p] = "big"
    <3>1. BigPage(p, On(Held, p), magic[p], second[p])
      BY <2>3, BigIsSound
    <3>2. second[p] \in 1..(PAGES - p) /\ s = second[p]
      BY <2>3, <3>1 DEF BigPage, Span
    <3> QED BY <1>1, <3>2
  <2> QED BY <2>1, <2>2, <2>3
<1> QED BY <1>1, <1>2 DEF Page

(* Nothing is in use with two pages. *)
LEMMA SpansApart ==
  ASSUME Working, NEW p \in Page \ Bodies(magic, second), NEW q \in Page \ Bodies(magic, second),
         NEW x, x \in p..(p + Span(p, magic[p], second[p]) - 1),
         x \in q..(q + Span(q, magic[q], second[q]) - 1)
  PROVE  p = q
<1>1. ASSUME NEW a \in Page, NEW b \in Page \ Bodies(magic, second), a < b,
             x \in a..(a + Span(a, magic[a], second[a]) - 1),
             x \in b..(b + Span(b, magic[b], second[b]) - 1)
      PROVE  FALSE
  <2>1. PICK s : s = Span(a, magic[a], second[a])
    OBVIOUS
  <2>2. s \in Nat /\ a \in Nat /\ b \in Nat
    BY <2>1, SpanTyped, Sizes
  <2>3. b \in (a + 1)..(a + s - 1)
    BY <1>1, <2>1, <2>2
  <2> QED BY <1>1, <2>1, <2>3 DEF Bodies, Behind
<1>2. ~(p < q) /\ ~(q < p)
  BY <1>1
<1>3. p \in Nat /\ q \in Nat
  BY Sizes
<1> QED BY <1>2, <1>3

(* A call that hands out a block on page p changes the use of the pages of *)
(* P only.                                                                 *)
LEMMA HandOutOnPages ==
  ASSUME Working, NEW P, NEW p \in P, p \in Page, NEW pointer, NEW size,
         HandOut(pointer, size),
         PageAt(pointer) = p, Block(pointer, size) \notin On(Held, p),
         \A q \in Page \ P : /\ magic'[q] = magic[q] /\ bitmap'[q] = bitmap[q]
                             /\ second'[q] = second[q]
                             /\ q \in busy' <=> q \in busy
                             /\ q \in Bodies(magic', second') <=> q \in Bodies(magic, second),
         \A q \in (Page \cap P) \ {p} :
            Sound(q, On(Held, q), magic'[q], bitmap'[q], second'[q],
                  q \in busy', q \in Bodies(magic', second')),
         Sound(p, On(Held, p) \cup {Block(pointer, size)}, magic'[p], bitmap'[p], second'[p],
               p \in busy', p \in Bodies(magic', second'))
  PROVE  /\ Layout(Held', busy', magic', bitmap', second')
         /\ \A b \in Held' : live'[b] = 1 /\ PageAt(b.pointer) \in Page
<1>1. PICK b : b = Block(pointer, size)
  OBVIOUS
<1>2. PageAt(b.pointer) = p /\ b \notin Held
  BY <1>1 DEF Block, On
<1>3. PICK G, cs, ng, cm, tc, B, C :
        /\ G = Held' /\ cs = busy' /\ ng = magic' /\ cm = bitmap' /\ tc = second'
        /\ B = Bodies(magic, second) /\ C = Bodies(ng, tc)
  OBVIOUS
<1>4. /\ G = Held \cup {b}
      /\ live'[b] = 1
      /\ \A a \in Held : a # b /\ live[a] = 1 => live'[a] = 1
  BY <1>1, <1>2, <1>3, HandOutHolds DEF Block
<1>5. On(G, p) = On(Held, p) \cup {b} /\ \A q : q # p => On(G, q) = On(Held, q)
  BY <1>2, <1>4 DEF On
<1>6. Layout(G, cs, ng, cm, tc)
  <2>1. \A q \in Page \cap P :
          Sound(q, On(G, q), ng[q], cm[q], tc[q], q \in cs, q \in C)
    <3>1. Sound(p, On(G, p), ng[p], cm[p], tc[p], p \in cs, p \in C)
      BY <1>1, <1>3, <1>5
    <3>2. ASSUME NEW q \in (Page \cap P) \ {p}
          PROVE  Sound(q, On(G, q), ng[q], cm[q], tc[q], q \in cs, q \in C)
      BY <1>3, <1>5
    <3> QED BY <3>1, <3>2
  <2>2. \A q \in Page \ P : /\ On(G, q) = On(Held, q)
                            /\ ng[q] = magic[q] /\ cm[q] = bitmap[q] /\ tc[q] = second[q]
                            /\ q \in cs <=> q \in busy
                            /\ q \in C <=> q \in B
    BY <1>3, <1>5
  <2>3. Layout(Held, busy, magic, bitmap, second)
    BY DEF Working
  <2> QED BY <1>3, <2>1, <2>2, <2>3, LayoutChanges
<1>7. \A a \in Held' : live'[a] = 1 /\ PageAt(a.pointer) \in Page
  BY <1>2, <1>3, <1>4 DEF Working
<1> QED BY <1>3, <1>6, <1>7

(* A call that takes back a block on page p changes the use of the pages   *)
(* of P only.                                                              *)
LEMMA TakeBackOnPages ==
  ASSUME Working, NEW P, NEW p \in P, p \in Page, NEW b \in Held, TakeBack(b),
         PageAt(b.pointer) = p,
         \A q \in Page \ P : /\ magic'[q] = magic[q] /\ bitmap'[q] = bitmap[q]
                             /\ second'[q] = second[q]
                             /\ q \in busy' <=> q \in busy
                             /\ q \in Bodies(magic', second') <=> q \in Bodies(magic, second),
         \A q \in (Page \cap P) \ {p} :
            Sound(q, On(Held, q), magic'[q], bitmap'[q], second'[q],
                  q \in busy', q \in Bodies(magic', second')),
         Sound(p, On(Held, p) \ {b}, magic'[p], bitmap'[p], second'[p],
               p \in busy', p \in Bodies(magic', second'))
  PROVE  /\ Layout(Held', busy', magic', bitmap', second')
         /\ \A a \in Held' : live'[a] = 1 /\ PageAt(a.pointer) \in Page
<1>1. PICK G, cs, ng, cm, tc, B, C :
        /\ G = Held' /\ cs = busy' /\ ng = magic' /\ cm = bitmap' /\ tc = second'
        /\ B = Bodies(magic, second) /\ C = Bodies(ng, tc)
  OBVIOUS
<1>2. G = Held \ {b} /\ \A a \in Held' : live'[a] = 1
  BY <1>1, TakeBackHolds DEF Working
<1>3. On(G, p) = On(Held, p) \ {b} /\ \A q : q # p => On(G, q) = On(Held, q)
  BY <1>2 DEF On
<1>4. Layout(G, cs, ng, cm, tc)
  <2>1. \A q \in Page \cap P :
          Sound(q, On(G, q), ng[q], cm[q], tc[q], q \in cs, q \in C)
    <3>1. Sound(p, On(G, p), ng[p], cm[p], tc[p], p \in cs, p \in C)
      BY <1>1, <1>3
    <3>2. ASSUME NEW q \in (Page \cap P) \ {p}
          PROVE  Sound(q, On(G, q), ng[q], cm[q], tc[q], q \in cs, q \in C)
      BY <1>1, <1>3
    <3> QED BY <3>1, <3>2
  <2>2. \A q \in Page \ P : /\ On(G, q) = On(Held, q)
                            /\ ng[q] = magic[q] /\ cm[q] = bitmap[q] /\ tc[q] = second[q]
                            /\ q \in cs <=> q \in busy
                            /\ q \in C <=> q \in B
    BY <1>1, <1>3
  <2>3. Layout(Held, busy, magic, bitmap, second)
    BY DEF Working
  <2> QED BY <1>1, <2>1, <2>2, <2>3, LayoutChanges
<1>5. \A a \in Held' : live'[a] = 1 /\ PageAt(a.pointer) \in Page
  BY <1>1, <1>2 DEF Working
<1> QED BY <1>1, <1>4, <1>5

(* What a call that stops the kernel has not found. *)
Short ==
  /\ UNCHANGED pageVars
  /\ stopped' \in Nat \ {0} /\ ~Found(stopped')

(* What a call has to leave. *)
Leaves ==
  /\ Layout(Held', busy', magic', bitmap', second')
  /\ \A b \in Held' : live'[b] = 1 /\ PageAt(b.pointer) \in Page
  /\ Chained(smallblock', magic', second')
  /\ stopped' # Running => Short

(* A call that hands out a block on page p, which counts for as many pages *)
(* as before, changes the use of this page only.                           *)
LEMMA HandOutOnPage ==
  ASSUME Working, NEW p \in Page, NEW pointer, NEW size, HandOut(pointer, size),
         PageAt(pointer) = p, Block(pointer, size) \notin On(Held, p),
         p \notin Bodies(magic, second),
         Span(p, magic'[p], second'[p]) = Span(p, magic[p], second[p]),
         \A q \in Page \ {p} : /\ magic'[q] = magic[q] /\ bitmap'[q] = bitmap[q]
                               /\ second'[q] = second[q]
                               /\ q \in busy' <=> q \in busy,
         Sound(p, On(Held, p) \cup {Block(pointer, size)}, magic'[p], bitmap'[p],
               second'[p], p \in busy', FALSE)
  PROVE  /\ Layout(Held', busy', magic', bitmap', second')
         /\ \A b \in Held' : live'[b] = 1 /\ PageAt(b.pointer) \in Page
<1>1. Bodies(magic', second') = Bodies(magic, second)
  <2>1. PICK ng, tc, mg, sc : ng = magic' /\ tc = second' /\ mg = magic /\ sc = second
    OBVIOUS
  <2>2. \A h \in Page : Span(h, ng[h], tc[h]) = Span(h, mg[h], sc[h])
    BY <2>1
  <2>3. Bodies(ng, tc) = Bodies(mg, sc)
    BY <2>2, BodiesSame
  <2> QED BY <2>1, <2>3
<1>2. PICK P : P = {p}
  OBVIOUS
<1>3. /\ p \in P
      /\ \A q \in Page \ P : /\ magic'[q] = magic[q] /\ bitmap'[q] = bitmap[q]
                             /\ second'[q] = second[q]
                             /\ q \in busy' <=> q \in busy
                             /\ q \in Bodies(magic', second') <=> q \in Bodies(magic, second)
      /\ (Page \cap P) \ {p} = {}
  BY <1>1, <1>2
<1>4. (p \in Bodies(magic', second')) = FALSE
  BY <1>1
<1>5. Sound(p, On(Held, p) \cup {Block(pointer, size)}, magic'[p], bitmap'[p], second'[p],
            p \in busy', p \in Bodies(magic', second'))
  BY <1>4
<1> QED BY <1>3, <1>5, HandOutOnPages

(* So does a call that takes back a block on page p.                       *)
LEMMA TakeBackOnPage ==
  ASSUME Working, NEW p \in Page, NEW b \in Held, TakeBack(b), PageAt(b.pointer) = p,
         p \notin Bodies(magic, second),
         Span(p, magic'[p], second'[p]) = Span(p, magic[p], second[p]),
         \A q \in Page \ {p} : /\ magic'[q] = magic[q] /\ bitmap'[q] = bitmap[q]
                               /\ second'[q] = second[q]
                               /\ q \in busy' <=> q \in busy,
         Sound(p, On(Held, p) \ {b}, magic'[p], bitmap'[p], second'[p], p \in busy', FALSE)
  PROVE  /\ Layout(Held', busy', magic', bitmap', second')
         /\ \A a \in Held' : live'[a] = 1 /\ PageAt(a.pointer) \in Page
<1>1. Bodies(magic', second') = Bodies(magic, second)
  <2>1. PICK ng, tc, mg, sc : ng = magic' /\ tc = second' /\ mg = magic /\ sc = second
    OBVIOUS
  <2>2. \A h \in Page : Span(h, ng[h], tc[h]) = Span(h, mg[h], sc[h])
    BY <2>1
  <2>3. Bodies(ng, tc) = Bodies(mg, sc)
    BY <2>2, BodiesSame
  <2> QED BY <2>1, <2>3
<1>2. PICK P : P = {p}
  OBVIOUS
<1>3. /\ p \in P
      /\ \A q \in Page \ P : /\ magic'[q] = magic[q] /\ bitmap'[q] = bitmap[q]
                             /\ second'[q] = second[q]
                             /\ q \in busy' <=> q \in busy
                             /\ q \in Bodies(magic', second') <=> q \in Bodies(magic, second)
      /\ (Page \cap P) \ {p} = {}
  BY <1>1, <1>2
<1>4. (p \in Bodies(magic', second')) = FALSE
  BY <1>1
<1>5. Sound(p, On(Held, p) \ {b}, magic'[p], bitmap'[p], second'[p],
            p \in busy', p \in Bodies(magic', second'))
  BY <1>4
<1> QED BY <1>3, <1>5, TakeBackOnPages

(* A search that ends with free pages takes pages that nobody uses. *)
LEMMA RunTaken ==
  ASSUME Working, NEW n \in Nat \ {0}, AllocPages(n),
         (FirstOf(n)..LastOf(n)) \cap busy = {}
  PROVE  \E p \in Page :
           /\ p = FirstOf(n) /\ p \in Nat /\ p \in p..(p + n - 1)
           /\ p..(p + n - 1) \subseteq Page
           /\ \A q \in p..(p + n - 1) :
                /\ q \notin busy /\ q # 0 /\ q \notin Bodies(magic, second)
                /\ magic[q] \in {"none", "erased"} /\ On(Held, q) = {}
           /\ busy' = busy \cup p..(p + n - 1) /\ stopped' = stopped
<1>1. Found(n) /\ page_alloc_hint \in Page
  BY DEF AllocPages, Working, TypeOK
<1>2. PICK p, l : p = FirstOf(n) /\ l = LastOf(n)
  OBVIOUS
<1>3. l \in Page /\ p \in Nat /\ p = l - n + 1 /\ p..l \subseteq Page
  BY <1>1, <1>2, FoundTyped
<1>4. l \in Nat
  BY <1>3, Sizes
<1>5. l = p + n - 1 /\ p \in p..(p + n - 1)
  BY <1>3, <1>4
<1>6. p..(p + n - 1) \subseteq Page /\ p \in Page
  BY <1>3, <1>5
<1>7. ASSUME NEW q \in p..(p + n - 1)
      PROVE  /\ q \notin busy /\ q # 0 /\ q \notin Bodies(magic, second)
             /\ magic[q] \in {"none", "erased"} /\ On(Held, q) = {}
  <2>1. q \in Page /\ q \notin busy
    BY <1>2, <1>5, <1>6
  <2>2. Sound(q, On(Held, q), magic[q], bitmap[q], second[q], q \in busy,
              q \in Bodies(magic, second))
    BY <2>1 DEF Working, Layout
  <2>3. (q \in busy) = FALSE
    BY <2>1
  <2>4. PICK inner : inner = (q \in Bodies(magic, second))
    OBVIOUS
  <2>5. Sound(q, On(Held, q), magic[q], bitmap[q], second[q], FALSE, inner)
    BY <2>2, <2>3, <2>4
  <2>6. q # 0 /\ magic[q] \in {"none", "erased"} /\ On(Held, q) = {} /\ ~inner
    BY <2>5, FreeIsSound
  <2> QED BY <2>1, <2>4, <2>6
<1>8. busy' = busy \cup p..(p + n - 1) /\ stopped' = stopped
  BY <1>2, <1>5 DEF AllocPages
<1> QED BY <1>2, <1>3, <1>5, <1>6, <1>7, <1>8

(* A search for one page that succeeds takes one that nobody uses. *)
LEMMA FreePageTaken ==
  ASSUME Working, AllocPages(1)
  PROVE  \E p \in Page :
           /\ p = FirstOf(1) /\ p \notin busy /\ p \in Nat /\ p # 0
           /\ p \notin Bodies(magic, second)
           /\ magic[p] \in {"none", "erased"} /\ On(Held, p) = {}
           /\ busy' = busy \cup {p} /\ stopped' = stopped
<1>1. Found(1) /\ page_alloc_hint \in Page
  BY DEF AllocPages, Working, TypeOK
<1>2. FirstOf(1) = LastOf(1) /\ FirstOf(1) \in Page \ busy
  BY <1>1, OnePageFound
<1>3. PICK n : n = 1
  OBVIOUS
<1>4. n \in Nat \ {0} /\ AllocPages(n) /\ (FirstOf(n)..LastOf(n)) \cap busy = {}
  <2>1. PICK p : p = FirstOf(1)
    OBVIOUS
  <2>2. p \in Nat
    BY <1>2, <2>1, Sizes
  <2>3. p..p = {p}
    BY <2>2
  <2>4. FirstOf(n) = p /\ LastOf(n) = p /\ p \notin busy
    BY <1>2, <1>3, <2>1
  <2>5. (FirstOf(n)..LastOf(n)) \cap busy = {}
    BY <2>3, <2>4
  <2> QED BY <1>3, <2>5
<1>5. PICK p \in Page :
           /\ p = FirstOf(n) /\ p \in Nat /\ p \in p..(p + n - 1)
           /\ p..(p + n - 1) \subseteq Page
           /\ \A q \in p..(p + n - 1) :
                /\ q \notin busy /\ q # 0 /\ q \notin Bodies(magic, second)
                /\ magic[q] \in {"none", "erased"} /\ On(Held, q) = {}
           /\ busy' = busy \cup p..(p + n - 1) /\ stopped' = stopped
  BY <1>4, RunTaken
<1>6. p..(p + n - 1) = {p}
  BY <1>3, <1>5
<1> QED BY <1>3, <1>5, <1>6

(* A page for a packet. *)
LEMMA AllocPageLeaves ==
  ASSUME Working, stopped = Running, AllocPage
  PROVE  Leaves
<1>1. PICK p \in Page :
           /\ p = FirstOf(1) /\ p \notin busy /\ p \in Nat /\ p # 0
           /\ p \notin Bodies(magic, second)
           /\ magic[p] \in {"none", "erased"} /\ On(Held, p) = {}
           /\ busy' = busy \cup {p} /\ stopped' = stopped
  BY FreePageTaken DEF AllocPage
<1>2. /\ HandOut(Address(p), PAGE_SIZE)
      /\ magic' = [magic EXCEPT ![p] = "data"]
      /\ UNCHANGED <<smallblock, bitmap, second>>
  BY <1>1 DEF AllocPage
<1>3. magic'[p] = "data" /\ \A q \in Page \ {p} : magic'[q] = magic[q]
  BY <1>2 DEF Working, TypeOK
<1>4. PageAt(Address(p)) = p
  <2>1. PageAt(Address(p) + 0) = p /\ Address(p) \in Nat
    BY <1>1, Sizes, AddressInPage, AddressTyped
  <2> QED BY <2>1
<1>5. Sound(p, On(Held, p) \cup {Block(Address(p), PAGE_SIZE)}, magic'[p], bitmap'[p],
            second'[p], p \in busy', FALSE)
  <2>1. On(Held, p) \cup {Block(Address(p), PAGE_SIZE)} = {Block(Address(p), PAGE_SIZE)}
    BY <1>1
  <2>2. DataPage(p, On(Held, p) \cup {Block(Address(p), PAGE_SIZE)}, magic'[p])
    BY <1>3, <2>1 DEF DataPage
  <2> QED BY <1>1, <2>2 DEF Sound
<1>6. \A q \in Page \ {p} : /\ magic'[q] = magic[q] /\ bitmap'[q] = bitmap[q]
                            /\ second'[q] = second[q]
                            /\ q \in busy' <=> q \in busy
  BY <1>1, <1>2, <1>3
<1>7. /\ Layout(Held', busy', magic', bitmap', second')
      /\ \A b \in Held' : live'[b] = 1 /\ PageAt(b.pointer) \in Page
  <2>1. Block(Address(p), PAGE_SIZE) \notin On(Held, p)
    BY <1>1
  <2>2. Span(p, magic'[p], second'[p]) = Span(p, magic[p], second[p])
    BY <1>1, <1>3 DEF Span
  <2> QED BY <1>1, <1>2, <1>4, <1>5, <1>6, <2>1, <2>2, HandOutOnPage
<1>8. Chained(smallblock', magic', second')
  <2>1. Chained(smallblock, magic, second) /\ smallblock \in [Class -> Seq(Page)]
    BY DEF Working, TypeOK
  <2>2. PICK ng, tc : ng = magic' /\ tc = second'
    OBVIOUS
  <2>3. magic[p] # "small" /\ ng[p] # "small"
    BY <1>1, <1>3, <2>2
  <2>4. Elsewhere(p, magic, second, ng, tc)
    BY <1>6, <2>2 DEF Elsewhere
  <2>5. Chained(smallblock, ng, tc)
    BY <2>1, <2>3, <2>4, ChainedOther
  <2> QED BY <1>2, <2>2, <2>5
<1> QED BY <1>1, <1>7, <1>8 DEF Leaves

(* A big block takes its pages, if they are free. *)
LEMMA MallocBigLeaves ==
  ASSUME Working, stopped = Running, NEW size \in Wanted, MallocBig(size),
         (FirstOf(PagesFor(size))..LastOf(PagesFor(size))) \cap busy = {}
  PROVE  Leaves
<1>1. PICK n : n = PagesFor(size)
  OBVIOUS
<1>2. n \in Nat \ {0}
  BY <1>1, WantedTyped, PagesForBounds
<1>3. PICK p \in Page :
           /\ p = FirstOf(n) /\ p \in Nat /\ p \in p..(p + n - 1)
           /\ p..(p + n - 1) \subseteq Page
           /\ \A q \in p..(p + n - 1) :
                /\ q \notin busy /\ q # 0 /\ q \notin Bodies(magic, second)
                /\ magic[q] \in {"none", "erased"} /\ On(Held, q) = {}
           /\ busy' = busy \cup p..(p + n - 1) /\ stopped' = stopped
  <2>1. AllocPages(n) /\ (FirstOf(n)..LastOf(n)) \cap busy = {}
    BY <1>1 DEF MallocBig
  <2> QED BY <1>2, <2>1, RunTaken
<1>4. PICK P : P = p..(p + n - 1)
  OBVIOUS
<1>5. /\ HandOut(Address(p) + BIGBLOCK_INFO, size)
      /\ magic' = [magic EXCEPT ![p] = "big"]
      /\ second' = [second EXCEPT ![p] = n]
      /\ UNCHANGED <<smallblock, bitmap>>
  BY <1>1, <1>3 DEF MallocBig
<1>6. /\ magic'[p] = "big" /\ second'[p] = n
      /\ \A q \in Page \ {p} : magic'[q] = magic[q] /\ second'[q] = second[q]
  BY <1>5 DEF Working, TypeOK
<1>7. PageAt(Address(p) + BIGBLOCK_INFO) = p
  BY <1>3, Sizes, AddressInPage
<1>8. PICK b : b = Block(Address(p) + BIGBLOCK_INFO, size)
  OBVIOUS
<1>9. Bodies(magic', second') = Bodies(magic, second) \cup (p + 1)..(p + n - 1)
  <2>1. PICK mg, sc, ng, tc : mg = magic /\ sc = second /\ ng = magic' /\ tc = second'
    OBVIOUS
  <2>2. /\ Span(p, mg[p], sc[p]) = 1 /\ Span(p, ng[p], tc[p]) = n
        /\ \A h \in Page \ {p} : Span(h, ng[h], tc[h]) = Span(h, mg[h], sc[h])
    BY <1>3, <1>6, <2>1 DEF Span
  <2>3. Behind(p, n) = (p + 1)..(p + n - 1)
    BY DEF Behind
  <2>4. Behind(p, n) \subseteq Page
    <3>1. \A q \in (p + 1)..(p + n - 1) : q \in p..(p + n - 1)
      BY <1>2, <1>3
    <3> QED BY <1>3, <2>3, <3>1
  <2>5. Spreads(mg, sc, ng, tc, p, n)
    BY <2>2, <2>4 DEF Spreads
  <2>6. Bodies(ng, tc) = Bodies(mg, sc) \cup Behind(p, n)
    BY ONLY <2>5, BodiesMore
  <2> QED BY <2>1, <2>3, <2>6
<1>10. Sound(p, On(Held, p) \cup {b}, magic'[p], bitmap'[p], second'[p],
             p \in busy', p \in Bodies(magic', second'))
  <2>1. On(Held, p) \cup {b} = {b}
    BY <1>3
  <2>2. n \in 1..(PAGES - p)
    BY <1>2, <1>3, Sizes DEF Page
  <2>3. BigPage(p, On(Held, p) \cup {b}, magic'[p], second'[p])
    BY <1>1, <1>6, <1>8, <2>1, <2>2 DEF BigPage
  <2>4. p \notin Bodies(magic', second') /\ p \in busy' /\ p # 0
    BY <1>3, <1>9
  <2> QED BY <2>3, <2>4 DEF Sound
<1>11. ASSUME NEW q \in (Page \cap P) \ {p}
       PROVE  Sound(q, On(Held, q), magic'[q], bitmap'[q], second'[q],
                    q \in busy', q \in Bodies(magic', second'))
  <2>1. q \in p..(p + n - 1) /\ q # p
    BY <1>4
  <2>2. q \in (p + 1)..(p + n - 1)
    BY <1>2, <1>3, <2>1
  <2>3. q \in busy' /\ q \in Bodies(magic', second') /\ FreePage(On(Held, q), magic'[q])
    BY <1>3, <1>6, <1>9, <2>1, <2>2 DEF FreePage
  <2> QED BY <2>3 DEF Sound
<1>12. ASSUME NEW q \in Page \ P
       PROVE  /\ magic'[q] = magic[q] /\ bitmap'[q] = bitmap[q]
              /\ second'[q] = second[q]
              /\ q \in busy' <=> q \in busy
              /\ q \in Bodies(magic', second') <=> q \in Bodies(magic, second)
  <2>1. q \notin p..(p + n - 1) /\ q # p
    BY <1>3, <1>4
  <2>2. q \notin (p + 1)..(p + n - 1)
    BY <1>2, <1>3, <2>1
  <2> QED BY <1>3, <1>5, <1>6, <1>9, <2>1, <2>2
<1>13. /\ Layout(Held', busy', magic', bitmap', second')
       /\ \A a \in Held' : live'[a] = 1 /\ PageAt(a.pointer) \in Page
  <2>1. b \notin On(Held, p) /\ p \in P
    BY <1>3, <1>4
  <2> QED BY <1>5, <1>7, <1>8, <1>10, <1>11, <1>12, <2>1, HandOutOnPages
<1>14. Chained(smallblock', magic', second')
  <2>1. Chained(smallblock, magic, second) /\ smallblock \in [Class -> Seq(Page)]
    BY DEF Working, TypeOK
  <2>2. PICK ng, tc : ng = magic' /\ tc = second'
    OBVIOUS
  <2>3. magic[p] # "small" /\ ng[p] # "small"
    BY <1>3, <1>6, <2>2
  <2>4. Elsewhere(p, magic, second, ng, tc)
    BY <1>6, <2>2 DEF Elsewhere
  <2>5. Chained(smallblock, ng, tc)
    BY <2>1, <2>3, <2>4, ChainedOther
  <2> QED BY <1>5, <2>2, <2>5
<1> QED BY <1>3, <1>13, <1>14 DEF Leaves

-----------------------------------------------------------------------------
(* Pages of pieces.                                                        *)

(* Where a piece is. *)
LEMMA PieceAddress ==
  ASSUME NEW p \in Nat, NEW c \in Class, NEW sec, sec = blocksize[c],
         NEW j \in 1..(PAGE_SIZE \div sec - 1)
  PROVE  /\ sec \in Nat \ {0} /\ j \in Nat \ {0}
         /\ j * sec \in Nat /\ sec <= j * sec /\ j * sec + sec <= PAGE_SIZE
         /\ BIGBLOCK_INFO <= j * sec
         /\ PageAt(Address(p) + j * sec) = p
         /\ PageBoundary(Address(p) + j * sec) = Address(p)
         /\ (j * sec) \div sec = j
<1>1. sec \in Nat \ {0} /\ BIGBLOCK_INFO <= sec
  BY ClassSizes, Sizes
<1>2. j * sec \in Nat /\ sec <= j * sec /\ j * sec + sec <= PAGE_SIZE /\ j \in Nat \ {0}
  <2>1. PAGE_SIZE \in Nat /\ sec \in Nat \ {0}
    BY <1>1, Sizes
  <2>2. j \in 1..(PAGE_SIZE - 1)
    BY <2>1, PieceWithin
  <2>3. j * sec \in Nat /\ sec <= j * sec /\ j * sec + sec <= PAGE_SIZE
    BY <2>1, PieceWithin
  <2> QED BY <2>1, <2>2, <2>3
<1>3. PICK k : k = j * sec
  OBVIOUS
<1>4. k \in 0..(PAGE_SIZE - 1) /\ BIGBLOCK_INFO <= k
  BY <1>1, <1>2, <1>3, Sizes
<1>5. PageAt(Address(p) + k) = p /\ PageBoundary(Address(p) + k) = Address(p)
  BY <1>4, AddressInPage
<1>6. k \div sec = j
  <2>1. PICK z : z = 0
    OBVIOUS
  <2>2. k = sec * j + z /\ z \in 0..(sec - 1) /\ k \in Int /\ j \in Int
    BY <1>1, <1>2, <1>3, <2>1, SMT
  <2> QED BY <1>1, <2>2, Quotient
<1> QED BY <1>1, <1>2, <1>3, <1>4, <1>5, <1>6

(* Different pieces do not overlap. *)
LEMMA PiecesApart ==
  ASSUME NEW sec \in Nat \ {0}, NEW i \in Nat, NEW j \in Nat, i < j
  PROVE  i * sec + sec <= j * sec
<1>1. PICK x, y : x = i * sec /\ y = j * sec
  OBVIOUS
<1>2. x \in Int /\ y \in Int /\ sec * (j - i) = y - x
  BY <1>1, SMT
<1>3. sec * (j - i) >= sec
  BY Multiple, j - i \in Int, j - i >= 1
<1> QED BY <1>1, <1>2, <1>3

(* The first piece of a new page. *)
LEMMA PiecesBegin ==
  ASSUME NEW p \in Nat, NEW c \in Class, NEW sec, sec = blocksize[c],
         NEW size \in 1..sec, NEW b, b = Block(Address(p) + sec, size)
  PROVE  PiecesPage(p, {b}, "small", {1}, sec) /\ PageAt(b.pointer) = p
<1>1. sec \in Nat \ {0} /\ 2 * sec <= PAGE_SIZE /\ PAGE_SIZE \in Nat
  BY ClassSizes, Sizes
<1>2. 1 \in 1..(PAGE_SIZE \div sec - 1)
  <2>1. PAGE_SIZE \div sec \in Nat /\ PAGE_SIZE \div sec >= 2
    BY <1>1, TwoPieces
  <2> QED BY <2>1
<1>3. PICK one : one = 1
  OBVIOUS
<1>4. one \in 1..(PAGE_SIZE \div sec - 1) /\ one * sec = sec
  BY <1>1, <1>2, <1>3
<1>5. PageAt(Address(p) + one * sec) = p
  BY <1>4, PieceAddress
<1>6. PageAt(b.pointer) = p
  BY <1>4, <1>5 DEF Block
<1>7. PICK f : f = [j \in {1} |-> size]
  OBVIOUS
<1>8. f \in [{1} -> 1..sec]
  BY <1>7
<1>9. {b} = {Block(Address(p) + j * sec, f[j]) : j \in {1}}
  <2>1. Block(Address(p) + 1 * sec, f[1]) = b
    BY <1>3, <1>4, <1>7
  <2> QED BY <2>1
<1> QED BY <1>2, <1>6, <1>8, <1>9 DEF PiecesPage

(* One more piece in use. *)
PieceAdded(p, on, bits, sec, j, size) ==
  LET b == Block(Address(p) + j * sec, size)
  IN  /\ PiecesPage(p, on \cup {b}, "small", bits \cup {j}, sec)
      /\ PageAt(b.pointer) = p /\ b \notin on

(* A piece that is not in use may be handed out. *)
LEMMA PiecesMore ==
  ASSUME NEW p \in Nat, NEW on, NEW bits, NEW sec, PiecesPage(p, on, "small", bits, sec)
  PROVE  \A j \in 1..(PAGE_SIZE \div sec - 1) : \A size \in 1..sec :
           j \notin bits => PieceAdded(p, on, bits, sec, j, size)
<1>a. SUFFICES ASSUME NEW j \in 1..(PAGE_SIZE \div sec - 1), NEW size \in 1..sec,
                      j \notin bits
               PROVE  PieceAdded(p, on, bits, sec, j, size)
  OBVIOUS
<1>0. PICK b : b = Block(Address(p) + j * sec, size)
  OBVIOUS
<1>1. PICK c \in Class : sec = blocksize[c]
  BY DEF PiecesPage
<1>2. PICK f \in [bits -> 1..sec] :
          on = {Block(Address(p) + i * sec, f[i]) : i \in bits}
  BY DEF PiecesPage
<1>3. bits \subseteq 1..(PAGE_SIZE \div sec - 1)
  BY DEF PiecesPage
<1>4. PageAt(b.pointer) = p
  BY <1>0, <1>1, PieceAddress DEF Block
<1>5. b \notin on
  <2>1. SUFFICES ASSUME NEW i \in bits, b = Block(Address(p) + i * sec, f[i]) PROVE FALSE
    BY <1>2
  <2>2. Address(p) + j * sec = Address(p) + i * sec
    BY <1>0, <2>1 DEF Block
  <2>3. /\ sec \in Nat \ {0} /\ i \in Nat /\ j \in Nat /\ i # j
        /\ i * sec \in Nat /\ j * sec \in Nat
    BY <1>1, <1>3, <1>a, PieceAddress
  <2>4. Address(p) \in Nat
    BY AddressTyped
  <2>5. PICK x, y : x = i * sec /\ y = j * sec
    OBVIOUS
  <2>6. x + sec <= y \/ y + sec <= x
    <3>1. CASE i < j
      BY <2>3, <2>5, <3>1, PiecesApart
    <3>2. CASE j < i
      BY <2>3, <2>5, <3>2, PiecesApart
    <3> QED BY <2>3, <3>1, <3>2
  <2> QED BY <2>2, <2>3, <2>4, <2>5, <2>6
<1>6. PICK g : g = [i \in bits \cup {j} |-> IF i = j THEN size ELSE f[i]]
  OBVIOUS
<1>7. g \in [bits \cup {j} -> 1..sec] /\ g[j] = size /\ \A i \in bits : g[i] = f[i]
  <2>1. size \in 1..sec /\ j \notin bits
    BY <1>a
  <2> QED BY ONLY <1>2, <1>6, <2>1
<1>8. on \cup {b} = {Block(Address(p) + i * sec, g[i]) : i \in bits \cup {j}}
  BY <1>0, <1>2, <1>7
<1>9. bits \cup {j} \subseteq 1..(PAGE_SIZE \div sec - 1)
  BY <1>3
<1>10. PiecesPage(p, on \cup {b}, "small", bits \cup {j}, sec)
  BY <1>1, <1>7, <1>8, <1>9 DEF PiecesPage
<1> QED BY <1>0, <1>4, <1>5, <1>10 DEF PieceAdded

(* One piece given back. *)
LEMMA PiecesLess ==
  ASSUME NEW p \in Nat, NEW on, NEW mag, NEW bits, NEW sec,
         PiecesPage(p, on, mag, bits, sec), NEW b \in on
  PROVE  \E j \in bits : /\ b.pointer = Address(p) + j * sec
                         /\ j \in 1..(PAGE_SIZE \div sec - 1)
                         /\ PiecesPage(p, on \ {b}, mag, bits \ {j}, sec)
<1>1. PICK c \in Class : sec = blocksize[c]
  BY DEF PiecesPage
<1>2. PICK f \in [bits -> 1..sec] :
          on = {Block(Address(p) + i * sec, f[i]) : i \in bits}
  BY DEF PiecesPage
<1>3. bits \subseteq 1..(PAGE_SIZE \div sec - 1) /\ mag = "small"
  BY DEF PiecesPage
<1>4. PICK j \in bits : b = Block(Address(p) + j * sec, f[j])
  BY <1>2
<1>5. ASSUME NEW i \in bits, i # j
      PROVE  Block(Address(p) + i * sec, f[i]) # b
  <2>1. SUFFICES ASSUME Address(p) + j * sec = Address(p) + i * sec PROVE FALSE
    BY <1>4 DEF Block
  <2>3. /\ sec \in Nat \ {0} /\ i \in Nat /\ j \in Nat /\ i # j
        /\ i * sec \in Nat /\ j * sec \in Nat
    BY <1>1, <1>3, <1>5, PieceAddress
  <2>4. Address(p) \in Nat
    BY AddressTyped
  <2>5. PICK x, y : x = i * sec /\ y = j * sec
    OBVIOUS
  <2>6. x + sec <= y \/ y + sec <= x
    <3>1. CASE i < j
      BY <2>3, <2>5, <3>1, PiecesApart
    <3>2. CASE j < i
      BY <2>3, <2>5, <3>2, PiecesApart
    <3> QED BY <2>3, <3>1, <3>2
  <2> QED BY <2>1, <2>3, <2>4, <2>5, <2>6
<1>6. PICK g : g = [i \in bits \ {j} |-> f[i]]
  OBVIOUS
<1>7. g \in [bits \ {j} -> 1..sec] /\ \A i \in bits \ {j} : g[i] = f[i]
  BY <1>6
<1>8. on \ {b} = {Block(Address(p) + i * sec, g[i]) : i \in bits \ {j}}
  BY <1>2, <1>4, <1>5, <1>7
<1>9. bits \ {j} \subseteq 1..(PAGE_SIZE \div sec - 1)
  BY <1>3
<1>10. PiecesPage(p, on \ {b}, mag, bits \ {j}, sec)
  BY <1>1, <1>3, <1>7, <1>8, <1>9 DEF PiecesPage
<1>11. b.pointer = Address(p) + j * sec
  BY <1>4 DEF Block
<1> QED BY <1>3, <1>10, <1>11

(* A new page of pieces. *)
LEMMA MallocNewPageLeaves ==
  ASSUME Working, stopped = Running, NEW size \in Nat \ {0}, MallocNewPage(size)
  PROVE  Leaves
<1>1. PICK p \in Page :
           /\ p = FirstOf(1) /\ p \notin busy /\ p \in Nat /\ p # 0
           /\ p \notin Bodies(magic, second)
           /\ magic[p] \in {"none", "erased"} /\ On(Held, p) = {}
           /\ busy' = busy \cup {p} /\ stopped' = stopped
  BY FreePageTaken DEF MallocNewPage
<1>2. PICK c : c = ClassOf(size)
  OBVIOUS
<1>3. c \in Class /\ size <= blocksize[c]
  BY <1>2, ClassOfTyped DEF MallocNewPage
<1>4. PICK sec : sec = blocksize[c]
  OBVIOUS
<1>5. /\ smallblock' = [smallblock EXCEPT ![c] = Append(@, p)]
      /\ bitmap' = [bitmap EXCEPT ![p] = bitmap_set({}, 1, TRUE)]
      /\ magic' = [magic EXCEPT ![p] = "small"]
      /\ second' = [second EXCEPT ![p] = sec]
      /\ HandOut(Address(p) + sec, size)
  BY <1>1, <1>2, <1>4 DEF MallocNewPage
<1>6. /\ magic'[p] = "small" /\ second'[p] = sec /\ bitmap'[p] = {1}
      /\ \A q \in Page \ {p} : /\ magic'[q] = magic[q] /\ second'[q] = second[q]
                               /\ bitmap'[q] = bitmap[q]
  BY <1>5 DEF Working, TypeOK, bitmap_set
<1>7. PICK b : b = Block(Address(p) + sec, size)
  OBVIOUS
<1>8. PiecesPage(p, {b}, "small", {1}, sec) /\ PageAt(b.pointer) = p
  <2>1. size \in 1..sec /\ sec \in Nat
    BY <1>3, <1>4, ClassSizes
  <2> QED BY <1>1, <1>3, <1>4, <1>7, <2>1, PiecesBegin
<1>9. PageAt(Address(p) + sec) = p
  BY <1>7, <1>8 DEF Block
<1>10. Sound(p, On(Held, p) \cup {b}, magic'[p], bitmap'[p], second'[p], p \in busy', FALSE)
  <2>1. On(Held, p) \cup {b} = {b}
    BY <1>1
  <2>2. PiecesPage(p, On(Held, p) \cup {b}, magic'[p], bitmap'[p], second'[p])
    BY <1>6, <1>8, <2>1
  <2> QED BY <1>1, <2>2 DEF Sound
<1>11. \A q \in Page \ {p} : /\ magic'[q] = magic[q] /\ bitmap'[q] = bitmap[q]
                             /\ second'[q] = second[q]
                             /\ q \in busy' <=> q \in busy
  BY <1>1, <1>6
<1>12. /\ Layout(Held', busy', magic', bitmap', second')
       /\ \A a \in Held' : live'[a] = 1 /\ PageAt(a.pointer) \in Page
  <2>1. b \notin On(Held, p)
    BY <1>1
  <2>2. Span(p, magic'[p], second'[p]) = Span(p, magic[p], second[p])
    BY <1>1, <1>6 DEF Span
  <2> QED BY <1>1, <1>5, <1>7, <1>9, <1>10, <1>11, <2>1, <2>2, HandOutOnPage
<1>13. Chained(smallblock', magic', second')
  <2>1. Chained(smallblock, magic, second) /\ smallblock \in [Class -> Seq(Page)]
    BY DEF Working, TypeOK
  <2>2. PICK tb, ng, tc : tb = smallblock' /\ ng = magic' /\ tc = second'
    OBVIOUS
  <2>3. magic[p] # "small" /\ ng[p] = "small" /\ tc[p] = blocksize[c]
    BY <1>1, <1>4, <1>6, <2>2
  <2>4. Elsewhere(p, magic, second, ng, tc)
    BY <1>11, <2>2 DEF Elsewhere
  <2>5. tb = [smallblock EXCEPT ![c] = Append(@, p)]
    BY <1>5, <2>2
  <2>6. Chained(tb, ng, tc)
    BY <1>3, <2>1, <2>3, <2>4, <2>5, ChainedMore
  <2> QED BY <2>2, <2>6
<1> QED BY <1>1, <1>12, <1>13 DEF Leaves

(* One more piece of a page with room. *)
LEMMA MallocPieceLeaves ==
  ASSUME Working, stopped = Running, NEW size \in Nat \ {0}, MallocPiece(size)
  PROVE  Leaves
<1>1. PICK c : c = ClassOf(size)
  OBVIOUS
<1>2. c \in Class /\ size <= blocksize[c] /\ PagesWithRoom(c) # {}
  BY <1>1, ClassOfTyped DEF MallocPiece
<1>3. PICK k \in 1..Len(smallblock[c]) :
        /\ Min(PagesWithRoom(c)) = k
        /\ smallblock[c][k] \in Page
        /\ Min(FreePieces(c, smallblock[c][k])) \in FreePieces(c, smallblock[c][k])
  BY <1>2, PieceFound DEF Working
<1>4. PICK p, j : p = smallblock[c][k] /\ j = Min(FreePieces(c, smallblock[c][k]))
  OBVIOUS
<1>5. PICK sec : sec = second[p]
  OBVIOUS
<1>6. /\ p \in Page /\ p \in Nat /\ magic[p] = "small" /\ sec = blocksize[c]
      /\ j \in 1..(PAGE_SIZE \div sec - 1) /\ j \notin bitmap[p]
  BY <1>2, <1>3, <1>4, <1>5, Sizes DEF Working, Chained, FreePieces, bitmap_get
<1>7. /\ bitmap' = [bitmap EXCEPT ![p] = bitmap_set(@, j, TRUE)]
      /\ HandOut(Address(p) + j * sec, size)
      /\ UNCHANGED <<pageVars, smallblock, magic, second, stopped>>
  BY <1>1, <1>3, <1>4, <1>5 DEF MallocPiece
<1>8. /\ bitmap'[p] = bitmap[p] \cup {j}
      /\ \A q \in Page \ {p} : bitmap'[q] = bitmap[q]
  BY <1>6, <1>7 DEF Working, TypeOK, bitmap_set
<1>9. /\ p \in busy /\ p # 0 /\ p \notin Bodies(magic, second)
      /\ PiecesPage(p, On(Held, p), "small", bitmap[p], sec)
  BY <1>5, <1>6, SmallIsSound
<1>10. PICK b : b = Block(Address(p) + j * sec, size)
  OBVIOUS
<1>11. /\ PiecesPage(p, On(Held, p) \cup {b}, "small", bitmap[p] \cup {j}, sec)
       /\ PageAt(b.pointer) = p /\ b \notin On(Held, p)
  <2>1. size \in 1..sec /\ sec \in Nat
    BY <1>2, <1>6, ClassSizes
  <2>2. PICK on, bits : on = On(Held, p) /\ bits = bitmap[p]
    OBVIOUS
  <2>3. /\ p \in Nat /\ PiecesPage(p, on, "small", bits, sec)
        /\ j \in 1..(PAGE_SIZE \div sec - 1) /\ j \notin bits /\ size \in 1..sec
    BY <1>6, <1>9, <2>1, <2>2
  <2>4. PieceAdded(p, on, bits, sec, j, size)
    <3>1. \A i \in 1..(PAGE_SIZE \div sec - 1) : \A s \in 1..sec :
            i \notin bits => PieceAdded(p, on, bits, sec, i, s)
      BY ONLY <2>3, PiecesMore
    <3> QED BY ONLY <2>3, <3>1
  <2> QED BY <1>10, <2>2, <2>4 DEF PieceAdded
<1>12. PageAt(Address(p) + j * sec) = p
  BY <1>10, <1>11 DEF Block
<1>13. busy' = busy /\ magic' = magic /\ second' = second /\ smallblock' = smallblock
       /\ stopped' = stopped
  BY <1>7 DEF pageVars
<1>14. Sound(p, On(Held, p) \cup {b}, magic'[p], bitmap'[p], second'[p], p \in busy', FALSE)
  <2>1. PiecesPage(p, On(Held, p) \cup {b}, magic'[p], bitmap'[p], second'[p])
    BY <1>5, <1>6, <1>8, <1>11, <1>13
  <2> QED BY <1>9, <1>13, <2>1 DEF Sound
<1>15. /\ Layout(Held', busy', magic', bitmap', second')
       /\ \A a \in Held' : live'[a] = 1 /\ PageAt(a.pointer) \in Page
  BY <1>6, <1>7, <1>8, <1>9, <1>10, <1>11, <1>12, <1>13, <1>14, HandOutOnPage
<1> QED BY <1>13, <1>15 DEF Leaves, Working

(* Shutting down in alloc_pages() leaves everything. *)
LEMMA ShutdownLeaves ==
  ASSUME Working, NEW n \in Nat \ {0}, AllocPagesStops(n)
  PROVE  Leaves
BY DEF AllocPagesStops, Shutdown, Leaves, Short, Working, Held, pageVars, blockVars

(* The pages that the search hands out for a big block are free. *)
Sparing ==
  \A size \in Wanted :
    MallocBig(size) => (FirstOf(PagesFor(size))..LastOf(PagesFor(size))) \cap busy = {}

(* malloc() *)
LEMMA MallocLeaves ==
  ASSUME Working, stopped = Running, Sparing, NEW size \in Wanted, Malloc(size)
  PROVE  Leaves
<1>1. size \in Nat \ {0}
  BY WantedTyped
<1>2. CASE MallocPiece(size)
  BY <1>1, <1>2, MallocPieceLeaves
<1>3. CASE MallocNewPage(size)
  BY <1>1, <1>3, MallocNewPageLeaves
<1>4. CASE MallocBig(size)
  BY <1>4, MallocBigLeaves DEF Sparing
<1>5. CASE MallocStops(size)
  <2>1. PICK n \in Nat \ {0} : AllocPagesStops(n)
    BY <1>1, <1>5, PagesForBounds DEF MallocStops
  <2> QED BY <2>1, ShutdownLeaves
<1> QED BY <1>2, <1>3, <1>4, <1>5 DEF Malloc

(* Where a block that may be freed is. *)
LEMMA FreedBlock ==
  ASSUME Working, NEW b \in Held \ Kept
  PROVE  \E p \in Page :
           /\ p = PageAt(b.pointer) /\ p \in Nat /\ p \in busy /\ p # 0
           /\ p \notin Bodies(magic, second) /\ b \in On(Held, p)
           /\ \/ BigPage(p, On(Held, p), magic[p], second[p])
              \/ PiecesPage(p, On(Held, p), magic[p], bitmap[p], second[p])
<1>1. PICK p : p = PageAt(b.pointer)
  OBVIOUS
<1>2. p \in Page /\ p \in Nat /\ b \in On(Held, p) /\ magic[p] # "data"
  BY <1>1, Sizes DEF Working, On, Kept
<1>3. Sound(p, On(Held, p), magic[p], bitmap[p], second[p], p \in busy, p \in Bodies(magic, second))
  BY <1>2 DEF Working, Layout
<1>4. /\ ~TrapPage(p, On(Held, p), magic[p])
      /\ ~DataPage(p, On(Held, p), magic[p])
      /\ ~FreePage(On(Held, p), magic[p])
  BY <1>2 DEF TrapPage, DataPage, FreePage
<1> QED BY <1>1, <1>2, <1>3, <1>4 DEF Sound

(* Freeing pages that are in use. *)
LEMMA FreeRun ==
  ASSUME NEW p \in Page, NEW n \in Nat \ {0}, p + n <= PAGES, p..(p + n - 1) \subseteq busy,
         FreePages(Address(p), n)
  PROVE  busy' = busy \ (p..(p + n - 1)) /\ stopped' = Running
<1>1. p \in Nat /\ PAGES \in Nat /\ KSEG \in Nat
  BY Sizes DEF Page
<1>2. Address(p) \in Nat /\ Address(p) >= KSEG
  BY <1>1, AddressTyped
<1>3. PageAt(Address(p)) = p /\ virtual_to_physical(Address(p)) % PAGE_SIZE = 0
  <2>1. 0 \in 0..(PAGE_SIZE - 1)
    BY Sizes
  <2>2. PageAt(Address(p) + 0) = p /\ virtual_to_physical(Address(p)) % PAGE_SIZE = 0
    BY <1>1, <2>1, AddressInPage
  <2> QED BY <1>2, <2>2
<1>4. ~Refused(Address(p), n)
  BY <1>1, <1>2, <1>3 DEF Refused
<1>5. PICK freed : freed = p..(p + n - 1)
  OBVIOUS
<1>6. \A x \in freed : p..x \subseteq busy
  <2>1. ASSUME NEW x \in freed, NEW y \in p..x PROVE y \in p..(p + n - 1)
    BY <1>1, <1>5, <2>1
  <2> QED BY <2>1
<1>7. /\ busy' = busy \ {x \in freed : p..x \subseteq busy}
      /\ stopped' = IF freed \subseteq busy THEN Running ELSE InFree
  BY <1>3, <1>4, <1>5 DEF FreePages
<1> QED BY <1>5, <1>6, <1>7

(* free() of a big block *)
LEMMA FreeBigLeaves ==
  ASSUME Working, stopped = Running, NEW b \in Held \ Kept, NEW p \in Page,
         p = PageAt(b.pointer), p \in Nat, p \in busy, p # 0,
         p \notin Bodies(magic, second), b \in On(Held, p),
         BigPage(p, On(Held, p), magic[p], second[p]), Free(b)
  PROVE  Leaves
<1>1. PICK size : On(Held, p) = {Block(Address(p) + BIGBLOCK_INFO, size)}
  BY DEF BigPage
<1>2. b = Block(Address(p) + BIGBLOCK_INFO, size)
  BY <1>1
<1>3. b.pointer = Address(p) + BIGBLOCK_INFO
  BY <1>2 DEF Block
<1>4. PageBoundary(b.pointer) = Address(p)
  BY <1>3, Sizes, AddressInPage
<1>5. Address(p) \in Nat /\ Address(p) >= KSEG /\ PageAt(Address(p)) = p
  <2>1. 0 \in 0..(PAGE_SIZE - 1)
    BY Sizes
  <2>2. PageAt(Address(p) + 0) = p
    BY <2>1, AddressInPage
  <2> QED BY <2>2, AddressTyped
<1>6. PICK n : n = second[p]
  OBVIOUS
<1>7. /\ magic[p] = "big" /\ n \in Nat \ {0} /\ p + n <= PAGES
      /\ Span(p, magic[p], second[p]) = n
  BY <1>6, Sizes DEF BigPage, Span
<1>8. PICK P : P = p..(p + n - 1)
  OBVIOUS
<1>9. /\ P \subseteq Page /\ p \in P /\ P = {p} \cup Behind(p, n)
      /\ Behind(p, n) \subseteq Page /\ p \notin Behind(p, n)
  BY <1>7, <1>8, Sizes DEF Behind, Page
<1>10. ASSUME NEW q \in Behind(p, n)
       PROVE  q \in Bodies(magic, second) /\ q # 0 /\ q \in busy /\ FreePage(On(Held, q), magic[q])
  <2>1. q \in Page /\ q \in Bodies(magic, second)
    BY <1>7, <1>9, <1>10 DEF Bodies
  <2>2. Sound(q, On(Held, q), magic[q], bitmap[q], second[q], q \in busy,
              q \in Bodies(magic, second))
    BY <2>1 DEF Working, Layout
  <2>3. (q \in Bodies(magic, second)) = TRUE
    BY <2>1
  <2>4. PICK used : used = (q \in busy)
    OBVIOUS
  <2>5. Sound(q, On(Held, q), magic[q], bitmap[q], second[q], used, TRUE)
    BY <2>2, <2>3, <2>4
  <2>6. magic[q] \in {"none", "erased"} /\ On(Held, q) = {} /\ used
    BY <2>5, InnerIsSound
  <2>7. q # 0
    BY <1>10 DEF Behind
  <2> QED BY <2>1, <2>4, <2>6, <2>7 DEF FreePage
<1>11. FreeBig(b)
  <2>1. ~(Address(p) < KSEG) /\ ~(b.pointer - Address(p) < BIGBLOCK_INFO)
    BY <1>3, <1>5, Sizes
  <2> QED BY <1>4, <1>5, <1>7, <2>1 DEF Free
<1>12. /\ magic' = [magic EXCEPT ![p] = "erased"]
       /\ FreePages(Address(p), n)
       /\ TakeBack(b)
       /\ UNCHANGED <<page_alloc_hint, smallblock, bitmap, second>>
  BY <1>4, <1>5, <1>6, <1>11 DEF FreeBig
<1>13. busy' = busy \ P /\ stopped' = Running
  <2>1. p..(p + n - 1) \subseteq busy
    BY <1>8, <1>9, <1>10
  <2> QED BY <1>7, <1>8, <1>12, <2>1, FreeRun
<1>14. magic'[p] = "erased" /\ \A q \in Page \ {p} : magic'[q] = magic[q]
  BY <1>12 DEF Working, TypeOK
<1>15. Bodies(magic, second) = Bodies(magic', second') \cup Behind(p, n)
  <2>1. PICK mg, sc, ng, tc : mg = magic' /\ sc = second' /\ ng = magic /\ tc = second
    OBVIOUS
  <2>2. /\ Span(p, mg[p], sc[p]) = 1 /\ Span(p, ng[p], tc[p]) = n
        /\ \A h \in Page \ {p} : Span(h, ng[h], tc[h]) = Span(h, mg[h], sc[h])
    BY <1>7, <1>12, <1>14, <2>1 DEF Span
  <2>3. Spreads(mg, sc, ng, tc, p, n)
    BY <1>9, <2>2 DEF Spreads
  <2>4. Bodies(ng, tc) = Bodies(mg, sc) \cup Behind(p, n)
    BY ONLY <2>3, BodiesMore
  <2> QED BY <2>1, <2>4
<1>16. ASSUME NEW q \in Behind(p, n)
       PROVE  q \notin Bodies(magic', second')
  <2>1. SUFFICES ASSUME q \in Bodies(magic', second') PROVE FALSE
    OBVIOUS
  <2>2. PICK h \in Page : q \in Behind(h, Span(h, magic'[h], second'[h]))
    BY <2>1 DEF Bodies
  <2>3. h # p
    <3>1. Span(p, magic'[p], second'[p]) = 1
      BY <1>14 DEF Span
    <3>2. Behind(p, 1) = {}
      BY DEF Behind
    <3> QED BY <2>2, <3>1, <3>2
  <2>4. PICK s : s = Span(h, magic[h], second[h])
    OBVIOUS
  <2>5. q \in Behind(h, s)
    <3>1. magic'[h] = magic[h] /\ second'[h] = second[h]
      BY <1>12, <1>14, <2>3
    <3> QED BY <2>2, <2>4, <3>1
  <2>6. s \in Nat \ {0} /\ h \in Nat
    BY <2>4, SpanTyped, Sizes
  <2>7. h \notin Bodies(magic, second)
    <3>1. s # 1
      BY <2>5, <2>6 DEF Behind
    <3>2. h = 0 \/ magic[h] = "big"
      BY <2>4, <3>1 DEF Span
    <3> QED BY <3>2, HeadNotInner
  <2>8. q \in h..(h + s - 1) /\ q \in p..(p + n - 1)
    BY <1>7, <1>16, <2>5, <2>6 DEF Behind
  <2>9. h \in Page \ Bodies(magic, second) /\ p \in Page \ Bodies(magic, second)
    BY <2>7
  <2>10. h = p
    BY <1>7, <2>4, <2>8, <2>9, SpansApart
  <2> QED BY <2>3, <2>10
<1>17. ASSUME NEW q \in (Page \cap P) \ {p}
       PROVE  Sound(q, On(Held, q), magic'[q], bitmap'[q], second'[q],
                    q \in busy', q \in Bodies(magic', second'))
  <2>1. q \in Behind(p, n)
    BY <1>9
  <2>2. q # 0 /\ FreePage(On(Held, q), magic'[q])
    BY <1>10, <1>14, <2>1
  <2>3. q \notin busy' /\ q \notin Bodies(magic', second')
    BY <1>13, <1>16, <2>1
  <2> QED BY <2>2, <2>3 DEF Sound
<1>18. Sound(p, On(Held, p) \ {b}, magic'[p], bitmap'[p], second'[p],
             p \in busy', p \in Bodies(magic', second'))
  <2>1. On(Held, p) \ {b} = {} /\ p \notin busy' /\ p \notin Bodies(magic', second')
    BY <1>1, <1>2, <1>9, <1>13, <1>15
  <2> QED BY <1>14, <2>1 DEF Sound, FreePage
<1>19. ASSUME NEW q \in Page \ P
       PROVE  /\ magic'[q] = magic[q] /\ bitmap'[q] = bitmap[q]
              /\ second'[q] = second[q]
              /\ q \in busy' <=> q \in busy
              /\ q \in Bodies(magic', second') <=> q \in Bodies(magic, second)
  <2>1. q # p /\ q \notin Behind(p, n)
    BY <1>9
  <2> QED BY <1>12, <1>13, <1>14, <1>15, <2>1
<1>20. /\ Layout(Held', busy', magic', bitmap', second')
       /\ \A a \in Held' : live'[a] = 1 /\ PageAt(a.pointer) \in Page
  BY <1>9, <1>12, <1>17, <1>18, <1>19, TakeBackOnPages
<1>21. Chained(smallblock', magic', second')
  <2>1. Chained(smallblock, magic, second) /\ smallblock \in [Class -> Seq(Page)]
    BY DEF Working, TypeOK
  <2>2. PICK ng, tc : ng = magic' /\ tc = second'
    OBVIOUS
  <2>3. magic[p] # "small" /\ ng[p] # "small"
    BY <1>7, <1>14, <2>2
  <2>4. Elsewhere(p, magic, second, ng, tc)
    BY <1>12, <1>14, <2>2 DEF Elsewhere
  <2>5. Chained(smallblock, ng, tc)
    BY <2>1, <2>3, <2>4, ChainedOther
  <2> QED BY <1>12, <2>2, <2>5
<1> QED BY <1>13, <1>20, <1>21 DEF Leaves

(* free() of a piece *)
LEMMA FreePieceLeaves ==
  ASSUME Working, stopped = Running, NEW b \in Held \ Kept, NEW p \in Page,
         p = PageAt(b.pointer), p \in Nat, p \in busy, p # 0,
         p \notin Bodies(magic, second), b \in On(Held, p),
         PiecesPage(p, On(Held, p), magic[p], bitmap[p], second[p]), Free(b)
  PROVE  Leaves
<1>1. PICK on, bits, sec : on = On(Held, p) /\ bits = bitmap[p] /\ sec = second[p]
  OBVIOUS
<1>2. PICK j \in bits : /\ b.pointer = Address(p) + j * sec
                        /\ j \in 1..(PAGE_SIZE \div sec - 1)
                        /\ PiecesPage(p, on \ {b}, magic[p], bits \ {j}, sec)
  <2>1. PiecesPage(p, on, magic[p], bits, sec) /\ b \in on
    BY <1>1
  <2> QED BY <2>1, PiecesLess
<1>3. PICK c \in Class : sec = blocksize[c]
  BY <1>1 DEF PiecesPage
<1>4. magic[p] = "small"
  BY DEF PiecesPage
<1>5. /\ sec \in Nat \ {0} /\ j \in Nat \ {0} /\ j * sec \in Nat
      /\ BIGBLOCK_INFO <= j * sec
      /\ PageBoundary(Address(p) + j * sec) = Address(p)
      /\ (j * sec) \div sec = j
  BY <1>2, <1>3, PieceAddress
<1>6. Address(p) \in Nat /\ Address(p) >= KSEG /\ PageAt(Address(p)) = p
  <2>1. 0 \in 0..(PAGE_SIZE - 1)
    BY Sizes
  <2>2. PageAt(Address(p) + 0) = p
    BY <2>1, AddressInPage
  <2> QED BY <2>2, AddressTyped
<1>7. PICK k : k = j * sec
  OBVIOUS
<1>8. /\ b.pointer = Address(p) + k /\ k \in Nat /\ BIGBLOCK_INFO <= k
      /\ PageBoundary(b.pointer) = Address(p) /\ k \div sec = j
      /\ b.pointer - Address(p) = k
  BY <1>2, <1>5, <1>6, <1>7
<1>9. FreePiece(b)
  <2>1. ~(Address(p) < KSEG) /\ ~(b.pointer - Address(p) < BIGBLOCK_INFO)
    BY <1>6, <1>8, Sizes
  <2> QED BY <1>4, <1>6, <1>8, <2>1 DEF Free
<1>10. /\ bitmap' = [bitmap EXCEPT ![p] = bitmap_set(@, j, FALSE)]
       /\ stopped' = stopped
  <2>1. (b.pointer - Address(p)) \div sec = j
    BY <1>8
  <2>2. ~(j < 1 \/ b.pointer # Address(p) + j * sec \/ ~bitmap_get(bitmap[p], j))
    BY <1>1, <1>2, <1>5 DEF bitmap_get
  <2> QED BY <1>1, <1>6, <1>8, <1>9, <2>1, <2>2 DEF FreePiece
<1>11. TakeBack(b) /\ UNCHANGED <<pageVars, smallblock, magic, second>>
  BY <1>9 DEF FreePiece
<1>12. bitmap'[p] = bits \ {j} /\ \A q \in Page \ {p} : bitmap'[q] = bitmap[q]
  BY <1>1, <1>10 DEF Working, TypeOK, bitmap_set
<1>13. /\ busy' = busy /\ magic' = magic /\ second' = second /\ smallblock' = smallblock
  BY <1>11 DEF pageVars
<1>14. Sound(p, On(Held, p) \ {b}, magic'[p], bitmap'[p], second'[p], p \in busy', FALSE)
  <2>1. PiecesPage(p, On(Held, p) \ {b}, magic'[p], bitmap'[p], second'[p])
    BY <1>1, <1>2, <1>12, <1>13
  <2> QED BY <1>13, <2>1 DEF Sound
<1>15. /\ Layout(Held', busy', magic', bitmap', second')
       /\ \A a \in Held' : live'[a] = 1 /\ PageAt(a.pointer) \in Page
  <2>1. \A q \in Page \ {p} : /\ magic'[q] = magic[q] /\ bitmap'[q] = bitmap[q]
                              /\ second'[q] = second[q]
                              /\ q \in busy' <=> q \in busy
    BY <1>12, <1>13
  <2>2. Span(p, magic'[p], second'[p]) = Span(p, magic[p], second[p])
    BY <1>13
  <2> QED BY <1>11, <1>14, <2>1, <2>2, TakeBackOnPage
<1> QED BY <1>10, <1>13, <1>15 DEF Leaves, Working

(* free() of what malloc() returned *)
LEMMA FreeLeaves ==
  ASSUME Working, stopped = Running, NEW b \in Held \ Kept, Free(b)
  PROVE  Leaves
BY FreedBlock, FreeBigLeaves, FreePieceLeaves

(* trap_init() takes the first pages. *)
LEMMA TrapInitLeaves ==
  ASSUME TypeOK, Untouched, TrapInit
  PROVE  Leaves /\ trap_stack_top' # 0
<1>1. PICK n : n = TRAP_PAGES * PAGE_SIZE
  OBVIOUS
<1>2. /\ Found(TRAP_PAGES) /\ FirstOf(TRAP_PAGES) = 0 /\ LastOf(TRAP_PAGES) = TRAP_PAGES - 1
  <2>1. PICK h, t : h = page_alloc_hint /\ t = TRAP_PAGES
    OBVIOUS
  <2>2. h = 0 /\ busy = {} /\ h \in Page
    BY <2>1 DEF Untouched, TypeOK
  <2>3. t \in Nat \ {0} /\ h..(h + t - 1) \subseteq Page \ busy
    BY <2>1, <2>2, Sizes DEF Page
  <2>4. Found(t) /\ FirstOf(t) = h /\ LastOf(t) = h + t - 1
    BY <2>1, <2>2, <2>3, RunAtHint
  <2>5. h + t - 1 = t - 1
    BY <2>2, <2>3
  <2> QED BY <2>1, <2>2, <2>4, <2>5
<1>3. /\ busy' = 0..(TRAP_PAGES - 1) /\ stopped' = stopped
      /\ HandOut(Address(0), n)
      /\ magic' = [magic EXCEPT ![0] = "data"]
      /\ trap_stack_top' = Address(0) + n - 4 - CORE_DATA
      /\ UNCHANGED <<smallblock, bitmap, second>>
  BY <1>1, <1>2 DEF TrapInit, AllocPages, Untouched
<1>4. n \in Nat /\ CORE_DATA \in Nat /\ CORE_DATA + 4 < n
  <2>1. n \in Nat
    BY <1>1, Sizes
  <2> QED BY <1>1, <2>1, MemoryAssumption
<1>5. Address(0) \in Nat /\ PageAt(Address(0)) = 0
  <2>1. 0 \in 0..(PAGE_SIZE - 1) /\ 0 \in Nat
    BY Sizes
  <2>2. PageAt(Address(0) + 0) = 0
    BY <2>1, AddressInPage
  <2> QED BY <2>1, <2>2, AddressTyped
<1>6. trap_stack_top' # 0
  BY <1>3, <1>4, <1>5
<1>7. PICK b : b = Block(Address(0), n)
  OBVIOUS
<1>8. Held' = {b} /\ live'[b] = 1 /\ PageAt(b.pointer) = 0
  BY <1>3, <1>5, <1>7, HandOutHolds DEF Block, Untouched
<1>9. ASSUME NEW p \in Page
      PROVE  Sound(p, On(Held', p), magic'[p], bitmap'[p], second'[p],
                   p \in busy', p \in Bodies(magic', second'))
  <2>1. p \in Nat /\ TRAP_PAGES \in Nat \ {0} /\ 0 \in Page
    BY Sizes DEF Page
  <2>2. magic'[p] = IF p = 0 THEN "data" ELSE "none"
    BY <1>3, <2>1 DEF TypeOK, Untouched
  <2>3. \A h \in Page : Span(h, magic'[h], second'[h]) = IF h = 0 THEN TRAP_PAGES ELSE 1
    <3>1. \A h \in Page \ {0} : magic'[h] = "none"
      BY <1>3, <2>1 DEF TypeOK, Untouched
    <3> QED BY <3>1 DEF Span
  <2>4. p \in Bodies(magic', second') <=> p \in 1..(TRAP_PAGES - 1)
    <3>1. ASSUME p \in 1..(TRAP_PAGES - 1) PROVE p \in Bodies(magic', second')
      <4>1. p \in Behind(0, Span(0, magic'[0], second'[0]))
        BY <2>1, <2>3, <3>1 DEF Behind
      <4> QED BY <2>1, <4>1 DEF Bodies
    <3>2. ASSUME p \in Bodies(magic', second') PROVE p \in 1..(TRAP_PAGES - 1)
      <4>1. PICK h \in Page : p \in Behind(h, Span(h, magic'[h], second'[h]))
        BY <3>2 DEF Bodies
      <4>2. CASE h = 0
        BY <2>1, <2>3, <4>1, <4>2 DEF Behind
      <4>3. CASE h # 0
        <5>1. p \in Behind(h, 1) /\ h \in Nat
          BY <2>3, <4>1, <4>3, Sizes
        <5> QED BY <5>1 DEF Behind
      <4> QED BY <4>2, <4>3
    <3> QED BY <3>1, <3>2
  <2>5. p \in busy' <=> p \in 0..(TRAP_PAGES - 1)
    BY <1>3
  <2>6. CASE p = 0
    <3>1. On(Held', p) = {b} /\ p \in busy' /\ p \notin Bodies(magic', second')
      BY <1>8, <2>1, <2>4, <2>5, <2>6 DEF On
    <3>2. TrapPage(p, On(Held', p), magic'[p])
      BY <1>1, <1>7, <2>2, <2>6, <3>1 DEF TrapPage
    <3> QED BY <3>1, <3>2 DEF Sound
  <2>7. CASE p # 0
    <3>1. FreePage(On(Held', p), magic'[p])
      BY <1>8, <2>2, <2>7 DEF FreePage, On
    <3>2. p \in busy' <=> p \in Bodies(magic', second')
      BY <2>1, <2>4, <2>5, <2>7
    <3> QED BY <2>7, <3>1, <3>2 DEF Sound
  <2> QED BY <2>6, <2>7
<1>10. Chained(smallblock', magic', second')
  <2>1. \A c \in Class : smallblock'[c] = <<>>
    BY <1>3 DEF Untouched
  <2>2. \A p \in Page : magic'[p] # "small"
    BY <1>3 DEF TypeOK, Untouched
  <2> QED BY <2>1, <2>2 DEF Chained
<1>11. 0 \in Page /\ stopped' = Running
  BY <1>3, Sizes DEF Page, Untouched, TypeOK
<1> QED BY <1>6, <1>8, <1>9, <1>10, <1>11 DEF Leaves, Layout

(* Every call leaves what the next one relies on, if the pages that the    *)
(* search hands out are free.                                              *)
LEMMA StepLeaves ==
  ASSUME MemoryInv, Next, Sparing
  PROVE  stopped = Running /\ trap_stack_top' # 0 /\ Leaves
<1>1. CASE trap_stack_top = 0
  <2>1. TrapInit /\ Untouched /\ stopped = Running
    BY <1>1, NextCalls DEF MemoryInv
  <2> QED BY <2>1, TrapInitLeaves DEF MemoryInv
<1>2. CASE trap_stack_top # 0
  <2>1. Working /\ stopped = Running /\ trap_stack_top' # 0
    BY <1>2, NextCalls DEF MemoryInv, Working
  <2>2. \/ AllocPage
        \/ AllocPagesStops(1)
        \/ \E size \in Wanted : Malloc(size)
        \/ \E b \in Held \ Kept : Free(b)
    BY <1>2, NextCalls
  <2>3. Leaves
    BY <2>1, <2>2, AllocPageLeaves, ShutdownLeaves, MallocLeaves, FreeLeaves
  <2> QED BY <2>1, <2>3
<1> QED BY <1>1, <1>2

(* So a step keeps the invariant, and stops the kernel only when something *)
(* was not found.                                                          *)
LEMMA StepKeepsMemoryInv ==
  ASSUME MemoryInv, Next, Sparing
  PROVE  MemoryInv' /\ (stopped' # Running => Short)
<1>1. TypeOK'
  BY StepKeepsTypes DEF MemoryInv
<1>2. trap_stack_top' # 0 /\ Leaves
  BY StepLeaves
<1> QED BY <1>1, <1>2 DEF MemoryInv, Leaves

(* Nothing but the variables counts. *)
LEMMA StutterKeepsMemoryInv ==
  ASSUME MemoryInv, UNCHANGED vars
  PROVE  MemoryInv'
<1>1. TypeOK'
  BY StepKeepsTypes DEF MemoryInv
<1> QED BY <1>1 DEF MemoryInv, vars, pageVars, blockVars, Untouched, Held

(* What mem_init() leaves satisfies it. *)
LEMMA InitMemoryInv ==
  ASSUME Init
  PROVE  MemoryInv
<1>1. TypeOK
  BY InitTyped
<1>2. Held = {}
  BY DEF Init, Held, BagToSet, EmptyBag, SetToBag
<1>3. Untouched
  BY <1>2 DEF Init, PageAllocInit, MallocInit, Untouched
<1> QED BY <1>1, <1>2, <1>3 DEF MemoryInv, Init

-----------------------------------------------------------------------------
(* What the callers see.                                                   *)

(* Where a block is. *)
LEMMA BlockPlace ==
  ASSUME Working, NEW b \in Held, NEW p, p = PageAt(b.pointer)
  PROVE  /\ p \in Page /\ p \in Nat /\ b \in On(Held, p) /\ p \in busy
         /\ p \notin Bodies(magic, second)
         /\ \/ p = 0 /\ TrapPage(p, On(Held, p), magic[p])
            \/ p # 0 /\ DataPage(p, On(Held, p), magic[p])
            \/ p # 0 /\ BigPage(p, On(Held, p), magic[p], second[p])
            \/ p # 0 /\ PiecesPage(p, On(Held, p), magic[p], bitmap[p], second[p])
<1>1. p \in Page /\ p \in Nat /\ b \in On(Held, p)
  BY Sizes DEF Working, On
<1>2. Sound(p, On(Held, p), magic[p], bitmap[p], second[p], p \in busy, p \in Bodies(magic, second))
  BY <1>1 DEF Working, Layout
<1>3. ~FreePage(On(Held, p), magic[p])
  BY <1>1 DEF FreePage
<1>4. TrapPage(p, On(Held, p), magic[p]) => p = 0
  BY DEF TrapPage
<1> QED BY <1>1, <1>2, <1>3, <1>4 DEF Sound

(* How far a block is from the start of its first page: it reaches the     *)
(* last of its pages, and not beyond.                                      *)
LEMMA BlockOffset ==
  ASSUME Working, NEW b \in Held, NEW p, p = PageAt(b.pointer),
         NEW s, s = Span(p, magic[p], second[p])
  PROVE  \E k \in Nat : /\ b.pointer = Address(p) + k /\ b.size \in Nat \ {0}
                        /\ k + b.size <= s * PAGE_SIZE /\ (s - 1) * PAGE_SIZE < k + b.size
<1>1. p \in Nat /\ p \in Page /\ b \in On(Held, p)
  BY BlockPlace
<1>2. PAGE_SIZE \in Nat \ {0} /\ TRAP_PAGES \in Nat \ {0} /\ Address(p) \in Nat
  BY <1>1, AddressTyped, Sizes
<1>3. ASSUME s = 1 PROVE s * PAGE_SIZE = PAGE_SIZE /\ (s - 1) * PAGE_SIZE = 0
  BY <1>2, <1>3
<1>4. CASE p = 0 /\ TrapPage(p, On(Held, p), magic[p])
  <2>1. PICK n : n = TRAP_PAGES * PAGE_SIZE
    OBVIOUS
  <2>2. b = Block(Address(0), n) /\ s = TRAP_PAGES
    BY <1>1, <1>4, <2>1 DEF TrapPage, Span
  <2>3. n \in Nat /\ (s - 1) * PAGE_SIZE = n - PAGE_SIZE /\ s * PAGE_SIZE = n
    BY <1>2, <2>1, <2>2, SMT
  <2>4. n # 0
    BY <1>2, <2>1, SMT
  <2>5. b.pointer = Address(p) + 0 /\ b.size = n
    BY <1>2, <1>4, <2>2 DEF Block
  <2> QED BY <1>2, <2>3, <2>4, <2>5
<1>5. CASE p # 0 /\ DataPage(p, On(Held, p), magic[p])
  <2>1. b = Block(Address(p), PAGE_SIZE) /\ s = 1
    BY <1>1, <1>5 DEF DataPage, Span
  <2>2. b.pointer = Address(p) + 0 /\ b.size = PAGE_SIZE
    BY <1>2, <2>1 DEF Block
  <2> QED BY <1>2, <1>3, <2>1, <2>2
<1>6. CASE p # 0 /\ BigPage(p, On(Held, p), magic[p], second[p])
  <2>1. PICK size \in Wanted :
          second[p] = PagesFor(size) /\ b = Block(Address(p) + BIGBLOCK_INFO, size)
    BY <1>1, <1>6 DEF BigPage
  <2>2. size \in Nat \ {0} /\ s = PagesFor(size)
    BY <1>6, <2>1, WantedTyped DEF BigPage, Span
  <2>3. b.pointer = Address(p) + BIGBLOCK_INFO /\ b.size = size
    BY <2>1 DEF Block
  <2>4. BIGBLOCK_INFO + size <= s * PAGE_SIZE /\ (s - 1) * PAGE_SIZE < BIGBLOCK_INFO + size
    BY <2>2, PagesForBounds
  <2> QED BY <2>2, <2>3, <2>4, Sizes
<1>7. CASE p # 0 /\ PiecesPage(p, On(Held, p), magic[p], bitmap[p], second[p])
  <2>1. PICK on, bits, sec : on = On(Held, p) /\ bits = bitmap[p] /\ sec = second[p]
    OBVIOUS
  <2>2. PICK c \in Class : sec = blocksize[c]
    BY <1>7, <2>1 DEF PiecesPage
  <2>3. PICK f \in [bits -> 1..sec] :
          on = {Block(Address(p) + i * sec, f[i]) : i \in bits}
    BY <1>7, <2>1 DEF PiecesPage
  <2>4. PICK j \in bits : b = Block(Address(p) + j * sec, f[j])
    BY <1>1, <2>1, <2>3
  <2>5. j \in 1..(PAGE_SIZE \div sec - 1)
    BY <1>7, <2>1 DEF PiecesPage
  <2>6. sec \in Nat \ {0} /\ j * sec \in Nat /\ j * sec + sec <= PAGE_SIZE
    BY <1>1, <2>2, <2>5, PieceAddress
  <2>7. PICK k : k = j * sec
    OBVIOUS
  <2>8. f[j] \in 1..sec
    BY <2>3
  <2>9. k \in Nat /\ b.pointer = Address(p) + k /\ b.size \in Nat \ {0} /\ k + b.size <= PAGE_SIZE
    BY <2>4, <2>6, <2>7, <2>8, <1>2 DEF Block
  <2>10. s = 1
    BY <1>7 DEF PiecesPage, Span
  <2>11. s * PAGE_SIZE = PAGE_SIZE /\ (s - 1) * PAGE_SIZE = 0
    BY <1>3, <2>10
  <2> QED BY <2>9, <2>11
<1> QED BY <1>4, <1>5, <1>6, <1>7, BlockPlace

(* Where the bytes of a block are. *)
LEMMA BytesWhere ==
  ASSUME Working, NEW b \in Held, NEW p, p = PageAt(b.pointer), NEW x \in Bytes(b)
  PROVE  PageAt(x) \in p..(p + Span(p, magic[p], second[p]) - 1)
<1>1. p \in Nat /\ p \in Page
  BY BlockPlace
<1>2. PICK s : s = Span(p, magic[p], second[p])
  OBVIOUS
<1>3. s \in Nat \ {0}
  BY <1>1, <1>2, SpanTyped
<1>4. PICK k \in Nat : /\ b.pointer = Address(p) + k /\ b.size \in Nat \ {0}
                       /\ k + b.size <= s * PAGE_SIZE /\ (s - 1) * PAGE_SIZE < k + b.size
  BY <1>2, BlockOffset
<1>5. PICK d, y, i, m : d = b.size /\ y = Address(p) /\ i = x - y /\ m = s * PAGE_SIZE
  OBVIOUS
<1>6. y \in Nat /\ d \in Nat /\ m \in Nat
  <2>1. m \in Nat
    BY <1>3, <1>5, Sizes, SMT
  <2> QED BY <1>1, <1>4, <1>5, <2>1, AddressTyped
<1>7. x \in (y + k)..(y + k + d - 1) /\ k + d <= m
  BY <1>4, <1>5 DEF Bytes
<1>8. i \in Nat /\ i < m /\ x = y + i
  BY <1>5, <1>6, <1>7
<1>9. PageAt(Address(p) + i) \in p..(p + s - 1)
  BY <1>1, <1>3, <1>5, <1>8, PageOfOffset
<1> QED BY <1>2, <1>5, <1>8, <1>9

(* The pages of a block. *)
LEMMA PagesOfBlock ==
  ASSUME Working, NEW b \in Held, NEW p, p = PageAt(b.pointer)
  PROVE  PagesOf(b) = p..(p + Span(p, magic[p], second[p]) - 1)
<1>1. p \in Nat /\ p \in Page
  BY BlockPlace
<1>2. PICK s : s = Span(p, magic[p], second[p])
  OBVIOUS
<1>3. s \in Nat \ {0}
  BY <1>1, <1>2, SpanTyped
<1>4. PICK k \in Nat : /\ b.pointer = Address(p) + k /\ b.size \in Nat \ {0}
                       /\ k + b.size <= s * PAGE_SIZE /\ (s - 1) * PAGE_SIZE < k + b.size
  BY <1>2, BlockOffset
<1>5. PICK d, y, w, m : d = b.size /\ y = Address(p) /\ m = s - 1 /\ w = m * PAGE_SIZE
  OBVIOUS
<1>6. /\ y \in Nat /\ d \in Nat \ {0} /\ m \in Nat /\ w \in Nat /\ PAGE_SIZE \in Nat
      /\ Address(p + m) = y + w
  <2>1. m \in Nat /\ PAGE_SIZE \in Nat
    BY <1>3, <1>5, Sizes
  <2>2. w \in Nat
    BY <1>5, <2>1, SMT
  <2>3. y \in Nat /\ Address(p + m) = y + w
    BY <1>1, <1>5, <2>1, AddressTyped
  <2> QED BY <1>4, <1>5, <2>1, <2>2, <2>3
<1>7. s * PAGE_SIZE = w + PAGE_SIZE
  BY <1>3, <1>5, <1>6, SMT
<1>8. PICK r : r = k + d - 1 - w
  OBVIOUS
<1>9. r \in 0..(PAGE_SIZE - 1)
  BY <1>4, <1>5, <1>6, <1>7, <1>8
<1>10. b.pointer + b.size - 1 = (y + w) + r
  BY <1>4, <1>5, <1>6, <1>8
<1>11. PageAt(Address(p + m) + r) = p + m
  BY <1>1, <1>6, <1>9, AddressInPage
<1>12. PageAt(b.pointer + b.size - 1) = p + m
  BY <1>6, <1>10, <1>11
<1>13. p + m = p + s - 1
  BY <1>1, <1>3, <1>5
<1> QED BY <1>2, <1>12, <1>13 DEF PagesOf

(* The pages of the lists are those marked as pages of pieces. *)
LEMMA SmallPagesMarked ==
  ASSUME TypeOK, Chained(smallblock, magic, second)
  PROVE  SmallPages = {p \in Page : magic[p] = "small"}
<1>1. ASSUME NEW c \in Class, NEW p \in Range(smallblock[c])
      PROVE  p \in Page /\ magic[p] = "small"
  <2>1. smallblock[c] \in Seq(Page)
    BY DEF TypeOK
  <2>2. PICK k \in 1..Len(smallblock[c]) : p = smallblock[c][k]
    BY <2>1 DEF Range
  <2> QED BY <2>1, <2>2 DEF Chained
<1>2. ASSUME NEW p \in Page, magic[p] = "small"
      PROVE  p \in SmallPages
  <2>1. PICK c \in Class : \E k \in 1..Len(smallblock[c]) : p = smallblock[c][k]
    BY <1>2 DEF Chained
  <2>2. smallblock[c] \in Seq(Page)
    BY DEF TypeOK
  <2>3. p \in Range(smallblock[c])
    BY <2>1, <2>2 DEF Range
  <2> QED BY <2>1, <2>3 DEF SmallPages
<1> QED BY <1>1, <1>2 DEF SmallPages

(* Blocks on one page do not overlap. *)
LEMMA ApartOnPage ==
  ASSUME Working, NEW a \in Held, NEW b \in Held, NEW p,
         p = PageAt(a.pointer), p = PageAt(b.pointer), NEW x \in Bytes(a), x \in Bytes(b)
  PROVE  a = b
<1>1. p \in Nat /\ a \in On(Held, p) /\ b \in On(Held, p)
  BY BlockPlace
<1>2. CASE TrapPage(p, On(Held, p), magic[p])
  BY <1>1, <1>2 DEF TrapPage
<1>3. CASE DataPage(p, On(Held, p), magic[p])
  BY <1>1, <1>3 DEF DataPage
<1>4. CASE BigPage(p, On(Held, p), magic[p], second[p])
  BY <1>1, <1>4 DEF BigPage
<1>5. CASE PiecesPage(p, On(Held, p), magic[p], bitmap[p], second[p])
  <2>1. PICK on, bits, sec : on = On(Held, p) /\ bits = bitmap[p] /\ sec = second[p]
    OBVIOUS
  <2>2. PICK c \in Class : sec = blocksize[c]
    BY <1>5, <2>1 DEF PiecesPage
  <2>3. PICK f \in [bits -> 1..sec] :
          on = {Block(Address(p) + i * sec, f[i]) : i \in bits}
    BY <1>5, <2>1 DEF PiecesPage
  <2>4. PICK i \in bits : a = Block(Address(p) + i * sec, f[i])
    BY <1>1, <2>1, <2>3
  <2>5. PICK j \in bits : b = Block(Address(p) + j * sec, f[j])
    BY <1>1, <2>1, <2>3
  <2>6. i \in 1..(PAGE_SIZE \div sec - 1) /\ j \in 1..(PAGE_SIZE \div sec - 1)
    BY <1>5, <2>1 DEF PiecesPage
  <2>7. PICK y, z : y = i * sec /\ z = j * sec
    OBVIOUS
  <2>8. /\ sec \in Nat \ {0} /\ i \in Nat /\ j \in Nat /\ y \in Nat /\ z \in Nat
        /\ Address(p) \in Nat
    BY <1>1, <2>2, <2>6, <2>7, PieceAddress, AddressTyped
  <2>9. f[i] \in 1..sec /\ f[j] \in 1..sec
    BY <2>3
  <2>10. x \in (Address(p) + y)..(Address(p) + y + f[i] - 1)
    BY <2>4, <2>7 DEF Bytes, Block
  <2>11. x \in (Address(p) + z)..(Address(p) + z + f[j] - 1)
    BY <2>5, <2>7 DEF Bytes, Block
  <2>12. CASE i < j
    <3>1. y + sec <= z
      BY <2>7, <2>8, <2>12, PiecesApart
    <3> QED BY <2>8, <2>9, <2>10, <2>11, <3>1
  <2>13. CASE j < i
    <3>1. z + sec <= y
      BY <2>7, <2>8, <2>13, PiecesApart
    <3> QED BY <2>8, <2>9, <2>10, <2>11, <3>1
  <2>14. CASE i = j
    BY <2>4, <2>5, <2>14
  <2> QED BY <2>8, <2>12, <2>13, <2>14
<1> QED BY <1>2, <1>3, <1>4, <1>5, BlockPlace

(* The bytes of the accounting data of a page are in that page. *)
LEMMA AccountingWhere ==
  ASSUME NEW q \in Nat, NEW n \in Nat, n <= PAGE_SIZE, NEW x \in Address(q)..(Address(q) + n - 1)
  PROVE  PageAt(x) = q
<1>1. PICK i, y : y = Address(q) /\ i = x - y
  OBVIOUS
<1>2. y \in Nat /\ PAGE_SIZE \in Nat /\ x \in y..(y + n - 1)
  BY <1>1, AddressTyped, Sizes
<1>3. i \in 0..(PAGE_SIZE - 1) /\ x = y + i
  BY <1>1, <1>2
<1>4. PageAt(Address(q) + i) = q
  BY <1>3, AddressInPage
<1> QED BY <1>1, <1>3, <1>4

(* A byte of a page that counts for itself is in no block of another page. *)
LEMMA BytesApart ==
  ASSUME Working, NEW b \in Held, NEW p, p = PageAt(b.pointer), NEW x \in Bytes(b),
         NEW q \in Page \ Bodies(magic, second), PageAt(x) = q
  PROVE  p = q
<1>1. p \in Page \ Bodies(magic, second)
  BY BlockPlace
<1>2. q \in p..(p + Span(p, magic[p], second[p]) - 1)
  BY BytesWhere
<1>3. q \in q..(q + Span(q, magic[q], second[q]) - 1)
  BY SpanTyped
<1> QED BY <1>1, <1>2, <1>3, SpansApart

(* The accounting data is not in a block. *)
LEMMA AccountingApart ==
  ASSUME Working, NEW b \in Held, NEW x \in Bytes(b)
  PROVE  x \notin Accounting
<1>1. PICK p : p = PageAt(b.pointer)
  OBVIOUS
<1>2. p \in Nat /\ b \in On(Held, p)
  BY <1>1, BlockPlace
<1>3. PAGE_SIZE \in Nat
  BY Sizes
<1>5. ASSUME NEW q \in SmallPages,
             x \in Address(q)..(Address(q) + blocksize[MIN_BLOCKSIZE2] - 1)
      PROVE  FALSE
  <2>1. q \in Page /\ q \in Nat /\ magic[q] = "small"
    BY SmallPagesMarked, Sizes DEF Working
  <2>2. MIN_BLOCKSIZE2 \in Class
    BY MemoryAssumption DEF Class
  <2>3. PICK n : n = blocksize[MIN_BLOCKSIZE2]
    OBVIOUS
  <2>4. n \in Nat /\ n <= PAGE_SIZE
    BY <2>2, <2>3, ClassSizes, Sizes
  <2>5. PageAt(x) = q
    BY <1>5, <2>1, <2>3, <2>4, AccountingWhere
  <2>6. /\ q # 0 /\ q \notin Bodies(magic, second)
        /\ PiecesPage(q, On(Held, q), "small", bitmap[q], second[q])
    BY <2>1, SmallIsSound
  <2>7. p = q
    BY <1>1, <2>1, <2>5, <2>6, BytesApart
  <2>8. magic[p] = "small"
    BY <2>1, <2>7
  <2>9. PiecesPage(p, On(Held, p), magic[p], bitmap[p], second[p])
    BY <2>6, <2>7, <2>8
  <2>10. PICK on, bits, sec : on = On(Held, p) /\ bits = bitmap[p] /\ sec = second[p]
    OBVIOUS
  <2>11. PICK c \in Class : sec = blocksize[c]
    BY <2>9, <2>10 DEF PiecesPage
  <2>12. PICK j \in bits : /\ b.pointer = Address(p) + j * sec
                           /\ j \in 1..(PAGE_SIZE \div sec - 1)
    <3>1. PICK mag : mag = magic[p]
      OBVIOUS
    <3>2. PiecesPage(p, on, mag, bits, sec) /\ b \in on /\ p \in Nat
      BY <1>2, <2>9, <2>10, <3>1
    <3>3. \E i \in bits : /\ b.pointer = Address(p) + i * sec
                          /\ i \in 1..(PAGE_SIZE \div sec - 1)
                          /\ PiecesPage(p, on \ {b}, mag, bits \ {i}, sec)
      BY <3>2, PiecesLess
    <3> QED BY <3>3
  <2>13. PICK k : k = j * sec
    OBVIOUS
  <2>14. k \in Nat /\ n <= k
    <3>1. k \in Nat /\ sec <= k /\ sec \in Nat
      BY <1>2, <2>11, <2>12, <2>13, PieceAddress
    <3>2. n <= sec
      BY <2>3, <2>11, ClassSizes
    <3> QED BY <2>4, <3>1, <3>2
  <2>15. PICK y, d : y = Address(p) /\ d = b.size
    OBVIOUS
  <2>16. y \in Nat /\ d \in Nat /\ x \in (y + k)..(y + k + d - 1) /\ x \in y..(y + n - 1)
    BY <1>2, <1>5, <2>3, <2>7, <2>12, <2>13, <2>15, AddressTyped DEF Bytes, Working, TypeOK
  <2> QED BY <2>4, <2>14, <2>16
<1>6. ASSUME NEW q \in busy \ SmallPages, magic[q] = "big",
             x \in Address(q)..(Address(q) + BIGBLOCK_INFO - 1)
      PROVE  FALSE
  <2>1. q \in Page /\ q \in Nat
    BY Sizes DEF Working, TypeOK
  <2>2. BIGBLOCK_INFO \in Nat /\ BIGBLOCK_INFO <= PAGE_SIZE
    BY Sizes
  <2>3. PageAt(x) = q
    BY <1>6, <2>1, <2>2, AccountingWhere
  <2>4. q \notin Bodies(magic, second)
    BY <1>6, <2>1, HeadNotInner
  <2>5. p = q
    BY <1>1, <2>1, <2>3, <2>4, BytesApart
  <2>6. p # 0
    BY <1>1, <1>6, <2>5, BlockPlace DEF TrapPage
  <2>7. BigPage(p, On(Held, p), magic[p], second[p])
    BY <1>6, <2>1, <2>5, <2>6, BigIsSound
  <2>8. b.pointer = Address(p) + BIGBLOCK_INFO
    BY <1>2, <2>7 DEF BigPage, Block
  <2>9. PICK y, d : y = Address(p) /\ d = b.size
    OBVIOUS
  <2>10. /\ y \in Nat /\ d \in Nat /\ x \in (y + BIGBLOCK_INFO)..(y + BIGBLOCK_INFO + d - 1)
         /\ x \in y..(y + BIGBLOCK_INFO - 1)
    BY <1>2, <1>6, <2>5, <2>8, <2>9, AddressTyped DEF Bytes, Working, TypeOK
  <2> QED BY <2>2, <2>10
<1>7. SUFFICES ASSUME x \in Accounting PROVE FALSE
  OBVIOUS
<1>8. \/ \E q \in SmallPages : x \in Address(q)..(Address(q) + blocksize[MIN_BLOCKSIZE2] - 1)
      \/ \E q \in {r \in busy \ SmallPages : magic[r] = "big"} :
           x \in Address(q)..(Address(q) + BIGBLOCK_INFO - 1)
  <2>1. PICK U, V :
          /\ U = {Address(q)..(Address(q) + blocksize[MIN_BLOCKSIZE2] - 1) : q \in SmallPages}
          /\ V = {Address(q)..(Address(q) + BIGBLOCK_INFO - 1) :
                    q \in {r \in busy \ SmallPages : magic[r] = "big"}}
    OBVIOUS
  <2>2. Accounting = (UNION U) \cup (UNION V)
    BY <2>1, Zenon DEF Accounting
  <2>3. CASE \E u \in U : x \in u
    <3>1. PICK u \in U : x \in u
      BY <2>3
    <3>2. PICK q \in SmallPages : u = Address(q)..(Address(q) + blocksize[MIN_BLOCKSIZE2] - 1)
      BY <2>1, Zenon
    <3> QED BY <3>1, <3>2, Zenon
  <2>4. CASE \E v \in V : x \in v
    <3>1. PICK v \in V : x \in v
      BY <2>4
    <3>2. PICK q \in {r \in busy \ SmallPages : magic[r] = "big"} :
            v = Address(q)..(Address(q) + BIGBLOCK_INFO - 1)
      BY <2>1, Zenon
    <3> QED BY <3>1, <3>2, Zenon
  <2>5. x \in (UNION U) \cup (UNION V)
    BY <1>7, <2>2, Zenon
  <2>6. (\E u \in U : x \in u) \/ (\E v \in V : x \in v)
    BY <2>5
  <2> QED BY <2>3, <2>4, <2>6
<1> QED BY <1>5, <1>6, <1>8

(* The invariant tells blocks apart. *)
LEMMA MemoryInvDisjoint == MemoryInv => Disjoint
<1> SUFFICES ASSUME MemoryInv PROVE Disjoint
  OBVIOUS
<1>1. CASE trap_stack_top = 0
  BY <1>1 DEF MemoryInv, Untouched, Disjoint
<1>2. CASE trap_stack_top # 0
  <2>1. Working
    BY <1>2 DEF MemoryInv, Working
  <2>2. ASSUME NEW b \in Held
        PROVE  Bytes(b) \cap Accounting = {}
    BY <2>1, AccountingApart
  <2>3. ASSUME NEW b \in Held, NEW a \in Held \ {b}, NEW x \in Bytes(a), x \in Bytes(b)
        PROVE  FALSE
    <3>1. PICK p, q : p = PageAt(a.pointer) /\ q = PageAt(b.pointer)
      OBVIOUS
    <3>2. p \in Page \ Bodies(magic, second) /\ q \in Page \ Bodies(magic, second)
      BY <2>1, <3>1, BlockPlace
    <3>3. /\ PageAt(x) \in p..(p + Span(p, magic[p], second[p]) - 1)
          /\ PageAt(x) \in q..(q + Span(q, magic[q], second[q]) - 1)
      BY <2>1, <2>3, <3>1, BytesWhere
    <3>4. p = q
      BY <2>1, <3>2, <3>3, SpansApart
    <3>5. a = b
      BY <2>1, <2>3, <3>1, <3>4, ApartOnPage
    <3> QED BY <3>5
  <2>4. \A b \in Held : live[b] = 1
    BY <2>1 DEF Working
  <2> QED BY <2>2, <2>3, <2>4 DEF Disjoint
<1> QED BY <1>1, <1>2

(* A page of pieces accounts for the blocks on it. *)
LEMMA BitsOfBlocks ==
  ASSUME NEW p \in Nat, NEW on, NEW mag, NEW bits, NEW sec, PiecesPage(p, on, mag, bits, sec)
  PROVE  bits = {(b.pointer - Address(p)) \div sec : b \in on}
<1>1. PICK c \in Class : sec = blocksize[c]
  BY DEF PiecesPage
<1>2. PICK f \in [bits -> 1..sec] :
          on = {Block(Address(p) + i * sec, f[i]) : i \in bits}
  BY DEF PiecesPage
<1>3. bits \subseteq 1..(PAGE_SIZE \div sec - 1)
  BY DEF PiecesPage
<1>4. ASSUME NEW j \in bits, NEW b, b = Block(Address(p) + j * sec, f[j])
      PROVE  (b.pointer - Address(p)) \div sec = j
  <2>1. PICK k, y : k = j * sec /\ y = Address(p)
    OBVIOUS
  <2>2. k \in Nat /\ k \div sec = j /\ y \in Nat
    BY <1>1, <1>3, <2>1, PieceAddress, AddressTyped
  <2>3. b.pointer - Address(p) = k
    BY <1>4, <2>1, <2>2 DEF Block
  <2> QED BY <2>2, <2>3
<1>5. ASSUME NEW j \in bits
      PROVE  \E b \in on : (b.pointer - Address(p)) \div sec = j
  BY <1>2, <1>4
<1>6. ASSUME NEW b \in on
      PROVE  (b.pointer - Address(p)) \div sec \in bits
  <2>1. PICK j \in bits : b = Block(Address(p) + j * sec, f[j])
    BY <1>2
  <2> QED BY <1>4, <2>1
<1> QED BY <1>5, <1>6

(* The invariant accounts for every page and every piece. *)
LEMMA MemoryInvAccounted == MemoryInv => Accounted
<1> SUFFICES ASSUME MemoryInv PROVE Accounted
  OBVIOUS
<1>1. CASE trap_stack_top = 0
  <2>1. SmallPages = {}
    <3>1. \A c \in Class : Range(smallblock[c]) = {}
      BY <1>1 DEF MemoryInv, Untouched, Range
    <3> QED BY <3>1 DEF SmallPages
  <2> QED BY <1>1, <2>1 DEF MemoryInv, Untouched, Accounted
<1>2. CASE trap_stack_top # 0
  <2>1. Working
    BY <1>2 DEF MemoryInv, Working
  <2>2. SmallPages = {p \in Page : magic[p] = "small"}
    BY <2>1, SmallPagesMarked DEF Working
  <2>3. \A q \in Page : Sound(q, On(Held, q), magic[q], bitmap[q], second[q], q \in busy,
                              q \in Bodies(magic, second))
    BY <2>1 DEF Working, Layout
  <2>4. ASSUME NEW q \in Page, q = 0 \/ magic[q] = "big"
        PROVE  q \in busy /\ \E b \in Held : q = PageAt(b.pointer)
    <3>1. Sound(q, On(Held, q), magic[q], bitmap[q], second[q], q \in busy,
                q \in Bodies(magic, second))
      BY <2>3
    <3>2. q \in busy /\ (TrapPage(q, On(Held, q), magic[q])
                         \/ BigPage(q, On(Held, q), magic[q], second[q]))
      <4>1. CASE q = 0
        <5>1. 0 \notin Bodies(magic, second)
          BY <2>1, <2>4, <4>1, HeadNotInner
        <5> QED BY <3>1, <4>1, <5>1 DEF Sound
      <4>2. CASE q # 0
        BY <2>1, <2>4, <4>2, BigIsSound
      <4> QED BY <4>1, <4>2
    <3>3. PICK b : b \in On(Held, q)
      BY <3>2 DEF TrapPage, BigPage
    <3>4. b \in Held /\ q = PageAt(b.pointer)
      BY <3>3 DEF On
    <3> QED BY <3>2, <3>4
  <2>5. ASSUME NEW q \in Page, q \in busy
        PROVE  q \in SmallPages \/ \E b \in Held : q \in PagesOf(b)
    <3>1. CASE q \in Bodies(magic, second)
      <4>1. PICK h \in Page : q \in Behind(h, Span(h, magic[h], second[h]))
        BY <3>1 DEF Bodies
      <4>2. PICK s : s = Span(h, magic[h], second[h])
        OBVIOUS
      <4>3. s \in Nat \ {0} /\ h \in Nat
        BY <2>1, <4>2, SpanTyped, Sizes
      <4>4. s # 1 /\ q \in h..(h + s - 1)
        BY <4>1, <4>2, <4>3 DEF Behind
      <4>5. h = 0 \/ magic[h] = "big"
        BY <4>2, <4>4 DEF Span
      <4>6. PICK b \in Held : h = PageAt(b.pointer)
        BY <2>4, <4>5
      <4>7. PagesOf(b) = h..(h + s - 1)
        BY <2>1, <4>2, <4>6, PagesOfBlock
      <4> QED BY <4>4, <4>7
    <3>2. CASE q \notin Bodies(magic, second)
      <4>1. \/ TrapPage(q, On(Held, q), magic[q])
            \/ DataPage(q, On(Held, q), magic[q])
            \/ BigPage(q, On(Held, q), magic[q], second[q])
            \/ PiecesPage(q, On(Held, q), magic[q], bitmap[q], second[q])
        BY <2>3, <2>5, <3>2 DEF Sound
      <4>2. CASE PiecesPage(q, On(Held, q), magic[q], bitmap[q], second[q])
        BY <2>2, <4>2 DEF PiecesPage
      <4>3. CASE \E b : b \in On(Held, q)
        <5>1. PICK b : b \in On(Held, q)
          BY <4>3
        <5>2. b \in Held /\ q = PageAt(b.pointer)
          BY <5>1 DEF On
        <5>3. PagesOf(b) = q..(q + Span(q, magic[q], second[q]) - 1)
          BY <2>1, <5>2, PagesOfBlock
        <5>4. q \in PagesOf(b)
          BY <2>1, <5>3, SpanTyped
        <5> QED BY <5>2, <5>4
      <4>4. \/ PiecesPage(q, On(Held, q), magic[q], bitmap[q], second[q])
            \/ \E b : b \in On(Held, q)
        BY <4>1 DEF TrapPage, DataPage, BigPage
      <4> QED BY <4>2, <4>3, <4>4
    <3> QED BY <3>1, <3>2
  <2>6. ASSUME NEW q \in SmallPages
        PROVE  /\ q \in busy /\ q \in Nat
               /\ PiecesPage(q, On(Held, q), magic[q], bitmap[q], second[q])
    <3>1. q \in Page /\ q \in Nat /\ magic[q] = "small"
      BY <2>2, Sizes
    <3> QED BY <2>1, <3>1, SmallIsSound
  <2>7. ASSUME NEW b \in Held, NEW q \in PagesOf(b)
        PROVE  q \in busy
    <3>1. PICK p, s : p = PageAt(b.pointer) /\ s = Span(p, magic[p], second[p])
      OBVIOUS
    <3>2. p \in Page /\ p \in Nat /\ p \in busy
      BY <2>1, <3>1, BlockPlace
    <3>3. s \in Nat \ {0} /\ p..(p + s - 1) \subseteq Page
      BY <2>1, <3>1, <3>2, SpanTyped
    <3>4. q \in p..(p + s - 1)
      BY <2>1, <2>7, <3>1, PagesOfBlock
    <3>5. CASE q # p
      <4>1. q \in Behind(p, s) /\ q \in Page
        BY <3>2, <3>3, <3>4, <3>5 DEF Behind
      <4>2. q \in Bodies(magic, second)
        BY <3>1, <3>2, <4>1 DEF Bodies
      <4>3. Sound(q, On(Held, q), magic[q], bitmap[q], second[q], q \in busy,
                  q \in Bodies(magic, second))
        BY <2>3, <4>1
      <4> QED BY <4>2, <4>3 DEF Sound
    <3> QED BY <3>2, <3>5
  <2>8. busy \subseteq Page
    BY <2>1 DEF Working, TypeOK
  <2>9. busy = SmallPages \cup (UNION {PagesOf(b) : b \in Held})
    <3>1. PICK U : U = {PagesOf(b) : b \in Held}
      OBVIOUS
    <3>2. \A q : (q \in UNION U) <=> (\E b \in Held : q \in PagesOf(b))
      BY <3>1
    <3>3. busy = SmallPages \cup (UNION U)
      BY <2>5, <2>6, <2>7, <2>8, <3>2
    <3> QED BY <3>1, <3>3
  <2>10. ASSUME NEW p \in SmallPages
         PROVE  bitmap[p] = {(b.pointer - Address(p)) \div second[p] :
                               b \in {a \in Held : PageAt(a.pointer) = p}}
    <3>1. PICK on, mag, bits, sec :
            on = On(Held, p) /\ mag = magic[p] /\ bits = bitmap[p] /\ sec = second[p]
      OBVIOUS
    <3>2. p \in Nat /\ PiecesPage(p, on, mag, bits, sec)
      BY <2>6, <3>1
    <3>3. bits = {(b.pointer - Address(p)) \div sec : b \in on}
      BY <3>2, BitsOfBlocks
    <3> QED BY <3>1, <3>3, Zenon DEF On
  <2> QED BY <2>9, <2>10 DEF Accounted
<1> QED BY <1>1, <1>2

-----------------------------------------------------------------------------
(* As long as several pages are asked for only where so many are free at   *)
(* the hint.                                                               *)

(* The pages that are handed out are then free. *)
LEMMA PrudentSparing ==
  ASSUME TypeOK, Prudent
  PROVE  Sparing
<1> SUFFICES ASSUME NEW size \in Wanted, MallocBig(size)
             PROVE  (FirstOf(PagesFor(size))..LastOf(PagesFor(size))) \cap busy = {}
  BY DEF Sparing
<1>1. PICK n, h : n = PagesFor(size) /\ h = page_alloc_hint
  OBVIOUS
<1>2. /\ n \in Nat \ {0} /\ h \in Page /\ h \in Nat /\ Found(n)
      /\ n > 1 => h..(h + n - 1) \subseteq Page \ busy
  BY <1>1, WantedTyped, PagesForBounds, Sizes DEF MallocBig, AllocPages, TypeOK, Prudent
<1>3. CASE n = 1
  <2>1. PICK p : p = FirstOf(n)
    OBVIOUS
  <2>2. p = LastOf(n) /\ p \notin busy /\ p \in Nat
    BY <1>1, <1>2, <1>3, <2>1, OnePageFound, Sizes
  <2>3. p..p = {p}
    BY <2>2
  <2> QED BY <1>1, <2>1, <2>2, <2>3
<1>4. CASE n > 1
  <2>1. FirstOf(n) = h /\ LastOf(n) = h + n - 1
    BY <1>1, <1>2, <1>4, RunAtHint
  <2> QED BY <1>1, <1>2, <1>4, <2>1
<1> QED BY <1>2, <1>3, <1>4

(* What was not found has no run of free pages that the hint leaves whole. *)
LEMMA ShortOfPages ==
  ASSUME TypeOK, Short
  PROVE  StopsOnlyWhenFull'
<1>1. PICK count : count = stopped' /\ ~Found(count)
  BY DEF Short
<1>2. count \in Nat \ {0}
  BY <1>1 DEF Short
<1>3. page_alloc_hint \in Page /\ page_alloc_hint' = page_alloc_hint /\ busy' = busy
  BY DEF Short, pageVars, TypeOK
<1>4. ASSUME NEW p \in Page, p..(p + count - 1) \subseteq Page \ busy'
      PROVE  page_alloc_hint' \in (p + 1)..(p + count - 1)
  <2>1. p..(p + count - 1) \subseteq Page \ busy
    BY <1>3, <1>4
  <2>2. page_alloc_hint \in (p + 1)..(p + count - 1)
    BY <1>1, <1>2, <1>3, <2>1, RunFound
  <2> QED BY <1>3, <2>2
<1>5. stopped' # InFree
  BY <1>1, <1>2 DEF InFree
<1> QED BY <1>1, <1>4, <1>5 DEF StopsOnlyWhenFull

(* MemoryInv is invariant, and the kernel only stops when memory is short. *)
LEMMA PrudentInvariant == PrudentSpec => [](MemoryInv /\ StopsOnlyWhenFull)
<1>1. Init => MemoryInv /\ StopsOnlyWhenFull
  BY InitMemoryInv DEF Init, StopsOnlyWhenFull
<1>2. MemoryInv /\ StopsOnlyWhenFull /\ [Next /\ Prudent]_vars
        => MemoryInv' /\ StopsOnlyWhenFull'
  <2>1. ASSUME MemoryInv, StopsOnlyWhenFull, UNCHANGED vars
        PROVE  MemoryInv' /\ StopsOnlyWhenFull'
    BY <2>1, StutterKeepsMemoryInv DEF StopsOnlyWhenFull, vars, pageVars
  <2>2. ASSUME MemoryInv, Next, Prudent PROVE MemoryInv' /\ StopsOnlyWhenFull'
    <3>1. TypeOK
      BY <2>2 DEF MemoryInv
    <3>2. MemoryInv' /\ (stopped' # Running => Short)
      BY <2>2, <3>1, PrudentSparing, StepKeepsMemoryInv
    <3>3. Short => StopsOnlyWhenFull'
      BY <3>1, ShortOfPages
    <3>4. stopped' = Running => StopsOnlyWhenFull'
      BY DEF StopsOnlyWhenFull
    <3> QED BY <3>2, <3>3, <3>4
  <2> QED BY <2>1, <2>2
<1> QED BY <1>1, <1>2, PTL DEF PrudentSpec

(* As long as several pages are only asked for where so many are free at   *)
(* the hint, two blocks that callers hold never share a byte, nor does a   *)
(* block and the accounting data, whatever is allocated and freed in       *)
(* whatever order.                                                         *)
THEOREM MemoryDisjoint == PrudentSpec => []Disjoint
<1>1. PrudentSpec => [](MemoryInv /\ StopsOnlyWhenFull)
  BY PrudentInvariant
<1> QED BY <1>1, MemoryInvDisjoint, PTL

(* Under the same condition, a page is busy exactly when it holds a byte   *)
(* of a block in use or pieces, and the bits of the pieces are those of    *)
(* the blocks in use: nothing is lost, and free() gives back every page of *)
(* a big block and no other, however often it is allocated and freed.      *)
THEOREM MemoryAccounted == PrudentSpec => []Accounted
<1>1. PrudentSpec => [](MemoryInv /\ StopsOnlyWhenFull)
  BY PrudentInvariant
<1> QED BY <1>1, MemoryInvAccounted, PTL

(* Under the same condition, alloc_pages() stops the kernel only if as     *)
(* many pages as this call asks for are free in a row nowhere, or only     *)
(* across the hint, and so for one page only if none is free; and free()   *)
(* never stops it.                                                         *)
THEOREM MemoryStopsOnlyWhenFull == PrudentSpec => []StopsOnlyWhenFull
<1>1. PrudentSpec => [](MemoryInv /\ StopsOnlyWhenFull)
  BY PrudentInvariant
<1> QED BY <1>1, PTL

-----------------------------------------------------------------------------
(* When that is so: for requests of at most a page at any time, and for    *)
(* requests of any size on the first pass through the memory.              *)

(* No request takes more than a page, accounting data included.  With one  *)
(* that does, alloc_pages() may hand out a busy page (run MemoryRuns).     *)
OnePage == \A size \in Wanted : Small(size) \/ size + BIGBLOCK_INFO <= PAGE_SIZE

(* A big block then takes one page. *)
LEMMA PagesForOne ==
  ASSUME OnePage, NEW size \in Wanted, ~Small(size)
  PROVE  PagesFor(size) = 1
<1>1. size \in Nat \ {0} /\ BIGBLOCK_INFO + size <= PAGE_SIZE
  BY WantedTyped, Sizes DEF OnePage
<1> QED BY <1>1, PagesForBounds

(* Requests for one page are always prudent. *)
THEOREM OnePagePrudent == OnePage => (Spec => PrudentSpec)
<1> SUFFICES ASSUME OnePage PROVE Spec => PrudentSpec
  OBVIOUS
<1>1. [Next]_vars => [Next /\ Prudent]_vars
  <2>1. ASSUME NEW size \in Wanted, MallocBig(size) PROVE ~(PagesFor(size) > 1)
    BY <2>1, PagesForOne DEF MallocBig
  <2> QED BY <2>1 DEF Prudent
<1> QED BY <1>1, PTL DEF Spec, PrudentSpec

(* The kernel until the search has been through the memory once: each      *)
(* allocation of pages moves the hint on.                                  *)
Onwards   == busy' \subseteq busy \/ page_alloc_hint' > page_alloc_hint
FirstPass == Init /\ [][Next /\ Onwards]_vars

(* No page from the hint on is in use. *)
Ahead == \A q \in busy : q < page_alloc_hint

(* Up to the end of the memory, the search then counts every page. *)
LEMMA AheadFree ==
  ASSUME page_alloc_hint \in Page, Ahead, NEW n \in 1..(PAGES - page_alloc_hint)
  PROVE  page_alloc_hint..(page_alloc_hint + n - 1) \subseteq Page \ busy
<1>1. PICK h : h = page_alloc_hint
  OBVIOUS
<1>2. h \in Nat /\ PAGES \in Nat /\ n \in 1..(PAGES - h)
  BY <1>1, Sizes
<1>3. ASSUME NEW q \in h..(h + n - 1) PROVE q \in Page \ busy
  <2>1. q \in Page /\ ~(q < h)
    BY <1>2 DEF Page
  <2> QED BY <1>1, <2>1 DEF Ahead
<1> QED BY <1>1, <1>3

(* A search that moves the hint on has not gone round the memory. *)
LEMMA NotRound ==
  ASSUME page_alloc_hint \in Page, Ahead, NEW n \in Nat \ {0}, Found(n),
         (LastOf(n) + 1) % PAGES > page_alloc_hint
  PROVE  /\ n \in 1..(PAGES - page_alloc_hint)
         /\ (LastOf(n) + 1) % PAGES = LastOf(n) + 1
<1>1. PICK h, N, l : h = page_alloc_hint /\ N = PAGES - 1 - page_alloc_hint /\ l = LastOf(n)
  OBVIOUS
<1>2. /\ h \in Nat /\ N \in Nat /\ PAGES \in Nat \ {0} /\ h + N = PAGES - 1
      /\ l \in Nat /\ l < PAGES
  BY <1>1, FoundTyped, Sizes DEF Page
<1>3. (l + 1) % PAGES > h
  BY <1>1
<1>4. l + 1 < PAGES
  <2>1. SUFFICES ASSUME l + 1 = PAGES PROVE FALSE
    BY <1>2
  <2>2. PICK y, z, q : y = l + 1 /\ z = 0 /\ q = 1
    OBVIOUS
  <2>3. y \in Int /\ q \in Int /\ z \in 0..(PAGES - 1) /\ y = PAGES * q + z
    BY <1>2, <2>1, <2>2
  <2>4. y % PAGES = z
    BY <1>2, <2>3, Remainder
  <2> QED BY <1>2, <1>3, <2>2, <2>4
<1>5. (l + 1) % PAGES = l + 1
  BY <1>2, <1>4
<1>6. l >= h
  BY <1>2, <1>3, <1>5
<1>7. PICK i \in Page : Seen[i] = n /\ l = End(i)
  BY <1>1, FoundRound
<1>8. End(i) = IF h + i < PAGES THEN h + i ELSE h + i - PAGES
  BY <1>1, EndTyped
<1>9. i \in 0..N /\ l = h + i
  BY <1>2, <1>6, <1>7, <1>8, Sizes DEF Page
<1>10. n = i + 1
  <2>1. N + 1 \in 1..(PAGES - h) /\ N + 1 \in Nat \ {0} /\ i \in 0..((N + 1) - 1)
    BY <1>2, <1>9
  <2>2. page_alloc_hint..(page_alloc_hint + (N + 1) - 1) \subseteq Page \ busy
    BY <1>1, <2>1, AheadFree
  <2>3. Seen[i] = i + 1
    BY <2>1, <2>2, RunSeen
  <2> QED BY <1>7, <2>3
<1> QED BY <1>1, <1>2, <1>4, <1>5, <1>9, <1>10

(* Pages that are taken from the hint on are free, and the hint is behind  *)
(* them afterwards.                                                        *)
LEMMA AheadTaken ==
  ASSUME busy \subseteq Page, page_alloc_hint \in Page, Ahead, NEW n \in Nat \ {0},
         AllocPages(n), Onwards
  PROVE  page_alloc_hint..(page_alloc_hint + n - 1) \subseteq Page \ busy /\ Ahead'
<1>1. Found(n) /\ busy' = busy \cup FirstOf(n)..LastOf(n) /\ page_alloc_hint' = (LastOf(n) + 1) % PAGES
  BY DEF AllocPages
<1>2. PICK h, p, l : h = page_alloc_hint /\ p = FirstOf(n) /\ l = LastOf(n)
  OBVIOUS
<1>3. /\ l \in Page \ busy /\ l \in Nat /\ p \in Nat /\ h \in Nat /\ p = l - n + 1
  BY <1>1, <1>2, LastIsFree, FoundTyped, Sizes
<1>4. l \in p..l
  BY <1>3
<1>5. page_alloc_hint' > page_alloc_hint
  BY <1>1, <1>2, <1>3, <1>4 DEF Onwards
<1>6. (LastOf(n) + 1) % PAGES > page_alloc_hint
  BY <1>1, <1>5
<1>7. n \in 1..(PAGES - page_alloc_hint) /\ (LastOf(n) + 1) % PAGES = LastOf(n) + 1
  BY <1>1, <1>6, NotRound
<1>8. page_alloc_hint..(page_alloc_hint + n - 1) \subseteq Page \ busy
  BY <1>7, AheadFree
<1>9. FirstOf(n) = page_alloc_hint
  BY <1>8, RunAtHint
<1>10. p = h /\ page_alloc_hint' = l + 1
  BY <1>1, <1>2, <1>7, <1>9
<1>11. ASSUME NEW q \in busy' PROVE q < l + 1
  <2>1. CASE q \in busy
    <3>1. q < h /\ q \in Nat
      BY <1>2, <2>1, Sizes DEF Ahead
    <3>2. h <= l
      BY <1>3, <1>10
    <3> QED BY <1>3, <3>1, <3>2
  <2>2. CASE q \in p..l
    BY <1>3, <2>2
  <2> QED BY <1>1, <1>2, <1>11, <2>1, <2>2
<1> QED BY <1>8, <1>10, <1>11 DEF Ahead

(* Every other call takes no page. *)
LEMMA StepTakes ==
  ASSUME Next
  PROVE  \/ \E n \in Nat \ {0} : AllocPages(n)
         \/ busy' \subseteq busy /\ page_alloc_hint' = page_alloc_hint
<1>1. CASE TrapInit
  BY <1>1, Sizes DEF TrapInit
<1>2. CASE AllocPage
  BY <1>2 DEF AllocPage
<1>3. CASE AllocPagesStops(1)
  BY <1>3 DEF AllocPagesStops, Shutdown, pageVars
<1>4. ASSUME NEW size \in Wanted, Malloc(size)
      PROVE  \/ \E n \in Nat \ {0} : AllocPages(n)
             \/ busy' \subseteq busy /\ page_alloc_hint' = page_alloc_hint
  <2>1. CASE MallocPiece(size)
    BY <2>1 DEF MallocPiece, pageVars
  <2>2. CASE MallocNewPage(size)
    BY <2>2 DEF MallocNewPage
  <2>3. CASE MallocBig(size)
    <3>1. AllocPages(PagesFor(size))
      BY <2>3 DEF MallocBig
    <3>2. PagesFor(size) \in Nat \ {0}
      BY WantedTyped, PagesForBounds
    <3> QED BY <3>1, <3>2
  <2>4. CASE MallocStops(size)
    BY <2>4, Zenon DEF MallocStops, AllocPagesStops, Shutdown, pageVars
  <2> QED BY <1>4, <2>1, <2>2, <2>3, <2>4 DEF Malloc
<1>5. ASSUME NEW b, Free(b)
      PROVE  busy' \subseteq busy /\ page_alloc_hint' = page_alloc_hint
  <2>1. Shutdown(InFree) \/ FreePiece(b) \/ FreeBig(b)
    BY <1>5, Zenon DEF Free
  <2>2. CASE Shutdown(InFree)
    BY <2>2 DEF Shutdown, pageVars
  <2>3. CASE FreePiece(b)
    BY <2>3 DEF FreePiece, pageVars
  <2>4. CASE FreeBig(b)
    <3>1. PICK page, count : FreePages(page, count)
      BY <2>4, Zenon DEF FreeBig
    <3>2. busy' \subseteq busy
      BY <3>1 DEF FreePages
    <3> QED BY <2>4, <3>2 DEF FreeBig
  <2> QED BY <2>1, <2>2, <2>3, <2>4
<1> QED BY <1>1, <1>2, <1>3, <1>4, <1>5, NextCalls

(* So the hint stays ahead of the pages in use, and requests are prudent.  *)
LEMMA StepKeepsAhead ==
  ASSUME TypeOK, Ahead, Next, Onwards
  PROVE  Prudent /\ Ahead'
<1>1. busy \subseteq Page /\ page_alloc_hint \in Page
  BY DEF TypeOK
<1>2. Prudent
  <2>1. ASSUME NEW size \in Wanted, MallocBig(size)
        PROVE  page_alloc_hint..(page_alloc_hint + PagesFor(size) - 1) \subseteq Page \ busy
    <3>1. PICK n : n = PagesFor(size)
      OBVIOUS
    <3>2. n \in Nat \ {0}
      BY <3>1, WantedTyped, PagesForBounds
    <3>3. AllocPages(n)
      BY <2>1, <3>1 DEF MallocBig
    <3> QED BY <1>1, <3>1, <3>2, <3>3, AheadTaken
  <2> QED BY <2>1 DEF Prudent
<1>3. Ahead'
  <2>1. CASE \E n \in Nat \ {0} : AllocPages(n)
    BY <1>1, <2>1, AheadTaken
  <2>2. CASE busy' \subseteq busy /\ page_alloc_hint' = page_alloc_hint
    BY <2>2 DEF Ahead
  <2> QED BY <2>1, <2>2, StepTakes
<1> QED BY <1>2, <1>3

(* On the first pass through the memory, requests for any number of pages  *)
(* are prudent, although blocks are freed meanwhile: this covers all that  *)
(* is allocated during the boot.                                           *)
THEOREM FirstPassPrudent == FirstPass => PrudentSpec
<1>1. FirstPass => Spec
  <2>1. [Next /\ Onwards]_vars => [Next]_vars
    OBVIOUS
  <2> QED BY <2>1, PTL DEF FirstPass, Spec
<1>2. Init => Ahead
  BY DEF Init, PageAllocInit, Ahead
<1>3. TypeOK /\ Ahead /\ [Next /\ Onwards]_vars => Ahead'
  <2>1. CASE UNCHANGED vars
    BY <2>1 DEF Ahead, vars, pageVars
  <2> QED BY <2>1, StepKeepsAhead
<1>4. TypeOK /\ Ahead /\ [Next /\ Onwards]_vars => [Next /\ Prudent]_vars
  BY StepKeepsAhead
<1> QED BY <1>1, <1>2, <1>3, <1>4, MemoryTyped, PTL DEF FirstPass, PrudentSpec
=============================================================================
