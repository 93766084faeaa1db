--------------------------- MODULE PipelineProofs ---------------------------
(***************************************************************************)
(* Theorems about Pipeline, for any number of packets, slots and cores.    *)
(*                                                                         *)
(* TypeOK is not inductive alone: an append needs a packet in the hand of  *)
(* the core.  HandsOK says at which labels a core holds one.               *)
(*                                                                         *)
(* The second half proves that the pipeline implements FrameQueue.  Its    *)
(* invariant QueueInv says where the pages that arrived are, in the order  *)
(* of arrival: those that passed the hashing cores, in any order, then     *)
(* hashing_buffer_list, then the slots of the ring that wait for core 1.   *)
(***************************************************************************)
EXTENDS PipelineHistory, NumberFacts, SequenceTheorems, FiniteSetTheorems, TLAPS

HandsOK ==
  /\ hand[Poller] # NoPacket <=> pc[Poller] \in {"enqueue", "arm"}
  /\ hand[Checker] # NoPacket <=> pc[Checker] \in {"check", "count", "recycle"}
  /\ \A c \in Hasher : hand[c] # NoPacket <=> pc[c] \in {"hash", "enqueue_check"}

TypeInv == TypeOK /\ HandsOK

-----------------------------------------------------------------------------
(* Cores and slots are what their indexes say. *)
LEMMA CoresAndSlots ==
  /\ Poller \in Core /\ Checker \in Core /\ Hasher \subseteq Core
  /\ \A c \in Hasher : c # Poller /\ c # Checker
  /\ Poller # Checker
  /\ \A x \in Int : x % RING_SIZE \in Slot /\ x % WORD \in 0..(WORD - 1)
<1>1. RING_SIZE \in Nat \ {0} /\ WORD \in Nat \ {0}
  BY RingAssumption, SMT
<1>2. \A x \in Int : x % RING_SIZE \in Slot /\ x % WORD \in 0..(WORD - 1)
  BY <1>1, SMT DEF Slot
<1> QED
  BY <1>2, CoreAssumption DEF Core

(* The start has the types. *)
LEMMA TypeInit == Init => TypeInv
<1> SUFFICES ASSUME Init PROVE TypeInv
  OBVIOUS
<1> DEFINE N == Cardinality(Packet)
<1>1. N \in Nat /\ RING_SIZE \in Nat \ {0} /\ RING_SIZE <= N /\ WORD \in Nat \ {0}
  BY FS_CardinalityType, RingAssumption, PacketAssumption, SMT
<1> HIDE DEF N
<1>2. PICK order \in Bijection(1..N, Packet) :
        /\ dma_base = [i \in Slot |-> order[i + 1]]
        /\ list = [l \in ListName |-> IF l = "garbage_list"
                                      THEN SubSeq(order, RING_SIZE + 1, N)
                                      ELSE <<>>]
  BY DEF Init, N
<1>3. order \in [1..N -> Packet]
  BY <1>2 DEF Bijection, Injection
<1>4. SubSeq(order, RING_SIZE + 1, N) \in Seq(Packet)
  <2>1. \A i \in (RING_SIZE + 1)..N : order[i] \in Packet
    BY <1>1, <1>3, SMT
  <2> QED
    BY <2>1, <1>1, SubSeqProperties, RING_SIZE + 1 \in Int, N \in Int
<1>5. list \in [ListName -> Seq(Packet)]
  BY <1>2, <1>4, EmptySeq, SMT
<1>6. dma_base \in [Slot -> Packet]
  BY <1>1, <1>2, <1>3, SMT DEF Slot
<1>7. pc \in [Core -> PollerLabel \cup HasherLabel \cup CheckerLabel]
  BY DEF Init, PollerLabel, HasherLabel, CheckerLabel
<1>8. pc[Poller] = "poll_ring" /\ pc[Checker] = "poll_check"
      /\ \A c \in Hasher : pc[c] = "poll_hashing"
  BY CoresAndSlots DEF Init
<1>9. hand = [c \in Core |-> NoPacket]
  BY DEF Init
<1>10. TypeOK
  BY <1>1, <1>5, <1>6, <1>7, <1>8, <1>9, SMT
     DEF TypeOK, Init, Slot, Code, PollerLabel, HasherLabel, CheckerLabel
<1>11. HandsOK
  BY <1>8, <1>9, CoresAndSlots DEF HandsOK
<1> QED
  BY <1>10, <1>11 DEF TypeInv

-----------------------------------------------------------------------------
(* The two list operations keep lists of packets and hands. *)
LEMMA AppendListType ==
  ASSUME TypeOK, NEW c \in Core, NEW l \in ListName, hand[c] # NoPacket, AppendList(c, l)
  PROVE  /\ list' \in [ListName -> Seq(Packet)]
         /\ hand' \in [Core -> Packet \cup {NoPacket}]
<1>1. hand[c] \in Packet /\ list[l] \in Seq(Packet)
  BY DEF TypeOK
<1>2. Append(list[l], hand[c]) \in Seq(Packet)
  BY <1>1, AppendProperties
<1> QED
  BY <1>2 DEF AppendList, TypeOK

(* poll() keeps the types of the lists and hands. *)
LEMMA PollType ==
  ASSUME TypeOK, NEW c \in Core, NEW l \in ListName, Poll(c, l)
  PROVE  /\ list' \in [ListName -> Seq(Packet)]
         /\ hand' \in [Core -> Packet \cup {NoPacket}]
         /\ hand'[c] \in Packet
<1>1. list[l] \in Seq(Packet) /\ list[l] # <<>>
  BY DEF TypeOK, Poll
<1>2. Head(list[l]) \in Packet /\ Tail(list[l]) \in Seq(Packet)
  BY <1>1, HeadTailProperties
<1> QED
  BY <1>2 DEF Poll, TypeOK

(* Every step keeps the types. *)
LEMMA TypeStep == TypeInv /\ [Next]_vars => TypeInv'
<1> SUFFICES ASSUME TypeInv, [Next]_vars PROVE TypeInv'
  OBVIOUS
<1> USE CoresAndSlots
<1>a. TypeOK /\ HandsOK
  BY DEF TypeInv
<1>b. TailSlot \in Slot /\ HeadSlot \in Slot
  BY <1>a, SMT DEF TypeOK, TailSlot, HeadSlot
<1>c. {"garbage_list", "hashing_buffer_list", "check_packet_buffer_list"} \subseteq ListName
  BY DEF ListName
<1>d. NoPacket \notin Packet
  BY PacketAssumption
<1> USE DEF TypeInv, PollerLabel, HasherLabel, CheckerLabel, Goto, ringVars, dataVars, factVars
<1>1. ASSUME NEW f \in Frame, Receive(f) PROVE TypeInv'
  <2>1. dma_base[HeadSlot] \in Packet /\ FrameLength(f) \in Length
    BY <1>a, <1>b DEF TypeOK, Length
  <2>2. contents' \in [Packet -> Content]
    BY <1>1, <1>a, <2>1, DataAssumption DEF TypeOK, Receive
  <2>3. dma_len' \in [Slot -> Length]
    BY <1>1, <1>a, <2>1 DEF TypeOK, Receive
  <2>4. rx_head' \in 0..(WORD - 1)
    BY <1>1, <1>a, SMT DEF TypeOK, Receive
  <2> QED
    BY <1>1, <1>a, <2>2, <2>3, <2>4 DEF TypeOK, HandsOK, Receive
<1>2. CASE TakeFrame
  <2>1. dma_base[TailSlot] \in Packet /\ dma_len[TailSlot] \in Length
    BY <1>a, <1>b DEF TypeOK
  <2> QED
    BY <1>2, <1>a, <1>d, <2>1 DEF TypeOK, HandsOK, TakeFrame
<1>3. CASE EnqueueFrame
  <2>1. list' \in [ListName -> Seq(Packet)] /\ hand' \in [Core -> Packet \cup {NoPacket}]
    BY <1>3, <1>a, <1>c, AppendListType DEF HandsOK, EnqueueFrame
  <2> QED
    BY <1>3, <1>a, <2>1 DEF TypeOK, HandsOK, EnqueueFrame, AppendList
<1>4. CASE Refill
  <2>1. list' \in [ListName -> Seq(Packet)] /\ hand' \in [Core -> Packet \cup {NoPacket}]
        /\ hand'[Poller] \in Packet
    BY <1>4, <1>a, <1>c, PollType DEF Refill
  <2> QED
    BY <1>4, <1>a, <1>d, <2>1 DEF TypeOK, HandsOK, Refill, Poll
<1>5. CASE Arm
  <2>1. hand[Poller] \in Packet
    BY <1>5, <1>a DEF TypeOK, HandsOK, Arm
  <2> QED
    BY <1>5, <1>a, <1>b, <2>1 DEF TypeOK, HandsOK, Arm, Length
<1>6. CASE Advance
  <2>1. rx_tail' \in 0..(WORD - 1)
    BY <1>6, <1>a, SMT DEF TypeOK, Advance
  <2> QED
    BY <1>6, <1>a, <2>1 DEF TypeOK, HandsOK, Advance
<1>7. ASSUME NEW c \in Hasher, PollHashing(c) PROVE TypeInv'
  <2>1. list' \in [ListName -> Seq(Packet)] /\ hand' \in [Core -> Packet \cup {NoPacket}]
        /\ hand'[c] \in Packet
    BY <1>7, <1>a, <1>c, PollType DEF PollHashing
  <2> QED
    BY <1>7, <1>a, <1>d, <2>1 DEF TypeOK, HandsOK, PollHashing, Poll
<1>8. ASSUME NEW c \in Hasher, Hash(c) PROVE TypeInv'
  <2>1. hand[c] \in Packet
    BY <1>8, <1>a DEF TypeOK, HandsOK, Hash
  <2>2. Djb2(contents[hand[c]], packet_length[hand[c]]) \in HashValue
    BY <2>1, <1>a, DataAssumption DEF TypeOK
  <2> QED
    BY <1>8, <1>a, <2>1, <2>2 DEF TypeOK, HandsOK, Hash
<1>9. ASSUME NEW c \in Hasher, EnqueueCheck(c) PROVE TypeInv'
  <2>1. list' \in [ListName -> Seq(Packet)] /\ hand' \in [Core -> Packet \cup {NoPacket}]
    BY <1>9, <1>a, <1>c, AppendListType DEF HandsOK, EnqueueCheck
  <2> QED
    BY <1>9, <1>a, <2>1 DEF TypeOK, HandsOK, EnqueueCheck, AppendList
<1>10. CASE PollCheck
  <2>1. list' \in [ListName -> Seq(Packet)] /\ hand' \in [Core -> Packet \cup {NoPacket}]
        /\ hand'[Checker] \in Packet
    BY <1>10, <1>a, <1>c, PollType DEF PollCheck
  <2> QED
    BY <1>10, <1>a, <1>d, <2>1 DEF TypeOK, HandsOK, PollCheck, Poll
<1>11. CASE CheckPacket
  <2>1. hand[Checker] \in Packet
    BY <1>11, <1>a DEF TypeOK, HandsOK, CheckPacket
  <2>2. tables' \in Tables /\ code' \in Code
    BY <1>11, <1>a, <2>1, DataAssumption DEF TypeOK, CheckPacket
  <2> QED
    BY <1>11, <1>a, <2>1, <2>2 DEF TypeOK, HandsOK, CheckPacket
<1>12. CASE CountPacket
  <2>1. hand[Checker] \in Packet
    BY <1>12, <1>a DEF TypeOK, HandsOK, CountPacket
  <2>2. packet_length[hand[Checker]] \in Length /\ code \in Code
    BY <1>a, <2>1 DEF TypeOK
  <2>3. stats' \in Statistics
    BY <1>12, <1>a, <2>2, DataAssumption DEF TypeOK, CountPacket
  <2>4. code' \in Code
    BY <1>12, SMT DEF CountPacket, Code
  <2> QED
    BY <1>12, <1>a, <2>1, <2>3, <2>4 DEF TypeOK, HandsOK, CountPacket
<1>13. CASE Recycle
  <2>1. list' \in [ListName -> Seq(Packet)] /\ hand' \in [Core -> Packet \cup {NoPacket}]
    BY <1>13, <1>a, <1>c, AppendListType DEF HandsOK, Recycle
  <2> QED
    BY <1>13, <1>a, <2>1 DEF TypeOK, HandsOK, Recycle, AppendList
<1>14. CASE UNCHANGED vars
  BY <1>14, <1>a DEF TypeOK, HandsOK, vars
<1> QED
  BY <1>1, <1>2, <1>3, <1>4, <1>5, <1>6, <1>7, <1>8, <1>9, <1>10, <1>11, <1>12, <1>13, <1>14
     DEF Next, PollerStep, HasherStep, CheckerStep

(* Every variable of the pipeline keeps its type. *)
THEOREM TypeCorrect == Spec => []TypeOK
<1>1. TypeInv => TypeOK
  BY DEF TypeInv
<1> QED
  BY <1>1, TypeInit, TypeStep, PTL DEF Spec

-----------------------------------------------------------------------------
(* The ring: its indexes stay within RING_SIZE of each other, and equal    *)
(* slots mean an empty or a full ring.                                     *)
LEMMA RingFacts ==
  ASSUME TypeOK, RingBounded
  PROVE  /\ Occupancy \in 0..RING_SIZE
         /\ Occupancy = 0 <=> RingEmpty
         /\ Occupancy = RING_SIZE <=> RingFull
<1>1. /\ RING_SIZE \in Nat \ {0} /\ WORD \in Nat \ {0} /\ WORD % RING_SIZE = 0
      /\ rx_head \in 0..(WORD - 1) /\ rx_tail \in 0..(WORD - 1)
  BY RingAssumption, SMT DEF TypeOK
<1>2. Occupancy \in 0..(WORD - 1) /\ (Occupancy = 0 <=> rx_head = rx_tail)
  BY <1>1, DistanceSteps DEF Occupancy
<1>3. HeadSlot = TailSlot <=> rx_head = rx_tail \/ Occupancy = RING_SIZE
  <2>1. (rx_head - rx_tail) % WORD <= RING_SIZE
    BY DEF RingBounded, Occupancy
  <2>2. /\ rx_head # rx_tail /\ (rx_head - rx_tail) % WORD # RING_SIZE
             => rx_head % RING_SIZE # rx_tail % RING_SIZE
        /\ rx_head % RING_SIZE # rx_tail % RING_SIZE
             => rx_head # rx_tail /\ (rx_head - rx_tail) % WORD # RING_SIZE
    BY <1>1, <2>1, SameSlot, Zenon
  <2> QED
    BY <2>2 DEF Occupancy, HeadSlot, TailSlot
<1> QED
  BY <1>1, <1>2, <1>3, SMT DEF RingBounded, RingEmpty, RingFull

(* One frame more, or one slot served, moves the indexes by one. *)
LEMMA RingMoves ==
  ASSUME TypeOK
  PROVE  /\ Occupancy < WORD - 1 => (((rx_head + 1) % WORD) - rx_tail) % WORD = Occupancy + 1
         /\ Occupancy >= 1 => (rx_head - ((rx_tail + 1) % WORD)) % WORD = Occupancy - 1
<1>1. WORD \in Nat \ {0} /\ rx_head \in 0..(WORD - 1) /\ rx_tail \in 0..(WORD - 1)
  BY RingAssumption, SMT DEF TypeOK
<1>2. (rx_head - rx_tail) % WORD < WORD - 1
        => (((rx_head + 1) % WORD) - rx_tail) % WORD = ((rx_head - rx_tail) % WORD) + 1
  BY <1>1, DistanceSteps
<1>3. (rx_head - rx_tail) % WORD >= 1
        => (rx_head - ((rx_tail + 1) % WORD)) % WORD = ((rx_head - rx_tail) % WORD) - 1
  BY <1>1, DistanceSteps
<1> QED
  BY <1>2, <1>3 DEF Occupancy

(* The ring is empty at first. *)
LEMMA RingInit == Init => RingBounded
<1> SUFFICES ASSUME Init PROVE RingBounded
  OBVIOUS
<1>1. WORD \in Nat \ {0} /\ RING_SIZE \in Nat \ {0} /\ 0 \in 0..(WORD - 1)
  BY RingAssumption, SMT
<1>2. Occupancy = 0
  BY <1>1, DistanceSteps DEF Init, Occupancy
<1>3. pc[Poller] = "poll_ring"
  BY CoresAndSlots DEF Init
<1> QED
  BY <1>1, <1>2, <1>3, SMT DEF RingBounded

(* Every step keeps the indexes apart by at most the capacity. *)
LEMMA RingStep == TypeInv /\ RingBounded /\ [Next]_vars => RingBounded'
<1> SUFFICES ASSUME TypeInv, RingBounded, [Next]_vars PROVE RingBounded'
  OBVIOUS
<1> USE CoresAndSlots
<1>a. TypeOK
  BY DEF TypeInv
<1>b. /\ RING_SIZE \in Nat \ {0} /\ WORD \in Nat \ {0} /\ WORD >= 2 * RING_SIZE
      /\ rx_head \in 0..(WORD - 1) /\ rx_tail \in 0..(WORD - 1)
  BY <1>a, RingAssumption, SMT DEF TypeOK
<1>c. Occupancy \in 0..RING_SIZE /\ (Occupancy = 0 <=> RingEmpty)
      /\ (Occupancy = RING_SIZE <=> RingFull)
  BY <1>a, RingFacts
<1>1. ASSUME NEW f \in Frame, Receive(f) PROVE RingBounded'
  <2>1. Occupancy < RING_SIZE /\ Occupancy < WORD - 1
    BY <1>1, <1>b, <1>c, SMT DEF Receive
  <2>2. Occupancy' = Occupancy + 1
    <3>1. (((rx_head + 1) % WORD) - rx_tail) % WORD = Occupancy + 1
      BY <1>a, <2>1, RingMoves
    <3> QED
      BY <1>1, <3>1 DEF Receive, Occupancy
  <2> QED
    BY <1>b, <1>c, <2>1, <2>2, SMT DEF RingBounded
<1>2. CASE Advance
  <2>1. pc[Poller] = "advance" /\ pc'[Poller] = "poll_ring"
    BY <1>2, <1>a DEF Advance, Goto, TypeOK
  <2>2. Occupancy >= 1
    BY <2>1 DEF RingBounded
  <2>3. Occupancy' = Occupancy - 1
    <3>1. (rx_head - ((rx_tail + 1) % WORD)) % WORD = Occupancy - 1
      BY <1>a, <2>2, RingMoves
    <3> QED
      BY <1>2, <3>1 DEF Advance, Occupancy
  <2> QED
    BY <1>b, <1>c, <2>1, <2>3, SMT DEF RingBounded
<1>3. CASE TakeFrame
  <2>1. Occupancy >= 1
    BY <1>3, <1>c, SMT DEF TakeFrame
  <2>2. Occupancy' = Occupancy
    BY <1>3 DEF TakeFrame, ringVars, Occupancy
  <2> QED
    BY <2>1, <2>2 DEF RingBounded
<1>4. CASE EnqueueFrame \/ Refill \/ Arm
  <2>1. pc[Poller] # "poll_ring" /\ Occupancy' = Occupancy
    BY <1>4 DEF EnqueueFrame, Refill, Arm, Goto, ringVars, Occupancy
  <2> QED
    BY <2>1 DEF RingBounded
<1>5. CASE (\E c \in Hasher : HasherStep(c)) \/ CheckerStep \/ UNCHANGED vars
  <2>1. rx_head' = rx_head /\ rx_tail' = rx_tail /\ pc'[Poller] = pc[Poller]
    BY <1>5, <1>a
       DEF HasherStep, PollHashing, Hash, EnqueueCheck, CheckerStep, PollCheck, CheckPacket,
           CountPacket, Recycle, Goto, ringVars, vars, TypeOK
  <2> QED
    BY <2>1 DEF RingBounded, Occupancy
<1> QED
  BY <1>1, <1>2, <1>3, <1>4, <1>5 DEF Next, PollerStep

(* The device never runs over the frames core 1 has not taken, and core 1  *)
(* never serves an empty slot, however often the indexes wrap around.      *)
THEOREM RingCorrect == Spec => []RingBounded
<1>1. Init => TypeInv /\ RingBounded
  BY TypeInit, RingInit
<1>2. TypeInv /\ RingBounded /\ [Next]_vars => (TypeInv /\ RingBounded)'
  BY TypeStep, RingStep
<1> QED
  BY <1>1, <1>2, PTL DEF Spec

-----------------------------------------------------------------------------
(* What an append and a poll do to one list. *)
LEMMA AppendListMoves ==
  ASSUME TypeOK, NEW c \in Core, NEW l \in ListName, hand[c] # NoPacket, AppendList(c, l)
  PROVE  /\ \A p \in Packet : OnList(l, p)' <=> OnList(l, p) \/ p = hand[c]
         /\ \A m \in ListName \ {l} : list'[m] = list[m]
         /\ hand'[c] = NoPacket
         /\ \A d \in Core \ {c} : hand'[d] = hand[d]
         /\ OnOneList /\ ~InList(hand[c]) => OnOneList'
<1>1. hand[c] \in Packet /\ list[l] \in Seq(Packet)
  BY DEF TypeOK
<1>2. /\ list'[l] = Append(list[l], hand[c])
      /\ \A m \in ListName \ {l} : list'[m] = list[m]
      /\ hand'[c] = NoPacket
      /\ \A d \in Core \ {c} : hand'[d] = hand[d]
  BY DEF AppendList, TypeOK
<1>3. /\ Len(list[l]) \in Nat
      /\ Len(list'[l]) = Len(list[l]) + 1
      /\ \A i \in 1..Len(list[l]) : list'[l][i] = list[l][i]
      /\ list'[l][Len(list[l]) + 1] = hand[c]
  BY <1>1, <1>2, AppendProperties, LenProperties
<1>4. /\ \A i \in 1..Len(list'[l]) : i \in 1..Len(list[l]) \/ i = Len(list[l]) + 1
      /\ 1..Len(list[l]) \subseteq 1..Len(list'[l])
      /\ Len(list[l]) + 1 \in 1..Len(list'[l])
  BY <1>3, SMT
<1>5. \A p \in Packet : OnList(l, p)' <=> OnList(l, p) \/ p = hand[c]
  BY <1>3, <1>4 DEF OnList
<1>6. ASSUME OnOneList, ~InList(hand[c]) PROVE OnOneList'
  <2> SUFFICES ASSUME NEW m \in ListName, NEW n \in ListName,
                      NEW i \in 1..Len(list'[m]), NEW j \in 1..Len(list'[n]),
                      list'[m][i] = list'[n][j]
               PROVE  m = n /\ i = j
    BY DEF OnOneList
  <2>1. \A k \in ListName : \A a \in 1..Len(list'[k]) :
          \/ a \in 1..Len(list[k]) /\ list'[k][a] = list[k][a]
          \/ k = l /\ a = Len(list[l]) + 1 /\ list'[k][a] = hand[c]
    BY <1>2, <1>3, <1>4
  <2>2. \A k \in ListName : \A a \in 1..Len(list[k]) : list[k][a] # hand[c]
    BY <1>6 DEF InList, OnList
  <2> QED
    BY <1>6, <2>1, <2>2 DEF OnOneList
<1> QED
  BY <1>2, <1>5, <1>6

(* What poll() moves: the head, from this list only, into this hand only. *)
LEMMA PollMoves ==
  ASSUME TypeOK, NEW c \in Core, NEW l \in ListName, Poll(c, l), OnOneList
  PROVE  /\ hand'[c] \in Packet
         /\ OnList(l, hand'[c])
         /\ \A p \in Packet : OnList(l, p)' <=> OnList(l, p) /\ p # hand'[c]
         /\ \A m \in ListName \ {l} : list'[m] = list[m]
         /\ \A d \in Core \ {c} : hand'[d] = hand[d]
         /\ OnOneList'
<1>1. list[l] \in Seq(Packet) /\ list[l] # <<>>
  BY DEF TypeOK, Poll
<1>2. /\ list'[l] = Tail(list[l])
      /\ \A m \in ListName \ {l} : list'[m] = list[m]
      /\ hand'[c] = Head(list[l])
      /\ \A d \in Core \ {c} : hand'[d] = hand[d]
  BY DEF Poll, TypeOK
<1>3. /\ Len(list[l]) \in Nat \ {0}
      /\ Head(list[l]) = list[l][1] /\ Head(list[l]) \in Packet
      /\ Len(list'[l]) = Len(list[l]) - 1
      /\ \A i \in 1..Len(list'[l]) : list'[l][i] = list[l][i + 1]
  <2>1. Len(list[l]) \in Nat \ {0}
    BY <1>1, EmptySeq, LenProperties
  <2>2. Head(list[l]) = list[l][1]
    BY <1>1, SMT
  <2> QED
    BY <1>1, <1>2, <2>1, <2>2, HeadTailProperties
<1>4. /\ \A i \in 1..Len(list'[l]) : i + 1 \in 1..Len(list[l]) /\ i + 1 # 1
      /\ \A i \in 1..Len(list[l]) : i = 1 \/ (i - 1 \in 1..Len(list'[l]) /\ (i - 1) + 1 = i)
      /\ 1 \in 1..Len(list[l])
      /\ \A i, j \in 1..Len(list'[l]) : i + 1 = j + 1 => i = j
  BY <1>3, SMT
<1>5. OnList(l, hand'[c])
  BY <1>2, <1>3, <1>4 DEF OnList
<1>6. \A i \in 1..Len(list[l]) : list[l][i] = list[l][1] => i = 1
  BY <1>4 DEF OnOneList
<1>7. \A p \in Packet : OnList(l, p)' <=> OnList(l, p) /\ p # hand'[c]
  <2> SUFFICES ASSUME NEW p \in Packet
               PROVE  OnList(l, p)' <=> OnList(l, p) /\ p # list[l][1]
    BY <1>2, <1>3
  <2>1. ASSUME OnList(l, p)' PROVE OnList(l, p) /\ p # list[l][1]
    <3>1. PICK i \in 1..Len(list'[l]) : list'[l][i] = p
      BY <2>1 DEF OnList
    <3>2. i + 1 \in 1..Len(list[l]) /\ list[l][i + 1] = p /\ i + 1 # 1
      BY <3>1, <1>3, <1>4
    <3> QED
      BY <3>2, <1>6 DEF OnList
  <2>2. ASSUME OnList(l, p), p # list[l][1] PROVE OnList(l, p)'
    <3>1. PICK i \in 1..Len(list[l]) : list[l][i] = p
      BY <2>2 DEF OnList
    <3>2. i - 1 \in 1..Len(list'[l]) /\ list'[l][i - 1] = list[l][i]
      BY <2>2, <3>1, <1>3, <1>4
    <3> QED
      BY <3>1, <3>2 DEF OnList
  <2> QED
    BY <2>1, <2>2
<1>8. OnOneList'
  <2> SUFFICES ASSUME NEW m \in ListName, NEW n \in ListName,
                      NEW i \in 1..Len(list'[m]), NEW j \in 1..Len(list'[n]),
                      list'[m][i] = list'[n][j]
               PROVE  m = n /\ i = j
    BY DEF OnOneList
  <2>1. CASE m = l /\ n = l
    BY <2>1, <1>3, <1>4 DEF OnOneList
  <2>2. CASE m = l /\ n # l
    BY <2>2, <1>2, <1>3, <1>4 DEF OnOneList
  <2>3. CASE m # l /\ n = l
    BY <2>3, <1>2, <1>3, <1>4 DEF OnOneList
  <2>4. CASE m # l /\ n # l
    BY <2>4, <1>2 DEF OnOneList
  <2> QED
    BY <2>1, <2>2, <2>3, <2>4
<1> QED
  BY <1>2, <1>3, <1>5, <1>7, <1>8

-----------------------------------------------------------------------------
(* The steps that move packets keep every packet in exactly one place.     *)
Owned == ExclusiveOwner /\ NoLeak

(* append_list() moves a packet from the hand to the list, and no other. *)
LEMMA AppendListOwned ==
  ASSUME TypeOK, Owned, NEW c \in Core, NEW l \in ListName, hand[c] # NoPacket,
         AppendList(c, l), ArmedSlots' = ArmedSlots, dma_base' = dma_base
  PROVE  Owned'
<1>1. /\ OnOneList /\ InOneHand /\ InOneSlot /\ InOnePlace /\ NoLeak
      /\ hand[c] \in Packet /\ NoPacket \notin Packet
  BY PacketAssumption DEF Owned, ExclusiveOwner, TypeOK
<1>2. InHand(hand[c]) /\ ~InList(hand[c]) /\ ~InRing(hand[c])
  BY <1>1 DEF InHand, InOnePlace
<1>3. /\ \A p \in Packet : OnList(l, p)' <=> OnList(l, p) \/ p = hand[c]
      /\ \A m \in ListName \ {l} : list'[m] = list[m]
      /\ hand'[c] = NoPacket
      /\ \A d \in Core \ {c} : hand'[d] = hand[d]
      /\ OnOneList'
  BY <1>1, <1>2, AppendListMoves
<1>4. \A p \in Packet : InList(p)' <=> InList(p) \/ p = hand[c]
  BY <1>3 DEF InList, OnList
<1>5. \A p \in Packet : InHand(p)' <=> InHand(p) /\ p # hand[c]
  BY <1>1, <1>3 DEF InHand, InOneHand
<1>6. \A p \in Packet : InRing(p)' <=> InRing(p)
  BY DEF InRing
<1>7. InOneHand'
  BY <1>1, <1>3 DEF InOneHand
<1>8. InOneSlot'
  BY <1>1 DEF InOneSlot
<1>9. InOnePlace'
  BY <1>1, <1>2, <1>4, <1>5, <1>6 DEF InOnePlace
<1>10. NoLeak'
  BY <1>1, <1>4, <1>5, <1>6 DEF NoLeak
<1> QED
  BY <1>3, <1>7, <1>8, <1>9, <1>10 DEF Owned, ExclusiveOwner

(* poll() moves a packet from the list to the hand, and no other. *)
LEMMA PollOwned ==
  ASSUME TypeOK, Owned, NEW c \in Core, NEW l \in ListName, hand[c] = NoPacket,
         Poll(c, l), ArmedSlots' = ArmedSlots, dma_base' = dma_base
  PROVE  Owned'
<1>1. /\ OnOneList /\ InOneHand /\ InOneSlot /\ InOnePlace /\ NoLeak
      /\ NoPacket \notin Packet
  BY PacketAssumption DEF Owned, ExclusiveOwner
<1>2. /\ hand'[c] \in Packet
      /\ OnList(l, hand'[c])
      /\ \A p \in Packet : OnList(l, p)' <=> OnList(l, p) /\ p # hand'[c]
      /\ \A m \in ListName \ {l} : list'[m] = list[m]
      /\ \A d \in Core \ {c} : hand'[d] = hand[d]
      /\ OnOneList'
  BY <1>1, PollMoves
<1>3. InList(hand'[c]) /\ ~InHand(hand'[c]) /\ ~InRing(hand'[c])
  BY <1>1, <1>2 DEF InList, InOnePlace
<1>4. \A m \in ListName \ {l} : ~OnList(m, hand'[c])
  BY <1>1, <1>2 DEF OnList, OnOneList
<1>5. \A p \in Packet : InList(p)' <=> InList(p) /\ p # hand'[c]
  <2>1. \A m \in ListName \ {l}, p \in Packet : OnList(m, p)' <=> OnList(m, p)
    BY <1>2 DEF OnList
  <2> QED
    BY <1>2, <1>4, <2>1 DEF InList
<1>6. \A p \in Packet : InHand(p)' <=> InHand(p) \/ p = hand'[c]
  BY <1>1, <1>2 DEF InHand
<1>7. \A p \in Packet : InRing(p)' <=> InRing(p)
  BY DEF InRing
<1>8. InOneHand'
  BY <1>1, <1>2, <1>3 DEF InOneHand, InHand
<1>9. InOneSlot'
  BY <1>1 DEF InOneSlot
<1>10. InOnePlace'
  BY <1>1, <1>3, <1>5, <1>6, <1>7 DEF InOnePlace
<1>11. NoLeak'
  BY <1>1, <1>5, <1>6, <1>7 DEF NoLeak
<1> QED
  BY <1>2, <1>8, <1>9, <1>10, <1>11 DEF Owned, ExclusiveOwner

(* Taking a frame moves the packet of the tail slot to the hand of core 1. *)
LEMMA TakeFrameOwned == TypeInv /\ Owned /\ TakeFrame => Owned'
<1> SUFFICES ASSUME TypeInv, Owned, TakeFrame PROVE Owned'
  OBVIOUS
<1> DEFINE q == dma_base[TailSlot]
<1>1. /\ OnOneList /\ InOneHand /\ InOneSlot /\ InOnePlace /\ NoLeak
      /\ TypeOK /\ HandsOK /\ NoPacket \notin Packet
  BY PacketAssumption DEF Owned, ExclusiveOwner, TypeInv
<1>2. TailSlot \in Slot
  BY <1>1, CoresAndSlots, SMT DEF TypeOK, TailSlot
<1>3. /\ q \in Packet /\ hand[Poller] = NoPacket
      /\ ArmedSlots = Slot /\ ArmedSlots' = Slot \ {TailSlot}
      /\ list' = list /\ dma_base' = dma_base
  BY <1>1, <1>2, CoresAndSlots
     DEF TakeFrame, Goto, TypeOK, HandsOK, ArmedSlots, ringVars, TailSlot
<1>4. hand'[Poller] = q /\ \A d \in Core \ {Poller} : hand'[d] = hand[d]
  BY <1>1, CoresAndSlots DEF TakeFrame, TypeOK
<1> HIDE DEF q
<1>5. InRing(q) /\ ~InHand(q) /\ ~InList(q)
  BY <1>1, <1>2, <1>3 DEF q, InRing, InOnePlace
<1>6. \A p \in Packet : InList(p)' <=> InList(p)
  BY <1>3 DEF InList, OnList
<1>7. \A p \in Packet : InHand(p)' <=> InHand(p) \/ p = q
  BY <1>1, <1>3, <1>4, CoresAndSlots DEF InHand
<1>8. \A p \in Packet : InRing(p)' <=> InRing(p) /\ p # q
  BY <1>1, <1>2, <1>3 DEF q, InRing, InOneSlot
<1>9. OnOneList'
  BY <1>1, <1>3 DEF OnOneList
<1>10. InOneHand'
  BY <1>1, <1>3, <1>4, <1>5 DEF InOneHand, InHand
<1>11. InOneSlot'
  BY <1>1, <1>3 DEF InOneSlot
<1>12. InOnePlace'
  BY <1>1, <1>5, <1>6, <1>7, <1>8 DEF InOnePlace
<1>13. NoLeak'
  BY <1>1, <1>6, <1>7, <1>8 DEF NoLeak
<1> QED
  BY <1>9, <1>10, <1>11, <1>12, <1>13 DEF Owned, ExclusiveOwner

(* Arming the tail slot moves the packet in the hand of core 1 there.      *)
LEMMA ArmOwned == TypeInv /\ Owned /\ Arm => Owned'
<1> SUFFICES ASSUME TypeInv, Owned, Arm PROVE Owned'
  OBVIOUS
<1> DEFINE q == hand[Poller]
<1>1. /\ OnOneList /\ InOneHand /\ InOneSlot /\ InOnePlace /\ NoLeak
      /\ TypeOK /\ HandsOK /\ NoPacket \notin Packet
  BY PacketAssumption DEF Owned, ExclusiveOwner, TypeInv
<1>2. TailSlot \in Slot
  BY <1>1, CoresAndSlots, SMT DEF TypeOK, TailSlot
<1>3. /\ q \in Packet
      /\ ArmedSlots = Slot \ {TailSlot} /\ ArmedSlots' = Slot
      /\ list' = list
  BY <1>1, <1>2, CoresAndSlots DEF Arm, Goto, TypeOK, HandsOK, ArmedSlots, TailSlot
<1>4. /\ hand'[Poller] = NoPacket /\ \A d \in Core \ {Poller} : hand'[d] = hand[d]
      /\ dma_base'[TailSlot] = q /\ \A i \in Slot \ {TailSlot} : dma_base'[i] = dma_base[i]
  BY <1>1, <1>2, CoresAndSlots DEF Arm, TypeOK
<1>5. InHand(q) /\ ~InRing(q) /\ ~InList(q)
  BY <1>1, <1>3, CoresAndSlots DEF q, InHand, InOnePlace
<1>6. \A p \in Packet : InList(p)' <=> InList(p)
  BY <1>3 DEF InList, OnList
<1>7. \A p \in Packet : InHand(p)' <=> InHand(p) /\ p # q
  BY <1>1, <1>3, <1>4, CoresAndSlots DEF InHand, InOneHand
<1> HIDE DEF q
<1>8. \A p \in Packet : InRing(p)' <=> InRing(p) \/ p = q
  BY <1>2, <1>3, <1>4 DEF InRing
<1>9. OnOneList'
  BY <1>1, <1>3 DEF OnOneList
<1>10. InOneHand'
  BY <1>1, <1>4 DEF InOneHand
<1>11. InOneSlot'
  BY <1>1, <1>3, <1>4, <1>5 DEF InOneSlot, InRing
<1>12. InOnePlace'
  BY <1>1, <1>5, <1>6, <1>7, <1>8 DEF InOnePlace
<1>13. NoLeak'
  BY <1>1, <1>6, <1>7, <1>8 DEF NoLeak
<1> QED
  BY <1>9, <1>10, <1>11, <1>12, <1>13 DEF Owned, ExclusiveOwner

(* No other step changes who owns what. *)
LEMMA SamePlaces ==
  ASSUME Owned, list' = list, hand' = hand, dma_base' = dma_base, ArmedSlots' = ArmedSlots
  PROVE  Owned'
BY DEF Owned, ExclusiveOwner, OnOneList, InOneHand, InOneSlot, InOnePlace, NoLeak,
       InList, OnList, InHand, InRing

(* After network_init_pipeline() the packets are in the ring and on the    *)
(* garbage list, in the order in which they were allocated.                *)
LEMMA OwnedInit == Init => Owned
<1> SUFFICES ASSUME Init PROVE Owned
  OBVIOUS
<1> DEFINE N == Cardinality(Packet)
<1>1. N \in Nat /\ RING_SIZE \in Nat \ {0} /\ RING_SIZE <= N
  BY FS_CardinalityType, RingAssumption, PacketAssumption, SMT
<1>2. NoPacket \notin Packet
  BY PacketAssumption
<1> HIDE DEF N
<1>3. PICK order \in Bijection(1..N, Packet) :
        /\ dma_base = [i \in Slot |-> order[i + 1]]
        /\ list = [l \in ListName |-> IF l = "garbage_list"
                                      THEN SubSeq(order, RING_SIZE + 1, N)
                                      ELSE <<>>]
  BY DEF Init, N
<1>4. /\ order \in [1..N -> Packet]
      /\ \A i, j \in 1..N : order[i] = order[j] => i = j
      /\ \A p \in Packet : \E i \in 1..N : order[i] = p
  BY <1>3 DEF Bijection, Injection, Surjection, IsInjective
<1>5. pc[Poller] = "poll_ring" /\ hand = [c \in Core |-> NoPacket]
  BY CoresAndSlots DEF Init
<1>6. ArmedSlots = Slot
  BY <1>5 DEF ArmedSlots
<1>7. \A i \in Slot : i + 1 \in 1..N /\ dma_base[i] = order[i + 1] /\ i + 1 <= RING_SIZE
  BY <1>1, <1>3, SMT DEF Slot
<1>8. /\ Len(list["garbage_list"]) = N - RING_SIZE
      /\ \A i \in 1..(N - RING_SIZE) : list["garbage_list"][i] = order[i + RING_SIZE]
  <2>1. \A i \in (RING_SIZE + 1)..N : order[i] \in Packet
    BY <1>1, <1>4, SMT
  <2>2. list["garbage_list"] = SubSeq(order, RING_SIZE + 1, N)
    BY <1>3 DEF ListName
  <2>3. /\ Len(SubSeq(order, RING_SIZE + 1, N)) = N - RING_SIZE
        /\ \A i \in 1..(N - RING_SIZE) :
             SubSeq(order, RING_SIZE + 1, N)[i] = order[i + RING_SIZE]
    BY <1>1, SMT
  <2> QED
    BY <2>2, <2>3
<1>9. \A l \in ListName \ {"garbage_list"} : 1..Len(list[l]) = {}
  BY <1>3, SMT DEF ListName
<1>10. OnOneList
  <2>1. \A l \in ListName : \A i \in 1..Len(list[l]) :
          /\ l = "garbage_list"
          /\ i \in 1..(N - RING_SIZE)
          /\ i + RING_SIZE \in 1..N
          /\ list[l][i] = order[i + RING_SIZE]
    BY <1>1, <1>8, <1>9, SMT
  <2>2. \A i, j \in 1..(N - RING_SIZE) : i + RING_SIZE = j + RING_SIZE => i = j
    BY <1>1, SMT
  <2>3. SUFFICES ASSUME NEW l \in ListName, NEW m \in ListName, NEW i \in 1..Len(list[l]),
                        NEW j \in 1..Len(list[m]), list[l][i] = list[m][j]
                 PROVE  l = m /\ i = j
    BY DEF OnOneList
  <2>4. /\ l = m /\ i \in 1..(N - RING_SIZE) /\ j \in 1..(N - RING_SIZE)
        /\ i + RING_SIZE \in 1..N /\ j + RING_SIZE \in 1..N
        /\ order[i + RING_SIZE] = order[j + RING_SIZE]
    BY <2>1, <2>3
  <2>5. i + RING_SIZE = j + RING_SIZE
    BY <1>4, <2>4
  <2> QED
    BY <2>2, <2>4, <2>5
<1>11. InOneHand
  BY <1>5 DEF InOneHand
<1>12. InOneSlot
  <2>1. \A i, j \in Slot : i + 1 = j + 1 => i = j
    BY SMT DEF Slot
  <2> QED
    BY <1>4, <1>6, <1>7, <2>1 DEF InOneSlot
<1>13. \A p \in Packet : ~InHand(p)
  BY <1>2, <1>5 DEF InHand
<1>14. \A p \in Packet : ~(InList(p) /\ InRing(p))
  <2> SUFFICES ASSUME NEW p \in Packet, InList(p), InRing(p) PROVE FALSE
    OBVIOUS
  <2>1. PICK j \in Slot : dma_base[j] = p
    BY <1>6 DEF InRing
  <2>2. PICK l \in ListName : \E i \in 1..Len(list[l]) : list[l][i] = p
    BY DEF InList, OnList
  <2>3. PICK i \in 1..Len(list[l]) : list[l][i] = p
    BY <2>2
  <2>4. i + RING_SIZE \in 1..N /\ order[i + RING_SIZE] = p /\ i + RING_SIZE > RING_SIZE
    BY <1>1, <1>8, <1>9, <2>3, SMT
  <2>5. j + 1 = i + RING_SIZE
    BY <1>4, <1>7, <2>1, <2>4
  <2> QED
    BY <1>1, <1>7, <2>4, <2>5, SMT
<1>15. NoLeak
  <2> SUFFICES ASSUME NEW p \in Packet PROVE InList(p) \/ InRing(p)
    BY DEF NoLeak
  <2>1. PICK i \in 1..N : order[i] = p
    BY <1>4
  <2>2. CASE i <= RING_SIZE
    <3>1. i - 1 \in Slot /\ (i - 1) + 1 = i
      BY <1>1, <2>2, SMT DEF Slot
    <3> QED
      BY <1>6, <1>7, <2>1, <3>1 DEF InRing
  <2>3. CASE i > RING_SIZE
    <3>1. /\ i - RING_SIZE \in 1..Len(list["garbage_list"])
          /\ i - RING_SIZE \in 1..(N - RING_SIZE)
          /\ (i - RING_SIZE) + RING_SIZE = i
      BY <1>1, <1>8, <2>3, SMT
    <3>2. list["garbage_list"][i - RING_SIZE] = p
      BY <1>8, <2>1, <3>1
    <3> QED
      BY <3>1, <3>2 DEF InList, OnList, ListName
  <2> QED
    BY <1>1, <2>2, <2>3, SMT
<1> QED
  BY <1>10, <1>11, <1>12, <1>13, <1>14, <1>15 DEF Owned, ExclusiveOwner, InOnePlace

(* Every step keeps one owner for each packet. *)
LEMMA OwnedStep == TypeInv /\ Owned /\ [Next]_vars => Owned'
<1> SUFFICES ASSUME TypeInv, Owned, [Next]_vars PROVE Owned'
  OBVIOUS
<1> USE CoresAndSlots
<1>a. TypeOK /\ HandsOK
  BY DEF TypeInv
<1>b. {"garbage_list", "hashing_buffer_list", "check_packet_buffer_list"} \subseteq ListName
  BY DEF ListName
<1> USE DEF Goto, ringVars, dataVars, factVars
<1>1. ASSUME NEW f \in Frame, Receive(f) PROVE Owned'
  <2>1. ArmedSlots' = ArmedSlots
    BY <1>1 DEF Receive, ArmedSlots, TailSlot
  <2> QED
    BY <1>1, <2>1, SamePlaces DEF Receive
<1>2. CASE TakeFrame
  BY <1>2, TakeFrameOwned
<1>3. CASE EnqueueFrame
  <2>1. hand[Poller] # NoPacket
    BY <1>3, <1>a DEF EnqueueFrame, HandsOK
  <2>2. ArmedSlots' = ArmedSlots
    BY <1>3, <1>a DEF EnqueueFrame, ArmedSlots, TailSlot, TypeOK
  <2> QED
    BY <1>3, <1>a, <1>b, <2>1, <2>2, AppendListOwned DEF EnqueueFrame
<1>4. CASE Refill
  <2>1. hand[Poller] = NoPacket
    BY <1>4, <1>a DEF Refill, HandsOK
  <2>2. ArmedSlots' = ArmedSlots
    BY <1>4, <1>a DEF Refill, ArmedSlots, TailSlot, TypeOK
  <2> QED
    BY <1>4, <1>a, <1>b, <2>1, <2>2, PollOwned DEF Refill
<1>5. CASE Arm
  BY <1>5, ArmOwned
<1>6. CASE Advance
  <2>1. ArmedSlots = Slot /\ ArmedSlots' = Slot
    BY <1>6, <1>a DEF Advance, ArmedSlots, TypeOK
  <2> QED
    BY <1>6, <2>1, SamePlaces DEF Advance
<1>7. ASSUME NEW c \in Hasher, HasherStep(c) PROVE Owned'
  <2>1. pc'[Poller] = pc[Poller] /\ rx_tail' = rx_tail /\ dma_base' = dma_base
    BY <1>7, <1>a DEF HasherStep, PollHashing, Hash, EnqueueCheck, TypeOK
  <2>2. ArmedSlots' = ArmedSlots
    BY <2>1 DEF ArmedSlots, TailSlot
  <2>3. CASE PollHashing(c)
    <3>1. hand[c] = NoPacket
      BY <2>3, <1>a DEF PollHashing, HandsOK
    <3> QED
      BY <2>1, <2>2, <2>3, <3>1, <1>a, <1>b, PollOwned DEF PollHashing
  <2>4. CASE Hash(c)
    BY <2>1, <2>2, <2>4, SamePlaces DEF Hash
  <2>5. CASE EnqueueCheck(c)
    <3>1. hand[c] # NoPacket
      BY <2>5, <1>a DEF EnqueueCheck, HandsOK
    <3> QED
      BY <2>1, <2>2, <2>5, <3>1, <1>a, <1>b, AppendListOwned DEF EnqueueCheck
  <2> QED
    BY <1>7, <2>3, <2>4, <2>5 DEF HasherStep
<1>8. CASE CheckerStep
  <2>1. pc'[Poller] = pc[Poller] /\ rx_tail' = rx_tail /\ dma_base' = dma_base
    BY <1>8, <1>a DEF CheckerStep, PollCheck, CheckPacket, CountPacket, Recycle, TypeOK
  <2>2. ArmedSlots' = ArmedSlots
    BY <2>1 DEF ArmedSlots, TailSlot
  <2>3. CASE PollCheck
    <3>1. hand[Checker] = NoPacket
      BY <2>3, <1>a DEF PollCheck, HandsOK
    <3> QED
      BY <2>1, <2>2, <2>3, <3>1, <1>a, <1>b, PollOwned DEF PollCheck
  <2>4. CASE CheckPacket \/ CountPacket
    BY <2>1, <2>2, <2>4, SamePlaces DEF CheckPacket, CountPacket
  <2>5. CASE Recycle
    <3>1. hand[Checker] # NoPacket
      BY <2>5, <1>a DEF Recycle, HandsOK
    <3> QED
      BY <2>1, <2>2, <2>5, <3>1, <1>a, <1>b, AppendListOwned DEF Recycle
  <2> QED
    BY <1>8, <2>3, <2>4, <2>5 DEF CheckerStep
<1>9. CASE UNCHANGED vars
  <2>1. ArmedSlots' = ArmedSlots
    BY <1>9 DEF vars, ArmedSlots, TailSlot
  <2> QED
    BY <1>9, <2>1, SamePlaces DEF vars
<1> QED
  BY <1>1, <1>2, <1>3, <1>4, <1>5, <1>6, <1>7, <1>8, <1>9 DEF Next, PollerStep

(* Types, ring and owners together hold in every behaviour. *)
LEMMA Inductive == Spec => [](TypeInv /\ RingBounded /\ Owned)
<1>1. Init => TypeInv /\ RingBounded /\ Owned
  BY TypeInit, RingInit, OwnedInit
<1>2. TypeInv /\ RingBounded /\ Owned /\ [Next]_vars => (TypeInv /\ RingBounded /\ Owned)'
  BY TypeStep, RingStep, OwnedStep
<1> QED
  BY <1>1, <1>2, PTL DEF Spec

(* A packet page is never in two places, for any number of cores: what the *)
(* stages do without packet_info.lock is no data race.                     *)
THEOREM OwnershipCorrect == Spec => []ExclusiveOwner
<1>1. Owned => ExclusiveOwner
  BY DEF Owned
<1> QED
  BY <1>1, Inductive, PTL

(* No page drops out of circulation. *)
THEOREM NothingLost == Spec => []NoLeak
<1>1. Owned => NoLeak
  BY DEF Owned
<1> QED
  BY <1>1, Inductive, PTL

(* The device may write the buffer at rx_head whenever the ring is not     *)
(* full: it is the ring's own.                                             *)
LEMMA DmaFromOwned == TypeInv /\ RingBounded /\ Owned => DmaSafe
<1> SUFFICES ASSUME TypeInv, RingBounded, Owned, ~RingFull PROVE
      /\ HeadSlot \in ArmedSlots
      /\ ~InList(dma_base[HeadSlot])
      /\ ~InHand(dma_base[HeadSlot])
  BY DEF DmaSafe
<1>1. TypeOK /\ InOnePlace
  BY DEF TypeInv, Owned, ExclusiveOwner
<1>2. HeadSlot \in Slot /\ dma_base[HeadSlot] \in Packet
  <2>1. HeadSlot \in Slot
    BY <1>1, CoresAndSlots, SMT DEF TypeOK, HeadSlot
  <2> QED
    BY <1>1, <2>1 DEF TypeOK
<1>3. HeadSlot \in ArmedSlots
  <2>1. CASE pc[Poller] \in {"enqueue", "refill", "arm"}
    <3>1. Occupancy >= 1
      BY <2>1 DEF RingBounded
    <3>2. ~RingEmpty
      BY <1>1, <3>1, RingFacts, SMT
    <3> QED
      BY <1>2, <3>2 DEF RingEmpty, RingFull, ArmedSlots
  <2>2. CASE pc[Poller] \notin {"enqueue", "refill", "arm"}
    BY <1>2, <2>2 DEF ArmedSlots
  <2> QED
    BY <2>1, <2>2
<1>4. InRing(dma_base[HeadSlot])
  BY <1>3 DEF InRing
<1> QED
  BY <1>1, <1>2, <1>3, <1>4 DEF InOnePlace

(* The device never writes a buffer that a core may be reading. *)
THEOREM DmaCorrect == Spec => []DmaSafe
BY DmaFromOwned, Inductive, PTL

(* When all cores wait, they wait for the network. *)
LEMMA WaitsFromOwned == TypeInv /\ Owned => WaitsForNetwork
<1> SUFFICES ASSUME TypeInv, Owned, \A c \in Core : Waits(c)
             PROVE  /\ pc[Poller] = "poll_ring" /\ RingEmpty
                    /\ \A p \in Packet : InRing(p) \/ OnList("garbage_list", p)
  BY DEF WaitsForNetwork
<1>1. PICK h \in Hasher : TRUE
  BY CoreAssumption
<1>2. /\ \/ pc[Poller] = "poll_ring" /\ RingEmpty
         \/ pc[Poller] = "refill" /\ list["garbage_list"] = <<>>
      /\ pc[Checker] = "poll_check" /\ list["check_packet_buffer_list"] = <<>>
      /\ list["hashing_buffer_list"] = <<>>
      /\ \A c \in Hasher : pc[c] = "poll_hashing"
  <2>1. Waits(Poller) /\ Waits(Checker) /\ \A c \in Hasher : Waits(c)
    BY CoresAndSlots
  <2>2. Poller # Checker /\ Poller \notin Hasher /\ Checker \notin Hasher
    BY CoreAssumption
  <2> QED
    <3>1. \/ pc[Poller] = "poll_ring" /\ RingEmpty
          \/ pc[Poller] = "refill" /\ list["garbage_list"] = <<>>
      BY <2>1, <2>2, Zenon DEF Waits
    <3>2. pc[Checker] = "poll_check" /\ list["check_packet_buffer_list"] = <<>>
      BY <2>1, <2>2 DEF Waits
    <3>3. ASSUME NEW c \in Hasher
          PROVE  pc[c] = "poll_hashing" /\ list["hashing_buffer_list"] = <<>>
      BY <2>1, <2>2 DEF Waits
    <3> QED
      BY <1>1, <3>1, <3>2, <3>3
(* Nobody has a packet. *)
<1>3. \A p \in Packet : ~InHand(p)
  <2>1. hand[Poller] = NoPacket /\ hand[Checker] = NoPacket
        /\ \A c \in Hasher : hand[c] = NoPacket
    BY <1>2 DEF TypeInv, HandsOK
  <2> QED
    BY <2>1, PacketAssumption DEF InHand, Core
<1>4. \A p \in Packet : InRing(p) \/ OnList("garbage_list", p)
  BY <1>2, <1>3 DEF Owned, NoLeak, InList, OnList, ListName
(* The ring alone, with a slot unarmed, cannot hold them all. *)
<1>5. ASSUME pc[Poller] = "refill", list["garbage_list"] = <<>> PROVE FALSE
  <2>1. TailSlot \in Slot /\ dma_base \in [Slot -> Packet] /\ RING_SIZE \in Nat \ {0}
    <3>1. rx_tail \in Int
      BY SMT DEF TypeInv, TypeOK
    <3> QED
      BY <3>1, RingAssumption, CoresAndSlots DEF TypeInv, TypeOK, TailSlot
  <2>2. PICK A : A = Slot \ {TailSlot}
    OBVIOUS
  <2>3. IsFiniteSet(A) /\ Cardinality(A) = RING_SIZE - 1
    <3>1. IsFiniteSet(Slot) /\ Cardinality(Slot) = RING_SIZE
      BY <2>1, FS_Interval, SMT DEF Slot
    <3> QED
      BY <2>1, <2>2, <3>1, FS_RemoveElement
  <2>4. PICK f : f = [i \in A |-> dma_base[i]]
    OBVIOUS
  <2>5. f \in Surjection(A, Packet)
    <3>1. f \in [A -> Packet]
      BY <2>1, <2>2, <2>4
    <3>2. ASSUME NEW p \in Packet PROVE \E i \in A : f[i] = p
      <4>1. InRing(p)
        BY <1>4, <1>5 DEF OnList
      <4> QED
        BY <1>5, <2>2, <2>4, <4>1 DEF InRing, ArmedSlots
    <3> QED
      BY <3>1, <3>2, Zenon DEF Surjection
  <2>6. Cardinality(Packet) <= Cardinality(A)
    BY <2>3, <2>5, FS_Surjection
  <2> QED
    BY <2>1, <2>3, <2>6, FS_CardinalityType, PacketAssumption
<1> QED
  BY <1>2, <1>4, <1>5

(* For any numbers of pages, slots and hashing cores, as long as there are *)
(* as many pages as slots, all cores wait only for the network: core 1 has *)
(* one slot less to fill than there are pages when it needs a page, so one *)
(* of them is on its way back.                                             *)
THEOREM NobodyStarves == Spec => []WaitsForNetwork
BY WaitsFromOwned, Inductive, PTL

-----------------------------------------------------------------------------
(* The sequence s holds p; it holds nothing twice; it has q before p. *)
Has(s, p) == \E i \in 1..Len(s) : s[i] = p

NoneTwice(s) == \A i, j \in 1..Len(s) : s[i] = s[j] => i = j

Before(s, q, p) == \E i, j \in 1..Len(s) : i < j /\ s[i] = q /\ s[j] = p

(* What a sequence with one more element holds. *)
LEMMA WithLast ==
  ASSUME NEW s \in Seq(Packet), NEW x \in Packet
  PROVE  /\ Append(s, x) \in Seq(Packet)
         /\ \A p : Has(Append(s, x), p) <=> Has(s, p) \/ p = x
         /\ \A p, q : Before(Append(s, x), q, p) <=> Before(s, q, p) \/ (p = x /\ Has(s, q))
         /\ NoneTwice(s) /\ ~Has(s, x) => NoneTwice(Append(s, x))
<1>1. PICK t : t = Append(s, x)
  OBVIOUS
<1>2. PICK n : n = Len(s)
  OBVIOUS
<1>3. /\ t \in Seq(Packet) /\ n \in Nat /\ Len(t) = n + 1 /\ t[n + 1] = x
      /\ \A i \in 1..n : t[i] = s[i]
  BY <1>1, <1>2
<1>4. \A i \in 1..(n + 1) : i \in 1..n \/ i = n + 1
  BY <1>3
<1>5. \A i \in 1..n : i \in 1..(n + 1) /\ i < n + 1
  BY <1>3
<1>6. n + 1 \in 1..(n + 1) /\ ~(n + 1 < n + 1) /\ \A i \in 1..n : ~(n + 1 < i)
  BY <1>3
<1>7. \A p : Has(t, p) <=> Has(s, p) \/ p = x
  BY <1>2, <1>3, <1>4, <1>5, <1>6 DEF Has
<1>8. \A p, q : Before(t, q, p) <=> Before(s, q, p) \/ (p = x /\ Has(s, q))
  BY <1>2, <1>3, <1>4, <1>5, <1>6 DEF Has, Before
<1>9. NoneTwice(s) /\ ~Has(s, x) => NoneTwice(t)
  BY <1>2, <1>3, <1>4 DEF Has, NoneTwice
<1> QED BY <1>1, <1>3, <1>7, <1>8, <1>9

(* What a sequence without its first element holds. *)
LEMMA WithoutFirst ==
  ASSUME NEW s \in Seq(Packet), s # <<>>, NoneTwice(s)
  PROVE  /\ Head(s) \in Packet /\ Tail(s) \in Seq(Packet) /\ NoneTwice(Tail(s))
         /\ \A p : Has(s, p) <=> Has(Tail(s), p) \/ p = Head(s)
         /\ ~Has(Tail(s), Head(s))
         /\ \A p, q : Before(Tail(s), q, p) <=> Before(s, q, p) /\ q # Head(s)
         /\ \A q : ~Before(s, q, Head(s))
<1>1. PICK t : t = Tail(s)
  OBVIOUS
<1>2. PICK n : n = Len(t)
  OBVIOUS
<1>3. PICK x : x = Head(s)
  OBVIOUS
<1>4. /\ t \in Seq(Packet) /\ n \in Nat /\ Len(s) = n + 1 /\ s[1] = x /\ x \in Packet
      /\ \A i \in 1..n : t[i] = s[i + 1]
  BY <1>1, <1>2, <1>3
<1>5. \A i \in 1..n : i + 1 \in 1..(n + 1) /\ i + 1 # 1 /\ 1 \in 1..(n + 1)
  BY <1>4
<1>6. \A i \in 1..(n + 1) : i = 1 \/ \E j \in 1..n : i = j + 1
  <2> SUFFICES ASSUME NEW i \in 1..(n + 1), i # 1 PROVE \E j \in 1..n : i = j + 1
    OBVIOUS
  <2>1. i - 1 \in 1..n /\ i = (i - 1) + 1
    BY <1>4
  <2> QED BY <2>1
<1>7. \A i, j \in 1..n : (i < j <=> i + 1 < j + 1) /\ (i + 1 = j + 1 => i = j) /\ 1 < j + 1
  BY <1>4
<1>8. \A i \in 1..(n + 1) : ~(i < 1)
  BY <1>4
<1>9. NoneTwice(t)
  BY <1>2, <1>4, <1>5, <1>7 DEF NoneTwice
<1>10. 1 \in 1..(n + 1)
  BY <1>4
<1>11. \A p : Has(s, p) <=> Has(t, p) \/ p = x
  BY <1>2, <1>4, <1>5, <1>6, <1>10 DEF Has
<1>12. ~Has(t, x)
  BY <1>2, <1>4, <1>5, <1>10 DEF Has, NoneTwice
<1>13. \A q : ~Before(s, q, x)
  BY <1>4, <1>8, <1>10 DEF Before, NoneTwice
<1>14. ASSUME NEW p, NEW q PROVE Before(t, q, p) <=> Before(s, q, p) /\ q # x
  <2>1. ASSUME Before(t, q, p) PROVE Before(s, q, p) /\ q # x
    <3>1. PICK i \in 1..n, j \in 1..n : i < j /\ t[i] = q /\ t[j] = p
      BY <1>2, <2>1 DEF Before
    <3>2. i + 1 < j + 1 /\ s[i + 1] = q /\ s[j + 1] = p
          /\ i + 1 \in 1..(n + 1) /\ j + 1 \in 1..(n + 1)
      BY <1>4, <1>5, <1>7, <3>1
    <3>3. q # x
      BY <1>2, <1>12, <3>1 DEF Has
    <3> QED BY <1>4, <3>2, <3>3 DEF Before
  <2>2. ASSUME Before(s, q, p), q # x PROVE Before(t, q, p)
    <3>1. PICK i \in 1..(n + 1), j \in 1..(n + 1) : i < j /\ s[i] = q /\ s[j] = p
      BY <1>4, <2>2 DEF Before
    <3>2. PICK k \in 1..n : i = k + 1
      BY <1>4, <1>6, <2>2, <3>1
    <3>3. PICK m \in 1..n : j = m + 1
      BY <1>6, <1>8, <3>1
    <3>4. k < m /\ t[k] = q /\ t[m] = p
      BY <1>4, <1>7, <3>1, <3>2, <3>3
    <3> QED BY <1>2, <3>4 DEF Before
  <2> QED BY <2>1, <2>2
<1> QED BY <1>1, <1>3, <1>4, <1>9, <1>11, <1>12, <1>13, <1>14

(* What removing the i-th element leaves. *)
LEMMA RemoveAtProperties ==
  ASSUME NEW T, NEW s \in Seq(T), NEW i \in 1..Len(s)
  PROVE  /\ RemoveAt(s, i) \in Seq(T) /\ Len(RemoveAt(s, i)) = Len(s) - 1
         /\ \A k \in 1..(Len(s) - 1) : RemoveAt(s, i)[k] = IF k < i THEN s[k] ELSE s[k + 1]
<1>1. PICK n : n = Len(s)
  OBVIOUS
<1>2. n \in Nat /\ i \in 1..n /\ n >= 1
  BY <1>1
<1>3. PICK a : a = SubSeq(s, 1, i - 1)
  OBVIOUS
<1>4. PICK b : b = SubSeq(s, i + 1, n)
  OBVIOUS
<1>5. /\ a \in Seq(T) /\ Len(a) = i - 1 /\ \A k \in 1..(i - 1) : a[k] = s[k]
  BY <1>1, <1>2, <1>3
<1>6. /\ b \in Seq(T) /\ Len(b) = n - i /\ \A k \in 1..(n - i) : b[k] = s[i + k]
  BY <1>1, <1>2, <1>4
<1>7. PICK t : t = RemoveAt(s, i)
  OBVIOUS
<1>8. t = a \o b
  BY <1>1, <1>3, <1>4, <1>7 DEF RemoveAt
<1>9. t \in Seq(T) /\ Len(t) = n - 1
  <2>1. t \in Seq(T) /\ Len(t) = Len(a) + Len(b)
    BY <1>5, <1>6, <1>8, ConcatProperties
  <2> QED BY <1>2, <1>5, <1>6, <2>1
<1>10. ASSUME NEW k \in 1..(n - 1) PROVE t[k] = IF k < i THEN s[k] ELSE s[k + 1]
  <2>1. CASE k < i
    <3>1. k \in 1..(i - 1)
      BY <1>2, <2>1
    <3> QED BY <1>5, <1>6, <1>8, <2>1, <3>1
  <2>2. CASE ~(k < i)
    <3>1. k - (i - 1) \in 1..(n - i) /\ i + (k - (i - 1)) = k + 1 /\ k \in 1..Len(t)
          /\ k > Len(a) /\ k - Len(a) = k - (i - 1)
      BY <1>2, <1>5, <1>9, <2>2
    <3>2. t[k] = b[k - (i - 1)]
      BY <1>5, <1>6, <1>8, <1>9, <3>1
    <3> QED BY <1>6, <2>2, <3>1, <3>2
  <2> QED BY <2>1, <2>2
<1> QED BY <1>1, <1>7, <1>9, <1>10

(* What a sequence without its i-th element holds. *)
LEMMA WithoutOne ==
  ASSUME NEW s \in Seq(Packet), NEW i \in 1..Len(s), NoneTwice(s)
  PROVE  /\ RemoveAt(s, i) \in Seq(Packet) /\ NoneTwice(RemoveAt(s, i))
         /\ \A p : Has(RemoveAt(s, i), p) <=> Has(s, p) /\ p # s[i]
         /\ \A p, q : Before(RemoveAt(s, i), q, p) => Before(s, q, p) /\ q # s[i]
<1>1. PICK n : n = Len(s)
  OBVIOUS
<1>2. n \in Nat /\ i \in 1..n /\ n >= 1
  BY <1>1
<1>3. PICK t : t = RemoveAt(s, i)
  OBVIOUS
<1>4. /\ t \in Seq(Packet) /\ Len(t) = n - 1
      /\ \A k \in 1..(n - 1) : t[k] = IF k < i THEN s[k] ELSE s[k + 1]
  BY <1>1, <1>3, RemoveAtProperties
<1>5. \A k \in 1..(n - 1) : t[k] = IF k < i THEN s[k] ELSE s[k + 1]
  BY <1>4
(* The place in s of the k-th element of t. *)
<1> DEFINE at(k) == IF k < i THEN k ELSE k + 1
<1>6. \A k \in 1..(n - 1) : at(k) \in 1..n /\ at(k) # i /\ t[k] = s[at(k)]
  BY <1>2, <1>5
<1>7. \A k, m \in 1..(n - 1) : (at(k) = at(m) => k = m) /\ (k < m => at(k) < at(m))
  BY <1>2
<1>8. \A k \in 1..n : k # i => \E m \in 1..(n - 1) : k = at(m)
  <2> SUFFICES ASSUME NEW k \in 1..n, k # i PROVE \E m \in 1..(n - 1) : k = at(m)
    OBVIOUS
  <2>1. CASE k < i
    <3>1. k \in 1..(n - 1) /\ k = at(k)
      BY <1>2, <2>1
    <3> QED BY <3>1
  <2>2. CASE ~(k < i)
    <3>1. k - 1 \in 1..(n - 1) /\ k = at(k - 1)
      BY <1>2, <2>2
    <3> QED BY <3>1
  <2> QED BY <2>1, <2>2
<1> HIDE DEF at
<1>9. NoneTwice(t)
  BY <1>1, <1>4, <1>6, <1>7 DEF NoneTwice
<1>10. \A p : Has(t, p) <=> Has(s, p) /\ p # s[i]
  <2>1. ASSUME NEW k \in 1..n, k # i PROVE s[k] # s[i]
    BY <1>1, <1>2, <2>1 DEF NoneTwice
  <2>2. ASSUME NEW p, Has(t, p) PROVE Has(s, p) /\ p # s[i]
    <3>1. PICK k \in 1..(n - 1) : t[k] = p
      BY <1>4, <2>2 DEF Has
    <3>2. at(k) \in 1..n /\ at(k) # i /\ p = s[at(k)]
      BY <1>6, <3>1
    <3> QED BY <1>1, <2>1, <3>2 DEF Has
  <2>3. ASSUME NEW p, Has(s, p), p # s[i] PROVE Has(t, p)
    <3>1. PICK k \in 1..n : s[k] = p
      BY <1>1, <2>3 DEF Has
    <3>2. PICK m \in 1..(n - 1) : k = at(m)
      BY <1>8, <2>3, <3>1
    <3>3. t[m] = p
      BY <1>6, <3>1, <3>2
    <3> QED BY <1>4, <3>3 DEF Has
  <2> QED BY <2>2, <2>3
<1>11. \A p, q : Before(t, q, p) => Before(s, q, p) /\ q # s[i]
  BY <1>1, <1>2, <1>4, <1>6, <1>7 DEF Before, NoneTwice
<1> QED BY <1>1, <1>3, <1>4, <1>9, <1>10, <1>11

(* What two sequences together hold. *)
LEMMA Together ==
  ASSUME NEW s \in Seq(Packet), NEW t \in Seq(Packet)
  PROVE  /\ s \o t \in Seq(Packet)
         /\ \A p : Has(s \o t, p) <=> Has(s, p) \/ Has(t, p)
         /\ NoneTwice(s \o t) => NoneTwice(s) /\ NoneTwice(t) /\ \A p : ~(Has(s, p) /\ Has(t, p))
<1>1. PICK u : u = s \o t
  OBVIOUS
<1>2. PICK m : m = Len(s)
  OBVIOUS
<1>3. PICK n : n = Len(t)
  OBVIOUS
<1>4. /\ u \in Seq(Packet) /\ m \in Nat /\ n \in Nat /\ Len(u) = m + n
      /\ \A i \in 1..m : u[i] = s[i]
  BY <1>1, <1>2, <1>3
<1>5. \A i \in 1..n : u[m + i] = t[i]
  <2> SUFFICES ASSUME NEW i \in 1..n PROVE u[m + i] = t[i]
    OBVIOUS
  <2>1. m + i \in 1..(m + n) /\ m + i > m /\ (m + i) - m = i
    BY <1>4
  <2> QED BY <1>1, <1>2, <1>3, <1>4, <2>1
<1>6. \A i \in 1..m : i \in 1..(m + n)
  BY <1>4
<1>7. \A i \in 1..n : m + i \in 1..(m + n) /\ \A j \in 1..m : m + i # j
  BY <1>4
<1>8. \A i \in 1..(m + n) : i \in 1..m \/ \E j \in 1..n : i = m + j
  <2> SUFFICES ASSUME NEW i \in 1..(m + n), i \notin 1..m PROVE \E j \in 1..n : i = m + j
    OBVIOUS
  <2>1. i - m \in 1..n /\ i = m + (i - m)
    BY <1>4
  <2> QED BY <2>1
<1>9. \A i, j \in 1..n : m + i = m + j => i = j
  BY <1>4
<1>10. \A p : Has(u, p) <=> Has(s, p) \/ Has(t, p)
  <2>1. ASSUME NEW p, Has(u, p) PROVE Has(s, p) \/ Has(t, p)
    <3>1. PICK i \in 1..(m + n) : u[i] = p
      BY <1>4, <2>1 DEF Has
    <3>2. CASE i \in 1..m
      BY <1>2, <1>4, <3>1, <3>2 DEF Has
    <3>3. CASE i \notin 1..m
      <4>1. PICK j \in 1..n : i = m + j
        BY <1>8, <3>3
      <4>2. t[j] = p
        BY <1>5, <3>1, <4>1
      <4> QED BY <1>3, <4>2 DEF Has
    <3> QED BY <3>2, <3>3
  <2>2. ASSUME NEW p, Has(s, p) PROVE Has(u, p)
    BY <1>2, <1>4, <1>6, <2>2 DEF Has
  <2>3. ASSUME NEW p, Has(t, p) PROVE Has(u, p)
    <3>1. PICK j \in 1..n : t[j] = p
      BY <1>3, <2>3 DEF Has
    <3>2. u[m + j] = p /\ m + j \in 1..(m + n)
      BY <1>5, <1>7, <3>1
    <3> QED BY <1>4, <3>2 DEF Has
  <2> QED BY <2>1, <2>2, <2>3
<1>11. NoneTwice(u) => NoneTwice(s) /\ NoneTwice(t) /\ \A p : ~(Has(s, p) /\ Has(t, p))
  <2> SUFFICES ASSUME NoneTwice(u)
               PROVE  NoneTwice(s) /\ NoneTwice(t) /\ \A p : ~(Has(s, p) /\ Has(t, p))
    OBVIOUS
  <2>1. \A i, j \in 1..(m + n) : u[i] = u[j] => i = j
    BY <1>4 DEF NoneTwice
  <2>2. NoneTwice(s)
    BY <1>2, <1>4, <1>6, <2>1 DEF NoneTwice
  <2>3. NoneTwice(t)
    <3>1. \A i, j \in 1..n : t[i] = t[j] => m + i = m + j
      BY <1>5, <1>7, <2>1
    <3> QED BY <1>3, <1>9, <3>1 DEF NoneTwice
  <2>4. ASSUME NEW p, Has(s, p), Has(t, p) PROVE FALSE
    <3>1. PICK i \in 1..m : s[i] = p
      BY <1>2, <2>4 DEF Has
    <3>2. PICK j \in 1..n : t[j] = p
      BY <1>3, <2>4 DEF Has
    <3>3. u[i] = u[m + j]
      BY <1>4, <1>5, <3>1, <3>2
    <3> QED BY <1>6, <1>7, <2>1, <3>3
  <2> QED BY <2>2, <2>3, <2>4
<1> QED BY <1>1, <1>4, <1>10, <1>11

-----------------------------------------------------------------------------
(* The pages that arrived before p and will not be checked before it. *)
Overtaken(a, s, p) == {q \in Packet : Before(a, q, p) /\ ~Before(s, q, p)}

(* The pages in the order of their arrival: first those that are being     *)
(* hashed (H) or were (s), in any order; then those that wait for a core   *)
(* (h) and those in the ring (r), in their order there.                    *)
Line(f, a, s, H, h, r) ==
  f \in Seq(Packet) /\ a = f \o (h \o r) /\ \A p : Has(f, p) <=> Has(s, p) \/ p \in H

NotLate(a, s) ==
  \A p : Has(s, p) => Cardinality(Overtaken(a, s, p)) < Cardinality(Hasher)

InOrder(a, s, H, h, r) ==
  /\ a \in Seq(Packet) /\ s \in Seq(Packet) /\ h \in Seq(Packet) /\ r \in Seq(Packet)
  /\ H \in SUBSET Packet
  /\ NoneTwice(a) /\ NoneTwice(s) /\ \A p \in H : ~Has(s, p)
  /\ \E f : Line(f, a, s, H, h, r)
  /\ NotLate(a, s)

(* Whatever came before an element of the first part is in the first part. *)
LEMMA InFront ==
  ASSUME NEW f \in Seq(Packet), NEW g \in Seq(Packet), NoneTwice(f \o g),
         NEW p, NEW q, Has(f, p), Before(f \o g, q, p)
  PROVE  Has(f, q)
<1>1. PICK u : u = f \o g
  OBVIOUS
<1>2. PICK m : m = Len(f)
  OBVIOUS
<1>3. PICK n : n = Len(u)
  OBVIOUS
<1>4. m \in Nat /\ n \in Nat /\ m <= n /\ \A i \in 1..m : u[i] = f[i]
  BY <1>1, <1>2, <1>3
<1>5. PICK i \in 1..n, j \in 1..n : i < j /\ u[i] = q /\ u[j] = p
  BY <1>1, <1>3 DEF Before
<1>6. PICK k \in 1..m : f[k] = p
  BY <1>2 DEF Has
<1>7. k \in 1..n /\ u[k] = p
  BY <1>4, <1>6
<1>8. k = j
  BY <1>1, <1>3, <1>5, <1>7 DEF NoneTwice
<1>9. i \in 1..m
  BY <1>4, <1>5, <1>8
<1> QED BY <1>2, <1>4, <1>5, <1>9 DEF Has

(* A page that nobody else overtakes is as little late as before. *)
LEMMA NoLater ==
  ASSUME NEW a, NEW s, NEW b, NEW t, NotLate(a, s),
         \A p : Has(t, p) => Has(s, p) /\ Overtaken(b, t, p) \subseteq Overtaken(a, s, p)
  PROVE  NotLate(b, t)
<1> SUFFICES ASSUME NEW p, Has(t, p)
             PROVE  Cardinality(Overtaken(b, t, p)) < Cardinality(Hasher)
  BY DEF NotLate
<1>1. PICK m : m = Cardinality(Hasher)
  OBVIOUS
<1>2. PICK S : S = Overtaken(a, s, p)
  OBVIOUS
<1>3. PICK T : T = Overtaken(b, t, p)
  OBVIOUS
<1>4. T \in SUBSET S
  BY <1>2, <1>3
<1>5. IsFiniteSet(S)
  BY <1>2, PacketAssumption, FS_Subset DEF Overtaken
<1>6. IsFiniteSet(T) /\ Cardinality(T) <= Cardinality(S)
  BY <1>4, <1>5, FS_Subset
<1>7. Cardinality(S) \in Nat /\ Cardinality(T) \in Nat /\ m \in Nat
  BY <1>1, <1>5, <1>6, FS_CardinalityType, CoreAssumption
<1>8. Cardinality(S) < m
  BY <1>1, <1>2 DEF NotLate
<1> QED BY <1>1, <1>3, <1>6, <1>7, <1>8

(* A frame arrives. *)
LEMMA OrderReceive ==
  ASSUME NEW a, NEW s, NEW H, NEW h, NEW r, InOrder(a, s, H, h, r),
         NEW x \in Packet, ~Has(a, x)
  PROVE  InOrder(Append(a, x), s, H, h, Append(r, x))
<1>1. /\ a \in Seq(Packet) /\ s \in Seq(Packet) /\ h \in Seq(Packet) /\ r \in Seq(Packet)
      /\ H \in SUBSET Packet /\ NoneTwice(a) /\ NoneTwice(s) /\ \A p \in H : ~Has(s, p)
      /\ NotLate(a, s)
  BY DEF InOrder
<1>2. PICK f : Line(f, a, s, H, h, r)
  BY DEF InOrder
<1>3. f \in Seq(Packet) /\ a = f \o (h \o r) /\ \A p : Has(f, p) <=> Has(s, p) \/ p \in H
  BY <1>2 DEF Line
<1>4. PICK b : b = Append(a, x)
  OBVIOUS
<1>5. PICK y : y = Append(r, x)
  OBVIOUS
<1>6. /\ b \in Seq(Packet) /\ NoneTwice(b)
      /\ \A p, q : Before(b, q, p) <=> Before(a, q, p) \/ (p = x /\ Has(a, q))
  BY <1>1, <1>4, WithLast
<1>7. y \in Seq(Packet)
  BY <1>1, <1>5
<1>8. b = f \o (h \o y)
  <2>1. h \o r \in Seq(Packet) /\ <<x>> \in Seq(Packet)
    BY <1>1
  <2>2. b = a \o <<x>> /\ y = r \o <<x>>
    BY <1>1, <1>4, <1>5, AppendIsConcat
  <2>3. h \o y = (h \o r) \o <<x>>
    BY <1>1, <2>1, <2>2, ConcatAssociative
  <2>4. (f \o (h \o r)) \o <<x>> = f \o ((h \o r) \o <<x>>)
    <3>1. f \in Seq(Packet) /\ h \o r \in Seq(Packet) /\ <<x>> \in Seq(Packet)
      BY <1>3, <2>1
    <3> QED BY <3>1, ConcatAssociative
  <2>5. b = f \o ((h \o r) \o <<x>>)
    BY <1>3, <2>2, <2>4, Zenon
  <2> QED BY <2>3, <2>5
<1>9. \A p : Has(s, p) => Has(a, p)
  <2>1. h \o r \in Seq(Packet)
    BY <1>1
  <2>2. \A p : Has(f, p) => Has(a, p)
    BY <1>3, <2>1, Together
  <2> QED BY <1>3, <2>2
<1>10. NotLate(b, s)
  <2>1. \A p : Has(s, p) => Overtaken(b, s, p) \subseteq Overtaken(a, s, p)
    BY <1>6, <1>9 DEF Overtaken
  <2> QED BY <1>1, <2>1, NoLater
<1>11. Line(f, b, s, H, h, y)
  BY <1>3, <1>8 DEF Line
<1> QED BY <1>1, <1>4, <1>5, <1>6, <1>7, <1>10, <1>11 DEF InOrder

(* Core 1 hands a frame to the hashing list. *)
LEMMA OrderEnqueueFrame ==
  ASSUME NEW a, NEW s, NEW H, NEW h, NEW r, InOrder(a, s, H, h, r), r # <<>>
  PROVE  InOrder(a, s, H, Append(h, Head(r)), Tail(r))
<1>1. /\ a \in Seq(Packet) /\ s \in Seq(Packet) /\ h \in Seq(Packet) /\ r \in Seq(Packet)
      /\ H \in SUBSET Packet /\ NoneTwice(a) /\ NoneTwice(s) /\ \A p \in H : ~Has(s, p)
      /\ NotLate(a, s)
  BY DEF InOrder
<1>2. PICK f : Line(f, a, s, H, h, r)
  BY DEF InOrder
<1>3. f \in Seq(Packet) /\ a = f \o (h \o r) /\ \A p : Has(f, p) <=> Has(s, p) \/ p \in H
  BY <1>2 DEF Line
<1>4. PICK x : x = Head(r)
  OBVIOUS
<1>5. PICK t : t = Tail(r)
  OBVIOUS
<1>6. x \in Packet /\ t \in Seq(Packet) /\ <<x>> \in Seq(Packet) /\ r = <<x>> \o t
  BY <1>1, <1>4, <1>5
<1>7. PICK g : g = Append(h, x)
  OBVIOUS
<1>8. g \in Seq(Packet) /\ g = h \o <<x>>
  BY <1>1, <1>6, <1>7, AppendIsConcat
<1>9. g \o t = h \o r
  BY <1>1, <1>6, <1>8, ConcatAssociative
<1>10. Line(f, a, s, H, g, t)
  BY <1>3, <1>9 DEF Line
<1> QED BY <1>1, <1>4, <1>5, <1>6, <1>7, <1>8, <1>10 DEF InOrder

(* A core takes a packet to hash it. *)
LEMMA OrderPollHashing ==
  ASSUME NEW a, NEW s, NEW H, NEW h, NEW r, InOrder(a, s, H, h, r), h # <<>>
  PROVE  InOrder(a, s, H \cup {Head(h)}, Tail(h), r)
<1>1. /\ a \in Seq(Packet) /\ s \in Seq(Packet) /\ h \in Seq(Packet) /\ r \in Seq(Packet)
      /\ H \in SUBSET Packet /\ NoneTwice(a) /\ NoneTwice(s) /\ \A p \in H : ~Has(s, p)
      /\ NotLate(a, s)
  BY DEF InOrder
<1>2. PICK f : Line(f, a, s, H, h, r)
  BY DEF InOrder
<1>3. f \in Seq(Packet) /\ a = f \o (h \o r) /\ \A p : Has(f, p) <=> Has(s, p) \/ p \in H
  BY <1>2 DEF Line
<1>4. PICK x : x = Head(h)
  OBVIOUS
<1>5. PICK t : t = Tail(h)
  OBVIOUS
<1>6. x \in Packet /\ t \in Seq(Packet) /\ <<x>> \in Seq(Packet) /\ h = <<x>> \o t
  BY <1>1, <1>4, <1>5
<1>7. PICK g : g = Append(f, x)
  OBVIOUS
<1>8. g \in Seq(Packet) /\ g = f \o <<x>>
  BY <1>3, <1>6, <1>7, AppendIsConcat
<1>9. t \o r \in Seq(Packet) /\ h \o r \in Seq(Packet)
  BY <1>1, <1>6
<1>10. h \o r = <<x>> \o (t \o r)
  BY <1>1, <1>6, ConcatAssociative
<1>11. a = g \o (t \o r)
  <2>1. PICK u : u = t \o r
    OBVIOUS
  <2>2. PICK e : e = <<x>>
    OBVIOUS
  <2>3. u \in Seq(Packet) /\ e \in Seq(Packet)
    BY <1>6, <1>9, <2>1, <2>2
  <2>4. (f \o e) \o u = f \o (e \o u)
    BY <1>3, <2>3, ConcatAssociative
  <2> QED BY <1>3, <1>8, <1>10, <2>1, <2>2, <2>4
<1>12. \A p : Has(g, p) <=> Has(f, p) \/ p = x
  BY <1>3, <1>6, <1>7, WithLast
<1>13. ~Has(s, x)
  <2>1. Has(h, x)
    <3>1. 1 \in 1..Len(h) /\ h[1] = x
      BY <1>1, <1>4
    <3> QED BY <3>1 DEF Has
  <2>2. Has(h \o r, x)
    BY <1>1, <2>1, Together
  <2>3. ~Has(f, x)
    BY <1>1, <1>3, <1>9, <2>2, Together
  <2> QED BY <1>3, <2>3
<1>14. Line(g, a, s, H \cup {x}, t, r)
  BY <1>3, <1>8, <1>11, <1>12 DEF Line
<1>15. H \cup {x} \in SUBSET Packet /\ \A p \in H \cup {x} : ~Has(s, p)
  BY <1>1, <1>6, <1>13
<1> QED BY <1>1, <1>4, <1>5, <1>6, <1>14, <1>15 DEF InOrder

(* A core has hashed a packet and hands it to the checking list. *)
LEMMA OrderEnqueueCheck ==
  ASSUME NEW a, NEW s, NEW H, NEW h, NEW r, InOrder(a, s, H, h, r),
         NEW x \in H, Cardinality(H) <= Cardinality(Hasher)
  PROVE  InOrder(a, Append(s, x), H \ {x}, h, r)
<1>1. /\ a \in Seq(Packet) /\ s \in Seq(Packet) /\ h \in Seq(Packet) /\ r \in Seq(Packet)
      /\ H \in SUBSET Packet /\ NoneTwice(a) /\ NoneTwice(s) /\ \A p \in H : ~Has(s, p)
      /\ NotLate(a, s)
  BY DEF InOrder
<1>2. PICK f : Line(f, a, s, H, h, r)
  BY DEF InOrder
<1>3. f \in Seq(Packet) /\ a = f \o (h \o r) /\ \A p : Has(f, p) <=> Has(s, p) \/ p \in H
  BY <1>2 DEF Line
<1>4. x \in Packet /\ ~Has(s, x)
  BY <1>1
<1>5. PICK t : t = Append(s, x)
  OBVIOUS
<1>6. /\ t \in Seq(Packet) /\ NoneTwice(t)
      /\ \A p : Has(t, p) <=> Has(s, p) \/ p = x
      /\ \A p, q : Before(t, q, p) <=> Before(s, q, p) \/ (p = x /\ Has(s, q))
  BY <1>1, <1>4, <1>5, WithLast
<1>7. PICK G : G = H \ {x}
  OBVIOUS
<1>8. G \in SUBSET Packet /\ \A p \in G : ~Has(t, p)
  BY <1>1, <1>6, <1>7
<1>9. Line(f, a, t, G, h, r)
  BY <1>3, <1>6, <1>7 DEF Line
<1>10. Cardinality(Overtaken(a, t, x)) < Cardinality(Hasher)
  <2>1. PICK S : S = Overtaken(a, t, x)
    OBVIOUS
  <2>2. PICK m : m = Cardinality(Hasher)
    OBVIOUS
  <2>3. h \o r \in Seq(Packet)
    BY <1>1
  <2>4. Has(f, x)
    BY <1>3
  <2>5. \A q : Before(a, q, x) => Has(f, q)
    BY <1>1, <1>3, <2>3, <2>4, InFront
  <2>6. ~Before(a, x, x)
    <3> SUFFICES ASSUME Before(a, x, x) PROVE FALSE
      OBVIOUS
    <3>1. PICK i \in 1..Len(a), j \in 1..Len(a) : i < j /\ a[i] = x /\ a[j] = x
      BY DEF Before
    <3>2. i = j
      BY <1>1, <3>1 DEF NoneTwice
    <3> QED BY <3>1, <3>2
  <2>7. \A q \in S : q \in G
    BY <1>3, <1>6, <1>7, <2>1, <2>5, <2>6 DEF Overtaken
  <2>8. S \in SUBSET G
    BY <2>7
  <2>9. IsFiniteSet(H)
    BY <1>1, PacketAssumption, FS_Subset
  <2>10. IsFiniteSet(G) /\ Cardinality(G) = Cardinality(H) - 1
    BY <1>7, <2>9, FS_RemoveElement
  <2>11. IsFiniteSet(S) /\ Cardinality(S) <= Cardinality(G)
    BY <2>8, <2>10, FS_Subset
  <2>12. Cardinality(S) \in Nat /\ Cardinality(G) \in Nat /\ Cardinality(H) \in Nat /\ m \in Nat
    BY <2>2, <2>9, <2>10, <2>11, FS_CardinalityType, CoreAssumption
  <2>13. Cardinality(H) <= m
    BY <2>2
  <2>14. Cardinality(S) < m
    BY <2>10, <2>11, <2>12, <2>13
  <2> QED BY <2>1, <2>2, <2>14
<1>11. NotLate(a, t)
  <2> SUFFICES ASSUME NEW p, Has(t, p)
               PROVE  Cardinality(Overtaken(a, t, p)) < Cardinality(Hasher)
    BY DEF NotLate
  <2>1. CASE p = x
    BY <1>10, <2>1
  <2>2. CASE p # x
    <3>1. Has(s, p)
      BY <1>6, <2>2
    <3>2. Overtaken(a, t, p) = Overtaken(a, s, p)
      BY <1>6, <2>2 DEF Overtaken
    <3> QED BY <1>1, <3>1, <3>2 DEF NotLate
  <2> QED BY <2>1, <2>2
<1> QED BY <1>1, <1>5, <1>6, <1>7, <1>8, <1>9, <1>11 DEF InOrder

(* The head of the checking list is one of the oldest. *)
LEMMA NotTooLate ==
  ASSUME NEW a \in Seq(Packet), NEW s \in Seq(Packet), NoneTwice(a), NoneTwice(s),
         NotLate(a, s), s # <<>>, NEW i \in 1..Len(a), a[i] = Head(s)
  PROVE  i <= Cardinality(Hasher)
<1>1. PICK x : x = Head(s)
  OBVIOUS
<1>2. PICK m : m = Cardinality(Hasher)
  OBVIOUS
<1>3. PICK S : S = Overtaken(a, s, x)
  OBVIOUS
<1>4. Has(s, x) /\ \A q : ~Before(s, q, x)
  BY <1>1, WithoutFirst
<1>5. i \in Nat \ {0} /\ \A k \in 1..(i - 1) : k \in 1..Len(a) /\ k < i /\ a[k] \in Packet
  OBVIOUS
<1>6. \A k \in 1..(i - 1) : a[k] \in S
  BY <1>1, <1>3, <1>4, <1>5 DEF Before, Overtaken
<1>7. PICK g : g = [k \in 1..(i - 1) |-> a[k]]
  OBVIOUS
<1>8. g \in [1..(i - 1) -> S] /\ \A k, l \in 1..(i - 1) : g[k] = g[l] => k = l
  BY <1>5, <1>6, <1>7 DEF NoneTwice
<1>9. g \in Injection(1..(i - 1), S)
  BY <1>8 DEF Injection, IsInjective
<1>10. IsFiniteSet(S)
  BY <1>3, PacketAssumption, FS_Subset DEF Overtaken
<1>11. PICK T : T = 1..(i - 1)
  OBVIOUS
<1>12. IsFiniteSet(T) /\ Cardinality(T) <= Cardinality(S)
  BY <1>9, <1>10, <1>11, FS_Injection
<1>13. Cardinality(T) = i - 1
  <2>1. i - 1 \in Int /\ 1 \in Int
    BY <1>5
  <2>2. Cardinality(T) = IF 1 > i - 1 THEN 0 ELSE i - 1 - 1 + 1
    BY <1>11, <2>1, FS_Interval
  <2> QED BY <1>5, <2>2
<1>14. Cardinality(S) \in Nat /\ m \in Nat
  BY <1>2, <1>10, FS_CardinalityType, CoreAssumption
<1>15. Cardinality(S) < m
  BY <1>2, <1>3, <1>4 DEF NotLate
<1>16. i <= m
  BY <1>5, <1>12, <1>13, <1>14, <1>15
<1> QED BY <1>2, <1>16

(* The checking core checks the first packet of its list. *)
LEMMA OrderCheck ==
  ASSUME NEW a, NEW s, NEW H, NEW h, NEW r, InOrder(a, s, H, h, r), s # <<>>
  PROVE  /\ Has(a, Head(s))
         /\ \A i \in 1..Len(a) : a[i] = Head(s) =>
              i <= Cardinality(Hasher) /\ InOrder(RemoveAt(a, i), Tail(s), H, h, r)
<1>1. /\ a \in Seq(Packet) /\ s \in Seq(Packet) /\ h \in Seq(Packet) /\ r \in Seq(Packet)
      /\ H \in SUBSET Packet /\ NoneTwice(a) /\ NoneTwice(s) /\ \A p \in H : ~Has(s, p)
      /\ NotLate(a, s)
  BY DEF InOrder
<1>2. PICK f : Line(f, a, s, H, h, r)
  BY DEF InOrder
<1>3. f \in Seq(Packet) /\ a = f \o (h \o r) /\ \A p : Has(f, p) <=> Has(s, p) \/ p \in H
  BY <1>2 DEF Line
<1>4. PICK x : x = Head(s)
  OBVIOUS
<1>5. PICK t : t = Tail(s)
  OBVIOUS
<1>6. /\ x \in Packet /\ t \in Seq(Packet) /\ NoneTwice(t)
      /\ \A p : Has(s, p) <=> Has(t, p) \/ p = x
      /\ ~Has(t, x)
      /\ \A p, q : Before(t, q, p) <=> Before(s, q, p) /\ q # x
  BY <1>1, <1>4, <1>5, WithoutFirst
<1>7. PICK g : g = h \o r
  OBVIOUS
<1>8. g \in Seq(Packet) /\ a = f \o g
  BY <1>1, <1>3, <1>7
<1>9. Has(f, x) /\ Has(a, x)
  <2>1. Has(f, x)
    BY <1>3, <1>6
  <2> QED BY <1>3, <1>8, <2>1, Together
<1>10. ASSUME NEW i \in 1..Len(a), a[i] = x
       PROVE  i <= Cardinality(Hasher) /\ InOrder(RemoveAt(a, i), t, H, h, r)
  <2>1. i <= Cardinality(Hasher)
    BY <1>1, <1>4, <1>10, NotTooLate
  <2>2. PICK b : b = RemoveAt(a, i)
    OBVIOUS
  <2>3. /\ b \in Seq(Packet) /\ NoneTwice(b)
        /\ \A p, q : Before(b, q, p) => Before(a, q, p) /\ q # x
    BY <1>1, <1>10, <2>2, WithoutOne
  <2>4. PICK m : m = Len(f)
    OBVIOUS
  <2>5. m \in Nat /\ Len(a) = m + Len(g) /\ Len(g) \in Nat /\ \A k \in 1..m : a[k] = f[k]
    BY <1>3, <1>8, <2>4
  <2>6. i \in 1..m
    <3>1. PICK k \in 1..m : f[k] = x
      BY <1>9, <2>4 DEF Has
    <3>2. k \in 1..Len(a) /\ a[k] = a[i]
      BY <1>10, <2>5, <3>1
    <3>3. k = i
      BY <1>1, <3>2 DEF NoneTwice
    <3> QED BY <3>1, <3>3
  <2>7. f[i] = x
    BY <1>10, <2>5, <2>6
  <2>8. PICK e : e = RemoveAt(f, i)
    OBVIOUS
  <2>9. NoneTwice(f)
    BY <1>1, <1>3, <1>8, Together
  <2>10. e \in Seq(Packet) /\ \A p : Has(e, p) <=> Has(f, p) /\ p # x
    BY <1>3, <2>4, <2>6, <2>7, <2>8, <2>9, WithoutOne
  <2>11. b = e \o g
    <3>1. Len(e) = m - 1 /\ \A k \in 1..(m - 1) : e[k] = IF k < i THEN f[k] ELSE f[k + 1]
      BY <1>3, <2>4, <2>6, <2>8, RemoveAtProperties
    <3>2. /\ Len(b) = Len(a) - 1
          /\ \A k \in 1..(Len(a) - 1) : b[k] = IF k < i THEN a[k] ELSE a[k + 1]
      BY <1>1, <2>2, RemoveAtProperties
    <3>3. PICK c : c = e \o g
      OBVIOUS
    <3>4. PICK n : n = Len(g)
      OBVIOUS
    <3>5. /\ n \in Nat /\ Len(a) = m + n
          /\ \A k \in 1..(m + n) : a[k] = IF k <= m THEN f[k] ELSE g[k - m]
      BY <1>3, <1>8, <2>4, <3>4, ConcatProperties
    <3>6. /\ c \in Seq(Packet) /\ Len(c) = m - 1 + n
          /\ \A k \in 1..(m - 1 + n) : c[k] = IF k <= m - 1 THEN e[k] ELSE g[k - (m - 1)]
      BY <1>8, <2>5, <2>10, <3>1, <3>3, <3>4, ConcatProperties
    <3>7. Len(b) = m - 1 + n
      BY <2>5, <3>2, <3>5
    <3>8. ASSUME NEW k \in 1..(m - 1 + n) PROVE b[k] = c[k]
      <4>1. b[k] = IF k < i THEN a[k] ELSE a[k + 1]
        BY <2>5, <3>2, <3>5
      <4>2. CASE k <= m - 1
        <5>1. k \in 1..(m - 1) /\ k \in 1..(m + n) /\ k + 1 \in 1..(m + n) /\ k + 1 <= m /\ k <= m
          BY <2>5, <3>5, <4>2
        <5>2. c[k] = IF k < i THEN f[k] ELSE f[k + 1]
          BY <3>1, <3>6, <4>2, <5>1
        <5>3. a[k] = f[k] /\ a[k + 1] = f[k + 1]
          BY <3>5, <5>1
        <5> QED BY <4>1, <5>2, <5>3
      <4>3. CASE ~(k <= m - 1)
        <5>1. ~(k < i) /\ k + 1 \in 1..(m + n) /\ ~(k + 1 <= m) /\ (k + 1) - m = k - (m - 1)
          BY <2>5, <2>6, <3>5, <4>3
        <5>2. a[k + 1] = g[k - (m - 1)]
          BY <3>5, <5>1
        <5>3. c[k] = g[k - (m - 1)]
          BY <3>6, <4>3
        <5> QED BY <4>1, <5>1, <5>2, <5>3
      <4> QED BY <4>2, <4>3
    <3>9. b = c
      BY <2>3, <3>6, <3>7, <3>8, SeqEqual
    <3> QED BY <3>3, <3>9
  <2>12. Line(e, b, t, H, h, r)
    BY <1>1, <1>3, <1>6, <1>7, <2>10, <2>11 DEF Line
  <2>13. NotLate(b, t)
    <3>1. \A p : Has(t, p) => Has(s, p) /\ Overtaken(b, t, p) \subseteq Overtaken(a, s, p)
      BY <1>6, <2>3 DEF Overtaken
    <3> QED BY <1>1, <3>1, NoLater
  <2>14. \A p \in H : ~Has(t, p)
    BY <1>1, <1>6
  <2>15. InOrder(b, t, H, h, r)
    BY <1>1, <1>6, <2>3, <2>12, <2>13, <2>14 DEF InOrder
  <2> QED BY <2>1, <2>2, <2>15
<1> QED BY <1>4, <1>5, <1>9, <1>10

-----------------------------------------------------------------------------
(* The slot of the n-th frame from the tail. *)
RingSlot(n) == (rx_tail + n) % RING_SIZE

(* Fewer than R steps further round a ring of R slots is another slot. *)
LEMMA SlotsApart ==
  ASSUME NEW R \in Nat \ {0}, NEW x \in Int, NEW y \in Int, x < y, y - x < R
  PROVE  x % R # y % R
<1> SUFFICES ASSUME x % R = y % R PROVE FALSE
  OBVIOUS
<1>1. PICK d : d = x \div R
  OBVIOUS
<1>2. PICK e : e = y \div R
  OBVIOUS
<1>3. PICK m : m = x % R
  OBVIOUS
<1>4. d \in Int /\ e \in Int /\ m \in Int /\ x = R * d + m /\ y = R * e + m
  BY <1>1, <1>2, <1>3, SMT
<1>5. y - x = R * (e - d) /\ x - y = R * (d - e)
  BY <1>4, SMT
<1>6. CASE e - d >= 1
  <2>1. R * (e - d) >= R
    BY <1>4, <1>6, Multiple
  <2> QED BY <1>5, <2>1
<1>7. CASE d - e >= 1
  <2>1. R * (d - e) >= R
    BY <1>4, <1>7, Multiple
  <2> QED BY <1>5, <2>1
<1>8. CASE e = d
  BY <1>4, <1>8
<1> QED BY <1>4, <1>6, <1>7, <1>8

(* The ring's slots, counted from the tail: the tail slot is the first,    *)
(* the head slot follows the last frame, and they are all different; and   *)
(* they are the same counted from the next tail.                           *)
LEMMA RingSlots ==
  ASSUME TypeOK, RingBounded
  PROVE  /\ \A n \in Nat : RingSlot(n) \in Slot
         /\ RingSlot(0) = TailSlot
         /\ RingSlot(Occupancy) = HeadSlot
         /\ \A j, k \in Nat : j < k /\ k - j < RING_SIZE => RingSlot(j) # RingSlot(k)
         /\ \A n \in Nat : (((rx_tail + 1) % WORD) + n) % RING_SIZE = RingSlot(n + 1)
<1>1. PICK t : t = rx_tail
  OBVIOUS
<1>2. PICK d : d = rx_head
  OBVIOUS
<1>3. PICK R : R = RING_SIZE
  OBVIOUS
<1>4. PICK W : W = WORD
  OBVIOUS
<1>5. /\ R \in Nat \ {0} /\ W \in Nat \ {0} /\ W % R = 0
      /\ t \in 0..(W - 1) /\ d \in 0..(W - 1)
  BY <1>1, <1>2, <1>3, <1>4, RingAssumption, SMT DEF TypeOK
<1>6. PICK k : k = W \div R
  OBVIOUS
<1>7. k \in Int /\ W = R * k
  BY <1>5, <1>6, SMT
<1>8. \A n \in Nat : RingSlot(n) \in Slot
  <2> SUFFICES ASSUME NEW n \in Nat PROVE RingSlot(n) \in Slot
    OBVIOUS
  <2>1. PICK x : x = rx_tail + n
    OBVIOUS
  <2>2. x \in Int
    BY <1>1, <1>5, <2>1
  <2>3. x % RING_SIZE \in Slot
    BY <2>2, CoresAndSlots
  <2> QED BY <2>1, <2>3 DEF RingSlot
<1>9. RingSlot(0) = TailSlot
  BY <1>1, <1>5 DEF RingSlot, TailSlot
<1>10. RingSlot(Occupancy) = HeadSlot
  <2>1. PICK o : o = (d - t) % W
    OBVIOUS
  <2>2. o = IF d >= t THEN d - t ELSE d - t + W
    BY <1>5, <2>1, Distance
  <2>3. (t + o) % R = d % R
    <3>1. CASE d >= t
      <4>1. t + o = d
        BY <1>5, <2>2, <3>1
      <4> QED BY <4>1
    <3>2. CASE ~(d >= t)
      <4>1. t + o = d + R * k
        <5>1. t + o = d + W
          BY <1>5, <2>2, <3>2
        <5> QED BY <1>7, <5>1
      <4>2. d \in Int
        BY <1>5
      <4>3. (d + R * k) % R = d % R
        BY <1>5, <1>7, <4>2, ShiftRemainder
      <4> QED BY <4>1, <4>3
    <3> QED BY <3>1, <3>2
  <2> QED BY <1>1, <1>2, <1>3, <1>4, <2>1, <2>3 DEF RingSlot, HeadSlot, Occupancy
<1>11. ASSUME NEW i \in Nat, NEW j \in Nat, i < j, j - i < RING_SIZE
       PROVE  RingSlot(i) # RingSlot(j)
  <2>1. PICK x : x = t + i
    OBVIOUS
  <2>2. PICK y : y = t + j
    OBVIOUS
  <2>3. x \in Int /\ y \in Int /\ x < y /\ y - x < R
    BY <1>3, <1>5, <1>11, <2>1, <2>2
  <2>4. x % R # y % R
    BY <1>5, <2>3, SlotsApart
  <2> QED BY <1>1, <1>3, <2>1, <2>2, <2>4 DEF RingSlot
<1>12. ASSUME NEW n \in Nat
       PROVE  (((rx_tail + 1) % WORD) + n) % RING_SIZE = RingSlot(n + 1)
  <2>1. (t + 1) % W = IF t + 1 = W THEN 0 ELSE t + 1
    BY <1>5, Distance
  <2>2. PICK v : v = (t + 1) % W
    OBVIOUS
  <2>3. PICK x : x = t + (n + 1)
    OBVIOUS
  <2>4. x \in Int /\ v \in Int
    BY <1>5, <2>1, <2>2, <2>3
  <2>5. (v + n) % R = x % R
    <3>1. CASE t + 1 = W
      <4>1. x = n + R * k
        <5>1. x = n + W
          BY <1>5, <2>3, <3>1
        <5> QED BY <1>7, <5>1
      <4>2. v + n = n /\ n \in Int
        BY <1>5, <2>1, <2>2, <3>1
      <4>3. (n + R * k) % R = n % R
        BY <1>5, <1>7, <4>2, ShiftRemainder
      <4> QED BY <4>1, <4>2, <4>3
    <3>2. CASE t + 1 # W
      <4>1. v + n = x
        BY <1>5, <2>1, <2>2, <2>3, <3>2
      <4> QED BY <4>1
    <3> QED BY <3>1, <3>2
  <2> QED BY <1>1, <1>3, <1>4, <2>2, <2>3, <2>5 DEF RingSlot
<1> QED BY <1>8, <1>9, <1>10, <1>11, <1>12

-----------------------------------------------------------------------------
(* The packets core 2 will check, in this order. *)
Checking == IF pc[Checker] = "check" THEN <<hand[Checker]>> ELSE <<>>

CheckSeq == Checking \o list["check_packet_buffer_list"]

(* The packets that are being hashed. *)
Hashing == {p \in Packet : \E c \in Hasher : hand[c] = p}

(* m buffers of the ring b, from the n-th after the slot t. *)
Frames(b, t, n, m) == [i \in 1..m |-> b[(t + (n + i - 1)) % RING_SIZE]]

(* The packets with the frames that core 1 has not handed on. *)
RingSeq == Frames(dma_base, rx_tail, Handed, Occupancy - Handed)

TakenOK == pc[Poller] = "enqueue" => hand[Poller] = dma_base[TailSlot]

ArrivedOK ==
  /\ InOrder(arrived, CheckSeq, Hashing, list["hashing_buffer_list"], RingSeq)
  /\ TakenOK

(* Buffers of the ring are a sequence of packets. *)
AreFrames(y, b, t, n, m) ==
  /\ y \in Seq(Packet) /\ Len(y) = m
  /\ \A i \in 1..m : y[i] = b[(t + (n + i - 1)) % RING_SIZE]

(* They are one sequence for each place and number. *)
LEMMA FramesType ==
  ASSUME NEW b \in [Slot -> Packet], NEW t \in Nat, NEW n \in Nat, NEW m \in Nat
  PROVE  AreFrames(Frames(b, t, n, m), b, t, n, m)
<1>1. ASSUME NEW i \in 1..m PROVE b[(t + (n + i - 1)) % RING_SIZE] \in Packet
  <2>1. t + (n + i - 1) \in Int
    OBVIOUS
  <2>2. (t + (n + i - 1)) % RING_SIZE \in Slot
    BY <2>1, CoresAndSlots
  <2> QED BY <2>2
<1>2. PICK y : y = Frames(b, t, n, m)
  OBVIOUS
<1>3. /\ y \in [1..m -> Packet]
      /\ \A i \in 1..m : y[i] = b[(t + (n + i - 1)) % RING_SIZE]
  BY <1>1, <1>2 DEF Frames
<1>4. y \in Seq(Packet) /\ Len(y) = m
  BY <1>3
<1> QED BY <1>2, <1>3, <1>4 DEF AreFrames

(* The frames of the ring, one by one. *)
LEMMA RingFrames ==
  ASSUME TypeInv, RingBounded
  PROVE  /\ Handed \in {0, 1} /\ Occupancy \in Nat /\ Occupancy - Handed \in Nat
         /\ Occupancy <= RING_SIZE
         /\ RingSeq \in Seq(Packet) /\ Len(RingSeq) = Occupancy - Handed
         /\ \A i \in 1..(Occupancy - Handed) : RingSeq[i] = dma_base[RingSlot(Handed + i - 1)]
<1>1. TypeOK
  BY DEF TypeInv
<1>2. Occupancy \in Nat /\ Occupancy <= RING_SIZE
  BY <1>1, RingFacts, RingAssumption
<1>3. Handed \in {0, 1} /\ Occupancy - Handed \in Nat
  BY <1>1, <1>2 DEF Handed, RingBounded
<1>4. dma_base \in [Slot -> Packet] /\ rx_tail \in Nat
  BY <1>1, RingAssumption DEF TypeOK
<1>5. PICK n : n = Handed
  OBVIOUS
<1>6. PICK m : m = Occupancy - Handed
  OBVIOUS
<1>7. n \in Nat /\ m \in Nat
  BY <1>3, <1>5, <1>6
<1>8. AreFrames(Frames(dma_base, rx_tail, n, m), dma_base, rx_tail, n, m)
  BY <1>4, <1>7, FramesType
<1> QED BY <1>2, <1>3, <1>5, <1>6, <1>8 DEF RingSeq, RingSlot, AreFrames

(* The places of a page whose frame is not yet checked. *)
InPlay(p) ==
  \/ OnList("check_packet_buffer_list", p)
  \/ OnList("hashing_buffer_list", p)
  \/ pc[Checker] = "check" /\ hand[Checker] = p
  \/ \E c \in Hasher : hand[c] = p
  \/ \E n \in Handed..(Occupancy - 1) : dma_base[RingSlot(n)] = p

(* What is to be checked is in the hand of core 2 or on its list. *)
LEMMA CheckSeqHas ==
  ASSUME TypeInv
  PROVE  /\ CheckSeq \in Seq(Packet) /\ Checking \in Seq(Packet)
         /\ list["check_packet_buffer_list"] \in Seq(Packet)
         /\ \A p : Has(CheckSeq, p) <=> \/ OnList("check_packet_buffer_list", p)
                                        \/ pc[Checker] = "check" /\ hand[Checker] = p
<1>1. PICK l : l = list["check_packet_buffer_list"]
  OBVIOUS
<1>2. PICK x : x = hand[Checker]
  OBVIOUS
<1>3. l \in Seq(Packet)
  BY <1>1 DEF TypeInv, TypeOK, ListName
<1>4. PICK k : k = Checking
  OBVIOUS
<1>5. pc[Checker] = "check" => x \in Packet
  BY <1>2, CoresAndSlots DEF TypeInv, TypeOK, HandsOK
<1>6. k \in Seq(Packet) /\ \A p : Has(k, p) <=> pc[Checker] = "check" /\ x = p
  <2>1. CASE pc[Checker] = "check"
    <3>1. k = <<x>> /\ x \in Packet
      BY <1>2, <1>4, <1>5, <2>1 DEF Checking
    <3>2. Len(k) = 1 /\ k[1] = x /\ k \in Seq(Packet) /\ 1..1 = {1}
      BY <3>1
    <3> QED BY <2>1, <3>2 DEF Has
  <2>2. CASE pc[Checker] # "check"
    <3>1. k = <<>>
      BY <1>4, <2>2 DEF Checking
    <3>2. Len(k) = 0 /\ k \in Seq(Packet) /\ 1..0 = {}
      BY <3>1
    <3> QED BY <2>2, <3>2 DEF Has
  <2> QED BY <2>1, <2>2
<1>7. k \o l \in Seq(Packet) /\ \A p : Has(k \o l, p) <=> Has(k, p) \/ Has(l, p)
  BY <1>3, <1>6, Together
<1>8. \A p : Has(l, p) <=> OnList("check_packet_buffer_list", p)
  BY <1>1 DEF Has, OnList
<1>9. CheckSeq = k \o l
  BY <1>1, <1>4 DEF CheckSeq
<1> QED BY <1>1, <1>2, <1>3, <1>4, <1>6, <1>7, <1>8, <1>9

(* An arrived page is in one of these places. *)
LEMMA ArrivedInPlay ==
  ASSUME TypeInv, RingBounded, ArrivedOK
  PROVE  \A p : Has(arrived, p) => InPlay(p)
<1> SUFFICES ASSUME NEW p, Has(arrived, p) PROVE InPlay(p)
  OBVIOUS
<1>1. PICK a : a = arrived
  OBVIOUS
<1>2. PICK s : s = CheckSeq
  OBVIOUS
<1>3. PICK H : H = Hashing
  OBVIOUS
<1>4. PICK h : h = list["hashing_buffer_list"]
  OBVIOUS
<1>5. PICK r : r = RingSeq
  OBVIOUS
<1>6. InOrder(a, s, H, h, r)
  BY <1>1, <1>2, <1>3, <1>4, <1>5 DEF ArrivedOK
<1>7. h \in Seq(Packet) /\ r \in Seq(Packet)
  BY <1>6 DEF InOrder
<1>8. PICK f : Line(f, a, s, H, h, r)
  BY <1>6 DEF InOrder
<1>9. f \in Seq(Packet) /\ a = f \o (h \o r) /\ \A q : Has(f, q) <=> Has(s, q) \/ q \in H
  BY <1>8 DEF Line
<1>10. h \o r \in Seq(Packet) /\ \A q : Has(h \o r, q) <=> Has(h, q) \/ Has(r, q)
  BY <1>7, Together
<1>11. \A q : Has(a, q) <=> Has(f, q) \/ Has(h \o r, q)
  <2>1. PICK g : g = h \o r
    OBVIOUS
  <2>2. g \in Seq(Packet) /\ a = f \o g
    BY <1>9, <1>10, <2>1
  <2>3. \A q : Has(f \o g, q) <=> Has(f, q) \/ Has(g, q)
    BY <1>9, <2>2, Together
  <2> QED BY <2>1, <2>2, <2>3
<1>12. Has(s, p) \/ p \in H \/ Has(h, p) \/ Has(r, p)
  BY <1>1, <1>9, <1>10, <1>11
<1>13. CASE Has(s, p)
  <2>1. OnList("check_packet_buffer_list", p) \/ (pc[Checker] = "check" /\ hand[Checker] = p)
    BY <1>2, <1>13, CheckSeqHas
  <2> QED BY <2>1 DEF InPlay
<1>14. CASE p \in H
  BY <1>3, <1>14 DEF Hashing, InPlay
<1>15. CASE Has(h, p)
  BY <1>4, <1>15 DEF Has, OnList, InPlay
<1>16. CASE Has(r, p)
  <2>1. PICK i \in 1..Len(r) : r[i] = p
    BY <1>16 DEF Has
  <2>2. /\ Handed \in {0, 1} /\ Occupancy \in Nat
        /\ i \in 1..(Occupancy - Handed) /\ dma_base[RingSlot(Handed + i - 1)] = p
    BY <1>5, <2>1, RingFrames
  <2>3. PICK n : n = Handed + i - 1
    OBVIOUS
  <2>4. n \in Handed..(Occupancy - 1)
    BY <2>2, <2>3
  <2> QED BY <2>2, <2>3, <2>4 DEF InPlay
<1> QED BY <1>12, <1>13, <1>14, <1>15, <1>16

(* One frame more. *)
LEMMA FramesGrow ==
  ASSUME NEW b \in [Slot -> Packet], NEW t \in Nat, NEW n \in Nat, NEW m \in Nat
  PROVE  Frames(b, t, n, m + 1) = Append(Frames(b, t, n, m), b[(t + (n + m)) % RING_SIZE])
<1>1. PICK x : x = b[(t + (n + m)) % RING_SIZE]
  OBVIOUS
<1>2. x \in Packet
  <2>1. t + (n + m) \in Int
    OBVIOUS
  <2> QED BY <1>1, <2>1, CoresAndSlots
<1>3. PICK y : y = Frames(b, t, n, m)
  OBVIOUS
<1>4. PICK z : z = Frames(b, t, n, m + 1)
  OBVIOUS
<1>5. /\ y \in Seq(Packet) /\ Len(y) = m
      /\ \A i \in 1..m : y[i] = b[(t + (n + i - 1)) % RING_SIZE]
  <2>1. AreFrames(y, b, t, n, m)
    BY <1>3, FramesType
  <2> QED BY <2>1 DEF AreFrames
<1>6. m + 1 \in Nat
  OBVIOUS
<1>7. /\ z \in Seq(Packet) /\ Len(z) = m + 1
      /\ \A i \in 1..(m + 1) : z[i] = b[(t + (n + i - 1)) % RING_SIZE]
  <2>1. AreFrames(z, b, t, n, m + 1)
    BY <1>4, <1>6, FramesType
  <2> QED BY <2>1 DEF AreFrames
<1>8. PICK w : w = Append(y, x)
  OBVIOUS
<1>9. w \in Seq(Packet) /\ Len(w) = m + 1 /\ w[m + 1] = x /\ \A i \in 1..m : w[i] = y[i]
  BY <1>2, <1>5, <1>8, AppendProperties
<1>10. z[m + 1] = x
  <2>1. n + (m + 1) - 1 = n + m /\ m + 1 \in 1..(m + 1)
    OBVIOUS
  <2> QED BY <1>1, <1>7, <2>1
<1>11. \A i \in 1..(m + 1) : w[i] = z[i]
  <2>1. \A i \in 1..(m + 1) : i \in 1..m \/ i = m + 1
    OBVIOUS
  <2> QED BY <1>5, <1>7, <1>9, <1>10, <2>1
<1>12. w = z
  BY <1>7, <1>9, <1>11, SeqEqual
<1> QED BY <1>1, <1>3, <1>4, <1>8, <1>12

(* One frame less. *)
LEMMA FramesShrink ==
  ASSUME NEW b \in [Slot -> Packet], NEW t \in Nat, NEW m \in Nat
  PROVE  /\ Frames(b, t, 0, m + 1) # <<>>
         /\ Head(Frames(b, t, 0, m + 1)) = b[t % RING_SIZE]
         /\ Tail(Frames(b, t, 0, m + 1)) = Frames(b, t, 1, m)
<1>1. PICK z : z = Frames(b, t, 0, m + 1)
  OBVIOUS
<1>2. PICK y : y = Frames(b, t, 1, m)
  OBVIOUS
<1>3. m + 1 \in Nat /\ 0 \in Nat /\ 1 \in Nat
  OBVIOUS
<1>4. /\ z \in Seq(Packet) /\ Len(z) = m + 1
      /\ \A i \in 1..(m + 1) : z[i] = b[(t + (0 + i - 1)) % RING_SIZE]
  <2>1. AreFrames(z, b, t, 0, m + 1)
    BY <1>1, <1>3, FramesType
  <2> QED BY <2>1 DEF AreFrames
<1>5. /\ y \in Seq(Packet) /\ Len(y) = m
      /\ \A i \in 1..m : y[i] = b[(t + (1 + i - 1)) % RING_SIZE]
  <2>1. AreFrames(y, b, t, 1, m)
    BY <1>2, <1>3, FramesType
  <2> QED BY <2>1 DEF AreFrames
<1>6. z # <<>> /\ Head(z) = z[1]
  BY <1>4
<1>7. z[1] = b[t % RING_SIZE]
  <2>1. 1 \in 1..(m + 1) /\ t + (0 + 1 - 1) = t
    OBVIOUS
  <2> QED BY <1>4, <2>1
<1>8. PICK w : w = Tail(z)
  OBVIOUS
<1>9. w \in Seq(Packet) /\ Len(w) = m /\ \A i \in 1..m : w[i] = z[i + 1]
  <2>1. /\ Tail(z) \in Seq(Packet) /\ Len(Tail(z)) = Len(z) - 1
        /\ \A i \in 1..Len(Tail(z)) : Tail(z)[i] = z[i + 1]
    BY <1>4, <1>6, HeadTailProperties
  <2>2. Len(w) = m
    BY <1>4, <1>8, <2>1
  <2> QED BY <1>8, <2>1, <2>2
<1>10. \A i \in 1..m : w[i] = y[i]
  <2> SUFFICES ASSUME NEW i \in 1..m PROVE w[i] = y[i]
    OBVIOUS
  <2>1. i + 1 \in 1..(m + 1) /\ t + (0 + (i + 1) - 1) = t + (1 + i - 1)
    OBVIOUS
  <2> QED BY <1>4, <1>5, <1>9, <2>1
<1>11. w = y
  BY <1>5, <1>9, <1>10, SeqEqual
<1> QED BY <1>1, <1>2, <1>6, <1>7, <1>8, <1>11

(* Buffers of the ring that are the same one by one are the same. *)
SameFrames(b, t, n, c, u, k, m) ==
  \A i \in 1..m : b[(t + (n + i - 1)) % RING_SIZE] = c[(u + (k + i - 1)) % RING_SIZE]

(* The sequences of them are then the same. *)
LEMMA FramesSame ==
  ASSUME NEW b \in [Slot -> Packet], NEW c \in [Slot -> Packet], NEW t \in Nat, NEW u \in Nat,
         NEW n \in Nat, NEW k \in Nat, NEW m \in Nat, SameFrames(b, t, n, c, u, k, m)
  PROVE  Frames(b, t, n, m) = Frames(c, u, k, m)
<1>1. PICK y : y = Frames(b, t, n, m)
  OBVIOUS
<1>2. PICK z : z = Frames(c, u, k, m)
  OBVIOUS
<1>3. /\ y \in Seq(Packet) /\ Len(y) = m
      /\ \A i \in 1..m : y[i] = b[(t + (n + i - 1)) % RING_SIZE]
  <2>1. AreFrames(y, b, t, n, m)
    BY <1>1, FramesType
  <2> QED BY <2>1 DEF AreFrames
<1>4. /\ z \in Seq(Packet) /\ Len(z) = m
      /\ \A i \in 1..m : z[i] = c[(u + (k + i - 1)) % RING_SIZE]
  <2>1. AreFrames(z, c, u, k, m)
    BY <1>2, FramesType
  <2> QED BY <2>1 DEF AreFrames
<1>5. \A i \in 1..m : y[i] = z[i]
  BY <1>3, <1>4 DEF SameFrames
<1>6. y = z
  BY <1>3, <1>4, <1>5, SeqEqual
<1> QED BY <1>1, <1>2, <1>6

-----------------------------------------------------------------------------
(* A frame in the ring is in an armed slot, unless core 1 holds its page. *)
LEMMA FramesArmed ==
  ASSUME TypeInv, RingBounded, NEW n \in Handed..(Occupancy - 1)
  PROVE  /\ n \in Nat /\ RingSlot(n) \in Slot
         /\ RingSlot(n) \in ArmedSlots \/ (pc[Poller] = "enqueue" /\ RingSlot(n) = TailSlot)
<1>1. TypeOK
  BY DEF TypeInv
<1>2. Handed \in {0, 1} /\ Occupancy \in Nat /\ Occupancy <= RING_SIZE
  BY RingFrames
<1>3. n \in Nat /\ n < RING_SIZE
  BY <1>2, RingAssumption
<1>4. RingSlot(n) \in Slot
  BY <1>1, <1>3, RingSlots
<1>5. CASE n = 0
  <2>1. pc[Poller] \notin {"refill", "arm", "advance"}
    BY <1>2, <1>5 DEF Handed
  <2>2. RingSlot(n) = TailSlot
    BY <1>1, <1>5, RingSlots
  <2>3. CASE pc[Poller] = "enqueue"
    BY <1>3, <1>4, <2>2, <2>3
  <2>4. CASE pc[Poller] # "enqueue"
    BY <1>3, <1>4, <2>1, <2>4 DEF ArmedSlots
  <2> QED BY <2>3, <2>4
<1>6. CASE n # 0
  <2>1. 0 < n /\ n - 0 < RING_SIZE /\ 0 \in Nat
    BY <1>3, <1>6
  <2>2. RingSlot(0) # RingSlot(n)
    BY <1>1, <1>3, <2>1, RingSlots
  <2>3. RingSlot(n) # TailSlot
    BY <1>1, <2>2, RingSlots
  <2> QED BY <1>3, <1>4, <2>3 DEF ArmedSlots
<1> QED BY <1>5, <1>6

(* The page the next frame is written to is in none of these places. *)
LEMMA HeadFresh ==
  ASSUME TypeInv, RingBounded, Owned, TakenOK, ~RingFull
  PROVE  /\ HeadSlot \in ArmedSlots /\ HeadSlot \in Slot /\ dma_base[HeadSlot] \in Packet
         /\ ~InPlay(dma_base[HeadSlot])
<1>1. TypeOK
  BY DEF TypeInv
<1>2. PICK x : x = dma_base[HeadSlot]
  OBVIOUS
<1>3. HeadSlot \in ArmedSlots /\ ~InList(x) /\ ~InHand(x)
  BY <1>2, DmaFromOwned DEF DmaSafe
<1>4. HeadSlot \in Slot /\ x \in Packet
  BY <1>1, <1>2, <1>3 DEF ArmedSlots, TypeOK
<1>5. Occupancy \in Nat /\ Occupancy < RING_SIZE /\ RingSlot(Occupancy) = HeadSlot
  <2>1. Occupancy \in 0..RING_SIZE /\ Occupancy # RING_SIZE
    BY <1>1, RingFacts
  <2>2. RingSlot(Occupancy) = HeadSlot
    BY <1>1, RingSlots
  <2> QED BY <2>1, <2>2, RingAssumption
<1>6. ASSUME NEW n \in Handed..(Occupancy - 1), dma_base[RingSlot(n)] = x PROVE FALSE
  <2>1. /\ n \in Nat /\ RingSlot(n) \in Slot
        /\ RingSlot(n) \in ArmedSlots \/ (pc[Poller] = "enqueue" /\ RingSlot(n) = TailSlot)
    BY FramesArmed
  <2>2. n < Occupancy /\ Occupancy - n < RING_SIZE
    <3>1. Handed \in {0, 1}
      BY RingFrames
    <3> QED BY <1>5, <2>1, <3>1, RingAssumption
  <2>3. RingSlot(n) # RingSlot(Occupancy)
    BY <1>1, <1>5, <2>1, <2>2, RingSlots
  <2>4. CASE RingSlot(n) \in ArmedSlots
    BY <1>2, <1>3, <1>5, <1>6, <2>3, <2>4 DEF Owned, ExclusiveOwner, InOneSlot
  <2>5. CASE pc[Poller] = "enqueue" /\ RingSlot(n) = TailSlot
    <3>1. hand[Poller] = x
      BY <1>6, <2>5 DEF TakenOK
    <3> QED BY <1>3, <3>1, CoresAndSlots DEF InHand
  <2> QED BY <2>1, <2>4, <2>5
<1>7. ~InPlay(x)
  <2>1. ~OnList("check_packet_buffer_list", x) /\ ~OnList("hashing_buffer_list", x)
    BY <1>3 DEF InList, ListName
  <2>2. \A c \in Core : hand[c] # x
    BY <1>3 DEF InHand
  <2> QED BY <1>6, <2>1, <2>2, CoresAndSlots DEF InPlay
<1> QED BY <1>2, <1>3, <1>4, <1>7

-----------------------------------------------------------------------------
(* A step that leaves the five parts alone keeps the order. *)
LEMMA SameOrder ==
  ASSUME ArrivedOK, arrived' = arrived, CheckSeq' = CheckSeq, Hashing' = Hashing,
         list'["hashing_buffer_list"] = list["hashing_buffer_list"], RingSeq' = RingSeq, TakenOK'
  PROVE  ArrivedOK'
BY DEF ArrivedOK

(* A frame arrives: its page is the last of the line. *)
LEMMA ReceiveArrived ==
  ASSUME TypeInv, RingBounded, Owned, ArrivedOK, TypeInv', RingBounded',
         NEW f \in Frame, Receive(f), arrived' = Append(arrived, dma_base[HeadSlot])
  PROVE  ArrivedOK'
<1>1. TypeOK /\ TakenOK
  BY DEF TypeInv, ArrivedOK
<1>2. PICK x : x = dma_base[HeadSlot]
  OBVIOUS
<1>3. x \in Packet /\ ~InPlay(x)
  BY <1>1, <1>2, HeadFresh DEF Receive
<1>4. ~Has(arrived, x)
  BY <1>3, ArrivedInPlay
<1>5. /\ list' = list /\ hand' = hand /\ pc' = pc /\ dma_base' = dma_base /\ rx_tail' = rx_tail
      /\ rx_head' = (rx_head + 1) % WORD
  BY DEF Receive
<1>6. CheckSeq' = CheckSeq /\ Hashing' = Hashing /\ TakenOK'
  BY <1>1, <1>5 DEF CheckSeq, Checking, Hashing, TakenOK, TailSlot
<1>7. RingSeq' = Append(RingSeq, x)
  <2>1. PICK m : m = Occupancy - Handed
    OBVIOUS
  <2>2. PICK h : h = Handed
    OBVIOUS
  <2>3. m \in Nat /\ h \in Nat /\ Occupancy = h + m
    BY <2>1, <2>2, RingFrames
  <2>4. Occupancy' = Occupancy + 1 /\ Handed' = h
    <3>1. Occupancy < RING_SIZE /\ Occupancy < WORD - 1
      <4>1. Occupancy \in 0..RING_SIZE /\ Occupancy # RING_SIZE
        BY <1>1, RingFacts DEF Receive
      <4> QED BY <4>1, RingAssumption
    <3>2. (((rx_head + 1) % WORD) - rx_tail) % WORD = Occupancy + 1
      BY <1>1, <3>1, RingMoves
    <3> QED BY <1>5, <2>2, <3>2 DEF Occupancy, Handed
  <2>5. RingSeq' = Frames(dma_base, rx_tail, h, m + 1) /\ RingSeq = Frames(dma_base, rx_tail, h, m)
    <3>1. Occupancy' - Handed' = m + 1
      BY <2>3, <2>4
    <3> QED BY <1>5, <2>1, <2>2, <2>4, <3>1 DEF RingSeq
  <2>6. dma_base \in [Slot -> Packet] /\ rx_tail \in Nat
    BY <1>1, RingAssumption DEF TypeOK
  <2>7. Frames(dma_base, rx_tail, h, m + 1)
          = Append(Frames(dma_base, rx_tail, h, m), dma_base[(rx_tail + (h + m)) % RING_SIZE])
    BY <2>3, <2>6, FramesGrow
  <2>8. (rx_tail + (h + m)) % RING_SIZE = HeadSlot
    <3>1. RingSlot(Occupancy) = HeadSlot
      BY <1>1, RingSlots
    <3> QED BY <2>3, <3>1 DEF RingSlot
  <2> QED BY <1>2, <2>5, <2>7, <2>8
<1>8. InOrder(arrived', CheckSeq, Hashing, list["hashing_buffer_list"], RingSeq')
  <2>1. InOrder(arrived, CheckSeq, Hashing, list["hashing_buffer_list"], RingSeq)
    BY DEF ArrivedOK
  <2>2. InOrder(Append(arrived, x), CheckSeq, Hashing, list["hashing_buffer_list"],
                Append(RingSeq, x))
    BY <1>3, <1>4, <2>1, OrderReceive
  <2> QED BY <1>2, <1>7, <2>2
<1> QED BY <1>5, <1>6, <1>8 DEF ArrivedOK

(* The first frame of the ring goes to the hashing list. *)
LEMMA EnqueueFrameArrived ==
  ASSUME TypeInv, RingBounded, ArrivedOK, EnqueueFrame, arrived' = arrived
  PROVE  ArrivedOK'
<1>1. TypeOK /\ HandsOK /\ pc[Poller] = "enqueue" /\ pc'[Poller] = "refill"
  BY CoresAndSlots DEF TypeInv, EnqueueFrame, Goto, TypeOK
<1>2. PICK x : x = hand[Poller]
  OBVIOUS
<1>3. x \in Packet /\ x = dma_base[TailSlot]
  BY <1>1, <1>2, CoresAndSlots DEF TypeOK, HandsOK, ArrivedOK, TakenOK
<1>4. /\ list' = [list EXCEPT !["hashing_buffer_list"] = Append(@, x)]
      /\ hand' = [hand EXCEPT ![Poller] = NoPacket]
      /\ pc' = [pc EXCEPT ![Poller] = "refill"]
      /\ dma_base' = dma_base /\ rx_tail' = rx_tail /\ rx_head' = rx_head
  BY <1>2 DEF EnqueueFrame, Goto, AppendList, ringVars
<1>5. /\ list'["hashing_buffer_list"] = Append(list["hashing_buffer_list"], x)
      /\ list'["check_packet_buffer_list"] = list["check_packet_buffer_list"]
      /\ pc'[Checker] = pc[Checker] /\ hand'[Checker] = hand[Checker]
      /\ \A c \in Hasher : hand'[c] = hand[c]
  BY <1>1, <1>4, CoresAndSlots DEF TypeOK, ListName
<1>6. CheckSeq' = CheckSeq /\ Hashing' = Hashing /\ TakenOK'
  BY <1>1, <1>5 DEF CheckSeq, Checking, Hashing, TakenOK
<1>7. RingSeq # <<>> /\ Head(RingSeq) = x /\ RingSeq' = Tail(RingSeq)
  <2>1. Handed = 0 /\ Handed' = 1 /\ Occupancy' = Occupancy
    BY <1>1, <1>4 DEF Handed, Occupancy
  <2>2. Occupancy \in Nat /\ Occupancy >= 1
    BY <1>1, RingFrames DEF RingBounded
  <2>3. PICK m : m = Occupancy - 1
    OBVIOUS
  <2>4. m \in Nat /\ Occupancy - 0 = m + 1
    BY <2>2, <2>3
  <2>5. RingSeq = Frames(dma_base, rx_tail, 0, m + 1) /\ RingSeq' = Frames(dma_base, rx_tail, 1, m)
    BY <1>4, <2>1, <2>3, <2>4 DEF RingSeq
  <2>6. dma_base \in [Slot -> Packet] /\ rx_tail \in Nat
    BY <1>1, RingAssumption DEF TypeOK
  <2>7. /\ Frames(dma_base, rx_tail, 0, m + 1) # <<>>
        /\ Head(Frames(dma_base, rx_tail, 0, m + 1)) = dma_base[rx_tail % RING_SIZE]
        /\ Tail(Frames(dma_base, rx_tail, 0, m + 1)) = Frames(dma_base, rx_tail, 1, m)
    BY <2>4, <2>6, FramesShrink
  <2> QED BY <1>3, <2>5, <2>7 DEF TailSlot
<1>8. InOrder(arrived, CheckSeq, Hashing, list["hashing_buffer_list"], RingSeq)
  BY DEF ArrivedOK
<1>9. InOrder(arrived, CheckSeq, Hashing, Append(list["hashing_buffer_list"], Head(RingSeq)),
              Tail(RingSeq))
  BY <1>7, <1>8, OrderEnqueueFrame
<1> QED BY <1>5, <1>6, <1>7, <1>9 DEF ArrivedOK

(* A slot is armed: the frames that follow stay where they are. *)
LEMMA ArmArrived ==
  ASSUME TypeInv, RingBounded, ArrivedOK, Arm, arrived' = arrived
  PROVE  ArrivedOK'
<1>1. TypeOK /\ HandsOK /\ pc[Poller] = "arm" /\ pc'[Poller] = "advance"
  BY CoresAndSlots DEF TypeInv, Arm, Goto, TypeOK
<1>2. PICK x : x = hand[Poller]
  OBVIOUS
<1>3. x \in Packet
  BY <1>1, <1>2, CoresAndSlots DEF TypeOK, HandsOK
<1>4. /\ list' = list /\ hand' = [hand EXCEPT ![Poller] = NoPacket]
      /\ pc' = [pc EXCEPT ![Poller] = "advance"]
      /\ dma_base' = [dma_base EXCEPT ![TailSlot] = x] /\ rx_tail' = rx_tail /\ rx_head' = rx_head
  BY <1>2 DEF Arm, Goto
<1>5. /\ pc'[Checker] = pc[Checker] /\ hand'[Checker] = hand[Checker]
      /\ \A c \in Hasher : hand'[c] = hand[c]
  BY <1>1, <1>4, CoresAndSlots DEF TypeOK
<1>6. CheckSeq' = CheckSeq /\ Hashing' = Hashing /\ TakenOK'
  <2>1. CheckSeq' = CheckSeq
    <3>1. list'["check_packet_buffer_list"] = list["check_packet_buffer_list"]
      BY <1>4
    <3>2. Checking' = Checking
      BY <1>5 DEF Checking
    <3> QED BY <3>1, <3>2 DEF CheckSeq
  <2>2. Hashing' = Hashing
    BY <1>5 DEF Hashing
  <2>3. TakenOK'
    BY <1>1 DEF TakenOK
  <2> QED BY <2>1, <2>2, <2>3
<1>7. RingSeq' = RingSeq
  <2>1. Handed = 1 /\ Handed' = 1 /\ Occupancy' = Occupancy
    BY <1>1, <1>4 DEF Handed, Occupancy
  <2>2. Occupancy \in Nat /\ Occupancy <= RING_SIZE /\ Occupancy - 1 \in Nat
    BY <2>1, RingFrames
  <2>3. PICK m : m = Occupancy - 1
    OBVIOUS
  <2>4. PICK b : b = [dma_base EXCEPT ![TailSlot] = x]
    OBVIOUS
  <2>5. TailSlot \in Slot
    BY <1>1, RingSlots
  <2>6. /\ dma_base \in [Slot -> Packet] /\ b \in [Slot -> Packet] /\ rx_tail \in Nat
        /\ \A i \in Slot : i # TailSlot => b[i] = dma_base[i]
    BY <1>1, <1>3, <2>4, <2>5, RingAssumption DEF TypeOK
  <2>7. m \in Nat /\ m < RING_SIZE
    BY <2>2, <2>3, RingAssumption
  <2>8. SameFrames(b, rx_tail, 1, dma_base, rx_tail, 1, m)
    <3> SUFFICES ASSUME NEW i \in 1..m
                 PROVE  b[(rx_tail + (1 + i - 1)) % RING_SIZE]
                          = dma_base[(rx_tail + (1 + i - 1)) % RING_SIZE]
      BY DEF SameFrames
    <3>1. i \in Nat /\ 0 \in Nat /\ 0 < i /\ i - 0 < RING_SIZE /\ 1 + i - 1 = i
      BY <2>7, RingAssumption
    <3>2. RingSlot(i) \in Slot /\ RingSlot(0) # RingSlot(i) /\ RingSlot(0) = TailSlot
      BY <1>1, <3>1, RingSlots
    <3> QED BY <2>6, <3>1, <3>2 DEF RingSlot
  <2>9. 1 \in Nat
    OBVIOUS
  <2>10. Frames(b, rx_tail, 1, m) = Frames(dma_base, rx_tail, 1, m)
    BY <2>6, <2>7, <2>8, <2>9, FramesSame
  <2> QED BY <1>4, <2>1, <2>3, <2>4, <2>10 DEF RingSeq
<1> QED BY <1>4, <1>6, <1>7, SameOrder

(* Core 1 goes on to the next slot: its frames are counted from there. *)
LEMMA AdvanceArrived ==
  ASSUME TypeInv, RingBounded, ArrivedOK, Advance, arrived' = arrived
  PROVE  ArrivedOK'
<1>1. TypeOK /\ pc[Poller] = "advance" /\ pc'[Poller] = "poll_ring"
  BY CoresAndSlots DEF TypeInv, Advance, Goto, TypeOK
<1>2. /\ list' = list /\ hand' = hand /\ pc' = [pc EXCEPT ![Poller] = "poll_ring"]
      /\ dma_base' = dma_base /\ rx_tail' = (rx_tail + 1) % WORD /\ rx_head' = rx_head
  BY DEF Advance, Goto
<1>3. pc'[Checker] = pc[Checker]
  BY <1>1, <1>2, CoresAndSlots DEF TypeOK
<1>4. CheckSeq' = CheckSeq /\ Hashing' = Hashing /\ TakenOK'
  BY <1>1, <1>2, <1>3 DEF CheckSeq, Checking, Hashing, TakenOK
<1>5. RingSeq' = RingSeq
  <2>1. Handed = 1 /\ Handed' = 0
    BY <1>1 DEF Handed
  <2>2. Occupancy \in Nat /\ Occupancy - 1 \in Nat
    BY <2>1, RingFrames
  <2>3. PICK m : m = Occupancy - 1
    OBVIOUS
  <2>4. Occupancy' = m
    <3>1. Occupancy >= 1
      BY <2>2
    <3>2. (rx_head - ((rx_tail + 1) % WORD)) % WORD = Occupancy - 1
      BY <1>1, <3>1, RingMoves
    <3> QED BY <1>2, <2>3, <3>2 DEF Occupancy
  <2>5. PICK u : u = (rx_tail + 1) % WORD
    OBVIOUS
  <2>6. dma_base \in [Slot -> Packet] /\ rx_tail \in Nat
    BY <1>1, RingAssumption DEF TypeOK
  <2>7. u \in Nat /\ m \in Nat /\ 0 \in Nat /\ 1 \in Nat
    <3>1. rx_tail + 1 \in Int
      BY <2>6
    <3>2. u \in 0..(WORD - 1)
      BY <2>5, <3>1, CoresAndSlots
    <3> QED BY <2>2, <2>3, <3>2, RingAssumption
  <2>8. SameFrames(dma_base, u, 0, dma_base, rx_tail, 1, m)
    <3> SUFFICES ASSUME NEW i \in 1..m
                 PROVE  dma_base[(u + (0 + i - 1)) % RING_SIZE]
                          = dma_base[(rx_tail + (1 + i - 1)) % RING_SIZE]
      BY DEF SameFrames
    <3>1. PICK n : n = i - 1
      OBVIOUS
    <3>2. n \in Nat /\ 0 + i - 1 = n /\ 1 + i - 1 = n + 1
      BY <2>7, <3>1
    <3>3. (((rx_tail + 1) % WORD) + n) % RING_SIZE = RingSlot(n + 1)
      BY <1>1, <3>2, RingSlots
    <3>4. (u + n) % RING_SIZE = (rx_tail + (n + 1)) % RING_SIZE
      BY <2>5, <3>3 DEF RingSlot
    <3> QED BY <3>2, <3>4
  <2>9. Frames(dma_base, u, 0, m) = Frames(dma_base, rx_tail, 1, m)
    BY <2>6, <2>7, <2>8, FramesSame
  <2>10. m - 0 = m
    BY <2>7
  <2> QED BY <1>2, <2>1, <2>3, <2>4, <2>5, <2>9, <2>10 DEF RingSeq
<1> QED BY <1>2, <1>4, <1>5, SameOrder

(* What the parts of the line depend on. *)
LEMMA SameRing ==
  ASSUME ArrivedOK, dma_base' = dma_base, rx_head' = rx_head, rx_tail' = rx_tail,
         pc'[Poller] = pc[Poller], hand'[Poller] = hand[Poller]
  PROVE  RingSeq' = RingSeq /\ TakenOK'
<1>1. Handed' = Handed /\ Occupancy' = Occupancy
  BY DEF Handed, Occupancy
<1> QED BY <1>1 DEF RingSeq, ArrivedOK, TakenOK, TailSlot

(* What core 2 is about to check depends on core 2 and its list. *)
LEMMA SameCheck ==
  ASSUME list'["check_packet_buffer_list"] = list["check_packet_buffer_list"],
         pc'[Checker] = pc[Checker], hand'[Checker] = hand[Checker]
  PROVE  CheckSeq' = CheckSeq
<1>1. Checking' = Checking
  BY DEF Checking
<1> QED BY <1>1 DEF CheckSeq

(* A core that hashes takes the first packet of its list. *)
LEMMA PollHashingArrived ==
  ASSUME TypeInv, ArrivedOK, NEW c \in Hasher, PollHashing(c), arrived' = arrived
  PROVE  ArrivedOK'
<1>1. TypeOK /\ HandsOK /\ c \in Core /\ c # Poller /\ c # Checker
  BY CoresAndSlots DEF TypeInv
<1>2. PICK h : h = list["hashing_buffer_list"]
  OBVIOUS
<1>3. h # <<>>
  BY <1>2 DEF PollHashing, Poll
<1>4. /\ list' = [list EXCEPT !["hashing_buffer_list"] = Tail(h)]
      /\ hand' = [hand EXCEPT ![c] = Head(h)] /\ pc[c] = "poll_hashing"
      /\ pc' = [pc EXCEPT ![c] = "hash"]
      /\ dma_base' = dma_base /\ rx_tail' = rx_tail /\ rx_head' = rx_head
  BY <1>2 DEF PollHashing, Goto, Poll, ringVars
<1>5. /\ list'["hashing_buffer_list"] = Tail(h)
      /\ list'["check_packet_buffer_list"] = list["check_packet_buffer_list"]
      /\ hand'[c] = Head(h)
      /\ \A d \in Core \ {c} : pc'[d] = pc[d] /\ hand'[d] = hand[d]
  BY <1>1, <1>4 DEF TypeOK, ListName
<1>6. RingSeq' = RingSeq /\ TakenOK' /\ CheckSeq' = CheckSeq
  BY <1>1, <1>4, <1>5, SameRing, SameCheck, CoresAndSlots
<1>7. Hashing' = Hashing \cup {Head(h)}
  <2>1. hand[c] \notin Packet
    BY <1>1, <1>4, PacketAssumption DEF HandsOK, TypeOK
  <2>2. Head(h) \in Packet
    BY <1>1, <1>2, <1>3, HeadTailProperties DEF TypeOK, ListName
  <2>3. \A p \in Packet : (\E d \in Hasher : hand'[d] = p)
                            <=> (\E d \in Hasher : hand[d] = p) \/ p = Head(h)
    BY <1>5, <2>1, <2>2, CoresAndSlots
  <2> QED BY <2>2, <2>3 DEF Hashing
<1>8. InOrder(arrived, CheckSeq, Hashing, h, RingSeq)
  BY <1>2 DEF ArrivedOK
<1>9. InOrder(arrived, CheckSeq, Hashing \cup {Head(h)}, Tail(h), RingSeq)
  BY <1>3, <1>8, OrderPollHashing
<1> QED BY <1>5, <1>6, <1>7, <1>9 DEF ArrivedOK

(* At most as many pages are being hashed as there are cores to hash them. *)
LEMMA FewHashing == TypeOK => Cardinality(Hashing) <= Cardinality(Hasher)
<1> SUFFICES ASSUME TypeOK PROVE Cardinality(Hashing) <= Cardinality(Hasher)
  OBVIOUS
<1>1. PICK H : H = Hashing
  OBVIOUS
<1>2. \A p \in H : \E c \in Hasher : hand[c] = p
  BY <1>1 DEF Hashing
<1>3. PICK g : g = [p \in H |-> CHOOSE c \in Hasher : hand[c] = p]
  OBVIOUS
<1>4. \A p \in H : g[p] \in Hasher /\ hand[g[p]] = p
  BY <1>2, <1>3
<1>5. g \in Injection(H, Hasher)
  BY <1>3, <1>4 DEF Injection, IsInjective
<1>6. Cardinality(H) <= Cardinality(Hasher)
  BY <1>5, CoreAssumption, FS_Injection
<1> QED BY <1>1, <1>6

(* A core hands the packet it has hashed to the checking list. *)
LEMMA EnqueueCheckArrived ==
  ASSUME TypeInv, Owned, ArrivedOK, NEW c \in Hasher, EnqueueCheck(c), arrived' = arrived
  PROVE  ArrivedOK'
<1>1. TypeOK /\ HandsOK /\ InOneHand /\ c \in Core /\ c # Poller /\ c # Checker
  BY CoresAndSlots DEF TypeInv, Owned, ExclusiveOwner
<1>2. PICK x : x = hand[c]
  OBVIOUS
<1>3. PICK l : l = list["check_packet_buffer_list"]
  OBVIOUS
<1>4. /\ list' = [list EXCEPT !["check_packet_buffer_list"] = Append(l, x)]
      /\ hand' = [hand EXCEPT ![c] = NoPacket] /\ pc[c] = "enqueue_check"
      /\ pc' = [pc EXCEPT ![c] = "poll_hashing"]
      /\ dma_base' = dma_base /\ rx_tail' = rx_tail /\ rx_head' = rx_head
  BY <1>2, <1>3 DEF EnqueueCheck, Goto, AppendList, ringVars
<1>5. /\ list'["check_packet_buffer_list"] = Append(l, x)
      /\ list'["hashing_buffer_list"] = list["hashing_buffer_list"]
      /\ hand'[c] = NoPacket
      /\ \A d \in Core \ {c} : pc'[d] = pc[d] /\ hand'[d] = hand[d]
  BY <1>1, <1>4 DEF TypeOK, ListName
<1>6. x \in Packet /\ NoPacket \notin Packet
  BY <1>1, <1>2, <1>4, PacketAssumption DEF TypeOK, HandsOK
<1>7. RingSeq' = RingSeq /\ TakenOK'
  BY <1>1, <1>4, <1>5, SameRing, CoresAndSlots
<1>8. CheckSeq' = Append(CheckSeq, x)
  <2>1. PICK k : k = Checking
    OBVIOUS
  <2>2. Checking' = k
    BY <1>1, <1>5, <2>1, CoresAndSlots DEF Checking
  <2>3. k \in Seq(Packet) /\ l \in Seq(Packet) /\ <<x>> \in Seq(Packet) /\ k \o l \in Seq(Packet)
    BY <1>3, <1>6, <2>1, CheckSeqHas
  <2>4. Append(l, x) = l \o <<x>> /\ Append(k \o l, x) = (k \o l) \o <<x>>
    BY <1>6, <2>3, AppendIsConcat
  <2>5. (k \o l) \o <<x>> = k \o (l \o <<x>>)
    BY <2>3, ConcatAssociative
  <2>6. CheckSeq = k \o l /\ CheckSeq' = k \o Append(l, x)
    BY <1>3, <1>5, <2>1, <2>2 DEF CheckSeq
  <2> QED BY <2>4, <2>5, <2>6
<1>9. x \in Hashing /\ Hashing' = Hashing \ {x}
  <2>1. \A d \in Hasher : hand[d] = x => d = c
    BY <1>1, <1>2, <1>6, CoresAndSlots DEF InOneHand
  <2>2. \A p \in Packet : (\E d \in Hasher : hand'[d] = p)
                            <=> (\E d \in Hasher : hand[d] = p) /\ p # x
    BY <1>2, <1>5, <1>6, <2>1, CoresAndSlots
  <2> QED BY <1>2, <1>6, <2>2 DEF Hashing
<1>10. InOrder(arrived, CheckSeq, Hashing, list["hashing_buffer_list"], RingSeq)
  BY DEF ArrivedOK
<1>11. Cardinality(Hashing) <= Cardinality(Hasher)
  BY <1>1, FewHashing
<1>12. InOrder(arrived, Append(CheckSeq, x), Hashing \ {x}, list["hashing_buffer_list"], RingSeq)
  BY <1>9, <1>10, <1>11, OrderEnqueueCheck
<1> QED BY <1>5, <1>7, <1>8, <1>9, <1>12 DEF ArrivedOK

(* Core 2 takes the first packet of its list, which stays the next one. *)
LEMMA PollCheckArrived ==
  ASSUME TypeInv, ArrivedOK, PollCheck, arrived' = arrived
  PROVE  ArrivedOK'
<1>1. TypeOK /\ Checker \in Core
  BY CoresAndSlots DEF TypeInv
<1>2. PICK l : l = list["check_packet_buffer_list"]
  OBVIOUS
<1>3. l # <<>> /\ l \in Seq(Packet)
  BY <1>1, <1>2 DEF PollCheck, Poll, TypeOK, ListName
<1>4. /\ list' = [list EXCEPT !["check_packet_buffer_list"] = Tail(l)]
      /\ hand' = [hand EXCEPT ![Checker] = Head(l)] /\ pc[Checker] = "poll_check"
      /\ pc' = [pc EXCEPT ![Checker] = "check"]
      /\ dma_base' = dma_base /\ rx_tail' = rx_tail /\ rx_head' = rx_head
  BY <1>2 DEF PollCheck, Goto, Poll, ringVars
<1>5. /\ list'["check_packet_buffer_list"] = Tail(l)
      /\ list'["hashing_buffer_list"] = list["hashing_buffer_list"]
      /\ hand'[Checker] = Head(l) /\ pc'[Checker] = "check"
      /\ \A d \in Core \ {Checker} : pc'[d] = pc[d] /\ hand'[d] = hand[d]
  BY <1>1, <1>4 DEF TypeOK, ListName
<1>6. RingSeq' = RingSeq /\ TakenOK' /\ Hashing' = Hashing
  <2>1. \A c \in Hasher : hand'[c] = hand[c]
    BY <1>5, CoresAndSlots
  <2>2. Hashing' = Hashing
    BY <2>1 DEF Hashing
  <2> QED BY <1>1, <1>4, <1>5, <2>2, SameRing, CoresAndSlots
<1>7. CheckSeq' = CheckSeq
  <2>1. Checking = <<>> /\ Checking' = <<Head(l)>>
    BY <1>4, <1>5 DEF Checking
  <2>2. CheckSeq = <<>> \o l /\ CheckSeq' = <<Head(l)>> \o Tail(l)
    BY <1>2, <1>5, <2>1 DEF CheckSeq
  <2>3. <<>> \o l = l /\ <<Head(l)>> \o Tail(l) = l
    BY <1>3
  <2> QED BY <2>2, <2>3
<1> QED BY <1>5, <1>6, <1>7, SameOrder

(* Core 2 checks the packet: it leaves the line, and was not late. *)
LEMMA CheckPacketArrived ==
  ASSUME TypeInv, ArrivedOK, CheckPacket,
         arrived' = RemoveAt(arrived, Position(hand[Checker]))
  PROVE  /\ ArrivedOK'
         /\ Position(hand[Checker]) \in 1..Len(arrived)
         /\ Position(hand[Checker]) <= Cardinality(Hasher)
         /\ arrived[Position(hand[Checker])] = hand[Checker]
         /\ arrived \in Seq(Packet)
<1>1. TypeOK /\ Checker \in Core
  BY CoresAndSlots DEF TypeInv
<1>2. PICK x : x = hand[Checker]
  OBVIOUS
<1>3. PICK l : l = list["check_packet_buffer_list"]
  OBVIOUS
<1>4. /\ list' = list /\ hand' = hand /\ pc[Checker] = "check"
      /\ pc' = [pc EXCEPT ![Checker] = "count"]
      /\ dma_base' = dma_base /\ rx_tail' = rx_tail /\ rx_head' = rx_head
  BY DEF CheckPacket, Goto, ringVars
<1>5. pc'[Checker] = "count" /\ \A d \in Core \ {Checker} : pc'[d] = pc[d]
  BY <1>1, <1>4 DEF TypeOK
<1>6. RingSeq' = RingSeq /\ TakenOK' /\ Hashing' = Hashing
  <2>1. Hashing' = Hashing
    BY <1>4 DEF Hashing
  <2> QED BY <1>1, <1>4, <1>5, <2>1, SameRing, CoresAndSlots
<1>7. x \in Packet /\ l \in Seq(Packet)
  BY <1>1, <1>2, <1>3, <1>4 DEF TypeInv, TypeOK, HandsOK, ListName
<1>8. CheckSeq # <<>> /\ Head(CheckSeq) = x /\ Tail(CheckSeq) = CheckSeq'
  <2>1. Checking = <<x>> /\ Checking' = <<>>
    BY <1>2, <1>4, <1>5 DEF Checking
  <2>2. CheckSeq = <<x>> \o l /\ CheckSeq' = <<>> \o l
    BY <1>3, <1>4, <2>1 DEF CheckSeq
  <2>3. <<>> \o l = l /\ <<x>> \o l # <<>> /\ Head(<<x>> \o l) = x /\ Tail(<<x>> \o l) = l
    BY <1>7
  <2> QED BY <2>2, <2>3
<1>9. InOrder(arrived, CheckSeq, Hashing, list["hashing_buffer_list"], RingSeq)
  BY DEF ArrivedOK
<1>10. /\ Has(arrived, x)
       /\ \A i \in 1..Len(arrived) : arrived[i] = x =>
            /\ i <= Cardinality(Hasher)
            /\ InOrder(RemoveAt(arrived, i), CheckSeq', Hashing, list["hashing_buffer_list"],
                       RingSeq)
  BY <1>8, <1>9, OrderCheck
<1>11. PICK i : i = Position(x)
  OBVIOUS
<1>12. i \in 1..Len(arrived) /\ arrived[i] = x
  BY <1>10, <1>11 DEF Has, Position
<1>13. /\ i <= Cardinality(Hasher)
       /\ InOrder(RemoveAt(arrived, i), CheckSeq', Hashing, list["hashing_buffer_list"], RingSeq)
  BY <1>10, <1>12
<1>14. ArrivedOK'
  BY <1>2, <1>4, <1>6, <1>11, <1>13 DEF ArrivedOK
<1>15. arrived \in Seq(Packet)
  BY <1>9 DEF InOrder
<1> QED BY <1>2, <1>11, <1>12, <1>13, <1>14, <1>15

(* A step that moves no page of the line. *)
LEMMA StillArrived ==
  ASSUME TypeInv, RingBounded, ArrivedOK, arrived' = arrived,
         \/ TakeFrame \/ Refill \/ CountPacket \/ Recycle \/ UNCHANGED vars
         \/ \E c \in Hasher : Hash(c)
  PROVE  ArrivedOK'
<1>1. TypeOK /\ HandsOK
  BY DEF TypeInv
<1> USE CoresAndSlots
<1>2. CASE TakeFrame
  <2>1. /\ list' = list /\ dma_base' = dma_base /\ rx_head' = rx_head /\ rx_tail' = rx_tail
        /\ hand' = [hand EXCEPT ![Poller] = dma_base[TailSlot]]
        /\ pc[Poller] = "poll_ring" /\ pc' = [pc EXCEPT ![Poller] = "enqueue"]
    BY <1>2 DEF TakeFrame, Goto, ringVars
  <2>2. /\ hand'[Poller] = dma_base[TailSlot] /\ pc'[Poller] = "enqueue"
        /\ \A d \in Core \ {Poller} : pc'[d] = pc[d] /\ hand'[d] = hand[d]
    BY <1>1, <2>1 DEF TypeOK
  <2>3. CheckSeq' = CheckSeq
    BY <2>1, <2>2, SameCheck
  <2>4. Hashing' = Hashing
    <3>1. \A c \in Hasher : hand'[c] = hand[c]
      BY <2>2
    <3> QED BY <3>1 DEF Hashing
  <2>5. TakenOK'
    <3>1. TailSlot' = TailSlot
      BY <2>1 DEF TailSlot
    <3> QED BY <2>1, <2>2, <3>1 DEF TakenOK
  <2>6. RingSeq' = RingSeq
    <3>1. Handed' = Handed /\ Occupancy' = Occupancy
      BY <2>1, <2>2 DEF Handed, Occupancy
    <3> QED BY <2>1, <3>1 DEF RingSeq
  <2> QED BY <2>1, <2>3, <2>4, <2>5, <2>6, SameOrder
<1>3. CASE Refill
  <2>1. /\ dma_base' = dma_base /\ rx_head' = rx_head /\ rx_tail' = rx_tail
        /\ list' = [list EXCEPT !["garbage_list"] = Tail(@)]
        /\ hand' = [hand EXCEPT ![Poller] = Head(list["garbage_list"])]
        /\ pc[Poller] = "refill" /\ pc' = [pc EXCEPT ![Poller] = "arm"]
    BY <1>3 DEF Refill, Goto, Poll, ringVars
  <2>2. /\ pc'[Poller] = "arm"
        /\ list'["hashing_buffer_list"] = list["hashing_buffer_list"]
        /\ list'["check_packet_buffer_list"] = list["check_packet_buffer_list"]
        /\ \A d \in Core \ {Poller} : pc'[d] = pc[d] /\ hand'[d] = hand[d]
    BY <1>1, <2>1 DEF TypeOK, ListName
  <2>3. CheckSeq' = CheckSeq
    BY <2>2, SameCheck
  <2>4. Hashing' = Hashing
    <3>1. \A c \in Hasher : hand'[c] = hand[c]
      BY <2>2
    <3> QED BY <3>1 DEF Hashing
  <2>5. TakenOK'
    BY <2>2 DEF TakenOK
  <2>6. RingSeq' = RingSeq
    <3>1. Handed' = Handed /\ Occupancy' = Occupancy
      BY <2>1, <2>2 DEF Handed, Occupancy
    <3> QED BY <2>1, <3>1 DEF RingSeq
  <2> QED BY <2>2, <2>3, <2>4, <2>5, <2>6, SameOrder
<1>4. CASE CountPacket
  <2>1. /\ list' = list /\ dma_base' = dma_base /\ rx_head' = rx_head /\ rx_tail' = rx_tail
        /\ hand' = hand /\ pc[Checker] = "count" /\ pc' = [pc EXCEPT ![Checker] = "recycle"]
    BY <1>4 DEF CountPacket, Goto, ringVars
  <2>2. /\ pc'[Checker] = "recycle" /\ pc'[Poller] = pc[Poller]
    BY <1>1, <2>1 DEF TypeOK
  <2>3. CheckSeq' = CheckSeq
    <3>1. Checking' = Checking
      BY <2>1, <2>2 DEF Checking
    <3> QED BY <2>1, <3>1 DEF CheckSeq
  <2>4. Hashing' = Hashing
    BY <2>1 DEF Hashing
  <2>5. RingSeq' = RingSeq /\ TakenOK'
    BY <2>1, <2>2, SameRing
  <2> QED BY <2>1, <2>3, <2>4, <2>5, SameOrder
<1>5. CASE Recycle
  <2>1. /\ dma_base' = dma_base /\ rx_head' = rx_head /\ rx_tail' = rx_tail
        /\ list' = [list EXCEPT !["garbage_list"] = Append(@, hand[Checker])]
        /\ hand' = [hand EXCEPT ![Checker] = NoPacket]
        /\ pc[Checker] = "recycle" /\ pc' = [pc EXCEPT ![Checker] = "poll_check"]
    BY <1>5 DEF Recycle, Goto, AppendList, ringVars
  <2>2. /\ pc'[Checker] = "poll_check"
        /\ list'["hashing_buffer_list"] = list["hashing_buffer_list"]
        /\ list'["check_packet_buffer_list"] = list["check_packet_buffer_list"]
        /\ \A d \in Core \ {Checker} : pc'[d] = pc[d] /\ hand'[d] = hand[d]
    BY <1>1, <2>1 DEF TypeOK, ListName
  <2>3. CheckSeq' = CheckSeq
    <3>1. Checking' = Checking
      BY <2>1, <2>2 DEF Checking
    <3> QED BY <2>2, <3>1 DEF CheckSeq
  <2>4. Hashing' = Hashing
    <3>1. \A c \in Hasher : hand'[c] = hand[c]
      BY <2>2
    <3> QED BY <3>1 DEF Hashing
  <2>5. RingSeq' = RingSeq /\ TakenOK'
    BY <2>1, <2>2, SameRing
  <2> QED BY <2>2, <2>3, <2>4, <2>5, SameOrder
<1>6. CASE UNCHANGED vars
  <2>1. /\ list' = list /\ dma_base' = dma_base /\ rx_head' = rx_head /\ rx_tail' = rx_tail
        /\ hand' = hand /\ pc' = pc
    BY <1>6 DEF vars, ringVars
  <2>2. CheckSeq' = CheckSeq
    BY <2>1, SameCheck
  <2>3. Hashing' = Hashing
    BY <2>1 DEF Hashing
  <2>4. RingSeq' = RingSeq /\ TakenOK'
    BY <2>1, SameRing
  <2> QED BY <2>1, <2>2, <2>3, <2>4, SameOrder
<1>7. ASSUME NEW c \in Hasher, Hash(c) PROVE ArrivedOK'
  <2>1. /\ list' = list /\ dma_base' = dma_base /\ rx_head' = rx_head /\ rx_tail' = rx_tail
        /\ hand' = hand /\ pc[c] = "hash" /\ pc' = [pc EXCEPT ![c] = "enqueue_check"]
    BY <1>7 DEF Hash, Goto, ringVars
  <2>2. pc'[Checker] = pc[Checker] /\ pc'[Poller] = pc[Poller]
    BY <1>1, <2>1 DEF TypeOK
  <2>3. CheckSeq' = CheckSeq
    BY <2>1, <2>2, SameCheck
  <2>4. Hashing' = Hashing
    BY <2>1 DEF Hashing
  <2>5. RingSeq' = RingSeq /\ TakenOK'
    BY <2>1, <2>2, SameRing
  <2> QED BY <2>1, <2>3, <2>4, <2>5, SameOrder
<1> QED BY <1>2, <1>3, <1>4, <1>5, <1>6, <1>7

(* At first nothing has arrived. *)
LEMMA ArrivedInit == HistoryInit => ArrivedOK
<1> SUFFICES ASSUME HistoryInit PROVE ArrivedOK
  OBVIOUS
<1>1. Init /\ arrived = <<>>
  BY DEF HistoryInit
<1>2. TypeInv /\ RingBounded
  BY <1>1, TypeInit, RingInit
<1>3. /\ pc[Poller] = "poll_ring" /\ pc[Checker] = "poll_check"
      /\ rx_head = rx_tail /\ \A c \in Core : hand[c] = NoPacket
      /\ list["check_packet_buffer_list"] = <<>> /\ list["hashing_buffer_list"] = <<>>
  BY <1>1, CoresAndSlots DEF Init, ListName
<1>4. CheckSeq = <<>>
  <2>1. Checking = <<>>
    BY <1>3 DEF Checking
  <2>2. <<>> \o <<>> = <<>>
    OBVIOUS
  <2> QED BY <1>3, <2>1, <2>2 DEF CheckSeq
<1>5. Hashing = {}
  BY <1>3, CoresAndSlots, PacketAssumption DEF Hashing
<1>6. RingSeq = <<>>
  <2>1. Occupancy - Handed = 0
    <3>1. Handed = 0
      BY <1>3 DEF Handed
    <3>2. Occupancy = 0
      BY <1>2, <1>3, RingFacts DEF RingEmpty, TypeInv
    <3> QED BY <3>1, <3>2
  <2>2. RingSeq \in Seq(Packet) /\ Len(RingSeq) = 0
    BY <1>2, <2>1, RingFrames
  <2> QED BY <2>2, EmptySeq
<1>7. PICK e : e = <<>>
  OBVIOUS
<1>8. e \in Seq(Packet) /\ Len(e) = 0 /\ 1..0 = {} /\ e = e \o (e \o e)
  BY <1>7
<1>9. NoneTwice(e) /\ \A p : ~Has(e, p)
  BY <1>8 DEF NoneTwice, Has
<1>10. Line(e, e, e, {}, e, e)
  BY <1>8, <1>9 DEF Line
<1>11. NotLate(e, e)
  BY <1>9 DEF NotLate
<1>12. InOrder(e, e, {}, e, e)
  BY <1>8, <1>9, <1>10, <1>11 DEF InOrder
<1>13. TakenOK
  BY <1>3 DEF TakenOK
<1> QED BY <1>1, <1>3, <1>4, <1>5, <1>6, <1>7, <1>12, <1>13 DEF ArrivedOK

-----------------------------------------------------------------------------
(* The pages that have been hashed and not yet checked have the hash of    *)
(* their own bytes.                                                        *)
HashedPage(p) ==
  \/ OnList("check_packet_buffer_list", p)
  \/ pc[Checker] = "check" /\ hand[Checker] = p
  \/ \E c \in Hasher : pc[c] = "enqueue_check" /\ hand[c] = p

HashOK ==
  \A p \in Packet : HashedPage(p) => hash[p] = Djb2(contents[p], packet_length[p])

(* A hashed page is on a list or in a hand. *)
LEMMA HashedPlace ==
  ASSUME NEW p, HashedPage(p)
  PROVE  InList(p) \/ InHand(p)
BY CoresAndSlots DEF HashedPage, InList, InHand, ListName

(* A step that does not write to a page and hands on no other one. *)
LEMMA SameHash ==
  ASSUME HashOK, NEW x,
         \A p \in Packet : HashedPage(p)' => HashedPage(p) /\ p # x,
         \A p \in Packet : p # x => /\ hash'[p] = hash[p] /\ contents'[p] = contents[p]
                                    /\ packet_length'[p] = packet_length[p]
  PROVE  HashOK'
BY DEF HashOK

(* Every step keeps the hashes. *)
LEMMA HashStep == TypeInv /\ RingBounded /\ Owned /\ HashOK /\ [Next]_vars => HashOK'
<1> SUFFICES ASSUME TypeInv, RingBounded, Owned, HashOK, [Next]_vars PROVE HashOK'
  OBVIOUS
<1> USE CoresAndSlots
<1>a. TypeOK /\ HandsOK /\ OnOneList /\ InOneHand /\ InOnePlace
  BY DEF TypeInv, Owned, ExclusiveOwner
<1>b. {"garbage_list", "hashing_buffer_list", "check_packet_buffer_list"} \subseteq ListName
  BY DEF ListName
<1>c. NoPacket \notin Packet
  BY PacketAssumption
<1>1. ASSUME NEW f \in Frame, Receive(f) PROVE HashOK'
  <2>1. PICK x : x = dma_base[HeadSlot]
    OBVIOUS
  <2>2. ~InList(x) /\ ~InHand(x)
    BY <1>1, <2>1, DmaFromOwned DEF DmaSafe, Receive
  <2>3. /\ list' = list /\ hand' = hand /\ pc' = pc /\ hash' = hash
        /\ packet_length' = packet_length
        /\ contents' = [contents EXCEPT ![x] = Received(@, f)]
    BY <1>1, <2>1 DEF Receive
  <2>4. \A p \in Packet : HashedPage(p)' => HashedPage(p) /\ p # x
    BY <2>2, <2>3, HashedPlace DEF HashedPage, OnList
  <2>5. \A p \in Packet : p # x => contents'[p] = contents[p]
    BY <1>a, <2>3 DEF TypeOK
  <2> QED BY <2>3, <2>4, <2>5, SameHash
<1>2. CASE TakeFrame
  <2>1. PICK x : x = dma_base[TailSlot]
    OBVIOUS
  <2>2. /\ list' = list /\ hash' = hash /\ contents' = contents
        /\ hand' = [hand EXCEPT ![Poller] = x]
        /\ packet_length' = [packet_length EXCEPT ![x] = dma_len[TailSlot]]
        /\ pc[Poller] = "poll_ring" /\ pc' = [pc EXCEPT ![Poller] = "enqueue"]
    BY <1>2, <2>1 DEF TakeFrame, Goto
  <2>3. ~InList(x) /\ ~InHand(x)
    <3>1. TailSlot \in ArmedSlots
      BY <1>a, <2>2, RingSlots DEF ArmedSlots
    <3>2. InRing(x)
      BY <2>1, <3>1 DEF InRing
    <3>3. x \in Packet
      BY <1>a, <2>1, <3>1 DEF ArmedSlots, TypeOK
    <3> QED BY <1>a, <3>2, <3>3 DEF InOnePlace
  <2>4. \A d \in Core \ {Poller} : pc'[d] = pc[d] /\ hand'[d] = hand[d]
    BY <1>a, <2>2 DEF TypeOK
  <2>5. \A p \in Packet : HashedPage(p)' => HashedPage(p) /\ p # x
    BY <2>2, <2>3, <2>4, HashedPlace DEF HashedPage, OnList
  <2>6. \A p \in Packet : p # x => packet_length'[p] = packet_length[p]
    BY <1>a, <2>2 DEF TypeOK
  <2> QED BY <2>2, <2>5, <2>6, SameHash
<1>3. CASE EnqueueFrame \/ Refill \/ Arm \/ Advance
  <2>1. dataVars' = dataVars
    BY <1>3 DEF EnqueueFrame, Refill, Arm, Advance
  <2>2. \A d \in Core \ {Poller} : pc'[d] = pc[d] /\ hand'[d] = hand[d]
    BY <1>3, <1>a DEF EnqueueFrame, Refill, Arm, Advance, Goto, AppendList, Poll, TypeOK
  <2>3. list'["check_packet_buffer_list"] = list["check_packet_buffer_list"]
    BY <1>3, <1>a DEF EnqueueFrame, Refill, Arm, Advance, AppendList, Poll, TypeOK, ListName
  <2>4. \A p \in Packet : HashedPage(p)' => HashedPage(p)
    BY <2>2, <2>3 DEF HashedPage, OnList
  <2> QED BY <1>c, <2>1, <2>4, SameHash DEF dataVars
<1>4. ASSUME NEW c \in Hasher, PollHashing(c) PROVE HashOK'
  <2>1. dataVars' = dataVars /\ pc'[c] = "hash"
    BY <1>4, <1>a DEF PollHashing, Goto, TypeOK
  <2>2. \A d \in Core \ {c} : pc'[d] = pc[d] /\ hand'[d] = hand[d]
    BY <1>4, <1>a DEF PollHashing, Goto, Poll, TypeOK
  <2>3. list'["check_packet_buffer_list"] = list["check_packet_buffer_list"]
    BY <1>4, <1>a DEF PollHashing, Poll, TypeOK, ListName
  <2>4. \A p \in Packet : HashedPage(p)' => HashedPage(p)
    BY <2>1, <2>2, <2>3 DEF HashedPage, OnList
  <2> QED BY <1>c, <2>1, <2>4, SameHash DEF dataVars
<1>5. ASSUME NEW c \in Hasher, Hash(c) PROVE HashOK'
  <2>1. PICK x : x = hand[c]
    OBVIOUS
  <2>2. /\ list' = list /\ hand' = hand /\ contents' = contents
        /\ packet_length' = packet_length /\ pc' = [pc EXCEPT ![c] = "enqueue_check"]
        /\ hash' = [hash EXCEPT ![x] = Djb2(contents[x], packet_length[x])]
    BY <1>5, <2>1 DEF Hash, Goto
  <2>3. \A d \in Core \ {c} : pc'[d] = pc[d]
    BY <1>a, <2>2 DEF TypeOK
  <2>4. \A p \in Packet : HashedPage(p)' => HashedPage(p) \/ p = x
    BY <2>1, <2>2, <2>3 DEF HashedPage, OnList
  <2>5. \A p \in Packet : hash'[p] = IF p = x THEN Djb2(contents[x], packet_length[x]) ELSE hash[p]
    BY <1>a, <2>2 DEF TypeOK
  <2> SUFFICES ASSUME NEW p \in Packet, HashedPage(p)'
               PROVE  hash'[p] = Djb2(contents[p], packet_length[p])
    BY <2>2 DEF HashOK
  <2>6. CASE p = x
    BY <2>5, <2>6
  <2>7. CASE p # x
    BY <2>4, <2>5, <2>7 DEF HashOK
  <2> QED BY <2>6, <2>7
<1>6. ASSUME NEW c \in Hasher, EnqueueCheck(c) PROVE HashOK'
  <2>1. PICK x : x = hand[c]
    OBVIOUS
  <2>2. dataVars' = dataVars /\ pc[c] = "enqueue_check" /\ pc'[c] = "poll_hashing"
    BY <1>6, <1>a DEF EnqueueCheck, Goto, TypeOK
  <2>3. x # NoPacket
    BY <1>a, <2>1, <2>2 DEF HandsOK
  <2>4. \A d \in Core \ {c} : pc'[d] = pc[d] /\ hand'[d] = hand[d]
    BY <1>6, <1>a DEF EnqueueCheck, Goto, AppendList, TypeOK
  <2>5. \A p \in Packet : OnList("check_packet_buffer_list", p)'
                            <=> OnList("check_packet_buffer_list", p) \/ p = x
    <3>1. c \in Core /\ AppendList(c, "check_packet_buffer_list")
      BY <1>6 DEF EnqueueCheck
    <3> QED BY <1>a, <1>b, <2>1, <2>3, <3>1, AppendListMoves
  <2>6. \A p \in Packet : HashedPage(p)' => HashedPage(p)
    BY <2>1, <2>2, <2>4, <2>5 DEF HashedPage
  <2> QED BY <1>c, <2>2, <2>6, SameHash DEF dataVars
<1>7. CASE PollCheck
  <2>1. dataVars' = dataVars
    BY <1>7 DEF PollCheck
  <2>2. \A d \in Core \ {Checker} : pc'[d] = pc[d] /\ hand'[d] = hand[d]
    BY <1>7, <1>a DEF PollCheck, Goto, Poll, TypeOK
  <2>3. /\ OnList("check_packet_buffer_list", hand'[Checker])
        /\ \A p \in Packet : OnList("check_packet_buffer_list", p)'
                               => OnList("check_packet_buffer_list", p)
    <3>1. Poll(Checker, "check_packet_buffer_list")
      BY <1>7 DEF PollCheck
    <3> QED BY <1>a, <1>b, <3>1, PollMoves
  <2>4. \A p \in Packet : HashedPage(p)' => HashedPage(p)
    BY <2>2, <2>3 DEF HashedPage
  <2> QED BY <1>c, <2>1, <2>4, SameHash DEF dataVars
<1>8. CASE CheckPacket \/ CountPacket \/ Recycle
  <2>1. dataVars' = dataVars /\ pc'[Checker] # "check"
    BY <1>8, <1>a DEF CheckPacket, CountPacket, Recycle, Goto, TypeOK, dataVars
  <2>2. \A d \in Core \ {Checker} : pc'[d] = pc[d] /\ hand'[d] = hand[d]
    BY <1>8, <1>a DEF CheckPacket, CountPacket, Recycle, Goto, AppendList, TypeOK
  <2>3. list'["check_packet_buffer_list"] = list["check_packet_buffer_list"]
    BY <1>8, <1>a DEF CheckPacket, CountPacket, Recycle, AppendList, TypeOK, ListName
  <2>4. \A p \in Packet : HashedPage(p)' => HashedPage(p)
    BY <2>1, <2>2, <2>3 DEF HashedPage, OnList
  <2> QED BY <1>c, <2>1, <2>4, SameHash DEF dataVars
<1>9. CASE UNCHANGED vars
  BY <1>9 DEF vars, dataVars, HashOK, HashedPage, OnList
<1> QED
  BY <1>1, <1>2, <1>3, <1>4, <1>5, <1>6, <1>7, <1>8, <1>9
     DEF Next, PollerStep, HasherStep, CheckerStep

(* At first nothing has been hashed. *)
LEMMA HashInit == Init => HashOK
<1> SUFFICES ASSUME Init, NEW p \in Packet, HashedPage(p) PROVE FALSE
  BY DEF HashOK
<1>1. /\ pc[Checker] = "poll_check" /\ \A c \in Hasher : pc[c] = "poll_hashing"
      /\ list["check_packet_buffer_list"] = <<>>
  BY CoresAndSlots DEF Init, ListName
<1>2. ~OnList("check_packet_buffer_list", p)
  BY <1>1, 1..0 = {}, Len(<<>>) = 0 DEF OnList
<1> QED BY <1>1, <1>2 DEF HashedPage

-----------------------------------------------------------------------------
(* The length of a page's frame: that of its slot, if a slot has it. *)
LengthAt(S, n, lengths) == IF S = {} THEN n ELSE lengths[CHOOSE i \in S : TRUE]

(* A message in these words, before a step and after it. *)
LEMMA MessageIs ==
  ASSUME NEW p
  PROVE  /\ MessageOf(p) = <<contents[p], LengthAt(InSlot(p), packet_length[p], dma_len)>>
         /\ MessageOf(p)' = <<contents'[p], LengthAt(InSlot(p)', packet_length'[p], dma_len')>>
BY DEF MessageOf, LengthAt

(* Only the length in the slots of the page matters. *)
LEMMA SameLength ==
  ASSUME NEW S, NEW n, NEW a, NEW b, \A i \in S : a[i] = b[i]
  PROVE  LengthAt(S, n, a) = LengthAt(S, n, b)
<1>1. CASE S = {}
  BY <1>1 DEF LengthAt
<1>2. CASE S # {}
  <2>1. PICK i : i = CHOOSE j \in S : TRUE
    OBVIOUS
  <2>2. i \in S
    BY <1>2, <2>1
  <2>3. LengthAt(S, n, a) = a[i] /\ LengthAt(S, n, b) = b[i]
    BY <1>2, <2>1 DEF LengthAt
  <2> QED BY <2>2, <2>3
<1> QED BY <1>1, <1>2

(* The length of a page in one slot, and of a page in none. *)
LEMMA OneLength ==
  ASSUME NEW S, NEW n, NEW a
  PROVE  /\ S = {} => LengthAt(S, n, a) = n
         /\ \A i : S = {i} => LengthAt(S, n, a) = a[i]
BY DEF LengthAt

(* The slots of a page are armed ones, and there is at most one of them. *)
LEMMA SlotsOfPage ==
  ASSUME TypeInv, Owned, NEW p
  PROVE  /\ InSlot(p) = {i \in ArmedSlots : dma_base[i] = p}
         /\ \A i \in ArmedSlots : dma_base[i] = p => InSlot(p) = {i}
         /\ p \in Packet /\ (InList(p) \/ InHand(p)) => InSlot(p) = {}
<1>1. pc[Poller] \in PollerLabel
  BY DEF TypeInv, TypeOK
<1>2. InSlot(p) = {i \in ArmedSlots : dma_base[i] = p}
  BY <1>1 DEF InSlot, ArmedSlots, PollerLabel
<1>3. \A i \in ArmedSlots : dma_base[i] = p => InSlot(p) = {i}
  BY <1>2 DEF Owned, ExclusiveOwner, InOneSlot
<1>4. p \in Packet /\ (InList(p) \/ InHand(p)) => InSlot(p) = {}
  BY <1>2 DEF Owned, ExclusiveOwner, InOnePlace, InRing
<1> QED BY <1>2, <1>3, <1>4

(* The page core 1 is about to arm a slot with is none of the line. *)
LEMMA SpareNotInPlay ==
  ASSUME TypeInv, RingBounded, Owned, pc[Poller] = "arm", NEW p, InPlay(p)
  PROVE  p # hand[Poller]
<1>1. TypeOK /\ HandsOK /\ InOneHand /\ InOnePlace
  BY DEF TypeInv, Owned, ExclusiveOwner
<1>2. PICK x : x = hand[Poller]
  OBVIOUS
<1>3. x \in Packet /\ InHand(x)
  BY <1>1, <1>2, CoresAndSlots DEF TypeOK, HandsOK, InHand
<1>4. ~InList(x) /\ ~InRing(x)
  BY <1>1, <1>3 DEF InOnePlace
<1> SUFFICES ASSUME p = x PROVE FALSE
  BY <1>2
<1>5. ~OnList("check_packet_buffer_list", p) /\ ~OnList("hashing_buffer_list", p)
  BY <1>4 DEF InList, ListName
<1>6. \A c \in Core \ {Poller} : hand[c] # p
  BY <1>1, <1>2, <1>3, PacketAssumption, CoresAndSlots DEF InOneHand
<1>7. \A n \in Handed..(Occupancy - 1) : dma_base[RingSlot(n)] # p
  <2> SUFFICES ASSUME NEW n \in Handed..(Occupancy - 1), dma_base[RingSlot(n)] = p PROVE FALSE
    OBVIOUS
  <2>1. RingSlot(n) \in ArmedSlots
    BY FramesArmed
  <2> QED BY <1>4, <2>1 DEF InRing
<1> QED BY <1>5, <1>6, <1>7, CoresAndSlots DEF InPlay

(* No step changes the message of a page in the line. *)
LEMMA MessageKept ==
  ASSUME TypeInv, RingBounded, Owned, ArrivedOK, [Next]_vars, NEW p, Has(arrived, p)
  PROVE  MessageOf(p)' = MessageOf(p)
<1> USE CoresAndSlots
<1>a. TypeOK /\ HandsOK /\ InOnePlace
  BY DEF TypeInv, Owned, ExclusiveOwner
<1>b. p \in Packet
  <2>1. arrived \in Seq(Packet)
    BY DEF ArrivedOK, InOrder
  <2> QED BY <2>1 DEF Has
<1>c. InPlay(p)
  BY ArrivedInPlay
<1>1. ASSUME NEW f \in Frame, Receive(f) PROVE MessageOf(p)' = MessageOf(p)
  <2>1. PICK x : x = dma_base[HeadSlot]
    OBVIOUS
  <2>2. p # x
    BY <1>1, <1>c, <2>1, HeadFresh DEF Receive, ArrivedOK
  <2>3. /\ pc' = pc /\ dma_base' = dma_base /\ rx_tail' = rx_tail
        /\ packet_length' = packet_length
        /\ contents' = [contents EXCEPT ![x] = Received(@, f)]
        /\ dma_len' = [dma_len EXCEPT ![HeadSlot] = FrameLength(f)]
    BY <1>1, <2>1 DEF Receive
  <2>4. PICK S : S = InSlot(p)
    OBVIOUS
  <2>5. InSlot(p)' = S
    BY <2>3, <2>4 DEF InSlot, TailSlot
  <2>6. \A i \in S : dma_len'[i] = dma_len[i]
    BY <1>a, <2>1, <2>2, <2>3, <2>4 DEF InSlot, TypeOK
  <2>7. contents'[p] = contents[p]
    BY <1>a, <1>b, <2>2, <2>3 DEF TypeOK
  <2>8. PICK n : n = packet_length[p]
    OBVIOUS
  <2>9. LengthAt(S, n, dma_len') = LengthAt(S, n, dma_len)
    BY <2>6, SameLength
  <2> QED BY <2>3, <2>4, <2>5, <2>7, <2>8, <2>9, MessageIs
<1>2. CASE TakeFrame
  <2>1. PICK x : x = dma_base[TailSlot]
    OBVIOUS
  <2>2. /\ contents' = contents /\ dma_base' = dma_base /\ dma_len' = dma_len
        /\ rx_tail' = rx_tail
        /\ packet_length' = [packet_length EXCEPT ![x] = dma_len[TailSlot]]
        /\ pc[Poller] = "poll_ring" /\ pc' = [pc EXCEPT ![Poller] = "enqueue"]
    BY <1>2, <2>1 DEF TakeFrame, Goto, ringVars
  <2>3. pc'[Poller] = "enqueue"
    BY <1>a, <2>2 DEF TypeOK
  <2>4. TailSlot \in Slot /\ TailSlot \in ArmedSlots
    BY <1>a, <2>2, RingSlots DEF ArmedSlots
  <2>5. InSlot(p)' = InSlot(p) \ {TailSlot}
    BY <2>2, <2>3 DEF InSlot, TailSlot
  <2>6. CASE p = x
    <3>1. InSlot(p) = {TailSlot}
      BY <2>1, <2>4, <2>6, SlotsOfPage
    <3>2. InSlot(p)' = {}
      BY <2>5, <3>1
    <3>3. packet_length'[p] = dma_len[TailSlot]
      BY <1>a, <1>b, <2>2, <2>6 DEF TypeOK
    <3>4. LengthAt(InSlot(p), packet_length[p], dma_len) = dma_len[TailSlot]
      BY <3>1, OneLength
    <3>5. LengthAt(InSlot(p)', packet_length'[p], dma_len') = dma_len[TailSlot]
      BY <3>2, <3>3, OneLength
    <3> QED BY <2>2, <3>4, <3>5, MessageIs
  <2>7. CASE p # x
    <3>1. TailSlot \notin InSlot(p)
      BY <2>1, <2>7 DEF InSlot
    <3>2. InSlot(p)' = InSlot(p)
      BY <2>5, <3>1
    <3>3. packet_length'[p] = packet_length[p]
      BY <1>a, <1>b, <2>2, <2>7 DEF TypeOK
    <3> QED BY <2>2, <3>2, <3>3, MessageIs
  <2> QED BY <2>6, <2>7
<1>3. CASE Arm
  <2>1. PICK x : x = hand[Poller]
    OBVIOUS
  <2>2. /\ contents' = contents /\ packet_length' = packet_length /\ rx_tail' = rx_tail
        /\ dma_base' = [dma_base EXCEPT ![TailSlot] = x]
        /\ dma_len' = [dma_len EXCEPT ![TailSlot] = NET_MAXPKT]
        /\ pc[Poller] = "arm" /\ pc' = [pc EXCEPT ![Poller] = "advance"]
    BY <1>3, <2>1 DEF Arm, Goto, dataVars
  <2>3. p # x
    BY <1>c, <2>1, <2>2, SpareNotInPlay
  <2>4. pc'[Poller] = "advance" /\ TailSlot' = TailSlot
    BY <1>a, <2>2 DEF TypeOK, TailSlot
  <2>5. PICK S : S = InSlot(p)
    OBVIOUS
  <2>6. TailSlot \notin S
    BY <2>2, <2>5 DEF InSlot
  <2>7. InSlot(p)' = S
    <3>1. \A i \in Slot : dma_base'[i] = IF i = TailSlot THEN x ELSE dma_base[i]
      BY <1>a, <2>2 DEF TypeOK
    <3> QED BY <2>2, <2>3, <2>4, <2>5, <3>1 DEF InSlot
  <2>8. \A i \in S : dma_len'[i] = dma_len[i]
    BY <1>a, <2>2, <2>5, <2>6 DEF InSlot, TypeOK
  <2>9. PICK n : n = packet_length[p]
    OBVIOUS
  <2>10. LengthAt(S, n, dma_len') = LengthAt(S, n, dma_len)
    BY <2>8, SameLength
  <2> QED BY <2>2, <2>5, <2>7, <2>9, <2>10, MessageIs
<1>4. CASE EnqueueFrame \/ Refill
  <2>1. /\ ringVars' = ringVars /\ dataVars' = dataVars
        /\ pc[Poller] \notin {"poll_ring", "advance"} /\ pc'[Poller] \notin {"poll_ring", "advance"}
    BY <1>4, <1>a DEF EnqueueFrame, Refill, Goto, TypeOK
  <2>2. InSlot(p)' = InSlot(p)
    BY <2>1 DEF InSlot, TailSlot, ringVars
  <2> QED BY <2>1, <2>2, MessageIs DEF ringVars, dataVars
<1>5. CASE Advance
  <2>1. /\ dma_base' = dma_base /\ dma_len' = dma_len /\ dataVars' = dataVars
        /\ pc[Poller] = "advance" /\ pc'[Poller] = "poll_ring"
    BY <1>5, <1>a DEF Advance, Goto, TypeOK
  <2>2. InSlot(p)' = InSlot(p)
    BY <2>1 DEF InSlot
  <2> QED BY <2>1, <2>2, MessageIs DEF dataVars
<1>6. CASE (\E c \in Hasher : HasherStep(c)) \/ CheckerStep \/ UNCHANGED vars
  <2>1. /\ ringVars' = ringVars /\ contents' = contents /\ packet_length' = packet_length
        /\ pc'[Poller] = pc[Poller]
    BY <1>6, <1>a
       DEF HasherStep, PollHashing, Hash, EnqueueCheck, CheckerStep, PollCheck, CheckPacket,
           CountPacket, Recycle, Goto, ringVars, dataVars, vars, TypeOK
  <2>2. InSlot(p)' = InSlot(p)
    BY <2>1 DEF InSlot, TailSlot, ringVars
  <2> QED BY <2>1, <2>2, MessageIs DEF ringVars
<1> QED BY <1>1, <1>2, <1>3, <1>4, <1>5, <1>6 DEF Next, PollerStep

-----------------------------------------------------------------------------
(* The messages of the pages of a sequence. *)
MapSeq(a, M) == [n \in 1..Len(a) |-> M[a[n]]]

Messages == [p \in Packet |-> MessageOf(p)]

(* Mapping a sequence of pages, and what an append and a removal do to it. *)
LEMMA MapType ==
  ASSUME NEW T, NEW M \in [Packet -> T], NEW a \in Seq(Packet)
  PROVE  /\ MapSeq(a, M) \in Seq(T) /\ Len(MapSeq(a, M)) = Len(a)
         /\ \A n \in 1..Len(a) : MapSeq(a, M)[n] = M[a[n]]
<1>1. PICK q : q = MapSeq(a, M)
  OBVIOUS
<1>2. PICK m : m = Len(a)
  OBVIOUS
<1>3. m \in Nat /\ \A n \in 1..m : a[n] \in Packet
  BY <1>2
<1>4. q = [n \in 1..m |-> M[a[n]]]
  BY <1>1, <1>2 DEF MapSeq
<1>5. q \in [1..m -> T] /\ \A n \in 1..m : q[n] = M[a[n]]
  BY <1>3, <1>4
<1>6. q \in Seq(T) /\ Len(q) = m
  BY <1>3, <1>5
<1> QED BY <1>1, <1>2, <1>5, <1>6

(* Only the messages of the pages in it matter. *)
SameOn(a, M, N) == \A p : Has(a, p) => N[p] = M[p]

(* The messages are the same when those of the pages in it are. *)
LEMMA MapSame ==
  ASSUME NEW M, NEW N, NEW a, SameOn(a, M, N)
  PROVE  MapSeq(a, N) = MapSeq(a, M)
<1>1. \A n \in 1..Len(a) : N[a[n]] = M[a[n]]
  BY DEF Has, SameOn
<1> QED BY <1>1 DEF MapSeq

(* One page more is one message more. *)
LEMMA MapAppend ==
  ASSUME NEW T, NEW M \in [Packet -> T], NEW N \in [Packet -> T], NEW a \in Seq(Packet),
         NEW x \in Packet, SameOn(a, M, N)
  PROVE  MapSeq(Append(a, x), N) = Append(MapSeq(a, M), N[x])
<1>1. PICK q : q = MapSeq(a, M)
  OBVIOUS
<1>2. PICK b : b = Append(a, x)
  OBVIOUS
<1>3. PICK r : r = MapSeq(b, N)
  OBVIOUS
<1>4. PICK m : m = Len(a)
  OBVIOUS
<1>5. PICK y : y = N[x]
  OBVIOUS
<1>6. m \in Nat /\ y \in T
  BY <1>4, <1>5
<1>7. q \in Seq(T) /\ Len(q) = m /\ \A n \in 1..m : q[n] = M[a[n]]
  BY <1>1, <1>4, MapType
<1>8. b \in Seq(Packet) /\ Len(b) = m + 1 /\ b[m + 1] = x /\ \A n \in 1..m : b[n] = a[n]
  BY <1>2, <1>4, AppendProperties
<1>9. r \in Seq(T) /\ Len(r) = Len(b) /\ \A n \in 1..Len(b) : r[n] = N[b[n]]
  <2>1. b \in Seq(Packet)
    BY <1>8
  <2>2. /\ MapSeq(b, N) \in Seq(T) /\ Len(MapSeq(b, N)) = Len(b)
        /\ \A n \in 1..Len(b) : MapSeq(b, N)[n] = N[b[n]]
    BY <2>1, MapType
  <2> QED BY <1>3, <2>2
<1>10. PICK w : w = Append(q, y)
  OBVIOUS
<1>11. w \in Seq(T) /\ Len(w) = m + 1 /\ w[m + 1] = y /\ \A n \in 1..m : w[n] = q[n]
  BY <1>6, <1>7, <1>10, AppendProperties
<1>12. \A n \in 1..m : N[a[n]] = M[a[n]]
  BY <1>4 DEF Has, SameOn
<1>13. \A n \in 1..(m + 1) : n \in 1..m \/ n = m + 1
  BY <1>6
<1>14. \A n \in 1..(m + 1) : r[n] = w[n]
  BY <1>5, <1>7, <1>8, <1>9, <1>11, <1>12, <1>13
<1>15. r = w
  BY <1>8, <1>9, <1>11, <1>14, SeqEqual
<1> QED BY <1>1, <1>2, <1>3, <1>5, <1>10, <1>15

(* One page less is one message less. *)
LEMMA MapRemove ==
  ASSUME NEW T, NEW M \in [Packet -> T], NEW N \in [Packet -> T], NEW a \in Seq(Packet),
         NEW i \in 1..Len(a), SameOn(a, M, N)
  PROVE  MapSeq(RemoveAt(a, i), N) = RemoveAt(MapSeq(a, M), i)
<1>1. PICK q : q = MapSeq(a, M)
  OBVIOUS
<1>2. PICK b : b = RemoveAt(a, i)
  OBVIOUS
<1>3. PICK r : r = MapSeq(b, N)
  OBVIOUS
<1>4. PICK m : m = Len(a)
  OBVIOUS
<1>5. m \in Nat /\ i \in 1..m
  BY <1>4
<1>6. q \in Seq(T) /\ Len(q) = m /\ \A n \in 1..m : q[n] = M[a[n]]
  BY <1>1, <1>4, MapType
<1>7. /\ b \in Seq(Packet) /\ Len(b) = m - 1
      /\ \A n \in 1..(m - 1) : b[n] = IF n < i THEN a[n] ELSE a[n + 1]
  BY <1>2, <1>4, RemoveAtProperties
<1>8. r \in Seq(T) /\ Len(r) = Len(b) /\ \A n \in 1..Len(b) : r[n] = N[b[n]]
  BY <1>3, <1>7, MapType
<1>9. PICK w : w = RemoveAt(q, i)
  OBVIOUS
<1>10. i \in 1..Len(q)
  BY <1>5, <1>6
<1>11. /\ w \in Seq(T) /\ Len(w) = Len(q) - 1
       /\ \A n \in 1..(Len(q) - 1) : w[n] = IF n < i THEN q[n] ELSE q[n + 1]
  BY <1>6, <1>9, <1>10, RemoveAtProperties
<1>12. \A n \in 1..m : N[a[n]] = M[a[n]]
  BY <1>4 DEF Has, SameOn
<1>13. \A n \in 1..(m - 1) : n \in 1..m /\ n + 1 \in 1..m
  BY <1>5
<1>14. \A n \in 1..(m - 1) : r[n] = w[n]
  <2> SUFFICES ASSUME NEW n \in 1..(m - 1) PROVE r[n] = w[n]
    OBVIOUS
  <2>1. n \in 1..m /\ n + 1 \in 1..m
    BY <1>13
  <2>2. n \in 1..Len(b) /\ n \in 1..(Len(q) - 1)
    BY <1>5, <1>6, <1>7
  <2>3. r[n] = N[b[n]]
    BY <1>8, <2>2
  <2>4. CASE n < i
    <3>1. b[n] = a[n]
      BY <1>7, <2>4
    <3>2. w[n] = q[n]
      BY <1>11, <2>2, <2>4
    <3>3. q[n] = M[a[n]] /\ N[a[n]] = M[a[n]]
      BY <1>6, <1>12, <2>1
    <3> QED BY <2>3, <3>1, <3>2, <3>3, Zenon
  <2>5. CASE ~(n < i)
    <3>1. b[n] = a[n + 1]
      BY <1>7, <2>5
    <3>2. w[n] = q[n + 1]
      BY <1>11, <2>2, <2>5
    <3>3. q[n + 1] = M[a[n + 1]] /\ N[a[n + 1]] = M[a[n + 1]]
      BY <1>6, <1>12, <2>1
    <3> QED BY <2>3, <3>1, <3>2, <3>3, Zenon
  <2> QED BY <2>4, <2>5
<1>15. r = w
  BY <1>6, <1>7, <1>8, <1>11, <1>14, SeqEqual
<1> QED BY <1>1, <1>2, <1>3, <1>9, <1>15

(* The queue in these words, in a state and in the next one. *)
LEMMA QueueIs ==
  /\ arrived \in Seq(Packet) =>
       [n \in 1..Len(arrived) |-> MessageOf(arrived[n])] = MapSeq(arrived, Messages)
  /\ arrived' \in Seq(Packet) =>
       [n \in 1..Len(arrived) |-> MessageOf(arrived[n])]' = MapSeq(arrived', Messages')
<1>1. ASSUME arrived \in Seq(Packet)
      PROVE  [n \in 1..Len(arrived) |-> MessageOf(arrived[n])] = MapSeq(arrived, Messages)
  <2>1. \A n \in 1..Len(arrived) : arrived[n] \in Packet
    BY <1>1
  <2>2. \A p \in Packet : Messages[p] = MessageOf(p)
    BY DEF Messages
  <2> QED BY <2>1, <2>2 DEF MapSeq
<1>2. ASSUME arrived' \in Seq(Packet)
      PROVE  [n \in 1..Len(arrived) |-> MessageOf(arrived[n])]' = MapSeq(arrived', Messages')
  <2>1. \A n \in 1..Len(arrived') : arrived'[n] \in Packet
    BY <1>2
  <2>2. \A p \in Packet : Messages'[p] = MessageOf(p)'
    BY DEF Messages
  <2> QED BY <2>1, <2>2 DEF MapSeq
<1> QED BY <1>1, <1>2

(* Messages are contents and lengths. *)
LEMMA LengthType ==
  ASSUME NEW S \in SUBSET Slot, NEW n \in Length, NEW a \in [Slot -> Length]
  PROVE  LengthAt(S, n, a) \in Length
<1>1. CASE S = {}
  BY <1>1 DEF LengthAt
<1>2. CASE S # {}
  <2>1. PICK i : i = CHOOSE j \in S : TRUE
    OBVIOUS
  <2>2. i \in Slot
    BY <1>2, <2>1
  <2>3. LengthAt(S, n, a) = a[i]
    BY <1>2, <2>1 DEF LengthAt
  <2> QED BY <2>2, <2>3
<1> QED BY <1>1, <1>2

(* In a state and in the next one. *)
LEMMA MessagesType ==
  /\ TypeOK => Messages \in [Packet -> Content \X Length]
  /\ TypeOK' => Messages' \in [Packet -> Content \X Length]
<1>1. ASSUME TypeOK, NEW p \in Packet PROVE MessageOf(p) \in Content \X Length
  <2>1. contents[p] \in Content /\ packet_length[p] \in Length /\ dma_len \in [Slot -> Length]
    BY <1>1 DEF TypeOK
  <2>2. InSlot(p) \in SUBSET Slot
    BY DEF InSlot
  <2>3. LengthAt(InSlot(p), packet_length[p], dma_len) \in Length
    BY <2>1, <2>2, LengthType
  <2> QED BY <2>1, <2>3, MessageIs
<1>2. ASSUME TypeOK', NEW p \in Packet PROVE MessageOf(p)' \in Content \X Length
  <2>1. /\ contents'[p] \in Content /\ packet_length'[p] \in Length
        /\ dma_len' \in [Slot -> Length]
    BY <1>2 DEF TypeOK
  <2>2. InSlot(p)' \in SUBSET Slot
    BY DEF InSlot
  <2>3. LengthAt(InSlot(p)', packet_length'[p], dma_len') \in Length
    BY <2>1, <2>2, LengthType
  <2> QED BY <2>1, <2>3, MessageIs
<1> QED BY <1>1, <1>2 DEF Messages

-----------------------------------------------------------------------------
(* What a page in the hand of core 2 is counted and checked with.          *)
QueueInv == TypeInv /\ RingBounded /\ Owned /\ ArrivedOK /\ HashOK

(* Every step of the history is a step of the pipeline. *)
LEMMA HistorySteps ==
  ASSUME [HistoryNext]_ArrivedVars
  PROVE  /\ [Next]_vars
         /\ \/ \E f \in Frame : Receive(f) /\ arrived' = Append(arrived, dma_base[HeadSlot])
            \/ CheckPacket /\ arrived' = RemoveAt(arrived, Position(hand[Checker]))
            \/ /\ arrived' = arrived
               /\ \/ PollerStep
                  \/ \E c \in Hasher : HasherStep(c)
                  \/ PollCheck \/ CountPacket \/ Recycle
                  \/ UNCHANGED vars
BY DEF HistoryNext, ArrivedVars, Accepting, Next, CheckerStep

(* The line, the hashes and the rest together are inductive. *)
LEMMA QueueInvStep == QueueInv /\ [HistoryNext]_ArrivedVars => QueueInv'
<1> SUFFICES ASSUME QueueInv, [HistoryNext]_ArrivedVars PROVE QueueInv'
  OBVIOUS
<1>1. TypeInv /\ RingBounded /\ Owned /\ ArrivedOK /\ HashOK /\ [Next]_vars
  BY HistorySteps DEF QueueInv
<1>2. TypeInv' /\ RingBounded' /\ Owned' /\ HashOK'
  BY <1>1, TypeStep, RingStep, OwnedStep, HashStep
<1>3. ASSUME NEW f \in Frame, Receive(f), arrived' = Append(arrived, dma_base[HeadSlot])
      PROVE  ArrivedOK'
  BY <1>1, <1>2, <1>3, ReceiveArrived
<1>4. ASSUME CheckPacket, arrived' = RemoveAt(arrived, Position(hand[Checker]))
      PROVE  ArrivedOK'
  BY <1>1, <1>4, CheckPacketArrived
<1>5. ASSUME arrived' = arrived, PollerStep PROVE ArrivedOK'
  BY <1>1, <1>5, StillArrived, EnqueueFrameArrived, ArmArrived, AdvanceArrived DEF PollerStep
<1>6. ASSUME arrived' = arrived, NEW c \in Hasher, HasherStep(c) PROVE ArrivedOK'
  BY <1>1, <1>6, StillArrived, PollHashingArrived, EnqueueCheckArrived DEF HasherStep
<1>7. ASSUME arrived' = arrived, PollCheck \/ CountPacket \/ Recycle \/ UNCHANGED vars
      PROVE  ArrivedOK'
  BY <1>1, <1>7, StillArrived, PollCheckArrived
<1>8. ArrivedOK'
  BY <1>3, <1>4, <1>5, <1>6, <1>7, HistorySteps
<1> QED BY <1>2, <1>8 DEF QueueInv

(* A step other than the check and the count leaves what the queue counts. *)
LEMMA CountingKept ==
  ASSUME TypeInv, Owned,
         \/ \E f \in Frame : Receive(f)
         \/ PollerStep
         \/ \E c \in Hasher : HasherStep(c)
         \/ PollCheck \/ Recycle \/ UNCHANGED vars
  PROVE  Counting' = Counting /\ tables' = tables /\ stats' = stats
<1>1. TypeOK /\ HandsOK /\ InOnePlace
  BY DEF TypeInv, Owned, ExclusiveOwner
<1> USE CoresAndSlots
<1>2. CASE (\E f \in Frame : Receive(f)) \/ UNCHANGED vars
  <2>1. /\ pc' = pc /\ hand' = hand /\ packet_length' = packet_length /\ factVars' = factVars
    BY <1>2 DEF Receive, vars, dataVars
  <2> QED BY <2>1 DEF Counting, factVars
<1>3. CASE TakeFrame
  <2>1. PICK x : x = dma_base[TailSlot]
    OBVIOUS
  <2>2. /\ factVars' = factVars /\ hand' = [hand EXCEPT ![Poller] = x]
        /\ packet_length' = [packet_length EXCEPT ![x] = dma_len[TailSlot]]
        /\ pc[Poller] = "poll_ring" /\ pc' = [pc EXCEPT ![Poller] = "enqueue"]
    BY <1>3, <2>1 DEF TakeFrame, Goto
  <2>3. pc'[Checker] = pc[Checker] /\ hand'[Checker] = hand[Checker]
    BY <1>1, <2>2 DEF TypeOK
  <2>4. TailSlot \in ArmedSlots
    <3>1. TailSlot \in Slot
      BY <1>1, SMT DEF TypeOK, TailSlot
    <3> QED BY <2>2, <3>1 DEF ArmedSlots
  <2>5. x \in Packet /\ InRing(x)
    BY <1>1, <2>1, <2>4 DEF ArmedSlots, TypeOK, InRing
  <2>6. hand[Checker] # x
    BY <1>1, <2>5 DEF InOnePlace, InHand
  <2>7. pc[Checker] = "count" => packet_length'[hand[Checker]] = packet_length[hand[Checker]]
    <3>1. pc[Checker] = "count" => hand[Checker] \in Packet
      BY <1>1 DEF HandsOK, TypeOK
    <3> QED BY <1>1, <2>2, <2>6, <3>1 DEF TypeOK
  <2> QED BY <2>2, <2>3, <2>7 DEF Counting, factVars
<1>4. CASE EnqueueFrame \/ Refill \/ Arm \/ Advance
  <2>1. /\ factVars' = factVars /\ packet_length' = packet_length
        /\ pc'[Checker] = pc[Checker] /\ hand'[Checker] = hand[Checker]
    BY <1>4, <1>1 DEF EnqueueFrame, Refill, Arm, Advance, Goto, AppendList, Poll, dataVars, TypeOK
  <2> QED BY <2>1 DEF Counting, factVars
<1>5. ASSUME NEW c \in Hasher, HasherStep(c)
      PROVE  Counting' = Counting /\ tables' = tables /\ stats' = stats
  <2>1. /\ factVars' = factVars /\ packet_length' = packet_length
        /\ pc'[Checker] = pc[Checker] /\ hand'[Checker] = hand[Checker]
    BY <1>5, <1>1
       DEF HasherStep, PollHashing, Hash, EnqueueCheck, Goto, AppendList, Poll, dataVars, TypeOK
  <2> QED BY <2>1 DEF Counting, factVars
<1>6. CASE PollCheck \/ Recycle
  <2>1. factVars' = factVars /\ pc[Checker] # "count" /\ pc'[Checker] # "count"
    BY <1>6, <1>1 DEF PollCheck, Recycle, Goto, TypeOK
  <2> QED BY <2>1 DEF Counting, factVars
<1> QED BY <1>2, <1>3, <1>4, <1>5, <1>6 DEF PollerStep

(* Every step of the pipeline is a step of the queue, or none. *)
LEMMA QueueStep ==
  QueueInv /\ QueueInv' /\ [HistoryNext]_ArrivedVars => [Queue!Next]_(Queue!vars)
<1> SUFFICES ASSUME QueueInv, QueueInv', [HistoryNext]_ArrivedVars
             PROVE  [Queue!Next]_(Queue!vars)
  OBVIOUS
<1>1. /\ TypeInv /\ RingBounded /\ Owned /\ ArrivedOK /\ HashOK /\ [Next]_vars
      /\ TypeInv' /\ Owned' /\ ArrivedOK'
  BY HistorySteps DEF QueueInv
<1>2. TypeOK /\ TypeOK' /\ HandsOK /\ InOnePlace /\ InOneSlot'
  BY <1>1 DEF TypeInv, Owned, ExclusiveOwner
<1>3. PICK a : a = arrived
  OBVIOUS
<1>4. PICK b : b = arrived'
  OBVIOUS
<1>5. a \in Seq(Packet) /\ b \in Seq(Packet)
  BY <1>1, <1>3, <1>4 DEF ArrivedOK, InOrder
<1>6. PICK M : M = Messages
  OBVIOUS
<1>7. PICK N : N = Messages'
  OBVIOUS
<1>8. PICK T : T = Content \X Length
  OBVIOUS
<1>9. M \in [Packet -> T] /\ N \in [Packet -> T]
  BY <1>2, <1>6, <1>7, <1>8, MessagesType
<1>10. SameOn(a, M, N)
  <2> SUFFICES ASSUME NEW p, Has(a, p) PROVE N[p] = M[p]
    BY DEF SameOn
  <2>1. p \in Packet
    BY <1>5 DEF Has
  <2>2. MessageOf(p)' = MessageOf(p)
    BY <1>1, <1>3, MessageKept
  <2> QED BY <1>6, <1>7, <2>1, <2>2 DEF Messages
<1>11. PICK q : q = MapSeq(a, M)
  OBVIOUS
<1>12. PICK r : r = MapSeq(b, N)
  OBVIOUS
<1>13. /\ [n \in 1..Len(arrived) |-> MessageOf(arrived[n])] = q
       /\ [n \in 1..Len(arrived) |-> MessageOf(arrived[n])]' = r
  BY <1>3, <1>4, <1>5, <1>6, <1>7, <1>11, <1>12, QueueIs
<1>14. ASSUME NEW f \in Frame, Receive(f), arrived' = Append(arrived, dma_base[HeadSlot])
       PROVE  Queue!Next
  <2>1. PICK x : x = dma_base[HeadSlot]
    OBVIOUS
  <2>2. x \in Packet
    BY <1>1, <1>14, <2>1, HeadFresh DEF Receive, ArrivedOK
  <2>3. r = Append(q, N[x])
    <3>1. b = Append(a, x)
      BY <1>3, <1>4, <1>14, <2>1
    <3>2. MapSeq(Append(a, x), N) = Append(MapSeq(a, M), N[x])
      BY <1>5, <1>9, <1>10, <2>2, MapAppend
    <3> QED BY <1>11, <1>12, <3>1, <3>2
  <2>4. N[x] \in Content \X Length
    BY <1>8, <1>9, <2>2
  <2>5. Counting' = Counting /\ tables' = tables /\ stats' = stats
    BY <1>1, <1>14, CountingKept
  <2>6. PICK m : m = N[x]
    OBVIOUS
  <2>7. Queue!Accept(m)
    BY <1>13, <2>3, <2>5, <2>6 DEF Queue!Accept
  <2> QED BY <2>4, <2>6, <2>7 DEF Queue!Next, Queue!Message
<1>15. ASSUME CheckPacket, arrived' = RemoveAt(arrived, Position(hand[Checker]))
       PROVE  Queue!Next
  <2>1. PICK x : x = hand[Checker]
    OBVIOUS
  <2>2. PICK i : i = Position(x)
    OBVIOUS
  <2>3. i \in 1..Len(a) /\ i <= Cardinality(Hasher) /\ a[i] = x
    BY <1>1, <1>3, <1>15, <2>1, <2>2, CheckPacketArrived
  <2>4. pc[Checker] = "check" /\ x \in Packet
    BY <1>2, <1>15, <2>1, CoresAndSlots DEF CheckPacket, Goto, HandsOK, TypeOK
  <2>5. r = RemoveAt(q, i)
    <3>1. b = RemoveAt(a, i)
      BY <1>3, <1>4, <1>15, <2>1, <2>2
    <3>2. i \in 1..Len(a)
      BY <2>3
    <3>3. MapSeq(RemoveAt(a, i), N) = RemoveAt(MapSeq(a, M), i)
      <4>1. /\ M \in [Packet -> T] /\ N \in [Packet -> T]
            /\ a \in Seq(Packet) /\ i \in 1..Len(a) /\ SameOn(a, M, N)
        BY <1>5, <1>9, <1>10, <3>2
      <4> QED BY <4>1, MapRemove
    <3> QED BY <1>11, <1>12, <3>1, <3>3
  <2>6. Len(q) = Len(a) /\ q[i] = M[x]
    BY <1>5, <1>9, <1>11, <2>3, MapType
  <2>7. M[x] = <<contents[x], packet_length[x]>>
    <3>1. InHand(x)
      BY <2>1, CoresAndSlots DEF InHand
    <3>2. InSlot(x) = {}
      BY <1>1, <2>4, <3>1, SlotsOfPage
    <3>3. LengthAt(InSlot(x), packet_length[x], dma_len) = packet_length[x]
      BY <3>2, OneLength
    <3> QED BY <1>6, <2>4, <3>3, MessageIs DEF Messages
  <2>8. hash[x] = Djb2(contents[x], packet_length[x])
    BY <1>1, <2>1, <2>4 DEF HashOK, HashedPage
  <2>9. PICK v : v = Classify(Execute(tables, contents[x]), contents[x], hash[x])
    OBVIOUS
  <2>10. /\ tables' = v.tables /\ code' = v.code /\ stats' = stats /\ hand' = hand
         /\ packet_length' = packet_length /\ pc' = [pc EXCEPT ![Checker] = "count"]
    BY <1>15, <2>1, <2>9 DEF CheckPacket, Goto, dataVars
  <2>11. Counting = <<>> /\ Counting' = <<packet_length[x], v.code>>
    <3>1. pc'[Checker] = "count"
      BY <1>2, <2>10, CoresAndSlots DEF TypeOK
    <3> QED BY <2>1, <2>4, <2>10, <3>1 DEF Counting
  <2>12. q[i][1] = contents[x] /\ q[i][2] = packet_length[x]
    BY <2>6, <2>7
  <2>13. Queue!Verdict(tables, q[i]) = v
    BY <2>8, <2>9, <2>12 DEF Queue!Verdict
  <2>14. Queue!Check(i)
    BY <1>13, <2>5, <2>10, <2>11, <2>12, <2>13 DEF Queue!Check, Queue!RemoveAt, RemoveAt
  <2> QED BY <1>13, <2>3, <2>6, <2>14 DEF Queue!Next
<1>16. ASSUME arrived' = arrived PROVE q = r
  <2>1. a = b
    BY <1>3, <1>4, <1>16
  <2> QED BY <1>10, <1>11, <1>12, <2>1, MapSame
<1>17. ASSUME CountPacket, arrived' = arrived PROVE Queue!Next
  <2>1. PICK x : x = hand[Checker]
    OBVIOUS
  <2>2. /\ pc[Checker] = "count" /\ pc' = [pc EXCEPT ![Checker] = "recycle"]
        /\ stats' = UpdateStats(stats, packet_length[x], code) /\ tables' = tables
    BY <1>17, <2>1 DEF CountPacket, Goto
  <2>3. pc'[Checker] = "recycle"
    BY <1>2, <2>2, CoresAndSlots DEF TypeOK
  <2>4. Counting = <<packet_length[x], code>> /\ Counting' = <<>>
    BY <2>1, <2>2, <2>3 DEF Counting
  <2>5. Queue!Count
    BY <1>13, <1>16, <1>17, <2>2, <2>4 DEF Queue!Count
  <2> QED BY <2>5 DEF Queue!Next
<1>18. ASSUME arrived' = arrived,
              \/ PollerStep
              \/ \E c \in Hasher : HasherStep(c)
              \/ PollCheck \/ Recycle \/ UNCHANGED vars
       PROVE  UNCHANGED Queue!vars
  <2>1. Counting' = Counting /\ tables' = tables /\ stats' = stats
    BY <1>1, <1>18, CountingKept
  <2> QED BY <1>13, <1>16, <1>18, <2>1 DEF Queue!vars
<1> QED BY <1>14, <1>15, <1>17, <1>18, HistorySteps

(* The pipeline executes, checks and counts every frame the device has     *)
(* accepted exactly once, with the hash of its own bytes, and as one of    *)
(* the oldest, as many as there are hashing cores: for any number of       *)
(* pages, slots and cores.                                                 *)
THEOREM PipelineIsQueue == HistorySpec => ImplementsQueue
<1>1. HistoryInit => QueueInv
  BY TypeInit, RingInit, OwnedInit, ArrivedInit, HashInit DEF HistoryInit, QueueInv
<1>2. HistoryInit => Queue!Init
  <2> SUFFICES ASSUME HistoryInit PROVE Queue!Init
    OBVIOUS
  <2>1. Init /\ arrived = <<>>
    BY DEF HistoryInit
  <2>2. tables \in Tables /\ stats \in Statistics /\ pc[Checker] = "poll_check"
    BY <2>1, CoresAndSlots DEF Init
  <2>3. Counting = <<>>
    BY <2>2 DEF Counting
  <2>4. [n \in 1..Len(arrived) |-> MessageOf(arrived[n])] = <<>>
    BY <2>1
  <2> QED BY <2>2, <2>3, <2>4 DEF Queue!Init
<1> QED
  BY <1>1, <1>2, QueueInvStep, QueueStep, PTL DEF HistorySpec, ImplementsQueue, Queue!Spec
=============================================================================
