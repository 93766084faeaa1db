----------------------------- MODULE PacketList -----------------------------
(***************************************************************************)
(* list.c and lock.c: one linked list of packets shared by several cores.  *)
(*                                                                         *)
(* A call is cut into the steps of its lock word, of the test of the       *)
(* length, of the links, and of the count; the spin lock is what has to    *)
(* keep them together.  The loads and stores of one such group, which only *)
(* the core that holds the lock makes, are one step.  A core outside the list code may call            *)
(* append_list() with the packet it holds, or poll() when it holds none,   *)
(* which is how the stages of the pipeline use a list.                     *)
(*                                                                         *)
(* A definition marked "Deviation" is no part of the specification: it is  *)
(* the one that follows it with a mistake, which a property has to catch.  *)
(***************************************************************************)
EXTENDS Integers, Sequences, FiniteSets, Functions

CONSTANTS
  Core,      \* the cores that use the list
  Packet,    \* the packet_info pages
  NoPacket   \* NULL, or a pointer nothing was stored in yet

ASSUME PacketListAssumption ==
  /\ IsFiniteSet(Packet)
  /\ NoPacket \notin Packet

VARIABLES
  lock,      \* list->lock
  length,    \* list->length
  head,      \* list->head
  tail,      \* list->tail
  next,      \* next[p]: p->next
  prev,      \* prev[p]: p->prev
  pc,        \* pc[c]: the next statement of core c
  hand       \* hand[c]: the packet argument of append_list() until the list
             \* counts it, and the packet poll() is about to return

vars == <<lock, length, head, tail, next, prev, pc, hand>>

Pointer == Packet \cup {NoPacket}

(* p->next, for any value the pointer p may have. *)
Follow(p) == IF p \in Packet THEN next[p] ELSE NoPacket

(* The two critical sections: the labels at which a core holds the lock. *)
AppendHolds == {"append_link", "append_count", "append_unlock"}
PollHolds   == {"poll_test", "poll_take", "poll_count", "poll_unlock", "poll_retry"}
Holds       == AppendHolds \cup PollHolds
Label       == Holds \cup {"out", "append_lock", "poll_lock", "poll_wait"}

-----------------------------------------------------------------------------
(* The list as garbage_list_alloc() leaves it: the page allocated last is  *)
(* the head, next leads to the page allocated before, prev to the one      *)
(* after.  A core may already hold a packet that is not on the list.       *)
Linked(s) ==
  /\ length = Len(s)
  /\ head = IF s = <<>> THEN NoPacket ELSE s[1]
  /\ tail = IF s = <<>> THEN NoPacket ELSE s[Len(s)]
  /\ next = [p \in Packet |-> IF \E i \in 1..(Len(s) - 1) : s[i] = p
                              THEN s[1 + CHOOSE i \in 1..(Len(s) - 1) : s[i] = p]
                              ELSE NoPacket]
  /\ prev = [p \in Packet |-> IF \E i \in 2..Len(s) : s[i] = p
                              THEN s[(CHOOSE i \in 2..Len(s) : s[i] = p) - 1]
                              ELSE NoPacket]

Arrangements == UNION {Injection(1..n, Packet) : n \in 0..Cardinality(Packet)}

Init ==
  /\ \E s \in Arrangements :
       /\ Linked(s)
       /\ hand \in [Core -> {NoPacket} \cup {p \in Packet : \A i \in 1..Len(s) : s[i] # p}]
  /\ \A c, d \in Core : hand[c] = hand[d] /\ c # d => hand[c] = NoPacket
  /\ lock = 0
  /\ pc = [c \in Core |-> "out"]

-----------------------------------------------------------------------------
Goto(c, from, to) ==
  /\ pc[c] = from
  /\ pc' = [pc EXCEPT ![c] = to]

(* Deviation: the lock word is stored without looking at it. *)
SpinLockBlindly == lock' = 1

(* spin_lock(&list->lock): the store conditional that succeeds. *)
SpinLock == lock = 0 /\ lock' = 1

(* unlock(&list->lock) *)
Unlock == lock' = 0

(* append_list(list, packet) *)
AppendCall(c) ==
  /\ hand[c] # NoPacket
  /\ Goto(c, "out", "append_lock")
  /\ UNCHANGED <<lock, length, head, tail, next, prev, hand>>

AppendLock(c) ==
  /\ Goto(c, "append_lock", "append_link")
  /\ SpinLock
  /\ UNCHANGED <<length, head, tail, next, prev, hand>>

(* Deviation: the list is empty when it has no head, as if poll() reset it. *)
AppendLinkByHead(c) ==
  LET packet == hand[c] IN
  /\ Goto(c, "append_link", "append_count")
  /\ IF head = NoPacket
     THEN /\ head' = packet
          /\ UNCHANGED <<next, prev>>
     ELSE /\ next' = [next EXCEPT ![tail] = packet]
          /\ prev' = [prev EXCEPT ![packet] = tail]
          /\ UNCHANGED head
  /\ tail' = packet
  /\ UNCHANGED <<lock, length, hand>>

(* Deviation: the packet is linked in before the head. *)
AppendLinkFirst(c) ==
  LET packet == hand[c] IN
  /\ Goto(c, "append_link", "append_count")
  /\ IF length = 0
     THEN /\ tail' = packet
          /\ UNCHANGED <<next, prev>>
     ELSE /\ next' = [next EXCEPT ![packet] = head]
          /\ prev' = [prev EXCEPT ![head] = packet]
          /\ UNCHANGED tail
  /\ head' = packet
  /\ UNCHANGED <<lock, length, hand>>

AppendLink(c) ==
  LET packet == hand[c] IN
  /\ Goto(c, "append_link", "append_count")
  /\ IF length = 0
     THEN /\ head' = packet
          /\ UNCHANGED <<next, prev>>
     ELSE /\ next' = [next EXCEPT ![tail] = packet]
          /\ prev' = [prev EXCEPT ![packet] = tail]
          /\ UNCHANGED head
  /\ tail' = packet
  /\ UNCHANGED <<lock, length, hand>>

AppendCount(c) ==
  /\ Goto(c, "append_count", "append_unlock")
  /\ length' = length + 1
  /\ hand' = [hand EXCEPT ![c] = NoPacket]
  /\ UNCHANGED <<lock, head, tail, next, prev>>

AppendUnlock(c) ==
  /\ Goto(c, "append_unlock", "out")
  /\ Unlock
  /\ UNCHANGED <<length, head, tail, next, prev, hand>>

-----------------------------------------------------------------------------
(* poll(list): an empty list is unlocked, left alone for 0x1000 cycles and *)
(* tried again.                                                            *)
PollCall(c) ==
  /\ hand[c] = NoPacket
  /\ Goto(c, "out", "poll_lock")
  /\ UNCHANGED <<lock, length, head, tail, next, prev, hand>>

PollLock(c) ==
  /\ Goto(c, "poll_lock", "poll_test")
  /\ SpinLock
  /\ UNCHANGED <<length, head, tail, next, prev, hand>>

(* Deviation: the head is taken off the list whether there is one or not. *)
PollTestBlindly(c) ==
  /\ Goto(c, "poll_test", "poll_take")
  /\ UNCHANGED <<lock, length, head, tail, next, prev, hand>>

(* Deviation: the test of the length is inverted, as it is in get(). *)
PollTestInverted(c) ==
  /\ Goto(c, "poll_test", IF length # 0 THEN "poll_retry" ELSE "poll_take")
  /\ UNCHANGED <<lock, length, head, tail, next, prev, hand>>

PollTest(c) ==
  /\ Goto(c, "poll_test", IF length # 0 THEN "poll_take" ELSE "poll_retry")
  /\ UNCHANGED <<lock, length, head, tail, next, prev, hand>>

(* Deviation: a core that found the list empty waits with the lock held. *)
PollRetryLocked(c) ==
  /\ Goto(c, "poll_retry", "poll_wait")
  /\ UNCHANGED <<lock, length, head, tail, next, prev, hand>>

PollRetry(c) ==
  /\ Goto(c, "poll_retry", "poll_wait")
  /\ Unlock
  /\ UNCHANGED <<length, head, tail, next, prev, hand>>

PollWait(c) ==
  /\ Goto(c, "poll_wait", "poll_lock")
  /\ UNCHANGED <<lock, length, head, tail, next, prev, hand>>

PollTake(c) ==
  /\ Goto(c, "poll_take", "poll_count")
  /\ hand' = [hand EXCEPT ![c] = head]
  /\ head' = Follow(head)
  /\ UNCHANGED <<lock, length, tail, next, prev>>

PollCount(c) ==
  /\ Goto(c, "poll_count", "poll_unlock")
  /\ length' = length - 1
  /\ UNCHANGED <<lock, head, tail, next, prev, hand>>

PollUnlock(c) ==
  /\ Goto(c, "poll_unlock", "out")
  /\ Unlock
  /\ UNCHANGED <<length, head, tail, next, prev, hand>>

-----------------------------------------------------------------------------
(* Between a poll() and the append_list() that brings a packet back it is  *)
(* on other lists, whose appends store into its links.                     *)
OtherList(c) ==
  /\ pc[c] = "out"
  /\ hand[c] # NoPacket
  /\ \E p, q \in Packet :
       /\ next' = [next EXCEPT ![hand[c]] = p]
       /\ prev' = [prev EXCEPT ![hand[c]] = q]
  /\ UNCHANGED <<lock, length, head, tail, pc, hand>>

-----------------------------------------------------------------------------
AppendStep(c) ==
  AppendLock(c) \/ AppendLink(c) \/ AppendCount(c) \/ AppendUnlock(c)

PollStep(c) ==
  \/ PollLock(c) \/ PollTest(c) \/ PollRetry(c) \/ PollWait(c)
  \/ PollTake(c) \/ PollCount(c) \/ PollUnlock(c)

Next ==
  \E c \in Core :
    AppendCall(c) \/ AppendStep(c) \/ PollCall(c) \/ PollStep(c) \/ OtherList(c)

Spec == Init /\ [][Next]_vars

(* A running core executes its next instruction.  An acquisition needs     *)
(* strong fairness: the lock is free again and again, and the 0x1000       *)
(* cycles a core waits after it found the list empty leave it free for far *)
(* longer than the three instructions of a spinning core take.             *)
Fairness ==
  \A c \in Core :
    /\ WF_vars(AppendStep(c) \/ PollStep(c))
    /\ SF_vars(AppendLock(c) \/ PollLock(c))

FairSpec == Spec /\ Fairness

-----------------------------------------------------------------------------
(* Every variable has its type. *)
TypeOK ==
  /\ lock \in {0, 1}
  /\ length \in Nat
  /\ head \in Pointer
  /\ tail \in Pointer
  /\ next \in [Packet -> Pointer]
  /\ prev \in [Packet -> Pointer]
  /\ pc \in [Core -> Label]
  /\ hand \in [Core -> Pointer]

(* "Only one thread should be able to read or modify the list at once"     *)
(* (designdoc.tex): between spin_lock() and unlock() of list.c there is at *)
(* most one core, and the lock word says so.                               *)
MutualExclusion ==
  /\ \A c, d \in Core : pc[c] \in Holds /\ pc[d] \in Holds => c = d
  /\ lock = 1 <=> \E c \in Core : pc[c] \in Holds

(* The nodes that follow the head links, of a list in the middle of an     *)
(* update too: a node append_list() has linked but not counted is on it, a *)
(* node poll() has unlinked but not discounted is not.                     *)
Linking   == \E c \in Core : pc[c] = "append_count"
Unlinking == \E c \in Core : pc[c] = "poll_count"
NodeCount ==
  length + (IF Linking THEN 1 ELSE 0) - (IF Unlinking THEN 1 ELSE 0)

Chain(s) ==
  /\ Len(s) = NodeCount
  /\ IsInjective(s)
  /\ Len(s) > 0 => head = s[1] /\ tail = s[Len(s)]
  /\ \A i \in 1..(Len(s) - 1) : next[s[i]] = s[i + 1] /\ prev[s[i + 1]] = s[i]

(* A packet of the list is in no other hand: the hand that still names it  *)
(* is that of the append_list() call that has linked it.                   *)
HandsOff(s) ==
  /\ \A c \in Core, i \in 1..Len(s) :
       hand[c] = s[i] => pc[c] = "append_count" /\ i = Len(s)
  /\ \A c, d \in Core : hand[c] = hand[d] /\ c # d => hand[c] = NoPacket

(* At every instant the head, the tail, the length and both links of the   *)
(* nodes describe one duplicate-free sequence of packets, whatever stale   *)
(* next and prev pointers the packets carry from other lists, and no core  *)
(* holds a packet of it.                                                   *)
WellLinked == \E s \in Arrangements : Chain(s) /\ HandsOff(s)

(* list.c implements the queue of list.h: an append takes effect when the  *)
(* length counts it, a poll when the head leaves its packet behind.        *)
Queue ==
  LET s == CHOOSE s \in Arrangements : Chain(s)
  IN  IF Linking THEN SubSeq(s, 1, Len(s) - 1) ELSE s

Fifo == INSTANCE PacketFifo WITH queue <- Queue

ImplementsFifo == Fifo!Spec

(* A caller of append_list() gets the packet onto the list and returns, and *)
(* a poll() that waits while the list stays non-empty returns: it never     *)
(* sleeps through a packet nobody else takes.                               *)
CallsReturn ==
  \A c \in Core :
    /\ pc[c] = "append_lock" ~> pc[c] = "out"
    /\ pc[c] = "poll_lock" ~> (pc[c] = "poll_unlock" \/ length = 0)
=============================================================================
