------------------------------ MODULE Pipeline ------------------------------
(***************************************************************************)
(* network.c and pipeline.c: the packet pipeline after boot.               *)
(*                                                                         *)
(* The device fills ring slots at rx_head; core 1 takes them at rx_tail,   *)
(* hands each packet to the hashing list and puts a garbage packet in its  *)
(* slot; cores 3.. hash packets; core 2 executes, checks and counts them   *)
(* and recycles their pages.  A packet page is moved around, never copied: *)
(* whoever may read or write it is decided by where it is.                 *)
(*                                                                         *)
(* append_list() and poll() are single steps here, which PacketList shows  *)
(* them to be.  The tables and the statistics are parameters: the code of  *)
(* hashtable.c and stats.c is modelled in modules of its own.              *)
(*                                                                         *)
(* A definition marked "Deviation" is no part of the specification: it is  *)
(* the one that follows it with a mistake, which a property has to catch.  *)
(***************************************************************************)
EXTENDS Integers, Sequences, FiniteSets, Functions

CONSTANTS
  Packet,           \* the packet_info pages (MAX_PACKETS of them)
  NoPacket,         \* the hand of a core that holds no packet
  Poller,           \* core 1
  Checker,          \* core 2
  Hasher,           \* the cores from 3 on
  RING_SIZE,        \* the slots of the receive ring
  NET_MAXPKT,       \* the length of an empty buffer
  WORD,             \* rx_head and rx_tail count modulo WORD (2^32)
  Frame,            \* the frames on the network
  FrameLength(_),   \* the length of a frame
  Content,          \* the contents of a packet buffer
  Received(_, _),   \* a content after a frame was written over its beginning
  HashValue,        \* the hashes of packets
  Djb2(_, _),       \* djb2 of the first bytes of a content
  Tables,           \* the states of the three hash tables
  Execute(_, _),    \* the tables after the command of a content, if it has one
  Classify(_, _, _),\* the code of a content, and the tables with its counts
  Statistics,       \* the states of the global statistics
  UpdateStats(_, _, _) \* the statistics after a packet of a length and a code

Core   == {Poller, Checker} \cup Hasher
Slot   == 0..(RING_SIZE - 1)
Length == {NET_MAXPKT} \cup {FrameLength(f) : f \in Frame}
Code   == 0..7

ASSUME RingAssumption ==
  /\ RING_SIZE \in Nat \ {0}
  /\ WORD \in Nat
  /\ WORD % RING_SIZE = 0
  /\ WORD >= 2 * RING_SIZE

ASSUME PacketAssumption ==
  /\ IsFiniteSet(Packet)
  /\ NoPacket \notin Packet
  /\ Cardinality(Packet) >= RING_SIZE

ASSUME CoreAssumption ==
  /\ Poller # Checker
  /\ Hasher \cap {Poller, Checker} = {}
  /\ IsFiniteSet(Hasher) /\ Hasher # {}

ASSUME DataAssumption ==
  /\ NET_MAXPKT \in Nat
  /\ \A f \in Frame : FrameLength(f) \in Nat
  /\ \A x \in Content, f \in Frame : Received(x, f) \in Content
  /\ \A x \in Content, n \in Length : Djb2(x, n) \in HashValue
  /\ \A t \in Tables, x \in Content : Execute(t, x) \in Tables
  /\ \A t \in Tables, x \in Content, h \in HashValue :
       Classify(t, x, h) \in [tables : Tables, code : Code]
  /\ \A s \in Statistics, n \in Length, e \in Code : UpdateStats(s, n, e) \in Statistics

VARIABLES
  list,           \* list[l]: the packets of list l, the head first
  dma_base,       \* dma_base[i]: the packet whose buffer slot i points to
  dma_len,        \* dma_len[i]: the length in slot i
  rx_head,        \* the device's index
  rx_tail,        \* the driver's index
  contents,       \* contents[p]: the bytes from packet_start on
  packet_length,  \* packet_length[p]: p->packet_length
  hash,           \* hash[p]: p->hash
  tables,         \* the three hash tables
  stats,          \* the global statistics
  pc,             \* pc[c]: what core c does next
  hand,           \* hand[c]: current_packet, or next_packet, of core c
  code            \* the code of the packet the checking core holds

ringVars == <<dma_base, dma_len, rx_head, rx_tail>>
dataVars == <<contents, packet_length, hash>>
factVars == <<tables, stats, code>>
vars     == <<list, ringVars, dataVars, factVars, pc, hand>>

ListName == {"garbage_list", "hashing_buffer_list", "check_packet_buffer_list"}

PollerLabel  == {"poll_ring", "enqueue", "refill", "arm", "advance"}
HasherLabel  == {"poll_hashing", "hash", "enqueue_check"}
CheckerLabel == {"poll_check", "check", "count", "recycle"}

-----------------------------------------------------------------------------
(* The pipeline network_init_pipeline() leaves behind: the first RING_SIZE *)
(* packets of the garbage list are in the ring.  Nothing has been written  *)
(* to the buffers, and the lengths and hashes mean nothing yet.            *)
Init ==
  /\ \E order \in Bijection(1..Cardinality(Packet), Packet) :
       /\ dma_base = [i \in Slot |-> order[i + 1]]
       /\ list = [l \in ListName |->
                    IF l = "garbage_list"
                    THEN SubSeq(order, RING_SIZE + 1, Cardinality(Packet))
                    ELSE <<>>]
  /\ \E n \in Length : dma_len = [i \in Slot |-> n]
  /\ rx_head = 0
  /\ rx_tail = 0
  /\ \E x \in Content : contents = [p \in Packet |-> x]
  /\ \E n \in Length : packet_length = [p \in Packet |-> n]
  /\ \E h \in HashValue : hash = [p \in Packet |-> h]
  /\ tables \in Tables
  /\ stats \in Statistics
  /\ pc = [c \in Core |-> IF c = Poller THEN "poll_ring"
                           ELSE IF c = Checker THEN "poll_check" ELSE "poll_hashing"]
  /\ hand = [c \in Core |-> NoPacket]
  /\ code = 0

-----------------------------------------------------------------------------
Goto(c, from, to) ==
  /\ pc[c] = from
  /\ pc' = [pc EXCEPT ![c] = to]

(* Deviation: the packet goes to the head of the list instead of the tail. *)
AppendListFront(c, l) ==
  /\ list' = [list EXCEPT ![l] = <<hand[c]>> \o @]
  /\ hand' = [hand EXCEPT ![c] = NoPacket]

(* append_list(l, packet), the packet in the hand of core c *)
AppendList(c, l) ==
  /\ list' = [list EXCEPT ![l] = Append(@, hand[c])]
  /\ hand' = [hand EXCEPT ![c] = NoPacket]

(* Deviation: the head packet is returned but stays on the list. *)
PollPeek(c, l) ==
  /\ list[l] # <<>>
  /\ hand' = [hand EXCEPT ![c] = Head(list[l])]
  /\ UNCHANGED list

(* Deviation: the test of the length is off by one. *)
PollSpare(c, l) ==
  /\ Len(list[l]) > 1
  /\ list' = [list EXCEPT ![l] = Tail(@)]
  /\ hand' = [hand EXCEPT ![c] = Head(list[l])]

(* poll(l) by core c: waits for a packet *)
Poll(c, l) ==
  /\ list[l] # <<>>
  /\ list' = [list EXCEPT ![l] = Tail(@)]
  /\ hand' = [hand EXCEPT ![c] = Head(list[l])]

TailSlot == rx_tail % RING_SIZE
HeadSlot == rx_head % RING_SIZE

(* machine.h: the ring is empty when the indexes are equal, and full when  *)
(* they differ and point at the same slot.                                 *)
RingEmpty == rx_head = rx_tail
RingFull  == rx_head # rx_tail /\ HeadSlot = TailSlot

-----------------------------------------------------------------------------
(* The device: writes a frame into the buffer at rx_head, unless the ring  *)
(* is full.                                                                *)
Receive(f) ==
  /\ ~RingFull
  /\ contents' = [contents EXCEPT ![dma_base[HeadSlot]] = Received(@, f)]
  /\ dma_len' = [dma_len EXCEPT ![HeadSlot] = FrameLength(f)]
  /\ rx_head' = (rx_head + 1) % WORD
  /\ UNCHANGED <<list, dma_base, rx_tail, packet_length, hash, factVars, pc, hand>>

-----------------------------------------------------------------------------
(* Deviation: rx_tail is incremented when the packet is taken. *)
TakeFrameEarly ==
  /\ Goto(Poller, "poll_ring", "enqueue")
  /\ ~RingEmpty
  /\ hand' = [hand EXCEPT ![Poller] = dma_base[TailSlot]]
  /\ packet_length' = [packet_length EXCEPT ![dma_base[TailSlot]] = dma_len[TailSlot]]
  /\ rx_tail' = (rx_tail + 1) % WORD
  /\ UNCHANGED <<list, dma_base, dma_len, rx_head, contents, hash, factVars>>

(* Deviation: the ring is served without looking at rx_head. *)
TakeFrameBlindly ==
  /\ Goto(Poller, "poll_ring", "enqueue")
  /\ hand' = [hand EXCEPT ![Poller] = dma_base[TailSlot]]
  /\ packet_length' = [packet_length EXCEPT ![dma_base[TailSlot]] = dma_len[TailSlot]]
  /\ UNCHANGED <<list, ringVars, contents, hash, factVars>>

(* Core 1, network_poll() and execute_ringbuffer_stage().                  *)
TakeFrame ==
  LET current_packet == dma_base[TailSlot] IN
  /\ Goto(Poller, "poll_ring", "enqueue")
  /\ ~RingEmpty
  /\ hand' = [hand EXCEPT ![Poller] = current_packet]
  /\ packet_length' = [packet_length EXCEPT ![current_packet] = dma_len[TailSlot]]
  /\ UNCHANGED <<list, ringVars, contents, hash, factVars>>

EnqueueFrame ==
  /\ Goto(Poller, "enqueue", "refill")
  /\ AppendList(Poller, "hashing_buffer_list")
  /\ UNCHANGED <<ringVars, dataVars, factVars>>

Refill ==
  /\ Goto(Poller, "refill", "arm")
  /\ Poll(Poller, "garbage_list")
  /\ UNCHANGED <<ringVars, dataVars, factVars>>

(* Deviation: the slot after the tail slot is refilled. *)
ArmNextSlot ==
  LET next == (rx_tail + 1) % RING_SIZE IN
  /\ Goto(Poller, "arm", "advance")
  /\ dma_len' = [dma_len EXCEPT ![next] = NET_MAXPKT]
  /\ dma_base' = [dma_base EXCEPT ![next] = hand[Poller]]
  /\ hand' = [hand EXCEPT ![Poller] = NoPacket]
  /\ UNCHANGED <<list, rx_head, rx_tail, dataVars, factVars>>

Arm ==
  /\ Goto(Poller, "arm", "advance")
  /\ dma_len' = [dma_len EXCEPT ![TailSlot] = NET_MAXPKT]
  /\ dma_base' = [dma_base EXCEPT ![TailSlot] = hand[Poller]]
  /\ hand' = [hand EXCEPT ![Poller] = NoPacket]
  /\ UNCHANGED <<list, rx_head, rx_tail, dataVars, factVars>>

(* Deviation: rx_tail is a counter that does not wrap around. *)
AdvanceUnwrapped ==
  /\ Goto(Poller, "advance", "poll_ring")
  /\ rx_tail' = rx_tail + 1
  /\ UNCHANGED <<list, dma_base, dma_len, rx_head, dataVars, factVars, hand>>

Advance ==
  /\ Goto(Poller, "advance", "poll_ring")
  /\ rx_tail' = (rx_tail + 1) % WORD
  /\ UNCHANGED <<list, dma_base, dma_len, rx_head, dataVars, factVars, hand>>

PollerStep == TakeFrame \/ EnqueueFrame \/ Refill \/ Arm \/ Advance

-----------------------------------------------------------------------------
(* A hashing core, execute_hashing_stage().                                *)
PollHashing(c) ==
  /\ Goto(c, "poll_hashing", "hash")
  /\ Poll(c, "hashing_buffer_list")
  /\ UNCHANGED <<ringVars, dataVars, factVars>>

(* Deviation: the hash covers the buffer instead of the packet. *)
HashBuffer(c) ==
  /\ Goto(c, "hash", "enqueue_check")
  /\ hash' = [hash EXCEPT ![hand[c]] = Djb2(contents[hand[c]], NET_MAXPKT)]
  /\ UNCHANGED <<list, ringVars, contents, packet_length, factVars, hand>>

Hash(c) ==
  /\ Goto(c, "hash", "enqueue_check")
  /\ hash' = [hash EXCEPT ![hand[c]] = Djb2(contents[hand[c]], packet_length[hand[c]])]
  /\ UNCHANGED <<list, ringVars, contents, packet_length, factVars, hand>>

EnqueueCheck(c) ==
  /\ Goto(c, "enqueue_check", "poll_hashing")
  /\ AppendList(c, "check_packet_buffer_list")
  /\ UNCHANGED <<ringVars, dataVars, factVars>>

HasherStep(c) == PollHashing(c) \/ Hash(c) \/ EnqueueCheck(c)

-----------------------------------------------------------------------------
(* Core 2, execute_checking_stage().  Only this core changes the tables,   *)
(* so the command and the check of one packet are one step.                *)
PollCheck ==
  /\ Goto(Checker, "poll_check", "check")
  /\ Poll(Checker, "check_packet_buffer_list")
  /\ UNCHANGED <<ringVars, dataVars, factVars>>

CheckPacket ==
  LET p       == hand[Checker]
      verdict == Classify(Execute(tables, contents[p]), contents[p], hash[p])
  IN  /\ Goto(Checker, "check", "count")
      /\ tables' = verdict.tables
      /\ code' = verdict.code
      /\ UNCHANGED <<list, ringVars, dataVars, stats, hand>>

CountPacket ==
  /\ Goto(Checker, "count", "recycle")
  /\ stats' = UpdateStats(stats, packet_length[hand[Checker]], code)
  /\ code' = 0
  /\ UNCHANGED <<list, ringVars, dataVars, tables, hand>>

(* Deviation: the page of a packet is not given back. *)
RecycleNothing ==
  /\ Goto(Checker, "recycle", "poll_check")
  /\ hand' = [hand EXCEPT ![Checker] = NoPacket]
  /\ UNCHANGED <<list, ringVars, dataVars, factVars>>

Recycle ==
  /\ Goto(Checker, "recycle", "poll_check")
  /\ AppendList(Checker, "garbage_list")
  /\ UNCHANGED <<ringVars, dataVars, factVars>>

CheckerStep == PollCheck \/ CheckPacket \/ CountPacket \/ Recycle

-----------------------------------------------------------------------------
Next ==
  \/ \E f \in Frame : Receive(f)
  \/ PollerStep
  \/ \E c \in Hasher : HasherStep(c)
  \/ CheckerStep

Spec == Init /\ [][Next]_vars

(* Every core runs its loop for ever; nothing is assumed of the network.   *)
Fairness ==
  /\ WF_vars(PollerStep)
  /\ \A c \in Hasher : WF_vars(HasherStep(c))
  /\ WF_vars(CheckerStep)

FairSpec == Spec /\ Fairness

-----------------------------------------------------------------------------
(* Every variable has its type. *)
TypeOK ==
  /\ list \in [ListName -> Seq(Packet)]
  /\ dma_base \in [Slot -> Packet]
  /\ dma_len \in [Slot -> Length]
  /\ rx_head \in 0..(WORD - 1)
  /\ rx_tail \in 0..(WORD - 1)
  /\ contents \in [Packet -> Content]
  /\ packet_length \in [Packet -> Length]
  /\ hash \in [Packet -> HashValue]
  /\ tables \in Tables
  /\ stats \in Statistics
  /\ code \in Code
  /\ hand \in [Core -> Packet \cup {NoPacket}]
  /\ pc \in [Core -> PollerLabel \cup HasherLabel \cup CheckerLabel]
  /\ pc[Poller] \in PollerLabel
  /\ pc[Checker] \in CheckerLabel
  /\ \A c \in Hasher : pc[c] \in HasherLabel

(* The slots whose buffer belongs to the ring: from the moment core 1 has  *)
(* taken the packet of the tail slot until it has armed the slot again,    *)
(* the slot still points to the old packet but no longer owns it.          *)
ArmedSlots == {i \in Slot : pc[Poller] \in {"enqueue", "refill", "arm"} => i # TailSlot}

OnList(l, p) == \E i \in 1..Len(list[l]) : list[l][i] = p

InList(p) == \E l \in ListName : OnList(l, p)
InHand(p) == \E c \in Core : hand[c] = p
InRing(p) == \E i \in ArmedSlots : dma_base[i] = p

OnOneList ==
  \A l, m \in ListName : \A i \in 1..Len(list[l]), j \in 1..Len(list[m]) :
    list[l][i] = list[m][j] => l = m /\ i = j

InOneHand == \A c, d \in Core : hand[c] = hand[d] /\ c # d => hand[c] = NoPacket

InOneSlot == \A i, j \in ArmedSlots : dma_base[i] = dma_base[j] => i = j

InOnePlace ==
  \A p \in Packet : /\ ~(InList(p) /\ InHand(p))
                   /\ ~(InList(p) /\ InRing(p))
                   /\ ~(InHand(p) /\ InRing(p))

(* No packet is twice on the lists, in two hands or in two ring slots, and *)
(* none is in two of these kinds of places: at any time one core, one list *)
(* or the device owns its memory, although no packet is ever locked        *)
(* (packet_info.lock is never taken).                                      *)
ExclusiveOwner == OnOneList /\ InOneHand /\ InOneSlot /\ InOnePlace

(* No page is ever lost: the buffers that circulate are all of the         *)
(* MAX_PACKETS pages that garbage_list_alloc() allocated.                  *)
NoLeak == \A p \in Packet : InList(p) \/ InHand(p) \/ InRing(p)

(* The device only writes where machine.h lets it: the buffer at rx_head   *)
(* of a ring that is not full is on no list and in no hand, so that the    *)
(* hashing, checking and counting of a packet read what was received.      *)
DmaSafe ==
  ~RingFull => /\ HeadSlot \in ArmedSlots
               /\ ~InList(dma_base[HeadSlot])
               /\ ~InHand(dma_base[HeadSlot])

(* Core c cannot go on: it polls an empty ring or an empty list. *)
Waits(c) ==
  \/ c = Poller /\ pc[c] = "poll_ring" /\ RingEmpty
  \/ c = Poller /\ pc[c] = "refill" /\ list["garbage_list"] = <<>>
  \/ c = Checker /\ pc[c] = "poll_check" /\ list["check_packet_buffer_list"] = <<>>
  \/ c \in Hasher /\ pc[c] = "poll_hashing" /\ list["hashing_buffer_list"] = <<>>

(* Everyone waits for everyone only when there is nothing to do: if all    *)
(* cores wait, they wait for the network, with no frame in the ring, every *)
(* accepted frame counted and its page in the ring or back.  Core 1, which *)
(* polls garbage_list with a slot unarmed, never waits for a page that     *)
(* nobody will give back.                                                  *)
WaitsForNetwork ==
  (\A c \in Core : Waits(c)) =>
    /\ pc[Poller] = "poll_ring" /\ RingEmpty
    /\ \A p \in Packet : InRing(p) \/ OnList("garbage_list", p)

(* The indexes never drift apart by more than the ring holds, and core 1   *)
(* only serves a slot that holds a frame, across the wrap-around of both   *)
(* counters.                                                               *)
Occupancy == (rx_head - rx_tail) % WORD

RingBounded ==
  /\ Occupancy <= RING_SIZE
  /\ pc[Poller] # "poll_ring" => Occupancy >= 1

-----------------------------------------------------------------------------
(* Core 1 never gets stuck with a frame in the ring, even when every page  *)
(* that is not in the ring is being processed: the page it has just put on *)
(* the hashing list comes back to the garbage list.                        *)
RingDrains ==
  \A t \in 0..(WORD - 1) : rx_tail = t /\ ~RingEmpty ~> rx_tail # t

(* Core 1 has handed on the frame of the tail slot. *)
Handed == IF pc[Poller] \in {"refill", "arm", "advance"} THEN 1 ELSE 0

(* The page of every accepted frame gets back to the garbage list.         *)
Accepted(p) ==
  \/ \E n \in Handed..(Occupancy - 1) : dma_base[(rx_tail + n) % RING_SIZE] = p
  \/ OnList("hashing_buffer_list", p)

Recycled == \A p \in Packet : Accepted(p) ~> OnList("garbage_list", p)
=============================================================================
