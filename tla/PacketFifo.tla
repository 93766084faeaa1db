----------------------------- MODULE PacketFifo -----------------------------
(***************************************************************************)
(* What list.h promises of a packet list: append_list() adds a packet at   *)
(* the end, poll() removes "the head packet from the list, in FIFO order", *)
(* and each of them happens at one instant between its call and its return *)
(* because the list is "synchronized with a mutex".                        *)
(***************************************************************************)
EXTENDS Sequences, Functions

CONSTANTS
  Core,      \* the cores that use the list
  Packet,    \* the packet_info pages
  NoPacket   \* the hand of a core that holds no packet

VARIABLES
  queue,     \* the packets of the list, the head first
  hand       \* hand[c]: the packet core c holds, or NoPacket

vars == <<queue, hand>>

Init ==
  /\ queue \in Seq(Packet)
  /\ IsInjective(queue)
  /\ hand \in [Core -> Packet \cup {NoPacket}]

(* append_list(list, packet): the packet leaves the hand of the caller. *)
AppendList(c) ==
  /\ hand[c] # NoPacket
  /\ queue' = Append(queue, hand[c])
  /\ hand' = [hand EXCEPT ![c] = NoPacket]

(* poll(list): takes effect only when there is a packet to return. *)
Poll(c) ==
  /\ hand[c] = NoPacket
  /\ queue # <<>>
  /\ queue' = Tail(queue)
  /\ hand' = [hand EXCEPT ![c] = Head(queue)]

Next == \E c \in Core : AppendList(c) \/ Poll(c)

Spec == Init /\ [][Next]_vars
=============================================================================
