------------------------------- MODULE Filter -------------------------------
(***************************************************************************)
(* What honeypot.h asks of the kernel.  The fields of a packet "are BIG    *)
(* ENDIAN"; a command adds its data to one of three lists, or removes it;  *)
(* a packet is spam, aimed at a vulnerable port or evil if its source      *)
(* address, its destination port or its hash is on a list when it is       *)
(* checked, its own command having been executed.  The packets are handled *)
(* one after the other, each at one instant.                               *)
(***************************************************************************)
EXTENDS Listing

CONSTANTS
  BYTE,      \* the values of a byte (256)
  Packet,    \* the packets: the records of Honeypot
  Word       \* the addresses, ports and hashes

VARIABLES
  lists,     \* the known spammers, vulnerable ports and evil hashes
  packets,   \* the packets handled
  bytes,     \* their lengths, added up
  spam       \* those that were spam

vars == <<lists, packets, bytes, spam>>

ListName == {"spam", "vulnerable", "evil"}

(* The number a big-endian field of two or of four bytes denotes. *)
Port(field)    == field[1] * BYTE + field[2]
Network(field) == ((field[1] * BYTE + field[2]) * BYTE + field[3]) * BYTE + field[4]

Subject(p, l) ==
  CASE l = "spam"       -> Network(p.source)
    [] l = "vulnerable" -> Port(p.port)
    [] l = "evil"       -> p.hash

Obeyed(p) ==
  CASE p.command.op = "add" -> [lists EXCEPT ![p.command.table] = WithPut(@, Network(p.data))]
    [] p.command.op = "del" -> [lists EXCEPT ![p.command.table] = WithRemove(@, Network(p.data))]
    [] OTHER -> lists

Init ==
  /\ lists = [l \in ListName |-> Unlisted(Word)]
  /\ packets = 0
  /\ bytes = 0
  /\ spam = 0

Handle(p) ==
  LET obeyed == Obeyed(p) IN
  /\ packets' = packets + 1
  /\ bytes' = bytes + p.length
  /\ lists' = [l \in ListName |-> WithIncrement(obeyed[l], Subject(p, l))]
  /\ spam' = IF Listed(obeyed["spam"], Subject(p, "spam")) THEN spam + 1 ELSE spam

Next == \E p \in Packet : Handle(p)

Spec == Init /\ [][Next]_vars
=============================================================================
