------------------------------ MODULE Honeypot ------------------------------
(***************************************************************************)
(* What network.c and stats.c do with one packet: the command it may       *)
(* carry, its check against the three tables, and its share of the totals. *)
(* The fields of a packet are the bytes the network delivered; the keys of *)
(* the tables are numbers a little-endian machine computes from them.      *)
(*                                                                         *)
(* A definition marked "Deviation" is no part of the specification: it is  *)
(* the one that follows it with a mistake, which a property has to catch.  *)
(***************************************************************************)
EXTENDS Listing, SequencesExt

CONSTANTS
  BYTE,       \* the values of a byte (256)
  MaxLength   \* the longest packet

ASSUME HoneypotAssumption ==
  /\ BYTE \in Nat \ {0, 1}
  /\ MaxLength \in Nat

(* What a byte of a word counts for, the least significant one being byte 0. *)
Weight[i \in 0..4] == IF i = 0 THEN 1 ELSE BYTE * Weight[i - 1]

Byte == 0..(BYTE - 1)
Word == 0..(Weight[4] - 1)

TableName == {"spam", "vulnerable", "evil"}

(* A command names a table, unless it is "print" or "none": the secret or  *)
(* the command word is none of those honeypot.h defines.                   *)
Command == [op : {"add", "del", "print", "none"}, table : TableName]

Packet ==
  [source : [1..4 -> Byte], port : [1..2 -> Byte], command : Command,
   data : [1..4 -> Byte], hash : Word, length : 0..MaxLength]

NoTotals ==
  [total_packets |-> 0, bytes_handled |-> 0,
   total_spam |-> 0, total_vul |-> 0, total_evil |-> 0]

-----------------------------------------------------------------------------
(* A short and an int as the processor loads them: the first byte is the   *)
(* least significant one.                                                  *)
LoadHalf(field) == field[1] + field[2] * Weight[1]
LoadWord(field) ==
  field[1] + field[2] * Weight[1] + field[3] * Weight[2] + field[4] * Weight[3]

ByteAt(n, i) == (n \div Weight[i]) % BYTE

(* change_end(), a shift being a multiplication by the weight of a byte *)
ChangeEnd(n) ==
  ByteAt(n, 3) + ByteAt(n, 2) * Weight[1] + ByteAt(n, 1) * Weight[2] + ByteAt(n, 0) * Weight[3]

(* Deviation: the data of a command is not converted, as it once was. *)
DataKeyRaw(p) == LoadWord(p.data)

DataKey(p) == ChangeEnd(LoadWord(p.data))

(* What check_packet_pipeline() looks up: a port is shifted into the upper *)
(* half of the word before it is reversed.                                 *)
Key(p, table) ==
  CASE table = "spam"       -> ChangeEnd(LoadWord(p.source))
    [] table = "vulnerable" -> ChangeEnd(LoadHalf(p.port) * Weight[2])
    [] table = "evil"       -> p.hash

(* execute_command_pipeline(), but for "print" *)
Execute(tables, p) ==
  CASE p.command.op = "add" -> [tables EXCEPT ![p.command.table] = WithPut(@, DataKey(p))]
    [] p.command.op = "del" -> [tables EXCEPT ![p.command.table] = WithRemove(@, DataKey(p))]
    [] OTHER -> tables

(* A code is the set of its bits: is_spammer, is_vulnerable and is_evil *)
Flag == [spam |-> 1, vulnerable |-> 4, evil |-> 2]

(* One hashtable_increment() of check_packet_pipeline(), and its flag *)
Observe(tables, p, table) == [tables EXCEPT ![table] = WithIncrement(@, Key(p, table))]

FlagOf(tables, p, table) == IF Listed(tables[table], Key(p, table)) THEN {Flag[table]} ELSE {}

(* update_stats() *)
UpdateStats(stats, p, code) ==
  LET one(bit) == IF bit \in code THEN 1 ELSE 0 IN
  [total_packets |-> stats.total_packets + 1,
   bytes_handled |-> stats.bytes_handled + p.length,
   total_spam    |-> stats.total_spam + one(1),
   total_vul     |-> stats.total_vul + one(2),
   total_evil    |-> stats.total_evil + one(4)]
=============================================================================
