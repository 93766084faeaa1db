----------------------------- MODULE FrameQueue -----------------------------
(***************************************************************************)
(* What the packet pipeline promises: every frame the network device       *)
(* accepted is executed and checked exactly once, with the djb2 hash of    *)
(* its own bytes, and then counted once.  Cores that hash at the same time *)
(* overtake one another, so a frame is not handled in its turn; but when   *)
(* it is, it is one of the Width oldest, Width being the number of these   *)
(* cores.  How many later frames pass a frame before it is handled is not  *)
(* bounded.                                                                *)
(* When one core hashes, the order is that of arrival, and a command       *)
(* governs exactly the frames that follow it.                              *)
(*                                                                         *)
(* A message is a frame as the checking stage finds it: the contents of    *)
(* the buffer the device wrote it to, and its length.                      *)
(***************************************************************************)
EXTENDS Naturals, Sequences, SequencesExt

CONSTANTS
  Width,            \* how many frames may be handled at a time
  Content,          \* the contents of a packet buffer
  Length,           \* the lengths of frames
  Djb2(_, _),       \* djb2 of the first bytes of a content
  Tables,           \* the states of the three hash tables
  Execute(_, _),    \* the tables after the command of a content, if it has one
  Classify(_, _, _),\* the code of a content, and the tables with its counts
  Statistics,       \* the states of the global statistics
  UpdateStats(_, _, _) \* the statistics after a packet of a length and a code

VARIABLES
  queue,     \* the messages accepted and not yet checked, the oldest first
  tables,    \* the spammers, vulnerable ports and evil hashes known
  counting,  \* <<length, code>> of the frame checked and not yet counted
  stats      \* the global statistics

vars == <<queue, tables, counting, stats>>

Message == Content \X Length

(* The verdict on a message: its command takes effect before its check. *)
Verdict(t, m) == Classify(Execute(t, m[1]), m[1], Djb2(m[1], m[2]))

Init ==
  /\ queue = <<>>
  /\ tables \in Tables
  /\ counting = <<>>
  /\ stats \in Statistics

Accept(m) ==
  /\ queue' = Append(queue, m)
  /\ UNCHANGED <<tables, counting, stats>>

Check(i) ==
  LET m == queue[i] IN
  /\ counting = <<>>
  /\ queue' = RemoveAt(queue, i)
  /\ tables' = Verdict(tables, m).tables
  /\ counting' = <<m[2], Verdict(tables, m).code>>
  /\ UNCHANGED stats

Count ==
  /\ counting # <<>>
  /\ stats' = UpdateStats(stats, counting[1], counting[2])
  /\ counting' = <<>>
  /\ UNCHANGED <<queue, tables>>

Next ==
  \/ Count
  \/ \E m \in Message : Accept(m)
  \/ \E i \in 1..Len(queue) : i <= Width /\ Check(i)

Spec == Init /\ [][Next]_vars
=============================================================================
