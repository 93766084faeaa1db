-------------------------- MODULE PipelineHistory ---------------------------
(***************************************************************************)
(* Pipeline with a history variable: the pages of the frames that were     *)
(* accepted and are not yet checked, in the order of their arrival.  No    *)
(* part of the system sees it; with it the pipeline can be compared with   *)
(* a queue of frames, however many cores hash.                             *)
(***************************************************************************)
EXTENDS Pipeline, SequencesExt

VARIABLE arrived

ArrivedVars == <<vars, arrived>>

HistoryInit == Init /\ arrived = <<>>

Position(p) == CHOOSE n \in 1..Len(arrived) : arrived[n] = p

Accepting == \E f \in Frame : Receive(f)

HistoryNext ==
  \/ Accepting /\ arrived' = Append(arrived, dma_base[HeadSlot])
  \/ CheckPacket /\ arrived' = RemoveAt(arrived, Position(hand[Checker]))
  \/ PollerStep /\ UNCHANGED arrived
  \/ (\E c \in Hasher : HasherStep(c)) /\ UNCHANGED arrived
  \/ (PollCheck \/ CountPacket \/ Recycle) /\ UNCHANGED arrived

HistorySpec == HistoryInit /\ [][HistoryNext]_ArrivedVars

-----------------------------------------------------------------------------
(* The message of a page: its length is in the ring slot until core 1 has  *)
(* taken the frame.                                                        *)
InSlot(p) ==
  {i \in Slot : dma_base[i] = p
                /\ (i # TailSlot \/ pc[Poller] \in {"poll_ring", "advance"})}

MessageOf(p) ==
  <<contents[p], IF InSlot(p) = {} THEN packet_length[p]
                 ELSE dma_len[CHOOSE i \in InSlot(p) : TRUE]>>

Counting == IF pc[Checker] = "count" THEN <<packet_length[hand[Checker]], code>> ELSE <<>>

Queue == INSTANCE FrameQueue
  WITH Width <- Cardinality(Hasher),
       queue <- [n \in 1..Len(arrived) |-> MessageOf(arrived[n])],
       counting <- Counting

(* Every frame the device accepted is executed and checked exactly once,   *)
(* with the hash of its own bytes and its own length, and counted exactly  *)
(* once: none is lost, duplicated, overwritten by a later frame or checked *)
(* with the hash of the page's previous frame.  And no frame is early by   *)
(* more than the other cores hold: when one is checked, fewer older frames *)
(* are unchecked than there are cores that hash.  How late a frame may be  *)
(* is not bounded: any number of later ones may pass the one in the hand   *)
(* of a slow core.                                                         *)
ImplementsQueue == Queue!Spec
=============================================================================
