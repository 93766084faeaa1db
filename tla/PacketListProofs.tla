-------------------------- MODULE PacketListProofs --------------------------
(***************************************************************************)
(* Theorems about PacketList, for any number of cores and packets.         *)
(*                                                                         *)
(* Mutual exclusion is inductive as it stands: it says that the lock word  *)
(* is 1 exactly while a core is in a critical section, so a core that      *)
(* finds 0 is alone.  That the length stays a natural number needs it, and *)
(* one more fact: between poll()'s test and its subtraction the length is  *)
(* not 0, since no other core can have taken the packet.                   *)
(*                                                                         *)
(* That the links describe one sequence is proved on top of that invariant *)
(* (ChainInv), and from it that the list is the queue of PacketFifo.       *)
(***************************************************************************)
EXTENDS PacketList, NumberFacts, FiniteSetTheorems, SequenceTheorems, TLAPS

Counted == \A c \in Core : pc[c] \in {"poll_take", "poll_count"} => length # 0

IInv == TypeOK /\ MutualExclusion /\ Counted

(* The labels at which a core may find itself inside list.c. *)
LEMMA Labels ==
  /\ Holds = {"append_link", "append_count", "append_unlock", "poll_test",
              "poll_take", "poll_count", "poll_unlock", "poll_retry"}
  /\ "out" \notin Holds /\ "append_lock" \notin Holds
  /\ "poll_lock" \notin Holds /\ "poll_wait" \notin Holds
PROOF BY DEF Holds, AppendHolds, PollHolds

(* An empty list is well typed; nobody is in a critical section at first. *)
LEMMA InvariantInit == Init => IInv
<1> SUFFICES ASSUME Init PROVE IInv
  OBVIOUS
<1>1. PICK s \in Arrangements :
        /\ Linked(s)
        /\ hand \in [Core -> {NoPacket} \cup {p \in Packet : \A i \in 1..Len(s) : s[i] # p}]
  BY DEF Init
<1>2. s \in Seq(Packet)
  BY DEF Arrangements, Injection
<1>3. length \in Nat
  BY <1>1, <1>2 DEF Linked
<1>4. head \in Pointer /\ tail \in Pointer
  <2>1. CASE s = <<>>
    BY <1>1, <2>1 DEF Linked, Pointer
  <2>2. CASE s # <<>>
    <3>1. Len(s) \in 1..Len(s) /\ 1 \in 1..Len(s)
      BY <1>2, <2>2
    <3> QED BY <1>1, <1>2, <2>2, <3>1 DEF Linked, Pointer
  <2> QED BY <2>1, <2>2
<1>5. next \in [Packet -> Pointer] /\ prev \in [Packet -> Pointer]
  <2> DEFINE after(p) == IF \E i \in 1..(Len(s) - 1) : s[i] = p
                         THEN s[1 + CHOOSE i \in 1..(Len(s) - 1) : s[i] = p]
                         ELSE NoPacket
             before(p) == IF \E i \in 2..Len(s) : s[i] = p
                          THEN s[(CHOOSE i \in 2..Len(s) : s[i] = p) - 1]
                          ELSE NoPacket
  <2>1. ASSUME NEW p \in Packet PROVE after(p) \in Pointer
    <3>1. CASE \E i \in 1..(Len(s) - 1) : s[i] = p
      <4> DEFINE i == CHOOSE i \in 1..(Len(s) - 1) : s[i] = p
      <4>1. i \in 1..(Len(s) - 1)
        BY <3>1
      <4>2. 1 + i \in 1..Len(s)
        BY <1>2, <4>1
      <4>3. s[1 + i] \in Packet
        BY <1>2, <4>2
      <4> QED BY <3>1, <4>3 DEF Pointer
    <3> QED BY <3>1 DEF Pointer
  <2>2. ASSUME NEW p \in Packet PROVE before(p) \in Pointer
    <3>1. CASE \E i \in 2..Len(s) : s[i] = p
      <4> DEFINE i == CHOOSE i \in 2..Len(s) : s[i] = p
      <4>1. i \in 2..Len(s)
        BY <3>1
      <4>2. i - 1 \in 1..Len(s)
        BY <1>2, <4>1
      <4>3. s[i - 1] \in Packet
        BY <1>2, <4>2
      <4> QED BY <3>1, <4>3 DEF Pointer
    <3> QED BY <3>1 DEF Pointer
  <2>3. next = [p \in Packet |-> after(p)] /\ prev = [p \in Packet |-> before(p)]
    BY <1>1 DEF Linked
  <2> HIDE DEF after, before
  <2> QED BY <2>1, <2>2, <2>3
<1>6. lock = 0 /\ pc = [c \in Core |-> "out"]
  BY DEF Init
<1>7. hand \in [Core -> Pointer]
  BY <1>1 DEF Pointer
<1>8. TypeOK
  BY <1>3, <1>4, <1>5, <1>6, <1>7 DEF TypeOK, Label
<1>9. MutualExclusion /\ Counted
  BY <1>6, Labels DEF MutualExclusion, Counted
<1> QED BY <1>8, <1>9 DEF IInv

-----------------------------------------------------------------------------
(* The four ways a step changes the place of a core: it stays in its       *)
(* critical section, stays out of it, enters it or leaves it.              *)
LEMMA StayKeepsExclusion ==
  ASSUME NEW c \in Core, NEW to \in Label, pc \in [Core -> Label], MutualExclusion,
         pc' = [pc EXCEPT ![c] = to], lock' = lock,
         pc[c] \in Holds <=> to \in Holds
  PROVE  MutualExclusion'
PROOF BY DEF MutualExclusion

(* A core that finds the lock word 0 is alone in the section afterwards. *)
LEMMA EnterKeepsExclusion ==
  ASSUME NEW c \in Core, NEW to \in Holds, pc \in [Core -> Label], MutualExclusion,
         pc' = [pc EXCEPT ![c] = to], lock = 0, lock' = 1
  PROVE  MutualExclusion'
PROOF BY DEF MutualExclusion

(* A core that leaves the section leaves it empty. *)
LEMMA LeaveKeepsExclusion ==
  ASSUME NEW c \in Core, NEW to \in Label \ Holds, pc \in [Core -> Label], MutualExclusion,
         pc' = [pc EXCEPT ![c] = to], pc[c] \in Holds, lock' = 0
  PROVE  MutualExclusion'
PROOF BY DEF MutualExclusion

(* A core inside append_list() or poll() rules out a poll() elsewhere that *)
(* has tested the length, so the length is only tested or changed by it.   *)
LEMMA OthersNotCounted ==
  ASSUME NEW c \in Core, NEW d \in Core, d # c, MutualExclusion, pc[c] \in Holds
  PROVE  pc[d] \notin {"poll_take", "poll_count"}
PROOF BY Labels DEF MutualExclusion

(* Every step of append_list() and poll() keeps the inductive invariant. *)
LEMMA InvariantStep == IInv /\ [Next]_vars => IInv'
<1> SUFFICES ASSUME IInv, [Next]_vars PROVE IInv'
  OBVIOUS
<1> USE Labels
<1>0. pc \in [Core -> Label] /\ TypeOK /\ MutualExclusion /\ Counted
  BY DEF IInv, TypeOK
<1>1. ASSUME NEW c \in Core, AppendCall(c) PROVE IInv'
  <2>1. TypeOK'
    BY <1>0, <1>1 DEF AppendCall, Goto, TypeOK, Label
  <2>2. MutualExclusion'
    BY <1>0, <1>1, StayKeepsExclusion DEF AppendCall, Goto, Label
  <2>3. Counted'
    BY <1>0, <1>1 DEF AppendCall, Goto, Counted
  <2> QED BY <2>1, <2>2, <2>3 DEF IInv
<1>2. ASSUME NEW c \in Core, AppendLock(c) PROVE IInv'
  <2>1. TypeOK'
    BY <1>0, <1>2 DEF AppendLock, SpinLock, Goto, TypeOK, Label
  <2>2. MutualExclusion'
    BY <1>0, <1>2, EnterKeepsExclusion DEF AppendLock, SpinLock, Goto, Label
  <2>3. Counted'
    BY <1>0, <1>2 DEF AppendLock, Goto, Counted
  <2> QED BY <2>1, <2>2, <2>3 DEF IInv
<1>3. ASSUME NEW c \in Core, AppendLink(c) PROVE IInv'
  <2>1. TypeOK'
    BY <1>0, <1>3 DEF AppendLink, Goto, TypeOK, Label, Pointer
  <2>2. MutualExclusion'
    BY <1>0, <1>3, StayKeepsExclusion DEF AppendLink, Goto, Label
  <2>3. Counted'
    BY <1>0, <1>3 DEF AppendLink, Goto, Counted
  <2> QED BY <2>1, <2>2, <2>3 DEF IInv
<1>4. ASSUME NEW c \in Core, AppendCount(c) PROVE IInv'
  <2>1. TypeOK'
    BY <1>0, <1>4 DEF AppendCount, Goto, TypeOK, Label, Pointer
  <2>2. MutualExclusion'
    BY <1>0, <1>4, StayKeepsExclusion DEF AppendCount, Goto, Label
  <2>3. Counted'
    BY <1>0, <1>4 DEF AppendCount, Goto, Counted, TypeOK
  <2> QED BY <2>1, <2>2, <2>3 DEF IInv
<1>5. ASSUME NEW c \in Core, AppendUnlock(c) PROVE IInv'
  <2>1. TypeOK'
    BY <1>0, <1>5 DEF AppendUnlock, Unlock, Goto, TypeOK, Label
  <2>2. MutualExclusion'
    BY <1>0, <1>5, LeaveKeepsExclusion DEF AppendUnlock, Unlock, Goto, Label
  <2>3. Counted'
    BY <1>0, <1>5 DEF AppendUnlock, Goto, Counted
  <2> QED BY <2>1, <2>2, <2>3 DEF IInv
<1>6. ASSUME NEW c \in Core, PollCall(c) PROVE IInv'
  <2>1. TypeOK'
    BY <1>0, <1>6 DEF PollCall, Goto, TypeOK, Label
  <2>2. MutualExclusion'
    BY <1>0, <1>6, StayKeepsExclusion DEF PollCall, Goto, Label
  <2>3. Counted'
    BY <1>0, <1>6 DEF PollCall, Goto, Counted
  <2> QED BY <2>1, <2>2, <2>3 DEF IInv
<1>7. ASSUME NEW c \in Core, PollLock(c) PROVE IInv'
  <2>1. TypeOK'
    BY <1>0, <1>7 DEF PollLock, SpinLock, Goto, TypeOK, Label, Holds
  <2>2. MutualExclusion'
    BY <1>0, <1>7, EnterKeepsExclusion DEF PollLock, SpinLock, Goto, Label
  <2>3. Counted'
    BY <1>0, <1>7 DEF PollLock, Goto, Counted
  <2> QED BY <2>1, <2>2, <2>3 DEF IInv
<1>8. ASSUME NEW c \in Core, PollTest(c) PROVE IInv'
  <2> DEFINE to == IF length # 0 THEN "poll_take" ELSE "poll_retry"
  <2>1. TypeOK'
    BY <1>0, <1>8 DEF PollTest, Goto, TypeOK, Label
  <2>2. to \in Label /\ to \in Holds
    BY DEF Label
  <2>3. MutualExclusion'
    BY <1>0, <1>8, <2>2, StayKeepsExclusion DEF PollTest, Goto
  <2>4. Counted'
    BY <1>0, <1>8, OthersNotCounted DEF PollTest, Goto, Counted
  <2> QED BY <2>1, <2>3, <2>4 DEF IInv
<1>9. ASSUME NEW c \in Core, PollRetry(c) PROVE IInv'
  <2>1. TypeOK'
    BY <1>0, <1>9 DEF PollRetry, Unlock, Goto, TypeOK, Label
  <2>2. MutualExclusion'
    BY <1>0, <1>9, LeaveKeepsExclusion DEF PollRetry, Unlock, Goto, Label
  <2>3. Counted'
    BY <1>0, <1>9 DEF PollRetry, Goto, Counted
  <2> QED BY <2>1, <2>2, <2>3 DEF IInv
<1>10. ASSUME NEW c \in Core, PollWait(c) PROVE IInv'
  <2>1. TypeOK'
    BY <1>0, <1>10 DEF PollWait, Goto, TypeOK, Label
  <2>2. MutualExclusion'
    BY <1>0, <1>10, StayKeepsExclusion DEF PollWait, Goto, Label
  <2>3. Counted'
    BY <1>0, <1>10 DEF PollWait, Goto, Counted
  <2> QED BY <2>1, <2>2, <2>3 DEF IInv
<1>11. ASSUME NEW c \in Core, PollTake(c) PROVE IInv'
  <2>1. Follow(head) \in Pointer
    BY <1>0 DEF Follow, TypeOK, Pointer
  <2>2. TypeOK'
    BY <1>0, <1>11, <2>1 DEF PollTake, Goto, TypeOK, Label
  <2>3. MutualExclusion'
    BY <1>0, <1>11, StayKeepsExclusion DEF PollTake, Goto, Label
  <2>4. Counted'
    BY <1>0, <1>11 DEF PollTake, Goto, Counted
  <2> QED BY <2>2, <2>3, <2>4 DEF IInv
<1>12. ASSUME NEW c \in Core, PollCount(c) PROVE IInv'
  <2>1. length \in Nat /\ length # 0
    BY <1>0, <1>12 DEF PollCount, Goto, Counted, TypeOK
  <2>2. length' \in Nat
    BY <1>12, <2>1 DEF PollCount
  <2>3. TypeOK'
    BY <1>0, <1>12, <2>2 DEF PollCount, Goto, TypeOK, Label
  <2>4. MutualExclusion'
    BY <1>0, <1>12, StayKeepsExclusion DEF PollCount, Goto, Label
  <2>5. Counted'
    BY <1>0, <1>12, OthersNotCounted DEF PollCount, Goto, Counted
  <2> QED BY <2>3, <2>4, <2>5 DEF IInv
<1>13. ASSUME NEW c \in Core, PollUnlock(c) PROVE IInv'
  <2>1. TypeOK'
    BY <1>0, <1>13 DEF PollUnlock, Unlock, Goto, TypeOK, Label
  <2>2. MutualExclusion'
    BY <1>0, <1>13, LeaveKeepsExclusion DEF PollUnlock, Unlock, Goto, Label
  <2>3. Counted'
    BY <1>0, <1>13 DEF PollUnlock, Goto, Counted
  <2> QED BY <2>1, <2>2, <2>3 DEF IInv
<1>14. ASSUME NEW c \in Core, OtherList(c) PROVE IInv'
  <2>1. PICK p \in Packet, q \in Packet :
          /\ next' = [next EXCEPT ![hand[c]] = p]
          /\ prev' = [prev EXCEPT ![hand[c]] = q]
    BY <1>14 DEF OtherList
  <2>2. TypeOK'
    BY <1>0, <1>14, <2>1 DEF OtherList, TypeOK, Pointer
  <2>3. MutualExclusion' /\ Counted'
    BY <1>0, <1>14 DEF OtherList, MutualExclusion, Counted
  <2> QED BY <2>2, <2>3 DEF IInv
<1>15. CASE UNCHANGED vars
  BY <1>0, <1>15 DEF vars, IInv, TypeOK, MutualExclusion, Counted
<1> QED
  BY <1>1, <1>2, <1>3, <1>4, <1>5, <1>6, <1>7, <1>8, <1>9, <1>10, <1>11, <1>12,
     <1>13, <1>14, <1>15 DEF Next, AppendStep, PollStep

(* The inductive invariant holds in every behaviour. *)
LEMMA Invariance == Spec => []IInv
PROOF BY InvariantInit, InvariantStep, PTL DEF Spec

(* Every variable keeps its type; in particular the length never becomes   *)
(* negative, however many cores call poll() at the same time.              *)
THEOREM ListTypeCorrect == Spec => []TypeOK
<1>1. IInv => TypeOK
  BY DEF IInv
<1> QED BY <1>1, Invariance, PTL

(* At most one core is between spin_lock() and unlock() of a list, and the *)
(* lock word is 1 exactly while there is one.                              *)
THEOREM ListMutualExclusion == Spec => []MutualExclusion
<1>1. IInv => MutualExclusion
  BY DEF IInv
<1> QED BY <1>1, Invariance, PTL

-----------------------------------------------------------------------------
(* What the hand of a core holds inside a call: append_list() its packet   *)
(* until the length counts it, and it is the tail from the moment it is    *)
(* linked; poll() nothing until it takes the head.                         *)
Hands ==
  \A c \in Core :
    /\ pc[c] \in {"append_lock", "append_link"} => hand[c] # NoPacket
    /\ pc[c] = "append_count" => hand[c] = tail
    /\ pc[c] \in {"poll_lock", "poll_test", "poll_take", "poll_wait", "poll_retry"}
         => hand[c] = NoPacket

ChainInv == WellLinked /\ Hands

(* The arrangements are the duplicate-free sequences of packets: no bound  *)
(* on their length is lost, since there are finitely many packets.         *)
LEMMA ArrangementsAre ==
  \A s : s \in Arrangements <=> s \in Seq(Packet) /\ IsInjective(s)
<1> SUFFICES ASSUME NEW s
             PROVE  s \in Arrangements <=> s \in Seq(Packet) /\ IsInjective(s)
  OBVIOUS
<1>1. ASSUME s \in Arrangements PROVE s \in Seq(Packet) /\ IsInjective(s)
  BY <1>1 DEF Arrangements, Injection
<1>2. ASSUME s \in Seq(Packet), IsInjective(s) PROVE s \in Arrangements
  <2>1. Len(s) \in Nat /\ s \in [1..Len(s) -> Packet]
    BY <1>2
  <2>2. s \in Injection(1..Len(s), Packet)
    BY <1>2, <2>1 DEF Injection
  <2>3. /\ Cardinality(1..Len(s)) = Len(s)
        /\ IsFiniteSet(Packet) /\ Cardinality(Packet) \in Nat
    <3>1. Cardinality(1..Len(s)) = IF 1 > Len(s) THEN 0 ELSE Len(s) - 1 + 1
      BY <2>1, FS_Interval
    <3>2. IsFiniteSet(Packet) /\ Cardinality(Packet) \in Nat
      BY PacketListAssumption, FS_CardinalityType
    <3> QED BY <2>1, <3>1, <3>2
  <2>4. Cardinality(1..Len(s)) <= Cardinality(Packet)
    BY <2>2, <2>3, FS_Injection
  <2>5. Len(s) \in 0..Cardinality(Packet)
    BY <2>1, <2>3, <2>4
  <2> QED BY <2>2, <2>5 DEF Arrangements
<1> QED BY <1>1, <1>2

(* The list garbage_list_alloc() leaves is well linked, and a packet that  *)
(* a core holds beside it is not on it.                                    *)
LEMMA ChainInit == Init => ChainInv
<1> SUFFICES ASSUME Init PROVE ChainInv
  OBVIOUS
<1>1. PICK s \in Arrangements :
        /\ Linked(s)
        /\ hand \in [Core -> {NoPacket} \cup {p \in Packet : \A i \in 1..Len(s) : s[i] # p}]
  BY DEF Init
<1>2. s \in Seq(Packet) /\ IsInjective(s) /\ Len(s) \in Nat
  BY <1>1, ArrangementsAre
<1>3. pc = [c \in Core |-> "out"]
  BY DEF Init
<1>4. ~Linking /\ ~Unlinking
  BY <1>3 DEF Linking, Unlinking
<1>5. \A i, j \in 1..Len(s) : s[i] = s[j] => i = j
  BY <1>2 DEF IsInjective
<1>6. ASSUME NEW i \in 1..(Len(s) - 1) PROVE next[s[i]] = s[i + 1] /\ prev[s[i + 1]] = s[i]
  <2>1. i \in 1..Len(s) /\ i + 1 \in 2..Len(s) /\ i + 1 \in 1..Len(s)
    BY <1>2
  <2>2. s[i] \in Packet /\ s[i + 1] \in Packet
    BY <1>2, <2>1
  <2>3. (CHOOSE j \in 1..(Len(s) - 1) : s[j] = s[i]) = i
    <3>1. \A j \in 1..(Len(s) - 1) : s[j] = s[i] <=> j = i
      BY <1>2, <1>5, <2>1
    <3> QED BY <3>1
  <2>4. (CHOOSE j \in 2..Len(s) : s[j] = s[i + 1]) = i + 1
    <3>1. \A j \in 2..Len(s) : s[j] = s[i + 1] <=> j = i + 1
      BY <1>2, <1>5, <2>1
    <3> QED BY <3>1, <2>1
  <2>5. next[s[i]] = s[1 + i]
    BY <1>1, <2>2, <2>3 DEF Linked
  <2>6. prev[s[i + 1]] = s[(i + 1) - 1]
    BY <1>1, <2>1, <2>2, <2>4 DEF Linked
  <2> QED BY <1>2, <2>5, <2>6
<1>7. Chain(s)
  <2>1. NodeCount = Len(s)
    BY <1>1, <1>2, <1>4 DEF NodeCount, Linked
  <2>2. Len(s) > 0 => head = s[1] /\ tail = s[Len(s)]
    BY <1>1, <1>2 DEF Linked
  <2> QED BY <1>2, <1>6, <2>1, <2>2 DEF Chain
<1>8. HandsOff(s)
  <2>1. \A c, d \in Core : hand[c] = hand[d] /\ c # d => hand[c] = NoPacket
    BY DEF Init
  <2>2. ASSUME NEW c \in Core, NEW i \in 1..Len(s) PROVE hand[c] # s[i]
    <3>1. s[i] \in Packet
      BY <1>2
    <3> QED BY <1>1, <3>1, PacketListAssumption
  <2> QED BY <2>1, <2>2 DEF HandsOff
<1>9. Hands
  BY <1>3 DEF Hands
<1> QED BY <1>1, <1>7, <1>8, <1>9 DEF ChainInv, WellLinked

-----------------------------------------------------------------------------
(* A step that only moves a core, neither to nor from the two places where *)
(* the length lags behind the links, leaves the chain as it is.            *)
LEMMA MoveKeepsChain ==
  ASSUME NEW c \in Core, NEW to, pc \in [Core -> Label], WellLinked,
         pc' = [pc EXCEPT ![c] = to],
         pc[c] \notin {"append_count", "poll_count"},
         to \notin {"append_count", "poll_count"},
         UNCHANGED <<length, head, tail, next, prev, hand>>
  PROVE  WellLinked'
<1>1. PICK s \in Arrangements : Chain(s) /\ HandsOff(s)
  BY DEF WellLinked
<1>2. Linking' = Linking /\ Unlinking' = Unlinking
  BY DEF Linking, Unlinking
<1>3. Chain(s)'
  BY <1>1, <1>2 DEF Chain, NodeCount
<1>4. HandsOff(s)'
  BY <1>1 DEF HandsOff
<1> QED BY <1>3, <1>4 DEF WellLinked

(* Inside its critical section a core knows where the other cores are not. *)
LEMMA Alone ==
  ASSUME NEW c \in Core, MutualExclusion, pc[c] \in Holds
  PROVE  \A d \in Core \ {c} : pc[d] \notin Holds
PROOF BY DEF MutualExclusion

(* append_list() puts its packet, which is in no other hand and not on the *)
(* list, behind the tail.                                                  *)
LEMMA AppendLinkExtends ==
  ASSUME NEW c \in Core, IInv, ChainInv, AppendLink(c)
  PROVE  \A s \in Arrangements : \A p, t :
           Chain(s) /\ HandsOff(s) /\ p = hand[c] /\ t = Append(s, p) =>
             /\ p \in Packet /\ t \in Arrangements /\ Chain(t)' /\ HandsOff(t)'
             /\ ~Linking /\ ~Unlinking /\ Linking'
<1> SUFFICES ASSUME NEW s \in Arrangements, NEW p, NEW t,
                    Chain(s), HandsOff(s), p = hand[c], t = Append(s, p)
             PROVE  /\ p \in Packet /\ t \in Arrangements /\ Chain(t)' /\ HandsOff(t)'
                    /\ ~Linking /\ ~Unlinking /\ Linking'
  OBVIOUS
<1>1. /\ pc[c] = "append_link" /\ pc' = [pc EXCEPT ![c] = "append_count"]
      /\ pc \in [Core -> Label] /\ hand \in [Core -> Pointer] /\ length \in Nat
      /\ next \in [Packet -> Pointer] /\ prev \in [Packet -> Pointer]
      /\ hand' = hand /\ length' = length /\ tail' = p
  BY DEF IInv, TypeOK, AppendLink, Goto
<1>2. p \in Packet
  BY <1>1 DEF ChainInv, Hands, Pointer
<1>3. s \in Seq(Packet) /\ IsInjective(s) /\ Len(s) \in Nat
  BY ArrangementsAre
<1>4. \A d \in Core \ {c} : pc[d] \notin Holds
  BY <1>1, Alone, Labels DEF IInv
<1>5. \A d \in Core : pc[d] \notin {"append_count", "poll_count"}
  BY <1>1, <1>4, Labels
<1>6. ~Linking /\ ~Unlinking /\ Linking' /\ ~Unlinking'
  BY <1>1, <1>5 DEF Linking, Unlinking
<1>7. Len(s) = length
  BY <1>1, <1>6 DEF Chain, NodeCount
<1>8. \A i \in 1..Len(s), d \in Core : hand[d] # s[i]
  BY <1>5 DEF HandsOff
<1>9. /\ t \in Seq(Packet) /\ Len(t) = Len(s) + 1 /\ t[Len(s) + 1] = p
      /\ \A i \in 1..Len(s) : t[i] = s[i]
  BY <1>2, <1>3, AppendProperties
<1>10. \A i, j \in 1..Len(s) : s[i] = s[j] => i = j
  BY <1>3 DEF IsInjective
<1>11. IsInjective(t)
  <2>1. ASSUME NEW i \in 1..Len(t), NEW j \in 1..Len(t), t[i] = t[j] PROVE i = j
    BY <1>3, <1>8, <1>9, <1>10, <2>1
  <2> QED BY <1>9, <2>1 DEF IsInjective
<1>12. t \in Arrangements
  BY <1>9, <1>11, ArrangementsAre
<1>13. head' = t[1]
  <2>1. CASE length = 0
    BY <1>3, <1>7, <1>9, <2>1 DEF AppendLink
  <2>2. CASE length # 0
    <3>1. Len(s) > 0 /\ t[1] = s[1]
      BY <1>3, <1>7, <1>9, <2>2
    <3> QED BY <2>2, <3>1 DEF AppendLink, Chain
  <2> QED BY <2>1, <2>2
<1>14. ASSUME NEW i \in 1..(Len(t) - 1)
       PROVE  next'[t[i]] = t[i + 1] /\ prev'[t[i + 1]] = t[i]
  <2>1. i \in 1..Len(s) /\ t[i] = s[i] /\ s[i] \in Packet /\ length # 0 /\ Len(s) \in 1..Len(s)
    BY <1>3, <1>7, <1>9
  <2>2. /\ next' = [next EXCEPT ![tail] = p] /\ prev' = [prev EXCEPT ![p] = tail]
        /\ tail = s[Len(s)]
    BY <1>3, <1>7, <2>1 DEF AppendLink, Chain
  <2>3. CASE i = Len(s)
    BY <1>1, <1>2, <1>9, <2>1, <2>2, <2>3
  <2>4. CASE i # Len(s)
    <3>1. i \in 1..(Len(s) - 1) /\ i + 1 \in 1..Len(s)
      BY <1>3, <2>1, <2>4
    <3>2. s[i] # s[Len(s)] /\ s[i + 1] # p /\ s[i + 1] \in Packet /\ t[i + 1] = s[i + 1]
      BY <1>3, <1>8, <1>9, <1>10, <2>1, <2>4, <3>1
    <3>3. next[s[i]] = s[i + 1] /\ prev[s[i + 1]] = s[i]
      BY <3>1 DEF Chain
    <3> QED BY <1>1, <2>1, <2>2, <3>2, <3>3
  <2> QED BY <2>3, <2>4
<1>15. Chain(t)'
  <2>1. NodeCount' = Len(t)
    BY <1>1, <1>3, <1>6, <1>7, <1>9 DEF NodeCount
  <2>2. tail' = t[Len(t)]
    BY <1>1, <1>3, <1>9
  <2> QED BY <1>11, <1>13, <1>14, <2>1, <2>2 DEF Chain
<1>16. HandsOff(t)'
  <2>1. \A d, e \in Core : hand'[d] = hand'[e] /\ d # e => hand'[d] = NoPacket
    BY <1>1 DEF HandsOff
  <2>2. ASSUME NEW d \in Core, NEW i \in 1..Len(t), hand'[d] = t[i]
        PROVE  pc'[d] = "append_count" /\ i = Len(t)
    <3>1. i = Len(s) + 1
      BY <1>1, <1>3, <1>8, <1>9, <2>2
    <3>2. hand[d] = p
      BY <1>1, <1>9, <2>2, <3>1
    <3>3. d = c
      BY <1>2, <3>2, PacketListAssumption DEF HandsOff
    <3> QED BY <1>1, <1>9, <3>1, <3>3
  <2> QED BY <2>1, <2>2 DEF HandsOff
<1> QED BY <1>2, <1>6, <1>12, <1>15, <1>16

(* The length then counts the packet, and the hand lets go of it. *)
LEMMA AppendCountCounts ==
  ASSUME NEW c \in Core, IInv, ChainInv, AppendCount(c)
  PROVE  \A s \in Arrangements : Chain(s) /\ HandsOff(s) =>
           /\ Chain(s)' /\ HandsOff(s)' /\ Linking /\ ~Linking'
           /\ Len(s) > 0 /\ s[Len(s)] = hand[c]
<1> SUFFICES ASSUME NEW s \in Arrangements, Chain(s), HandsOff(s)
             PROVE  /\ Chain(s)' /\ HandsOff(s)' /\ Linking /\ ~Linking'
                    /\ Len(s) > 0 /\ s[Len(s)] = hand[c]
  OBVIOUS
<1>1. /\ pc[c] = "append_count" /\ pc' = [pc EXCEPT ![c] = "append_unlock"]
      /\ pc \in [Core -> Label] /\ hand \in [Core -> Pointer] /\ length \in Nat
      /\ hand' = [hand EXCEPT ![c] = NoPacket] /\ length' = length + 1
      /\ UNCHANGED <<head, tail, next, prev>>
  BY DEF IInv, TypeOK, AppendCount, Goto
<1>2. s \in Seq(Packet) /\ Len(s) \in Nat
  BY ArrangementsAre
<1>3. \A d \in Core \ {c} : pc[d] \notin {"append_count", "poll_count"}
  BY <1>1, Alone, Labels DEF IInv
<1>4. Linking /\ ~Unlinking /\ ~Linking' /\ ~Unlinking'
  BY <1>1, <1>3 DEF Linking, Unlinking
<1>5. NodeCount = length + 1 /\ NodeCount' = length'
  BY <1>1, <1>4 DEF NodeCount
<1>6. Len(s) > 0
  BY <1>1, <1>5 DEF Chain
<1>7. s[Len(s)] = hand[c]
  BY <1>1, <1>6 DEF Chain, ChainInv, Hands
<1>8. Chain(s)'
  BY <1>1, <1>5 DEF Chain
<1>9. HandsOff(s)'
  <2>1. ASSUME NEW d \in Core, NEW i \in 1..Len(s), hand'[d] = s[i] PROVE FALSE
    <3>1. s[i] \in Packet
      BY <1>2
    <3>2. d # c
      BY <1>1, <2>1, <3>1, PacketListAssumption
    <3>3. pc[d] = "append_count"
      BY <1>1, <2>1, <3>2 DEF HandsOff
    <3> QED BY <1>3, <3>2, <3>3
  <2>2. ASSUME NEW d \in Core, NEW e \in Core, hand'[d] = hand'[e], d # e
        PROVE  hand'[d] = NoPacket
    BY <1>1, <2>2 DEF HandsOff
  <2> QED BY <2>1, <2>2 DEF HandsOff
<1> QED BY <1>4, <1>6, <1>7, <1>8, <1>9

(* poll() takes the first packet, and the head moves on to the second. *)
LEMMA PollTakeShortens ==
  ASSUME NEW c \in Core, IInv, ChainInv, PollTake(c)
  PROVE  \A s \in Arrangements : \A t : Chain(s) /\ HandsOff(s) /\ t = Tail(s) =>
           /\ s # <<>> /\ head = s[1]
           /\ t \in Arrangements /\ Chain(t)' /\ HandsOff(t)'
           /\ ~Linking /\ ~Linking'
<1> SUFFICES ASSUME NEW s \in Arrangements, NEW t, Chain(s), HandsOff(s), t = Tail(s)
             PROVE  /\ s # <<>> /\ head = s[1]
                    /\ t \in Arrangements /\ Chain(t)' /\ HandsOff(t)'
                    /\ ~Linking /\ ~Linking'
  OBVIOUS
<1>1. /\ pc[c] = "poll_take" /\ pc' = [pc EXCEPT ![c] = "poll_count"]
      /\ pc \in [Core -> Label] /\ hand \in [Core -> Pointer] /\ length \in Nat
      /\ hand' = [hand EXCEPT ![c] = head] /\ head' = Follow(head) /\ length # 0
      /\ UNCHANGED <<length, tail, next, prev>>
  BY DEF IInv, TypeOK, Counted, PollTake, Goto
<1>2. s \in Seq(Packet) /\ Len(s) \in Nat /\ IsInjective(s)
  BY ArrangementsAre
<1>3. \A d \in Core : pc[d] \notin {"append_count", "poll_count"}
  BY <1>1, Alone, Labels DEF IInv
<1>4. ~Linking /\ ~Unlinking /\ ~Linking' /\ Unlinking'
  BY <1>1, <1>3 DEF Linking, Unlinking
<1>5. NodeCount = length /\ NodeCount' = length - 1
  BY <1>1, <1>4 DEF NodeCount
<1>6. Len(s) = length /\ Len(s) > 0 /\ s # <<>> /\ head = s[1] /\ tail = s[Len(s)]
  BY <1>1, <1>5 DEF Chain
<1>7. /\ t \in Seq(Packet) /\ Len(t) = Len(s) - 1
      /\ \A i \in 1..Len(t) : t[i] = s[i + 1]
  BY <1>2, <1>6, HeadTailProperties
<1>8. \A i, j \in 1..Len(s) : s[i] = s[j] => i = j
  BY <1>2 DEF IsInjective
<1>9. IsInjective(t)
  <2>1. ASSUME NEW i \in 1..Len(t), NEW j \in 1..Len(t), t[i] = t[j] PROVE i = j
    <3>1. i + 1 \in 1..Len(s) /\ j + 1 \in 1..Len(s)
      BY <1>2, <1>7
    <3> QED BY <1>7, <1>8, <2>1, <3>1
  <2> QED BY <1>7, <2>1 DEF IsInjective
<1>10. t \in Arrangements
  BY <1>7, <1>9, ArrangementsAre
<1>11. ASSUME Len(t) > 0 PROVE head' = t[1] /\ tail' = t[Len(t)]
  <2>1. 1 \in 1..Len(t) /\ Len(t) \in 1..Len(t) /\ 1 \in 1..(Len(s) - 1) /\ s[1] \in Packet
    BY <1>2, <1>7, <1>11
  <2>2. next[s[1]] = s[1 + 1]
    BY <2>1 DEF Chain
  <2> QED BY <1>1, <1>2, <1>6, <1>7, <2>1, <2>2 DEF Follow
<1>12. ASSUME NEW i \in 1..(Len(t) - 1)
       PROVE  next'[t[i]] = t[i + 1] /\ prev'[t[i + 1]] = t[i]
  <2>1. i + 1 \in 1..(Len(s) - 1) /\ i \in 1..Len(t) /\ i + 1 \in 1..Len(t)
    BY <1>2, <1>7
  <2>2. next[s[i + 1]] = s[(i + 1) + 1] /\ prev[s[(i + 1) + 1]] = s[i + 1]
    BY <2>1 DEF Chain
  <2> QED BY <1>1, <1>7, <2>1, <2>2
<1>13. Chain(t)'
  BY <1>5, <1>6, <1>7, <1>9, <1>11, <1>12 DEF Chain
<1>14. HandsOff(t)'
  <2>1. \A d \in Core, i \in 1..Len(s) : hand[d] # s[i]
    BY <1>3 DEF HandsOff
  <2>2. ASSUME NEW d \in Core, NEW i \in 1..Len(t), hand'[d] = t[i] PROVE FALSE
    <3>1. i + 1 \in 1..Len(s) /\ 1 \in 1..Len(s) /\ i + 1 # 1 /\ t[i] = s[i + 1]
      BY <1>2, <1>7
    <3>2. CASE d = c
      BY <1>1, <1>6, <1>8, <2>2, <3>1, <3>2
    <3>3. CASE d # c
      BY <1>1, <2>1, <2>2, <3>1, <3>3
    <3> QED BY <3>2, <3>3
  <2>3. ASSUME NEW d \in Core, NEW e \in Core, hand'[d] = hand'[e], d # e
        PROVE  hand'[d] = NoPacket
    <3>1. 1 \in 1..Len(s)
      BY <1>2, <1>6
    <3> QED BY <1>1, <1>6, <2>1, <2>3, <3>1 DEF HandsOff
  <2> QED BY <2>2, <2>3 DEF HandsOff
<1> QED BY <1>4, <1>6, <1>10, <1>13, <1>14

(* The length then forgets the packet that is gone. *)
LEMMA PollCountForgets ==
  ASSUME NEW c \in Core, IInv, PollCount(c)
  PROVE  \A s \in Arrangements : Chain(s) /\ HandsOff(s) =>
           Chain(s)' /\ HandsOff(s)' /\ ~Linking /\ ~Linking'
<1> SUFFICES ASSUME NEW s \in Arrangements, Chain(s), HandsOff(s)
             PROVE  Chain(s)' /\ HandsOff(s)' /\ ~Linking /\ ~Linking'
  OBVIOUS
<1>1. /\ pc[c] = "poll_count" /\ pc' = [pc EXCEPT ![c] = "poll_unlock"]
      /\ pc \in [Core -> Label] /\ length \in Nat /\ length' = length - 1
      /\ UNCHANGED <<head, tail, next, prev, hand>>
  BY DEF IInv, TypeOK, PollCount, Goto
<1>2. \A d \in Core \ {c} : pc[d] \notin {"append_count", "poll_count"}
  BY <1>1, Alone, Labels DEF IInv
<1>3. ~Linking /\ Unlinking /\ ~Linking' /\ ~Unlinking'
  BY <1>1, <1>2 DEF Linking, Unlinking
<1>4. NodeCount' = NodeCount
  BY <1>1, <1>3 DEF NodeCount
<1>5. Chain(s)' /\ HandsOff(s)'
  BY <1>1, <1>4 DEF Chain, HandsOff
<1> QED BY <1>3, <1>5

(* What another list stores into a packet some core holds is no link of    *)
(* this list.                                                              *)
LEMMA OtherListMissesChain ==
  ASSUME NEW c \in Core, IInv, OtherList(c)
  PROVE  \A s \in Arrangements : Chain(s) /\ HandsOff(s) => Chain(s)' /\ HandsOff(s)'
<1> SUFFICES ASSUME NEW s \in Arrangements, Chain(s), HandsOff(s)
             PROVE  Chain(s)' /\ HandsOff(s)'
  OBVIOUS
<1>1. PICK p \in Packet, q \in Packet :
        /\ next' = [next EXCEPT ![hand[c]] = p]
        /\ prev' = [prev EXCEPT ![hand[c]] = q]
  BY DEF OtherList
<1>2. /\ pc[c] = "out" /\ UNCHANGED <<length, head, tail, pc, hand>>
      /\ next \in [Packet -> Pointer] /\ prev \in [Packet -> Pointer]
  BY DEF IInv, TypeOK, OtherList
<1>3. s \in Seq(Packet) /\ Len(s) \in Nat
  BY ArrangementsAre
<1>4. \A i \in 1..Len(s) : hand[c] # s[i]
  BY <1>2 DEF HandsOff
<1>5. ASSUME NEW i \in 1..(Len(s) - 1)
      PROVE  next'[s[i]] = s[i + 1] /\ prev'[s[i + 1]] = s[i]
  <2>1. i \in 1..Len(s) /\ i + 1 \in 1..Len(s)
    BY <1>3
  <2>2. s[i] \in Packet /\ s[i + 1] \in Packet
    BY <1>3, <2>1
  <2>3. next[s[i]] = s[i + 1] /\ prev[s[i + 1]] = s[i]
    BY DEF Chain
  <2> QED BY <1>1, <1>2, <1>4, <2>1, <2>2, <2>3
<1>6. NodeCount' = NodeCount
  BY <1>2 DEF NodeCount, Linking, Unlinking
<1>7. Chain(s)'
  BY <1>2, <1>5, <1>6 DEF Chain
<1>8. HandsOff(s)'
  BY <1>2 DEF HandsOff
<1> QED BY <1>7, <1>8

(* The steps that move a core and touch no field of the list. *)
Moves(c) ==
  \/ AppendCall(c) \/ AppendLock(c) \/ AppendUnlock(c)
  \/ PollCall(c) \/ PollLock(c) \/ PollTest(c) \/ PollRetry(c) \/ PollWait(c) \/ PollUnlock(c)

(* What a moving step has in common with the others. *)
LEMMA MovesAre ==
  ASSUME NEW c \in Core, Moves(c)
  PROVE  /\ \E to : /\ pc' = [pc EXCEPT ![c] = to]
                    /\ to \notin {"append_count", "poll_count"}
         /\ pc[c] \notin {"append_count", "poll_count"}
         /\ UNCHANGED <<length, head, tail, next, prev, hand>>
<1>1. CASE AppendCall(c) \/ AppendLock(c) \/ AppendUnlock(c)
  BY <1>1 DEF AppendCall, AppendLock, AppendUnlock, Goto
<1>2. CASE PollCall(c) \/ PollLock(c) \/ PollRetry(c) \/ PollWait(c) \/ PollUnlock(c)
  BY <1>2 DEF PollCall, PollLock, PollRetry, PollWait, PollUnlock, Goto
<1>3. CASE PollTest(c)
  <2> DEFINE to == IF length # 0 THEN "poll_take" ELSE "poll_retry"
  <2>1. /\ pc' = [pc EXCEPT ![c] = to] /\ pc[c] = "poll_test"
        /\ UNCHANGED <<length, head, tail, next, prev, hand>>
    BY <1>3 DEF PollTest, Goto
  <2>2. to \notin {"append_count", "poll_count"}
    OBVIOUS
  <2> HIDE DEF to
  <2> QED BY <2>1, <2>2
<1> QED BY <1>1, <1>2, <1>3 DEF Moves

(* The next-state relation, a disjunct for each kind of proof. *)
LEMMA NextSplit ==
  Next => \E c \in Core :
    \/ Moves(c) \/ AppendLink(c) \/ AppendCount(c) \/ PollTake(c) \/ PollCount(c)
    \/ OtherList(c)
PROOF BY DEF Next, AppendStep, PollStep, Moves

(* Every step keeps what the hands hold. *)
LEMMA HandsStep == IInv /\ ChainInv /\ [Next]_vars => Hands'
<1> SUFFICES ASSUME IInv, ChainInv, [Next]_vars PROVE Hands'
  OBVIOUS
<1>0. pc \in [Core -> Label] /\ hand \in [Core -> Pointer] /\ Hands /\ MutualExclusion
  BY DEF IInv, TypeOK, ChainInv
<1>1. ASSUME NEW c \in Core, AppendCall(c) \/ AppendLock(c) \/ AppendUnlock(c) PROVE Hands'
  BY <1>0, <1>1 DEF AppendCall, AppendLock, AppendUnlock, Goto, Hands
<1>2. ASSUME NEW c \in Core, PollCall(c) \/ PollLock(c) \/ PollRetry(c) PROVE Hands'
  BY <1>0, <1>2 DEF PollCall, PollLock, PollRetry, Goto, Hands
<1>3. ASSUME NEW c \in Core, PollWait(c) \/ PollUnlock(c) \/ PollTest(c) PROVE Hands'
  BY <1>0, <1>3 DEF PollWait, PollUnlock, PollTest, Goto, Hands
<1>4. ASSUME NEW c \in Core, AppendLink(c) PROVE Hands'
  <2>1. pc[c] = "append_link" /\ pc' = [pc EXCEPT ![c] = "append_count"]
    BY <1>4 DEF AppendLink, Goto
  <2>2. \A d \in Core \ {c} : pc[d] # "append_count"
    BY <1>0, <2>1, Alone, Labels
  <2>3. tail' = hand[c] /\ hand' = hand
    BY <1>4 DEF AppendLink
  <2> QED BY <1>0, <2>1, <2>2, <2>3 DEF Hands
<1>5. ASSUME NEW c \in Core, AppendCount(c) PROVE Hands'
  BY <1>0, <1>5 DEF AppendCount, Goto, Hands
<1>6. ASSUME NEW c \in Core, PollTake(c) PROVE Hands'
  BY <1>0, <1>6 DEF PollTake, Goto, Hands
<1>7. ASSUME NEW c \in Core, PollCount(c) PROVE Hands'
  BY <1>0, <1>7 DEF PollCount, Goto, Hands
<1>8. ASSUME NEW c \in Core, OtherList(c) PROVE Hands'
  BY <1>0, <1>8 DEF OtherList, Hands
<1>9. CASE UNCHANGED vars
  BY <1>0, <1>9 DEF vars, Hands
<1> QED BY <1>1, <1>2, <1>3, <1>4, <1>5, <1>6, <1>7, <1>8, <1>9, NextSplit DEF Moves

(* Every step keeps the list well linked. *)
LEMMA ChainStep == IInv /\ ChainInv /\ [Next]_vars => ChainInv'
<1> SUFFICES ASSUME IInv, ChainInv, [Next]_vars PROVE WellLinked'
  BY HandsStep DEF ChainInv
<1>1. PICK s \in Arrangements : Chain(s) /\ HandsOff(s)
  BY DEF ChainInv, WellLinked
<1>2. ASSUME NEW c \in Core, Moves(c) PROVE WellLinked'
  BY <1>2, MovesAre, MoveKeepsChain DEF IInv, TypeOK, ChainInv
<1>3. ASSUME NEW c \in Core, AppendLink(c) PROVE WellLinked'
  BY <1>1, <1>3, AppendLinkExtends DEF WellLinked
<1>4. ASSUME NEW c \in Core, AppendCount(c) PROVE WellLinked'
  BY <1>1, <1>4, AppendCountCounts DEF WellLinked
<1>5. ASSUME NEW c \in Core, PollTake(c) PROVE WellLinked'
  BY <1>1, <1>5, PollTakeShortens DEF WellLinked
<1>6. ASSUME NEW c \in Core, PollCount(c) PROVE WellLinked'
  BY <1>1, <1>6, PollCountForgets DEF WellLinked
<1>7. ASSUME NEW c \in Core, OtherList(c) PROVE WellLinked'
  BY <1>1, <1>7, OtherListMissesChain DEF WellLinked
<1>8. CASE UNCHANGED vars
  BY <1>1, <1>8 DEF vars, WellLinked, Chain, HandsOff, NodeCount, Linking, Unlinking
<1> QED BY <1>2, <1>3, <1>4, <1>5, <1>6, <1>7, <1>8, NextSplit

(* Both invariants hold in every behaviour. *)
LEMMA ChainInvariance == Spec => [](IInv /\ ChainInv)
<1>1. Init => IInv /\ ChainInv
  BY InvariantInit, ChainInit
<1>2. (IInv /\ ChainInv) /\ [Next]_vars => (IInv /\ ChainInv)'
  BY InvariantStep, ChainStep
<1> QED BY <1>1, <1>2, PTL DEF Spec

(* At every instant the fields of the list and of its packets describe one *)
(* duplicate-free sequence of packets, which no core holds, however many   *)
(* cores are in the middle of append_list() and poll().                    *)
THEOREM ListWellLinked == Spec => []WellLinked
<1>1. ChainInv => WellLinked
  BY DEF ChainInv
<1> QED BY <1>1, ChainInvariance, PTL

-----------------------------------------------------------------------------
(* Two sequences of one length that start at the same packet and follow    *)
(* the same links are the same.                                            *)
LEMMA LinksDetermine ==
  ASSUME NEW s \in Seq(Packet), NEW t \in Seq(Packet), NEW links,
         Len(s) = Len(t), Len(s) > 0 => s[1] = t[1],
         \A i \in 1..(Len(s) - 1) : links[s[i]] = s[i + 1],
         \A i \in 1..(Len(t) - 1) : links[t[i]] = t[i + 1]
  PROVE  s = t
<1> DEFINE Same == {n \in Nat : n + 1 \in 1..Len(s) => s[n + 1] = t[n + 1]}
<1>1. 0 \in Same
  OBVIOUS
<1>2. ASSUME NEW n \in Nat, n \in Same PROVE n + 1 \in Same
  <2>1. CASE (n + 1) + 1 \in 1..Len(s)
    <3>1. n + 1 \in 1..(Len(s) - 1) /\ n + 1 \in 1..Len(s)
      BY <2>1
    <3>2. s[n + 1] = t[n + 1]
      BY <1>2, <3>1
    <3> QED BY <3>1, <3>2
  <2>2. CASE (n + 1) + 1 \notin 1..Len(s)
    BY <2>2
  <2> QED BY <2>1, <2>2
<1>3. \A n \in Nat : n \in Same
  <2> HIDE DEF Same
  <2> QED BY <1>1, <1>2, SetInduction
<1>4. ASSUME NEW i \in 1..Len(s) PROVE s[i] = t[i]
  <2>1. i - 1 \in Nat /\ (i - 1) + 1 = i
    OBVIOUS
  <2>2. i - 1 \in Same
    BY <1>3, <2>1
  <2> QED BY <2>1, <2>2
<1> QED BY <1>4, SeqEqual

(* So the abstract queue is the chain, but for a packet not counted yet.   *)
LEMMA QueueIs ==
  ASSUME NEW s \in Arrangements, Chain(s)
  PROVE  Queue = IF Linking THEN SubSeq(s, 1, Len(s) - 1) ELSE s
<1> DEFINE t == CHOOSE t \in Arrangements : Chain(t)
<1>1. t \in Arrangements /\ Chain(t)
  OBVIOUS
<1> HIDE DEF t
<1>2. s \in Seq(Packet) /\ t \in Seq(Packet)
  BY <1>1, ArrangementsAre
<1>3. Len(s) = Len(t) /\ (Len(s) > 0 => s[1] = t[1])
  BY <1>1 DEF Chain
<1>4. /\ \A i \in 1..(Len(s) - 1) : next[s[i]] = s[i + 1]
      /\ \A i \in 1..(Len(t) - 1) : next[t[i]] = t[i + 1]
  BY <1>1 DEF Chain
<1>5. s = t
  BY <1>2, <1>3, <1>4, LinksDetermine
<1> QED BY <1>5 DEF Queue, t

(* The same of the next state. *)
LEMMA NextQueueIs ==
  ASSUME NEW s \in Arrangements, Chain(s)'
  PROVE  Queue' = IF Linking' THEN SubSeq(s, 1, Len(s) - 1) ELSE s
<1> DEFINE chains == {t \in Arrangements : Chain(t)'}
<1>1. ASSUME NEW t \in Arrangements, Chain(t)' PROVE s = t
  <2>1. s \in Seq(Packet) /\ t \in Seq(Packet)
    BY <1>1, ArrangementsAre
  <2>2. Len(s) = Len(t) /\ (Len(s) > 0 => s[1] = t[1])
    BY <1>1 DEF Chain
  <2>3. /\ \A i \in 1..(Len(s) - 1) : next'[s[i]] = s[i + 1]
        /\ \A i \in 1..(Len(t) - 1) : next'[t[i]] = t[i + 1]
    BY <1>1 DEF Chain
  <2> QED BY <2>1, <2>2, <2>3, LinksDetermine
<1>2. (CHOOSE t \in Arrangements : Chain(t)') = s
  BY <1>1
<1> QED BY <1>2 DEF Queue

-----------------------------------------------------------------------------
(* A list and the hands at first are an initial state of the queue. *)
LEMMA FifoInit == IInv /\ ChainInv /\ Init => Fifo!Init
<1> SUFFICES ASSUME IInv, ChainInv, Init PROVE Fifo!Init
  OBVIOUS
<1>1. PICK s \in Arrangements : Chain(s)
  BY DEF ChainInv, WellLinked
<1>2. ~Linking
  BY DEF Init, Linking
<1>3. Queue = s
  BY <1>1, <1>2, QueueIs
<1>4. hand \in [Core -> Packet \cup {NoPacket}]
  BY DEF IInv, TypeOK, Pointer
<1> QED BY <1>3, <1>4, ArrangementsAre DEF Fifo!Init, Fifo!IsInjective, IsInjective

(* Every step of the list is one of the queue or leaves it alone: the      *)
(* length's counting a packet is its append, the taking of the head is the *)
(* poll, and neither the links nor the other lists show.                   *)
LEMMA FifoStep ==
  IInv /\ ChainInv /\ ChainInv' /\ [Next]_vars => [Fifo!Next]_(Fifo!vars)
<1> SUFFICES ASSUME IInv, ChainInv, ChainInv', [Next]_vars
             PROVE  [Fifo!Next]_(Fifo!vars)
  OBVIOUS
<1> USE DEF Fifo!vars
<1>1. PICK s \in Arrangements : Chain(s) /\ HandsOff(s)
  BY DEF ChainInv, WellLinked
<1>2. s \in Seq(Packet) /\ Len(s) \in Nat
  BY ArrangementsAre
<1>3. pc \in [Core -> Label] /\ hand \in [Core -> Pointer]
  BY DEF IInv, TypeOK
<1>4. ASSUME NEW c \in Core, Moves(c) PROVE UNCHANGED Fifo!vars
  <2>1. Linking' = Linking /\ Unlinking' = Unlinking
    BY <1>3, <1>4, MovesAre DEF Linking, Unlinking
  <2>2. Chain(s)'
    BY <1>1, <1>4, <2>1, MovesAre DEF Chain, NodeCount
  <2> QED BY <1>1, <1>4, <2>1, <2>2, MovesAre, QueueIs, NextQueueIs
<1>5. ASSUME NEW c \in Core, AppendLink(c) PROVE UNCHANGED Fifo!vars
  <2> DEFINE t == Append(s, hand[c])
  <2>1. PICK p, u : p = hand[c] /\ u = t
    OBVIOUS
  <2>2. p \in Packet /\ u \in Arrangements /\ Chain(u)' /\ ~Linking /\ Linking'
    BY <1>1, <1>5, <2>1, AppendLinkExtends
  <2>3. SubSeq(u, 1, Len(u) - 1) = s
    <3>1. u = Append(s, p)
      BY <2>1
    <3> QED BY <1>2, <2>2, <3>1, AppendProperties, SubSeqProperties, SeqEqual
  <2>4. Queue' = Queue
    BY <1>1, <2>2, <2>3, QueueIs, NextQueueIs
  <2> QED BY <1>5, <2>4 DEF AppendLink
<1>6. ASSUME NEW c \in Core, AppendCount(c) PROVE Fifo!AppendList(c)
  <2> DEFINE q == SubSeq(s, 1, Len(s) - 1)
  <2>1. /\ Chain(s)' /\ Linking /\ ~Linking'
        /\ Len(s) > 0 /\ s[Len(s)] = hand[c]
    BY <1>1, <1>6, AppendCountCounts
  <2>2. Queue = q /\ Queue' = s
    BY <1>1, <2>1, QueueIs, NextQueueIs
  <2>3. s = Append(q, hand[c]) /\ hand[c] \in Packet
    <3>1. \A i \in 1..Len(s) : s[i] \in Packet
      BY <1>2
    <3>2. hand[c] \in Packet
      BY <1>2, <2>1, <3>1
    <3>3. /\ q \in Seq(Packet) /\ Len(q) = Len(s) - 1
          /\ \A i \in 1..(Len(s) - 1) : q[i] = s[i]
      <4>1. Len(s) - 1 \in Int /\ 1 \in Int /\ \A i \in 1..(Len(s) - 1) : s[i] \in Packet
        BY <1>2, <3>1
      <4>2. /\ q \in Seq(Packet)
            /\ Len(q) = IF 1 <= Len(s) - 1 THEN (Len(s) - 1) - 1 + 1 ELSE 0
            /\ \A i \in 1..((Len(s) - 1) - 1 + 1) : q[i] = s[1 + i - 1]
        BY <4>1, SubSeqProperties
      <4> HIDE DEF q
      <4>3. Len(q) = Len(s) - 1
        <5> DEFINE n == Len(s)
        <5>1. n \in Nat /\ n > 0
          BY <1>2, <2>1
        <5>2. Len(q) = IF 1 <= n - 1 THEN (n - 1) - 1 + 1 ELSE 0
          BY <4>2
        <5> HIDE DEF n
        <5>3. Len(q) = n - 1
          BY <5>1, <5>2
        <5> QED BY <5>3 DEF n
      <4>4. ASSUME NEW i \in 1..(Len(s) - 1) PROVE q[i] = s[i]
        <5>1. 1 + i - 1 = i /\ i \in 1..((Len(s) - 1) - 1 + 1)
          BY <1>2
        <5> QED BY <4>2, <5>1
      <4> QED BY <4>2, <4>3, <4>4
    <3>4. /\ Append(q, hand[c]) \in Seq(Packet) /\ Len(Append(q, hand[c])) = Len(s)
          /\ Append(q, hand[c])[Len(s)] = hand[c]
          /\ \A i \in 1..(Len(s) - 1) : Append(q, hand[c])[i] = s[i]
      BY <1>2, <3>2, <3>3, AppendProperties
    <3>5. \A i \in 1..Len(s) : s[i] = Append(q, hand[c])[i]
      BY <1>2, <2>1, <3>4
    <3> QED BY <1>2, <3>2, <3>4, <3>5, SeqEqual
  <2>4. hand[c] # NoPacket
    BY <2>3, PacketListAssumption
  <2> QED BY <1>6, <2>2, <2>3, <2>4 DEF Fifo!AppendList, AppendCount
<1>7. ASSUME NEW c \in Core, PollTake(c) PROVE Fifo!Poll(c)
  <2> DEFINE t == Tail(s)
  <2>1. /\ s # <<>> /\ head = s[1]
        /\ t \in Arrangements /\ Chain(t)' /\ ~Linking /\ ~Linking'
    <3>1. PICK u : u = t
      OBVIOUS
    <3> QED BY <1>1, <1>7, <3>1, PollTakeShortens
  <2>2. Queue = s /\ Queue' = t
    BY <1>1, <2>1, QueueIs, NextQueueIs
  <2>3. hand[c] = NoPacket
    BY <1>7 DEF ChainInv, Hands, PollTake, Goto
  <2>4. hand' = [hand EXCEPT ![c] = Head(s)]
    BY <1>2, <1>7, <2>1 DEF PollTake
  <2> QED BY <2>1, <2>2, <2>3, <2>4 DEF Fifo!Poll
<1>8. ASSUME NEW c \in Core, PollCount(c) PROVE UNCHANGED Fifo!vars
  <2>1. Chain(s)' /\ ~Linking /\ ~Linking'
    BY <1>1, <1>8, PollCountForgets
  <2> QED BY <1>1, <1>8, <2>1, QueueIs, NextQueueIs DEF PollCount
<1>9. ASSUME NEW c \in Core, OtherList(c) PROVE UNCHANGED Fifo!vars
  <2>1. Chain(s)'
    BY <1>1, <1>9, OtherListMissesChain
  <2>2. Linking' = Linking /\ hand' = hand
    BY <1>9 DEF OtherList, Linking
  <2> QED BY <1>1, <2>1, <2>2, QueueIs, NextQueueIs
<1>10. CASE UNCHANGED vars
  BY <1>10 DEF vars, Queue, Linking, Chain, NodeCount, Unlinking
<1> QED
  BY <1>4, <1>5, <1>6, <1>7, <1>8, <1>9, <1>10, NextSplit DEF Fifo!Next

(* list.c implements the first-in first-out queue list.h describes, each   *)
(* call taking effect at one instant between its call and its return, for  *)
(* any number of cores and packets.                                        *)
THEOREM ListIsFifo == Spec => ImplementsFifo
<1>1. IInv /\ ChainInv /\ Init => Fifo!Init
  BY FifoInit
<1>2. (IInv /\ ChainInv) /\ (IInv /\ ChainInv)' /\ [Next]_vars => [Fifo!Next]_(Fifo!vars)
  BY FifoStep
<1> QED
  BY <1>1, <1>2, ChainInvariance, PTL DEF Spec, ImplementsFifo, Fifo!Spec
=============================================================================
