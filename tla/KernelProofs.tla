---------------------------- MODULE KernelProofs ----------------------------
(***************************************************************************)
(* Theorems about Kernel, for any packets, keys and bounds.                *)
(*                                                                         *)
(* That printf() prints alone and that a report is a snapshot both come    *)
(* from one fact about all locks: a lock word is 1 exactly while one       *)
(* thread is in the section that the lock guards.  Types says what is      *)
(* needed to know which section that is.                                   *)
(*                                                                         *)
(* The types of the tables and totals (DataOK) do not depend on that; the  *)
(* lines of a report are typed because they are those of the tables.  That *)
(* core 2 implements Filter needs two more facts (Waiting): the boot is    *)
(* over when core 2 takes a packet, and it has no code left from another.  *)
(*                                                                         *)
(* That no threads wait in a circle rests on the locks, on Waiting and on  *)
(* one more fact (TrapStuck): a trap that comes in the middle of a message *)
(* of the boot stops before it can take the lock of a table.               *)
(***************************************************************************)
EXTENDS Kernel, NumberFacts, SequenceTheorems, TLAPS

Types ==
  /\ pc \in [Thread -> BootLabel \cup TrapLabel \cup CheckerLabel \cup ReportLabel]
  /\ pc["boot"] \in BootLabel
  /\ pc["trap"] \in TrapLabel \cup ReportLabel
  /\ pc["checker"] \in CheckerLabel \cup ReportLabel
  /\ printf \in [Thread -> {"out", "called", "locked", "printed"}]
  /\ lock \in [LockName -> {0, 1}]
  /\ sections \in [Reporter -> Seq(Section)]
  /\ \A t \in Reporter : pc[t] \in {"section_lock", "lines"} => sections[t] # <<>>
  /\ packet \in Arrival

Exclusion ==
  \A l \in LockName :
    /\ \A t, u \in Thread : Holds(t, l) /\ Holds(u, l) => t = u
    /\ lock[l] = 1 <=> \E t \in Thread : Holds(t, l)

(* What was printed is a sequence, of whatever lines, and empty between    *)
(* two sections.                                                           *)
PrintedOK ==
  /\ DOMAIN tables = TableName
  /\ DOMAIN printed = Reporter
  /\ \A t \in Reporter : \E S : printed[t] \in Seq(S)
  /\ \A t \in Reporter : pc[t] # "lines" => printed[t] = <<>>

KInv == Types /\ Exclusion

-----------------------------------------------------------------------------
(* The sections and locks by name; what a key asks for are sections. *)
LEMMA Sections ==
  /\ Section = {"spam", "vulnerable", "evil", "stats"}
  /\ LockName = {"spam", "vulnerable", "evil", "stats", "print"}
  /\ AllSections \in Seq(Section)
  /\ \A c : Requested(c) \in Seq(Section)
<1>1. Section = {"spam", "vulnerable", "evil", "stats"}
      /\ LockName = {"spam", "vulnerable", "evil", "stats", "print"}
  BY DEF Section, LockName, TableName
<1>2. AllSections \in Seq(Section)
  BY <1>1 DEF AllSections
<1>3. ASSUME NEW c PROVE Requested(c) \in Seq(Section)
  <2>1. <<>> \in Seq(Section) /\ \A x \in Section : <<x>> \in Seq(Section)
    OBVIOUS
  <2> QED BY <1>1, <1>2, <2>1 DEF Requested
<1> QED BY <1>1, <1>2, <1>3

(* The table of a packet's command has a lock. *)
LEMMA CommandTable == ASSUME packet \in Arrival PROVE packet.command.table \in TableName
PROOF BY KernelAssumption DEF Packet, Command

(* The section a thread is reporting, the head of its list, is a section. *)
LEMMA HeadSection ==
  ASSUME Types, NEW t \in Reporter, sections[t] # <<>>
  PROVE  Head(sections[t]) \in Section
PROOF BY DEF Types

-----------------------------------------------------------------------------
(* The three ways a step changes who is in a section: nobody moves, one    *)
(* thread enters, one thread leaves.                                       *)
Entered(t, l) ==
  \A u \in Thread, m \in LockName : Holds(u, m)' <=> Holds(u, m) \/ (u = t /\ m = l)

Left(t, l) ==
  \A u \in Thread, m \in LockName : Holds(u, m)' <=> Holds(u, m) /\ ~(u = t /\ m = l)

(* Exclusion is kept when no lock word and no section changes hands.      *)
LEMMA Stay ==
  ASSUME Exclusion, lock' = lock,
         \A t \in Thread, l \in LockName : Holds(t, l)' <=> Holds(t, l)
  PROVE  Exclusion'
PROOF BY DEF Exclusion

(* Exclusion is kept when a thread takes a free lock and enters.          *)
LEMMA Enter ==
  ASSUME Types, Exclusion, NEW t \in Thread, NEW l \in LockName,
         lock[l] = 0, lock' = [lock EXCEPT ![l] = 1], Entered(t, l)
  PROVE  Exclusion'
<1> SUFFICES ASSUME NEW m \in LockName
             PROVE  /\ \A u, v \in Thread : Holds(u, m)' /\ Holds(v, m)' => u = v
                    /\ lock'[m] = 1 <=> \E u \in Thread : Holds(u, m)'
  BY DEF Exclusion
<1>1. CASE m = l
  <2>1. \A u \in Thread : ~Holds(u, l)
    BY DEF Exclusion
  <2> QED BY <1>1, <2>1 DEF Types, Entered
<1>2. CASE m # l
  <2>1. \A u \in Thread : Holds(u, m)' <=> Holds(u, m)
    BY <1>2 DEF Entered
  <2>2. lock'[m] = lock[m]
    BY <1>2 DEF Types
  <2> QED BY <2>1, <2>2 DEF Exclusion
<1> QED BY <1>1, <1>2

(* Exclusion is kept when a thread leaves a section and clears its lock.  *)
LEMMA Leave ==
  ASSUME Types, Exclusion, NEW t \in Thread, NEW l \in LockName,
         Holds(t, l), lock' = [lock EXCEPT ![l] = 0], Left(t, l)
  PROVE  Exclusion'
<1> SUFFICES ASSUME NEW m \in LockName
             PROVE  /\ \A u, v \in Thread : Holds(u, m)' /\ Holds(v, m)' => u = v
                    /\ lock'[m] = 1 <=> \E u \in Thread : Holds(u, m)'
  BY DEF Exclusion
<1>1. CASE m = l
  <2>1. \A u \in Thread : ~Holds(u, l)'
    BY <1>1 DEF Exclusion, Left
  <2> QED BY <1>1, <2>1 DEF Types
<1>2. CASE m # l
  <2>1. \A u \in Thread : Holds(u, m)' <=> Holds(u, m)
    BY <1>2 DEF Left
  <2>2. lock'[m] = lock[m]
    BY <1>2 DEF Types
  <2> QED BY <2>1, <2>2 DEF Exclusion
<1> QED BY <1>1, <1>2

-----------------------------------------------------------------------------
(* The boot starts with all locks free and nobody in a section. *)
LEMMA KernelInit == Init => KInv
<1> SUFFICES ASSUME Init PROVE KInv
  OBVIOUS
<1>1. Types
  <2>1. pc \in [Thread -> BootLabel \cup TrapLabel \cup CheckerLabel \cup ReportLabel]
    BY DEF Init, Thread, BootLabel, TrapLabel, CheckerLabel
  <2>2. pc["boot"] \in BootLabel /\ pc["trap"] \in TrapLabel /\ pc["checker"] \in CheckerLabel
        /\ \A t \in Reporter : pc[t] \notin {"section_lock", "lines"}
    BY DEF Init, BootLabel, TrapLabel, CheckerLabel, Reporter
  <2>3. sections \in [Reporter -> Seq(Section)]
    BY DEF Init
  <2> QED BY <2>1, <2>2, <2>3 DEF Init, Types
<1>2. \A t \in Thread, l \in LockName : ~Holds(t, l)
  BY DEF Init, Holds, Printing, Reporter, Thread
<1>3. Exclusion
  BY <1>2 DEF Exclusion, Init
<1> QED BY <1>1, <1>3 DEF KInv

(* A thread goes on as Goto says and stays out of all sections, or in the  *)
(* same one.                                                               *)
LEMMA PrintfKeeps == ASSUME KInv, NEW t \in Thread, PrintfStep(t) PROVE KInv'
<1>1. Types /\ Exclusion /\ "print" \in LockName
  BY Sections DEF KInv
<1>2. Types'
  BY <1>1 DEF Types, PrintfStep, PrintfLock, PrintText, PrintfUnlock, factVars, reportVars
<1>3. UNCHANGED <<pc, sections, packet>>
  BY DEF PrintfStep, factVars, reportVars
<1>4. CASE PrintfLock(t)
  <2>1. Entered(t, "print")
    BY <1>1, <1>3, <1>4 DEF Entered, PrintfLock, Holds, Printing, Types
  <2> QED BY <1>1, <1>2, <1>4, <2>1, Enter DEF PrintfLock, KInv
<1>5. CASE PrintText(t)
  <2>1. \A u \in Thread, m \in LockName : Holds(u, m)' <=> Holds(u, m)
    BY <1>1, <1>3, <1>5 DEF PrintText, Holds, Printing, Types
  <2> QED BY <1>1, <1>2, <1>5, <2>1, Stay DEF PrintText, KInv
<1>6. CASE PrintfUnlock(t)
  <2>1. Left(t, "print")
    <3>1. \A u \in Thread : Printing(u)' <=> Printing(u) /\ u # t
      BY <1>1, <1>6 DEF PrintfUnlock, Printing, Types
    <3>2. \A s \in Section : s # "print"
      BY Sections
    <3>3. \A u \in Reporter : pc[u] = "lines" => Head(sections[u]) # "print"
      BY <1>1, <3>2, HeadSection DEF Types
    <3>4. packet.command.table # "print"
      BY <1>1, CommandTable DEF Types, TableName
    <3> QED BY <1>3, <3>1, <3>3, <3>4 DEF Left, Holds
  <2>2. Holds(t, "print")
    BY <1>6 DEF PrintfUnlock, Holds, Printing
  <2> QED BY <1>1, <1>2, <1>6, <2>1, <2>2, Leave DEF PrintfUnlock, KInv
<1> QED BY <1>4, <1>5, <1>6 DEF PrintfStep

(* The labels are different strings. *)
LEMMA Labels ==
  /\ Thread = {"boot", "trap", "checker"} /\ Reporter = {"trap", "checker"}
  /\ "lines" \in ReportLabel /\ "section_lock" \in ReportLabel /\ "report" \in ReportLabel
  /\ "lines" \notin TrapLabel \cup CheckerLabel \cup BootLabel
  /\ "section_lock" \notin TrapLabel \cup CheckerLabel \cup BootLabel
  /\ "command" \notin ReportLabel
PROOF BY DEF Thread, Reporter, BootLabel, ReportLabel, TrapLabel, CheckerLabel

(* What a step of the thread t outside of all sections leaves as it is. *)
LEMMA OutsideKeeps ==
  ASSUME Types, Types', Exclusion, NEW t \in Thread, NEW from, NEW to,
         Goto(t, from, to), UNCHANGED lock,
         printf' = printf \/ printf' = [printf EXCEPT ![t] = "called"],
         \A u \in Reporter : u # t => sections'[u] = sections[u],
         from = "lines" => sections' = sections,
         t = "checker" \/ packet' = packet,
         from \notin {"fill_evil", "fill_vulnerable", "fill_spam", "command"},
         to \notin {"fill_evil", "fill_vulnerable", "fill_spam", "command"},
         from = "lines" <=> to = "lines"
  PROVE  Exclusion'
<1>1. pc[t] = from /\ pc' = [pc EXCEPT ![t] = to] /\ printf[t] = "out"
  BY DEF Goto
<1>2. pc'[t] = to /\ \A u \in Thread : u # t => pc'[u] = pc[u]
  BY <1>1 DEF Types
<1>3. \A u \in Thread : Printing(u)' <=> Printing(u)
  BY <1>1 DEF Types, Printing
<1>4. ASSUME NEW u \in Thread, NEW l \in LockName PROVE Holds(u, l)' <=> Holds(u, l)
  <2>1. CASE u = t
    BY <1>1, <1>2, <1>3, <2>1, Labels DEF Holds
  <2>2. CASE u # t
    BY <1>1, <1>2, <1>3, <2>2, Labels DEF Holds
  <2> QED BY <2>1, <2>2
<1> QED BY <1>4, Stay

(* The boot; only the creation of a table takes a lock. *)
LEMMA BootKeeps == ASSUME KInv, BootStep PROVE KInv'
<1>1. Types /\ Exclusion
  BY DEF KInv
<1>2. "boot" \in Thread /\ "boot" \notin Reporter
  BY Labels
<1>3. ASSUME NEW from, NEW to \in BootLabel, BootPrint(from, to),
             from \notin {"fill_evil", "fill_vulnerable", "fill_spam", "command", "lines"},
             to \notin {"fill_evil", "fill_vulnerable", "fill_spam"}
      PROVE  KInv'
  <2>1. Types'
    BY <1>1, <1>2, <1>3, Labels DEF Types, BootPrint, Goto, CallPrintf, factVars, reportVars
  <2>2. Exclusion'
    BY <1>1, <1>2, <1>3, <2>1, Labels, OutsideKeeps
      DEF BootPrint, CallPrintf, factVars, reportVars, BootLabel
  <2> QED BY <2>1, <2>2 DEF KInv
<1>4. CASE KeyboardInit
  <2>1. "header_space_malloc" \in BootLabel
    BY DEF BootLabel
  <2>2. Types'
    BY <1>1, <1>2, <1>4, <2>1, Labels DEF Types, KeyboardInit, Goto, factVars, reportVars
  <2>3. Exclusion'
    BY <1>1, <1>2, <1>4, <2>2, Labels, OutsideKeeps DEF KeyboardInit, factVars, reportVars
  <2> QED BY <2>2, <2>3 DEF KInv
<1>5. CASE HeaderSpaceMalloc \/ GarbageListAlloc \/ InitialDmaRingSlot \/ StartReceive
  BY <1>3, <1>5 DEF HeaderSpaceMalloc, GarbageListAlloc, InitialDmaRingSlot, StartReceive, BootLabel
<1>6. ASSUME NEW l \in TableName, NEW from \in BootLabel, NEW to \in BootLabel,
             HashtableCreateLock(l, from, to),
             <<l, from, to>> \in {<<"evil", "create_evil", "fill_evil">>,
                                 <<"vulnerable", "create_vulnerable", "fill_vulnerable">>,
                                 <<"spam", "create_spam", "fill_spam">>}
      PROVE  KInv'
  <2>1. l \in LockName
    BY DEF LockName, Section
  <2>2. Types'
    BY <1>1, <1>2, <1>6, <2>1, Labels
      DEF Types, HashtableCreateLock, Goto, factVars, reportVars
  <2>3. pc["boot"] = from /\ pc'["boot"] = to /\ \A u \in Thread : u # "boot" => pc'[u] = pc[u]
    BY <1>1, <1>2, <1>6 DEF Types, HashtableCreateLock, Goto
  <2>4. UNCHANGED <<printf, sections, packet>> /\ lock[l] = 0 /\ lock' = [lock EXCEPT ![l] = 1]
    BY <1>6 DEF HashtableCreateLock, factVars, reportVars
  <2>5. Entered("boot", l)
    <3>1. ASSUME NEW u \in Thread, NEW m \in LockName
          PROVE  Holds(u, m)' <=> Holds(u, m) \/ (u = "boot" /\ m = l)
      <4>1. Printing(u)' <=> Printing(u)
        BY <2>4 DEF Printing
      <4>2. CASE u = "boot"
        BY <1>2, <1>6, <2>3, <4>1, <4>2 DEF Holds
      <4>3. CASE u # "boot"
        BY <2>3, <2>4, <4>1, <4>3 DEF Holds
      <4> QED BY <4>2, <4>3
    <3> QED BY <3>1 DEF Entered
  <2> QED BY <1>1, <1>2, <2>1, <2>2, <2>4, <2>5, Enter DEF KInv
<1>7. ASSUME NEW l \in TableName, NEW from \in BootLabel, NEW to \in BootLabel,
             HashtableCreate(l, from, to),
             <<l, from, to>> \in {<<"evil", "fill_evil", "create_vulnerable">>,
                                 <<"vulnerable", "fill_vulnerable", "create_spam">>,
                                 <<"spam", "fill_spam", "network_start_receive">>}
      PROVE  KInv'
  <2>1. l \in LockName /\ l # "print"
    BY DEF LockName, Section, TableName
  <2>2. Types'
    BY <1>1, <1>2, <1>7, <2>1, Labels
      DEF Types, HashtableCreate, Goto, factVars, reportVars
  <2>3. pc["boot"] = from /\ pc'["boot"] = to /\ \A u \in Thread : u # "boot" => pc'[u] = pc[u]
    BY <1>1, <1>2, <1>7 DEF Types, HashtableCreate, Goto
  <2>4. UNCHANGED <<printf, sections, packet>> /\ lock' = [lock EXCEPT ![l] = 0]
        /\ printf["boot"] = "out"
    BY <1>7 DEF HashtableCreate, factVars, reportVars, Goto
  <2>5. Left("boot", l)
    <3>1. ASSUME NEW u \in Thread, NEW m \in LockName
          PROVE  Holds(u, m)' <=> Holds(u, m) /\ ~(u = "boot" /\ m = l)
      <4>1. Printing(u)' <=> Printing(u)
        BY <2>4 DEF Printing
      <4>2. CASE u = "boot"
        BY <1>2, <1>7, <2>1, <2>3, <2>4, <4>1, <4>2 DEF Holds, Printing
      <4>3. CASE u # "boot"
        BY <2>3, <2>4, <4>1, <4>3 DEF Holds
      <4> QED BY <4>2, <4>3
    <3> QED BY <3>1 DEF Left
  <2>6. Holds("boot", l)
    BY <1>7, <2>3 DEF Holds
  <2> QED BY <1>1, <1>2, <2>1, <2>2, <2>4, <2>5, <2>6, Leave DEF KInv
<1>8. CASE CreateTables
  <2>1. {"create_evil", "fill_evil", "create_vulnerable", "fill_vulnerable", "create_spam",
         "fill_spam", "network_start_receive"} \subseteq BootLabel
        /\ {"evil", "vulnerable", "spam"} \subseteq TableName
    BY DEF BootLabel, TableName
  <2> QED BY <1>6, <1>7, <1>8, <2>1 DEF CreateTables
<1> QED BY <1>4, <1>5, <1>8 DEF BootStep

(* The trap, but for its report. *)
LEMMA TrapKeeps == ASSUME KInv, Interrupt \/ TrapStep PROVE KInv'
<1>1. Types /\ Exclusion
  BY DEF KInv
<1>2. "trap" \in Thread /\ "trap" \in Reporter
  BY Labels
<1>3. ASSUME NEW from \in TrapLabel, NEW to \in TrapLabel \cup {"report"}, Goto("trap", from, to),
             UNCHANGED <<lock, packet>>,
             printf' = printf \/ printf' = [printf EXCEPT !["trap"] = "called"],
             \/ sections' = sections
             \/ \E c : sections' = [sections EXCEPT !["trap"] = Requested(c)]
      PROVE  KInv'
  <2>1. Types'
    <3>1. sections' \in [Reporter -> Seq(Section)] /\ sections'["checker"] = sections["checker"]
      <4>1. CASE sections' = sections
        BY <1>1, <4>1 DEF Types
      <4>2. CASE \E c : sections' = [sections EXCEPT !["trap"] = Requested(c)]
        <5>1. PICK c : sections' = [sections EXCEPT !["trap"] = Requested(c)]
          BY <4>2
        <5>2. Requested(c) \in Seq(Section)
          BY Sections
        <5> HIDE DEF Requested
        <5> QED BY <1>1, <1>2, <5>1, <5>2, Labels DEF Types
      <4> QED BY <1>3, <4>1, <4>2
    <3>2. pc' = [pc EXCEPT !["trap"] = to]
      BY <1>3 DEF Goto
    <3>3. pc' \in [Thread -> BootLabel \cup TrapLabel \cup CheckerLabel \cup ReportLabel]
          /\ pc'["boot"] = pc["boot"] /\ pc'["checker"] = pc["checker"] /\ pc'["trap"] = to
      BY <1>1, <1>2, <3>2, Labels DEF Types
    <3>4. \A t \in Reporter : pc'[t] \in {"section_lock", "lines"} => sections'[t] # <<>>
      BY <1>1, <1>3, <3>1, <3>3, Labels DEF Types
    <3>5. printf' \in [Thread -> {"out", "called", "locked", "printed"}]
      BY <1>1, <1>3 DEF Types
    <3> QED BY <1>1, <1>3, <3>1, <3>3, <3>4, <3>5, Labels DEF Types
  <2>2. \A u \in Reporter : u # "trap" => sections'[u] = sections[u]
    BY <1>1, <1>3 DEF Types
  <2>3. from \notin {"fill_evil", "fill_vulnerable", "fill_spam", "command", "lines"}
        /\ to \notin {"fill_evil", "fill_vulnerable", "fill_spam", "command", "lines"}
    BY <1>3, Labels DEF TrapLabel
  <2>4. Exclusion'
    BY <1>1, <1>2, <1>3, <2>1, <2>2, <2>3, OutsideKeeps
  <2> QED BY <2>1, <2>4 DEF KInv
<1>4. {"none", "trap_handler", "interrupt_handler", "keyboard_trap"} \subseteq TrapLabel
  BY DEF TrapLabel
<1>5. CASE Interrupt
  BY <1>3, <1>4, <1>5 DEF Interrupt, reportVars, factVars
<1>6. CASE TrapHandler
  BY <1>3, <1>4, <1>6 DEF TrapHandler, TrapPrint, CallPrintf, reportVars, factVars
<1>7. CASE InterruptHandler
  BY <1>3, <1>4, <1>7 DEF InterruptHandler, TrapPrint, CallPrintf, reportVars, factVars
<1>8. CASE KeyboardTrap
  BY <1>3, <1>4, <1>8 DEF KeyboardTrap, factVars
<1>9. CASE TrapReturn
  BY <1>3, <1>4, <1>9 DEF TrapReturn, reportVars, factVars
<1> QED BY <1>5, <1>6, <1>7, <1>8, <1>9 DEF TrapStep

(* A report takes the lock of its first section and gives it back when it  *)
(* drops the section.                                                      *)
LEMMA ReportKeeps ==
  ASSUME KInv, NEW t \in Reporter, ReportStep(t) \/ (t = "trap" /\ ReportFault(t))
  PROVE  KInv'
<1>1. Types /\ Exclusion /\ t \in Thread
  BY Labels DEF KInv
<1>2. {"keyboard_trap", "shutdown"} \subseteq TrapLabel /\ "check_spam" \in CheckerLabel
  BY DEF TrapLabel, CheckerLabel
<1>3. ASSUME NEW from \in ReportLabel, NEW to, Goto(t, from, to),
             to \in ReportLabel \/ (t = "trap" /\ to \in TrapLabel)
                                \/ (t = "checker" /\ to \in CheckerLabel),
             UNCHANGED <<lock, packet, sections>>,
             printf' = printf \/ printf' = [printf EXCEPT ![t] = "called"],
             to = "section_lock" => sections[t] # <<>>,
             from = "lines" <=> to = "lines",
             to # "command"
      PROVE  KInv'
  <2>1. Types'
    <3>1. pc' = [pc EXCEPT ![t] = to] /\ pc[t] = from
      BY <1>3 DEF Goto
    <3>2. \A u \in Reporter : pc'[u] \in {"section_lock", "lines"} => sections'[u] # <<>>
      BY <1>1, <1>3, <3>1, Labels DEF Types
    <3> QED BY <1>1, <1>3, <3>1, <3>2, Labels DEF Types
  <2>2. from \notin {"fill_evil", "fill_vulnerable", "fill_spam", "command"}
        /\ to \notin {"fill_evil", "fill_vulnerable", "fill_spam", "command"}
    BY <1>3 DEF ReportLabel, TrapLabel, CheckerLabel
  <2>3. Exclusion'
    BY <1>1, <1>3, <2>1, <2>2, OutsideKeeps
  <2> QED BY <2>1, <2>3 DEF KInv
<1>4. CASE ReportTitle(t)
  <2>1. Goto(t, "report", "section_lock") /\ sections[t] # <<>>
        /\ (printf' = printf \/ printf' = [printf EXCEPT ![t] = "called"])
        /\ UNCHANGED <<lock, packet, sections>>
    BY <1>4 DEF ReportTitle, CallPrintf, reportVars, factVars
  <2> QED BY <1>3, <2>1, Labels
<1>5. CASE ReportDone(t)
  <2> DEFINE to == IF t = "trap" THEN "keyboard_trap" ELSE "check_spam"
  <2>1. Goto(t, "report", to) /\ UNCHANGED <<printf, lock, packet, sections>>
    BY <1>5 DEF ReportDone, reportVars, factVars
  <2>2. to \notin {"lines", "section_lock", "command"}
        /\ (t = "trap" => to \in TrapLabel) /\ (t = "checker" => to \in CheckerLabel)
    BY <1>2
  <2> HIDE DEF to
  <2> QED BY <1>3, <2>1, <2>2, Labels
<1>6. CASE t = "trap" /\ ReportFault(t)
  BY <1>2, <1>3, <1>6, Labels DEF ReportFault, reportVars, factVars
<1>7. CASE ReportLine(t)
  BY <1>3, <1>7, Labels DEF ReportLine, CallPrintf, factVars
<1>8. CASE ReportLock(t)
  <2> DEFINE l == Head(sections[t])
  <2>1. l \in Section /\ l \in LockName /\ lock[l] = 0 /\ lock' = [lock EXCEPT ![l] = 1]
        /\ printf' = [printf EXCEPT ![t] = "called"] /\ UNCHANGED <<packet, sections>>
    BY <1>1, <1>8, HeadSection, Sections DEF ReportLock, CallPrintf, reportVars, factVars
  <2> HIDE DEF l
  <2>2. pc[t] = "section_lock" /\ pc' = [pc EXCEPT ![t] = "lines"]
    BY <1>8 DEF ReportLock, Goto
  <2>3. pc'[t] = "lines" /\ \A u \in Thread : u # t => pc'[u] = pc[u]
    BY <1>1, <2>2 DEF Types
  <2>4. Types'
    BY <1>1, <2>1, <2>2, Labels DEF Types
  <2>5. Entered(t, l)
    <3>1. ASSUME NEW u \in Thread, NEW m \in LockName
          PROVE  Holds(u, m)' <=> Holds(u, m) \/ (u = t /\ m = l)
      <4>1. Printing(u)' <=> Printing(u)
        <5>1. printf[t] = "out"
          BY <1>8 DEF ReportLock, Goto, Running
        <5> QED BY <1>1, <2>1, <5>1 DEF Printing, Types
      <4>2. CASE u = t
        BY <1>1, <2>1, <2>2, <2>3, <4>1, <4>2, Labels DEF Holds, l
      <4>3. CASE u # t
        BY <2>1, <2>3, <4>1, <4>3 DEF Holds
      <4> QED BY <4>2, <4>3
    <3> QED BY <3>1 DEF Entered
  <2> QED BY <1>1, <2>1, <2>4, <2>5, Enter DEF KInv
<1>9. CASE ReportUnlock(t)
  <2>1. pc[t] = "lines" /\ pc' = [pc EXCEPT ![t] = "report"] /\ printf[t] = "out"
    BY <1>9 DEF ReportUnlock, Goto
  <2>0. PICK l \in Section : l = Head(sections[t])
    BY <1>1, <2>1, HeadSection DEF Types
  <2>2. l \in Section /\ l \in LockName /\ l # "print" /\ lock' = [lock EXCEPT ![l] = 0]
        /\ UNCHANGED <<printf, packet>> /\ sections' = [sections EXCEPT ![t] = Tail(@)]
    BY <1>9, <2>0, Sections DEF ReportUnlock, factVars, Types
  <2>3. pc'[t] = "report" /\ \A u \in Thread : u # t => pc'[u] = pc[u]
    BY <1>1, <2>1 DEF Types
  <2>4. sections' \in [Reporter -> Seq(Section)]
    BY <1>1, <2>1, <2>2 DEF Types
  <2>5. \A u \in Reporter : u # t => sections'[u] = sections[u]
    BY <1>1, <2>2 DEF Types
  <2>6. Types'
    BY <1>1, <2>1, <2>2, <2>3, <2>4, <2>5, Labels DEF Types
  <2>7. Left(t, l)
    <3>1. ASSUME NEW u \in Thread, NEW m \in LockName
          PROVE  Holds(u, m)' <=> Holds(u, m) /\ ~(u = t /\ m = l)
      <4>1. Printing(u)' <=> Printing(u)
        BY <2>2 DEF Printing
      <4>2. CASE u = t
        <5>1. ~Printing(t)
          BY <2>1 DEF Printing
        <5> QED BY <1>1, <2>0, <2>1, <2>2, <2>3, <4>1, <4>2, <5>1, Labels DEF Holds
      <4>3. CASE u # t
        BY <2>2, <2>3, <2>5, <4>1, <4>3 DEF Holds
      <4> QED BY <4>2, <4>3
    <3> QED BY <3>1 DEF Left
  <2>8. Holds(t, l)
    BY <2>0, <2>1 DEF Holds
  <2>9. l \in LockName /\ lock' = [lock EXCEPT ![l] = 0]
    BY <2>2
  <2>10. Exclusion'
    BY <1>1, <2>7, <2>8, <2>9, Leave
  <2> QED BY <2>6, <2>10 DEF KInv
<1> QED BY <1>4, <1>5, <1>6, <1>7, <1>8, <1>9 DEF ReportStep

(* Steps of core 2 other than its reports keep the invariant. *)
LEMMA CheckerKeeps ==
  ASSUME KInv, (\E p \in Arrival : PollCheck(p)) \/ CheckerWork
  PROVE  KInv'
<1>1. Types /\ Exclusion
  BY DEF KInv
<1>2. "checker" \in Thread /\ "checker" \in Reporter
  BY Labels
<1>3. ASSUME NEW from \in CheckerLabel, NEW to \in CheckerLabel \cup {"report"},
             Goto("checker", from, to), from # "command", to # "command",
             lock' = lock, printf' = printf, packet' \in Arrival,
             sections' = sections \/ sections' = [sections EXCEPT !["checker"] = AllSections]
      PROVE  KInv'
  <2>1. pc' = [pc EXCEPT !["checker"] = to]
    BY <1>3 DEF Goto
  <2>2. sections' \in [Reporter -> Seq(Section)] /\ sections'["trap"] = sections["trap"]
    <3> HIDE DEF AllSections
    <3> QED BY <1>1, <1>2, <1>3, Sections, Labels DEF Types
  <2>3. pc' \in [Thread -> BootLabel \cup TrapLabel \cup CheckerLabel \cup ReportLabel]
        /\ pc'["boot"] = pc["boot"] /\ pc'["trap"] = pc["trap"] /\ pc'["checker"] = to
    BY <1>1, <1>2, <2>1, Labels DEF Types
  <2>4. \A t \in Reporter : pc'[t] \in {"section_lock", "lines"} => sections'[t] # <<>>
    BY <1>1, <1>3, <2>2, <2>3, Labels DEF Types
  <2>5. Types'
    BY <1>1, <1>3, <2>2, <2>3, <2>4, Labels DEF Types
  <2>6. from \notin {"fill_evil", "fill_vulnerable", "fill_spam", "lines"}
        /\ to \notin {"fill_evil", "fill_vulnerable", "fill_spam", "lines"}
    BY <1>3, Labels DEF CheckerLabel
  <2>7. \A u \in Reporter : u # "checker" => sections'[u] = sections[u]
    BY <2>2, Labels
  <2>8. Exclusion'
    BY <1>1, <1>2, <1>3, <2>5, <2>6, <2>7, OutsideKeeps
  <2> QED BY <2>5, <2>8 DEF KInv
<1>4. CheckerLabel = {"poll_check", "execute", "command", "check_spam",
                      "check_vulnerable", "check_evil", "update_stats"}
  BY DEF CheckerLabel
<1>5. packet \in Arrival
  BY <1>1 DEF Types
<1>6. CASE \E p \in Arrival : PollCheck(p)
  BY <1>3, <1>4, <1>6 DEF PollCheck, reportVars
<1>7. CASE ExecuteNothing
  BY <1>3, <1>4, <1>5, <1>7 DEF ExecuteNothing, reportVars, factVars
<1>8. CASE ExecutePrint
  BY <1>3, <1>4, <1>5, <1>8 DEF ExecutePrint, factVars
<1>9. CASE CheckSpam \/ CheckVulnerable \/ CheckEvil
  BY <1>3, <1>4, <1>5, <1>9 DEF CheckSpam, CheckVulnerable, CheckEvil, CheckTable, reportVars
<1>10. CASE CountPacket
  BY <1>3, <1>4, <1>5, <1>10 DEF CountPacket, reportVars
<1>11. CASE ExecuteLock
  <2> DEFINE l == packet.command.table
  <2>1. l \in LockName /\ lock[l] = 0 /\ lock' = [lock EXCEPT ![l] = 1]
        /\ UNCHANGED <<packet, sections>>
    BY <1>5, <1>11, CommandTable, Sections DEF ExecuteLock, reportVars, factVars, TableName
  <2>2. pc["checker"] = "execute" /\ pc' = [pc EXCEPT !["checker"] = "command"]
    BY <1>11 DEF ExecuteLock, Goto
  <2>3. pc'["checker"] = "command" /\ \A u \in Thread : u # "checker" => pc'[u] = pc[u]
    BY <1>1, <1>2, <2>2 DEF Types
  <2>4. \A u \in Thread : Printing(u)' <=> Printing(u)
    BY <1>1, <1>11 DEF ExecuteLock, Goto, CallPrintf, Printing, Types
  <2>5. printf' \in [Thread -> {"out", "called", "locked", "printed"}]
    BY <1>1, <1>11 DEF ExecuteLock, CallPrintf, Types
  <2>6. l = packet.command.table
    OBVIOUS
  <2> HIDE DEF l
  <2>7. Types'
    BY <1>1, <1>4, <2>1, <2>2, <2>3, <2>5, Labels DEF Types
  <2>8. Entered("checker", l)
    <3>1. ASSUME NEW u \in Thread, NEW m \in LockName
          PROVE  Holds(u, m)' <=> Holds(u, m) \/ (u = "checker" /\ m = l)
      <4>1. CASE u = "checker"
        BY <1>2, <2>1, <2>2, <2>3, <2>4, <2>6, <4>1 DEF Holds
      <4>2. CASE u # "checker"
        BY <2>1, <2>3, <2>4, <4>2 DEF Holds
      <4> QED BY <4>1, <4>2
    <3> QED BY <3>1 DEF Entered
  <2>9. Exclusion'
    BY <1>1, <1>2, <2>1, <2>8, Enter
  <2> QED BY <2>7, <2>9 DEF KInv
<1>12. CASE ExecuteCommand
  <2> DEFINE l == packet.command.table
  <2>1. l \in LockName /\ l # "print" /\ lock' = [lock EXCEPT ![l] = 0]
        /\ UNCHANGED <<packet, printf, sections>>
    BY <1>5, <1>12, CommandTable, Sections DEF ExecuteCommand, reportVars, TableName
  <2>2. pc["checker"] = "command" /\ pc' = [pc EXCEPT !["checker"] = "check_spam"]
        /\ printf["checker"] = "out"
    BY <1>12 DEF ExecuteCommand, Goto
  <2>3. pc'["checker"] = "check_spam" /\ \A u \in Thread : u # "checker" => pc'[u] = pc[u]
    BY <1>1, <1>2, <2>2 DEF Types
  <2>4. l = packet.command.table
    OBVIOUS
  <2> HIDE DEF l
  <2>5. Types'
    BY <1>1, <1>4, <2>1, <2>2, <2>3, Labels DEF Types
  <2>6. Left("checker", l)
    <3>1. ASSUME NEW u \in Thread, NEW m \in LockName
          PROVE  Holds(u, m)' <=> Holds(u, m) /\ ~(u = "checker" /\ m = l)
      <4>1. Printing(u)' <=> Printing(u)
        BY <2>1 DEF Printing
      <4>2. CASE u = "checker"
        <5>1. ~Printing("checker")
          BY <2>2 DEF Printing
        <5> QED BY <1>2, <2>1, <2>2, <2>3, <2>4, <4>1, <4>2, <5>1 DEF Holds
      <4>3. CASE u # "checker"
        BY <2>1, <2>3, <4>1, <4>3 DEF Holds
      <4> QED BY <4>2, <4>3
    <3> QED BY <3>1 DEF Left
  <2>7. Holds("checker", l)
    BY <2>2, <2>4 DEF Holds
  <2>8. l \in LockName /\ lock' = [lock EXCEPT ![l] = 0]
    BY <2>1
  <2>9. Exclusion'
    BY <1>1, <1>2, <2>6, <2>7, <2>8, Leave
  <2> QED BY <2>5, <2>9 DEF KInv
<1> QED
  BY <1>6, <1>7, <1>8, <1>9, <1>10, <1>11, <1>12 DEF CheckerWork

-----------------------------------------------------------------------------
(* Every step of every thread keeps the invariant. *)
LEMMA KernelStep == KInv /\ [Next]_vars => KInv'
<1> SUFFICES ASSUME KInv, [Next]_vars PROVE KInv'
  OBVIOUS
<1>1. CASE UNCHANGED vars \/ \E c \in Char : Type(c)
  <2>1. UNCHANGED <<pc, printf, lock, sections, packet>>
    BY <1>1 DEF vars, Type, waitVars, reportVars, factVars
  <2>2. Types'
    BY <2>1 DEF KInv, Types
  <2>3. Exclusion'
    BY <2>1, Stay DEF KInv, Holds, Printing
  <2> QED BY <2>2, <2>3 DEF KInv
<1>2. CASE \E t \in Thread : PrintfStep(t)
  BY <1>2, PrintfKeeps
<1>3. CASE BootStep
  BY <1>3, BootKeeps
<1>4. CASE Interrupt \/ TrapStep
  BY <1>4, TrapKeeps
<1>5. CASE ReportFault("trap") \/ \E t \in Reporter : ReportStep(t)
  BY <1>5, ReportKeeps, Labels
<1>6. CASE CheckerWork \/ \E p \in Arrival : PollCheck(p)
  BY <1>6, CheckerKeeps
<1> QED BY <1>1, <1>2, <1>3, <1>4, <1>5, <1>6 DEF Next

(* In every behaviour, locks exclude. *)
LEMMA LocksExclude == Spec => []KInv
<1> QED BY KernelInit, KernelStep, PTL DEF Spec

(* No two messages are printed at the same time, whatever core 2 does and  *)
(* wherever a trap interrupts the boot.                                    *)
THEOREM PrintfExcludes == Spec => []PrintAlone
<1>1. KInv => PrintAlone
  <2> SUFFICES ASSUME KInv PROVE PrintAlone
    OBVIOUS
  <2>1. "print" \in LockName
    BY Sections
  <2>2. \A s \in Section : s # "print"
    BY Sections
  <2>3. \A u \in Reporter : pc[u] = "lines" => Head(sections[u]) # "print"
    BY <2>2, HeadSection DEF KInv, Types
  <2>4. packet.command.table # "print"
    BY CommandTable DEF KInv, Types, TableName
  <2>5. \A t \in Thread : Holds(t, "print") <=> Printing(t)
    BY <2>3, <2>4 DEF Holds
  <2> QED BY <2>1, <2>5 DEF KInv, Exclusion, PrintAlone
<1> QED BY <1>1, LocksExclude, PTL

-----------------------------------------------------------------------------
(* The steps that change a table, the totals or the code. *)
Writes ==
  \/ \E l \in TableName, from, to \in BootLabel :
       /\ HashtableCreate(l, from, to)
       /\ <<from, l>> \in {<<"fill_evil", "evil">>, <<"fill_spam", "spam">>,
                           <<"fill_vulnerable", "vulnerable">>}
  \/ ExecuteCommand
  \/ \E l \in TableName, from, to \in CheckerLabel : CheckTable(l, from, to)
  \/ CountPacket

(* Only the steps Writes names change a table, the totals or the code.       *)
LEMMA WritersOnly == ASSUME [Next]_vars PROVE Writes \/ UNCHANGED <<tables, stats, code>>
<1>1. CASE UNCHANGED vars \/ \E c \in Char : Type(c)
  BY <1>1 DEF vars, Type, factVars
<1>2. CASE \E p \in Arrival : PollCheck(p)
  BY <1>2 DEF PollCheck
<1>3. CASE \E t \in Thread : PrintfStep(t)
  BY <1>3 DEF PrintfStep, factVars
<1>4. CASE \E t \in Reporter : ReportStep(t)
  BY <1>4 DEF ReportStep, ReportTitle, ReportDone, ReportLock, ReportLine, ReportUnlock, factVars
<1>5. CASE CreateTables
  <2>1. {"create_evil", "fill_evil", "create_vulnerable", "fill_vulnerable", "create_spam",
         "fill_spam", "network_start_receive"} \subseteq BootLabel
        /\ {"evil", "vulnerable", "spam"} \subseteq TableName
    BY DEF BootLabel, TableName
  <2>2. ASSUME NEW l, NEW from, NEW to, HashtableCreateLock(l, from, to)
        PROVE  UNCHANGED <<tables, stats, code>>
    BY <2>2 DEF HashtableCreateLock, factVars
  <2> QED BY <1>5, <2>1, <2>2 DEF CreateTables, Writes
<1>6. CASE BootStep /\ ~CreateTables
  BY <1>6 DEF BootStep, KeyboardInit, HeaderSpaceMalloc, GarbageListAlloc, InitialDmaRingSlot,
    StartReceive, BootPrint, factVars
<1>7. CASE Interrupt \/ TrapStep \/ ReportFault("trap")
  BY <1>7 DEF Interrupt, TrapStep, TrapHandler, InterruptHandler, TrapPrint, KeyboardTrap,
    TrapReturn, ReportFault, factVars
<1>8. CASE CheckerWork
  <2>1. {"check_spam", "check_vulnerable", "check_evil", "update_stats"} \subseteq CheckerLabel
        /\ {"evil", "vulnerable", "spam"} \subseteq TableName
    BY DEF CheckerLabel, TableName
  <2>2. CASE ExecuteNothing \/ ExecutePrint \/ ExecuteLock
    BY <2>2 DEF ExecuteNothing, ExecutePrint, ExecuteLock, factVars
  <2>3. CASE CheckSpam \/ CheckVulnerable \/ CheckEvil
    BY <2>1, <2>3 DEF CheckSpam, CheckVulnerable, CheckEvil, Writes
  <2> QED BY <1>8, <2>2, <2>3 DEF CheckerWork, Writes
<1> QED BY <1>1, <1>2, <1>3, <1>4, <1>5, <1>6, <1>7, <1>8 DEF Next, BootStep

(* While a thread reports a section, nobody changes it.                    *)
LEMMA SectionStands ==
  ASSUME KInv, PrintedOK, [Next]_vars, NEW t \in Reporter, pc[t] = "lines"
  PROVE  Lines(Head(sections[t]))' = Lines(Head(sections[t]))
         \/ sections'[t] # sections[t]
<1>1. PICK l \in Section : l = Head(sections[t])
  BY HeadSection DEF KInv, Types
<1>2. l \in LockName /\ Holds(t, l) /\ t \in Thread
  BY <1>1, Sections, Labels DEF Holds
<1>3. lock[l] = 1 /\ \A u \in Thread : Holds(u, l) => u = t
  BY <1>2 DEF KInv, Exclusion
<1>4. (l = "stats" => stats' = stats) /\ (l # "stats" => tables'[l] = tables[l])
  <2>1. l # "stats" => l \in DOMAIN tables
    BY <1>1 DEF PrintedOK, Section
  <2>2. CASE \E k \in TableName, from, to \in BootLabel :
               /\ HashtableCreate(k, from, to)
               /\ <<from, k>> \in {<<"fill_evil", "evil">>, <<"fill_spam", "spam">>,
                                   <<"fill_vulnerable", "vulnerable">>}
    <3>1. PICK k \in TableName, from, to \in BootLabel :
               /\ HashtableCreate(k, from, to)
               /\ <<from, k>> \in {<<"fill_evil", "evil">>, <<"fill_spam", "spam">>,
                                   <<"fill_vulnerable", "vulnerable">>}
      BY <2>2
    <3>2. pc["boot"] = from
      BY <3>1 DEF HashtableCreate, Goto
    <3>3. Holds("boot", k)
      BY <3>1, <3>2 DEF Holds
    <3>4. k # l
      BY <1>3, <3>3, Labels
    <3>5. stats' = stats /\ tables' = [tables EXCEPT ![k] = Unlisted(Word)]
      BY <3>1 DEF HashtableCreate
    <3> HIDE DEF Unlisted
    <3> QED BY <2>1, <3>4, <3>5
  <2>3. CASE ExecuteCommand
    <3>1. pc["checker"] = "command" /\ stats' = stats /\ tables' = Execute(tables, packet)
      BY <2>3 DEF ExecuteCommand, Goto
    <3>2. Holds("checker", packet.command.table)
      BY <3>1 DEF Holds
    <3>3. packet.command.table # l
      <4>1. t # "checker"
        BY <3>1
      <4> QED BY <1>3, <3>2, <4>1, Labels
    <3> QED BY <2>1, <3>1, <3>3 DEF Execute
  <2>4. CASE \E k \in TableName, from, to \in CheckerLabel : CheckTable(k, from, to)
    <3>1. PICK k \in TableName : lock[k] = 0 /\ stats' = stats
                                /\ tables' = Observe(tables, packet, k)
      BY <2>4 DEF CheckTable
    <3>2. k # l
      BY <1>3, <3>1
    <3> QED BY <2>1, <3>1, <3>2 DEF Observe
  <2>5. CASE CountPacket
    BY <1>3, <2>5 DEF CountPacket
  <2> QED BY <2>2, <2>3, <2>4, <2>5, WritersOnly DEF Writes
<1>5. CASE sections'[t] = sections[t]
  BY <1>1, <1>4, <1>5 DEF Lines
<1> QED BY <1>5

-----------------------------------------------------------------------------
(* Thread u does not report and leaves the other threads alone. *)
Elsewhere(u) ==
  /\ pc[u] # "lines"
  /\ \A v \in Thread : v # u => pc'[v] = pc[v]
  /\ \A v \in Reporter : v # u => sections'[v] = sections[v]

(* Steps that are no part of a report leave the other reports where they are. *)
LEMMA NoReportMoves ==
  ASSUME KInv, BootStep \/ Interrupt \/ TrapStep \/ ReportFault("trap") \/ CheckerWork
               \/ \E p \in Arrival : PollCheck(p)
  PROVE  \E u \in Thread : Elsewhere(u)
<1>1. pc \in [Thread -> BootLabel \cup TrapLabel \cup CheckerLabel \cup ReportLabel]
      /\ sections \in [Reporter -> Seq(Section)]
  BY DEF KInv, Types
<1>2. ASSUME NEW u \in Thread, NEW from, NEW to, Goto(u, from, to), from # "lines",
             sections' = sections \/ \E x : sections' = [sections EXCEPT ![u] = x]
      PROVE  Elsewhere(u)
  BY <1>1, <1>2 DEF Goto, Elsewhere
<1>3. {"boot", "trap", "checker"} \subseteq Thread
  BY Labels
<1>4. CASE BootStep
  <2>1. ASSUME NEW from, NEW to, from # "lines", BootPrint(from, to) PROVE Elsewhere("boot")
    BY <1>2, <1>3, <2>1 DEF BootPrint, reportVars
  <2>2. ASSUME NEW l, NEW from, NEW to, from # "lines", HashtableCreateLock(l, from, to)
        PROVE  Elsewhere("boot")
    BY <1>2, <1>3, <2>2 DEF HashtableCreateLock, reportVars
  <2>3. ASSUME NEW l, NEW from, NEW to, from # "lines", HashtableCreate(l, from, to)
        PROVE  Elsewhere("boot")
    BY <1>2, <1>3, <2>3 DEF HashtableCreate, reportVars
  <2>4. CASE KeyboardInit
    BY <1>2, <1>3, <2>4 DEF KeyboardInit, reportVars
  <2>5. CASE CreateTables
    BY <1>3, <2>2, <2>3, <2>5 DEF CreateTables
  <2>6. CASE HeaderSpaceMalloc \/ GarbageListAlloc \/ InitialDmaRingSlot \/ StartReceive
    BY <1>3, <2>1, <2>6 DEF HeaderSpaceMalloc, GarbageListAlloc, InitialDmaRingSlot, StartReceive
  <2> QED BY <1>4, <2>4, <2>5, <2>6 DEF BootStep
<1>5. CASE Interrupt \/ TrapStep \/ ReportFault("trap")
  <2>1. CASE Interrupt \/ TrapReturn \/ ReportFault("trap")
    BY <1>2, <1>3, <2>1 DEF Interrupt, TrapReturn, ReportFault, reportVars
  <2>2. CASE TrapHandler \/ InterruptHandler
    BY <1>2, <1>3, <2>2 DEF TrapHandler, InterruptHandler, TrapPrint, reportVars
  <2>3. CASE KeyboardTrap
    BY <1>2, <1>3, <2>3 DEF KeyboardTrap
  <2> QED BY <1>5, <2>1, <2>2, <2>3 DEF TrapStep
<1>6. CASE CheckerWork \/ \E p \in Arrival : PollCheck(p)
  <2>1. CASE ExecuteNothing \/ ExecuteLock \/ ExecuteCommand
    BY <1>2, <1>3, <2>1 DEF ExecuteNothing, ExecuteLock, ExecuteCommand, reportVars
  <2>2. CASE ExecutePrint
    BY <1>2, <1>3, <2>2 DEF ExecutePrint
  <2>3. CASE CheckSpam \/ CheckVulnerable \/ CheckEvil
    BY <1>2, <1>3, <2>3 DEF CheckSpam, CheckVulnerable, CheckEvil, CheckTable, reportVars
  <2>4. CASE CountPacket \/ \E p \in Arrival : PollCheck(p)
    BY <1>2, <1>3, <2>4 DEF CountPacket, PollCheck, reportVars
  <2> QED BY <1>6, <2>1, <2>2, <2>3, <2>4 DEF CheckerWork
<1> QED BY <1>3, <1>4, <1>5, <1>6

(* Every step leaves the lines of a report alone, or prints the next line, *)
(* or ends the section, or begins one.                                     *)
LEMMA ReportMoves ==
  ASSUME KInv, PrintedOK, [Next]_vars, NEW t \in Reporter
  PROVE  /\ DOMAIN printed' = Reporter
         /\ \/ /\ printed'[t] = printed[t]
               /\ pc[t] = "lines" <=> pc'[t] = "lines"
               /\ pc[t] = "lines" => sections'[t] = sections[t]
            \/ /\ ReportLine(t) /\ pc'[t] = "lines" /\ sections'[t] = sections[t]
               /\ printed'[t] = Append(printed[t], Lines(Head(sections[t]))[NextLine(t)])
            \/ pc'[t] # "lines" /\ printed'[t] = <<>>
            \/ pc[t] # "lines" /\ printed'[t] = printed[t]
<1>1. pc \in [Thread -> BootLabel \cup TrapLabel \cup CheckerLabel \cup ReportLabel]
      /\ sections \in [Reporter -> Seq(Section)] /\ DOMAIN printed = Reporter
      /\ t \in Thread /\ t # "boot"
  BY Labels DEF KInv, Types, PrintedOK
<1>3. CASE UNCHANGED vars \/ \E c \in Char : Type(c)
  BY <1>1, <1>3 DEF vars, Type, waitVars, reportVars
<1>4. CASE \E u \in Thread : PrintfStep(u)
  BY <1>1, <1>4 DEF PrintfStep, reportVars
<1>5. CASE BootStep \/ Interrupt \/ TrapStep \/ ReportFault("trap") \/ CheckerWork
           \/ \E p \in Arrival : PollCheck(p)
  <2>1. printed' = printed
    BY <1>5 DEF BootStep, KeyboardInit, HeaderSpaceMalloc, GarbageListAlloc, InitialDmaRingSlot,
      StartReceive, BootPrint, CreateTables, HashtableCreateLock, HashtableCreate,
      Interrupt, TrapStep, TrapHandler, InterruptHandler, TrapPrint, KeyboardTrap, TrapReturn,
      ReportFault, PollCheck, CheckerWork, ExecuteNothing, ExecutePrint, ExecuteLock,
      ExecuteCommand, CheckSpam, CheckVulnerable, CheckEvil, CheckTable, CountPacket, reportVars
  <2>7. PICK u \in Thread : Elsewhere(u)
    BY <1>5, NoReportMoves
  <2> QED BY <1>1, <2>1, <2>7 DEF Elsewhere
<1>6. ASSUME NEW u \in Reporter, ReportStep(u)
      PROVE  /\ DOMAIN printed' = Reporter
             /\ \/ /\ printed'[t] = printed[t]
                   /\ pc[t] = "lines" <=> pc'[t] = "lines"
                   /\ pc[t] = "lines" => sections'[t] = sections[t]
                \/ /\ ReportLine(t) /\ pc'[t] = "lines" /\ sections'[t] = sections[t]
                   /\ printed'[t] = Append(printed[t], Lines(Head(sections[t]))[NextLine(t)])
                \/ pc'[t] # "lines" /\ printed'[t] = <<>>
                \/ pc[t] # "lines" /\ printed'[t] = printed[t]
  <2>1. CASE ReportTitle(u) \/ ReportDone(u) \/ ReportLock(u)
    BY <1>1, <2>1 DEF ReportTitle, ReportDone, ReportLock, Goto, reportVars
  <2>2. CASE ReportLine(u)
    <3>1. pc'[t] = pc[t] /\ sections' = sections /\ pc[u] = "lines"
          /\ printed' = [printed EXCEPT ![u] = Append(@, Lines(Head(sections[u]))[NextLine(u)])]
      BY <1>1, <2>2 DEF ReportLine, Goto
    <3> QED BY <1>1, <2>2, <3>1
  <2>3. CASE ReportUnlock(u)
    <3>1. pc' = [pc EXCEPT ![u] = "report"] /\ printed' = [printed EXCEPT ![u] = <<>>]
          /\ sections' = [sections EXCEPT ![u] = Tail(@)]
      BY <2>3 DEF ReportUnlock, Goto
    <3> QED BY <1>1, <3>1
  <2> QED BY <1>6, <2>1, <2>2, <2>3 DEF ReportStep
<1> QED BY <1>3, <1>4, <1>5, <1>6 DEF Next

SnapInv == KInv /\ PrintedOK /\ Snapshot

(* Nothing is printed at first. *)
LEMMA SnapshotInit == Init => SnapInv
<1> SUFFICES ASSUME Init PROVE SnapInv
  OBVIOUS
<1>1. DOMAIN tables = TableName /\ DOMAIN printed = Reporter
      /\ \A t \in Reporter : printed[t] = <<>> /\ pc[t] # "lines"
  BY Labels DEF Init
<1>2. PrintedOK
  <2>1. <<>> \in Seq({})
    OBVIOUS
  <2> QED BY <1>1, <2>1 DEF PrintedOK
<1> QED BY <1>1, <1>2, KernelInit DEF SnapInv, Snapshot

(* A sequence with one more element, of any kind. *)
LEMMA Longer ==
  ASSUME NEW s, NEW x, \E S : s \in Seq(S)
  PROVE  /\ Len(Append(s, x)) = Len(s) + 1 /\ Len(s) \in Nat
         /\ \A i \in 1..Len(s) : Append(s, x)[i] = s[i]
         /\ Append(s, x)[Len(s) + 1] = x
         /\ \E S : Append(s, x) \in Seq(S)
<1>1. PICK S : s \in Seq(S)
  OBVIOUS
<1>2. s \in Seq(S \cup {x})
  BY <1>1, SMT
<1>3. Append(s, x) \in Seq(S \cup {x})
  BY <1>2
<1> HIDE <1>1
<1>4. /\ Len(Append(s, x)) = Len(s) + 1 /\ Len(s) \in Nat
      /\ \A i \in 1..Len(s) : Append(s, x)[i] = s[i]
      /\ Append(s, x)[Len(s) + 1] = x
  BY <1>2
<1> QED BY <1>3, <1>4

(* Every step keeps the lines printed those of the present table. *)
LEMMA SnapshotStep == SnapInv /\ [Next]_vars => SnapInv'
<1> SUFFICES ASSUME SnapInv, [Next]_vars PROVE SnapInv'
  OBVIOUS
<1>1. KInv /\ PrintedOK /\ Snapshot /\ KInv'
  BY KernelStep DEF SnapInv
<1>2. DOMAIN tables' = TableName
  <2>1. CASE UNCHANGED <<tables, stats>>
    BY <1>1, <2>1 DEF PrintedOK
  <2>2. CASE Writes
    BY <1>1, <2>2 DEF PrintedOK, Writes, HashtableCreate, ExecuteCommand, Execute, CheckTable,
      Observe, CountPacket
  <2> QED BY <2>1, <2>2, WritersOnly
<1>3. DOMAIN printed' = Reporter
  BY <1>1, ReportMoves, Labels
<1>4. ASSUME NEW t \in Reporter
      PROVE  /\ \E S : printed'[t] \in Seq(S)
             /\ pc'[t] # "lines" => printed'[t] = <<>>
             /\ pc'[t] = "lines" =>
                  \A i \in 1..Len(printed'[t]) :
                    /\ i \in DOMAIN Lines(Head(sections[t]))'
                    /\ printed'[t][i] = Lines(Head(sections[t]))'[i]
  <2>1. (\E S : printed[t] \in Seq(S)) /\ (pc[t] # "lines" => printed[t] = <<>>)
    BY <1>1 DEF PrintedOK
  <2>2. <<>> \in Seq({}) /\ Len(<<>>) = 0
    OBVIOUS
  <2>3. CASE pc'[t] # "lines" /\ printed'[t] = <<>>
    BY <2>2, <2>3
  <2>4. CASE pc[t] # "lines" /\ printed'[t] = printed[t]
    BY <2>1, <2>2, <2>4
  <2>5. CASE /\ printed'[t] = printed[t]
             /\ pc[t] = "lines" <=> pc'[t] = "lines"
             /\ pc[t] = "lines" => sections'[t] = sections[t]
    <3>1. CASE pc[t] # "lines"
      BY <2>1, <2>4, <2>5, <3>1
    <3>2. CASE pc[t] = "lines"
      <4>1. Lines(Head(sections[t]))' = Lines(Head(sections[t]))
        BY <1>1, <2>5, <3>2, SectionStands
      <4>2. \A i \in 1..Len(printed[t]) : /\ i \in DOMAIN Lines(Head(sections[t]))
                                        /\ printed[t][i] = Lines(Head(sections[t]))[i]
        BY <1>1, <3>2 DEF Snapshot
      <4> QED BY <2>1, <2>5, <3>2, <4>1, <4>2
    <3> QED BY <3>1, <3>2
  <2>6. CASE /\ ReportLine(t) /\ pc'[t] = "lines" /\ sections'[t] = sections[t]
             /\ printed'[t] = Append(printed[t], Lines(Head(sections[t]))[NextLine(t)])
    <3>1. pc[t] = "lines" /\ Len(printed[t]) + 1 \in DOMAIN Lines(Head(sections[t]))
          /\ NextLine(t) = Len(printed[t]) + 1
      BY <2>6 DEF ReportLine, Goto, MoreLines, NextLine
    <3>2. Lines(Head(sections[t]))' = Lines(Head(sections[t]))
      BY <1>1, <2>6, <3>1, SectionStands
    <3>3. \A i \in 1..Len(printed[t]) : /\ i \in DOMAIN Lines(Head(sections[t]))
                                      /\ printed[t][i] = Lines(Head(sections[t]))[i]
      BY <1>1, <3>1 DEF Snapshot
    <3> DEFINE L == Lines(Head(sections[t]))
               x == L[Len(printed[t]) + 1]
    <3>4. printed'[t] = Append(printed[t], x)
      BY <2>6, <3>1
    <3> HIDE DEF x
    <3>5. /\ Len(printed'[t]) = Len(printed[t]) + 1 /\ Len(printed[t]) \in Nat
          /\ \A i \in 1..Len(printed[t]) : printed'[t][i] = printed[t][i]
          /\ printed'[t][Len(printed[t]) + 1] = x
          /\ \E S : printed'[t] \in Seq(S)
      <4>1. /\ Len(Append(printed[t], x)) = Len(printed[t]) + 1 /\ Len(printed[t]) \in Nat
            /\ \A i \in 1..Len(printed[t]) : Append(printed[t], x)[i] = printed[t][i]
            /\ Append(printed[t], x)[Len(printed[t]) + 1] = x
            /\ \E S : Append(printed[t], x) \in Seq(S)
        BY <2>1, Longer, Zenon
      <4> QED BY <3>4, <4>1, Zenon
    <3> HIDE DEF L
    <3>6. \A i \in 1..Len(printed'[t]) : i \in 1..Len(printed[t]) \/ i = Len(printed[t]) + 1
      BY <3>5, SMT
    <3>7. \A i \in 1..Len(printed'[t]) : i \in DOMAIN L /\ printed'[t][i] = L[i]
      BY <3>1, <3>3, <3>5, <3>6 DEF L, x
    <3> QED BY <2>6, <3>2, <3>5, <3>7 DEF L
  <2> QED BY <1>1, <2>3, <2>4, <2>5, <2>6, ReportMoves
<1>5. PrintedOK'
  BY <1>2, <1>3, <1>4 DEF PrintedOK
<1>6. Snapshot'
  BY <1>4 DEF Snapshot
<1> QED BY <1>1, <1>5, <1>6 DEF SnapInv

(* What has been printed of a section of a report is what the tables and   *)
(* totals say at every moment until it is complete.                        *)
THEOREM ReportsAreSnapshots == Spec => []Snapshot
<1>1. SnapInv => Snapshot
  BY DEF SnapInv
<1> QED BY <1>1, SnapshotInit, SnapshotStep, PTL DEF Spec

-----------------------------------------------------------------------------
(* The weights of the bytes of a word. *)
LEMMA Weights ==
  /\ Weight[0] = 1 /\ Weight[1] = BYTE /\ Weight[2] = BYTE * BYTE
  /\ Weight[3] = BYTE * (BYTE * BYTE) /\ Weight[4] = BYTE * (BYTE * (BYTE * BYTE))
<1> DEFINE eq(f) == [i \in 0..4 |-> IF i = 0 THEN 1 ELSE BYTE * f[i - 1]]
           g == [i \in 0..4 |-> IF i = 0 THEN 1
                                ELSE IF i = 1 THEN BYTE
                                ELSE IF i = 2 THEN BYTE * BYTE
                                ELSE IF i = 3 THEN BYTE * (BYTE * BYTE)
                                ELSE BYTE * (BYTE * (BYTE * BYTE))]
<1>1. Weight = CHOOSE f : f = eq(f)
  BY DEF Weight
<1>2. g = eq(g)
  <2>1. BYTE * 1 = BYTE
    BY HoneypotAssumption
  <2>2. ASSUME NEW i \in 0..4 PROVE g[i] = IF i = 0 THEN 1 ELSE BYTE * g[i - 1]
    <3>1. i = 0 \/ i = 1 \/ i = 2 \/ i = 3 \/ i = 4
      OBVIOUS
    <3> QED BY <2>1, <3>1
  <2> QED BY <2>2
<1>3. Weight = eq(Weight)
  <2> HIDE DEF eq, g
  <2> QED BY <1>1, <1>2
<1>4. \A i \in 0..4 : Weight[i] = IF i = 0 THEN 1 ELSE BYTE * Weight[i - 1]
  BY <1>3
<1>5. Weight[0] = 1 /\ Weight[1] = BYTE * Weight[0] /\ Weight[2] = BYTE * Weight[1]
      /\ Weight[3] = BYTE * Weight[2] /\ Weight[4] = BYTE * Weight[3]
  BY <1>4
<1> QED BY <1>5, HoneypotAssumption

(* The product of two positive numbers is positive. *)
LEMMA Positive ==
  ASSUME NEW x \in Nat \ {0}, NEW y \in Nat \ {0} PROVE x * y \in Nat \ {0}
PROOF BY SMT

(* A number below V and a byte that counts for V. *)
LEMMA BelowNext ==
  ASSUME NEW B \in Nat \ {0}, NEW V \in Nat \ {0}, NEW low \in 0..(V - 1), NEW b \in 0..(B - 1)
  PROVE  low + b * V \in 0..(B * V - 1)
<1>1. b * V \in Nat /\ (B - 1 - b) * V \in Nat
  BY SMT
<1>2. (B - 1 - b) * V = B * V - V - b * V
  BY SMT
<1>3. PICK p : p = b * V
  OBVIOUS
<1>4. PICK q : q = B * V
  OBVIOUS
<1>5. p \in Nat /\ q \in Int /\ q - V - p \in Nat
  BY <1>1, <1>2, <1>3, <1>4
<1> QED BY <1>3, <1>4, <1>5

(* A number cut into its byte that counts for V and what is below and      *)
(* above that byte.                                                        *)
Cut(n, B, V, low, b, high) ==
  /\ B \in Nat \ {0} /\ V \in Nat \ {0} /\ low \in 0..(V - 1) /\ b \in 0..(B - 1)
  /\ high \in Nat /\ n \in Int /\ n = V * (b + B * high) + low

(* The byte that counts for V in a number. *)
LEMMA Digit ==
  ASSUME NEW n, NEW B, NEW V, NEW low, NEW b, NEW high, Cut(n, B, V, low, b, high)
  PROVE  (n \div V) % B = b
<1> USE DEF Cut
<1>1. PICK q : q = b + B * high
  OBVIOUS
<1>2. q \in Int /\ q = B * high + b
  BY <1>1
<1>3. n \div V = q
  BY <1>1, <1>2, Quotient
<1>4. q % B = b
  BY <1>2, Remainder
<1> QED BY <1>3, <1>4

(* change_end() makes a little-endian word of a big-endian field. *)
LEMMA ChangedWord ==
  ASSUME NEW f, f[1] \in Byte, f[2] \in Byte, f[3] \in Byte, f[4] \in Byte
  PROVE  ChangeEnd(LoadWord(f)) = Honest!Network(f)
<1>1. PICK B : B = BYTE
  OBVIOUS
<1>2. PICK a : a = f[1]
  OBVIOUS
<1>3. PICK b : b = f[2]
  OBVIOUS
<1>4. PICK c : c = f[3]
  OBVIOUS
<1>5. PICK d : d = f[4]
  OBVIOUS
<1>6. B \in Nat \ {0} /\ a \in 0..(B - 1) /\ b \in 0..(B - 1) /\ c \in 0..(B - 1) /\ d \in 0..(B - 1)
  BY <1>1, <1>2, <1>3, <1>4, <1>5, HoneypotAssumption DEF Byte
<1>7. PICK V : V = B * B
  OBVIOUS
<1>8. PICK W : W = B * V
  OBVIOUS
<1>9. V \in Nat \ {0} /\ W \in Nat \ {0}
  BY <1>6, <1>7, <1>8, Positive
<1>10. PICK n : n = a + b * B + c * V + d * W
  OBVIOUS
<1>11. n \in Int
  BY <1>6, <1>9, <1>10
<1>12. n % B = a
  <2>1. n = B * (b + c * B + d * V) + a
    BY <1>6, <1>7, <1>8, <1>9, <1>10
  <2>2. PICK q : q = b + c * B + d * V
    OBVIOUS
  <2>3. B \in Nat \ {0} /\ q \in Int /\ a \in 0..(B - 1) /\ n \in Int /\ n = B * q + a
    BY <1>6, <1>9, <1>11, <2>1, <2>2
  <2> QED BY <2>3, Remainder
<1>13. (n \div 1) % B = a
  BY <1>6, <1>11, <1>12
<1>14. (n \div B) % B = b
  <2>1. n = B * (b + B * (c + B * d)) + a /\ c + B * d \in Nat
    BY <1>6, <1>7, <1>8, <1>9, <1>10
  <2>2. PICK high : high = c + B * d
    OBVIOUS
  <2>3. Cut(n, B, B, a, b, high)
    BY <1>6, <1>11, <2>1, <2>2 DEF Cut
  <2> QED BY <2>3, Digit
<1>15. (n \div V) % B = c
  <2>1. n = V * (c + B * d) + (a + b * B)
    BY <1>6, <1>7, <1>8, <1>9, <1>10
  <2>2. a + b * B \in 0..(B * B - 1)
    BY <1>6, BelowNext
  <2>3. PICK low : low = a + b * B
    OBVIOUS
  <2>4. low \in 0..(V - 1) /\ n = V * (c + B * d) + low
    BY <1>7, <2>1, <2>2, <2>3
  <2>5. Cut(n, B, V, low, c, d)
    BY <1>6, <1>9, <1>11, <2>4 DEF Cut
  <2> QED BY <2>5, Digit
<1>16. (n \div W) % B = d
  <2>1. PICK zero : zero = 0
    OBVIOUS
  <2>2. n = W * (d + B * zero) + (a + b * B + c * V)
    BY <1>6, <1>7, <1>8, <1>9, <1>10, <2>1
  <2>3. a + b * B \in 0..(B * B - 1)
    BY <1>6, BelowNext
  <2>4. PICK lower : lower = a + b * B
    OBVIOUS
  <2>5. lower \in 0..(V - 1)
    BY <1>7, <2>3, <2>4
  <2>6. lower + c * V \in 0..(B * V - 1)
    BY <1>6, <1>9, <2>5, BelowNext
  <2>7. PICK low : low = lower + c * V
    OBVIOUS
  <2>8. low \in 0..(W - 1) /\ n = W * (d + B * zero) + low
    BY <1>8, <2>2, <2>4, <2>6, <2>7
  <2>9. Cut(n, B, W, low, d, zero)
    BY <1>6, <1>9, <1>11, <2>1, <2>8 DEF Cut
  <2> QED BY <2>9, Digit
<1>17. Weight[0] = 1 /\ Weight[1] = B /\ Weight[2] = V /\ Weight[3] = W
  BY <1>1, <1>7, <1>8, Weights
<1>18. LoadWord(f) = n
  BY <1>2, <1>3, <1>4, <1>5, <1>10, <1>17 DEF LoadWord
<1>19. ChangeEnd(n) = d + c * B + b * V + a * W
  BY <1>1, <1>13, <1>14, <1>15, <1>16, <1>17 DEF ChangeEnd, ByteAt
<1>20. Honest!Network(f) = ((a * B + b) * B + c) * B + d
  BY <1>1, <1>2, <1>3, <1>4, <1>5 DEF Honest!Network
<1>21. d + c * B + b * V + a * W = ((a * B + b) * B + c) * B + d
  BY <1>6, <1>7, <1>8, <1>9
<1> QED BY <1>18, <1>19, <1>20, <1>21

(* A port, shifted into the upper half of a word, as well. *)
LEMMA ChangedHalf ==
  ASSUME NEW f, f[1] \in Byte, f[2] \in Byte
  PROVE  ChangeEnd(LoadHalf(f) * Weight[2]) = Honest!Port(f)
<1>1. PICK g : g = <<0, 0, f[1], f[2]>>
  OBVIOUS
<1>2. g[1] = 0 /\ g[2] = 0 /\ g[3] = f[1] /\ g[4] = f[2]
  BY <1>1
<1>3. 0 \in Byte
  BY HoneypotAssumption DEF Byte
<1>4. ChangeEnd(LoadWord(g)) = Honest!Network(g)
  BY <1>2, <1>3, ChangedWord
<1>5. PICK B : B = BYTE
  OBVIOUS
<1>6. PICK a : a = f[1]
  OBVIOUS
<1>7. PICK b : b = f[2]
  OBVIOUS
<1>8. B \in Nat /\ a \in Nat /\ b \in Nat
  BY <1>5, <1>6, <1>7, HoneypotAssumption DEF Byte
<1>9. (a + b * B) * (B * B) = 0 + 0 * B + a * (B * B) + b * (B * (B * B))
  BY <1>8
<1>10. LoadHalf(f) * Weight[2] = LoadWord(g)
  BY <1>2, <1>5, <1>6, <1>7, <1>9, Weights DEF LoadHalf, LoadWord
<1>11. ((0 * B + 0) * B + a) * B + b = a * B + b
  BY <1>8
<1>12. Honest!Network(g) = Honest!Port(f)
  BY <1>2, <1>5, <1>6, <1>7, <1>11 DEF Honest!Network, Honest!Port
<1> QED BY <1>4, <1>10, <1>12

-----------------------------------------------------------------------------
(* A sequence of sequences of elements of S, flattened. *)
LEMMA FlattenTyped ==
  ASSUME NEW S, NEW s \in Seq(Seq(S))
  PROVE  FlattenSeq(s) \in Seq(S)
<1>1. CASE Len(s) = 0
  <2>1. s = <<>>
    BY <1>1
  <2> QED BY <1>1, <2>1 DEF FlattenSeq
<1>2. CASE Len(s) # 0
  <2> DEFINE eq(f) == [i \in 1..Len(s) |-> IF i = 1 THEN s[i] ELSE f[i - 1] \o s[i]]
             all == CHOOSE f : f = eq(f)
  <2>1. Len(s) \in Nat \ {0} /\ \A i \in 1..Len(s) : s[i] \in Seq(S)
    BY <1>2
  <2>2. PICK N : N = Len(s) - 1 /\ N \in Nat
    <3>1. Len(s) - 1 \in Nat
      BY <2>1
    <3> QED BY <3>1
  <2>3. PICK X : X = Seq(S)
    OBVIOUS
  <2>4. PICK first : first = s[1]
    OBVIOUS
  <2>5. PICK step : step = [n \in 1..N |-> [x \in X |-> x \o s[n + 1]]]
    OBVIOUS
  <2>6. first \in X
    BY <2>1, <2>3, <2>4
  <2>7. step \in [1..N -> [X -> X]]
    <3>1. ASSUME NEW n \in 1..N, NEW x \in X PROVE x \o s[n + 1] \in X
      <4>1. s[n + 1] \in Seq(S)
        BY <2>1, <2>2
      <4> QED BY <2>3, <4>1
    <3> QED BY <2>5, <3>1
  <2>8. \E g : IsRecursive(g, N, X, first, step)
    BY <2>2, <2>6, <2>7, IntervalRecursion
  <2>9. PICK g : /\ g \in [0..N -> X]
                 /\ \A n \in 0..N : g[n] = IF n = 0 THEN first ELSE step[n][g[n - 1]]
    BY <2>8 DEF IsRecursive
  <2>10. PICK f : f = [i \in 1..Len(s) |-> g[i - 1]]
    OBVIOUS
  <2>11. ASSUME NEW i \in 1..Len(s) PROVE f[i] = IF i = 1 THEN s[i] ELSE f[i - 1] \o s[i]
    <3>1. i - 1 \in 0..N
      BY <2>2
    <3>2. f[i] = g[i - 1]
      BY <2>10
    <3>3. CASE i = 1
      BY <2>4, <2>9, <3>1, <3>2, <3>3
    <3>4. CASE i # 1
      <4>1. i - 1 \in 1..N /\ i - 1 \in 1..Len(s) /\ i - 2 \in 0..N /\ (i - 1) - 1 = i - 2
            /\ (i - 1) + 1 = i /\ i - 1 # 0
        BY <2>2, <3>4
      <4>2. f[i - 1] = g[i - 2] /\ g[i - 2] \in X
        BY <2>9, <2>10, <4>1
      <4>3. g[i - 1] = step[i - 1][g[i - 2]]
        BY <2>9, <3>1, <4>1
      <4>4. step[i - 1][g[i - 2]] = g[i - 2] \o s[i]
        BY <2>5, <4>1, <4>2
      <4> QED BY <3>2, <3>4, <4>2, <4>3, <4>4
    <3> QED BY <3>3, <3>4
  <2>12. f = eq(f)
    BY <2>10, <2>11
  <2>13. all = eq(all)
    <3> HIDE DEF eq
    <3> QED BY <2>12
  <2>14. \A i \in 1..Len(s) : all[i] = IF i = 1 THEN s[i] ELSE all[i - 1] \o s[i]
    <3> HIDE DEF all
    <3> QED BY <2>13
  <2>15. FlattenSeq(s) = all[Len(s)]
    BY <1>2 DEF FlattenSeq
  <2> HIDE DEF all
  <2>16. PICK T : T = {n \in Nat : all[n + 1] \in Seq(S)}
    OBVIOUS
  <2>17. 0 \in T
    <3>1. all[1] = s[1] /\ 1 \in 1..Len(s)
      BY <2>1, <2>14
    <3> QED BY <2>1, <2>16, <3>1
  <2>18. \A n \in 0..(N - 1) : n \in T => n + 1 \in T
    <3> SUFFICES ASSUME NEW n \in 0..(N - 1), n \in T PROVE n + 1 \in T
      OBVIOUS
    <3>1. n + 2 \in 1..Len(s) /\ n + 2 # 1 /\ (n + 2) - 1 = n + 1 /\ (n + 1) + 1 = n + 2
          /\ n + 1 \in Nat
      BY <2>2
    <3>2. all[n + 2] = all[n + 1] \o s[n + 2]
      BY <2>14, <3>1
    <3>3. all[n + 1] \in Seq(S) /\ s[n + 2] \in Seq(S)
      BY <2>1, <2>16, <3>1
    <3>4. all[n + 2] \in Seq(S)
      BY <3>2, <3>3
    <3> QED BY <2>16, <3>1, <3>4
  <2>19. \A n \in 0..N : n \in T
    BY <2>2, <2>17, <2>18, IntervalInduction
  <2>20. N \in 0..N /\ N + 1 = Len(s)
    BY <2>1, <2>2
  <2> QED BY <2>15, <2>16, <2>19, <2>20
<1> QED BY <1>1, <1>2

(* Listings stay listings: what an operation of a table gives, whether or  *)
(* not the table has a place for the value.                                *)
LEMMA ListingTyped ==
  ASSUME NEW c \in [Word -> Seq(Nat)], NEW v
  PROVE  /\ WithPut(c, v) \in [Word -> Seq(Nat)]
         /\ WithRemove(c, v) \in [Word -> Seq(Nat)]
         /\ WithIncrement(c, v) \in [Word -> Seq(Nat)]
<1>1. v \in Word => Append(c[v], 0) \in Seq(Nat)
  OBVIOUS
<1>2. WithPut(c, v) \in [Word -> Seq(Nat)]
  BY <1>1 DEF WithPut
<1>3. WithRemove(c, v) \in [Word -> Seq(Nat)]
  <2>1. v \in Word /\ c[v] # <<>> => Tail(c[v]) \in Seq(Nat)
    OBVIOUS
  <2> QED BY <2>1 DEF WithRemove, Listed
<1>4. WithIncrement(c, v) \in [Word -> Seq(Nat)]
  <2>1. v \in Word /\ c[v] # <<>> => [c[v] EXCEPT ![1] = @ + 1] \in Seq(Nat)
    OBVIOUS
  <2>2. CASE Listed(c, v)
    <3>1. PICK d : d = [c[v] EXCEPT ![1] = @ + 1]
      OBVIOUS
    <3>2. WithIncrement(c, v) = [c EXCEPT ![v] = d]
      <4>1. WithIncrement(c, v) = [c EXCEPT ![v][1] = @ + 1]
        BY <2>2, Zenon DEF WithIncrement
      <4>2. [c EXCEPT ![v][1] = @ + 1] = [c EXCEPT ![v] = d]
        BY <3>1
      <4> QED BY <4>1, <4>2
    <3>3. v \in Word => d \in Seq(Nat)
      BY <2>1, <2>2, <3>1 DEF Listed
    <3> QED BY <3>2, <3>3
  <2>3. CASE ~Listed(c, v)
    BY <2>3 DEF WithIncrement
  <2> QED BY <2>2, <2>3
<1> QED BY <1>2, <1>3, <1>4

Tables == [TableName -> [Word -> Seq(Nat)]]

(* The tables stay tables when core 2 works on them. *)
LEMMA TablesTyped ==
  ASSUME NEW t \in Tables, NEW p, NEW l \in TableName
  PROVE  /\ Execute(t, p) \in Tables
         /\ Observe(t, p, l) \in Tables
         /\ FlagOf(t, p, l) \subseteq {1, 2, 4}
         /\ [t EXCEPT ![l] = Unlisted(Word)] \in Tables
<1>1. Execute(t, p) \in Tables
  <2>1. PICK m : m = p.command.table
    OBVIOUS
  <2>2. PICK v : v = DataKey(p)
    OBVIOUS
  <2>3. m \in TableName => WithPut(t[m], v) \in [Word -> Seq(Nat)]
                        /\ WithRemove(t[m], v) \in [Word -> Seq(Nat)]
    BY ListingTyped DEF Tables
  <2>4. [t EXCEPT ![m] = WithPut(t[m], v)] \in Tables
        /\ [t EXCEPT ![m] = WithRemove(t[m], v)] \in Tables
    BY <2>3 DEF Tables
  <2> QED BY <2>1, <2>2, <2>4 DEF Execute
<1>2. Observe(t, p, l) \in Tables
  <2>1. PICK v : v = Key(p, l)
    OBVIOUS
  <2>2. WithIncrement(t[l], v) \in [Word -> Seq(Nat)]
    BY ListingTyped DEF Tables
  <2> QED BY <2>1, <2>2 DEF Observe, Tables
<1>3. FlagOf(t, p, l) \subseteq {1, 2, 4}
  BY DEF FlagOf, Flag, TableName
<1>4. [t EXCEPT ![l] = Unlisted(Word)] \in Tables
  <2>1. Unlisted(Word) \in [Word -> Seq(Nat)]
    BY DEF Unlisted
  <2> QED BY <2>1 DEF Tables
<1> QED BY <1>1, <1>2, <1>3, <1>4

-----------------------------------------------------------------------------
Totals ==
  /\ DOMAIN stats = {"total_packets", "bytes_handled", "total_spam", "total_vul", "total_evil"}
  /\ \A x \in DOMAIN stats : stats[x] \in Nat

(* The types of what the threads work on. *)
DataOK ==
  /\ keys \in Seq(Char) /\ Len(keys) <= MaxKeys
  /\ printed = [t \in Reporter |-> printed[t]]
  /\ tables \in Tables
  /\ Totals
  /\ code \subseteq {1, 2, 4}

(* The tables are empty and nothing is counted at first. *)
LEMMA DataInit == Init => DataOK
<1> SUFFICES ASSUME Init PROVE DataOK
  OBVIOUS
<1>1. /\ keys \in Seq(Char) /\ Len(keys) <= MaxKeys
      /\ printed = [t \in Reporter |-> printed[t]]
  BY KernelAssumption DEF Init
<1>2. tables \in Tables
  BY DEF Init, Tables, Unlisted
<1>3. Totals
  BY DEF Init, Totals, NoTotals
<1> QED BY <1>1, <1>2, <1>3 DEF DataOK, Init

(* A packet is counted with its length and its flags. *)
LEMMA TotalsCounted ==
  ASSUME Totals, packet \in Arrival, stats' = UpdateStats(stats, packet, code)
  PROVE  Totals'
<1>1. packet.length \in Nat
  BY KernelAssumption, HoneypotAssumption DEF Packet
<1> QED BY <1>1 DEF Totals, UpdateStats

(* Every step keeps the keys, the tables, the totals and the code in their *)
(* types.                                                                  *)
LEMMA DataStep ==
  ASSUME KInv, DataOK, [Next]_vars
  PROVE  DataOK'
<1> DEFINE Quiet == UNCHANGED <<keys, printed>>
<1>1. \/ Quiet
      \/ \E c \in Char : Type(c)
      \/ KeyboardTrap
      \/ UNCHANGED keys /\ \E t, x : printed' = [printed EXCEPT ![t] = x]
  <2>1. CASE UNCHANGED vars \/ BootStep \/ Interrupt \/ ReportFault("trap") \/ CheckerWork
             \/ \E p \in Arrival : PollCheck(p)
    BY <2>1 DEF vars, PollCheck, BootStep, KeyboardInit, HeaderSpaceMalloc, GarbageListAlloc,
      InitialDmaRingSlot, StartReceive, BootPrint, CreateTables, HashtableCreateLock,
      HashtableCreate, Interrupt, ReportFault, CheckerWork, ExecuteNothing, ExecutePrint,
      ExecuteLock, ExecuteCommand, CheckSpam, CheckVulnerable, CheckEvil, CheckTable,
      CountPacket, reportVars
  <2>2. CASE TrapStep \/ \E t \in Thread : PrintfStep(t)
    BY <2>2 DEF PrintfStep, TrapStep, TrapHandler, InterruptHandler, TrapPrint, TrapReturn, reportVars
  <2>3. ASSUME NEW t \in Reporter, ReportStep(t)
        PROVE  Quiet \/ (UNCHANGED keys /\ \E x : printed' = [printed EXCEPT ![t] = x])
    <3>1. CASE ReportTitle(t) \/ ReportDone(t) \/ ReportLock(t)
      BY <3>1 DEF ReportTitle, ReportDone, ReportLock, reportVars
    <3>2. CASE ReportLine(t)
      BY <3>2 DEF ReportLine
    <3>3. CASE ReportUnlock(t)
      BY <3>3 DEF ReportUnlock
    <3> QED BY <2>3, <3>1, <3>2, <3>3 DEF ReportStep
  <2> QED BY <2>1, <2>2, <2>3 DEF Next
<1>7. /\ keys' \in Seq(Char) /\ Len(keys') <= MaxKeys
      /\ printed' = [t \in Reporter |-> printed'[t]]
  <2>1. CASE Quiet
    BY <2>1 DEF DataOK
  <2>2. CASE \E c \in Char : Type(c)
    <3>1. PICK c \in Char : Type(c)
      BY <2>2
    <3> QED BY <3>1, KernelAssumption DEF Type, DataOK, reportVars
  <2>3. CASE KeyboardTrap
    <3>1. keys # <<>> /\ keys' = Tail(keys) /\ printed' = printed
      BY <2>3 DEF KeyboardTrap
    <3>2. Tail(keys) \in Seq(Char) /\ Len(Tail(keys)) = Len(keys) - 1 /\ Len(keys) \in Nat
      BY <3>1 DEF DataOK
    <3> QED BY <3>1, <3>2, KernelAssumption DEF DataOK
  <2>4. CASE UNCHANGED keys /\ \E t, x : printed' = [printed EXCEPT ![t] = x]
    BY <2>4 DEF DataOK
  <2> QED BY <1>1, <2>1, <2>2, <2>3, <2>4
<1> HIDE DEF Quiet
<1>2. CASE UNCHANGED <<tables, stats, code>>
  BY <1>7, <1>2 DEF DataOK, Totals
<1>3. CASE \E l \in TableName, from, to \in BootLabel : HashtableCreate(l, from, to)
  <2>1. PICK l \in TableName : tables' = [tables EXCEPT ![l] = Unlisted(Word)]
                            /\ UNCHANGED <<stats, code>>
    BY <1>3 DEF HashtableCreate
  <2>2. tables' \in Tables
    BY <2>1, TablesTyped DEF DataOK
  <2> QED BY <1>7, <2>1, <2>2 DEF DataOK, Totals
<1>4. CASE ExecuteCommand
  <2>1. tables' = Execute(tables, packet) /\ UNCHANGED <<stats, code>>
    BY <1>4 DEF ExecuteCommand
  <2>2. "spam" \in TableName
    BY DEF TableName
  <2>3. tables' \in Tables
    BY <2>1, <2>2, TablesTyped DEF DataOK
  <2> QED BY <1>7, <2>1, <2>3 DEF DataOK, Totals
<1>5. CASE \E l \in TableName, from, to \in CheckerLabel : CheckTable(l, from, to)
  <2>1. PICK l \in TableName : /\ tables' = Observe(tables, packet, l) /\ UNCHANGED stats
                              /\ code' = code \cup FlagOf(tables, packet, l)
    BY <1>5 DEF CheckTable
  <2>2. tables' \in Tables /\ FlagOf(tables, packet, l) \subseteq {1, 2, 4}
    BY <2>1, TablesTyped DEF DataOK
  <2> QED BY <1>7, <2>1, <2>2 DEF DataOK, Totals
<1>6. CASE CountPacket
  <2>1. UNCHANGED tables /\ code' = {} /\ stats' = UpdateStats(stats, packet, code)
    BY <1>6 DEF CountPacket
  <2>2. Totals'
    BY <2>1, TotalsCounted DEF DataOK, KInv, Types
  <2> QED BY <1>7, <2>1, <2>2 DEF DataOK
<1> QED BY <1>2, <1>3, <1>4, <1>5, <1>6, WritersOnly DEF Writes

(* The lines of a report are lines of numbers. *)
LEMMA LinesTyped ==
  ASSUME DataOK, NEW s \in Section, NEW i \in DOMAIN Lines(s)
  PROVE  Lines(s)[i] \in Seq(Nat)
<1>1. CASE s = "stats"
  <2>1. /\ stats.total_packets \in Nat /\ stats.bytes_handled \in Nat
        /\ stats.total_evil \in Nat /\ stats.total_vul \in Nat /\ stats.total_spam \in Nat
    BY DEF DataOK, Totals
  <2>2. PICK a : a = <<stats.total_packets, stats.bytes_handled>>
    OBVIOUS
  <2>3. PICK b : b = <<stats.total_evil, stats.total_vul, stats.total_spam>>
    OBVIOUS
  <2>4. a \in Seq(Nat) /\ b \in Seq(Nat)
    BY <2>1, <2>2, <2>3
  <2>5. Lines(s) = <<a, b>>
    BY <1>1, <2>2, <2>3 DEF Lines
  <2> QED BY <2>4, <2>5
<1>2. CASE s # "stats"
  <2>1. s \in TableName
    BY <1>2 DEF Section
  <2>2. PICK c \in [Word -> Seq(Nat)] : c = tables[s]
    BY <2>1 DEF DataOK, Tables
  <2>3. PICK W \in Nat : W = Weight[4]
    BY Weights, HoneypotAssumption
  <2>4. PICK lists : lists = [n \in 1..W |-> [j \in 1..Len(c[n - 1]) |-> <<n - 1, c[n - 1][j]>>]]
    OBVIOUS
  <2>5. ASSUME NEW n \in 1..W PROVE lists[n] \in Seq(Seq(Nat))
    <3>1. n - 1 \in Word /\ n - 1 \in Nat
      BY <2>3 DEF Word
    <3>2. PICK e : e = c[n - 1]
      OBVIOUS
    <3>3. e \in Seq(Nat)
      BY <3>1, <3>2
    <3>4. PICK m : m = n - 1
      OBVIOUS
    <3>5. lists[n] = [j \in 1..Len(e) |-> <<m, e[j]>>]
      BY <2>4, <3>2, <3>4
    <3>6. \A j \in 1..Len(e) : <<m, e[j]>> \in Seq(Nat)
      BY <3>1, <3>3, <3>4
    <3>7. Len(e) \in Nat
      BY <3>3
    <3> QED BY <3>5, <3>6, <3>7
  <2>6. lists \in Seq(Seq(Seq(Nat)))
    BY <2>4, <2>5
  <2>7. FlattenSeq(lists) \in Seq(Seq(Nat))
    <3>1. PICK S : S = Seq(Nat)
      OBVIOUS
    <3> QED BY <2>6, <3>1, FlattenTyped
  <2>8. Lines(s) = FlattenSeq(lists)
    BY <1>2, <2>2, <2>3, <2>4 DEF Lines, Listings
  <2> QED BY <2>7, <2>8
<1> QED BY <1>1, <1>2

TypeInv == SnapInv /\ DataOK

(* TypeInv is inductive. *)
LEMMA TypeStep == TypeInv /\ [Next]_vars => TypeInv'
PROOF BY SnapshotStep, DataStep DEF TypeInv, SnapInv

(* The printed lines are lines of the report's section, so they are lines  *)
(* of numbers.                                                             *)
LEMMA TypeImplied == TypeInv => TypeOK
<1> SUFFICES ASSUME TypeInv PROVE TypeOK
  OBVIOUS
<1>1. Types /\ PrintedOK /\ Snapshot /\ DataOK
  BY DEF TypeInv, SnapInv, KInv
<1>2. printed \in [Reporter -> Seq(Seq(Nat))]
  <2>1. ASSUME NEW t \in Reporter PROVE printed[t] \in Seq(Seq(Nat))
    <3>1. CASE pc[t] # "lines"
      <4>1. printed[t] = <<>>
        BY <1>1, <3>1 DEF PrintedOK
      <4> QED BY <4>1
    <3>2. CASE pc[t] = "lines"
      <4>1. Head(sections[t]) \in Section
        BY <1>1, <3>2, HeadSection DEF Types
      <4>2. \A i \in 1..Len(printed[t]) : printed[t][i] \in Seq(Nat)
        <5>1. \A i \in 1..Len(printed[t]) : i \in DOMAIN Lines(Head(sections[t]))
                 /\ printed[t][i] = Lines(Head(sections[t]))[i]
          BY <1>1, <3>2 DEF Snapshot
        <5> QED BY <1>1, <4>1, <5>1, LinesTyped
      <4>3. PICK S : printed[t] \in Seq(S)
        BY <1>1 DEF PrintedOK
      <4>4. PICK N : N = Seq(Nat)
        OBVIOUS
      <4>5. printed[t] \in Seq(N)
        BY <4>2, <4>3, <4>4
      <4> QED BY <4>4, <4>5
    <3> QED BY <3>1, <3>2
  <2> QED BY <1>1, <2>1 DEF DataOK
<1>3. DOMAIN stats = DOMAIN NoTotals
  BY <1>1 DEF DataOK, Totals, NoTotals
<1> QED BY <1>1, <1>2, <1>3 DEF TypeOK, Types, DataOK, Totals, Tables

(* Every variable has its type: no report runs past the lines of its       *)
(* section, the keyboard keeps no more than MaxKeys characters, and a      *)
(* command or a check leaves every table a table.                          *)
THEOREM KernelTyped == Spec => []TypeOK
<1>1. Init => TypeInv
  BY SnapshotInit, DataInit DEF TypeInv
<1> QED BY <1>1, TypeStep, TypeImplied, PTL DEF Spec

-----------------------------------------------------------------------------
(* The lists a user sees, as a function of where core 2 is and of the      *)
(* tables and the packet it works on.                                      *)
UnobservedAt(place) ==
  CASE place \in {"poll_check", "update_stats"} -> {}
    [] place = "check_vulnerable"               -> {"vulnerable", "evil"}
    [] place = "check_evil"                     -> {"evil"}
    [] OTHER                                    -> TableName

CommandedAt(place, t, p) == IF place \in {"execute", "command"} THEN Execute(t, p) ELSE t

(* The tables t after the packet p was looked up in those of S. *)
Checked(t, p, S) ==
  [l \in TableName |-> IF l \in S THEN WithIncrement(t[l], Key(p, l)) ELSE t[l]]

ListsAt(place, t, p) == Checked(CommandedAt(place, t, p), p, UnobservedAt(place))

(* Whether the packet is, or will be, found to be spam. *)
SpamAt(place, t, p, c) ==
  \/ 1 \in c
  \/ /\ "spam" \in UnobservedAt(place)
     /\ Listed(CommandedAt(place, t, p)["spam"], Key(p, "spam"))

(* What one observation does to a table and to the others. *)
LEMMA ObserveAt ==
  ASSUME NEW t \in Tables, NEW p, NEW l \in TableName
  PROVE  /\ Observe(t, p, l)[l] = WithIncrement(t[l], Key(p, l))
         /\ \A m \in TableName : m # l => Observe(t, p, l)[m] = t[m]
PROOF BY DEF Observe, Tables

(* The mapped lists and the mapped code are those of the place. *)
LEMMA Mapped ==
  ASSUME NEW place, NEW t \in Tables, NEW p
  PROVE  /\ CommandedAt(place, t, p) \in Tables
         /\ [l \in TableName |->
               IF l \in UnobservedAt(place) THEN Observe(CommandedAt(place, t, p), p, l)[l]
                                            ELSE CommandedAt(place, t, p)[l]]
              = ListsAt(place, t, p)
         /\ \A c : 1 \in c \cup UNION {FlagOf(CommandedAt(place, t, p), p, l) :
                                         l \in UnobservedAt(place)}
                     <=> SpamAt(place, t, p, c)
<1>0. "spam" \in TableName
  BY DEF TableName
<1>1. PICK u \in Tables : u = CommandedAt(place, t, p)
  BY <1>0, TablesTyped DEF CommandedAt
<1>2. PICK S : S = UnobservedAt(place)
  OBVIOUS
<1>3. S \subseteq TableName
  BY <1>2 DEF UnobservedAt, TableName
<1>4. \A l \in TableName : Observe(u, p, l)[l] = WithIncrement(u[l], Key(p, l))
  BY ObserveAt
<1>5. [l \in TableName |-> IF l \in S THEN Observe(u, p, l)[l] ELSE u[l]] = Checked(u, p, S)
  BY <1>4 DEF Checked
<1>6. \A l \in TableName : 1 \in FlagOf(u, p, l) <=> l = "spam" /\ Listed(u[l], Key(p, l))
  BY DEF FlagOf, Flag, TableName
<1>7. ASSUME NEW c
      PROVE  1 \in c \cup UNION {FlagOf(u, p, l) : l \in S}
               <=> 1 \in c \/ ("spam" \in S /\ Listed(u["spam"], Key(p, "spam")))
  BY <1>0, <1>3, <1>6
<1>8. \A c : SpamAt(place, t, p, c)
               <=> 1 \in c \/ ("spam" \in S /\ Listed(u["spam"], Key(p, "spam")))
  BY <1>1, <1>2 DEF SpamAt
<1>9. ListsAt(place, t, p) = Checked(u, p, S)
  BY <1>1, <1>2 DEF ListsAt
<1> QED BY <1>1, <1>2, <1>5, <1>7, <1>8, <1>9

(* Looking a packet up in a table now or later makes no difference. *)
LEMMA CheckedNow ==
  ASSUME NEW t \in Tables, NEW p, NEW S \in SUBSET TableName, NEW l \in S
  PROVE  Checked(Observe(t, p, l), p, S \ {l}) = Checked(t, p, S)
<1>1. PICK u : u = Observe(t, p, l)
  OBVIOUS
<1>2. u[l] = WithIncrement(t[l], Key(p, l)) /\ \A m \in TableName : m # l => u[m] = t[m]
  BY <1>1, ObserveAt
<1>3. Checked(u, p, S \ {l}) = Checked(t, p, S)
  BY <1>2 DEF Checked
<1> QED BY <1>1, <1>3

(* Looked up nowhere, the tables are what they are. *)
LEMMA CheckedNowhere == ASSUME NEW t \in Tables, NEW p PROVE Checked(t, p, {}) = t
PROOF BY DEF Checked, Tables

-----------------------------------------------------------------------------
Place == pc["checker"]

(* The mapping, in those terms. *)
Lists  == ListsAt(Place, tables, packet)
Spam   == SpamAt(Place, tables, packet, code)
Number == stats.total_packets + (IF InHand THEN 1 ELSE 0)
Volume == stats.bytes_handled + (IF InHand THEN packet.length ELSE 0)
Found  == stats.total_spam + (IF InHand /\ Spam THEN 1 ELSE 0)

(* The barred variables of the refinement are these, before a step and     *)
(* after it.                                                               *)
LEMMA Barred ==
  ASSUME DataOK, DataOK'
  PROVE  /\ FinalLists = Lists /\ FinalLists' = Lists'
         /\ (1 \in FinalCode <=> Spam) /\ (1 \in FinalCode' <=> Spam')
<1>1. PICK a : a = pc["checker"]
  OBVIOUS
<1>2. PICK b : b = pc'["checker"]
  OBVIOUS
<1>3. PICK t \in Tables : t = tables
  BY DEF DataOK
<1>4. PICK u \in Tables : u = tables'
  BY DEF DataOK
<1>5. PICK p : p = packet
  OBVIOUS
<1>6. PICK q : q = packet'
  OBVIOUS
<1>7. PICK c : c = code
  OBVIOUS
<1>8. PICK d : d = code'
  OBVIOUS
<1>9. /\ Commanded = CommandedAt(a, t, p) /\ Unobserved = UnobservedAt(a)
      /\ Commanded' = CommandedAt(b, u, q) /\ Unobserved' = UnobservedAt(b)
  BY <1>1, <1>2, <1>3, <1>4, <1>5, <1>6
    DEF Commanded, Commanding, Unobserved, CommandedAt, UnobservedAt
<1>10. /\ Lists = ListsAt(a, t, p) /\ Lists' = ListsAt(b, u, q)
       /\ Spam = SpamAt(a, t, p, c) /\ Spam' = SpamAt(b, u, q, d)
  BY <1>1, <1>2, <1>3, <1>4, <1>5, <1>6, <1>7, <1>8 DEF Lists, Spam, Place
<1>11. /\ FinalLists = [l \in TableName |->
              IF l \in UnobservedAt(a) THEN Observe(CommandedAt(a, t, p), p, l)[l]
                                       ELSE CommandedAt(a, t, p)[l]]
       /\ FinalLists' = [l \in TableName |->
              IF l \in UnobservedAt(b) THEN Observe(CommandedAt(b, u, q), q, l)[l]
                                       ELSE CommandedAt(b, u, q)[l]]
  BY <1>5, <1>6, <1>9 DEF FinalLists
<1>12. /\ FinalCode = c \cup UNION {FlagOf(CommandedAt(a, t, p), p, l) : l \in UnobservedAt(a)}
       /\ FinalCode' = d \cup UNION {FlagOf(CommandedAt(b, u, q), q, l) : l \in UnobservedAt(b)}
  BY <1>5, <1>6, <1>7, <1>8, <1>9 DEF FinalCode
<1>13. FinalLists = Lists /\ (1 \in FinalCode <=> Spam)
  BY <1>10, <1>11, <1>12, Mapped
<1>14. FinalLists' = Lists' /\ (1 \in FinalCode' <=> Spam')
  BY <1>10, <1>11, <1>12, Mapped
<1> QED BY <1>13, <1>14

-----------------------------------------------------------------------------
(* Core 2 has no packet before the boot is over, and then finds the tables *)
(* as they were created; between two packets there is no code.             *)
Waiting ==
  /\ ~Receiving => /\ Place = "poll_check"
                   /\ tables = [l \in TableName |-> Unlisted(Word)]
  /\ Place = "poll_check" => 1 \notin code

(* What core 2 does without touching tables, totals, packet and code.      *)
Moves(from, to) ==
  /\ Place = from /\ Place' = to
  /\ pc'["boot"] = pc["boot"]
  /\ UNCHANGED <<tables, stats, packet, code>>

(* The steps, as far as they matter to what core 2 is doing. *)
LEMMA StepsOfChecker ==
  ASSUME KInv, [Next]_vars
  PROVE  \/ /\ Place' = Place /\ UNCHANGED <<tables, stats, packet, code>>
            /\ Receiving => Receiving'
         \/ /\ Place' = Place /\ UNCHANGED <<stats, packet, code>> /\ ~Receiving
            /\ \E l \in TableName : tables' = [tables EXCEPT ![l] = Unlisted(Word)]
         \/ \E p \in Arrival : PollCheck(p)
         \/ CheckerWork
         \/ \E from \in ReportLabel, to \in ReportLabel \cup {"check_spam"} : Moves(from, to)
<1>1. /\ pc \in [Thread -> BootLabel \cup TrapLabel \cup CheckerLabel \cup ReportLabel]
      /\ {"boot", "trap", "checker"} \subseteq Thread
  BY Labels DEF KInv, Types
<1>2. ASSUME NEW t \in Thread, NEW from, NEW to, Goto(t, from, to)
      PROVE  /\ t # "checker" => Place' = Place
             /\ t = "checker" => Place = from /\ Place' = to
             /\ t # "boot" => pc'["boot"] = pc["boot"]
             /\ t = "boot" => pc["boot"] = from
  BY <1>1, <1>2 DEF Goto, Place
<1> DEFINE Aside == /\ Place' = Place /\ UNCHANGED <<tables, stats, packet, code>>
                    /\ Receiving => Receiving'
<1>3. CASE UNCHANGED vars \/ \E c \in Char : Type(c)
  <2>1. UNCHANGED <<pc, tables, stats, packet, code>>
    BY <1>3 DEF vars, Type, waitVars, factVars
  <2> QED BY <2>1 DEF Place, Receiving
<1>4. CASE \E t \in Thread : PrintfStep(t)
  BY <1>4 DEF PrintfStep, factVars, Place, Receiving
<1>5. CASE BootStep
  <2>1. ASSUME NEW from, NEW to, from # "idle", Goto("boot", from, to), UNCHANGED factVars
        PROVE  Aside
    BY <1>1, <1>2, <2>1 DEF factVars, Receiving
  <2>2. ASSUME NEW l \in TableName, NEW from, NEW to, from # "idle", HashtableCreate(l, from, to)
        PROVE  /\ Place' = Place /\ UNCHANGED <<stats, packet, code>> /\ ~Receiving
               /\ \E m \in TableName : tables' = [tables EXCEPT ![m] = Unlisted(Word)]
    BY <1>1, <1>2, <2>2 DEF HashtableCreate, Receiving
  <2>3. CASE KeyboardInit \/ HeaderSpaceMalloc \/ GarbageListAlloc \/ InitialDmaRingSlot
             \/ StartReceive
    <3>1. KeyboardInit => Aside
      BY <2>1 DEF KeyboardInit
    <3>2. HeaderSpaceMalloc => Aside
      BY <2>1 DEF HeaderSpaceMalloc, BootPrint
    <3>3. GarbageListAlloc => Aside
      BY <2>1 DEF GarbageListAlloc, BootPrint
    <3>4. InitialDmaRingSlot => Aside
      BY <2>1 DEF InitialDmaRingSlot, BootPrint
    <3>5. StartReceive => Aside
      BY <2>1 DEF StartReceive, BootPrint
    <3> QED BY <2>3, <3>1, <3>2, <3>3, <3>4, <3>5
  <2>4. CASE \E l \in TableName, from, to \in BootLabel :
               from # "idle" /\ HashtableCreateLock(l, from, to)
    BY <2>1, <2>4 DEF HashtableCreateLock
  <2>5. CASE \E l \in TableName, from, to \in BootLabel :
               from # "idle" /\ HashtableCreate(l, from, to)
    BY <2>2, <2>5
  <2>6. {"create_evil", "fill_evil", "create_vulnerable", "fill_vulnerable", "create_spam",
         "fill_spam", "network_start_receive"} \subseteq BootLabel
        /\ {"evil", "vulnerable", "spam"} \subseteq TableName
    BY DEF BootLabel, TableName
  <2> QED BY <1>5, <2>3, <2>4, <2>5, <2>6 DEF BootStep, CreateTables
<1>6. ASSUME NEW from, NEW to, Goto("trap", from, to), UNCHANGED factVars PROVE Aside
  BY <1>1, <1>2, <1>6 DEF factVars, Receiving
<1>7. CASE Interrupt \/ TrapStep \/ ReportFault("trap")
  BY <1>6, <1>7 DEF Interrupt, TrapStep, TrapHandler, InterruptHandler, TrapPrint, KeyboardTrap,
    TrapReturn, ReportFault
<1>8. CASE ReportStep("trap")
  BY <1>6, <1>8 DEF ReportStep, ReportTitle, ReportDone, ReportLock, ReportLine, ReportUnlock
<1>9. CASE ReportStep("checker")
  <2>1. ASSUME NEW from, NEW to, Goto("checker", from, to), UNCHANGED factVars
        PROVE  Moves(from, to)
    BY <1>1, <1>2, <2>1 DEF factVars, Moves
  <2>2. {"report", "section_lock", "lines"} \subseteq ReportLabel
    BY DEF ReportLabel
  <2> QED BY <1>9, <2>1, <2>2 DEF ReportStep, ReportTitle, ReportDone, ReportLock, ReportLine,
            ReportUnlock
<1>10. \A t \in Reporter : t = "trap" \/ t = "checker"
  BY Labels
<1> QED BY <1>3, <1>4, <1>5, <1>7, <1>8, <1>9, <1>10 DEF Next

(* The places before a packet is commanded, and where it is looked up. *)
LEMMA Places ==
  /\ UnobservedAt("poll_check") = {} /\ UnobservedAt("update_stats") = {}
  /\ UnobservedAt("execute") = TableName /\ UnobservedAt("command") = TableName
  /\ \A r \in ReportLabel \cup {"check_spam"} :
       UnobservedAt(r) = TableName /\ r \notin {"execute", "command", "poll_check"}
  /\ UnobservedAt("check_vulnerable") = TableName \ {"spam"}
  /\ UnobservedAt("check_evil") = UnobservedAt("check_vulnerable") \ {"vulnerable"}
  /\ UnobservedAt("update_stats") = UnobservedAt("check_evil") \ {"evil"}
  /\ "spam" \in TableName
PROOF BY DEF UnobservedAt, ReportLabel, TableName

(* Waiting holds at first and is kept. *)
LEMMA WaitingStep == Waiting /\ KInv /\ DataOK /\ [Next]_vars => Waiting'
<1> SUFFICES ASSUME Waiting, KInv, DataOK, [Next]_vars PROVE Waiting'
  OBVIOUS
<1>1. CASE /\ Place' = Place /\ UNCHANGED <<tables, stats, packet, code>>
           /\ Receiving => Receiving'
  BY <1>1 DEF Waiting
<1>2. CASE /\ Place' = Place /\ UNCHANGED <<stats, packet, code>> /\ ~Receiving
           /\ \E l \in TableName : tables' = [tables EXCEPT ![l] = Unlisted(Word)]
  <2>1. PICK n : n = Unlisted(Word)
    OBVIOUS
  <2>2. tables = [l \in TableName |-> n]
    BY <1>2, <2>1 DEF Waiting
  <2>3. tables' = tables
    BY <1>2, <2>1, <2>2
  <2> QED BY <1>2, <2>3 DEF Waiting
<1>3. pc["checker"] \in CheckerLabel \cup ReportLabel
      /\ pc \in [Thread -> BootLabel \cup TrapLabel \cup CheckerLabel \cup ReportLabel]
      /\ {"boot", "checker"} \subseteq Thread
  BY Labels DEF KInv, Types
<1>4. ASSUME NEW from, NEW to, Goto("checker", from, to)
      PROVE  Place = from /\ Place' = to /\ (Receiving' <=> Receiving)
  BY <1>3, <1>4 DEF Goto, Place, Receiving
<1>5. CASE \E p \in Arrival : PollCheck(p)
  BY <1>4, <1>5 DEF PollCheck, Waiting
<1>6. CASE CheckerWork
  <2>1. CASE CountPacket
    BY <1>4, <2>1 DEF CountPacket, Waiting
  <2>2. ASSUME NEW from, NEW to, Goto("checker", from, to), from # "poll_check", to # "poll_check"
        PROVE  Waiting'
    BY <1>4, <2>2 DEF Waiting
  <2>3. CASE ExecuteNothing \/ ExecutePrint \/ ExecuteLock \/ ExecuteCommand
    BY <2>2, <2>3 DEF ExecuteNothing, ExecutePrint, ExecuteLock, ExecuteCommand
  <2>4. CASE CheckSpam \/ CheckVulnerable \/ CheckEvil
    BY <2>2, <2>4 DEF CheckSpam, CheckVulnerable, CheckEvil, CheckTable
  <2> QED BY <1>6, <2>1, <2>3, <2>4 DEF CheckerWork
<1>7. CASE \E from \in ReportLabel, to \in ReportLabel \cup {"check_spam"} : Moves(from, to)
  <2>1. \A r \in ReportLabel \cup {"check_spam"} : r # "poll_check"
    BY Places
  <2> QED BY <1>7, <2>1 DEF Moves, Waiting, Receiving
<1> QED BY <1>1, <1>2, <1>5, <1>6, <1>7, StepsOfChecker

-----------------------------------------------------------------------------
(* Nothing a user sees changes. *)
Unseen ==
  /\ Lists' = Lists
  /\ Spam' <=> Spam
  /\ InHand' <=> InHand
  /\ UNCHANGED <<stats, packet>>

(* What core 2 does with the packet in its hands changes nothing a user    *)
(* sees: it was accounted for when core 2 took the packet.                 *)
LEMMA WorkUnseen ==
  ASSUME KInv, DataOK, CheckerWork \/ \E from \in ReportLabel, to \in ReportLabel \cup {"check_spam"} :
                                        Moves(from, to)
  PROVE  Unseen \/ CountPacket
<1>1. PICK t \in Tables : t = tables
  BY DEF DataOK
<1>2. PICK p \in Arrival : p = packet
  BY DEF KInv, Types
<1>3. PICK c : c = code
  OBVIOUS
<1>4. pc \in [Thread -> BootLabel \cup TrapLabel \cup CheckerLabel \cup ReportLabel]
      /\ "checker" \in Thread
  BY Labels DEF KInv, Types
<1>5. ASSUME NEW from, NEW to, Goto("checker", from, to) PROVE Place = from /\ Place' = to
  BY <1>4, <1>5 DEF Goto, Place
<1>6. ASSUME NEW from, NEW to, Place = from, Place' = to, from # "poll_check", to # "poll_check",
             NEW u, tables' = u, NEW d, code' = d, UNCHANGED <<stats, packet>>,
             ListsAt(to, u, p) = ListsAt(from, t, p), SpamAt(to, u, p, d) <=> SpamAt(from, t, p, c)
      PROVE  Unseen
  BY <1>1, <1>2, <1>3, <1>6 DEF Unseen, Lists, Spam, InHand, Place
<1>7. ASSUME NEW from, NEW to, Place = from, Place' = to, from # "poll_check", to # "poll_check",
             UNCHANGED <<tables, stats, packet, code>>,
             UnobservedAt(from) = UnobservedAt(to),
             CommandedAt(from, t, p) = CommandedAt(to, t, p)
      PROVE  Unseen
  BY <1>1, <1>3, <1>6, <1>7 DEF ListsAt, SpamAt
<1>8. CASE \E from \in ReportLabel, to \in ReportLabel \cup {"check_spam"} : Moves(from, to)
  BY <1>7, <1>8, Places DEF Moves, CommandedAt
<1>9. CASE ExecuteNothing \/ ExecutePrint
  <2>1. PICK to \in {"check_spam", "report"} : Goto("checker", "execute", to)
                                           /\ UNCHANGED <<tables, stats, packet, code>>
    BY <1>9 DEF ExecuteNothing, ExecutePrint, factVars
  <2>2. p.command.op \in {"none", "print"}
    BY <1>2, <1>9 DEF ExecuteNothing, ExecutePrint
  <2>3. Execute(t, p) = t
    BY <2>2 DEF Execute
  <2>4. to \in ReportLabel \cup {"check_spam"}
    BY DEF ReportLabel
  <2>5. CommandedAt("execute", t, p) = t /\ CommandedAt(to, t, p) = t
    BY <2>3 DEF CommandedAt
  <2> QED BY <1>5, <1>7, <2>1, <2>4, <2>5, Places
<1>10. CASE ExecuteLock
  <2>1. Goto("checker", "execute", "command") /\ UNCHANGED <<tables, stats, packet, code>>
    BY <1>10 DEF ExecuteLock, factVars
  <2>2. CommandedAt("execute", t, p) = CommandedAt("command", t, p)
    BY DEF CommandedAt
  <2> QED BY <1>5, <1>7, <2>1, <2>2, Places
<1>11. CASE ExecuteCommand
  <2>1. /\ Place = "command" /\ Place' = "check_spam"
        /\ UNCHANGED <<stats, packet, code>> /\ tables' = Execute(t, p)
    BY <1>1, <1>2, <1>5, <1>11 DEF ExecuteCommand
  <2>2. PICK u : u = Execute(t, p)
    OBVIOUS
  <2>3. CommandedAt("command", t, p) = u /\ CommandedAt("check_spam", u, p) = u
    BY <2>2 DEF CommandedAt
  <2>4. UnobservedAt("command") = UnobservedAt("check_spam")
    BY Places
  <2>5. ListsAt("check_spam", u, p) = ListsAt("command", t, p)
        /\ (SpamAt("check_spam", u, p, c) <=> SpamAt("command", t, p, c))
    BY <2>3, <2>4 DEF ListsAt, SpamAt
  <2> QED BY <1>3, <1>6, <2>1, <2>2, <2>5
<1>12. ASSUME NEW l \in TableName, NEW from \in {"check_spam", "check_vulnerable", "check_evil"},
              NEW to \in {"check_vulnerable", "check_evil", "update_stats"},
              CheckTable(l, from, to), l \in UnobservedAt(from),
              UnobservedAt(to) = UnobservedAt(from) \ {l}
       PROVE  Unseen
  <2>1. /\ Place = from /\ Place' = to /\ UNCHANGED <<stats, packet>>
        /\ tables' = Observe(t, p, l) /\ code' = c \cup FlagOf(t, p, l)
    BY <1>1, <1>2, <1>3, <1>5, <1>12 DEF CheckTable
  <2>2. PICK u : u = Observe(t, p, l)
    OBVIOUS
  <2>3. PICK d : d = c \cup FlagOf(t, p, l)
    OBVIOUS
  <2>4. PICK S : S = UnobservedAt(from)
    OBVIOUS
  <2>5. S \in SUBSET TableName /\ l \in S
    BY <1>12, <2>4 DEF UnobservedAt, TableName
  <2>6. CommandedAt(from, t, p) = t /\ CommandedAt(to, u, p) = u
    BY DEF CommandedAt
  <2>7. Checked(u, p, S \ {l}) = Checked(t, p, S)
    BY <2>2, <2>5, CheckedNow
  <2>8. ListsAt(to, u, p) = ListsAt(from, t, p)
    BY <1>12, <2>4, <2>6, <2>7 DEF ListsAt
  <2>9. 1 \in d <=> 1 \in c \/ (l = "spam" /\ Listed(t["spam"], Key(p, "spam")))
    BY <2>3 DEF FlagOf, Flag, TableName
  <2>10. l # "spam" => u["spam"] = t["spam"]
    BY <2>2, ObserveAt, Places
  <2>11. SpamAt(to, u, p, d) <=> SpamAt(from, t, p, c)
    BY <1>12, <2>4, <2>5, <2>6, <2>9, <2>10 DEF SpamAt
  <2> QED BY <1>6, <2>1, <2>2, <2>3, <2>8, <2>11
<1>13. CASE CheckSpam \/ CheckVulnerable \/ CheckEvil
  <2>1. /\ "spam" \in UnobservedAt("check_spam") /\ "vulnerable" \in UnobservedAt("check_vulnerable")
        /\ "evil" \in UnobservedAt("check_evil")
        /\ UnobservedAt("check_vulnerable") = UnobservedAt("check_spam") \ {"spam"}
        /\ {"spam", "vulnerable", "evil"} \subseteq TableName
    BY DEF UnobservedAt, TableName
  <2>2. CheckSpam => Unseen
    BY <1>12, <2>1 DEF CheckSpam
  <2>3. CheckVulnerable => Unseen
    BY <1>12, <2>1, Places DEF CheckVulnerable
  <2>4. CheckEvil => Unseen
    BY <1>12, <2>1, Places DEF CheckEvil
  <2> QED BY <1>13, <2>2, <2>3, <2>4
<1> QED BY <1>8, <1>9, <1>10, <1>11, <1>13 DEF CheckerWork

(* The numbers a user sees are numbers. *)
LEMMA SeenTotals ==
  ASSUME DataOK
  PROVE  stats.total_packets \in Nat /\ stats.bytes_handled \in Nat /\ stats.total_spam \in Nat
PROOF BY DEF DataOK, Totals

(* The mapped variables, before a step and after it. *)
LEMMA MappedVars ==
  ASSUME DataOK, DataOK'
  PROVE  /\ Honest!vars = <<Lists, Number, Volume, Found>>
         /\ Honest!vars' = <<Lists', Number', Volume', Found'>>
PROOF BY Barred DEF Honest!vars, Number, Volume, Found

(* When nothing a user sees changes, the mapped variables stutter. *)
LEMMA UnseenStutters ==
  ASSUME DataOK, DataOK', Unseen
  PROVE  UNCHANGED Honest!vars
<1>1. Number' = Number /\ Volume' = Volume /\ Found' = Found
  BY DEF Unseen, Number, Volume, Found
<1> QED BY <1>1, MappedVars DEF Unseen

(* Neither does what a user sees change when the packet is counted.        *)
LEMMA CountStutters ==
  ASSUME KInv, DataOK, DataOK', CountPacket
  PROVE  UNCHANGED Honest!vars
<1>1. pc \in [Thread -> BootLabel \cup TrapLabel \cup CheckerLabel \cup ReportLabel]
      /\ "checker" \in Thread
  BY Labels DEF KInv, Types
<1>2. /\ Place = "update_stats" /\ Place' = "poll_check" /\ UNCHANGED <<tables, packet>>
      /\ stats' = UpdateStats(stats, packet, code) /\ code' = {}
  BY <1>1 DEF CountPacket, Goto, Place
<1>3. InHand /\ ~InHand'
  BY <1>2 DEF InHand, Place
<1>4. /\ stats'.total_packets = stats.total_packets + 1
      /\ stats'.bytes_handled = stats.bytes_handled + packet.length
      /\ stats'.total_spam = stats.total_spam + (IF 1 \in code THEN 1 ELSE 0)
  BY <1>2 DEF UpdateStats
<1>5. Spam <=> 1 \in code
  BY <1>2, Places DEF Spam, SpamAt
<1>6. packet.length \in Nat
  BY KernelAssumption, HoneypotAssumption DEF Packet, KInv, Types
<1>7. Number' = Number /\ Volume' = Volume /\ Found' = Found
  <2>1. Number' = stats'.total_packets /\ Volume' = stats'.bytes_handled
        /\ Found' = stats'.total_spam
    BY <1>3, <1>4, <1>6, SeenTotals DEF Number, Volume, Found
  <2>2. Number = stats.total_packets + 1 /\ Volume = stats.bytes_handled + packet.length
        /\ Found = stats.total_spam + (IF 1 \in code THEN 1 ELSE 0)
    BY <1>3, <1>5 DEF Number, Volume, Found
  <2> QED BY <1>4, <2>1, <2>2
<1>8. Lists' = Lists
  <2>1. PICK t : t = tables
    OBVIOUS
  <2>2. PICK p : p = packet
    OBVIOUS
  <2>3. Lists = ListsAt("update_stats", t, p) /\ Lists' = ListsAt("poll_check", t, p)
    BY <1>2, <2>1, <2>2 DEF Lists
  <2> QED BY <2>3, Places DEF ListsAt, CommandedAt
<1> QED BY <1>7, <1>8, MappedVars

(* The keys of a command and of the three look-ups are the numbers their   *)
(* big-endian fields denote.                                               *)
LEMMA KeysDenote ==
  ASSUME NEW p \in Arrival
  PROVE  /\ DataKey(p) = Honest!Network(p.data)
         /\ \A l \in TableName : Key(p, l) = Honest!Subject(p, l)
<1>1. /\ p.source \in [1..4 -> Byte] /\ p.port \in [1..2 -> Byte] /\ p.data \in [1..4 -> Byte]
  BY KernelAssumption DEF Packet
<1>2. DataKey(p) = Honest!Network(p.data)
  <2>1. PICK f : f = p.data
    OBVIOUS
  <2> QED BY <1>1, <2>1, ChangedWord DEF DataKey
<1>3. ChangeEnd(LoadWord(p.source)) = Honest!Network(p.source)
  <2>1. PICK f : f = p.source
    OBVIOUS
  <2> QED BY <1>1, <2>1, ChangedWord
<1>4. ChangeEnd(LoadHalf(p.port) * Weight[2]) = Honest!Port(p.port)
  <2>1. PICK f : f = p.port
    OBVIOUS
  <2> QED BY <1>1, <2>1, ChangedHalf
<1> QED BY <1>2, <1>3, <1>4 DEF Key, Honest!Subject, TableName

(* Taking a packet is handling it. *)
LEMMA PollHandles ==
  ASSUME KInv, DataOK, DataOK', Waiting, NEW p \in Arrival, PollCheck(p)
  PROVE  Honest!Handle(p)
<1>1. pc \in [Thread -> BootLabel \cup TrapLabel \cup CheckerLabel \cup ReportLabel]
      /\ "checker" \in Thread
  BY Labels DEF KInv, Types
<1>2. /\ Place = "poll_check" /\ Place' = "execute" /\ UNCHANGED <<tables, stats, code>>
      /\ packet' = p /\ 1 \notin code
  BY <1>1 DEF PollCheck, Goto, Place, Waiting
<1>3. ~InHand /\ InHand'
  BY <1>2 DEF InHand, Place
<1>4. PICK t \in Tables : t = tables
  BY DEF DataOK
<1>5. Lists = t
  <2>1. PICK q : q = packet
    OBVIOUS
  <2>2. Lists = Checked(t, q, {})
    BY <1>2, <1>4, <2>1, Places DEF Lists, ListsAt, CommandedAt
  <2> QED BY <2>2, CheckedNowhere
<1>6. PICK u : u = Execute(t, p)
  OBVIOUS
<1>7. Lists' = [l \in TableName |-> WithIncrement(u[l], Key(p, l))]
  <2>1. Lists' = Checked(u, p, TableName)
    BY <1>2, <1>4, <1>6, Places DEF Lists, ListsAt, CommandedAt
  <2> QED BY <2>1 DEF Checked
<1>8. Spam' <=> Listed(u["spam"], Key(p, "spam"))
  BY <1>2, <1>4, <1>6, Places DEF Spam, SpamAt, CommandedAt
<1>9. Honest!Obeyed(p) = u
  <2>1. FinalLists = t
    BY <1>5, Barred
  <2>2. PICK k : k = DataKey(p)
    OBVIOUS
  <2>3. k = Honest!Network(p.data)
    BY <2>2, KeysDenote
  <2> QED BY <1>6, <2>1, <2>2, <2>3
          DEF Honest!Obeyed, Execute, Honest!WithPut, Honest!WithRemove, Honest!Listed, WithPut,
              WithRemove, Listed
<1>10. FinalLists' = [l \in Honest!ListName |->
                        Honest!WithIncrement(Honest!Obeyed(p)[l], Honest!Subject(p, l))]
  <2>1. Honest!ListName = TableName
    BY DEF Honest!ListName, TableName
  <2>2. \A l \in TableName : WithIncrement(u[l], Key(p, l))
                              = Honest!WithIncrement(u[l], Honest!Subject(p, l))
    BY KeysDenote DEF WithIncrement, Honest!WithIncrement, Listed, Honest!Listed
  <2> QED BY <1>7, <1>9, <2>1, <2>2, Barred
<1>11. Number' = Number + 1 /\ Volume' = Volume + p.length
  BY <1>2, <1>3, SeenTotals DEF Number, Volume
<1>12. Found' = IF Honest!Listed(Honest!Obeyed(p)["spam"], Honest!Subject(p, "spam"))
                THEN Found + 1 ELSE Found
  <2>1. Found = stats.total_spam /\ Found' = stats.total_spam + (IF Spam' THEN 1 ELSE 0)
    BY <1>2, <1>3, SeenTotals DEF Found
  <2>2. Spam' <=> Honest!Listed(Honest!Obeyed(p)["spam"], Honest!Subject(p, "spam"))
    BY <1>8, <1>9, KeysDenote, Places DEF Listed, Honest!Listed
  <2> QED BY <2>1, <2>2, SeenTotals
<1>13. /\ Honest!vars = <<Lists, Number, Volume, Found>>
       /\ Honest!vars' = <<Lists', Number', Volume', Found'>>
  BY MappedVars
<1> QED BY <1>10, <1>11, <1>12, Barred DEF Honest!Handle, Number, Volume, Found

-----------------------------------------------------------------------------
FilterInv == TypeInv /\ Waiting

(* The mapped initial state is an initial state. *)
LEMMA FilterInit == Init => FilterInv /\ Honest!Init
<1> SUFFICES ASSUME Init PROVE FilterInv /\ Honest!Init
  OBVIOUS
<1>1. TypeInv
  BY SnapshotInit, DataInit DEF TypeInv
<1>2. Place = "poll_check" /\ code = {} /\ ~InHand /\ tables = [l \in TableName |-> Unlisted(Word)]
  BY DEF Init, Place, InHand
<1>3. Waiting
  BY <1>2 DEF Waiting
<1>4. FinalLists = tables
  <2>1. Unobserved = {} /\ Commanded = tables
    BY <1>2 DEF Unobserved, Commanded, Commanding, Place
  <2> QED BY <1>2, <2>1 DEF FinalLists
<1>5. FinalLists = [l \in Honest!ListName |-> Honest!Unlisted(Word)]
  BY <1>2, <1>4 DEF Honest!ListName, TableName, Unlisted, Honest!Unlisted
<1> QED BY <1>1, <1>2, <1>3, <1>5 DEF FilterInv, Honest!Init, Init, NoTotals

(* Every step is one of the filter, or one it does not see. *)
LEMMA FilterStep == FilterInv /\ [Next]_vars => FilterInv' /\ [Honest!Next]_(Honest!vars)
<1> SUFFICES ASSUME FilterInv, [Next]_vars PROVE FilterInv' /\ [Honest!Next]_(Honest!vars)
  OBVIOUS
<1>1. KInv /\ DataOK /\ Waiting /\ TypeInv
  BY DEF FilterInv, TypeInv, SnapInv
<1>2. TypeInv' /\ DataOK'
  BY <1>1, TypeStep DEF TypeInv
<1>3. Waiting'
  BY <1>1, WaitingStep
<1>4. CASE /\ Place' = Place /\ UNCHANGED <<tables, stats, packet, code>>
  <2>1. Unseen
    BY <1>4 DEF Unseen, Lists, Spam, InHand, Place
  <2> QED BY <1>1, <1>2, <1>3, <2>1, UnseenStutters DEF FilterInv
<1>5. CASE /\ Place' = Place /\ UNCHANGED <<stats, packet, code>> /\ ~Receiving
           /\ \E l \in TableName : tables' = [tables EXCEPT ![l] = Unlisted(Word)]
  <2>1. PICK n : n = Unlisted(Word)
    OBVIOUS
  <2>2. tables = [l \in TableName |-> n]
    BY <1>1, <1>5, <2>1 DEF Waiting
  <2>3. tables' = tables
    BY <1>5, <2>1, <2>2
  <2> QED BY <1>4, <1>5, <2>3
<1>6. CASE \E p \in Arrival : PollCheck(p)
  <2>1. PICK p \in Arrival : PollCheck(p)
    BY <1>6
  <2>2. Honest!Handle(p)
    BY <1>1, <1>2, <2>1, PollHandles
  <2> QED BY <1>2, <1>3, <2>2 DEF FilterInv, Honest!Next
<1>7. CASE CheckerWork \/ \E from \in ReportLabel, to \in ReportLabel \cup {"check_spam"} : Moves(from, to)
  <2>1. Unseen \/ CountPacket
    BY <1>1, <1>7, WorkUnseen
  <2>2. UNCHANGED Honest!vars
    BY <1>1, <1>2, <2>1, UnseenStutters, CountStutters
  <2> QED BY <1>2, <1>3, <2>2 DEF FilterInv
<1> QED BY <1>1, <1>4, <1>5, <1>6, <1>7, StepsOfChecker

(* The kernel handles packets as honeypot.h describes it, each as if at    *)
(* one instant, whatever core 0 prints in between and wherever it waits:   *)
(* the little-endian keys of commands, addresses and ports are the numbers *)
(* of their big-endian fields, a packet's own command governs its check,   *)
(* and the totals count every packet once.                                 *)
THEOREM KernelFilters == Spec => ImplementsFilter
<1>1. FilterInv /\ [Next]_vars => FilterInv' /\ [Honest!Next]_(Honest!vars)
  BY FilterStep
<1>2. Init => FilterInv /\ Honest!Init
  BY FilterInit
<1> QED BY <1>1, <1>2, PTL DEF Spec, ImplementsFilter, Honest!Spec

-----------------------------------------------------------------------------
(* A step of thread t, as far as waiting is concerned. *)
Walks(t, from, to) ==
  /\ Goto(t, from, to)
  /\ printf' = printf \/ printf' = [printf EXCEPT ![t] = "called"]
  /\ t = "trap" => /\ from = "none" => to = "trap_handler"
                   /\ from = "trap_handler" => to = "interrupt_handler" /\ printf'[t] = "called"

(* Every step is one of printf(), one of a thread outside of it, or none. *)
LEMMA StepWalks ==
  ASSUME Types, [Next]_vars
  PROVE  \/ UNCHANGED <<pc, printf>>
         \/ \E t \in Thread : PrintfStep(t)
         \/ \E t \in Thread : \E from, to : Walks(t, from, to)
<1>1. CASE UNCHANGED vars \/ \E c \in Char : Type(c)
  BY <1>1 DEF vars, Type, waitVars
<1>2. CASE \E t \in Thread : PrintfStep(t)
  BY <1>2
<1>3. "boot" \in Thread /\ "trap" \in Thread /\ "checker" \in Thread
  BY DEF Thread
<1>4. ASSUME NEW t \in {"boot", "checker"}, NEW from, NEW to, Goto(t, from, to),
             printf' = printf \/ CallPrintf(t)
      PROVE  Walks(t, from, to)
  BY <1>4 DEF Walks, CallPrintf
<1>5. ASSUME NEW from, NEW to, Goto("trap", from, to), printf' = printf \/ CallPrintf("trap"),
             from \notin {"none", "trap_handler"}
      PROVE  Walks("trap", from, to)
  BY <1>5 DEF Walks, CallPrintf
<1>6. CASE BootStep
  <2>1. \E from, to : Goto("boot", from, to) /\ (printf' = printf \/ CallPrintf("boot"))
    BY <1>6 DEF BootStep, KeyboardInit, HeaderSpaceMalloc, GarbageListAlloc, InitialDmaRingSlot,
                StartReceive, BootPrint, CreateTables, HashtableCreateLock, HashtableCreate
  <2> QED BY <1>3, <1>4, <2>1
<1>7. CASE Interrupt \/ TrapStep
  <2>1. Interrupt => Walks("trap", "none", "trap_handler")
    BY DEF Interrupt, Walks
  <2>2. TrapHandler => Walks("trap", "trap_handler", "interrupt_handler")
    BY <1>3 DEF TrapHandler, TrapPrint, Walks, CallPrintf, Types
  <2>3. InterruptHandler \/ KeyboardTrap \/ TrapReturn => \E from, to : Walks("trap", from, to)
    BY <1>5 DEF InterruptHandler, TrapPrint, KeyboardTrap, TrapReturn
  <2> QED BY <1>3, <1>7, <2>1, <2>2, <2>3 DEF TrapStep
<1>8. CASE ReportFault("trap") \/ \E t \in Reporter : ReportStep(t)
  <2>1. ASSUME NEW t \in Reporter, ReportStep(t) \/ ReportFault(t)
        PROVE  \E from \in ReportLabel : \E to : Goto(t, from, to) /\ (printf' = printf \/ CallPrintf(t))
    BY <2>1 DEF ReportStep, ReportFault, ReportTitle, ReportDone, ReportLock, ReportLine,
                ReportUnlock, ReportLabel
  <2>2. "none" \notin ReportLabel /\ "trap_handler" \notin ReportLabel
        /\ Reporter = {"trap", "checker"}
    BY DEF ReportLabel, Reporter
  <2> QED BY <1>3, <1>4, <1>5, <1>8, <2>1, <2>2
<1>9. CASE CheckerWork \/ \E p \in Arrival : PollCheck(p)
  <2>1. \E from, to : Goto("checker", from, to) /\ (printf' = printf \/ CallPrintf("checker"))
    BY <1>9 DEF CheckerWork, PollCheck, ExecuteNothing, ExecutePrint, ExecuteLock, ExecuteCommand,
                CheckSpam, CheckVulnerable, CheckEvil, CheckTable, CountPacket
  <2> QED BY <1>3, <1>4, <2>1
<1> QED BY <1>1, <1>2, <1>6, <1>7, <1>8, <1>9 DEF Next

(* A trap that interrupted the boot in the middle of a message does not    *)
(* get beyond its own first message.                                       *)
TrapStuck ==
  Printing("boot") =>
    \/ pc["trap"] \in {"none", "trap_handler"}
    \/ pc["trap"] = "interrupt_handler" /\ printf["trap"] = "called"

(* Every step keeps that. *)
LEMMA TrapStuckStep == KInv /\ TrapStuck /\ [Next]_vars => TrapStuck'
<1> SUFFICES ASSUME KInv, TrapStuck, [Next]_vars, Printing("boot")'
             PROVE  \/ pc'["trap"] \in {"none", "trap_handler"}
                    \/ pc'["trap"] = "interrupt_handler" /\ printf'["trap"] = "called"
  BY DEF TrapStuck
<1>1. Types /\ Exclusion /\ "print" \in LockName
  BY Sections DEF KInv
<1>2. Thread = {"boot", "trap", "checker"}
  BY DEF Thread
<1>3. CASE UNCHANGED <<pc, printf>>
  BY <1>3 DEF TrapStuck, Printing
<1>4. ASSUME NEW t \in Thread, PrintfStep(t)
      PROVE  \/ pc'["trap"] \in {"none", "trap_handler"}
             \/ pc'["trap"] = "interrupt_handler" /\ printf'["trap"] = "called"
  <2>1. pc' = pc
    BY <1>4 DEF PrintfStep
  <2>2. CASE t = "boot"
    BY <1>4, <2>1, <2>2 DEF PrintfStep, PrintfLock, PrintText, PrintfUnlock, Running
  <2>3. CASE t # "boot"
    <3>1. printf'["boot"] = printf["boot"] /\ \A w \in Thread : w # t => printf'[w] = printf[w]
      BY <1>1, <1>2, <1>4, <2>3 DEF PrintfStep, PrintfLock, PrintText, PrintfUnlock, Types
    <3>2. Printing("boot")
      BY <3>1 DEF Printing
    <3>3. printf[t] # "called"
      <4>1. lock["print"] = 1
        BY <1>1, <1>2, <3>2 DEF Exclusion, Holds
      <4>2. printf[t] = "called" => PrintfLock(t)
        BY <1>4 DEF PrintfStep, PrintText, PrintfUnlock
      <4> QED BY <4>1, <4>2 DEF PrintfLock
    <3> QED BY <1>2, <2>1, <3>1, <3>2, <3>3 DEF TrapStuck
  <2> QED BY <2>2, <2>3
<1>5. ASSUME NEW t \in Thread, NEW from, NEW to, Walks(t, from, to)
      PROVE  \/ pc'["trap"] \in {"none", "trap_handler"}
             \/ pc'["trap"] = "interrupt_handler" /\ printf'["trap"] = "called"
  <2>1. /\ \A w \in Thread : w # t => pc'[w] = pc[w] /\ printf'[w] = printf[w]
        /\ pc[t] = from /\ pc'[t] = to /\ printf[t] = "out" /\ Running(t)
    BY <1>1, <1>5 DEF Walks, Goto, Types
  <2>2. CASE t = "boot"
    BY <1>2, <2>1, <2>2 DEF Running
  <2>3. CASE t = "checker"
    BY <1>2, <2>1, <2>3 DEF TrapStuck, Printing
  <2>4. CASE t = "trap"
    <3>1. Printing("boot")
      BY <1>2, <2>1, <2>4 DEF Printing
    <3> QED BY <1>2, <1>5, <2>1, <2>4, <3>1 DEF TrapStuck, Walks
  <2> QED BY <1>2, <2>2, <2>3, <2>4
<1> QED BY <1>1, <1>3, <1>4, <1>5, StepWalks

(* What a thread that waits for a lock does not hold. *)
LEMMA AwaitsNothingHeld ==
  ASSUME KInv, NEW t \in Thread, NEW l \in LockName, Awaits(t, l)
  PROVE  /\ ~Holds(t, "print")
         /\ l # "print" => \A m \in LockName : ~Holds(t, m)
<1>1. Types
  BY DEF KInv
<1>2. \A w \in Reporter : pc[w] = "lines" => Head(sections[w]) # "print"
  BY <1>1, HeadSection, Sections DEF Types
<1>3. packet.command.table # "print"
  BY <1>1, CommandTable DEF Types, TableName
<1>4. ~Printing(t)
  BY DEF Awaits, Printing
<1>5. ~Holds(t, "print")
  BY <1>2, <1>3, <1>4 DEF Holds
<1>6. CASE l # "print"
  BY <1>4, <1>6 DEF Awaits, Holds
<1> QED BY <1>5, <1>6

(* At first nobody prints. *)
LEMMA TrapStuckInit == Init => TrapStuck
PROOF BY DEF Init, TrapStuck, Printing, Thread

(* No deadlock, in every state in which the locks exclude, a trap in the   *)
(* middle of a boot message is stuck and core 2 waits for the boot.        *)
LEMMA NobodyWaitsInCircles == KInv /\ TrapStuck /\ Waiting => NoCircularWait
<1> SUFFICES ASSUME KInv, TrapStuck, Waiting PROVE NoCircularWait
  OBVIOUS
<1>1. Types /\ Exclusion
  BY DEF KInv
<1>2. Thread = {"boot", "trap", "checker"} /\ Reporter = {"trap", "checker"}
  BY DEF Thread, Reporter
<1>3. \A t \in Thread, l \in LockName : Awaits(t, l) /\ lock[l] = 1 => \E h \in Thread : Holds(h, l)
  BY <1>1 DEF Exclusion
<1>4. ASSUME NEW t \in Thread, NEW h \in Thread, NEW l \in LockName, Awaits(t, l), Holds(h, l)
      PROVE  /\ t # h
             /\ \A m \in LockName : Awaits(h, m) => ~Holds(t, m)
  <2>1. t # h
    BY <1>4, AwaitsNothingHeld
  <2>2. ASSUME NEW m \in LockName, Awaits(h, m) PROVE ~Holds(t, m)
    <3>1. CASE l = "print"
      BY <1>4, <2>2, <3>1, AwaitsNothingHeld
    <3>2. CASE l # "print"
      BY <1>4, <3>2, AwaitsNothingHeld
    <3> QED BY <3>1, <3>2
  <2> QED BY <2>1, <2>2
<1>5. \A t \in Thread : ~WaitsOn(t, t)
  BY <1>4 DEF WaitsOn
<1>6. ~(WaitsOn("trap", "checker") /\ WaitsOn("checker", "trap"))
      /\ ~(WaitsOn("boot", "checker") /\ WaitsOn("checker", "boot"))
  BY <1>2, <1>4 DEF WaitsOn
<1>7. ASSUME WaitsOn("trap", "checker"), WaitsOn("checker", "boot") PROVE FALSE
  <2>1. PICK l \in LockName : Awaits("trap", l) /\ Holds("checker", l)
    BY <1>7 DEF WaitsOn
  <2>2. PICK m \in LockName : Awaits("checker", m) /\ Holds("boot", m)
    BY <1>7 DEF WaitsOn
  <2>3. CASE Printing("boot")
    <3>1. Holds("boot", "print")
      BY <2>3 DEF Holds
    <3>2. l = "print"
      BY <2>1, <2>3 DEF TrapStuck, Awaits
    <3> QED BY <1>1, <1>2, <2>1, <3>1, <3>2 DEF Exclusion
  <2>4. CASE ~Printing("boot")
    <3>1. pc["boot"] \in {"fill_evil", "fill_spam", "fill_vulnerable"} /\ m # "print"
      BY <1>2, <2>2, <2>4 DEF Holds, TableName
    <3>2. pc["checker"] = "poll_check"
      BY <3>1 DEF Waiting, Receiving, Place
    <3> QED BY <2>2, <3>1, <3>2 DEF Awaits
  <2> QED BY <2>3, <2>4
<1>8. ASSUME SafeInterrupts PROVE ~WaitsOn("trap", "boot")
  BY <1>8 DEF WaitsOn, Awaits, SafeInterrupts
<1>9. ASSUME SafeInterrupts, NEW S \in (SUBSET Thread) \ {{}}
      PROVE  \E t \in S : \A h \in S : ~WaitsOn(t, h)
  <2> SUFFICES ASSUME \A t \in S : \E h \in S : WaitsOn(t, h) PROVE FALSE
    OBVIOUS
  <2>1. \A t \in S : \E h \in S : WaitsOn(t, h) /\ t # h
    BY <1>5
  <2>2. "trap" \notin S
    BY <1>2, <1>6, <1>7, <1>8, <1>9, <2>1
  <2> QED BY <1>2, <1>6, <2>1, <2>2
<1> QED BY <1>3, <1>9 DEF NoCircularWait

(* No lock is waited for that nobody has, and as long as no trap waits for *)
(* the code it interrupted, no threads wait for one another in a circle:   *)
(* neither the boot and core 2, nor a report of the keyboard and core 2,   *)
(* nor all three.                                                          *)
THEOREM NobodyDeadlocks == Spec => []NoCircularWait
<1>1. Init => FilterInv /\ TrapStuck
  BY FilterInit, TrapStuckInit
<1>2. FilterInv => KInv /\ Waiting
  BY DEF FilterInv, TypeInv, SnapInv
<1>3. FilterInv /\ TrapStuck /\ [Next]_vars => FilterInv' /\ TrapStuck'
  BY <1>2, FilterStep, TrapStuckStep
<1>4. FilterInv /\ TrapStuck => NoCircularWait
  BY <1>2, NobodyWaitsInCircles
<1> QED BY <1>1, <1>3, <1>4, PTL DEF Spec
=============================================================================
