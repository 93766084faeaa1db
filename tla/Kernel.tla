------------------------------- MODULE Kernel -------------------------------
(***************************************************************************)
(* The threads that share the tables, the totals and the console: the boot *)
(* of core 0 (kernel.c), the trap that interrupts it (kernel.c and         *)
(* keyboard.c) and the checking stage of core 2 (pipeline.c, network.c).   *)
(* The locks are those of the tables, of the totals and of printf().       *)
(*                                                                         *)
(* A step is what a thread does between two points where it may have to    *)
(* wait or be interrupted.  The boot only runs while there is no trap.     *)
(* How the packets get to core 2 is modelled in Pipeline.                  *)
(*                                                                         *)
(* A definition marked "Deviation" is no part of the specification: it is  *)
(* the one that follows it with a mistake, which a property has to catch.  *)
(***************************************************************************)
EXTENDS Honeypot, FiniteSets, FiniteSetsExt

CONSTANTS
  Arrival,     \* the packets that may come
  Char,        \* the characters that may be typed
  MaxPackets,  \* bound: no packet comes after as many were counted
  MaxKeys      \* bound: the characters the keyboard keeps

ASSUME KernelAssumption ==
  /\ Arrival \subseteq Packet
  /\ MaxPackets \in Nat
  /\ MaxKeys \in Nat

VARIABLES
  keys,      \* the characters typed and not read, the oldest first
  pc,        \* pc[t]: what thread t does next
  printf,    \* printf[t]: how far its call of printf() has got
  lock,      \* lock[l]: the lock word l
  sections,  \* sections[t]: what thread t has still to report
  printed,   \* printed[t]: the lines of the present section it has printed
  tables,    \* the listings of the three tables
  stats,     \* the totals
  packet,    \* the packet in the hands of core 2
  code       \* the code of that packet, as a set of bits

waitVars   == <<pc, printf, lock>>
reportVars == <<sections, printed>>
factVars   == <<tables, stats, packet, code>>
vars       == <<keys, waitVars, reportVars, factVars>>

Thread   == {"boot", "trap", "checker"}
Reporter == {"trap", "checker"}
Section  == TableName \cup {"stats"}
LockName == Section \cup {"print"}

BootLabel ==
  {"keyboard_init", "header_space_malloc", "garbage_list_alloc",
   "initial_dma_ring_slot_init", "create_evil", "fill_evil", "create_vulnerable",
   "fill_vulnerable", "create_spam", "fill_spam", "network_start_receive", "idle"}
ReportLabel  == {"report", "section_lock", "lines"}
TrapLabel    == {"none", "trap_handler", "interrupt_handler", "keyboard_trap", "shutdown"}
CheckerLabel ==
  {"poll_check", "execute", "command", "check_spam", "check_vulnerable",
   "check_evil", "update_stats"}

(* The stats structure is allocated by header_space_malloc(). *)
StatsAllocated == pc["boot"] \notin {"keyboard_init", "header_space_malloc"}
Receiving      == pc["boot"] = "idle"
Booted         == Receiving /\ printf["boot"] = "out"

Init ==
  /\ keys = <<>>
  /\ pc = [boot |-> "keyboard_init", trap |-> "none", checker |-> "poll_check"]
  /\ printf = [t \in Thread |-> "out"]
  /\ lock = [l \in LockName |-> 0]
  /\ sections = [t \in Reporter |-> <<>>]
  /\ printed = [t \in Reporter |-> <<>>]
  /\ tables = [l \in TableName |-> Unlisted(Word)]
  /\ stats = NoTotals
  /\ packet \in Arrival
  /\ code = {}

-----------------------------------------------------------------------------
(* The boot stands still while core 0 is in a trap. *)
Running(t) == t = "boot" => pc["trap"] = "none"

(* Thread t goes on from one label to another, outside of printf(), having *)
(* called it or not.                                                       *)
Goto(t, from, to) ==
  /\ Running(t)
  /\ printf[t] = "out"
  /\ pc[t] = from
  /\ pc' = [pc EXCEPT ![t] = to]

CallPrintf(t) == printf' = [printf EXCEPT ![t] = "called"]

(* Deviation: the mutex counts the threads that print. *)
PrintfLockCounting(t) ==
  /\ Running(t)
  /\ printf[t] = "called"
  /\ printf' = [printf EXCEPT ![t] = "locked"]
  /\ lock' = [lock EXCEPT !["print"] = @ + 1]

(* printf(): takes the mutex first, and only then disables interrupts.     *)
PrintfLock(t) ==
  /\ Running(t)
  /\ printf[t] = "called" /\ lock["print"] = 0
  /\ printf' = [printf EXCEPT ![t] = "locked"]
  /\ lock' = [lock EXCEPT !["print"] = 1]

(* print(): the text goes out character by character, and no trap of this  *)
(* core comes in between.                                                  *)
PrintText(t) ==
  /\ Running(t)
  /\ printf[t] = "locked"
  /\ printf' = [printf EXCEPT ![t] = "printed"]
  /\ UNCHANGED lock

PrintfUnlock(t) ==
  /\ Running(t)
  /\ printf[t] = "printed"
  /\ printf' = [printf EXCEPT ![t] = "out"]
  /\ lock' = [lock EXCEPT !["print"] = 0]

PrintfStep(t) ==
  /\ PrintfLock(t) \/ PrintText(t) \/ PrintfUnlock(t)
  /\ UNCHANGED <<keys, pc, reportVars, factVars>>

-----------------------------------------------------------------------------
(* Core 0, __boot(): the steps that print *)
BootPrint(from, to) ==
  /\ Goto("boot", from, to)
  /\ CallPrintf("boot")
  /\ UNCHANGED <<keys, lock, reportVars, factVars>>

KeyboardInit ==
  /\ Goto("boot", "keyboard_init", "header_space_malloc")
  /\ UNCHANGED <<keys, printf, lock, reportVars, factVars>>

HeaderSpaceMalloc  == BootPrint("header_space_malloc", "garbage_list_alloc")
GarbageListAlloc   == BootPrint("garbage_list_alloc", "initial_dma_ring_slot_init")
InitialDmaRingSlot == BootPrint("initial_dma_ring_slot_init", "create_evil")
StartReceive       == BootPrint("network_start_receive", "idle")

(* hashtable_create(): interrupts are not disabled while it has the lock.  *)
HashtableCreateLock(table, from, to) ==
  /\ lock[table] = 0
  /\ Goto("boot", from, to)
  /\ lock' = [lock EXCEPT ![table] = 1]
  /\ UNCHANGED <<keys, printf, reportVars, factVars>>

HashtableCreate(table, from, to) ==
  /\ Goto("boot", from, to)
  /\ tables' = [tables EXCEPT ![table] = Unlisted(Word)]
  /\ lock' = [lock EXCEPT ![table] = 0]
  /\ UNCHANGED <<keys, printf, reportVars, stats, packet, code>>

CreateTables ==
  \/ HashtableCreateLock("evil", "create_evil", "fill_evil")
  \/ HashtableCreate("evil", "fill_evil", "create_vulnerable")
  \/ HashtableCreateLock("vulnerable", "create_vulnerable", "fill_vulnerable")
  \/ HashtableCreate("vulnerable", "fill_vulnerable", "create_spam")
  \/ HashtableCreateLock("spam", "create_spam", "fill_spam")
  \/ HashtableCreate("spam", "fill_spam", "network_start_receive")

BootStep ==
  \/ KeyboardInit \/ HeaderSpaceMalloc \/ GarbageListAlloc
  \/ InitialDmaRingSlot \/ CreateTables \/ StartReceive

-----------------------------------------------------------------------------
(* The keyboard has a character: it interrupts core 0 once keyboard_init() *)
(* has allowed that, unless core 0 is in a trap already.                   *)
Type(c) ==
  /\ Len(keys) < MaxKeys
  /\ keys' = Append(keys, c)
  /\ UNCHANGED <<waitVars, reportVars, factVars>>

Interrupt ==
  /\ keys # <<>>
  /\ pc["boot"] # "keyboard_init"
  /\ Goto("trap", "none", "trap_handler")
  /\ UNCHANGED <<keys, printf, lock, reportVars, factVars>>

TrapPrint(from, to) ==
  /\ Goto("trap", from, to)
  /\ CallPrintf("trap")
  /\ UNCHANGED <<keys, lock, reportVars, factVars>>

TrapHandler      == TrapPrint("trap_handler", "interrupt_handler")
InterruptHandler == TrapPrint("interrupt_handler", "keyboard_trap")

(* all_print() *)
AllSections == <<"spam", "vulnerable", "evil", "stats">>

Requested(c) ==
  CASE c = "t" -> <<"stats">>
    [] c = "s" -> <<"spam">>
    [] c = "v" -> <<"vulnerable">>
    [] c = "e" -> <<"evil">>
    [] c = "a" -> AllSections
    [] OTHER   -> <<>>

KeyboardTrap ==
  /\ keys # <<>>
  /\ Goto("trap", "keyboard_trap", "report")
  /\ keys' = Tail(keys)
  /\ sections' = [sections EXCEPT !["trap"] = Requested(Head(keys))]
  /\ UNCHANGED <<printf, lock, printed, factVars>>

TrapReturn ==
  /\ keys = <<>>
  /\ Goto("trap", "keyboard_trap", "none")
  /\ UNCHANGED <<keys, printf, lock, reportVars, factVars>>

TrapStep == TrapHandler \/ InterruptHandler \/ KeyboardTrap \/ TrapReturn

-----------------------------------------------------------------------------
(* The report a thread makes: spam_print(), vulnerable_print() and         *)
(* evil_print() print a title and then hashtable_elements_print(), and     *)
(* simple_stats_print() the totals.  Each prints a heading once it has its *)
(* lock.  The other lines without data, and the rates, are left out.       *)
Listings(c) ==
  FlattenSeq([n \in 1..Weight[4] |-> [i \in 1..Len(c[n - 1]) |-> <<n - 1, c[n - 1][i]>>]])

Lines(s) ==
  IF s = "stats"
  THEN <<<<stats.total_packets, stats.bytes_handled>>,
         <<stats.total_evil, stats.total_vul, stats.total_spam>>>>
  ELSE Listings(tables[s])

ReportTitle(t) ==
  /\ sections[t] # <<>>
  /\ Goto(t, "report", "section_lock")
  /\ IF Head(sections[t]) = "stats" THEN UNCHANGED printf ELSE CallPrintf(t)
  /\ UNCHANGED <<keys, lock, reportVars, factVars>>

ReportDone(t) ==
  /\ sections[t] = <<>>
  /\ Goto(t, "report", IF t = "trap" THEN "keyboard_trap" ELSE "check_spam")
  /\ UNCHANGED <<keys, printf, lock, reportVars, factVars>>

(* The stats pointer is null: the access faults, and trap_handler() shuts  *)
(* core 0 down.                                                            *)
ReportFault(t) ==
  /\ sections[t] # <<>> /\ Head(sections[t]) = "stats" /\ ~StatsAllocated
  /\ Goto(t, "section_lock", "shutdown")
  /\ UNCHANGED <<keys, printf, lock, reportVars, factVars>>

(* Deviation: a section is printed without its lock being looked at. *)
ReportLockBlindly(t) ==
  /\ sections[t] # <<>> /\ (Head(sections[t]) = "stats" => StatsAllocated)
  /\ Goto(t, "section_lock", "lines")
  /\ CallPrintf(t)
  /\ UNCHANGED <<keys, lock, reportVars, factVars>>

ReportLock(t) ==
  /\ sections[t] # <<>> /\ (Head(sections[t]) = "stats" => StatsAllocated)
  /\ lock[Head(sections[t])] = 0
  /\ Goto(t, "section_lock", "lines")
  /\ lock' = [lock EXCEPT ![Head(sections[t])] = 1]
  /\ CallPrintf(t)
  /\ UNCHANGED <<keys, reportVars, factVars>>

NextLine(t)  == Len(printed[t]) + 1
MoreLines(t) == NextLine(t) \in DOMAIN Lines(Head(sections[t]))

ReportLine(t) ==
  /\ Goto(t, "lines", "lines")
  /\ MoreLines(t)
  /\ printed' = [printed EXCEPT ![t] = Append(@, Lines(Head(sections[t]))[NextLine(t)])]
  /\ CallPrintf(t)
  /\ UNCHANGED <<keys, lock, sections, factVars>>

(* Deviation: the lock of the section is kept. *)
ReportKeepLock(t) ==
  /\ Goto(t, "lines", "report")
  /\ ~MoreLines(t)
  /\ sections' = [sections EXCEPT ![t] = Tail(@)]
  /\ printed' = [printed EXCEPT ![t] = <<>>]
  /\ UNCHANGED <<keys, printf, lock, factVars>>

ReportUnlock(t) ==
  /\ Goto(t, "lines", "report")
  /\ ~MoreLines(t)
  /\ lock' = [lock EXCEPT ![Head(sections[t])] = 0]
  /\ sections' = [sections EXCEPT ![t] = Tail(@)]
  /\ printed' = [printed EXCEPT ![t] = <<>>]
  /\ UNCHANGED <<keys, printf, factVars>>

ReportStep(t) ==
  ReportTitle(t) \/ ReportDone(t) \/ ReportLock(t) \/ ReportLine(t) \/ ReportUnlock(t)

-----------------------------------------------------------------------------
(* Core 2, execute_checking_stage() *)
PollCheck(p) ==
  /\ Receiving
  /\ stats.total_packets < MaxPackets
  /\ Goto("checker", "poll_check", "execute")
  /\ packet' = p
  /\ UNCHANGED <<keys, printf, lock, reportVars, tables, stats, code>>

(* execute_command_pipeline() *)
ExecuteNothing ==
  /\ packet.command.op = "none"
  /\ Goto("checker", "execute", "check_spam")
  /\ UNCHANGED <<keys, printf, lock, reportVars, factVars>>

ExecutePrint ==
  /\ packet.command.op = "print"
  /\ Goto("checker", "execute", "report")
  /\ sections' = [sections EXCEPT !["checker"] = AllSections]
  /\ UNCHANGED <<keys, printf, lock, printed, factVars>>

(* hashtable_put() and hashtable_remove(): a put that makes buckets grow   *)
(* prints messages with the table locked, for which one stands here.       *)
ExecuteLock ==
  /\ packet.command.op \in {"add", "del"}
  /\ lock[packet.command.table] = 0
  /\ Goto("checker", "execute", "command")
  /\ lock' = [lock EXCEPT ![packet.command.table] = 1]
  /\ \/ UNCHANGED printf
     \/ packet.command.op = "add" /\ CallPrintf("checker")
  /\ UNCHANGED <<keys, reportVars, factVars>>

ExecuteCommand ==
  /\ Goto("checker", "command", "check_spam")
  /\ tables' = Execute(tables, packet)
  /\ lock' = [lock EXCEPT ![packet.command.table] = 0]
  /\ UNCHANGED <<keys, printf, reportVars, stats, packet, code>>

(* One hashtable_increment() of check_packet_pipeline(): it waits for the  *)
(* lock of the table, and for nothing else until it has unlocked it.       *)
CheckTable(table, from, to) ==
  /\ lock[table] = 0
  /\ Goto("checker", from, to)
  /\ tables' = Observe(tables, packet, table)
  /\ code' = code \cup FlagOf(tables, packet, table)
  /\ UNCHANGED <<keys, printf, lock, reportVars, stats, packet>>

CheckSpam       == CheckTable("spam", "check_spam", "check_vulnerable")
CheckVulnerable == CheckTable("vulnerable", "check_vulnerable", "check_evil")
CheckEvil       == CheckTable("evil", "check_evil", "update_stats")

(* update_stats(); then the page goes back to the garbage list *)
CountPacket ==
  /\ lock["stats"] = 0
  /\ Goto("checker", "update_stats", "poll_check")
  /\ stats' = UpdateStats(stats, packet, code)
  /\ code' = {}
  /\ UNCHANGED <<keys, printf, lock, reportVars, tables, packet>>

CheckerWork ==
  \/ ExecuteNothing \/ ExecutePrint \/ ExecuteLock \/ ExecuteCommand
  \/ CheckSpam \/ CheckVulnerable \/ CheckEvil \/ CountPacket

-----------------------------------------------------------------------------
Next ==
  \/ \E c \in Char : Type(c)
  \/ \E p \in Arrival : PollCheck(p)
  \/ \E t \in Thread : PrintfStep(t)
  \/ \E t \in Reporter : ReportStep(t)
  \/ BootStep \/ Interrupt \/ TrapStep \/ ReportFault("trap") \/ CheckerWork

Spec == Init /\ [][Next]_vars

(* Every running thread goes on, and the keyboard's interrupt is raised as *)
(* long as a character waits.  A lock is taken by whoever stores first, so *)
(* an acquisition needs strong fairness.  Nothing is assumed of the        *)
(* network and of the user.                                                *)
Fairness ==
  /\ WF_vars(BootStep)
  /\ WF_vars(Interrupt) /\ WF_vars(TrapStep)
  /\ SF_vars(CheckerWork)
  /\ \A t \in Thread : SF_vars(PrintfStep(t))
  /\ \A t \in Reporter : SF_vars(ReportStep(t))

FairSpec == Spec /\ Fairness

-----------------------------------------------------------------------------
(* Every variable has its type. *)
TypeOK ==
  /\ keys \in Seq(Char) /\ Len(keys) <= MaxKeys
  /\ pc["boot"] \in BootLabel
  /\ pc["trap"] \in TrapLabel \cup ReportLabel
  /\ pc["checker"] \in CheckerLabel \cup ReportLabel
  /\ printf \in [Thread -> {"out", "called", "locked", "printed"}]
  /\ lock \in [LockName -> {0, 1}]
  /\ sections \in [Reporter -> Seq(Section)]
  /\ printed \in [Reporter -> Seq(Seq(Nat))]
  /\ tables \in [TableName -> [Word -> Seq(Nat)]]
  /\ DOMAIN stats = DOMAIN NoTotals
  /\ \A x \in DOMAIN stats : stats[x] \in Nat
  /\ packet \in Arrival
  /\ code \subseteq {1, 2, 4}

(* No two messages are printed at the same time, by whatever cores and     *)
(* whether or not a trap interrupts one of them: print_lock is taken       *)
(* exactly while somebody prints.                                          *)
Printing(t) == printf[t] \in {"locked", "printed"}

PrintAlone ==
  /\ \A t, u \in Thread : Printing(t) /\ Printing(u) => t = u
  /\ lock["print"] = 1 <=> \E t \in Thread : Printing(t)

(* A section of a report is a snapshot: what core 0 has printed of a table *)
(* (or of the totals) is what core 2 would find there now, and not a mix   *)
(* of the lines before and after a command or a check.                     *)
Snapshot ==
  \A t \in Reporter :
    pc[t] = "lines" =>
      LET lines == Lines(Head(sections[t]))
      IN  \A i \in 1..Len(printed[t]) : i \in DOMAIN lines /\ printed[t][i] = lines[i]

-----------------------------------------------------------------------------
(* The tables and totals as they will be when core 2 is done with the      *)
(* packet it holds: its command and its observations are still to come.    *)
Commanding == pc["checker"] \in {"execute", "command"}
Unobserved ==
  CASE pc["checker"] \in {"poll_check", "update_stats"} -> {}
    [] pc["checker"] = "check_vulnerable"               -> {"vulnerable", "evil"}
    [] pc["checker"] = "check_evil"                     -> {"evil"}
    [] OTHER                                            -> TableName

Commanded == IF Commanding THEN Execute(tables, packet) ELSE tables

FinalLists ==
  [l \in TableName |->
     IF l \in Unobserved THEN Observe(Commanded, packet, l)[l] ELSE Commanded[l]]

FinalCode == code \cup UNION {FlagOf(Commanded, packet, l) : l \in Unobserved}

InHand == pc["checker"] # "poll_check"

Honest == INSTANCE Filter
  WITH lists   <- FinalLists,
       packets <- stats.total_packets + (IF InHand THEN 1 ELSE 0),
       bytes   <- stats.bytes_handled + (IF InHand THEN packet.length ELSE 0),
       spam    <- stats.total_spam + (IF InHand /\ 1 \in FinalCode THEN 1 ELSE 0),
       Packet  <- Arrival

(* Core 2 handles each packet as honeypot.h describes it, as if at one     *)
(* instant: the little-endian keys of commands, addresses, ports and       *)
(* hashes meet in the right lists, a packet's own command governs its      *)
(* check, and nothing core 0 does in between disturbs it.                  *)
ImplementsFilter == Honest!Spec

(* After the boot a character typed is read, however busy core 2 is, and   *)
(* core 2 is done with every packet it takes, however many reports the     *)
(* user asks for: the locks they share hold neither up for good.           *)
EveryoneServed ==
  /\ (keys # <<>> /\ Booted) ~> pc["trap"] = "report"
  /\ (pc["checker"] = "execute" /\ Booted) ~> pc["checker"] = "poll_check"

-----------------------------------------------------------------------------
(* Thread t is in the section that lock l guards. *)
Holds(t, l) ==
  \/ l = "print" /\ Printing(t)
  \/ t = "boot" /\ <<pc[t], l>> \in {<<"fill_evil", "evil">>, <<"fill_spam", "spam">>,
                                     <<"fill_vulnerable", "vulnerable">>}
  \/ t \in Reporter /\ pc[t] = "lines" /\ l = Head(sections[t])
  \/ t = "checker" /\ pc[t] = "command" /\ l = packet.command.table

(* Thread t takes lock l in its next step, when it is free. *)
Awaits(t, l) ==
  \/ l = "print" /\ printf[t] = "called"
  \/ /\ printf[t] = "out"
     /\ \/ t = "boot" /\ <<pc[t], l>> \in {<<"create_evil", "evil">>, <<"create_spam", "spam">>,
                                            <<"create_vulnerable", "vulnerable">>}
        \/ t \in Reporter /\ pc[t] = "section_lock" /\ l = Head(sections[t])
        \/ /\ t = "checker"
           /\ \/ /\ pc[t] = "execute" /\ packet.command.op \in {"add", "del"}
                 /\ l = packet.command.table
              \/ <<pc[t], l>> \in {<<"check_spam", "spam">>, <<"check_evil", "evil">>,
                                  <<"check_vulnerable", "vulnerable">>,
                                  <<"update_stats", "stats">>}

(* Thread t cannot go on before thread h has: h is in a section t wants to *)
(* enter, or it is the trap that has interrupted t.                        *)
WaitsOn(t, h) ==
  \/ \E l \in LockName : Awaits(t, l) /\ Holds(h, l)
  \/ t = "boot" /\ h = "trap" /\ pc["trap"] # "none"

(* "it is now safe to take interrupts on this core" (kernel.c): a trap     *)
(* never faults, and never waits for a lock the interrupted code holds.    *)
SafeInterrupts ==
  /\ pc["trap"] # "shutdown"
  /\ printf["trap"] = "called" => ~Holds("boot", "print")
  /\ pc["trap"] = "section_lock" /\ printf["trap"] = "out"
       => ~Holds("boot", Head(sections["trap"]))

(* No deadlock: a lock that somebody waits for is in somebody's hands, and *)
(* as long as no trap waits for the code it interrupted, there is no       *)
(* circle of threads that wait for one another: the lock of a table is     *)
(* never asked for by a thread that prints or has a table, the mutex of    *)
(* printf() by threads that have one.                                      *)
NoCircularWait ==
  /\ \A t \in Thread, l \in LockName :
       Awaits(t, l) /\ lock[l] = 1 => \E h \in Thread : Holds(h, l)
  /\ SafeInterrupts =>
       \A S \in (SUBSET Thread) \ {{}} : \E t \in S : \A h \in S : ~WaitsOn(t, h)

(* "is_vulnerable 4" (network.h) is what counts as vulnerable: the total   *)
(* of vulnerable packets is at least the count of any vulnerable port.     *)
VulnerableCounted ==
  pc["checker"] = "poll_check" =>
    \A v \in Word : Listed(tables["vulnerable"], v) =>
                      tables["vulnerable"][v][1] <= stats.total_vul
=============================================================================
