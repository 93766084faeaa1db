# The honeypot kernel in TLA+

The repository is a small multi-core MIPS kernel that works as a network
honeypot: it receives packets through a DMA ring, hashes each of them, executes
the commands some of them carry, checks every packet against three lists
(spammers, vulnerable ports, evil hashes) and prints statistics when a key is
typed or a packet asks for them.  This directory holds its specifications, the
TLC configurations that check them and the TLAPS proofs.

Contents: 1 inventory, 2 modules and code, 3 runs, 4 fairness, 5 proofs,
6 where the code and its comments disagree, 7 what is not modelled, 8 plan.

Run a configuration with `tlc -config <run>.cfg <module>` (section 3 names the
module of each run) and the proofs with `tlapm <module>.tla`.

## 1. Inventory

The kernel boots on core 0 (`kernel.c:121`).  Afterwards each core has one job
(`core_start`, `network.c:300`): core 0 idles and takes interrupts, core 1 polls
the receive ring, core 2 executes and checks packets, the cores from 3 on hash
them.  The stages are connected by three linked lists of packet pages.  The
packet itself never moves: its page goes

    garbage list -> ring slot -> (core 1) -> hashing list -> (a hashing core)
      -> check list -> (core 2) -> garbage list

| component | state | operations | works with |
|---|---|---|---|
| lists and locks (`list.c`, `lock.c`) | lock word, length, head, tail; next and prev in each packet | `append_list`, `poll`, `spin_lock`, `unlock` | every stage of the pipeline; shared memory |
| ring and pipeline (`network.c`, `pipeline.c`) | `dma_base`, `dma_len`, `rx_head`, `rx_tail`, the packet pages | device reception, `execute_ringbuffer_stage`, `execute_hashing_stage`, `execute_checking_stage` | the device writes pages by DMA; the lists; the tables |
| hash tables (`hashtable.c`) | size, buckets with their capacity, length, lock | put, increment, get, remove, print; growth of a bucket, doubling | core 2 changes them, core 0 prints them; `mem.c` |
| allocator (`mem.c`) | page bitmap and hint, lists of pages of pieces, their bitmaps, magic words | `alloc_pages`, `free_pages`, `malloc`, `calloc`, `free` | unlocked; core 0 at boot (`trap_init` first), core 2 later |
| commands and checks (`network.c`, `honeypot.h`) | none of its own | `execute_command_pipeline`, `check_packet_pipeline`, `change_end`, `djb2` | tables, reports |
| statistics (`stats.c`) | totals, lock, the cycle of the start | `update_stats`, `simple_stats_print` | core 2 counts, cores 0 and 2 print |
| boot, traps, console (`kernel.c`, `trap.s`, `keyboard.c`, `intr.c`, `printf.c`) | interrupt enable, `print_lock`, the keyboard's queue | `__boot`, `trap_handler`, `interrupt_handler`, `keyboard_trap`, `printf`, `busy_wait` | a trap interrupts core 0 anywhere interrupts are enabled |
| text formatting (`printf.c`) | one call's place in its format and among its arguments | `print` with `prints`, `printi`, `printl`, `dbl2stri` | `printf`, `sprintf`, `stringf`; divides with the support library |
| compiler support library (`libgcc2.c`, `longlong.h`) | none | arithmetic on `long long`, conversions to and from floating point | called by compiled code, in this kernel by `printl` |
| machine access, link layout (`machine.s`, `machine.h`, `kernel.lds`) | none of its own | register accessors | everything |

What is hard, and what makes each part correct:

* **Lists.** Several cores poll and append at once; the lock is all that keeps
  the three or four stores of a call together.  `poll` clears neither `tail` nor
  the links of what it removes, so stale pointers lead into other lists.
  Correct: a FIFO queue whose operations happen at one instant; every caller
  returns.
* **Ring and pipeline.** "Completely and wonderfully unsyncronized"
  (`network.h:80`): no packet is ever locked, ownership follows from where a
  pointer is.  The device runs beside the cores, both indexes are free-running
  counters that overflow, core 1 may wait for a page while the ring is full,
  hashing cores overtake each other.  Correct: one owner per page, no page lost,
  the device writes only its own pages, every accepted frame is checked once
  with its own bytes and hash, and the ring keeps draining.
* **Tables.** A put may double its bucket, the table, or both; a removal closes
  the gap; duplicates are allowed.  Correct: none of that is visible in what is
  listed and counted; no buffer is overrun; the table is doubled at the load it
  is said to be.
* **Allocator.** One bit per page, searched from a hint that wraps around, under
  a second allocator of pieces which trusts a word at the start of each page, and
  pointers that are turned into page and piece numbers and back.  Correct: blocks
  in use never share a byte, with one another or with the accounting data,
  nothing is lost, and the kernel stops only when memory is exhausted.
* **Commands and statistics.** Big-endian fields, of two widths, on a
  little-endian machine must give the keys commands put; the command of a packet
  precedes its check; core 0 may print in the middle of it.
* **Boot and reports.** A trap interrupts the boot and then prints on the same
  core; reports hold a table's lock for many calls of `printf`, which has a lock
  of its own.  Correct: no thread waits for what it has interrupted, reports are
  snapshots section by section, and all threads get on.
* **Formatting.** Flags, widths and figures meet in small buffers; arguments lie
  in words on the caller's stack, and those of two words only at even ones.
  Correct: a field denotes its argument, no buffer overflows, and no conversion
  takes another one's argument.
* **Support library.** A division of two words by two words is made of divisions
  of half words whose results are too large by up to two, in words that wrap
  around.  Correct: the result is the one of C.

`PROJECT.json` lists the hazards line by line.

## 2. The modules and the code

| module | stands for | is checked or proved in |
|---|---|---|
| `PacketFifo` | what `list.h` promises (abstract) | |
| `PacketList` | `list.c`, `lock.c`, a call in steps: lock word, test, links, count | run `PacketList`, `PacketListProofs` |
| `Pipeline` | the device, core 1, hashing cores, core 2 | `MCPipeline`, `PipelineProofs` |
| `FrameQueue` | what the pipeline promises: each frame handled once, and hardly early (abstract) | |
| `PipelineHistory` | `Pipeline` with the order of arrival as a history variable | `MCPipelineHistory`, `PipelineProofs` |
| `Listing` | a list with counts, as a function of its values (shared by `CountTable`, `Filter` and `Honeypot`) | |
| `CountTable` | what a table promises (abstract) | |
| `Hashtable` | `hashtable.c`, one action per call | `MCHashtable`, `HashtableProofs` |
| `Memory` | `mem.c` and `trap_init`, one action per call and outcome | `MCMemory`, `MemoryProofs` |
| `Honeypot` | one packet: its fields, command, check and totals (operators) | |
| `Filter` | what `honeypot.h` asks of the kernel (abstract) | |
| `Kernel` | boot, trap and core 2 with the locks of tables, totals and `printf` | `MCKernel`, `KernelProofs` |
| `Printf` | one call of `print()`, one action per character of the format | `MCPrintf`, `PrintfProofs` |
| `LongLong` | `longlong.h`: word operations (operators) | `DoubleWordPairs`, `LongLongProofs` |
| `DoubleWord` | the four divisions of `libgcc2.c` (operators) | `DoubleWordPairs`, `LongLongProofs` |
| `DoubleWordLibrary` | its product, shifts, comparisons and unused divisions (operators) | `DoubleWordPairs`, `LongLongProofs` |
| `FloatConversions` | its conversions (operators) | `DoubleWordPairs`, `LongLongProofs` |
| `CoreArithmetic` | waits, rates and `djb2` in words that wrap around (operators) | `DoubleWordPairs`, `LongLongProofs` |
| `DoubleWordPairs` | a walk through every pair of operands, with the properties of these operators | run `DoubleWord`, `LongLongProofs` |
| `NumberFacts` | induction, recursion, remainders and powers of two (lemmas only) | itself |

How they correspond:

* **`PacketList`.** `pc[c]` is the next statement of core `c` in `append_list` or
  `poll`; between `append_lock` and `append_unlock` (`poll_lock` and
  `poll_unlock`) it holds the lock.  The stores of links, which only the holder of
  the lock makes, are one step, and so are the loads of `poll` that take the head
  off.  `spin_lock` is the store conditional that
  succeeds.  `hand[c]` is the packet a caller brings or takes away.  `OtherList`
  stands for everything that happens to a packet while it is on other lists: its
  two links may then have any value.  The abstract queue changes when `length`
  counts an append, and when `head` leaves a polled packet behind.
* **`Pipeline`.** One action per statement that other parties can see; a call of
  `append_list` or `poll` is one action, which run `PacketList` justifies.  The
  slot index and the empty test are those of `network_poll`; the full test is the
  device's, from `machine.h`.  Contents, hash function, tables and statistics are
  constant parameters, so that what is proved does not depend on them.
  `Received(x, f)` keeps what the frame does not overwrite, which is how a short
  frame leaves an old command in the buffer.
* **`PipelineHistory`, `FrameQueue`.** Hashing cores overtake, so the pipeline is
  not a FIFO queue of frames, and no function of its state says which frame came
  first.  The history variable `arrived` does, and nothing else reads it.  With
  it the pipeline implements a queue from which one of the `Width` oldest frames
  is taken, `Width` being the number of hashing cores: with one, a FIFO queue.
  This bounds how early a frame is: when it is checked, fewer than `Width` older
  ones are not.  How late it is has no bound: while a slow core holds a frame
  between `pipeline.c:5` and `pipeline.c:12`, any number of later ones may pass
  it through the other cores, each of them early by one.
* **`Hashtable`.** A bucket is its sequence of inputs and its capacity; an input
  carries its hash (`my_hash`), which rehashing computes anew.  `Resized`
  is the rehashing loop: `InputsBelow` are the inputs of the old buckets in their
  order, `Rehashed` the new buckets after so many of them.  The length
  is compared modulo `WORD`, as the unsigned copy in the code is.  Every operation
  holds the table's lock throughout and only core 2 calls them, so each is a step.
* **`Memory`.** `Seen[i]` is the variable `seen` after round `i` of the search of
  `alloc_pages`; `Rounds(n)` are those at which it equals `n`, and the least one
  is where the code stops.  Callers hold addresses: `Address(p)` and `PageAt(a)`
  are the mapping of pages to virtual addresses, a piece is at its page's address
  plus its index times its size, and `free` computes back from the pointer alone.
  `live` is a bag of the blocks callers hold (a bag because the same block handed
  out twice must show).  `stopped` records which call shut the kernel down: the
  number of pages asked for in `alloc_pages`, or `InFree`.  A piece is taken from the first page with room, the first
  free bit first; index 0 is the accounting data.  `trap_init` comes first and
  keeps its pages.
* **`Honeypot`, `Filter`.** The code loads fields as a little-endian machine does
  and reverses them; the abstract module reads the bytes as the network's number.
  `Kernel!ImplementsFilter` says the two agree under every interleaving.
* **`Kernel`.** The three threads that use the console.  A step is what a thread
  does between two points where it may wait or be interrupted: taking a lock,
  printing, releasing it.  The boot does not move while `pc["trap"]` is not
  `"none"`.  A report is a sequence of sections, printed line by line with the
  section's lock held, after a heading that is printed under it, too.  An `add` command may print "resizing bucket" with the
  table locked, whether or not a bucket grows (when one does is Hashtable's
  affair; one message stands for all of a rehash).
* **`Printf`.** `at` says which characters may follow in a conversion: flags,
  width, precision, `l`, `ll`.  The caller is any caller whose arguments fit its
  format.  It pushes an argument when the conversion reads it: `pushed` is where
  the caller's next word goes and `varg` where `print` looks; if they are
  different words, what is read is any value of the type.  `last` holds the last
  conversion with what was asked and written; the properties read its field back
  as a reader would.  A double is a number of `DENOMINATOR`-ths, whose whole part
  and decimals fit an `int`; `dbl2stri` computes with it exactly, so the rounding
  of the floating point multiplication itself is not modelled.  `dec_width` is set
  once per call and not again at a conversion (`printf.c:303`), so `%f` after `%.2f`
  prints two decimals; `FractionDenotes` measures a fraction by the decimals in force.
  `BufferAssumption`
  says that the buffers hold the most negative number; 12 and 24 do for 32 and 64
  bits.
* **`LongLong`, `DoubleWord`, `DoubleWordLibrary`, `FloatConversions`.** A macro
  that assigns to its arguments is an operator that returns a record.  A double
  word is a natural number below `W * W`, and `Signed` its value.  Of each macro
  the form compiled for this processor is modelled: `multu` for the product, and
  the generic division.  `umul_ppmm_c` is the generic product.  Floating point
  numbers are numbers of so many significant bits, given in parts of `1 / UNIT`;
  `Round` is what every operation of the hardware does, to a multiple of the number's
  last place (`Ulp`).  Powers of two are the functions `TwoTo` and `Exp2`, the latter
  up to `MAX_BITS`, which no number of the routines reaches.  The properties
  compare each routine with the arithmetic of TLA+ and are in `DoubleWordPairs`.
  `FloatAssumption` says that a double holds a word and a float, and that a long
  double holds a double word: 24, 53 and at least 64 bits, for words of 32.
* **`CoreArithmetic`.** `Waiting(now, WaitEnd(tsc, n))` is the test of the loops of
  `busy_wait` and `busy_wait_cycles`: unsigned, since `current_cpu_cycles()` is
  (`kernel.h:68`).  `Rate` is a rate of a report, divided as signed numbers.  `djb2` is a recursive function of the
  number of bytes, from `InitialHash`.

In every module, a definition whose comment begins with "Deviation" is used by no
specification: it is the definition that follows it with one plausible mistake.
`PROJECT.json` pairs each property with a deviation that TLC finds violating it,
so no property holds by the shape of the model alone.

## 3. The runs

| run (module) | question | bounds | states |
|---|---|---|---|
| `PacketList` (`PacketList`) | is the linked list under its lock a FIFO queue, and does every caller return? | 2 cores, 3 packets, any start | 161 943 |
| `PipelineMovement` (`MCPipeline`) | where can packet pages be, what may all cores wait for, and do pages keep moving? | 4 pages, 2 slots, words modulo 4, 2 hashing cores, 1 content | 78 240 |
| `PipelineOrder` (`MCPipelineHistory`) | is each frame checked and counted once, as it was received, and early by less than the cores hashing? | 3 pages, 1 slot, 2 hashing cores, 3 kinds of frames, pages interchangeable | 602 430 |
| `HashtableSafety` (`MCHashtable`) | are growth and removal invisible and within bounds? | 3 colliding values, 4 inputs, 2 to 8 buckets, counts to 2 | 20 060 |
| `HashtableLoad` (`MCHashtable`) | violation: is the table doubled when it is loaded? | the same | |
| `MemorySafety` (`MCMemory`) | do blocks overlap, are pages accounted for, when does the kernel stop? | 2 pages of trap stack and 4 others, of 8 bytes; pieces of 2 and of 4, single pages, blocks of 2 pages | 167 513 |
| `MemoryRuns` (`MCMemory`) | violation: are the pages of a run all free? | the same, wherever blocks of two pages are found | |
| `Kernel` (`MCKernel`) | do messages mix, are reports snapshots, is `honeypot.h` obeyed, do threads wait in a circle, do both reporters finish? | 2 packets of 6 kinds, 1 key, a byte of 2 values | 90 764 |
| `KernelBoot` (`MCKernel`) | violation: is it safe to take interrupts during the boot? | keys `t`, `s` and another | |
| `KernelTotals` (`MCKernel`) | violation: are packets for vulnerable ports counted as such? | 2 packets | |
| `DoubleWord` (`DoubleWordPairs`) | does arithmetic on double words, and that of the kernel on words that wrap, give what it should? | every pair of double words of 2 words of 4 bits | 65 536 |
| `Printf` (`MCPrintf`) | does output denote the arguments, fit the buffers and come from the right words? | words of 8 bits, widths to 10, 2 decimals, 3 characters or conversions, 5 words of arguments | 208 816 |

Why the bounds are enough for the question:

* *List.* With three packets the list passes through empty, one and several
  elements, which are the cases of the code; with two cores every pair of calls
  overlaps.  Packets come back with arbitrary links, so length of history adds
  nothing.  What the run checks of safety, the refinement included, is also
  proved for any cores and packets; `CallsReturn` is not.
* *Pipeline.* Two slots make head and tail coincide in both senses (empty and
  full); words modulo 4 wrap after four frames; four pages leave the garbage list
  empty at times and not at others; two hashing cores overtake.  In
  `PipelineMovement` there is one content, since its properties do not look at
  contents.  Safety and order are also proved for all parameters, so
  `PipelineOrder` can do with one slot, which is empty and full in turn, and use
  its states for three pages: one in the ring, one with each hashing core.  Its
  frames are a command, data, and one too short to cover an old command.
* *Table.* The three values share one bucket until the table has been doubled
  once or twice, so buckets grow and split; four inputs allow every mix of
  duplicates.  Sizes and bucket size are the ones of the tests in `hashtable.c`.
  All five properties are also proved for any hash function, values and sizes.
* *Memory.* The four pages behind the trap stack let the hint wrap with pages in
  use on both sides.  A page holds three pieces of 2 bytes, or one of 4: full
  after several, and full after the first.  A request of 7 bytes needs two pages
  because of its accounting data, and one of 14 fills two exactly.  The run is of
  `PrudentSpec`: several pages are asked for where so many are free at the hint;
  between them pages are freed, and searches for one page come round.  Everything
  the run checks is also proved for any sizes and requests.
* *Double words.* The algorithms know a word only by its halves; with 4 bits
  every case of the division (one or two words, normalised or not, first or second
  correction) occurs, and all operands are tried.  Formats of 3, 6, 8 and 12
  bits are related to the word as float, double and the long doubles are: a float
  holds less than a word, a double more than one and less than two, the others
  two.  Fractions are quarters.  All seven properties are also proved for any word
  size, formats and fractions.
* *Printf.* Every flag meets every width and conversion; the numbers include 0,
  the most negative one and the largest; five words are two misaligned arguments
  of two words.  The buffers have exactly the size that the longest number needs,
  as 12 is for 32 bits, so that one character more would show.  All four
  properties are also proved for any word size, width and number of decimals.
* *Kernel.* A byte of two values keeps words at 16 values while every byte of a
  field still has a place of its own.  Two packets are a put and its effect, or a
  report and its cause; `a` asks for all sections, the longest report, which the
  other reporter may meet at every line.  All of it but
  `EveryoneServed` is also proved for any packets and keys.

`CHECK_DEADLOCK FALSE` is set where the system really stops: `Memory` after
`shutdown()`, `Kernel` once the bounds on packets and keys are reached (and,
in `KernelBoot`, in the deadlock the run is about), `Printf` when the call returns
or its bounds are reached, and `DoubleWordPairs` after the last
pair.

Bounds that are guards of the models: `MaxEntries`, `MaxSize`, `MaxCount`
(Hashtable), `MaxPackets`, `MaxKeys` (Kernel), `MaxWidth`, `MaxPrecision`,
`MaxPrinted`, `MaxStack` (Printf).

## 4. Fairness

A core executes its next instruction: weak fairness of each core's step.  The
spin lock gives no order of service, so an acquisition is assumed strongly fair:
the lock is free again and again, for the 0x1000 cycles between two looks of a
waiting `poll` or the time of a whole stage of the pipeline, and a spinning core
tries every few instructions.  It is an assumption about speed, not about the
lock, and the liveness properties of `PacketList` and `Kernel` depend on it.  In
`Kernel` the trap may starve the boot (interrupts come first), and properties say
so: `EveryoneServed` begins after the boot.  Nothing is assumed of the
network, of the user, or of the order in which hashing cores get packets.

## 5. What is proved

Theorems hold for every value of the constants that satisfies the named
assumptions of the modules.  Every safety property of the passing runs is proved:
each invariant, and each refinement of an abstract specification.  `PROJECT.json`
pairs theorems and properties.

**`NumberFacts`** carries what the others share.  The recursive definitions of
the models are functions over an interval, and a statement about all of their
values is the membership of every number in a set: `SetInduction` and
`IntervalInduction` are induction in that form, `IntervalRecursion` and
`CourseRecursion` give a recursive function its equations.  So what loops compute
(rehashing, hashing, figures, powers) is proved, not only checked.  The rest is
about remainders, all from the definition of `%`, and powers of two: exponents add
and order powers, every number below a power has a number of bits, and the square
root of a power, if it is a natural number, is a power (`ExponentsAdd`,
`ExponentOrder`, `NumberOfBits`, `RootOfPower`).  `SameSlot`: two indexes less
than a capacity apart share a slot only if they are equal, across the wrap-around.

**`PacketListProofs`**, for any cores and any finite set of packets.

* `ListTypeCorrect`, `ListMutualExclusion`.  `MutualExclusion` is stated with the
  lock word (1 exactly while someone is in a critical section) and is inductive in
  this form.  That the length stays a natural number needs it and `Counted`:
  between `poll`'s test and its subtraction the length is not 0.
* `ListWellLinked`: one duplicate-free sequence of packets agrees with head, tail,
  length and links, up to what the call in progress has yet to store.  It is
  inductive with `Hands`, which says at which labels a core brings a packet and
  at which it has none.  Stale pointers do no harm because the statement reads
  only links inside that sequence.
* `ListIsFifo`: the list implements `PacketFifo`.  The sequence is unique, so the
  abstract queue is a function of the state; each statement is a stutter but two,
  the store of `length` in `append_list` and the store of `head` in `poll`.

**`PipelineProofs`**.  The assumptions are those of `Pipeline`: the word is a
multiple of the capacity and at least twice as large (2^32 and 1 to 16), at least
as many pages as slots (500 and 16), a finite set of at least one hashing core,
the parameters of the data well typed.

* `TypeCorrect`, `RingCorrect` (`RingBounded`), `OwnershipCorrect`
  (`ExclusiveOwner`), `NothingLost` (`NoLeak`), `DmaCorrect` (`DmaSafe`).  The
  inductive invariant is `TypeInv` (types, and which labels go with a packet in
  the hand), `RingBounded` (the distance of the indexes modulo the word is at most
  the capacity, and at least 1 while core 1 works on a slot) and `Owned`:
  `ExclusiveOwner` and `NoLeak` together.  Neither is easier alone: a step moves a
  packet from one place to another, and that it was nowhere else is what makes the
  new place the only one.  Between `append_list()` and the arming of the slot, two
  places name the same page; `ArmedSlots` says which one counts.  `DmaSafe`
  follows: a ring that is not full has its head slot armed, because head and tail
  slot coincide only at distance 0 or capacity.
* `NobodyStarves` (`WaitsForNetwork`): when all cores wait at once, every slot is
  armed, the ring is empty and every page is either in a slot or on the garbage
  list.  Core 1 could also wait for a page with a slot unarmed, and then nobody
  would ever give it one; but all other pages are then in armed slots, which are
  fewer than the pages, so the garbage list is not empty.  This is counting, from
  `Owned`, `ArmedSlots` and the assumption on the number of pages.
* `PipelineIsQueue` (`ImplementsQueue`): with the history variable, the pipeline
  implements `FrameQueue`.  `QueueInv` adds two parts: `ArrivedOK` says that
  `arrived` lists the pages between reception and check once each, in the order in
  which ring, hashing list and check list hold them, and that a page on its way
  to the check has overtaken fewer others than there are hashing cores; `HashOK` that a hashed
  page has the hash of its bytes.  A frame taken is then among the `Width` oldest,
  and its bytes are those received (`MessageKept`: no step between touches them).

**`HashtableProofs`**, for any values, hash function, sizes and bounds:
`HashtableTyped`, `HashtableWellPlaced`, `HashtableWithinBuffers`,
`HashtableNeverOvercounts`, and `HashtableCounts`: the table implements
`CountTable`.  `HashtableInv`: every input is tagged with the hash of its value
and in the bucket of that hash, no bucket holds more than its capacity, and the
length is at most the number of inputs (not equal to it, because of the fault in
section 6).  The refinement compares the listing before and after a call, a value
at a time: a toss appends to the row of its hash (`LongerAt`), a removal closes a
gap in one bucket (`Edited`, `FoundAt`), and rehashing, by induction over the
inputs, keeps for each value the order of its counts (`Lists`), as equal values
share a bucket before and after.

**`MemoryProofs`**.  `MemoryTyped` holds for all requests.  What the allocator
promises, `MemoryDisjoint`, `MemoryAccounted` and `MemoryStopsOnlyWhenFull`, is
false in general (run `MemoryRuns`), and proved of `PrudentSpec`: several pages are
only asked for where so many are free from the hint on.  Two theorems say when
that is so:

* `OnePagePrudent`: always, if no request takes more than a page with its
  accounting data.  Packets, inputs, buckets and new tables are such requests;
  only the buffers of tables and buckets that have grown beyond a page are not.
* `FirstPassPrudent`: for requests of any size, until the search first comes round
  to the start of the memory, whatever is freed meanwhile: all busy pages are
  below the hint (`Ahead`).  This covers the boot.

`MemoryInv` is not the conjunction of the properties
but a layout: each page is exactly one of trap stack, data, head of a large
block, inside of a block that a page before it heads (`Bodies`, `Span`), pieces of
one size, or free (`Sound`), with what its magic word, its bitmap, its list and
the blocks in `live` then say; the lists hold exactly the pages of pieces
(`Chained`); before `trap_init` nothing is in use.  A call changes the use of one
head and what is inside it (`LayoutChanges`, `Leaves`), and the pages of two heads
are apart (`SpansApart`).  All this holds for all requests, but for one fact, that
the pages `alloc_pages` finds are free (`Sparing`).  One page is, because its bit
was read last (`OnePageFound`); several are at the hint, because the search then
counts every page it looks at (`RunAtHint`).  `MemoryStopsOnlyWhenFull` is about the
very call that stops the kernel, and its number of pages: so many are nowhere free
in a row, but where the hint cuts the run; for one page, none is free; and the call
is never one of `free`.  That the search gives up only then is `RunFound`, by induction over its rounds: a run of free pages that the
hint does not cut in two is counted to its end, whatever was counted before it,
and a count that has passed a number has been that number (`CountReached`).

**`KernelProofs`**, for any packets, keys and bounds.

* `PrintfExcludes` (`PrintAlone`) and `ReportsAreSnapshots` (`Snapshot`).  The
  inductive invariant `KInv` is `Types`, which ties the labels of each thread to
  the sections it still has to print, and `Exclusion`: for each of the five locks,
  at most one thread is in its sections, and the lock word is 1 exactly while one
  is.  Who is in a section is a function of `pc`, of the command of the packet in
  hand and of `printf` (`Holds`), so every action either enters one, leaves one or
  stays (lemmas `Enter`, `Leave`, `Stay`).  That at most one thread prints is an
  instance.  A report is a snapshot because only core 2 changes tables and totals
  and holds their lock when it does (`WritersOnly`, `SectionStands`).
* `KernelTyped`, from `KInv` and `DataOK`: a report's lines have the types of the
  tables they were taken from.
* `KernelFilters` (`ImplementsFilter`): core 2 does to tables and totals what
  `honeypot.h` asks.  The bytes loaded little-endian and reversed by `change_end`
  are the number the network sent, in both widths (`Cut` and the lemmas around
  it, from the remainders of powers of 256).  The command runs before the check,
  the check counts in the tables as they are then; `Waiting` says that core 2 has
  no packet before the boot is over and no code left from an earlier packet.
* `NobodyDeadlocks` (`NoCircularWait`): as long as the trap does not wait for the
  boot it interrupted (the fault of section 6), no thread waits for itself by way
  of others.  From `Exclusion`, whoever waits for a lock waits for the thread in
  its section, and there is one; a thread inside a table's section waits at most
  for `printf`, and a thread inside `printf` for nothing.

**`LongLongProofs`**, for every word size of an even number of bits.

* `DivisionExact`: `udiv_qrnnd` returns the exact quotient and remainder for a
  normalised divisor above the high word.  It is long division in half words: the
  estimate from the divisor's high half is never too small and at most two too
  large (`Estimate`, which needs normalisation); as the divisor is more than half
  a word, the test for a wrapped sum tells whether a second correction is due
  (`MoreThanHalf`, `Corrected`); each digit is then exact (`DigitExact`).
* `DivisionIsC` (`Division`): the four divisions of `libgcc2.c`, and the one for
  processors that need no normalisation.  `count_leading_zeros` normalises
  (`LeadingZeros`), and multiplying both operands by a power of two keeps the
  quotient (`ScaledDivision`).  The four ways of `__udivmoddi4` are a divisor of
  one word above or below the high word (`ToWord`, `ByWord`), a normalised one of
  two words (`ByNormalised`) and any other of two words (`ByHigh`: the quotient
  by its high word is exact or one too large, `EstimatedByHigh`).  Signs:
  `Negation`, `Magnitudes`, `SignOfResult`.
* `ProductIsExact` (`Product`): the carry of the two middle products.
* `WordsOfQuotients` (`WordDivision`): `DivisionExact`, and `__udiv_w_sdiv`.  Below
  half a word, a signed division does, after half of the words' range times the
  divisor has been taken off a larger dividend (`BySmallDivisor`).  Above, half
  of the dividend, or of its complement, is divided by half of the divisor, and
  what an odd divisor is short of is at most two divisors, which the wrapped
  sums tell apart (`DividedByOdd`, `ByLargeDivisor`).
* `ShiftsAreExact` (`ShiftsAndOrder`): the bits that leave one word are those the
  other takes (`BitsCut`, `BitsAbove`), with the sign too
  (`WordShiftedArithmetic`); the lowest 1 is in the high word only if the low one
  is 0 (`LowestOneOfPair`), and the first word that differs decides an order.
* `KernelCycles` (`ElapsedTime`): what a look at the counter tells a waiting core.
  If start and cycles fit a word, it goes on exactly while the cycles are not over,
  and once more when the counter has wrapped (`WaitLasts`); if their sum wraps, it
  does not wait.  A rate is the total over the seconds since the start, and never
  a division by zero, as long as the time and the total are below half of a word.
* `OneByteChangesHash` and `HashesDiffer` (`HashTellsApart`): `djb2` of two
  strings of one length, equal but for one byte, differ.  A round is injective
  in the byte, since bytes are less than a word apart, and in the hash before it,
  since 33 is odd and the word a power of two (`OddFactor`).
* `ConversionsRound` (`Conversions`), for all formats and fractions that
  `FloatAssumption` allows.  The numbers of a format are the multiples of their own
  last place (`FloatMultiple`).  They stay so when their high bits are cut off and
  when they are scaled by a power of two (`CutFloat`, `ScaledFloat`), so in the
  conversions through two words only the last addition can round (`FloatFixed`,
  `FloatedOnce`), and of a long double not even that (`FloatedExactly`).  Rounding
  never passes a number of the format (`RoundKeepsOrder`); neither does setting
  `REP_BIT`, whose double divides every large float (`RepresentedValue`), which
  together bound what `__floatdisf` does by rounding twice (`FloatedTwice`).

**`PrintfProofs`**, for every word size and any bounds on widths and decimals.

* `PrintfArguments` (`ArgumentsInStep`): `print` looks where the caller pushed,
  until a double has been taken from an odd word.
* `PrintfBuffers` (`BufferFits`): a number below a power of ten has at most that
  many figures (`NumberOfFigures`, by induction), and `BufferAssumption` puts the
  most negative number below it.
* `PrintfDenotes` (`FieldDenotes`): read back, a field is its argument.  The loop
  of divisions writes figures whose value is the number (`FiguresDenote`); signs
  and padding, before or behind, change neither (`PrintsFills`, `SignDenotes`),
  with `FormatInv`: `pad` has no other flags.
* `PrintfFractions` (`FractionDenotes`): what `dbl2stri` writes is the fraction
  rounded to the decimals asked for, without the carry it loses (section 6).  The
  one extra digit rounds as the exact fraction does (`FractionRounds`), and the
  parts around the point denote a number together (`NaturalConcatenation`,
  `PointBetween`, `DoubleDenotes`).

Only model-checked: liveness (`CallsReturn`, `RingDrains`, `Recycled`,
`EveryoneServed`).  Under fairness it needs `ENABLED`, which the prover does not
handle.

## 6. Where the code and its comments disagree

* `hashtable.c:67`: the length misses inputs whose bucket grew, so the table is
  doubled below the load factor of `hashtable.h:4`, even when empty (run
  `HashtableLoad`).  What the table lists is still right.
* `mem.c:122`: `alloc_pages` counts free pages across busy ones, so several pages
  "in a row" may include a page in use (run `MemoryRuns`).  Requests for one page
  are safe, and so are all requests, those of the boot among them, until the search
  has been through the memory once (section 5).
* `printf.c:606`: `print_lock` is taken before interrupts are disabled, so a key
  typed while core 0 prints during its boot stops the core, and the console with
  it (run `KernelBoot`).  The two other parts of `SafeInterrupts` fail as well,
  later in the boot or with other keys: an `s` typed while `hashtable_create()`
  holds the lock of that table stops core 0, and a `t` typed before the statistics
  exist ends in `shutdown()`.
* `stats.c:13`: the totals of vulnerable and evil packets are exchanged with
  respect to the codes of `network.h:36` (run `KernelTotals`).  `ImplementsFilter`
  therefore compares the spam total only.

Without a run of their own, because the code in question has no caller, or
because the property that would fail is checked with its exception spelled out:

* `libgcc2.c:1193`: `__floatdisf` still rounds twice, against its comment; see
  `Conversions`.
* `printf.c:127`: `dbl2stri` loses the carry of its rounding into the whole part
  (0.96 with one decimal is 0.10), against `printf.c:115`; see `FractionDenotes`.
* `printf.c:419`: the alignment of doubles is a comment, so a double behind an odd
  number of words is read from the wrong word, and so is all that follows; see
  `ArgumentsInStep`.
* `printf.c:432`: an unknown conversion is written out, where `printf.c:34` says
  it is discarded; neither character is counted.
* `intr.c:34`: the end of a wait wraps at 2^32, and the counter, which is compared
  with it as an unsigned number, is then beyond it at once: no wait, against
  `kernel.h:85`.  An end just below 2^32 may be missed: if no look at the counter
  falls between it and the wrap, the wait lasts another turn.  See `ElapsedTime`.
* `list.c:44`: `get()` has its test the wrong way round.
* `hashtable.c:356`: the tests compare a count with a value.
* `mem.c:294`: `calloc` has its parameters in the other order than `kernel.h:138`.

## 7. What is not modelled, and why

* `get()` and `test_sync()` of `list.c`, the stages in comments in `pipeline.c` and
  the tests in `hashtable.c`: no caller.
* The values of `hasher`: no property depends on them; it is a parameter.  The
  insertion counter and the printing of a table's shape have no effect.
* The input each put allocates and never frees (`hashtable.c:197`): certain, not a
  matter of interleaving; its end is `Memory`'s shutdown.
* The cores starting on a timer before the boot is done (`network.c:306`): it
  depends on speeds that the code does not state.
* `virtual_to_physical()` by page tables: every pointer of the kernel is in the
  segment that is mapped directly.
* The wording of messages, the device table, the timer interrupt, exceptions on
  cores other than 0 (they have no save area, and nothing is reported).
* Of `libgcc2.c` the run-time support of C++ (exceptions, constructors) and of
  profilers, which no C program of this kernel reaches, and of `longlong.h` the
  macros for other processors.  In the floating point routines, infinities, NaN
  and exponents out of range.
* Formats that end inside a conversion (`%5`, `%l`), after which `print` reads past
  the end of the string: the callers' formats are complete.
* How late a frame may be: it depends on the speeds of the hashing cores.
* `machine.s`, link script, objects, notes: no state of their own.

## 8. Plan

Done, in this order: lists; ring and pipeline with the proofs of ownership and of
the lock; tables; allocator, then at the level of bytes and pointers; boot,
reports and packet handling with the proofs of their locks; double words with the
proof of the division step; formatting; the pipeline as a queue of frames; then
the proofs of linked lists, tables, allocator, packet handling, order of frames,
arithmetic and formatting; that no cores or threads wait for one another in a
circle; the allocator with blocks of several pages; and last the conversions to
floating point.

Next: `Pipeline`'s `Tables`, `Execute` and `Classify` instantiated with
`Honeypot`'s operators, so that `Kernel` takes its packets from
`PipelineHistory`.
