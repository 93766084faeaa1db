------------------------------- MODULE Memory -------------------------------
(***************************************************************************)
(* mem.c: alloc_pages(), free_pages(), malloc(), calloc() and free(), and  *)
(* the pointers their callers hold.  The allocator is "not synchronized in *)
(* any way" (kernel.h) and is used by one core at a time: core 0 while it  *)
(* boots, core 2 (the hash tables) afterwards.  So a call is one step.     *)
(*                                                                         *)
(* The first caller is trap_init() of kernel.c, which never gives back.    *)
(*                                                                         *)
(* A page is named by its bit in page_alloc_bitmap.  What the blocks       *)
(* contain is left out, and with it the clearing.                          *)
(*                                                                         *)
(* A definition marked "Deviation" is no part of the specification: it is  *)
(* the one that follows it with a mistake, which a property has to catch.  *)
(***************************************************************************)
EXTENDS Integers, Sequences, FiniteSets, FiniteSetsExt, Functions, Bags

CONSTANTS
  PAGES,           \* ram_pages - pages_reserved
  FIRST_PAGE,      \* ram_start_page + pages_reserved
  PAGE_SIZE,
  KSEG,            \* where virtual addresses map to physical ones (0xC0000000)
  MIN_BLOCKSIZE2,  \* the binary logarithms of the sizes of pieces
  MAX_BLOCKSIZE2,
  BIGBLOCK_INFO,   \* sizeof(struct bigblock_info)
  TRAP_PAGES,      \* the pages of the trap stack (4)
  CORE_DATA,       \* sizeof(struct mips_core_data)
  Requests,        \* the sizes malloc() is called with
  CallocRequests   \* the <<count, size>> calloc() is called with

Page  == 0..(PAGES - 1)
Class == MIN_BLOCKSIZE2..MAX_BLOCKSIZE2  \* the entries of smallblock[]

(* blocksize[c] is 1 << c. *)
blocksize[c \in 0..MAX_BLOCKSIZE2] == IF c = 0 THEN 1 ELSE 2 * blocksize[c - 1]

(* Rounded up to multiples of 4. *)
CallocSize(r) == ((r[2] + 3) \div 4) * 4 * r[1]

(* What malloc() is asked for. *)
Wanted == Requests \cup {CallocSize(r) : r \in CallocRequests}

ASSUME MemoryAssumption ==
  /\ PAGES \in Nat \ {0} /\ FIRST_PAGE \in Nat
  /\ PAGE_SIZE \in Nat /\ PAGE_SIZE >= 2 * blocksize[MAX_BLOCKSIZE2]
  /\ KSEG \in Nat /\ KSEG % PAGE_SIZE = 0
  /\ MIN_BLOCKSIZE2 \in Nat /\ MAX_BLOCKSIZE2 \in Nat
  /\ MIN_BLOCKSIZE2 <= MAX_BLOCKSIZE2
  /\ BIGBLOCK_INFO \in 1..blocksize[MIN_BLOCKSIZE2]
  /\ TRAP_PAGES \in 1..PAGES
  /\ CORE_DATA \in Nat /\ CORE_DATA + 4 < TRAP_PAGES * PAGE_SIZE
  /\ \A s \in Requests : s \in Nat \ {0}
  /\ \A r \in CallocRequests : CallocSize(r) \in Nat \ {0}

VARIABLES
  busy,             \* the pages whose bit in page_alloc_bitmap is set
  page_alloc_hint,
  smallblock,       \* smallblock[c]: the pages of block size c, in list order
  bitmap,           \* bitmap[p]: the pieces of page p whose bit is set
  magic,            \* magic[p]: what the first word of page p says
  second,           \* second[p]: the second word, a blocksize or a pagecount
  trap_stack_top,   \* 0 before trap_init()
  live,             \* the bag of blocks handed out and not given back
  stopped           \* Running, InFree after shutdown() in free(), and after it
                    \* in alloc_pages() the pages that were asked for

pageVars  == <<busy, page_alloc_hint>>
blockVars == <<smallblock, bitmap, magic, second>>
vars      == <<pageVars, blockVars, trap_stack_top, live, stopped>>

PageAllocInit ==
  /\ busy = {}
  /\ page_alloc_hint = 0

Running == -1
InFree  == 0

MallocInit ==
  /\ smallblock = [c \in Class |-> <<>>]
  /\ bitmap = [p \in Page |-> {}]
  /\ magic = [p \in Page |-> "none"]
  /\ second = [p \in Page |-> 0]

(* mem_init(), and nothing allocated yet *)
Init ==
  /\ PageAllocInit
  /\ MallocInit
  /\ trap_stack_top = 0
  /\ live = EmptyBag
  /\ stopped = Running

(* Virtual addresses from KSEG on are those of physical memory; nobody has *)
(* a pointer below.                                                        *)
physical_to_virtual(paddr) == KSEG + paddr
virtual_to_physical(vptr)  == vptr - KSEG

Address(p)    == physical_to_virtual((FIRST_PAGE + p) * PAGE_SIZE)
PageAt(vptr)  == (virtual_to_physical(vptr) \div PAGE_SIZE) - FIRST_PAGE

HandOut(pointer, size) == live' = live (+) SetToBag({[pointer |-> pointer, size |-> size]})
TakeBack(b)            == live' = live (-) SetToBag({b})

-----------------------------------------------------------------------------
(* alloc_pages(): looks at every page once, from the hint on.              *)
End(i) == (page_alloc_hint + i) % PAGES

(* seen, after the page looked at in round i: it starts again at the first *)
(* page of the memory, but not at a busy page.                             *)
Seen[i \in Page] ==
  (IF i = 0 \/ End(i) = 0 THEN 0 ELSE Seen[i - 1]) + (IF End(i) \in busy THEN 0 ELSE 1)

(* Deviation: the search ends at the last page of the memory. *)
RoundsForward(count) == {i \in Page : Seen[i] = count /\ page_alloc_hint + i < PAGES}

Rounds(count) == {i \in Page : Seen[i] = count}

Found(count) == Rounds(count) # {}
LastOf(count) == End(Min(Rounds(count)))
FirstOf(count) == LastOf(count) - count + 1

(* Deviation: the hint is not wrapped around. *)
AllocPagesUnwrapped(count) ==
  /\ Found(count)
  /\ busy' = busy \cup FirstOf(count)..LastOf(count)
  /\ page_alloc_hint' = LastOf(count) + 1
  /\ UNCHANGED stopped

AllocPages(count) ==
  /\ Found(count)
  /\ busy' = busy \cup FirstOf(count)..LastOf(count)
  /\ page_alloc_hint' = (LastOf(count) + 1) % PAGES
  /\ UNCHANGED stopped

Shutdown(cause) ==
  /\ stopped' = cause
  /\ UNCHANGED <<pageVars, blockVars, live>>

(* "no free pages left, sorry", or more are asked for than there are *)
AllocPagesStops(count) == ~Found(count) /\ Shutdown(count)

(* trap_init(): the registers are saved above the stack of the handler. *)
TrapInit ==
  LET bottom == Address(FirstOf(TRAP_PAGES)) IN
  /\ AllocPages(TRAP_PAGES)
  /\ HandOut(bottom, TRAP_PAGES * PAGE_SIZE)
  /\ magic' = [magic EXCEPT ![FirstOf(TRAP_PAGES)] = "data"]
  /\ trap_stack_top' = bottom + TRAP_PAGES * PAGE_SIZE - 4 - CORE_DATA
  /\ UNCHANGED <<smallblock, bitmap, second>>

(* A page for a packet, or another caller of alloc_pages(1), which fills   *)
(* it with its own data.                                                   *)
AllocPage ==
  /\ AllocPages(1)
  /\ HandOut(Address(FirstOf(1)), PAGE_SIZE)
  /\ magic' = [magic EXCEPT ![FirstOf(1)] = "data"]
  /\ UNCHANGED <<smallblock, bitmap, second>>

-----------------------------------------------------------------------------
bitmap_get(bits, i)        == i \in bits
bitmap_set(bits, i, value) == IF value THEN bits \cup {i} ELSE bits \ {i}

(* The block size that malloc() takes for a request, if it is small. *)
Small(size)   == size <= blocksize[MAX_BLOCKSIZE2]
ClassOf(size) == Min({c \in Class : size <= blocksize[c]})

(* The free pieces of a page.  Piece 0 holds the accounting data. *)
FreePieces(c, p) == {j \in 1..(PAGE_SIZE \div blocksize[c] - 1) : ~bitmap_get(bitmap[p], j)}

PagesWithRoom(c) ==
  {k \in 1..Len(smallblock[c]) : FreePieces(c, smallblock[c][k]) # {}}

(* Deviation: a piece is where it would be without the accounting data. *)
MallocPieceShifted(size) ==
  LET c == ClassOf(size)
      p == smallblock[c][Min(PagesWithRoom(c))]
      j == Min(FreePieces(c, p))
  IN  /\ Small(size) /\ PagesWithRoom(c) # {}
      /\ bitmap' = [bitmap EXCEPT ![p] = bitmap_set(@, j, TRUE)]
      /\ HandOut(Address(p) + (j - 1) * second[p], size)
      /\ UNCHANGED <<pageVars, smallblock, magic, second, stopped>>

(* malloc() of at most half a page, when a page has a free piece *)
MallocPiece(size) ==
  LET c == ClassOf(size)
      p == smallblock[c][Min(PagesWithRoom(c))]
      j == Min(FreePieces(c, p))
  IN  /\ Small(size) /\ PagesWithRoom(c) # {}
      /\ bitmap' = [bitmap EXCEPT ![p] = bitmap_set(@, j, TRUE)]
      /\ HandOut(Address(p) + j * second[p], size)
      /\ UNCHANGED <<pageVars, smallblock, magic, second, stopped>>

(* Deviation: the bit of the piece that is handed out is not set. *)
MallocNewPageUnmarked(size) ==
  LET c == ClassOf(size)
      p == FirstOf(1)
  IN  /\ Small(size) /\ PagesWithRoom(c) = {}
      /\ AllocPages(1)
      /\ smallblock' = [smallblock EXCEPT ![c] = Append(@, p)]
      /\ bitmap' = [bitmap EXCEPT ![p] = {}]
      /\ magic' = [magic EXCEPT ![p] = "small"]
      /\ second' = [second EXCEPT ![p] = blocksize[c]]
      /\ HandOut(Address(p) + blocksize[c], size)

MallocNewPage(size) ==
  LET c == ClassOf(size)
      p == FirstOf(1)
  IN  /\ Small(size) /\ PagesWithRoom(c) = {}
      /\ AllocPages(1)
      /\ smallblock' = [smallblock EXCEPT ![c] = Append(@, p)]
      /\ bitmap' = [bitmap EXCEPT ![p] = bitmap_set({}, 1, TRUE)]
      /\ magic' = [magic EXCEPT ![p] = "small"]
      /\ second' = [second EXCEPT ![p] = blocksize[c]]
      /\ HandOut(Address(p) + blocksize[c], size)

PagesFor(size) == (size + BIGBLOCK_INFO + PAGE_SIZE - 1) \div PAGE_SIZE

MallocBig(size) ==
  LET n == PagesFor(size)
      p == FirstOf(n)
  IN  /\ ~Small(size)
      /\ AllocPages(n)
      /\ magic' = [magic EXCEPT ![p] = "big"]
      /\ second' = [second EXCEPT ![p] = n]
      /\ HandOut(Address(p) + BIGBLOCK_INFO, size)
      /\ UNCHANGED <<smallblock, bitmap>>

MallocStops(size) ==
  \/ Small(size) /\ PagesWithRoom(ClassOf(size)) = {} /\ AllocPagesStops(1)
  \/ ~Small(size) /\ AllocPagesStops(PagesFor(size))

Malloc(size) ==
  MallocPiece(size) \/ MallocNewPage(size) \/ MallocBig(size) \/ MallocStops(size)

Calloc(r) == Malloc(CallocSize(r))

-----------------------------------------------------------------------------
(* free_pages() goes from page to page until one is free already.          *)
Refused(page, count) ==
  \/ count = 0 \/ count > PAGES
  \/ page < KSEG \/ virtual_to_physical(page) % PAGE_SIZE # 0
  \/ PageAt(page) < 0 \/ PageAt(page) + count > PAGES

(* Deviation: the last page is not freed. *)
FreePagesShort(page, count) ==
  LET freed == PageAt(page)..(PageAt(page) + count - 2)
  IN  IF Refused(page, count) THEN stopped' = InFree /\ UNCHANGED busy
      ELSE /\ busy' = busy \ {p \in freed : PageAt(page)..p \subseteq busy}
           /\ stopped' = IF freed \subseteq busy THEN Running ELSE InFree

FreePages(page, count) ==
  LET freed == PageAt(page)..(PageAt(page) + count - 1)
  IN  IF Refused(page, count) THEN stopped' = InFree /\ UNCHANGED busy
      ELSE /\ busy' = busy \ {p \in freed : PageAt(page)..p \subseteq busy}
           /\ stopped' = IF freed \subseteq busy THEN Running ELSE InFree

(* The pointer is rounded down to the page boundary. *)
PageBoundary(pointer) == pointer - (pointer % PAGE_SIZE)

(* free() of a piece *)
FreePiece(b) ==
  LET page == PageBoundary(b.pointer)
      p    == PageAt(page)
      idx  == (b.pointer - page) \div second[p]
  IN  /\ IF idx < 1 \/ b.pointer # page + idx * second[p] \/ ~bitmap_get(bitmap[p], idx)
         THEN stopped' = InFree /\ UNCHANGED bitmap
         ELSE /\ bitmap' = [bitmap EXCEPT ![p] = bitmap_set(@, idx, FALSE)]
              /\ UNCHANGED stopped
      /\ TakeBack(b)
      /\ UNCHANGED <<pageVars, smallblock, magic, second>>

(* free() of a big block, with its free_pages() *)
FreeBig(b) ==
  LET page == PageBoundary(b.pointer)
  IN  /\ magic' = [magic EXCEPT ![PageAt(page)] = "erased"]
      /\ FreePages(page, second[PageAt(page)])
      /\ TakeBack(b)
      /\ UNCHANGED <<page_alloc_hint, smallblock, bitmap, second>>

(* free(): what the first word of the page says decides.  The system stops *)
(* when it is no magic number, and when the pointer is at the accounting   *)
(* data.                                                                   *)
Free(b) ==
  LET page == PageBoundary(b.pointer)
      what == magic[PageAt(page)]
  IN  IF page < KSEG \/ b.pointer - page < BIGBLOCK_INFO \/ what \notin {"small", "big"}
      THEN Shutdown(InFree)
      ELSE IF what = "small" THEN FreePiece(b) ELSE FreeBig(b)

(* Packets and the trap stack are never freed, and nobody frees what was not allocated. *)
Held == BagToSet(live)
Kept == {b \in Held : magic[PageAt(b.pointer)] = "data"}

Call ==
  \/ AllocPage
  \/ AllocPagesStops(1)
  \/ \E size \in Requests : Malloc(size)
  \/ \E r \in CallocRequests : Calloc(r)
  \/ \E b \in Held \ Kept : Free(b)

Next ==
  /\ stopped = Running
  /\ \/ trap_stack_top = 0 /\ TrapInit
     \/ trap_stack_top # 0 /\ Call /\ UNCHANGED trap_stack_top

Spec == Init /\ [][Next]_vars

(* The callers as long as they ask for several pages only when so many are *)
(* free from the hint on, as during the boot, when memory is given out for *)
(* the first time.  alloc_pages() counts free pages across busy ones, so   *)
(* that other runs need not be free.                                       *)
Prudent ==
  \A size \in Wanted :
    MallocBig(size) /\ PagesFor(size) > 1 =>
      page_alloc_hint..(page_alloc_hint + PagesFor(size) - 1) \subseteq Page \ busy

PrudentSpec == Init /\ [][Next /\ Prudent]_vars

-----------------------------------------------------------------------------
(* Every variable has its type. *)
TypeOK ==
  /\ busy \subseteq Page
  /\ page_alloc_hint \in Page
  /\ smallblock \in [Class -> Seq(Page)]
  /\ bitmap \in [Page -> SUBSET (1..(PAGE_SIZE - 1))]
  /\ magic \in [Page -> {"none", "data", "small", "big", "erased"}]
  /\ second \in [Page -> Nat]
  /\ \A b \in Held : b.pointer \in Nat /\ b.size \in Nat \ {0}
  /\ trap_stack_top \in Nat
  /\ stopped \in {Running, InFree} \cup (Nat \ {0})

Bytes(b)   == b.pointer..(b.pointer + b.size - 1)
PagesOf(b) == PageAt(b.pointer)..PageAt(b.pointer + b.size - 1)

SmallPages == UNION {Range(smallblock[c]) : c \in Class}

(* The bytes of the accounting data. *)
Accounting ==
  (UNION {Address(p)..(Address(p) + blocksize[MIN_BLOCKSIZE2] - 1) : p \in SmallPages})
  \cup (UNION {Address(p)..(Address(p) + BIGBLOCK_INFO - 1) :
                 p \in {q \in busy \ SmallPages : magic[q] = "big"}})

(* Two blocks that callers hold never share a byte, nor does a block and   *)
(* what the allocator writes into its pages: the pages alloc_pages() hands *)
(* out "are all free" (mem.c), and the pieces of a page are where free()   *)
(* looks for them, whatever was allocated and freed before.                *)
Disjoint ==
  \A b \in Held :
    /\ live[b] = 1
    /\ Bytes(b) \cap Accounting = {}
    /\ \A a \in Held \ {b} : Bytes(a) \cap Bytes(b) = {}

(* A page is busy exactly when a byte of a block someone holds is in it or *)
(* it is a page of pieces: no freed page stays busy, none in use looks     *)
(* free, none was asked for in vain, and the bits of the pieces are those  *)
(* of the blocks in use.                                                   *)
Accounted ==
  /\ busy = SmallPages \cup UNION {PagesOf(b) : b \in Held}
  /\ \A p \in SmallPages :
       bitmap[p] = {(b.pointer - Address(p)) \div second[p] :
                      b \in {a \in Held : PageAt(a.pointer) = p}}

(* The allocator only shuts the kernel down when memory is short for the   *)
(* very call that does: when so many pages as are asked for are nowhere    *)
(* free in a row, but for runs that the hint cuts in two, and so when one  *)
(* is, only if none is free.  It never does in free(), for a block that    *)
(* came from malloc() and was not freed before.                            *)
StopsOnlyWhenFull ==
  stopped # Running =>
    /\ stopped # InFree
    /\ \A p \in Page :
         p..(p + stopped - 1) \subseteq Page \ busy => page_alloc_hint \in (p + 1)..(p + stopped - 1)
=============================================================================
