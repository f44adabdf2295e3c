------------------------------- MODULE Paging -------------------------------
(***************************************************************************)
(* The kernel's page allocator, src/src/mem/paging.c: virtual_bitset and   *)
(* page_table under virtual_mutex.  The frames come from mem.c, whose      *)
(* calls are single steps here, as BlockAllocator promises; process.c also *)
(* takes frames directly and translates addresses without the lock.  Pages *)
(* and frames are numbers; a failed assertion leaves its caller at a label *)
(* that says which, with virtual_mutex as it was.                          *)
(***************************************************************************)
EXTENDS Naturals, FiniteSets

CONSTANTS
    Callers,         \* the threads that allocate, free and translate pages
    MAX_PAGES,
    FirstKernelPage, \* 0xC0000000/BLOCK_SIZE
    TotalBlocks,     \* frames of memory the machine has
    VgaBlock,        \* 0xb8000/BLOCK_SIZE
    KernelStart,     \* first and last frame of the kernel's image
    KernelStop,
    TablePages,      \* the frames of page_table[0..767], inside the image
    Sizes            \* the run lengths asked of page_alloc_kernel_contigious

Kernel(b) == FirstKernelPage + b     \* the page the image's frame b is mapped at

ASSUME PagingAssumption ==
    /\ {MAX_PAGES, FirstKernelPage, TotalBlocks, VgaBlock, KernelStart, KernelStop}
           \subseteq Nat \ {0}
    /\ KernelStart <= KernelStop /\ KernelStop < TotalBlocks
    /\ VgaBlock < TotalBlocks /\ VgaBlock \notin KernelStart..KernelStop
    /\ TotalBlocks < MAX_PAGES
    /\ Kernel(KernelStop) < MAX_PAGES /\ Kernel(VgaBlock) < MAX_PAGES
    /\ TablePages \subseteq KernelStart..KernelStop
    /\ Sizes \subseteq Nat \ {0}

VARIABLES
    frames,         \* the frames mem.c has marked as in use
    virtual_bitset, \* the pages marked as in use
    page_table,     \* page_table[p]: the frame page p is mapped to, or 0
    virtual_mutex,
    pc, op,         \* pc[c], op[c]: where c is, and in which function
    page,           \* page[c]: page_ptr, virtual_block or first_page
    block,          \* block[c]: physical_block or physical_addr
    size,           \* size[c]: npages, the length of the run c asked for
    done,           \* done[c]: how many of them are mapped
    mine,           \* history: pages c was given, with what page_free is told
    raw             \* history: frames c took from mem.c directly

locals == <<op, page, block, size, done>>
memory == <<frames, virtual_bitset, page_table>>
history == <<mine, raw>>
vars == <<memory, virtual_mutex, pc, locals, history>>

Null == 0
Pages == 0..(MAX_PAGES - 1)

\* Mutant: the frame past the end of memory looks free.
BlocksPastEnd == 1..TotalBlocks

\* The frames mem.c may hand out.
Blocks == 1..(TotalBlocks - 1)

Image == KernelStart..KernelStop

\* physical_mem_init has reserved one frame more than the image has.
Reserved == (Image \cup {0, VgaBlock, KernelStop + 1}) \ TablePages

\* The pages paging_init maps and recover_page_tables leaves mapped.
BootPages == {Kernel(b) : b \in (Image \ TablePages) \cup {VgaBlock}}

Init ==
    /\ frames = Reserved \cap 0..(TotalBlocks - 1)
    /\ virtual_bitset = BootPages \cup {0}
    /\ page_table = [p \in Pages |->
            IF p \in BootPages THEN p - FirstKernelPage ELSE Null]
    /\ virtual_mutex = 0
    /\ pc = [c \in Callers |-> "idle"]
    /\ op = [c \in Callers |-> "none"]
    /\ page = [c \in Callers |-> 0]
    /\ block = [c \in Callers |-> 0]
    /\ size = [c \in Callers |-> 0]
    /\ done = [c \in Callers |-> 0]
    /\ mine = [c \in Callers |-> {}]
    /\ raw = [c \in Callers |-> {}]
-----------------------------------------------------------------------------
Goto(c, label) == pc' = [pc EXCEPT ![c] = label]
At(c, label) == pc[c] = label
Lowest(S) == CHOOSE i \in S : \A j \in S : i <= j

\* What a caller holds: the page and whether page_free is to free the frame.
Held(p, freeing) == [page |-> p, free_physical |-> freeing]

Enter(c, f, label, p, b, n) ==
    /\ At(c, "idle")
    /\ op' = [op EXCEPT ![c] = f]
    /\ page' = [page EXCEPT ![c] = p]
    /\ block' = [block EXCEPT ![c] = b]
    /\ size' = [size EXCEPT ![c] = n]
    /\ Goto(c, label)
    /\ UNCHANGED <<memory, virtual_mutex, done, history>>

\* Callers free what they were given, the way it was given; they translate
\* their own pages; a page is made for a frame taken before (alloc_phys = 0,
\* process_allocate_page_handle) or for one still to be claimed.
Call(c) ==
    \/ Enter(c, "random", "lock", 0, 0, 0)
    \/ \E b \in Blocks : Enter(c, "claim", "lock", 0, b, 0)
    \/ \E b \in raw[c] : Enter(c, "handle", "lock", 0, b, 0)
    \/ \E n \in Sizes : Enter(c, "contigious", "lock", 0, 0, n)
    \/ \E m \in mine[c] :
        \/ Enter(c, IF m.free_physical THEN "free" ELSE "forget", "lock",
                  m.page, 0, 0)
        \/ Enter(c, "translate", "test", m.page, 0, 0)

\* physical_alloc_block, called by process_allocate_page: not under the lock.
TakeFrame(c) ==
    /\ At(c, "idle")
    /\ Blocks \ frames # {}
    /\ LET b == Lowest(Blocks \ frames) IN
        /\ frames' = frames \cup {b}
        /\ raw' = [raw EXCEPT ![c] = @ \cup {b}]
    /\ UNCHANGED <<virtual_bitset, page_table, virtual_mutex, pc, locals, mine>>

FirstStep(f) ==
    CASE f = "random"     -> "frame"
      [] f = "claim"      -> "claim"
      [] f = "handle"     -> "find"
      [] f = "contigious" -> "scan"
      [] OTHER            -> "test"

\* Mutant: mutex_lock lets everybody in.
LockAnyway(c) ==
    /\ At(c, "lock")
    /\ virtual_mutex' = 1
    /\ Goto(c, FirstStep(op[c]))
    /\ UNCHANGED <<memory, locals, history>>

Lock(c) ==
    /\ At(c, "lock")
    /\ virtual_mutex = 0
    /\ virtual_mutex' = 1
    /\ Goto(c, FirstStep(op[c]))
    /\ UNCHANGED <<memory, locals, history>>

\* The page the step is about: in a run, the next one to map.
Current(c) == page[c] + done[c]

\* Mutant: the handle of a frame taken before is freed with its frame.
ReturnedWithFrame(c) ==
    CASE op[c] \in {"random", "claim", "handle"} ->
            mine[c] \cup {Held(page[c], TRUE)}
      [] op[c] = "contigious"          ->
            mine[c] \cup {Held(page[c] + i, TRUE) : i \in 0..(done[c] - 1)}
      [] op[c] = "translate"           -> mine[c]
      [] OTHER                         -> {m \in mine[c] : m.page # page[c]}

\* What the caller has when the call returns.
Returned(c) ==
    CASE op[c] \in {"random", "claim"} -> mine[c] \cup {Held(page[c], TRUE)}
      [] op[c] = "handle"              -> mine[c] \cup {Held(page[c], FALSE)}
      [] op[c] = "contigious"          ->
            mine[c] \cup {Held(page[c] + i, TRUE) : i \in 0..(done[c] - 1)}
      [] op[c] = "translate"           -> mine[c]
      [] OTHER                         -> {m \in mine[c] : m.page # page[c]}

Return(c) ==
    /\ mine' = [mine EXCEPT ![c] = Returned(c)]
    /\ op' = [op EXCEPT ![c] = "none"]
    /\ page' = [page EXCEPT ![c] = 0]
    /\ block' = [block EXCEPT ![c] = 0]
    /\ size' = [size EXCEPT ![c] = 0]
    /\ done' = [done EXCEPT ![c] = 0]
    /\ Goto(c, "idle")
    /\ UNCHANGED <<memory, raw>>

Unlock(c) ==
    /\ At(c, "unlock")
    /\ virtual_mutex = 1
    /\ virtual_mutex' = 0
    /\ Return(c)

\* physical_alloc_block, for a page of its own or the next of a run.
AllocFrame(c) ==
    /\ At(c, "frame")
    /\ IF Blocks \subseteq frames
       THEN /\ Goto(c, "Physical memory alloc error")
            /\ UNCHANGED <<frames, block>>
       ELSE LET b == Lowest(Blocks \ frames) IN
            /\ frames' = frames \cup {b}
            /\ block' = [block EXCEPT ![c] = b]
            /\ Goto(c, IF op[c] = "contigious" THEN "map" ELSE "find")
    /\ UNCHANGED <<virtual_bitset, page_table, virtual_mutex, op, page, size,
                   done,
                   history>>

\* Mutant: the outcome of physical_alloc_block_specific is not looked at.
ClaimBlindly(c) ==
    /\ At(c, "claim")
    /\ frames' = frames \cup {block[c]}
    /\ Goto(c, "find")
    /\ UNCHANGED <<virtual_bitset, page_table, virtual_mutex, locals, history>>

\* physical_alloc_block_specific; when it is refused one of the two assertions
\* that follow fails, whatever block_is_not_free answers in between.
ClaimFrame(c) ==
    /\ At(c, "claim")
    /\ frames' = frames \cup {block[c]}
    /\ Goto(c, IF block[c] \in frames THEN "failed to allocate block" ELSE "find")
    /\ UNCHANGED <<virtual_bitset, page_table, virtual_mutex, locals, history>>

\* page_alloc_kernel_inner marks the first page it finds.
FindPage(c) ==
    LET clear == {p \in Pages : p >= FirstKernelPage /\ p \notin virtual_bitset} IN
    /\ At(c, "find")
    /\ IF clear = {}
       THEN /\ Goto(c, "virtual memory alloc error")
            /\ UNCHANGED <<page, virtual_bitset>>
       ELSE /\ page' = [page EXCEPT ![c] = Lowest(clear)]
            /\ virtual_bitset' = virtual_bitset \cup {Lowest(clear)}
            /\ Goto(c, "map")
    /\ UNCHANGED <<frames, page_table, virtual_mutex, op, block, size, done,
                   history>>

Map(c) ==
    /\ At(c, "map")
    /\ page_table' = [page_table EXCEPT ![Current(c)] = block[c]]
    /\ Goto(c, IF op[c] = "contigious" THEN "mark" ELSE "unlock")
    /\ UNCHANGED <<frames, virtual_bitset, virtual_mutex, locals, history>>

\* Mutant: the counter is not reset at a page in use.
RunsWithHoles(n) ==
    {p \in FirstKernelPage..(MAX_PAGES - n) :
        /\ p \notin virtual_bitset
        /\ Cardinality({q \in p..(MAX_PAGES - 1) : q \notin virtual_bitset}) >= n}

\* page_alloc_kernel_contigious: where a run of n clear pages starts.
Runs(n) == {p \in FirstKernelPage..(MAX_PAGES - n) :
                p..(p + n - 1) \cap virtual_bitset = {}}

\* Mutant: the early return without mutex_unlock.
ScanRunLeavesLocked(c) ==
    /\ At(c, "scan")
    /\ IF Runs(size[c]) = {}
       THEN Goto(c, "idle") /\ UNCHANGED page
       ELSE /\ page' = [page EXCEPT ![c] = Lowest(Runs(size[c]))]
            /\ Goto(c, "frame")
    /\ UNCHANGED <<memory, virtual_mutex, op, block, size, done, history>>

\* The first run, or null without mapping anything.
ScanRun(c) ==
    /\ At(c, "scan")
    /\ IF Runs(size[c]) = {}
       THEN Goto(c, "unlock") /\ UNCHANGED page
       ELSE /\ page' = [page EXCEPT ![c] = Lowest(Runs(size[c]))]
            /\ Goto(c, "frame")
    /\ UNCHANGED <<memory, virtual_mutex, op, block, size, done, history>>

\* page_alloc_kernel_specific_virtual marks the page after it has mapped it.
MarkPage(c) ==
    /\ At(c, "mark")
    /\ virtual_bitset' = virtual_bitset \cup {Current(c)}
    /\ done' = [done EXCEPT ![c] = @ + 1]
    /\ Goto(c, IF done[c] + 1 < size[c] THEN "frame" ELSE "unlock")
    /\ UNCHANGED <<frames, page_table, virtual_mutex, op, page, block, size,
                   history>>

\* Mutant: free_physical is ignored and the frame never given back.
TestPageKeepsFrame(c) ==
    /\ At(c, "test")
    /\ Goto(c, IF page[c] \notin virtual_bitset THEN "Page double free detected"
               ELSE IF op[c] = "translate" THEN "read" ELSE "unmap")
    /\ UNCHANGED <<memory, virtual_mutex, locals, history>>

\* page_free and page_kernel_virtual_t0_pyhsical assert that the page is in use.
TestPage(c) ==
    /\ At(c, "test")
    /\ Goto(c, IF page[c] \notin virtual_bitset THEN "Page double free detected"
               ELSE IF op[c] = "forget" THEN "unmap" ELSE "read")
    /\ UNCHANGED <<memory, virtual_mutex, locals, history>>

\* Both read the entry and assert that it is not null.
ReadEntry(c) ==
    /\ At(c, "read")
    /\ block' = [block EXCEPT ![c] = page_table[page[c]]]
    /\ Goto(c, IF page_table[page[c]] = Null THEN "PTE must be unNULL"
               ELSE IF op[c] = "translate" THEN "answer" ELSE "release")
    /\ UNCHANGED <<memory, virtual_mutex, op, page, size, done, history>>

\* The translation returns; it never took the lock.
Answer(c) ==
    /\ At(c, "answer")
    /\ UNCHANGED virtual_mutex
    /\ Return(c)

\* physical_free_block: from here on the frame may be handed out again.
ReleaseFrame(c) ==
    /\ At(c, "release")
    /\ frames' = frames \ {block[c]}
    /\ Goto(c, IF block[c] \in frames THEN "unmap" ELSE "block Double free detected")
    /\ UNCHANGED <<virtual_bitset, page_table, virtual_mutex, locals, history>>

\* Mutant: the entry is left in place.
UnmapNothing(c) ==
    /\ At(c, "unmap")
    /\ Goto(c, "clear")
    /\ UNCHANGED <<memory, virtual_mutex, locals, history>>

Unmap(c) ==
    /\ At(c, "unmap")
    /\ page_table' = [page_table EXCEPT ![page[c]] = Null]
    /\ Goto(c, "clear")
    /\ UNCHANGED <<frames, virtual_bitset, virtual_mutex, locals, history>>

ClearPage(c) ==
    /\ At(c, "clear")
    /\ virtual_bitset' = virtual_bitset \ {page[c]}
    /\ Goto(c, "unlock")
    /\ UNCHANGED <<frames, page_table, virtual_mutex, locals, history>>

InCall(c) ==
    \/ Lock(c) \/ Unlock(c)
    \/ AllocFrame(c) \/ ClaimFrame(c) \/ FindPage(c) \/ Map(c)
    \/ ScanRun(c) \/ MarkPage(c)
    \/ TestPage(c) \/ ReadEntry(c) \/ Answer(c)
    \/ ReleaseFrame(c) \/ Unmap(c) \/ ClearPage(c)

Next == \E c \in Callers : Call(c) \/ TakeFrame(c) \/ InCall(c)

Spec == Init /\ [][Next]_vars

\* A thread inside a call keeps being scheduled.
FairSpec == Spec /\ \A c \in Callers : WF_vars(InCall(c))
-----------------------------------------------------------------------------
(* Properties.                                                             *)

\* The assertions that fail when memory, or what was asked for, is not there,
\* and those that no caller that keeps to the rules should ever meet.
Exhausted == {"Physical memory alloc error", "virtual memory alloc error",
              "failed to allocate block"}
Misused == {"Page double free detected", "PTE must be unNULL",
            "block Double free detected"}

Locked == {"frame", "claim", "find", "map", "scan", "mark", "read", "release",
           "unmap", "clear", "unlock"}
Labels == {"idle", "lock", "test", "answer"} \cup Locked \cup Exhausted \cup Misused
Operations == {"none", "random", "claim", "handle", "contigious", "free", "forget",
               "translate"}

TypeOK ==
    /\ frames \subseteq 0..(TotalBlocks - 1)
    /\ virtual_bitset \subseteq Pages
    /\ page_table \in [Pages -> 0..(TotalBlocks - 1)]
    /\ virtual_mutex \in {0, 1}
    /\ pc \in [Callers -> Labels] /\ op \in [Callers -> Operations]
    /\ page \in [Callers -> Pages] /\ block \in [Callers -> 0..(TotalBlocks - 1)]
    /\ size \in [Callers -> Nat] /\ done \in [Callers -> Nat]
    /\ mine \in [Callers -> SUBSET [page : Pages, free_physical : BOOLEAN]]
    /\ raw \in [Callers -> SUBSET (0..(TotalBlocks - 1))]

AllRaw == UNION {raw[c] : c \in Callers}
Mapped == {p \in Pages : page_table[p] # Null}

\* Between calls the bitset and the page tables tell the same story: a page is
\* marked exactly when it is mapped (or is the null page), although allocation
\* marks before it maps, a run maps before it marks, and free unmaps first.
MarkedIffMapped == virtual_mutex = 0 => virtual_bitset = Mapped \cup {0}

\* Between calls no frame is lost and none is mapped that mem.c could hand out
\* again: in use are the frames reserved at boot, those mapped, those taken
\* directly.
FramesAccountedFor ==
    virtual_mutex = 0 =>
        frames = (Reserved \cap 0..(TotalBlocks - 1)) \cup AllRaw
                    \cup {page_table[p] : p \in Mapped}

\* Between calls two pages share a frame only when it is one its user took
\* directly and maps for itself (the handles of process.c).
SharedOnlyThroughHandles ==
    virtual_mutex = 0 =>
        \A p, q \in Mapped :
            p # q /\ page_table[p] = page_table[q] => page_table[p] \in AllRaw

\* Where d has mapped, for itself, a frame it took.
HandleOf(d, p) ==
    \/ Held(p, FALSE) \in mine[d]
    \/ op[d] = "handle" /\ At(d, "unlock") /\ page[d] = p

\* page_free has given the frame back and has yet to unmap the page.
BeingUnmapped(p) ==
    \E c \in Callers : At(c, "unmap") /\ op[c] = "free" /\ page[c] = p

\* A frame that a thread took from mem.c for itself (process_allocate_page) is
\* in use at every step, whoever holds the lock, and no other thread's: no
\* page_free of a handle gives it back.
DirectFramesStay ==
    \A d \in Callers : /\ raw[d] \subseteq frames
                       /\ \A c \in Callers \ {d} : raw[c] \cap raw[d] = {}

\* At every step, not only between calls, a page is mapped to a frame in use,
\* and to one that a thread took for itself only if it is that thread's handle.
\* The one exception is the page whose page_free is about to unmap it, while
\* its frame is free or already somebody else's.
MappingsAreCurrent ==
    \A p \in Mapped :
        \/ BeingUnmapped(p)
        \/ /\ page_table[p] \in frames
           /\ \A d \in Callers : page_table[p] \in raw[d] => HandleOf(d, p)

\* A page is in one caller's hands at most, mapped until its owner frees it,
\* to a frame in use; the pages of the kernel image are in nobody's.
PagesBelongToOne ==
    /\ \A c, d \in Callers : \A m \in mine[c], n \in mine[d] :
            m.page = n.page => c = d /\ m = n
    /\ \A c \in Callers : \A m \in mine[c] :
            /\ m.page \notin BootPages
            /\ op[c] \notin {"free", "forget"} \/ page[c] # m.page =>
                   /\ m.page \in virtual_bitset
                   /\ page_table[m.page] \in frames \ {Null}

\* page_kernel_virtual_t0_pyhsical reads without the lock, yet what it returns
\* for the caller's own page is the frame the page is mapped to.
TranslationIsRight ==
    \A c \in Callers : At(c, "answer") => block[c] = page_table[page[c]]

\* virtual_mutex is released after every call that does not panic; a caller
\* that panics holds it for good, and keeps what it had taken.
ReleasedUnlessPanic ==
    virtual_mutex = 1 ~>
        virtual_mutex = 0 \/ \E c \in Callers : pc[c] \in Exhausted
=============================================================================
