--------------------------------- MODULE Boot ----------------------------------
(***************************************************************************)
(* From _start2 to the end of paging_init: the boot page directory of      *)
(* src/src/i386/boot.c, physical_mem_init of src/src/mem/mem.c, and        *)
(* clear_page_drectory, paging_init and recover_page_tables of             *)
(* src/src/mem/paging.c, seen through what the MMU makes of every address  *)
(* at every step.  Afterwards the kernel allocates pages and writes what   *)
(* it likes to them, the frames of the recovered page tables among them.   *)
(*                                                                         *)
(* One CPU, interrupts off: the steps follow each other.  Addresses are    *)
(* page numbers, physical ones frame numbers.                              *)
(***************************************************************************)
EXTENDS Naturals

CONSTANTS
    Dirs,            \* entries of a page directory: 1024 in the code
    Entries,         \* entries of a page table: 1024
    FirstKernelDir,  \* the directory entry of 0xC0000000: 768
    VgaBlock,        \* 0xb8000/BLOCK_SIZE
    BootDir,         \* the frame of boot_page_directory, in .boot.bss
    KernelStart,     \* the frame of __kernel_higher_half_start
    KernelStop,      \* the frame after the image: that of kphysical_stop
    PageDir,         \* the frame of page_directory, in the image
    FirstTable,      \* the frame of page_table[0]; the others follow
    Memories         \* what the boot loader may report, in KB

AddressPages == Dirs * Entries
MAX_PAGES == AddressPages - 2    \* the last two pages are never looked at
FirstKernelPage == FirstKernelDir * Entries
Kernel(f) == FirstKernelPage + f
Table(d) == FirstTable + d

\* What linker.ld makes of the image: its text comes first, the tables after it.
ASSUME BootAssumption ==
    /\ {Dirs, Entries, FirstKernelDir, VgaBlock, BootDir, KernelStart, KernelStop,
         PageDir, FirstTable} \subseteq Nat \ {0}
    /\ FirstKernelDir < Dirs /\ KernelStop <= FirstKernelPage
    /\ Kernel(KernelStop) < MAX_PAGES
    /\ VgaBlock < BootDir /\ BootDir < KernelStart
    /\ PageDir \in KernelStart..(KernelStop - 1)
    /\ KernelStart < FirstTable /\ Table(Dirs) <= KernelStop
    /\ PageDir \notin FirstTable..Table(Dirs - 1)
    /\ Memories \subseteq Nat

VARIABLES
    pc,              \* where boot is
    i,               \* the counter of the loop it is in
    memory,          \* mem_lower + mem_upper, in KB
    boot_dir,        \* boot_page_directory: the 4 MB page an entry maps
    paging,          \* cr0.paging
    cr3,             \* the frame of the directory loaded
    bitset,          \* the frames marked in mem.c
    virtual_bitset,
    page_directory,  \* the frame of the table an entry points to
    page_table,      \* page_table[d][e]: the frame mapped, or Null
    given            \* history: frames handed out since boot ended

tables == <<virtual_bitset, page_directory, page_table>>
vars == <<pc, i, memory, boot_dir, paging, cr3, bitset, tables, given>>

Null == 0
None == AddressPages        \* not present
DirOf(v) == v \div Entries
EntryOf(v) == v % Entries
Empty == [e \in 0..(Entries - 1) |-> Null]
Image == KernelStart..(KernelStop - 1)

\* The boot loader hands over with paging off and .bss cleared.
Init ==
    /\ pc = "boot" /\ i = 0
    /\ memory \in Memories
    /\ boot_dir = [d \in 0..(Dirs - 1) |-> None]
    /\ paging = FALSE /\ cr3 = Null
    /\ bitset = {} /\ virtual_bitset = {}
    /\ page_directory = [d \in 0..(Dirs - 1) |-> None]
    /\ page_table = [d \in 0..(Dirs - 1) |-> Empty]
    /\ given = {}
-----------------------------------------------------------------------------
(* The MMU (external): the frame page v is in, None when it faults.  What   *)
(* a directory entry points to is read as a table, whatever it is by then.  *)

Walk(f, e) ==
    IF f \in FirstTable..Table(Dirs - 1) /\ page_table[f - FirstTable][e] # Null
    THEN page_table[f - FirstTable][e]
    ELSE None

Translate(v) ==
    IF ~paging THEN v
    ELSE CASE cr3 = BootDir -> IF boot_dir[DirOf(v)] = None THEN None
                               ELSE boot_dir[DirOf(v)] * Entries + EntryOf(v)
           [] cr3 = PageDir -> IF page_directory[DirOf(v)] = None THEN None
                               ELSE Walk(page_directory[DirOf(v)], EntryOf(v))
           [] OTHER         -> None
-----------------------------------------------------------------------------
(* boot.c.                                                                  *)

\* The loop of enable_boot_paging: the i-th 4 MB page, at 0xC0000000 and at 0.
MapBig ==
    /\ pc = "boot"
    /\ IF i * Entries < KernelStop
       THEN /\ boot_dir' = [boot_dir EXCEPT ![FirstKernelDir + i] = i, ![i] = i]
            /\ i' = i + 1
            /\ UNCHANGED pc
       ELSE pc' = "load_cr3" /\ i' = 0 /\ UNCHANGED boot_dir
    /\ UNCHANGED <<memory, paging, cr3, bitset, tables, given>>

\* Its end: the directory is loaded, paging enabled, and higher_half jumped to.
LoadBootDir ==
    /\ pc = "load_cr3"
    /\ cr3' = BootDir
    /\ pc' = "enable"
    /\ UNCHANGED <<i, memory, boot_dir, paging, bitset, tables, given>>

EnablePaging ==
    /\ pc = "enable"
    /\ paging' = TRUE
    /\ pc' = "jump"
    /\ UNCHANGED <<i, memory, boot_dir, cr3, bitset, tables, given>>

JumpHigh ==
    /\ pc = "jump"
    /\ pc' = "memory"
    /\ UNCHANGED <<i, memory, boot_dir, paging, cr3, bitset, tables, given>>
-----------------------------------------------------------------------------
(* physical_mem_init.                                                       *)

\* total_mem * 1024 is a word of 32 bits; a frame is 4 KB.
TotalBlocks == (memory % (4 * AddressPages)) \div 4

InitUpTo(most) ==
    /\ pc = "memory"
    /\ IF TotalBlocks <= most
       THEN bitset' = TotalBlocks..(MAX_PAGES - 1) /\ pc' = "reserve"
       ELSE pc' = "panic" /\ UNCHANGED bitset
    /\ UNCHANGED <<i, memory, boot_dir, paging, cr3, tables, given>>

\* Mutant: memory up to the end of the address space.
InitAny == InitUpTo(MAX_PAGES)

\* bitsset_init: frames past the end of memory are marked, the others are not.
InitBits == InitUpTo(MAX_PAGES - 1)

\* Null, VGA and the kernel, up to kphysical_stop; then the two assertions
\* that the frames around it are free.
Reserve ==
    /\ pc = "reserve"
    /\ bitset' = bitset \cup {Null, VgaBlock} \cup (KernelStart..KernelStop)
    /\ pc' = IF {KernelStart - 1, KernelStop + 1} \cap bitset' = {}
             THEN "clear" ELSE "panic"
    /\ UNCHANGED <<i, memory, boot_dir, paging, cr3, tables, given>>
-----------------------------------------------------------------------------
(* paging_init.                                                             *)

\* Mutant: the lower half mirrors the higher one.
ClearTablesMirrored ==
    /\ pc = "clear"
    /\ page_directory' = [d \in 0..(Dirs - 1) |->
            Table(IF d < FirstKernelDir THEN FirstKernelDir + d ELSE d)]
    /\ page_table' = [d \in 0..(Dirs - 1) |-> Empty]
    /\ virtual_bitset' = {}
    /\ pc' = "map" /\ i' = KernelStart
    /\ UNCHANGED <<memory, boot_dir, paging, cr3, bitset, given>>

\* clear_page_drectory.
ClearTables ==
    /\ pc = "clear"
    /\ page_directory' = [d \in 0..(Dirs - 1) |-> Table(d)]
    /\ page_table' = [d \in 0..(Dirs - 1) |-> Empty]
    /\ virtual_bitset' = {}
    /\ pc' = "map" /\ i' = KernelStart
    /\ UNCHANGED <<memory, boot_dir, paging, cr3, bitset, given>>

Mapped(t, v, f) == [t EXCEPT ![DirOf(v)][EntryOf(v)] = f]

\* The loop over the image.
MapImage ==
    /\ pc = "map"
    /\ IF i < KernelStop
       THEN /\ IF Kernel(i) \in virtual_bitset
               THEN pc' = "panic" /\ UNCHANGED <<page_table, virtual_bitset>>
               ELSE /\ page_table' = Mapped(page_table, Kernel(i), i)
                    /\ virtual_bitset' = virtual_bitset \cup {Kernel(i)}
                    /\ UNCHANGED pc
            /\ i' = i + 1
       ELSE /\ pc' = "map_vga" /\ i' = 0
            /\ UNCHANGED <<page_table, virtual_bitset>>
    /\ UNCHANGED <<memory, boot_dir, paging, cr3, bitset, page_directory, given>>

\* The null page is taken, the page of VGA mapped.
MapVga ==
    /\ pc = "map_vga"
    /\ page_table' = Mapped(page_table, Kernel(VgaBlock), VgaBlock)
    /\ virtual_bitset' = virtual_bitset \cup {Null, Kernel(VgaBlock)}
    /\ pc' = "recover"
    /\ UNCHANGED <<i, memory, boot_dir, paging, cr3, bitset, page_directory, given>>

\* A frame cleared, or overwritten with c, where it is the frame of a table.
Overwritten(t, f, c) ==
    IF f \in FirstTable..Table(Dirs - 1) THEN [t EXCEPT ![f - FirstTable] = c] ELSE t

\* page_free(v, 1): its assertions in their order; the page is cleared through
\* the MMU, then its frame is freed and its entry cleared.
PageFree(v) ==
    LET cleared == Overwritten(page_table, Translate(v), Empty)
        f == cleared[DirOf(v)][EntryOf(v)]
    IN  IF v \notin virtual_bitset \/ f = Null \/ f \notin bitset
        THEN /\ pc' = "panic"
             /\ UNCHANGED <<bitset, virtual_bitset, page_table>>
        ELSE /\ bitset' = bitset \ {f}
             /\ page_table' = Mapped(cleared, v, Null)
             /\ virtual_bitset' = virtual_bitset \ {v}
             /\ UNCHANGED pc

RecoverUpTo(last) ==
    /\ pc = "recover"
    /\ IF i <= last
       THEN PageFree(Kernel(Table(i))) /\ i' = i + 1
       ELSE /\ pc' = IF {Kernel(KernelStart), Kernel(KernelStop - 1)}
                        \subseteq virtual_bitset THEN "switch" ELSE "panic"
            /\ i' = 0
            /\ UNCHANGED <<bitset, virtual_bitset, page_table>>
    /\ UNCHANGED <<memory, boot_dir, paging, cr3, page_directory, given>>

\* Mutants: one table too many, and one too few.
RecoverOneMore == RecoverUpTo(FirstKernelDir)
RecoverOneLess == RecoverUpTo(FirstKernelDir - 2)

\* recover_page_tables: those of the lower half, and its two assertions.
Recover == RecoverUpTo(FirstKernelDir - 1)

\* The kernel's directory is loaded.
SwitchDir ==
    /\ pc = "switch"
    /\ cr3' = PageDir
    /\ pc' = "running"
    /\ UNCHANGED <<i, memory, boot_dir, paging, bitset, tables, given>>
-----------------------------------------------------------------------------
(* The kernel running.                                                      *)

LowestIn(S) == CHOOSE x \in S : \A y \in S : x <= y
FreeFrames == (0..(MAX_PAGES - 1)) \ bitset
FreePages == (FirstKernelPage..(MAX_PAGES - 1)) \ virtual_bitset

\* What an owner may write to its page: data, which read as a table maps
\* nothing, or page 0 to a frame of its own or to the kernel's.
Contents == {Empty} \cup {[Empty EXCEPT ![0] = f] : f \in {BootDir, KernelStart}}

\* page_alloc_kernel_random, and a write of the page by who asked for it.
Allocate(c) ==
    /\ pc = "running"
    /\ FreeFrames # {} /\ FreePages # {}
    /\ LET f == LowestIn(FreeFrames)
           v == LowestIn(FreePages)
       IN  /\ bitset' = bitset \cup {f}
           /\ virtual_bitset' = virtual_bitset \cup {v}
           /\ page_table' = Overwritten(Mapped(page_table, v, f), f, c)
           /\ given' = given \cup {f}
    /\ UNCHANGED <<pc, i, memory, boot_dir, paging, cr3, page_directory>>

BootStep ==
    \/ MapBig \/ LoadBootDir \/ EnablePaging \/ JumpHigh
    \/ InitBits \/ Reserve
    \/ ClearTables \/ MapImage \/ MapVga \/ Recover \/ SwitchDir

Next == BootStep \/ \E c \in Contents : Allocate(c)

\* Boot runs on; nothing else is promised.
Spec == Init /\ [][Next]_vars /\ WF_vars(BootStep)
-----------------------------------------------------------------------------
(* Properties.                                                              *)

\* The page tables paging_init has made are no longer all needed.
LowerTables == {Table(d) : d \in 0..(FirstKernelDir - 1)}
Recovering == pc \in {"recover", "switch", "running", "panic"}

\* The code, the stacks and the tables in use.
BootFrames == BootDir..(KernelStart - 1)
Needed == (IF Recovering THEN Image \ LowerTables ELSE Image) \cup {VgaBlock}

BeforeJump == pc \in {"boot", "load_cr3", "enable", "jump"}

\* Whatever boot changes, the next instruction, the stack, the tables and the
\* screen are where the kernel thinks: at their own addresses before the jump
\* to the higher half, at theirs above 0xC0000000 from then on, before and
\* after cr3 is switched and whatever is written to recovered frames.  Once
\* mem.c has reserved them none is free, and the boot directory, free from the
\* start, is not handed out while it is loaded.
KernelStaysMapped ==
    /\ IF BeforeJump THEN \A f \in BootFrames : Translate(f) = f
                     ELSE \A f \in Needed : Translate(Kernel(f)) = f
    /\ BeforeJump \/ pc \in {"memory", "reserve", "panic"} \/ Needed \subseteq bitset
    /\ cr3 \notin given

\* With the kernel's directory loaded, a null pointer and the rest of the lower
\* half fault, until the frames of the recovered tables are handed out: their
\* directory entries still point to them.
NullFaults ==
    cr3 = PageDir /\ given \cap LowerTables = {} =>
        \A v \in 0..(FirstKernelPage - 1) : Translate(v) = None

\* The machine mem.c sees is one it can be initialised for: at least two frames
\* beyond the image, and less than the address space.
Fit == KernelStop + 1 < TotalBlocks /\ TotalBlocks < MAX_PAGES

\* Every machine mem.c can manage boots, and every other is refused by an
\* assertion: none is left hanging, none boots with memory it has not.
BootsIffFit == <>(pc = IF Fit THEN "running" ELSE "panic")

M(n) == INSTANCE PhysMem WITH
    Callers <- {}, TotalBlocks <- n, WordBits <- 32, phys_mutex <- 0,
    pc <- <<>>, op <- <<>>, block <- <<>>, word <- <<>>, answer <- <<>>, owned <- <<>>

P(n) == INSTANCE Paging WITH
    Callers <- {}, TotalBlocks <- n, KernelStop <- KernelStop - 1,
    TablePages <- LowerTables, Sizes <- {1}, frames <- bitset \cap 0..(n - 1),
    page_table <- [v \in 0..(MAX_PAGES - 1) |-> page_table[DirOf(v)][EntryOf(v)]],
    virtual_mutex <- 0, pc <- <<>>, op <- <<>>, page <- <<>>, block <- <<>>,
    size <- <<>>, done <- <<>>, mine <- <<>>, raw <- <<>>

\* physical_mem_init leaves mem.c in the initial state of PhysMem, and
\* paging_init leaves paging.c in that of Paging, for the machine at hand.
HandsOverMemory ==
    \E n \in 0..AddressPages : n = TotalBlocks /\
        /\ pc = "clear" => M(n)!Init
        /\ pc = "running" /\ given = {} => P(n)!Init
=============================================================================
