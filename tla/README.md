# yawnix in TLA+

Models, model checks and proofs of [yawnix], a small 32-bit x86 kernel in C: one
CPU, a round-robin scheduler driven by the timer, paging, a physical block
allocator, a heap, one system call and a text screen. Paths below are relative
to the repository, `src/` being its root.

## The system

| Part | Source | State | Operations | Used by |
|---|---|---|---|---|
| physical blocks | `mem/mem.c`, `mem/bitset.c` | `bitset`, `phys_mutex` | alloc, alloc specific, free, is-not-free, stats | paging, processes |
| kernel paging | `mem/paging.c` | `page_table`, `virtual_bitset`, `virtual_mutex` | map any / a given frame / a run, unmap, translate | heap, processes |
| heap | `mem/heap.c` | the block list in a 4 MB arena, `block_count`, `heap_mutex` | alloc, free, realloc | processes, main |
| processes | `proc/process.c` | a directory, page tables, two page lists, a kernel stack each | `process_init`, `process_allocate_page` | main, scheduler |
| scheduler | `proc/sched.c` | the process list, `current_process`, `first_round` | append, pick next, timer handler | timer interrupt |
| interrupts | `i386/interrupt.c` | the IDT, `interrupt_handlers` | save and restore a context, dispatch, register | every handler |
| controllers | `drivers/pic.c`, `pic.h` | two 8259s: masks, requests, in service | remap, unmask, spurious test, EOI | dispatch, main |
| system call | `syscall/syscall.c` | none | print a string | user processes |
| screen | `drivers/vga.c`, `strings.c` | cells, cursor register, `vga_mutex` | write, scroll, clear, printf | everybody |
| mutex | `i386/mutex.c` | a word | spin on compare-and-swap, store 0 | the four locks |
| segments | `mem/gdt.c` | GDT, TSS | `gdt_init`, `tss_set_stack0` | main, scheduler |
| boot | `i386/boot.c`, `paging_init`, `physical_mem_init` | boot page directory, `cr0`, `cr3` | paging on, jump to the higher half, main: the order of everything above | |

Calls go downwards: processes call heap, paging and mem; paging and the heap
call mem and paging; everything prints. They run in three kinds of context that
meet in shared state: the boot thread (`main`), the processes (one kernel
process, `parent_process`, and user processes), and interrupt handlers, which
run with interrupts off on the stack of whatever they interrupted, or on the one
the TSS names. `main` is never resumed after the first timer tick.

What is hard here:

* preemption between any two instructions of a thread, and locks that are spun
  on, one of them (`vga_mutex`) by a handler that cannot be preempted;
* words of a bitset that 32 blocks share;
* four pieces of state that must agree (physical bitset, virtual bitset, page
  tables, page lists) while each call changes them one after the other;
* running out of frames, of pages or of heap in the middle of a call;
* a heap list, its links, footers and a hand-kept count across any sequence of
  calls;
* which stack, address space and segments an interrupt or a fault finds and
  leaves behind, and faults in the handler of a fault;
* boot, which changes the translation of the code it is running, and frees page
  tables that its directory keeps pointing to;
* requests of devices that are withdrawn, and the two controllers' priorities.

There are no tests in the repository and little documentation; what the code
promises is taken from its assertions, its comments and the use it makes of
itself. `PROJECT.json` lists the hazards line by line.

## The modules

| Module | Models | Actions and the code |
|---|---|---|
| `BlockAllocator` | what a block allocator promises: a request is answered in one atomic step by a free block, or refused only if none qualifies | no code; the abstract specification |
| `PhysMem` | `mem.c`, `bitset.c`, `mutex.c` | one program counter per caller: `Lock`, the reading of the bitset (`Scan`, the checks of the other functions), the load and the store of the word, `Unlock` |
| `PhysMemProofs`, `PagingProofs`, `HeapProofs`, `ProcessProofs`, `SchedProofs`, `InterruptsProofs`, `BootProofs` | the inductive invariant and the theorems about the module they are named for | |
| `ScreenProofs` | the same for `Vga` and `Printf` | |
| `Paging` | `paging.c` after `paging_init` | the stages of each function between `mutex_lock` and `mutex_unlock`; a call of mem.c is a step |
| `Boot`, `MCBoot` | `boot.c` up to `main`, `physical_mem_init`, `paging_init` | an iteration of each loop, the loads of `cr3` and `cr0`, and then allocations; `Translate` is the MMU |
| `RegionAllocator` | what a heap promises: regions that do not overlap, as large as asked, left alone until given back | no code; the abstract specification |
| `Heap`, `MCHeap` | `heap.c` | a call is a step, its helpers (`split_into_two`, the merges, `append_new_block`) operators on the list |
| `AddressSpaces` | what a process is promised: a partial function from addresses to frames nobody else has, which only grows | no code; the abstract specification |
| `Process`, `MCProcess` | `process.c` without the saved context | the stages of `process_init` and of `process_allocate_page` |
| `Sched` | `main` after the heap is up, `sched.c`, `syscall.c`, `gdt.c`, the interrupt path, the fault handlers, `panic`, the print lock | steps of threads, interrupts and faults, steps of the handler, `iret` |
| `Interrupts` | `pic.c`, `pic.h`, dispatch in `interrupt.c`, the gates | port writes of `pic_remap`, unmasking, the acknowledge cycle, a process's `int n`, dispatch, EOI |
| `Vga` | cells and cursor of `vga.c` | `WriteChar`, `Clear` |
| `Printf`, `MCPrintf` | `vga_vprintf`, `strings.c` | format characters, digits, the end of a conversion |

Composition is by replacing what lies below with its promise. `PhysMem` is shown
(and proved) to implement `BlockAllocator`, where allocation is one step; for
that reason `Paging` treats a call of mem.c as one step. `Paging` shows that its
state is consistent whenever `virtual_mutex` is free; `Process` treats its calls
as steps in turn. `Boot` ends where they start: `HandsOverMemory` evaluates the
`Init` of `PhysMem` and of `Paging` in its states. What `Process` promises the
programs is read from the directories and tables as the MMU reads them, and what
`Heap` promises from the headers. `Sched` keeps of the screen only its lock,
which `Vga` and `Printf` rely on to be one at a time. `Interrupts` shows that a
handler runs once per request; `Sched` has a single line, the timer's.

Definitions whose comment begins with "Mutant" are deliberate bugs, one for each
property: put in place of the definition they follow, they make TLC find the
property violated. They take no part in the models.

## The runs

| Run | Instance | What it shows |
|---|---|---|
| `phys_mem` | 2 callers, 8 blocks of memory, 9 bits in words of 3; 4 blocks are free, 2 of them in one word | one owner to a block, no lost bit, no false double-free panic, current answers, implements `BlockAllocator`, the lock is released |
| `paging` | 2 callers, 8 pages, 7 frames (free: runs of 1 and 2 pages; 3 frames) | bitset, tables and frames agree between calls; at every step, what is mapped is in use and no other thread's, save for the page that page_free is about to unmap; pages and frames have one owner, every page of a run included; the lock-free translation is right; the lock is released unless memory ran out |
| `boot` | 7 directory entries of 4 pages, 3 of them the lower half; an image of 9 frames; memory from 0 to twice the address space, a KB at a time | what the kernel needs is mapped at every step, whatever is later written to recovered frames; null faults; the other modules' initial states are reached; the machines that boot are those with room for the kernel and less memory than addresses |
| `heap` | an arena of 34 units, headers of 4, requests of `MCRequests` | the list tiles the arena and its length is the count, no two free neighbours, no assertion fails (footers are found where they were written), implements `RegionAllocator` |
| `heap_lost_pointer` | the same, past the first reset of `block_count` | a legal call fails `heap.c:222` |
| `process` | a kernel process and 2 user processes, 2 tables, every number of frames up to 15, kernel pages up to 10, list nodes up to 10 (enough for everything) | a process reaches exactly the pages in its list and the kernel none of them but while it copies the code, implements `AddressSpaces`, and every process is ready in the end unless memory runs out |
| `sched` | 3 user processes and the parent; a fault of one user, of three kinds, or of `main` | contexts, address space, segments and TSS stack follow the process; `main` is done before the first tick; a handler waits for the screen only if the parent was preempted while printing; every process runs again and again unless the kernel wedges or one faults; a fault is reported, with the exceptions below |
| `interrupts` | 5 devices on both controllers, 4 served, 3 requests; `int` of 14, 32 and 128 from a process | handlers run once for each request, never for a spurious one and never for an `int`; nothing but line 8 stays in service; requests are served |
| `vga` | 2 rows of 3 columns, all texts up to 8 characters | the screen shows the end of the text, until a character is lost below the last row |
| `vga_overrun` | the same | the last row filled to its end makes the next character use `frame_buffer[25]` |
| `printf` | 9-bit words, a buffer of 5, all formats of up to 2 characters and some longer | the output is the format with its arguments converted; it fits the buffer |
| `printf_least` | the same | `%i` of the least int prints `-` |

### Why these bounds

Each is the smallest where all the interesting cases happen. PhysMem needs a
free block that shares its word with a reserved one and two that share a word
with each other, and two callers to race for them. Paging needs a run that fits,
one that does not, and both frames and pages running out first (two handles to
one frame take two pages); it has more memory than the kernel's half can map. The heap's arena
holds six of the smallest blocks, so that a block has two neighbours, both
merges happen, a free block can be split with and without room for a header, and
appending can fail. Sched needs three users for a walk over the list that is
more than a step and a return; a fourth adds nothing to a round robin. Its
second and third user cannot fault, since the panic of one stops all. Process
starts from every amount of memory so that each of its assertions about memory
fails somewhere. Boot's image takes three of its 4-page superpages, with the VGA
block, the boot directory and the boot stack below it; its tables are all inside
the image, as the linker puts them, and one entry of the kernel's half is above
it. Interrupts has the lines that differ: the first, 7 and 15 (spurious), 8 (the
off-by-one) and 9 (behind 8), and a vector of each sort a process may call: an
exception's, a line's and its own. Vga's eight characters fill the screen of
six, leave it and scroll. Printf's words lie on both sides of every change of
length, sign and low byte, and the buffer is exactly as long as the longest
numeral needs; the kernel's 50 bytes hold a sign, ten digits and a terminator.

`MaxRaises`, `MaxText`, `Nodes`, the one fault that is followed in `Sched` and
the heap's `BeforeRewind` constraint are the only bounds on behaviour. Deadlock
is not checked where the kernel really stops: a panic, a wedge, `heap_realloc`,
or a program that has printed everything.

### Fairness

* PhysMem, Paging: a caller past `mutex_lock` goes on. Nothing is assumed of
  `mutex_lock`: its compare-and-swap has no queue, and a waiter may starve.
* Sched: the timer ticks for ever; the CPU goes on with the handler it is in; a
  thread that is given the CPU again and again takes steps. For the last one it
  is assumed that ticks (55 ms apart) do not fall on a thread every time before
  it has executed a single instruction (`TicksAreSparse`). No thread has to fault.
* Interrupts: the CPU goes on with an interrupt, and looks for requests before
  every instruction. Devices need not do anything.
* Process, Boot: the single thread goes on; once Boot is over nobody has to
  allocate.

## What the checks found

* `heap.c:142` sets `block_count` to 0 where it means to count one block less or
  none; the arena is then taken for empty and live blocks are overlaid
  (`heap_lost_pointer`). The heap's other properties are claimed only up to that
  moment (`rewound`): afterwards the kernel's own data are overwritten by
  headers, and the model does not follow what clients write.
* `vga.c:105` tests `x > 80`, so that the last row can be left below the screen
  (`vga_overrun`). In every other way the screen is right.
* `strings.c:34` cannot negate the least int (`printf_least`).
* The page fault handler reads the page table of the faulting address through
  the list of the current process. For an address in the kernel's half there is
  no such table, `pagelist_search_page` returns null (`paging.c:54`), and the
  handler faults: what is printed and halted on is the fault at address 0, not the
  one that came first. For `main`, which does not test what `heap_alloc` returns
  (`boot.c:183`), the current process is the parent, which has no list at all, and
  the handler may fault for ever. And a fault while the parent is preempted in a
  print never shows: panic waits for the screen (`FaultsAreReported` names all
  three).
* The directory entries of the lower half point to tables that were freed
  (`paging.c:125`). Null faults only until the frames are handed out again; then
  it reads as whatever their owner wrote (the premise of `NullFaults`). The
  kernel's own addresses are out of its way, whatever that is.
* `total_mem * 1024` wraps at 4 GB (`mem.c:18`): with exactly 4 GB the kernel
  refuses to boot, with more it takes itself to have the remainder, and boots if
  that is enough (`TotalBlocks` in `BootsIffFit`). It never takes memory for
  there that is not.
* No document to compare with, but worth knowing: the syscall handler spins with
  interrupts off if the parent was preempted while printing (`Wedged` in `Sched`;
  it can happen once, since the parent prints once, and then nothing runs any
  more), `heap_realloc` keeps or re-takes its lock, line 8 is not acknowledged at
  the slave (the exception in `NothingStaysInService`), and `process.c:140` maps
  a block it has allocated although `paging.c:229` wants it unallocated, which is
  harmless with `alloc_phys = 0` and is why `SharedOnlyThroughHandles` excepts
  frames taken directly. The kernel as it is neither calls `heap_realloc` nor
  unmasks line 8.

## What is proved

TLAPS checks what follows for every value of the constants that meets the
assumptions of the module (`SchedAssumption` and so on): any number of callers,
processes, blocks, pages and devices, any size of screen, any format. No
assumption limits a size that the code leaves open: memory is as large as
bitset.c:29 lets it be (`TotalBlocks < MAX_PAGES`, with `MAX_PAGES` two pages
short of the address space, as bitset.h:8 computes it), and the rest say how
things lie in memory and which names are distinct.

| Theorem | Property |
|---|---|
| `PhysMemProofs`: `TypeCorrect`, `BlocksAreExclusive`, `CallersNeverPanic`, `ReportsAreCurrent` | `TypeOK`, `ExclusiveOwners`, `NoPanic`, `ReportIsCurrent` |
| `PhysMemProofs`: `Refinement` | `ImplementsPromise`: `Spec` implements `BlockAllocator` |
| `PagingProofs`: `TypeCorrect`, `BitsetAgrees`, `FramesAreAccountedFor`, `SharingIsAskedFor`, `DirectFramesAreKept`, `NoMappingIsStale`, `PagesHaveOneOwner`, `TranslationNeedsNoLock` | `TypeOK`, `MarkedIffMapped`, `FramesAccountedFor`, `SharedOnlyThroughHandles`, `DirectFramesStay`, `MappingsAreCurrent`, `PagesBelongToOne`, `TranslationIsRight` |
| `HeapProofs`: `TypeCorrect`, `BlocksTileArena`, `NeighborsMerge`, `AssertionsHold` | `TypeOK`, `ListTilesArena`, `NoFreeNeighbors`, `NoAssertionFails` |
| `HeapProofs`: `Refinement` | `HeapKeepsPromise`: until `rewound`, every step is one of `RegionAllocator` |
| `ProcessProofs`: `ProcessesReachTheirPages` | `ReachesOnlyItsPages` |
| `ProcessProofs`: `OnlyMemoryRunsOut` | no assertion fails but those about memory |
| `ProcessProofs`: `Refinement` | `AddressSpacesKeepPromise`: `Spec` implements `AddressSpaces` |
| `SchedProofs`: `TypeCorrect`, `ContextsSurvive`, `CpuFollowsScheduler`, `NothingIsAbandoned`, `OnlyTheParentIsWaitedFor` | `TypeOK`, `SavedContextsIntact`, `RunsCurrentProcess`, `MainIsDone`, `WaitsOnlyForPreempted` |
| `InterruptsProofs`: `HandlersServe`, `RequestsAreAccountedFor`, `ServicesEnd` | `HandlersServeTheirLine`, `RequestsAccountedFor`, `NothingStaysInService` |
| `BootProofs`: `ImageStaysMapped`, `NullPointersFault`, `MemoryHandedOver` | `KernelStaysMapped`, `NullFaults`, `HandsOverMemory` |
| `BootProofs`: `OnlyTheUnfitAreRefused` | an assertion stops boot only if the machine is not `Fit`, and only a `Fit` one runs |
| `ScreenProofs`: `TextShown`, `FormatPrinted`, `BufferFits` | `ShowsTheText`, `PrintsTheFormat`, `FitsTheBuffer` |

Hardly any of these properties is inductive. Each module of proofs defines the
inductive invariant `IInv` (`VgaInv` and `PrintfInv` for the screen) that is
(TLC checked each of them on the run of its module before it was proved), with
one lemma for each action of the model, and under it one step for each conjunct
that the action can disturb.

**PhysMem.** A caller stores a word it loaded a step earlier, so that the bitset
agrees with who owns what only if the word is still what it was; that holds
because no one else stores, which is mutual exclusion; and that is an invariant
only with the link between `phys_mutex` and the program counters. `HolderKnows`
says what the holder of the lock has read so far (the block it found free, the
word it loaded, the count) and that it is true of the bitset as it is. The
refinement maps a request to one that is open until the store, where it is
answered: `HolderKnows` gives that the block answered was free, or, for a
refusal, that the scan missed none. The choice of the lowest free bit rests on
the lemma `LeastOfNats`, as every search in the other modules does.

**Paging.** The bitset, the tables and mem.c's frames agree when the lock is
free; while it is held they differ by what its holder is half way through.
`MemoryInv` says by how much, for each stage of each call (`BitsetOf`,
`FramesOf`), and `LockInv` that there is one holder. `HoldingInv` and `LiveOwned`
follow pages through their owners' hands: a page is one caller's, mapped and
marked, until its owner's own call to free it has reached the point where it is
not. `CallInv` has the loop invariant of `page_alloc_contigious`: the part of the
run that is done is owned, the rest is still unmarked. `StaleInv`, invariant
given the others, is about the steps between: which page a directly taken frame
is mapped at, and that a page forgotten without its frame is such a handle. Of
it, `DirectFramesStay` (such a frame stays in use and its taker's own) is proved
alone: in the run, a frame given back under its taker shows as a stale mapping as
soon as it is mapped again. From `StaleInv` and
`FramesOf` follows `MappingsAreCurrent`, at every step: `page_free`
releases the frame (`paging.c:289`) before it unmaps the page, and in between,
though the frame may already be another thread's, no other mapping is stale.

**Heap.** `ListInv` is that there is no list or a good one (`Listed`: it tiles the
arena, links both ways, ends), in every state, even after `block_count` is lost:
`heap_alloc` then lays a new list over the old one. `KeptInv` is what is true up
to then: the count is the number of blocks, no neighbours are free, and
(`HeldInv`) the blocks in use are those that callers hold, with their footers in
place and room for what was asked. The footer is why `AssertionsHold` is true,
and the room why regions do not overlap. The proof needs a header to be longer
than a footer, as it is (four words to one): `heap_realloc` can cut a block down
to its header, and only the headers then keep pointers apart. The operators
(`Split`, `MergeRight`, `MergeLeft`, append) have lemmas of their own: what each
makes of the list, from what it needs of it.

**Process.** `KernelInv` is that what the kernel maps and what a process was
given are in use and meet in the handle only; the rest holds while nothing has
failed: where `process_init` is with its process (`MakingInv`), that the address
a call is about is new (`CallInv`), that a frame is one table of one process
and on its list (`TableInv`), and that the MMU finds what the list says
(`ListInv`). A new table is cleared before it is entered, so that
it has no entries that the list does not know; that no two directories share a
table makes a store into one leave the others' address spaces as they were.

**Sched.** The CPU, the list and the stacks are tied together by where `main` and
the handler are: `BootInv` (until the first tick `main` runs, and that tick finds
it halted), `ListInv` (what has a context is on the list, save what is about to
be appended; the list has an end, so the walk over it comes back to its head),
`FrameInv` (a handler is on the stack of what it interrupted, and what it will
resume is complete), `CpuInv` and `PrintInv` (who has the screen).

**Interrupts.** `ServiceInv` says what is in service at each point between
acknowledge and `iret`: the line dispatched, and the cascade if it is the
slave's; or, for the answer to a withdrawn request, nothing (7) or the cascade
alone (15). With `ChipInv`, what `pic_remap` has programmed by when, it gives that
`pic_spurious` and `pic_write_eoi` undo exactly what the acknowledge did, line 8
excepted. `OwedInv` counts a request at its controller or in its handler, and
nowhere else.

**Boot.** `CpuInv` says which directory the MMU reads, `BigInv` what the boot
directory maps so far, `MemoryInv` and `TablesInv` what both bitsets mark and the
tables map at each step: all follow from how far the loops have come.
`RunningInv` is what the running kernel's allocations leave alone: frames that
are needed stay marked, so that no write reaches an upper table, and a lower
table is empty until its frame is handed out. That an entry of a table is
one page and no other is arithmetic (`PageAt`, `PagesDiffer`, `HigherHalf`), for
tables of any length. `BootAssumption` says that the image's text comes before
its tables, as `linker.ld` has it: without that, the first frame of the image
could be one that `recover_page_tables` frees, and its assertion would fail.

**Screen.** `VgaInv` is `ShowsTheText` for the rows on the screen, with what it
needs to survive a step: that nothing is written on the paper where the pen has
not been (`Fresh`), so that scrolling may bring up a blank row; and that the
cursor is on the screen or at the first column just past it, which is what the
register gives back of column `Cols` of the last row (`CursorHolds`, arithmetic
about any number of columns). A newline or a tab there scrolls and loses nothing;
a character there is lost, and the invariant lets go. `PrintfInv` says that what
has been printed is the concatenation of what the characters so far print, that
as many arguments are taken as directives passed, and, within a number, that the
buffer holds its lowest digits with the rest of it in `value` (`InDigits`), then
the numeral, terminated (`InPrint`), whatever else is in it. That there is place
for the digits is `PowerGrows` and `PowerOfMore`: a word is less than 2^W, and so
than 10^(BufLen - 2). `DirectivesHaveArguments` and `BufferHoldsWords` are the
assumptions: C leaves a missing argument undefined, and 50 bytes are far more
than 32 bits need.

The reference definitions here are a fold over the text, a concatenation over the
format and powers. What they compute is not proved by an induction theorem, whose
parameter is an operator, but by `Induction`: the least number at which two
functions differ would contradict the equation both satisfy. So `Paper` of a text
with one character more is one movement of the pen (`PaperOfAppend`), and
`FlattenSeq` of one sequence more appends it (`FlatStep`).

Only model-checked:

* liveness (`ReleasedUnlessPanic`, `RequestsAreServed` and the like), which is out
  of the proof system's reach, as is `ENABLED`; of `BootsIffFit` that boot ends at
  all, for how it ends is `OnlyTheUnfitAreRefused`.

## What is not modelled

* The bit layouts and inline assembly of `i386/i386.h`, the linker script (its
  layout is `BootAssumption`), the declarations of the multiboot header, and the
  assertions that read back what was just written (`gdt_init`, `boot.c`).
* `drivers/keyboard.h` (declarations nobody includes) and `proc/elf.c` (empty).
* Arithmetic that wraps at 2^32 in `heap_alloc` and `align_forward`: no caller
  comes near. Words are W bits where overflow decides the result (`Printf`), 16
  bits in the cursor register, and memory wraps in `Boot`.
* What memory there is: mem.c takes it to be contiguous.
* The user bit, which every entry has set, the kernel's too, so that ring 3 is
  kept out of nothing by it; and the TLB (every unmap is followed by `invlpg`, on
  one CPU).
* A fault while another is being handled, beyond what the page fault handler
  does to itself.

Simplifications that are not omissions: a scan of the bitset, between lock and
unlock, is read in one step; `process_init`'s copying of the program's code has
no effect on any address space; the parent's and the processes' programs are the
ones in the repository (`parent_sleep`, `test_user`).

## Plan

Done, in this order because each rests on the one before: `PhysMem` with its
promise and proofs, `Heap`, `Paging`, `Sched`, `Process`, the screen, interrupts;
then `Boot`, faults, segments and panic in `Sched`, the gates in `Interrupts`, the
promises `RegionAllocator` and `AddressSpaces`; then the proofs about all of them,
the screen last.

1. Extend, where it is cheap to: a composition of `Paging` with `PhysMem` itself,
   to check rather than argue that calls of mem.c may be taken as steps;
   `sched_append_process` with the timer already unmasked.

[yawnix]: ../src
