------------------------------- MODULE Sched --------------------------------
(***************************************************************************)
(* Who runs, from the enabling of interrupts in main (src/src/i386/boot.c) *)
(* onwards: the round robin of src/src/proc/sched.c, the interrupt path of *)
(* src/src/i386/interrupt.c, the contexts process_init lays out, the       *)
(* segments and the stack of the TSS that src/src/mem/gdt.c sets up, the   *)
(* page fault handler of src/src/mem/paging.c, the timer line of the PIC,  *)
(* and the print lock of src/src/drivers/vga.c that threads, handlers and  *)
(* panic share.                                                            *)
(*                                                                         *)
(* There is one CPU.  Between interrupts it executes steps of the thread   *)
(* running; an interrupt saves a frame, runs its handler with interrupts   *)
(* off, step by step, and resumes whichever frame the handler returns.     *)
(* boot.c makes one user process; here it makes any set of them.           *)
(***************************************************************************)
EXTENDS Naturals, FiniteSets

CONSTANTS
    Users,      \* the user processes main creates, each running test_user
    Faulty,     \* the threads that may fault; at most one fault is followed
    Parent,     \* parent_process, the kernel process running parent_sleep
    Main,       \* the boot thread
    Null

ASSUME SchedAssumption ==
    /\ Parent \notin Users /\ Main \notin Users /\ Null \notin Users
    /\ Parent # Main /\ Null \notin {Parent, Main}
    /\ Faulty \subseteq Users \cup {Main}

Procs == Users \cup {Parent}
Threads == Procs \cup {Main}
Timer == 32
Syscall == 128
Protection == 13
PageFault == 14

VARIABLES
    running,         \* the thread whose registers the CPU holds
    cr3,             \* the address space loaded: a user process's, or Main's
    segs,            \* cs, and the selector in the data segment registers
    intf,            \* eflags.if
    hpc,             \* where the interrupt handler is, "none" outside
    vector,          \* the number of the interrupt being handled
    ctx,             \* context: the stack on which its frame lies
    pc,              \* pc[t]: where thread t is in its own code
    making,          \* the process main is creating
    frame,           \* frame[s]: the context saved at the top of stack s
    stack_ptr,       \* stack_ptr[p]: the stack of p's saved context
    next,            \* next[p]: the process after p in the list
    current_process,
    first_round,
    esp0,            \* tss.esp0: the stack an interrupt from ring 3 uses
    handlers,        \* the numbers interrupt_handler_register has been given
    irr, isr, imr,   \* the timer line of the master PIC
    vga_mutex,       \* vga_mutex.ass
    cause,           \* what the last fault was: the address in cr2, or none
    fault            \* history: what the first fault was, "none" before it

irqVars == <<hpc, vector, ctx>>
procVars == <<frame, stack_ptr, next, current_process, first_round, esp0>>
picVars == <<irr, isr, imr>>
faultVars == <<cause, fault>>
cpuVars == <<running, cr3, segs>>
vars == <<cpuVars, intf, irqVars, pc, making, procVars, handlers,
          picVars, vga_mutex, faultVars>>

Selector(i, rpl) == [index |-> i, rpl |-> rpl]

\* The descriptors of gdt_init: flat, what each is and who may use it.
Gdt == << [type |-> "code", dpl |-> 0], [type |-> "data", dpl |-> 0],
          [type |-> "code", dpl |-> 3], [type |-> "data", dpl |-> 3],
          [type |-> "tss",  dpl |-> 3] >>

\* gdtr_write at the end of gdt_init, and the start of interrupt_common_stub.
KernelSegs == [cs |-> Selector(1, 0), ds |-> Selector(2, 0)]

\* The selectors of process_init for a user process.
UserSegs == [cs |-> Selector(3, 3), ds |-> Selector(4, 3)]

Ring == segs.cs.rpl

\* The gates of interrupts_init_isrs: the segment of the handler, and the ring
\* that may call it with an int instruction.
Gate(n) == [cs |-> 1, dpl |-> IF n = Syscall THEN 3 ELSE 0]

NoFrame == [of |-> Null, cr3 |-> Null, intf |-> FALSE, segs |-> KernelSegs]

\* heap_init has returned: gdt_init has left esp0 at 0, pic_remap has masked the
\* timer and paging_init has registered its two handlers.
Init ==
    /\ running = Main /\ cr3 = Main /\ segs = KernelSegs /\ intf = FALSE
    /\ hpc = "none" /\ vector = Null /\ ctx = Null
    /\ pc = [t \in Threads |-> "start"] /\ making = Null
    /\ frame = [t \in Threads |-> NoFrame]
    /\ stack_ptr = [p \in Procs |-> Null]
    /\ next = [p \in Procs |-> Null]
    /\ current_process = Null /\ first_round = TRUE /\ esp0 = Null
    /\ handlers = {Protection, PageFault}
    /\ irr = FALSE /\ isr = FALSE /\ imr = TRUE
    /\ vga_mutex = 0
    /\ cause = "none" /\ fault = "none"
-----------------------------------------------------------------------------
(* The steps of threads.  An interrupt that can be delivered comes first.  *)

Deliverable == hpc = "none" /\ intf /\ irr /\ ~imr /\ ~isr

At(t, label) ==
    running = t /\ hpc = "none" /\ ~Deliverable /\ pc[t] = label

Goto(t, label) == pc' = [pc EXCEPT ![t] = label]

OnlyPc(t, from, to) ==
    /\ At(t, from)
    /\ Goto(t, to)
    /\ UNCHANGED <<cpuVars, irqVars, procVars, picVars, faultVars>>

\* vga_printf outside a handler: mutex_lock succeeds, characters are written,
\* mutex_unlock.
LockVga(t, from, to) ==
    /\ OnlyPc(t, from, to)
    /\ vga_mutex = 0
    /\ vga_mutex' = 1
    /\ UNCHANGED <<intf, making, handlers>>

UnlockVga(t, from, to) ==
    /\ OnlyPc(t, from, to)
    /\ vga_mutex = 1
    /\ vga_mutex' = 0
    /\ UNCHANGED <<intf, making, handlers>>

Sti ==
    /\ OnlyPc(Main, "start", "syscall_init")
    /\ intf' = TRUE
    /\ UNCHANGED <<making, handlers, vga_mutex>>

SyscallInit ==
    /\ OnlyPc(Main, "syscall_init", "sched_init")
    /\ handlers' = handlers \cup {Syscall}
    /\ UNCHANGED <<intf, making, vga_mutex>>

\* Mutant: the selectors of a user process ask for ring 0.
ContextForgetsRing(p) ==
    [of |-> p, cr3 |-> IF p = Parent THEN cr3 ELSE p, intf |-> intf,
     segs |-> IF p = Parent THEN KernelSegs
              ELSE [cs |-> Selector(3, 0), ds |-> Selector(4, 0)]]

\* Mutant: a user process in the address space of its creator.
ContextInCreatorsSpace(p) ==
    [of |-> p, cr3 |-> cr3, intf |-> intf,
     segs |-> IF p = Parent THEN KernelSegs ELSE UserSegs]

\* The context process_init saves on the new stack: eflags are the creator's,
\* a kernel process shares the creator's address space.
Context(p) ==
    IF p = Parent
    THEN [of |-> p, cr3 |-> cr3, intf |-> intf, segs |-> KernelSegs]
    ELSE [of |-> p, cr3 |-> p,   intf |-> intf, segs |-> UserSegs]

SaveContext(p) ==
    /\ frame' = [frame EXCEPT ![p] = Context(p)]
    /\ stack_ptr' = [stack_ptr EXCEPT ![p] = p]
    /\ next' = [next EXCEPT ![p] = Null]

MainGoes(from, to) ==
    /\ At(Main, from)
    /\ Goto(Main, to)
    /\ UNCHANGED <<cpuVars, intf, irqVars, first_round, esp0, irr, isr,
                   vga_mutex, faultVars>>

SchedInit ==
    /\ MainGoes("sched_init", "create")
    /\ handlers' = handlers \cup {Timer}
    /\ SaveContext(Parent)
    /\ current_process' = Parent
    /\ UNCHANGED <<making, imr>>

Uncreated == {u \in Users : stack_ptr[u] = Null}

\* process_init for a user process, up to the message of proc_allocate_pagedir.
Create(u) ==
    /\ u \in Uncreated
    /\ OnlyPc(Main, "create", "announce")
    /\ making' = u
    /\ UNCHANGED <<intf, handlers, vga_mutex>>

FinishInit ==
    /\ MainGoes("announced", "append")
    /\ SaveContext(making)
    /\ UNCHANGED <<making, current_process, handlers, imr>>

InList == ({Parent} \cup {next[p] : p \in Procs}) \ {Null}
LastInList == CHOOSE p \in InList : next[p] = Null

\* Mutant: every process is put right after the parent.
AppendAtHead ==
    /\ MainGoes("append", "create")
    /\ next' = [next EXCEPT ![Parent] = making]
    /\ UNCHANGED <<making, frame, stack_ptr, current_process, handlers, imr>>

\* sched_append_process.
Append ==
    /\ MainGoes("append", "create")
    /\ next' = [next EXCEPT ![LastInList] = making, ![making] = Null]
    /\ UNCHANGED <<making, frame, stack_ptr, current_process, handlers, imr>>

\* pic_clear_mask(0), when every process has been appended.
Unmask ==
    /\ MainGoes("create", "hlt")
    /\ Uncreated = {}
    /\ imr' = FALSE
    /\ UNCHANGED <<making, frame, stack_ptr, next, current_process, handlers>>

MainStep ==
    \/ Sti \/ SyscallInit \/ SchedInit
    \/ \E u \in Users : Create(u)
    \/ LockVga(Main, "announce", "announcing")
    \/ UnlockVga(Main, "announcing", "announced")
    \/ FinishInit \/ Append \/ Unmask

\* parent_sleep prints once and halts.
ParentStep ==
    \/ LockVga(Parent, "start", "printing")
    \/ UnlockVga(Parent, "printing", "hlt")
-----------------------------------------------------------------------------
(* Interrupts.                                                             *)

\* The stack the CPU pushes on: from ring 3, the one the TSS names; within a
\* handler, the one its context is on.
InterruptStack ==
    CASE Ring = 3                 -> esp0
      [] Ring = 0 /\ hpc = "none" -> running
      [] Ring = 0 /\ hpc # "none" -> ctx

\* What interrupt_handlers holds for a vector.
Routine(n) ==
    IF n \notin handlers THEN "panic"
    ELSE CASE n = Timer      -> "timer_handler"
           [] n = Syscall    -> "syscall_handler"
           [] n = Protection -> "panic"
           [] n = PageFault  -> "page_fault_handler"

\* The CPU, the stub of the vector and interrupt_common_stub save the context;
\* interrupt_handler calls the routine registered, or panics, as gpe_handler
\* does.
Enter(n) ==
    /\ frame' = [frame EXCEPT ![InterruptStack] =
                    [of |-> running, cr3 |-> cr3, intf |-> intf, segs |-> segs]]
    /\ ctx' = InterruptStack
    /\ vector' = n
    /\ intf' = FALSE
    /\ segs' = [cs |-> Selector(Gate(n).cs, Gdt[Gate(n).cs].dpl),
                ds |-> KernelSegs.ds]
    /\ hpc' = Routine(n)
    /\ UNCHANGED <<running, cr3, making, stack_ptr, next, current_process,
                   first_round, esp0, handlers, imr, vga_mutex>>

\* The line is edge triggered: a tick is kept even while masked.
Tick ==
    /\ ~irr
    /\ irr' = TRUE
    /\ UNCHANGED <<cpuVars, intf, irqVars, pc, making, procVars, handlers, isr,
                   imr, vga_mutex, faultVars>>

TimerInterrupt ==
    /\ Deliverable
    /\ Enter(Timer)
    /\ irr' = FALSE
    /\ isr' = TRUE
    /\ UNCHANGED <<pc, faultVars>>

\* test_user: int $0x80, then it loops for good.  A gate that is closed to the
\* ring of its caller is a protection violation.
SyscallInterrupt(u) ==
    /\ At(u, "start")
    /\ Enter(IF Gate(Syscall).dpl >= Ring THEN Syscall ELSE Protection)
    /\ Goto(u, "loop")
    /\ UNCHANGED <<irr, isr, faultVars>>

\* What a faulty process does instead of its own code: it uses an address that
\* is not mapped, in its own half or in the kernel's, or an instruction that is
\* not allowed in ring 3.
UserFault(u) ==
    /\ running = u /\ hpc = "none" /\ ~Deliverable
    /\ fault = "none"
    /\ \E kind \in {"user", "kernel", "privileged"} :
        /\ Enter(IF kind = "privileged" THEN Protection ELSE PageFault)
        /\ cause' = kind /\ fault' = kind
    /\ UNCHANGED <<pc, irr, isr>>

\* main does not test what heap_alloc returns, and process_init writes to page
\* 0, which the kernel's directory does not map.
MainFault ==
    /\ At(Main, "create") /\ Uncreated # {}
    /\ fault = "none"
    /\ Enter(PageFault)
    /\ cause' = "null" /\ fault' = "null"
    /\ UNCHANGED <<pc, irr, isr>>

Faults ==
    \/ \E u \in Faulty \cap Users : UserFault(u)
    \/ Main \in Faulty /\ MainFault
-----------------------------------------------------------------------------
(* Handlers.                                                               *)

\* Mutant: the walk goes back to the parent one process too soon.
PickNextShort ==
    IF next[current_process] # Null /\ next[next[current_process]] # Null
    THEN next[current_process] ELSE Parent

\* shed_pick_next.
PickNext ==
    IF next[current_process] # Null THEN next[current_process] ELSE Parent

\* Mutant: the TSS is told the first stack only.
SetStack0Once(p) == IF p = Parent \/ esp0 # Null THEN esp0 ELSE p

\* timer_handler tells the TSS the stack of a user process.
SetStack0(p) == IF p = Parent THEN esp0 ELSE p

InHandler(from, to) ==
    /\ hpc = from
    /\ hpc' = to
    /\ UNCHANGED <<cpuVars, intf, vector, pc, making, handlers, irr, imr, fault>>

\* The first tick abandons main for the parent's prepared context.
FirstRound ==
    /\ InHandler("timer_handler", "eoi")
    /\ first_round
    /\ first_round' = FALSE
    /\ current_process' = Parent
    /\ ctx' = stack_ptr[Parent]
    /\ UNCHANGED <<frame, stack_ptr, next, esp0, isr, vga_mutex, cause>>

\* The others save the context of current_process and resume its successor.
Switch ==
    /\ InHandler("timer_handler", "eoi")
    /\ ~first_round
    /\ LET q == PickNext
           saved == [stack_ptr EXCEPT ![current_process] = ctx]
       IN  /\ stack_ptr' = saved
           /\ current_process' = q
           /\ esp0' = SetStack0(q)
           /\ ctx' = saved[q]
    /\ UNCHANGED <<frame, next, first_round, isr, vga_mutex, cause>>

\* vga_printf in a handler: a lock that is not free is spun on, with
\* interrupts off.
HandlerLocks(from, to) ==
    /\ InHandler(from, to)
    /\ vga_mutex = 0
    /\ vga_mutex' = 1
    /\ UNCHANGED <<ctx, procVars, isr, cause>>

\* Mutant: vga_printf returns with the lock held.
HandlerLeavesLocked(from, to) ==
    InHandler(from, to) /\ UNCHANGED <<ctx, procVars, isr, vga_mutex, cause>>

HandlerUnlocks(from, to) ==
    /\ InHandler(from, to)
    /\ vga_mutex = 1
    /\ vga_mutex' = 0
    /\ UNCHANGED <<ctx, procVars, isr, cause>>

FaultHandlerGoes(from, to) ==
    InHandler(from, to) /\ UNCHANGED <<ctx, procVars, isr, vga_mutex, cause>>

\* page_fault_handler reads the page directory of current_process.  The parent
\* has none, and the null pointer leads through tables paging_init has given
\* back: whether it can be read depends on what is in them by now.
ReadDirectory ==
    \/ FaultHandlerGoes("page_fault_handler", "print_pde")
    \/ current_process = Parent /\ FaultHandlerGoes("page_fault_handler", "refaulting")

\* Mutant: a page table that is not in the list is never searched for.
SearchTableLowerHalf ==
    FaultHandlerGoes("printed_pde", "panic")

\* print_pde looks the page table up in the process's list.  The kernel's are
\* not in it, and the null pointer it then follows is a fault of its own; it
\* may be one for the parent, whose list is empty.
SearchTable ==
    \/ cause # "kernel" /\ FaultHandlerGoes("printed_pde", "panic")
    \/ current_process = Parent /\ FaultHandlerGoes("printed_pde", "refaulting")
    \/ /\ cause = "kernel"
       /\ hpc = "printed_pde"
       /\ Enter(PageFault)
       /\ cause' = "null"
       /\ UNCHANGED <<pc, irr, isr, fault>>

\* irq_handler sends EOI to the master PIC after every handler, the syscall's
\* too: whatever is in service there is acknowledged.
Eoi ==
    /\ InHandler("eoi", "iret")
    /\ isr' = FALSE
    /\ UNCHANGED <<ctx, procVars, vga_mutex, cause>>

\* The tail of interrupt_common_stub pops the frame at ctx.
Iret ==
    /\ hpc = "iret"
    /\ running' = frame[ctx].of
    /\ cr3' = frame[ctx].cr3
    /\ intf' = frame[ctx].intf
    /\ segs' = frame[ctx].segs
    /\ hpc' = "none" /\ vector' = Null /\ ctx' = Null
    /\ UNCHANGED <<pc, making, procVars, handlers, picVars, vga_mutex, faultVars>>

\* syscall_handler prints two lines, page_fault_handler the entries (here as
\* one), and panic its message before it halts with interrupts off.
HandlerStep ==
    \/ TimerInterrupt \/ FirstRound \/ Switch
    \/ HandlerLocks("syscall_handler", "print1")
    \/ HandlerUnlocks("print1", "printed1")
    \/ HandlerLocks("printed1", "print2")
    \/ HandlerUnlocks("print2", "eoi")
    \/ ReadDirectory
    \/ HandlerLocks("print_pde", "printing_pde")
    \/ HandlerUnlocks("printing_pde", "printed_pde")
    \/ SearchTable
    \/ HandlerLocks("panic", "panicking")
    \/ HandlerUnlocks("panicking", "hlt")
    \/ Eoi \/ Iret

Next ==
    \/ MainStep \/ ParentStep
    \/ \E u \in Users : SyscallInterrupt(u)
    \/ Faults
    \/ HandlerStep
    \/ Tick

Spec == Init /\ [][Next]_vars

\* Ticks are 55 ms apart: a thread resumed again and again is not interrupted
\* every time before it has executed anything.
TicksAreSparse ==
    \A t \in Threads :
        []<>(running = t /\ hpc = "none")
            => []<>(running = t /\ hpc = "none" /\ ~Deliverable)

\* The timer keeps ticking, the CPU keeps executing the handler it is in, and a
\* thread that can execute again and again, between interrupts, does so; no
\* thread has to fault.
FairSpec ==
    /\ Spec
    /\ TicksAreSparse
    /\ WF_vars(Tick)
    /\ WF_vars(HandlerStep)
    /\ SF_vars(MainStep)
    /\ SF_vars(ParentStep)
    /\ \A u \in Users : SF_vars(SyscallInterrupt(u))
-----------------------------------------------------------------------------
(* Properties.                                                             *)

HandlerLabels ==
    {"none", "timer_handler", "syscall_handler", "print1", "printed1", "print2",
     "page_fault_handler", "print_pde", "printing_pde", "printed_pde",
     "refaulting", "panic", "panicking", "hlt", "eoi", "iret"}
ThreadLabels == {"start", "syscall_init", "sched_init", "create", "announce",
                 "announcing", "announced", "append", "hlt", "printing", "loop"}
Frames == [of : Threads \cup {Null}, cr3 : Users \cup {Main, Null},
           intf : BOOLEAN, segs : {KernelSegs, UserSegs}]
Causes == {"none", "user", "kernel", "privileged", "null"}

TypeOK ==
    /\ running \in Threads /\ cr3 \in Users \cup {Main}
    /\ segs \in {KernelSegs, UserSegs} /\ intf \in BOOLEAN
    /\ hpc \in HandlerLabels
    /\ vector \in {Timer, Syscall, Protection, PageFault, Null}
    /\ ctx \in Threads \cup {Null}
    /\ pc \in [Threads -> ThreadLabels] /\ making \in Users \cup {Null}
    /\ frame \in [Threads -> Frames]
    /\ stack_ptr \in [Procs -> Threads \cup {Null}]
    /\ next \in [Procs -> Procs \cup {Null}]
    /\ current_process \in Procs \cup {Null}
    /\ first_round \in BOOLEAN /\ esp0 \in Users \cup {Null}
    /\ handlers \subseteq {Timer, Syscall, Protection, PageFault}
    /\ irr \in BOOLEAN /\ isr \in BOOLEAN /\ imr \in BOOLEAN
    /\ vga_mutex \in {0, 1}
    /\ cause \in Causes /\ fault \in Causes

AddressSpace(p) == IF p \in Users THEN p ELSE Main
SegsOf(p) == IF p \in Users THEN UserSegs ELSE KernelSegs

\* The context of every created process that is not running is intact on its
\* own stack: no interrupt or fault taken on behalf of another has overwritten
\* it.
SavedContextsIntact ==
    \A p \in Procs \ {running} : stack_ptr[p] # Null =>
        /\ stack_ptr[p] = p
        /\ frame[p] = [of |-> p, cr3 |-> AddressSpace(p), intf |-> TRUE,
                       segs |-> SegsOf(p)]

\* After the first switch the CPU runs current_process, in its address space
\* and its ring, on segments of that ring; a user process runs with the TSS
\* naming its own kernel stack.
RunsCurrentProcess ==
    hpc = "none" /\ ~first_round =>
        /\ running = current_process
        /\ cr3 = AddressSpace(running)
        /\ Ring = 3 <=> running \in Users
        /\ Gdt[segs.cs.index] = [type |-> "code", dpl |-> Ring]
        /\ Gdt[segs.ds.index] = [type |-> "data", dpl |-> Ring]
        /\ Ring = 3 => esp0 = running

\* By the time the first tick abandons main for good, main has nothing left to
\* do: every process is made and in the list, and main holds no lock.
MainIsDone ==
    ~first_round =>
        /\ pc[Main] = "hlt"
        /\ InList = Procs

\* A handler spins with interrupts off on a lock whose holder cannot run.
Wedged ==
    hpc \in {"syscall_handler", "printed1", "print_pde", "panic"} /\ vga_mutex = 1

\* A handler waits for its first line only when the parent was preempted while
\* printing, and never for a later one: nobody runs in between.
WaitsOnlyForPreempted ==
    Wedged =>
        /\ pc[Parent] = "printing"
        /\ hpc # "printed1"
        /\ hpc = "panic" => vector = Protection

Spinning == <>[]Wedged
Faulted == <>(fault # "none")

\* The round robin is fair: unless the kernel wedges or a process faults, every
\* process runs again and again.
EveryProcessRuns ==
    Spinning \/ Faulted \/ \A p \in Procs : []<>(running = p /\ hpc = "none")

\* A fault ends in a message and a halt, unless the parent was preempted while
\* printing, or no process but the parent is there to blame; but the address
\* shown for a fault in the kernel's half is that of the handler's own fault.
FaultsAreReported ==
    fault # "none" ~>
        \/ Wedged /\ pc[Parent] = "printing"
        \/ fault = "null" /\ hpc = "refaulting"
        \/ hpc = "hlt" /\ cause = IF fault = "kernel" THEN "null" ELSE fault
=============================================================================
