---------------------------- MODULE SchedProofs -----------------------------
(***************************************************************************)
(* For any set of user processes, any of them faulty: the safety           *)
(* invariants of Sched.                                                    *)
(***************************************************************************)
EXTENDS Sched, TLAPS

\* The context of a thread as it must be when it is resumed.
Good(t) ==
    [of |-> t, cr3 |-> AddressSpace(t), intf |-> TRUE, segs |-> SegsOf(t)]

Booted == pc[Main] \notin {"start", "syscall_init", "sched_init"}
Made == {p \in Procs : stack_ptr[p] # Null}

\* Where a handler is that has not resumed anything yet, but will.
Serving == {"timer_handler", "syscall_handler", "print1", "printed1", "print2"}
Leaving == {"eoi", "iret"}
Printing == {"print1", "print2", "printing_pde", "panicking"}

\* The list: what has been made is in it, save the process main is at; it has
\* an end, and what is not in it points nowhere.
ListInv ==
    /\ \A p \in Procs : stack_ptr[p] \in {Null, p}
    /\ ~Booted => \A p \in Procs : next[p] = Null /\ stack_ptr[p] = Null
    /\ Booted => Made = IF pc[Main] = "append" THEN InList \cup {making}
                                               ELSE InList
    /\ \A p \in Procs \ InList : next[p] = Null
    /\ \E p \in InList : next[p] = Null
    /\ pc[Main] \in {"announce", "announcing", "announced", "append"} =>
           making \in Users \ InList
    /\ pc[Main] = "hlt" => InList = Procs

\* Boot goes on until the first tick, and the first tick waits for its end.
BootInv ==
    /\ first_round => /\ running = Main /\ pc[Parent] = "start"
                      /\ current_process \in {Null, Parent}
                      /\ hpc \notin Leaving
                      /\ hpc \notin Serving \ {"timer_handler"}
    /\ ~first_round => pc[Main] = "hlt" /\ current_process \in Procs
    /\ ~imr => pc[Main] = "hlt"
    /\ hpc # "none" => pc[Main] \in {"create", "hlt"}
    /\ hpc = "timer_handler" => pc[Main] = "hlt"
    /\ pc[Main] = "hlt" => handlers = {Timer, Syscall, Protection, PageFault}
    /\ {Protection, PageFault} \subseteq handlers
    /\ Syscall \in handlers \/ pc[Main] \in {"start", "syscall_init"}
    /\ Timer \in handlers \/ ~Booted

\* What the CPU holds outside handlers, and within them.
CpuInv ==
    /\ hpc = "none" => /\ cr3 = AddressSpace(running) /\ segs = SegsOf(running)
                       /\ intf <=> pc[Main] # "start"
    /\ hpc # "none" => segs = KernelSegs
    /\ ~first_round /\ hpc \notin Leaving => running = current_process
    /\ ~first_round /\ current_process \in Users => esp0 = current_process

\* The stack a handler is on, and the frame it will resume.
FrameInv ==
    /\ hpc # "none" /\ hpc \notin Leaving => ctx = running
    /\ hpc \in Serving => frame[running] = Good(running)
    /\ hpc \in Leaving => /\ ctx = current_process
                          /\ \A p \in Procs : frame[p] = Good(p)

\* Who has the screen.
PrintInv ==
    /\ pc[Main] = "announcing" => vga_mutex = 1
    /\ pc[Parent] = "printing" => vga_mutex = 1
    /\ hpc \in Printing => /\ vga_mutex = 1
                           /\ pc[Main] # "announcing" /\ pc[Parent] # "printing"
    /\ hpc \in {"printed1", "printed_pde"} => vga_mutex = 0
    /\ hpc = "panic" /\ vector # Protection => vga_mutex = 0
    /\ vga_mutex = 1 => \/ pc[Main] = "announcing" \/ pc[Parent] = "printing"
                        \/ hpc \in Printing

IInv ==
    /\ TypeOK /\ SavedContextsIntact
    /\ ListInv /\ BootInv /\ CpuInv /\ FrameInv /\ PrintInv

\* A context is that of a thread, in an address space and a ring there are.
LEMMA FrameType ==
    ASSUME NEW t \in Threads, NEW a \in Users \cup {Main}, NEW i \in BOOLEAN,
           NEW s \in {KernelSegs, UserSegs}
    PROVE  [of |-> t, cr3 |-> a, intf |-> i, segs |-> s] \in Frames
BY DEF Frames

\* main starts with no process, no list and the timer masked.
LEMMA InitIInv == Init => IInv
<1> SUFFICES ASSUME Init PROVE IInv
  OBVIOUS
<1> USE SchedAssumption DEF Init, Procs, Threads, Timer, Syscall, Protection,
   PageFault
<1>1. TypeOK
  <2>1. NoFrame \in Frames
    BY DEF NoFrame, Frames
  <2>2. /\ intf \in BOOLEAN /\ first_round \in BOOLEAN
        /\ irr \in BOOLEAN /\ isr \in BOOLEAN /\ imr \in BOOLEAN
    OBVIOUS
  <2> QED
    BY <2>1, <2>2 DEF TypeOK, HandlerLabels, ThreadLabels, Causes
<1>2. ListInv /\ SavedContextsIntact
  BY DEF ListInv, SavedContextsIntact, Booted, Made, InList
<1>3. BootInv /\ CpuInv /\ FrameInv /\ PrintInv
  BY DEF BootInv, CpuInv, FrameInv, PrintInv, Booted, Leaving, Serving,
     Printing,
     AddressSpace, SegsOf
<1> QED
  BY <1>1, <1>2, <1>3 DEF IInv

\* What process_init saves while main runs with interrupts on.
LEMMA ContextIsGood ==
    ASSUME IInv, hpc = "none", running = Main, pc[Main] # "start",
           NEW p \in Procs
    PROVE  Context(p) = Good(p)
BY SchedAssumption DEF IInv, TypeOK, CpuInv, Context, Good, AddressSpace,
   SegsOf,
   Procs, Threads

\* Whatever interrupts a thread finds the thread's own stack, in ring 0 or 3,
\* and leaves a context there that can be resumed.
LEMMA EnterSaves ==
    ASSUME IInv, hpc = "none",
           NEW n \in {Timer, Syscall, Protection, PageFault},
           Enter(n), pc[Main] # "start", running = Main => first_round
    PROVE  /\ ctx' = running
           /\ frame' = [frame EXCEPT ![running] = Good(running)]
           /\ segs' = KernelSegs
<1> USE SchedAssumption DEF IInv, TypeOK, CpuInv, Enter, Procs, Threads,
   KernelSegs, UserSegs,
        Selector
<1>1. Ring \in {0, 3} /\ (Ring = 3 <=> running \in Users)
  BY DEF Ring, SegsOf
<1>2. InterruptStack = running
  <2>1. CASE Ring = 3
    <3>1. esp0 = running
      BY <1>1, <2>1 DEF BootInv, Leaving
    <3> QED
      BY <2>1, <3>1 DEF InterruptStack
  <2>2. CASE Ring = 0
    BY <2>2 DEF InterruptStack
  <2> QED
    BY <1>1, <2>1, <2>2
<1>3. Good(running) =
          [of |-> running, cr3 |-> cr3, intf |-> intf, segs |-> segs]
  BY DEF Good
<1>4. segs' = KernelSegs
  BY DEF Gate, Gdt
<1> QED
  BY <1>2, <1>3, <1>4

\* A step of main: only it makes processes and extends the list.
LEMMA MainKeepsIInv == IInv /\ MainStep => IInv'
<1> SUFFICES ASSUME IInv, MainStep PROVE IInv'
  OBVIOUS
<1> USE SchedAssumption DEF IInv, TypeOK, SavedContextsIntact, ListInv, BootInv,
        CpuInv, FrameInv, PrintInv, HandlerLabels, ThreadLabels, Causes,
        Booted, Made, InList, Serving, Leaving, Printing, Procs, Threads, Goto,
        irqVars, procVars, picVars, faultVars, cpuVars
<1>1. CASE Sti
  BY <1>1 DEF Sti, OnlyPc, At, AddressSpace, SegsOf, Good
<1>2. CASE SyscallInit
  BY <1>2 DEF SyscallInit, OnlyPc, At, Timer, Syscall, Protection, PageFault
<1>3. CASE SchedInit
  <2>1. Context(Parent) = Good(Parent)
    BY <1>3, ContextIsGood DEF SchedInit, MainGoes, At
  <2>2. Good(Parent) \in Frames
    BY FrameType DEF Good, AddressSpace, SegsOf
  <2>3. SavedContextsIntact'
    BY <1>3, <2>1 DEF SchedInit, MainGoes, At, SaveContext, Good
  <2>4. TypeOK'
    BY <1>3, <2>1, <2>2 DEF SchedInit, MainGoes, At, SaveContext
  <2>5. (ListInv /\ BootInv)'
    BY <1>3 DEF SchedInit, MainGoes, At, SaveContext, Timer, Syscall,
       Protection, PageFault
  <2>6. (CpuInv /\ FrameInv /\ PrintInv)'
    BY <1>3 DEF SchedInit, MainGoes, At, SaveContext, AddressSpace, SegsOf
  <2> QED
    BY <2>3, <2>4, <2>5, <2>6
<1>4. ASSUME NEW u \in Users, Create(u) PROVE IInv'
  BY <1>4 DEF Create, OnlyPc, At, Uncreated
<1>5. CASE LockVga(Main, "announce", "announcing")
  BY <1>5 DEF LockVga, OnlyPc, At
<1>6. CASE UnlockVga(Main, "announcing", "announced")
  BY <1>6 DEF UnlockVga, OnlyPc, At
<1>7. CASE FinishInit
  <2>1. Context(making) = Good(making)
    BY <1>7, ContextIsGood DEF FinishInit, MainGoes, At
  <2>2. Good(making) \in Frames
    BY <1>7, FrameType DEF FinishInit, MainGoes, At, Good, AddressSpace, SegsOf
  <2>3. SavedContextsIntact'
    BY <1>7, <2>1 DEF FinishInit, MainGoes, At, SaveContext, Good
  <2>4. TypeOK'
    BY <1>7, <2>1, <2>2 DEF FinishInit, MainGoes, At, SaveContext
  <2>5. (ListInv /\ BootInv)'
    BY <1>7 DEF FinishInit, MainGoes, At, SaveContext
  <2>6. (CpuInv /\ FrameInv /\ PrintInv)'
    BY <1>7 DEF FinishInit, MainGoes, At, SaveContext, AddressSpace, SegsOf
  <2> QED
    BY <2>3, <2>4, <2>5, <2>6
<1>8. CASE Append
  <2> DEFINE l == LastInList
  <2>1. l \in InList /\ next[l] = Null
    BY <1>8 DEF LastInList
  <2>2. /\ next' = [next EXCEPT ![l] = making, ![making] = Null]
        /\ pc[Main] = "append" /\ pc' = [pc EXCEPT ![Main] = "create"]
        /\ UNCHANGED <<making, stack_ptr>>
        /\ making \in Users \ InList
    BY <1>8 DEF Append, MainGoes, At
  <2> HIDE DEF l
  <2>3. InList' = InList \cup {making}
    BY <2>1, <2>2
  <2>4. ListInv'
    BY <2>1, <2>2, <2>3
  <2>5. (TypeOK /\ SavedContextsIntact)'
    BY <1>8, <2>1, <2>2 DEF Append, MainGoes, At
  <2>6. (BootInv /\ CpuInv /\ FrameInv /\ PrintInv)'
    BY <1>8 DEF Append, MainGoes, At, AddressSpace, SegsOf
  <2> QED
    BY <2>4, <2>5, <2>6
<1>9. CASE Unmask
  <2>1. /\ imr' \in BOOLEAN
        /\ pc' = [pc EXCEPT ![Main] = "hlt"]
        /\ UNCHANGED <<cpuVars, intf, irqVars, making, procVars, handlers, irr,
                       isr,
                       vga_mutex, faultVars>>
    BY <1>9 DEF Unmask, MainGoes
  <2>2. TypeOK'
    BY <2>1
  <2>3. (SavedContextsIntact /\ ListInv /\ BootInv)'
    BY <1>9 DEF Unmask, MainGoes, At, Uncreated, Timer, Syscall, Protection,
       PageFault
  <2>4. (CpuInv /\ FrameInv /\ PrintInv)'
    BY <1>9 DEF Unmask, MainGoes, At, AddressSpace, SegsOf
  <2> QED
    BY <2>2, <2>3, <2>4
<1> QED
  BY <1>1, <1>2, <1>3, <1>4, <1>5, <1>6, <1>7, <1>8, <1>9 DEF MainStep


\* A step of the parent: it has the screen while it prints.
LEMMA ParentKeepsIInv == IInv /\ ParentStep => IInv'
<1> SUFFICES ASSUME IInv, ParentStep PROVE IInv'
  OBVIOUS
<1> USE SchedAssumption DEF IInv, TypeOK, SavedContextsIntact, ListInv, BootInv,
        CpuInv, FrameInv, PrintInv, HandlerLabels, ThreadLabels, Causes,
        Booted, Made, InList, Serving, Leaving, Printing, Procs, Threads, Goto,
        irqVars, procVars, picVars, faultVars, cpuVars
<1>1. CASE LockVga(Parent, "start", "printing")
  BY <1>1 DEF LockVga, OnlyPc, At
<1>2. CASE UnlockVga(Parent, "printing", "hlt")
  BY <1>2 DEF UnlockVga, OnlyPc, At
<1> QED
  BY <1>1, <1>2 DEF ParentStep

\* Any interrupt or fault taken outside handlers.
LEMMA EnterKeepsIInv ==
    ASSUME IInv, hpc = "none",
           NEW n \in {Timer, Syscall, Protection, PageFault},
           Enter(n), pc[Main] \in {"create", "hlt"},
           n = Timer => pc[Main] = "hlt",  n = Syscall => running \in Users,
           pc' \in [Threads -> ThreadLabels],
           pc'[Main] = pc[Main],  pc'[Parent] = pc[Parent],
           irr' \in BOOLEAN, isr' \in BOOLEAN,
           cause' \in Causes, fault' \in Causes
    PROVE  IInv'
<1> USE SchedAssumption DEF IInv, BootInv, Leaving
<1>1. running = Main <=> first_round
  BY DEF CpuInv, Procs
<1>2. /\ ctx' = running
      /\ frame' = [frame EXCEPT ![running] = Good(running)]
      /\ segs' = KernelSegs
  BY <1>1, EnterSaves
<1>3. /\ vector' = n /\ intf' \in BOOLEAN
      /\ UNCHANGED <<running, cr3, making, stack_ptr, next, current_process,
                     first_round, esp0, handlers, imr, vga_mutex>>
  BY DEF Enter
<1>4. hpc' = CASE n = Timer     -> "timer_handler"
               [] n = Syscall   -> "syscall_handler"
               [] n = Protection -> "panic"
               [] n = PageFault -> "page_fault_handler"
  BY <1>1, <1>3 DEF Enter, Routine, Booted
<1>5. Good(running) \in Frames
  BY FrameType DEF Good, AddressSpace, SegsOf, TypeOK, Threads, Procs
<1> USE <1>1, <1>2, <1>3, <1>4 DEF Timer, Syscall, Protection, PageFault,
   Procs, Threads
<1>6. TypeOK'
  BY <1>5 DEF TypeOK, HandlerLabels
<1>7. (SavedContextsIntact /\ ListInv)'
  BY DEF TypeOK, SavedContextsIntact, ListInv, Booted, Made, InList
<1>8. (BootInv /\ CpuInv)'
  BY DEF TypeOK, CpuInv, Booted, Serving
<1>9. (FrameInv /\ PrintInv)'
  BY DEF TypeOK, FrameInv, PrintInv, Serving, Printing
<1> QED
  BY <1>6, <1>7, <1>8, <1>9

\* The timer, int $0x80 and the faults that are followed are such interrupts.
LEMMA InterruptKeepsIInv ==
    IInv /\ (TimerInterrupt \/ (\E u \in Users : SyscallInterrupt(u)) \/ Faults)
        => IInv'
<1> SUFFICES ASSUME IInv, \/ TimerInterrupt
                          \/ \E u \in Users : SyscallInterrupt(u)
                          \/ Faults
             PROVE IInv'
  OBVIOUS
<1> USE SchedAssumption DEF Procs, Threads
<1>1. CASE TimerInterrupt
  <2>1. isr' \in BOOLEAN /\ irr' \in BOOLEAN
    BY <1>1 DEF TimerInterrupt
  <2>2. Enter(Timer) /\ UNCHANGED <<pc, cause, fault>> /\ hpc = "none" /\ ~imr
    BY <1>1 DEF TimerInterrupt, Deliverable, faultVars
  <2> QED
    BY <2>1, <2>2, EnterKeepsIInv DEF IInv, TypeOK, BootInv, Timer, Syscall,
       Protection, PageFault
<1>2. ASSUME NEW u \in Users, SyscallInterrupt(u) PROVE IInv'
  <2>1. /\ running = u /\ hpc = "none" /\ pc[Main] = "hlt"
        /\ pc' = [pc EXCEPT ![u] = "loop"]
        /\ UNCHANGED <<irr, isr, cause, fault>>
    BY <1>2 DEF SyscallInterrupt, At, Goto, faultVars, IInv, BootInv
  <2>2. Enter(Syscall)
    BY <1>2, <2>1 DEF SyscallInterrupt, Gate, Ring, UserSegs, Selector, IInv,
       CpuInv, SegsOf
  <2> QED
    BY <2>1, <2>2, EnterKeepsIInv DEF IInv, TypeOK, ThreadLabels
<1>3. ASSUME NEW u \in Users, UserFault(u) PROVE IInv'
  <2>1. /\ running = u /\ hpc = "none" /\ pc[Main] = "hlt"
        /\ UNCHANGED <<pc, irr, isr>>
    BY <1>3 DEF UserFault, IInv, BootInv
  <2>2. /\ cause' \in Causes /\ fault' \in Causes
        /\ Enter(Protection) \/ Enter(PageFault)
    BY <1>3 DEF UserFault, Causes
  <2> QED
    BY <2>1, <2>2, EnterKeepsIInv DEF IInv, TypeOK, Protection, PageFault,
       Timer, Syscall
<1>4. CASE MainFault
  <2>1. /\ hpc = "none" /\ pc[Main] = "create"
        /\ Enter(PageFault) /\ UNCHANGED <<pc, irr, isr>>
        /\ cause' \in Causes /\ fault' \in Causes
    BY <1>4 DEF MainFault, At, Causes
  <2> QED
    BY <2>1, EnterKeepsIInv DEF IInv, TypeOK, Protection, PageFault, Timer,
       Syscall
<1> QED
  BY <1>1, <1>2, <1>3, <1>4 DEF Faults

\* Once the timer runs, all contexts but the running one are on their stacks.
LEMMA OthersAreGood ==
    ASSUME IInv, pc[Main] = "hlt", frame[running] = Good(running)
    PROVE  \A p \in Procs : frame[p] = Good(p)
<1> SUFFICES ASSUME NEW p \in Procs, p # running PROVE frame[p] = Good(p)
  OBVIOUS
<1>1. Made = Procs
  BY DEF IInv, ListInv, Booted
<1> QED
  BY <1>1 DEF IInv, SavedContextsIntact, Made, Good

\* A step of a handler: timer_handler moves from one context to the next, the
\* rest return to where they came from, or halt.
LEMMA HandlerKeepsIInv == IInv /\ HandlerStep => IInv'
<1> SUFFICES ASSUME IInv, HandlerStep PROVE IInv'
  OBVIOUS
<1> USE SchedAssumption DEF IInv, TypeOK, SavedContextsIntact, ListInv, BootInv,
        CpuInv, FrameInv, PrintInv, HandlerLabels, ThreadLabels, Causes,
        Booted, Made, InList, Serving, Leaving, Printing, Procs, Threads, Goto,
        irqVars, procVars, picVars, faultVars, cpuVars
<1>1. CASE FirstRound
  <2>1. first_round' \in BOOLEAN /\ ~first_round'
    BY <1>1 DEF FirstRound
  <2>2. /\ hpc = "timer_handler" /\ hpc' = "eoi" /\ first_round
        /\ current_process' = Parent /\ ctx' = stack_ptr[Parent]
        /\ UNCHANGED <<running, cr3, segs, intf, vector, pc, making, handlers,
                       irr, imr,
                       fault, frame, stack_ptr, next, esp0, isr, vga_mutex,
                       cause>>
    BY <1>1 DEF FirstRound, InHandler
  <2>3. stack_ptr[Parent] = Parent /\ Made = Procs
    BY <2>2
  <2>4. TypeOK'
    BY <2>1, <2>2, <2>3
  <2>5. (SavedContextsIntact /\ ListInv /\ BootInv)'
    BY <2>1, <2>2
  <2>6. (CpuInv /\ FrameInv /\ PrintInv)'
    BY <2>1, <2>2, <2>3 DEF Good
  <2> QED
    BY <2>4, <2>5, <2>6
<1>2. CASE Switch
  <2>1. /\ hpc = "timer_handler" /\ hpc' = "eoi" /\ ~first_round
        /\ ctx = running /\ running = current_process
        /\ UNCHANGED <<running, cr3, segs, intf, vector, pc, making, handlers,
                       irr, imr,
                       fault, frame, next, first_round, isr, vga_mutex, cause>>
    BY <1>2 DEF Switch, InHandler
  <2>2. \A p \in Procs : stack_ptr[p] = p
    BY <2>1
  <2>3. stack_ptr' = stack_ptr
    BY <1>2, <2>1, <2>2 DEF Switch
  <2>4. PICK q \in Procs : /\ current_process' = q /\ ctx' = q
                           /\ esp0' = IF q = Parent THEN esp0 ELSE q
    BY <1>2, <2>1, <2>2, <2>3 DEF Switch, PickNext, SetStack0
  <2>5. \A p \in Procs : frame[p] = Good(p)
    BY <2>1, <2>2, OthersAreGood
  <2>6. TypeOK'
    BY <2>1, <2>3, <2>4
  <2>7. (SavedContextsIntact /\ ListInv /\ BootInv)'
    BY <2>1, <2>3, <2>4
  <2>8. (CpuInv /\ FrameInv /\ PrintInv)'
    BY <2>1, <2>4, <2>5
  <2> QED
    BY <2>6, <2>7, <2>8
<1>3. CASE HandlerLocks("syscall_handler", "print1")
  BY <1>3 DEF HandlerLocks, InHandler
<1>4. CASE HandlerUnlocks("print1", "printed1")
  BY <1>4 DEF HandlerUnlocks, InHandler
<1>5. CASE HandlerLocks("printed1", "print2")
  BY <1>5 DEF HandlerLocks, InHandler
<1>6. CASE HandlerUnlocks("print2", "eoi")
  <2>1. /\ hpc = "print2" /\ hpc' = "eoi" /\ ~first_round /\ vga_mutex' = 0
        /\ ctx = current_process /\ running = current_process
        /\ UNCHANGED <<running, cr3, segs, intf, vector, pc, making, handlers,
                       irr, imr,
                       fault, ctx, procVars, isr, cause>>
    BY <1>6 DEF HandlerUnlocks, InHandler
  <2>2. \A p \in Procs : frame[p] = Good(p)
    BY <2>1, OthersAreGood
  <2>3. (TypeOK /\ SavedContextsIntact /\ ListInv)'
    BY <2>1
  <2>4. (BootInv /\ CpuInv /\ FrameInv /\ PrintInv)'
    BY <2>1, <2>2
  <2> QED
    BY <2>3, <2>4
<1>7. CASE ReadDirectory
  BY <1>7 DEF ReadDirectory, FaultHandlerGoes, InHandler
<1>8. CASE HandlerLocks("print_pde", "printing_pde")
  BY <1>8 DEF HandlerLocks, InHandler
<1>9. CASE HandlerUnlocks("printing_pde", "printed_pde")
  BY <1>9 DEF HandlerUnlocks, InHandler
<1>10. CASE SearchTable
  <2>1. CASE \/ FaultHandlerGoes("printed_pde", "panic")
             \/ FaultHandlerGoes("printed_pde", "refaulting")
    BY <2>1 DEF FaultHandlerGoes, InHandler
  <2>2. CASE hpc = "printed_pde" /\ Enter(PageFault) /\ cause' = "null"
             /\ UNCHANGED <<pc, irr, isr, fault>>
    <3>1. InterruptStack = running
      BY <2>2 DEF InterruptStack, Ring, KernelSegs, Selector
    <3>2. PICK f \in Frames : frame' = [frame EXCEPT ![running] = f]
      BY <2>2, <3>1, FrameType DEF Enter, AddressSpace, SegsOf
    <3>3. /\ ctx' = running /\ hpc' = "page_fault_handler"
          /\ vector' = PageFault
          /\ segs' = KernelSegs
          /\ UNCHANGED <<running, cr3, making, stack_ptr, next, current_process,
                         first_round, esp0, handlers, imr, vga_mutex, pc, irr,
                         isr, fault>>
      BY <2>2, <3>1 DEF Enter, Routine, Gate, Gdt, Selector, KernelSegs, Timer,
         Syscall,
         Protection, PageFault
    <3>7. intf' \in BOOLEAN
      BY <2>2 DEF Enter
    <3>4. TypeOK'
      BY <2>2, <3>2, <3>3, <3>7
    <3>5. (SavedContextsIntact /\ ListInv /\ BootInv)'
      BY <2>2, <3>2, <3>3
    <3>6. (CpuInv /\ FrameInv /\ PrintInv)'
      BY <2>2, <3>2, <3>3
    <3> QED
      BY <3>4, <3>5, <3>6
  <2> QED
    BY <1>10, <2>1, <2>2 DEF SearchTable
<1>11. CASE HandlerLocks("panic", "panicking")
  BY <1>11 DEF HandlerLocks, InHandler
<1>12. CASE HandlerUnlocks("panicking", "hlt")
  BY <1>12 DEF HandlerUnlocks, InHandler
<1>13. CASE Eoi
  <2>1. /\ hpc = "eoi" /\ hpc' = "iret" /\ isr' \in BOOLEAN
        /\ UNCHANGED <<cpuVars, intf, vector, ctx, pc, making, procVars,
                       handlers, irr, imr,
                       vga_mutex, faultVars>>
    BY <1>13 DEF Eoi, InHandler
  <2> QED
    BY <2>1
<1>14. CASE Iret
  <2>1. /\ hpc = "iret" /\ ~first_round
        /\ ctx = current_process /\ frame[ctx] = Good(ctx)
    BY <1>14 DEF Iret
  <2>2. /\ running' = current_process /\ cr3' = AddressSpace(current_process)
        /\ intf' \in BOOLEAN /\ intf' /\ segs' = SegsOf(current_process)
        /\ hpc' = "none" /\ vector' = Null /\ ctx' = Null
        /\ UNCHANGED <<pc, making, procVars, handlers, picVars, vga_mutex,
                       faultVars>>
    BY <1>14, <2>1 DEF Iret, Good
  <2>3. TypeOK'
    BY <2>1, <2>2 DEF AddressSpace, SegsOf
  <2>4. (SavedContextsIntact /\ ListInv /\ BootInv)'
    BY <2>1, <2>2 DEF Good
  <2>5. (CpuInv /\ FrameInv /\ PrintInv)'
    BY <2>1, <2>2
  <2> QED
    BY <2>3, <2>4, <2>5
<1>15. CASE TimerInterrupt
  BY <1>15, InterruptKeepsIInv DEF IInv
<1> QED
  BY <1>1, <1>2, <1>3, <1>4, <1>5, <1>6, <1>7, <1>8, <1>9, <1>10, <1>11, <1>12,
     <1>13, <1>14, <1>15 DEF HandlerStep

\* The steps of Next, the tick, which only sets a bit, and stuttering.
LEMMA StepIInv == IInv /\ [Next]_vars => IInv'
<1> SUFFICES ASSUME IInv, [Next]_vars PROVE IInv'
  OBVIOUS
<1>1. CASE Tick
  BY <1>1 DEF Tick, IInv, TypeOK, SavedContextsIntact, ListInv, BootInv,
     CpuInv, FrameInv,
     PrintInv, Booted, Made, InList, irqVars, procVars, cpuVars, faultVars
<1>2. CASE UNCHANGED vars
  BY <1>2 DEF vars, IInv, TypeOK, SavedContextsIntact, ListInv, BootInv,
     CpuInv, FrameInv,
     PrintInv, Booted, Made, InList, irqVars, procVars, picVars, cpuVars,
     faultVars
<1> QED
  BY <1>1, <1>2, MainKeepsIInv, ParentKeepsIInv, InterruptKeepsIInv,
     HandlerKeepsIInv DEF Next

\* The inductive invariant is one.
LEMMA Invariance == Spec => []IInv
BY InitIInv, StepIInv, PTL DEF Spec

\* The scheduler's variables keep their types.
THEOREM TypeCorrect == Spec => []TypeOK
<1>1. IInv => TypeOK
  BY DEF IInv
<1> QED
  BY <1>1, Invariance, PTL

\* Whatever interrupts whom, a process that does not run has its context on its
\* own stack, complete, for the next switch to find.
THEOREM ContextsSurvive == Spec => []SavedContextsIntact
<1>1. IInv => SavedContextsIntact
  BY DEF IInv
<1> QED
  BY <1>1, Invariance, PTL

\* timer_handler's bookkeeping and the CPU agree: on the process, its address
\* space, its ring and the stack its next interrupt will use.
THEOREM CpuFollowsScheduler == Spec => []RunsCurrentProcess
<1>1. IInv => RunsCurrentProcess
  <2> SUFFICES ASSUME IInv, hpc = "none", ~first_round
               PROVE  /\ running = current_process
                      /\ cr3 = AddressSpace(running)
                      /\ Ring = 3 <=> running \in Users
                      /\ Gdt[segs.cs.index] = [type |-> "code", dpl |-> Ring]
                      /\ Gdt[segs.ds.index] = [type |-> "data", dpl |-> Ring]
                      /\ Ring = 3 => esp0 = running
    BY DEF RunsCurrentProcess
  <2>1. /\ running = current_process /\ cr3 = AddressSpace(running)
        /\ segs = SegsOf(running)
        /\ current_process \in Users => esp0 = current_process
    BY DEF IInv, CpuInv, Leaving
  <2> QED
    BY <2>1 DEF SegsOf, KernelSegs, UserSegs, Selector, Ring, Gdt
<1> QED
  BY <1>1, Invariance, PTL

\* The first tick finds main with nothing left to do, whenever it comes.
THEOREM NothingIsAbandoned == Spec => []MainIsDone
<1>1. IInv => MainIsDone
  BY DEF IInv, BootInv, ListInv, MainIsDone
<1> QED
  BY <1>1, Invariance, PTL

\* The one way for the kernel to hang on the screen is the parent's print.
THEOREM OnlyTheParentIsWaitedFor == Spec => []WaitsOnlyForPreempted
<1>1. IInv => WaitsOnlyForPreempted
  BY DEF IInv, BootInv, PrintInv, WaitsOnlyForPreempted, Wedged, Printing
<1> QED
  BY <1>1, Invariance, PTL
=============================================================================
