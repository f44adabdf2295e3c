----------------------------- MODULE Interrupts -----------------------------
(***************************************************************************)
(* From a device's request to its handler: pic_remap, pic_clear_mask,      *)
(* pic_spurious and pic_write_eoi of src/src/drivers/pic.c and pic.h, the  *)
(* dispatch of src/src/i386/interrupt.c, and the two 8259 controllers they *)
(* program (external, as the code uses them).  boot.c lets the timer's     *)
(* line through; here the kernel lets any of Lines through, each after it  *)
(* has registered a handler for it, as boot.c does.  What the handler of   *)
(* the timer does is in Sched.                                             *)
(***************************************************************************)
EXTENDS Integers, Sequences, FiniteSets, FiniteSetsExt

CONSTANTS
    Lines,       \* interrupt lines, 0 to 15, with a device
    Served,      \* those the kernel registers a handler for and unmasks
    Exceptions,  \* exceptions that may occur
    Called,      \* the vectors user processes call with int
    MaxRaises    \* bound: requests made

Cascade == 2
Syscall == 128
Protection == 13

ASSUME InterruptsAssumption ==
    /\ Lines \subseteq (0..15) \ {Cascade} /\ Served \subseteq Lines
    /\ Exceptions \subseteq 0..31 /\ Called \subseteq 0..255
    /\ MaxRaises \in Nat

VARIABLES
    chip,      \* chip[c]: what controller c has been programmed with
    irr, isr,  \* irr[c], isr[c]: inputs requested, and in service
    intf,      \* eflags.if of what is interrupted
    booted,    \* the steps of boot that have been taken
    handlers,  \* interrupt_handlers: the vectors with a handler
    hpc,       \* where the interrupt is, "none" when there is none
    vector,    \* its number
    owed,      \* history: owed[l]: requests neither withdrawn nor handled
    raises     \* history: requests made

kernelVars == <<chip, booted, handlers>>
vars == <<kernelVars, irr, isr, intf, hpc, vector, owed, raises>>

Chips == {"master", "slave"}
ChipOf(l) == IF l >= 8 THEN "slave" ELSE "master"

\* The BIOS leaves the controllers at vectors 8 and 112.
Init ==
    /\ chip = [c \in Chips |-> [expects |-> "ready", cascade |-> 0, imr |-> {},
                                base |-> IF c = "master" THEN 8 ELSE 112]]
    /\ irr = [c \in Chips |-> {}] /\ isr = [c \in Chips |-> {}]
    /\ intf = FALSE
    /\ booted = 0
    /\ handlers = {}
    /\ hpc = "none" /\ vector = 0
    /\ owed = [l \in Lines |-> 0] /\ raises = 0
-----------------------------------------------------------------------------
(* The controllers (external).                                             *)

Bits(v) == {b \in 0..7 : (v \div 2^b) % 2 = 1}

\* A byte written to the data port: initialisation words in turn, or the mask.
Data(ch, v) ==
    CASE ch.expects = "icw2"  -> [ch EXCEPT !.base = v, !.expects = "icw3"]
      [] ch.expects = "icw3"  -> [ch EXCEPT !.cascade = v, !.expects = "icw4"]
      [] ch.expects = "icw4"  -> [ch EXCEPT !.expects = "ready"]
      [] ch.expects = "ready" -> [ch EXCEPT !.imr = Bits(v)]

\* The command that starts the initialisation; the mask is cleared.
Restart(ch) == [ch EXCEPT !.expects = "icw2", !.imr = {}]

\* Inputs that may be served: not masked, and before all in service.
Eligible(c, requests) ==
    {b \in requests \ chip[c].imr : \A s \in isr[c] : b < s}

SlaveAsks ==
    /\ chip["master"].cascade = 4 /\ chip["slave"].cascade = 2
    /\ Eligible("slave", irr["slave"]) # {}

Asked(c) ==
    Eligible(c, irr[c] \cup (IF c = "master" /\ SlaveAsks THEN {Cascade} ELSE {}))

\* End of interrupt: the first of those in service is done.
Ended(s) == IF s = {} THEN {} ELSE s \ {Min(s)}
-----------------------------------------------------------------------------
(* The kernel outside interrupts.                                          *)

KernelStep == hpc = "none" /\ UNCHANGED <<irr, isr, hpc, vector, owed, raises>>

\* pic_remap, up to its call of pic_clear_mask.
RemapWrites ==
    << <<"master", "cmd", 17>>, <<"slave", "cmd", 17>>,
       <<"master", "data", 32>>, <<"slave", "data", 40>>,
       <<"master", "data", 4>>, <<"slave", "data", 2>>,
       <<"master", "data", 1>>, <<"slave", "data", 1>>,
       <<"master", "data", 255>>, <<"slave", "data", 255>> >>

RemapWrite ==
    /\ KernelStep
    /\ booted < Len(RemapWrites)
    /\ booted' = booted + 1
    /\ LET w == RemapWrites[booted + 1] IN
        chip' = [chip EXCEPT ![w[1]] =
                    IF w[2] = "cmd" THEN Restart(@) ELSE Data(@, w[3])]
    /\ UNCHANGED <<intf, handlers>>

Remapped == booted >= Len(RemapWrites)
TableLoaded == booted >= Len(RemapWrites) + 2

\* pic_clear_mask.
ClearMask(l) ==
    LET c == IF l >= 8 THEN "slave" ELSE "master" IN
    chip' = [chip EXCEPT ![c].imr = @ \ {l % 8}]

UnmaskCascade ==
    /\ KernelStep
    /\ booted = Len(RemapWrites)
    /\ booted' = booted + 1
    /\ ClearMask(Cascade)
    /\ UNCHANGED <<intf, handlers>>

\* interrupts_init_isrs: a gate for every vector, no handler for any.
InitIsrs ==
    /\ KernelStep
    /\ booted = Len(RemapWrites) + 1
    /\ booted' = booted + 1
    /\ handlers' = {}
    /\ UNCHANGED <<intf, chip>>

\* interrupt_handler_register.
Register(n) ==
    /\ KernelStep
    /\ TableLoaded
    /\ handlers' = handlers \cup {n}
    /\ UNCHANGED <<intf, chip, booted>>

\* enable_interrupts.
Sti ==
    /\ KernelStep
    /\ TableLoaded /\ ~intf
    /\ intf' = TRUE
    /\ UNCHANGED kernelVars

\* As in main, only when interrupts are enabled.
Unmask(l) ==
    /\ KernelStep
    /\ intf /\ 32 + l \in handlers
    /\ ClearMask(l)
    /\ UNCHANGED <<intf, booted, handlers>>

MainStep ==
    \/ RemapWrite \/ UnmaskCascade \/ InitIsrs \/ Sti
    \/ \E n \in {32 + l : l \in Served} \cup {Syscall} : n \notin handlers /\ Register(n)
    \/ \E l \in Served : l % 8 \in chip[ChipOf(l)].imr /\ Unmask(l)
-----------------------------------------------------------------------------
(* Devices (external).  A request that is withdrawn too late is spurious.  *)

Raise(l) ==
    /\ Remapped /\ raises < MaxRaises
    /\ l % 8 \notin irr[ChipOf(l)]
    /\ irr' = [irr EXCEPT ![ChipOf(l)] = @ \cup {l % 8}]
    /\ owed' = [owed EXCEPT ![l] = @ + 1]
    /\ raises' = raises + 1
    /\ UNCHANGED <<kernelVars, isr, intf, hpc, vector>>

Withdraw(l) ==
    /\ l % 8 \in irr[ChipOf(l)]
    /\ irr' = [irr EXCEPT ![ChipOf(l)] = @ \ {l % 8}]
    /\ owed' = [owed EXCEPT ![l] = @ - 1]
    /\ UNCHANGED <<kernelVars, isr, intf, hpc, vector, raises>>
-----------------------------------------------------------------------------
(* Interrupts.                                                             *)

InterruptStep == UNCHANGED <<kernelVars, owed, raises>>

\* The CPU is asked for an interrupt, and answers.
Accept ==
    /\ hpc = "none" /\ intf
    /\ Asked("master") # {}
    /\ hpc' = "master" /\ intf' = FALSE
    /\ InterruptStep /\ UNCHANGED <<irr, isr, vector>>

\* A controller that is answered serves its first input, or, when nothing is
\* asked any more, gives the vector of input 7 and serves nothing.
Serve(c) ==
    /\ hpc = c
    /\ IF Asked(c) = {}
       THEN /\ vector' = chip[c].base + 7
            /\ hpc' = "dispatch"
            /\ UNCHANGED <<irr, isr>>
       ELSE LET b == Min(Asked(c)) IN
            /\ isr' = [isr EXCEPT ![c] = @ \cup {b}]
            /\ irr' = [irr EXCEPT ![c] = @ \ {b}]
            /\ IF c = "master" /\ b = Cascade
               THEN hpc' = "slave" /\ UNCHANGED vector
               ELSE hpc' = "dispatch" /\ vector' = chip[c].base + b
    /\ InterruptStep /\ UNCHANGED intf

\* Mutant: every gate may be called from ring 3.
GateDplOpen(n) == 3

\* The ring that may call a gate of interrupts_init_isrs.
GateDpl(n) == IF n = Syscall THEN 3 ELSE 0

\* A user process executes int $n: a gate closed to ring 3 is a protection
\* violation.
IntInstruction(n) ==
    /\ hpc = "none" /\ intf /\ Syscall \in handlers
    /\ hpc' = "dispatch" /\ intf' = FALSE
    /\ vector' = IF GateDpl(n) >= 3 THEN n ELSE Protection
    /\ InterruptStep /\ UNCHANGED <<irr, isr>>

Fault(v) ==
    /\ hpc = "none" /\ TableLoaded
    /\ hpc' = "dispatch" /\ intf' = FALSE
    /\ vector' = v
    /\ InterruptStep /\ UNCHANGED <<irr, isr>>

idx == vector - 32

\* Mutant: what is in service is not read.
SpuriousUnread == idx \in {7, 15}

\* pic_spurious.
Spurious ==
    \/ idx = 7 /\ 7 \notin isr["master"]
    \/ idx = 15 /\ 7 \notin isr["slave"]

\* irq_handler: a spurious interrupt of the slave is acknowledged at the master.
IrqSpurious ==
    /\ hpc = "dispatch" /\ vector >= 32
    /\ Spurious
    /\ isr' = IF idx = 15 THEN [isr EXCEPT !["master"] = Ended(@)] ELSE isr
    /\ hpc' = "iret"
    /\ InterruptStep /\ UNCHANGED <<irr, intf, vector>>

\* irq_handler, isr_handler: no handler is a panic, and every handler
\* registered for an exception panics too.
Dispatch ==
    /\ hpc = "dispatch"
    /\ IF vector >= 32
       THEN ~Spurious /\ hpc' = IF vector \in handlers THEN "handler" ELSE "panic"
       ELSE hpc' = "panic"
    /\ InterruptStep /\ UNCHANGED <<irr, isr, intf, vector>>

RunHandler ==
    /\ hpc = "handler"
    /\ owed' = IF idx \in Lines THEN [owed EXCEPT ![idx] = @ - 1] ELSE owed
    /\ hpc' = "eoi"
    /\ UNCHANGED <<kernelVars, irr, isr, intf, vector, raises>>

\* Mutant: only the controller of the line is told.
EoiOne ==
    /\ hpc = "eoi"
    /\ LET c == IF idx > 8 THEN "slave" ELSE "master" IN
        isr' = [isr EXCEPT ![c] = Ended(@)]
    /\ hpc' = "iret"
    /\ InterruptStep /\ UNCHANGED <<irr, intf, vector>>

\* pic_write_eoi: line 8, the slave's first, is taken for the master's.
Eoi ==
    /\ hpc = "eoi"
    /\ isr' = [c \in Chips |->
                IF c = "master" \/ idx > 8 THEN Ended(isr[c]) ELSE isr[c]]
    /\ hpc' = "iret"
    /\ InterruptStep /\ UNCHANGED <<irr, intf, vector>>

\* What was interrupted had interrupts enabled.
Iret ==
    /\ hpc = "iret"
    /\ hpc' = "none" /\ intf' = TRUE
    /\ InterruptStep /\ UNCHANGED <<irr, isr, vector>>

CpuStep ==
    \/ Accept \/ \E c \in Chips : Serve(c)
    \/ IrqSpurious \/ Dispatch \/ RunHandler \/ Eoi \/ Iret

Next ==
    \/ MainStep
    \/ \E l \in Lines : Raise(l) \/ Withdraw(l)
    \/ \E n \in Called : IntInstruction(n)
    \/ \E v \in Exceptions : Fault(v)
    \/ CpuStep

\* The CPU goes on with the interrupt it is in, and looks for requests before
\* every instruction; nobody else need do anything.
Spec == Init /\ [][Next]_vars /\ WF_vars(CpuStep) /\ SF_vars(Accept)
-----------------------------------------------------------------------------
(* Properties.                                                             *)

\* A handler of a line runs only while its request is in service: no spurious
\* interrupt is, and no user process can call the line's vector itself.
HandlersServeTheirLine ==
    hpc = "handler" /\ vector # Syscall => idx % 8 \in isr[ChipOf(idx)]

\* No request is lost or handled twice: outside interrupts those not handled
\* are the ones still waiting at a controller.
RequestsAccountedFor ==
    hpc = "none" =>
        \A l \in Lines : owed[l] = IF l % 8 \in irr[ChipOf(l)] THEN 1 ELSE 0

\* What has been handled has been acknowledged, line 8 apart.
NothingStaysInService ==
    hpc = "none" => isr["master"] = {} /\ isr["slave"] \subseteq {0}

\* A request let through is served or withdrawn, unless the kernel has
\* panicked or line 8 is in the way.
RequestsAreServed ==
    \A l \in Served :
        (l % 8 \in irr[ChipOf(l)] /\ l % 8 \notin chip[ChipOf(l)].imr) ~>
            \/ l % 8 \notin irr[ChipOf(l)]
            \/ hpc = "panic"
            \/ l >= 8 /\ 0 \in isr["slave"]
=============================================================================
