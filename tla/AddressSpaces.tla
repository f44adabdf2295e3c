--------------------------- MODULE AddressSpaces ---------------------------
(***************************************************************************)
(* What src/src/proc/process.c promises of address spaces, with no         *)
(* directories, tables or lists: a process has a partial function from     *)
(* addresses to frames, which grows by one address at a time and never     *)
(* changes what it has; the frame behind a new address, or taken for a     *)
(* page table, is one that nobody has been given before.  Nothing is       *)
(* promised once the kernel has panicked.                                  *)
(***************************************************************************)
CONSTANTS Procs, Frames, Addresses

VARIABLES
    space,     \* space[p]: the frame behind each address p has
    tables,    \* tables[p]: the frames that hold its page tables
    taken,     \* every frame in use, by a process or by the kernel
    panicked

vars == <<space, tables, taken, panicked>>

Empty == [a \in {} |-> a]

Init ==
    /\ space = [p \in Procs |-> Empty]
    /\ tables = [p \in Procs |-> {}]
    /\ taken \subseteq Frames
    /\ panicked = FALSE

Fresh(f) == f \notin taken /\ taken' = taken \cup {f}

\* The address space s and one address more.
Extended(s, a, f) ==
    [b \in DOMAIN s \cup {a} |-> IF b = a THEN f ELSE s[b]]

\* A process is given a page.
Map(p, a, f) ==
    /\ Fresh(f)
    /\ a \notin DOMAIN space[p]
    /\ space' = [space EXCEPT ![p] = Extended(space[p], a, f)]
    /\ UNCHANGED <<tables, panicked>>

\* A page table more, which maps nothing yet.
AddTable(p, f) ==
    /\ Fresh(f)
    /\ tables' = [tables EXCEPT ![p] = @ \cup {f}]
    /\ UNCHANGED <<space, panicked>>

\* The kernel takes a frame for itself; it gives none back.
TakeFrame(f) == Fresh(f) /\ UNCHANGED <<space, tables, panicked>>

Panic == ~panicked /\ panicked'

Next ==
    \/ \E p \in Procs, a \in Addresses, f \in Frames : Map(p, a, f)
    \/ \E p \in Procs, f \in Frames : AddTable(p, f)
    \/ \E f \in Frames : TakeFrame(f)
    \/ Panic

Spec == Init /\ [][~panicked /\ Next]_vars
=============================================================================
