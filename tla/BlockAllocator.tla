--------------------------- MODULE BlockAllocator ---------------------------
(***************************************************************************)
(* What the physical allocator of src/src/mem/mem.c promises its callers,  *)
(* with no bitset, no lock and no intermediate steps: a block has at most  *)
(* one owner, and a caller is turned away only when nothing of what it     *)
(* asked for is to be had.                                                 *)
(***************************************************************************)
EXTENDS Naturals

CONSTANTS
    Callers,  \* the threads that call the allocator
    Blocks,   \* the blocks a caller may name
    Managed   \* those of them the allocator hands out

VARIABLES
    owned,    \* owned[c]: the blocks c was given and has not freed
    asked     \* asked[c]: the blocks any one of which would do; {} when idle

vars == <<owned, asked>>

Available == Managed \ UNION {owned[c] : c \in Callers}

Init ==
    /\ owned = [c \in Callers |-> {}]
    /\ asked = [c \in Callers |-> {}]

Ask(c, S) ==
    /\ asked[c] = {}
    /\ asked' = [asked EXCEPT ![c] = S]
    /\ UNCHANGED owned

Allocate(c, b) ==
    /\ b \in asked[c] \cap Available
    /\ owned' = [owned EXCEPT ![c] = @ \cup {b}]
    /\ asked' = [asked EXCEPT ![c] = {}]

Refuse(c) ==
    /\ asked[c] # {}
    /\ asked[c] \cap Available = {}
    /\ asked' = [asked EXCEPT ![c] = {}]
    /\ UNCHANGED owned

Free(c, b) ==
    /\ b \in owned[c]
    /\ owned' = [owned EXCEPT ![c] = @ \ {b}]
    /\ UNCHANGED asked

Next ==
    \E c \in Callers :
        \/ \E S \in {Blocks} \cup {{b} : b \in Blocks} : Ask(c, S)
        \/ \E b \in Blocks : Allocate(c, b) \/ Free(c, b)
        \/ Refuse(c)

Spec == Init /\ [][Next]_vars
=============================================================================
