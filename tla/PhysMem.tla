------------------------------ MODULE PhysMem -------------------------------
(***************************************************************************)
(* The physical block allocator of src/src/mem/mem.c over the bitset of    *)
(* src/src/mem/bitset.c.  Callers run concurrently; a call takes           *)
(* phys_mutex, reads the bitset, updates it and unlocks, a step each.  An  *)
(* update is the load and the store of one 32-bit word of the array, two   *)
(* steps, so that an update made in between would be lost.                 *)
(***************************************************************************)
EXTENDS Naturals, FiniteSets

CONSTANTS
    Callers,      \* the threads that call the allocator
    MAX_PAGES,    \* number of bits scanned
    WordBits,     \* bits in a word of the array: 32 in the code
    TotalBlocks,  \* blocks of memory the machine has
    VgaBlock,     \* 0xb8000/BLOCK_SIZE
    KernelStart,  \* first and last block of the kernel's image: the loop of
    KernelStop    \*   physical_mem_init includes the block at kphysical_stop

\* What bitsset_init and physical_mem_init assert of the machine.
ASSUME PhysMemAssumption ==
    /\ {MAX_PAGES, TotalBlocks, VgaBlock, KernelStart, KernelStop} \subseteq Nat
    /\ WordBits \in Nat \ {0}
    /\ TotalBlocks < MAX_PAGES
    /\ VgaBlock < MAX_PAGES
    /\ 0 < KernelStart /\ KernelStart <= KernelStop /\ KernelStop < MAX_PAGES
    /\ {KernelStart - 1, KernelStop + 1} \subseteq 1..(TotalBlocks - 1)
    /\ VgaBlock \notin {KernelStart - 1, KernelStop + 1}

VARIABLES
    bitset,       \* the indices of the bits that are set
    phys_mutex,   \* phys_mutex.ass
    pc,           \* pc[c]: where c is in its call
    op,           \* op[c]: the function c is in, "none" outside a call
    block,        \* block[c]: block_index, or the index the scan stopped at
    word,         \* word[c]: the set bits of the word c has loaded
    answer,       \* answer[c]: the value c is about to return
    owned         \* history: the blocks c was given and has not freed

vars == <<bitset, phys_mutex, pc, op, block, word, answer, owned>>

Bits == 0..(MAX_PAGES - 1)
Blocks == Bits \ {0}
Refused == 0

\* physical_mem_init: beyond the end of memory, the null block, VGA, kernel.
Reserved == (TotalBlocks..(MAX_PAGES - 1)) \cup {0, VgaBlock}
                \cup (KernelStart..KernelStop)

Box(i) == {j \in Bits : j \div WordBits = i \div WordBits}

Init ==
    /\ bitset = Reserved
    /\ phys_mutex = 0
    /\ pc = [c \in Callers |-> "idle"]
    /\ op = [c \in Callers |-> "none"]
    /\ block = [c \in Callers |-> 0]
    /\ word = [c \in Callers |-> {}]
    /\ answer = [c \in Callers |-> Refused]
    /\ owned = [c \in Callers |-> {}]
-----------------------------------------------------------------------------
Goto(c, label) == pc' = [pc EXCEPT ![c] = label]

\* A caller names a block when the function takes one, and frees only what it
\* was given.
Call(c, f, b) ==
    /\ pc[c] = "idle"
    /\ \/ f \in {"alloc", "stats"} /\ b = 0
       \/ f \in {"specific", "query"} /\ b \in Blocks
       \/ f = "free" /\ b \in owned[c]
    /\ op' = [op EXCEPT ![c] = f]
    /\ block' = [block EXCEPT ![c] = b]
    /\ Goto(c, "lock")
    /\ UNCHANGED <<bitset, phys_mutex, word, answer, owned>>

\* Mutant: the lock is taken whether or not it is free.
LockAnyway(c) ==
    /\ pc[c] = "lock"
    /\ phys_mutex' = 1
    /\ Goto(c, "read")
    /\ UNCHANGED <<bitset, op, block, word, answer, owned>>

\* mutex_lock: the exchange succeeds; a failed attempt changes nothing.
Lock(c) ==
    /\ pc[c] = "lock"
    /\ phys_mutex = 0
    /\ phys_mutex' = 1
    /\ Goto(c, "read")
    /\ UNCHANGED <<bitset, op, block, word, answer, owned>>

\* mutex_unlock spins while the lock is not held; then the call returns.
Unlock(c) ==
    /\ pc[c] = "unlock"
    /\ phys_mutex = 1
    /\ phys_mutex' = 0
    /\ op' = [op EXCEPT ![c] = "none"]
    /\ block' = [block EXCEPT ![c] = 0]
    /\ word' = [word EXCEPT ![c] = {}]
    /\ answer' = [answer EXCEPT ![c] = Refused]
    /\ Goto(c, "idle")
    /\ UNCHANGED <<bitset, owned>>

\* The scan of bits 0..last and where it goes when none of them is clear.
ScanUpTo(c, last, full) ==
    LET clear == {i \in 0..last : i \notin bitset} IN
    /\ pc[c] = "read"
    /\ op[c] = "alloc"
    /\ IF clear = {}
       THEN /\ answer' = [answer EXCEPT ![c] = Refused]
            /\ Goto(c, full)
            /\ UNCHANGED block
       ELSE /\ block' = [block EXCEPT ![c] =
                    CHOOSE i \in clear : \A j \in clear : i <= j]
            /\ Goto(c, "load")
            /\ UNCHANGED answer
    /\ UNCHANGED <<bitset, phys_mutex, op, word, owned>>

\* Mutants: a scan one bit too far, one that stops a block short of the end of
\* memory, and one that returns without mutex_unlock when it finds nothing.
ScanPastEnd(c) == ScanUpTo(c, MAX_PAGES, "unlock")
ScanStopsShort(c) == ScanUpTo(c, TotalBlocks - 2, "unlock")
ScanLeavesLocked(c) == ScanUpTo(c, MAX_PAGES - 1, "idle")

\* physical_alloc_block: the first clear bit, if there is one.
Scan(c) == ScanUpTo(c, MAX_PAGES - 1, "unlock")

\* Mutant: the block is given whether or not it is in use.
GiveSpecific(c) ==
    /\ pc[c] = "read"
    /\ op[c] = "specific"
    /\ Goto(c, "load")
    /\ UNCHANGED <<bitset, phys_mutex, op, block, word, answer, owned>>

\* physical_alloc_block_specific: the block asked for, if its bit is clear.
CheckSpecific(c) ==
    /\ pc[c] = "read"
    /\ op[c] = "specific"
    /\ IF block[c] \in bitset
       THEN /\ answer' = [answer EXCEPT ![c] = Refused]
            /\ Goto(c, "unlock")
       ELSE /\ Goto(c, "load")
            /\ UNCHANGED answer
    /\ UNCHANGED <<bitset, phys_mutex, op, block, word, owned>>

\* physical_free_block: a clear bit fails the assertion, with the lock held.
CheckFree(c) ==
    /\ pc[c] = "read"
    /\ op[c] = "free"
    /\ Goto(c, IF block[c] \in bitset THEN "load" ELSE "panic")
    /\ UNCHANGED <<bitset, phys_mutex, op, block, word, answer, owned>>

\* block_is_not_free answers 1 or 0, mem_stats with the blocks in use.
Report(c) ==
    /\ pc[c] = "read"
    /\ op[c] \in {"query", "stats"}
    /\ answer' = [answer EXCEPT ![c] =
            IF op[c] = "stats" THEN Cardinality(bitset \cap 0..(TotalBlocks - 1))
            ELSE IF block[c] \in bitset THEN 1 ELSE 0]
    /\ Goto(c, "unlock")
    /\ UNCHANGED <<bitset, phys_mutex, op, block, word, owned>>

Load(c) ==
    /\ pc[c] = "load"
    /\ word' = [word EXCEPT ![c] = bitset \cap Box(block[c])]
    /\ Goto(c, "store")
    /\ UNCHANGED <<bitset, phys_mutex, op, block, answer, owned>>

\* bitset_set and bitset_clear: the other bits of the word are those loaded.
StoreSet(c) ==
    /\ pc[c] = "store"
    /\ op[c] \in {"alloc", "specific"}
    /\ bitset' = (bitset \ Box(block[c])) \cup word[c] \cup {block[c]}
    /\ answer' = [answer EXCEPT ![c] = block[c]]
    /\ owned' = [owned EXCEPT ![c] = @ \cup {block[c]}]
    /\ Goto(c, "unlock")
    /\ UNCHANGED <<phys_mutex, op, block, word>>

StoreClear(c) ==
    /\ pc[c] = "store"
    /\ op[c] = "free"
    /\ bitset' = (bitset \ Box(block[c])) \cup (word[c] \ {block[c]})
    /\ owned' = [owned EXCEPT ![c] = @ \ {block[c]}]
    /\ Goto(c, "unlock")
    /\ UNCHANGED <<phys_mutex, op, block, word, answer>>

Operations == {"alloc", "specific", "query", "free", "stats"}

\* Mutant: physical_free_block calls neither mutex_lock nor mutex_unlock.
FreeWithoutLock(c) ==
    \/ /\ op[c] = "free"
       /\ \/ pc[c] = "lock" /\ Goto(c, "read")
          \/ pc[c] = "unlock" /\ Goto(c, "idle")
       /\ UNCHANGED <<bitset, phys_mutex, op, block, word, answer, owned>>
    \/ op[c] # "free" /\ (Lock(c) \/ Unlock(c))
    \/ Scan(c) \/ CheckSpecific(c) \/ CheckFree(c) \/ Report(c)
    \/ Load(c) \/ StoreSet(c) \/ StoreClear(c)

InCall(c) ==
    \/ Lock(c) \/ Unlock(c)
    \/ Scan(c) \/ CheckSpecific(c) \/ CheckFree(c) \/ Report(c)
    \/ Load(c) \/ StoreSet(c) \/ StoreClear(c)

Next ==
    \E c \in Callers :
        \/ \E f \in Operations, b \in Bits : Call(c, f, b)
        \/ InCall(c)

Spec == Init /\ [][Next]_vars

\* A thread inside a call keeps being scheduled (fairness of the timer's round
\* robin).  Whether it ever wins the exchange in mutex_lock is not promised.
FairSpec == Spec /\ \A c \in Callers : WF_vars(InCall(c))
-----------------------------------------------------------------------------
(* Properties.                                                             *)

Labels == {"idle", "lock", "read", "load", "store", "unlock", "panic"}
Holding == {"read", "load", "store", "unlock", "panic"}

TypeOK ==
    /\ bitset \subseteq Bits
    /\ phys_mutex \in {0, 1}
    /\ pc \in [Callers -> Labels]
    /\ op \in [Callers -> Operations \cup {"none"}]
    /\ block \in [Callers -> Bits]
    /\ word \in [Callers -> SUBSET Bits]
    /\ answer \in [Callers -> Nat]
    /\ owned \in [Callers -> SUBSET Bits]

\* phys_mutex is 1 exactly while one caller, and only one, is between
\* mutex_lock and mutex_unlock.
MutualExclusion ==
    /\ \A c, d \in Callers : pc[c] \in Holding /\ pc[d] \in Holding => c = d
    /\ phys_mutex = 1 <=> \E c \in Callers : pc[c] \in Holding

AllOwned == UNION {owned[c] : c \in Callers}

\* The set bits are the reserved blocks and the blocks some caller owns: no
\* update of a shared word is lost, and nothing handed out looks free.
BitsMatchOwners == bitset = Reserved \cup AllOwned

\* physical_alloc_block and _specific never give one block to two callers, nor
\* one that physical_mem_init reserved.
ExclusiveOwners ==
    /\ \A c, d \in Callers : c # d => owned[c] \cap owned[d] = {}
    /\ AllOwned \cap Reserved = {}

\* A caller that frees what it was given never fails "block Double free
\* detected", whatever the others allocate, name and free meanwhile.
NoPanic == \A c \in Callers : pc[c] # "panic"

\* What block_is_not_free and mem_stats found is still so when they unlock:
\* no call of another thread is half done while they read.
ReportIsCurrent ==
    \A c \in Callers : pc[c] = "unlock" =>
        /\ op[c] = "query" =>
            (answer[c] = 1 <=> block[c] \in Reserved \cup AllOwned)
        /\ op[c] = "stats" => answer[c] =
            Cardinality((Reserved \cup AllOwned) \cap 0..(TotalBlocks - 1))

\* The refinement: a request is answered in one step, at the store of the
\* bitset word, or at the reading step that turns it down.
Pending(c) ==
    /\ pc[c] \in {"lock", "read", "load", "store"}
    /\ op[c] \in {"alloc", "specific"}

asked ==
    [c \in Callers |->
        IF ~Pending(c) THEN {}
        ELSE IF op[c] = "alloc" THEN Blocks ELSE {block[c]}]

Promise == INSTANCE BlockAllocator WITH Managed <- Bits \ Reserved

\* mem.c does what BlockAllocator promises.
ImplementsPromise == Promise!Spec

\* No path through a call keeps phys_mutex: every lock is followed by an unlock.
LockIsReleased == phys_mutex = 1 ~> phys_mutex = 0
=============================================================================
