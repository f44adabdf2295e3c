-------------------------------- MODULE Heap --------------------------------
(***************************************************************************)
(* The kernel heap of src/src/mem/heap.c: one arena of HEAP_SIZE bytes,    *)
(* tiled from its start by a doubly linked list of blocks.  Addresses are  *)
(* offsets into the arena and 0 is the null pointer.  A call runs from     *)
(* mutex_lock to mutex_unlock in one step: heap_mutex serialises the       *)
(* bodies.  A body that never reaches mutex_unlock (an assertion fails, or  *)
(* heap_realloc) is the heap's last: status says why.                      *)
(***************************************************************************)
EXTENDS Integers, FiniteSets

CONSTANTS
    HEAP_SIZE,   \* bytes in the arena
    SizeOfHeap,  \* sizeof(heap_t), at the start of the arena
    SizeOfBlock, \* sizeof(block_t), before every payload
    SizeOfFooter,\* sizeof(block_footer_t), the last word of a used block
    Requests     \* the sizes callers ask heap_alloc and heap_realloc for

\* The request sizes are small enough for the 32-bit sums of heap_alloc and
\* can_fit not to wrap, which is why plain integers stand for them.  A footer
\* is one word, a header four.
ASSUME HeapAssumption ==
    /\ {HEAP_SIZE, SizeOfHeap, SizeOfBlock, SizeOfFooter} \subseteq Nat \ {0}
    /\ SizeOfFooter < SizeOfBlock
    /\ Requests \subseteq Nat

VARIABLES
    hdr,         \* the listed blocks: address -> block_t fields and footer
    block_count, \* heap->block_count
    status,      \* "ok", or what left heap_mutex locked for good
    live,        \* history: pointers heap_alloc returned, not yet freed, and
                 \* the size asked for each
    rewound      \* history: split_into_two has taken its last branch

vars == <<hdr, block_count, status, live, rewound>>

Null == 0
Base == SizeOfHeap                          \* heap_shift(heap)
Payload(b) == b + SizeOfBlock               \* block_shift(block)
BlockOf(ptr) == ptr - SizeOfBlock           \* block_ushift(ptr)
End(h, b) == Payload(b) + h[b].size
FooterAt(h, b) == End(h, b) - SizeOfFooter

\* block_t: foot is the address at which the block's footer was last written.
Block(size, free, next, pevious, foot) ==
    [size |-> size, free |-> free, next |-> next, pevious |-> pevious,
     foot |-> foot]

NoBlocks == [b \in {} |-> Block(0, FALSE, Null, Null, Null)]

Init ==
    /\ hdr = NoBlocks
    /\ block_count = 0
    /\ status = "ok"
    /\ live = [ptr \in {} |-> 0]
    /\ rewound = FALSE

-----------------------------------------------------------------------------
(* The list operations, as functions of the list h.                        *)

CanFit(size) == HEAP_SIZE - SizeOfHeap >= size + SizeOfBlock

\* Mutant: a search that overlooks the free bit.
FittingUsedOrFree(h, size) == {b \in DOMAIN h : h[b].size >= size}

Fitting(h, size) == {b \in DOMAIN h : h[b].free /\ h[b].size >= size}

\* The search walks the list, which is in address order, from its head.
FirstFitting(h, size) ==
    CHOOSE b \in Fitting(h, size) : \A c \in Fitting(h, size) : b <= c

LastBlock(h) == CHOOSE b \in DOMAIN h : h[b].next = Null

RightIsFree(h, b) == h[b].next # Null /\ h[h[b].next].free
LeftIsFree(h, b) == h[b].pevious # Null /\ h[h[b].pevious].free

\* Mutant: a merge that forgets the back link of the block after next.
AbsorbWithoutBackLink(h, b) ==
    LET n == h[b].next IN
    [c \in DOMAIN h \ {n} |->
        IF c = b THEN [h[b] EXCEPT !.size = @ + h[n].size + SizeOfBlock,
                                   !.next = h[n].next]
                 ELSE h[c]]

\* b absorbs its right neighbour, whatever that neighbour's state.
Absorb(h, b) ==
    LET n == h[b].next IN
    [c \in DOMAIN h \ {n} |->
        CASE c = b         -> [h[b] EXCEPT !.size = @ + h[n].size + SizeOfBlock,
                                           !.next = h[n].next]
          [] c = h[n].next -> [h[c] EXCEPT !.pevious = b]
          [] OTHER         -> h[c]]

\* Mutant: a merge that is never made.
NoMerge(h, b) == h

MergeRight(h, b) == IF RightIsFree(h, b) THEN Absorb(h, b) ELSE h
MergeLeft(h, b) == IF LeftIsFree(h, b) THEN Absorb(h, h[b].pevious) ELSE h

\* Mutant: splitting whenever there is anything left over.
WholeOnlyIfEqual(h, b, size) == size = h[b].size

\* The first branch of split_into_two: the block is used whole.
Whole(h, b, size) == size = h[b].size \/ h[b].size < size + SizeOfBlock

\* Its last branch: the list's last block is cut and the tail given up.
CutsTail(h, b, size) == ~Whole(h, b, size) /\ h[b].next = Null

SplitIntoTwo(h, b, size) ==
    LET n == h[b].next
        rest == Payload(b) + size
        used == [h[b] EXCEPT !.free = FALSE]
        cut == [used EXCEPT !.size = size]
        tail == h[b].size - (size + SizeOfBlock)
    IN  CASE Whole(h, b, size)    -> [h EXCEPT ![b] = used]
          [] CutsTail(h, b, size) -> [h EXCEPT ![b] = cut]
          [] OTHER -> [c \in DOMAIN h \cup {rest} |->
                CASE c = b    -> [cut EXCEPT !.next = rest]
                  [] c = rest -> Block(tail, TRUE, n, b, Null)
                  [] c = n    -> [h[c] EXCEPT !.pevious = rest]
                  [] OTHER    -> h[c]]

\* Cutting the tail also resets heap->block_count to 0.
SplitCount(h, b, size, count) ==
    CASE Whole(h, b, size)    -> count
      [] CutsTail(h, b, size) -> 0
      [] OTHER                -> count + 1

\* split_into_two asserts that what it cuts off has no free right neighbour.
SplitOutcome(h, b, size) ==
    IF ~Whole(h, b, size) /\ RightIsFree(h, b)
    THEN "two free neighbors detected" ELSE "ok"

\* append_new_block: the address after the last block, and whether it fits.
NewBlock(h) == End(h, LastBlock(h))
Appends(h, size) == (HEAP_SIZE - 1) - Payload(NewBlock(h)) >= size

AppendNewBlock(h, size) ==
    LET last == LastBlock(h)
        new == NewBlock(h)
    IN  [c \in DOMAIN h \cup {new} |->
            CASE c = new  -> Block(size, FALSE, Null, last, Null)
              [] c = last -> [h[c] EXCEPT !.next = new]
              [] OTHER    -> h[c]]

\* heap_alloc writes the magic number in the last word of the block it returns.
WriteFooter(h, b) == [h EXCEPT ![b].foot = FooterAt(h, b)]

-----------------------------------------------------------------------------
(* The entry points.                                                       *)

Unlocked == status = "ok"

HandOut(b, req) ==
    live' = [p \in DOMAIN live \cup {Payload(b)} |->
                IF p = Payload(b) THEN req ELSE live[p]]

HeapAllocFirst(req) ==
    LET size == req + SizeOfFooter
        first == Block(size, FALSE, Null, Null, Null)
    IN  /\ Unlocked
        /\ block_count = 0
        /\ CanFit(size)
        /\ hdr' = WriteFooter([b \in {Base} |-> first], Base)
        /\ block_count' = 1
        /\ HandOut(Base, req)
        /\ UNCHANGED <<status, rewound>>

HeapAllocReuse(req) ==
    LET size == req + SizeOfFooter
        b == FirstFitting(hdr, size)
    IN  /\ Unlocked
        /\ block_count # 0
        /\ Fitting(hdr, size) # {}
        /\ status' = SplitOutcome(hdr, b, size)
        /\ IF status' = "ok"
           THEN /\ hdr' = WriteFooter(SplitIntoTwo(hdr, b, size), b)
                /\ block_count' = SplitCount(hdr, b, size, block_count)
                /\ rewound' = (rewound \/ CutsTail(hdr, b, size))
                /\ HandOut(b, req)
           ELSE UNCHANGED <<hdr, block_count, rewound, live>>

\* When this fails too heap_alloc returns null and nothing has changed.
HeapAllocAppend(req) ==
    LET size == req + SizeOfFooter
        new == NewBlock(hdr)
    IN  /\ Unlocked
        /\ block_count # 0
        /\ Fitting(hdr, size) = {}
        /\ Appends(hdr, size)
        /\ hdr' = WriteFooter(AppendNewBlock(hdr, size), new)
        /\ block_count' = block_count + 1
        /\ HandOut(new, req)
        /\ UNCHANGED <<status, rewound>>

\* The assertions on the block a pointer is turned into.  A footer written
\* elsewhere is the client's data, taken to differ from the magic number.
FooterOutcome(b) ==
    IF hdr[b].foot = FooterAt(hdr, b) THEN "ok" ELSE "heap corrupted"

CountAfter(merges, count) == IF merges THEN count - 1 ELSE count

HeapFree(ptr) ==
    LET b == BlockOf(ptr)
        freed == [hdr EXCEPT ![b].free = TRUE]
        right == MergeRight(freed, b)
        afterRight == CountAfter(RightIsFree(freed, b), block_count)
        afterLeft == CountAfter(LeftIsFree(right, b), afterRight)
        checked ==
            CASE b \notin DOMAIN hdr -> "freeing invalid pointer detected"
              [] b \in DOMAIN hdr /\ hdr[b].free -> "double free detected"
              [] OTHER -> FooterOutcome(b)
    IN  /\ Unlocked
        /\ ptr \in DOMAIN live
        /\ IF checked # "ok"
           THEN /\ status' = checked
                /\ UNCHANGED <<hdr, block_count, live>>
           ELSE IF afterRight < 0
           THEN /\ status' = "block overflow"
                /\ hdr' = right
                /\ block_count' = afterRight
                /\ UNCHANGED live
           ELSE /\ status' = IF afterLeft < 0 THEN "block overflow" ELSE "ok"
                /\ hdr' = MergeLeft(right, b)
                /\ block_count' = afterLeft
                /\ live' = [p \in DOMAIN live \ {ptr} |-> live[p]]
        /\ UNCHANGED rewound

\* heap_realloc returns from its first branch without mutex_unlock ("held"),
\* and in its second calls heap_alloc with heap_mutex already held ("spins").
HeapRealloc(ptr, new_size) ==
    LET b == BlockOf(ptr)
        right == MergeRight(hdr, b)
        afterRight == CountAfter(RightIsFree(hdr, b), block_count)
        checked == IF b \notin DOMAIN hdr
                   THEN "realloc invalid pointer detected"
                   ELSE FooterOutcome(b)
        fits == right[b].size >= new_size
    IN  /\ Unlocked
        /\ ptr \in DOMAIN live
        /\ IF checked # "ok"
           THEN /\ status' = checked
                /\ UNCHANGED <<hdr, block_count, rewound>>
           ELSE IF afterRight < 0 \/ ~fits
           THEN /\ status' = IF afterRight < 0 THEN "block overflow" ELSE "spins"
                /\ hdr' = right
                /\ block_count' = afterRight
                /\ UNCHANGED rewound
           ELSE IF SplitOutcome(right, b, new_size) # "ok"
           THEN /\ status' = SplitOutcome(right, b, new_size)
                /\ hdr' = right
                /\ block_count' = afterRight
                /\ UNCHANGED rewound
           ELSE /\ status' = "held"
                /\ hdr' = SplitIntoTwo(right, b, new_size)
                /\ block_count' = SplitCount(right, b, new_size, afterRight)
                /\ rewound' = (rewound \/ CutsTail(right, b, new_size))
        /\ UNCHANGED live

HeapAlloc(req) ==
    HeapAllocFirst(req) \/ HeapAllocReuse(req) \/ HeapAllocAppend(req)

Next ==
    \/ \E req \in Requests : HeapAlloc(req)
    \/ \E ptr \in DOMAIN live : HeapFree(ptr)
    \/ \E ptr \in DOMAIN live, new_size \in Requests : HeapRealloc(ptr, new_size)

Spec == Init /\ [][Next]_vars
-----------------------------------------------------------------------------
(* Properties.  Those about the list hold until split_into_two first cuts  *)
(* the list's tail and resets block_count (rewound): from then on          *)
(* heap_alloc believes the arena empty and lays new blocks over live ones. *)

Outcomes == {"ok", "held", "spins"}
Assertions == {"two free neighbors detected", "block overflow",
    "freeing invalid pointer detected", "double free detected",
    "heap corrupted", "realloc invalid pointer detected"}

Addresses == 0..HEAP_SIZE

BlockType == [size : 0..HEAP_SIZE, free : BOOLEAN, next : Addresses,
              pevious : Addresses, foot : Addresses]

\* The type invariant.
TypeOK ==
    /\ DOMAIN hdr \subseteq Addresses
    /\ hdr \in [DOMAIN hdr -> BlockType]
    /\ block_count \in Int
    /\ status \in Outcomes \cup Assertions
    /\ DOMAIN live \subseteq Addresses /\ live \in [DOMAIN live -> Requests]
    /\ rewound \in BOOLEAN

\* What the list h must be for a walk along next to visit each block once, in
\* address order, and for a merge to glue the bytes of two neighbours.
Tiled(h) ==
    /\ Base \in DOMAIN h
    /\ h[Base].pevious = Null
    /\ \A b \in DOMAIN h :
        /\ b >= Base
        /\ End(h, b) <= HEAP_SIZE
        /\ h[b].next # Null =>
            /\ h[b].next = End(h, b)
            /\ h[b].next \in DOMAIN h
            /\ h[h[b].next].pevious = b
        /\ h[b].next = Null => \A c \in DOMAIN h : c <= b
        /\ b # Base =>
            /\ h[b].pevious \in DOMAIN h
            /\ h[h[b].pevious].next = b
    /\ \A b, c \in DOMAIN h : b < c => End(h, b) <= c

\* Whatever sequence of allocations, splits, merges and reallocations led here,
\* the blocks tile the arena without gap or overlap, both link directions agree
\* (find_free_fitting_block, merge_block_right and merge_block_left rest on it),
\* and heap->block_count, kept by hand in six places, is their number: heap_alloc
\* takes 0 to mean that the arena is empty.
ListTilesArena ==
    ~rewound =>
        /\ block_count = Cardinality(DOMAIN hdr)
        /\ hdr # NoBlocks => Tiled(hdr)

\* heap_free merges in both directions and split_into_two relies on it: no
\* two neighbouring blocks are ever both free between calls.
NoFreeNeighbors ==
    ~rewound => \A b \in DOMAIN hdr : hdr[b].free => ~RightIsFree(hdr, b)

\* The blocks in use, as their holders see them; one that nobody holds has been
\* asked for nothing.
Regions ==
    [p \in {Payload(b) : b \in {b \in DOMAIN hdr : ~hdr[b].free}} |->
        [asked |-> IF p \in DOMAIN live THEN live[p] ELSE 0,
         size |-> hdr[BlockOf(p)].size - SizeOfFooter]]

Promise == INSTANCE RegionAllocator WITH
    Arena <- Base..(HEAP_SIZE - 1), regions <- Regions, stopped <- status # "ok"

\* Splits, merges and first fit are invisible to callers: each gets a region of
\* its own, as large as it asked, that no other call moves, shrinks, hands out
\* again or forgets; heap_free gives back the one region it names.
HeapKeepsPromise ==
    Promise!Init /\ [][~rewound => Promise!Next]_(Promise!vars)

\* Callers that free or reallocate only what they hold, and free it once, never
\* fail an assertion of heap.c: heap_free finds the footer where heap_alloc wrote
\* it although block sizes change in between, and split_into_two never meets two
\* free neighbours.
NoAssertionFails == ~rewound => status \in Outcomes

\* What heap_free asserts of a pointer its caller got from heap_alloc.
FreeFindsEveryPointer == status # "freeing invalid pointer detected"
=============================================================================
