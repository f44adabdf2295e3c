CONSTANTS
    HEAP_SIZE = 34
    SizeOfHeap = 2
    SizeOfBlock = 4
    SizeOfFooter = 1
    Requests <- MCRequests
SPECIFICATION Spec
CONSTRAINT BeforeRewind
INVARIANTS
    TypeOK
    ListTilesArena
    NoFreeNeighbors
    NoAssertionFails
PROPERTY HeapKeepsPromise
\* A failed assertion, or heap_realloc, is the heap's last call.
CHECK_DEADLOCK FALSE
