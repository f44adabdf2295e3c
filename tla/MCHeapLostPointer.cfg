CONSTANTS
    HEAP_SIZE = 34
    SizeOfHeap = 2
    SizeOfBlock = 4
    SizeOfFooter = 1
    Requests <- MCRequests
SPECIFICATION Spec
INVARIANT FreeFindsEveryPointer
CHECK_DEADLOCK FALSE
