SPECIFICATION Spec
CHECK_DEADLOCK FALSE
CONSTANTS
    Dirs = 7
    Entries = 4
    FirstKernelDir = 3
    VgaBlock = 1
    BootDir = 2
    KernelStart = 3
    KernelStop = 12
    PageDir = 4
    FirstTable = 5
    Memories <- SomeMemories
INVARIANTS
    KernelStaysMapped
    NullFaults
    HandsOverMemory
PROPERTY
    BootsIffFit
