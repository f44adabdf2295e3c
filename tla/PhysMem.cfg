\* Nine bits in words of three: 1 is the VGA buffer, 3 and 4 hold the kernel, 8
\* is past the end of memory.  2, 5, 6 and 7 remain: 5 shares its word with the
\* kernel, 6 and 7 theirs with the end.
CONSTANTS
    Callers = {c1, c2}
    MAX_PAGES = 9
    WordBits = 3
    TotalBlocks = 8
    VgaBlock = 1
    KernelStart = 3
    KernelStop = 4
SPECIFICATION FairSpec
INVARIANTS
    TypeOK
    ExclusiveOwners
    NoPanic
    ReportIsCurrent
PROPERTIES
    ImplementsPromise
    LockIsReleased
