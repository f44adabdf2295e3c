\* Frames 1 and 2 are the kernel's image, 2 a page table given back at boot; 3
\* is the frame reserved past its end, 4 the VGA buffer.  2, 5 and 6 remain:
\* more memory than the five pages of the kernel's half can map.  Pages 4 and 7
\* are mapped; 3, 5 and 6 remain, in runs of 1 and 2.
CONSTANTS
    Callers = {c1, c2}
    MAX_PAGES = 8
    FirstKernelPage = 3
    TotalBlocks = 7
    VgaBlock = 4
    KernelStart = 1
    KernelStop = 2
    TablePages = {2}
    Sizes = {2}
SPECIFICATION FairSpec
INVARIANTS
    TypeOK
    MarkedIffMapped
    FramesAccountedFor
    SharedOnlyThroughHandles
    MappingsAreCurrent
    PagesBelongToOne
    TranslationIsRight
PROPERTY ReleasedUnlessPanic
\* A panic leaves virtual_mutex locked, and everyone else waiting for it.
CHECK_DEADLOCK FALSE
