CONSTANTS
    Procs = {k1, p1, p2}
    KernelProcs = {k1}
    Frames = {1, 2, 3, 4, 5, 6, 7, 8, 9, 10, 11, 12, 13, 14, 15}
    KernelPages = {1, 2, 3, 4, 5, 6, 7, 8, 9, 10}
    Tables = {0, 1}
    Entries = {0, 1, 2}
    Extra <- MCExtra
    Nodes = 10
    KernelImage = 99
    NoProc = none
SPECIFICATION Spec
INVARIANTS
    ReachesOnlyItsPages
PROPERTIES
    AddressSpacesKeepPromise
    ProcessesGetReady
CHECK_DEADLOCK FALSE
