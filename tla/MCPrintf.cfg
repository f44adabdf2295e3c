CONSTANTS
    W = 9
    BufLen = 5
    Formats <- MCFormats
    Args <- MCArgs
SPECIFICATION Spec
INVARIANTS
    PrintsTheFormat
    FitsTheBuffer
CHECK_DEADLOCK FALSE
