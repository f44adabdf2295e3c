CONSTANTS
    W = 9
    BufLen = 5
    Formats <- MCFormats
    Args <- MCArgs
SPECIFICATION Spec
INVARIANT PrintsSignedInts
CHECK_DEADLOCK FALSE
