CONSTANTS
    Rows = 2
    Cols = 3
    Chars = {"a", "b"}
    MaxText = 8
SPECIFICATION VgaSpec
INVARIANT ShowsTheText
