SPECIFICATION Spec
CONSTANTS
    Tree <- Two
    Count = 2
    Piece = {"edit", "fix"}
    None = None
    MaxOpens = 3
CHECK_DEADLOCK FALSE
PROPERTIES
    PromiseKept
