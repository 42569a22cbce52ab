SPECIFICATION Spec
CONSTANTS
    Fd = {3, 4}
    File = {1, 2}
    Co = {x}
    Thread = {}
    None = None
    Odd = {"connect"}
CHECK_DEADLOCK FALSE
INVARIANTS
    MarkedIsNonBlocking
