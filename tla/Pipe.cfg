SPECIFICATION BothSpec
CONSTANTS
    c1 = c1
    t1 = t1
    Coroutine = {c1}
    Thread = {t1, t2}
    Elem = {1, 2, 3}
    Waitx = {1, 2, 3}
    Timeouts = {TRUE, FALSE}
    SpuriousWakeups = TRUE
    None = None
    Caps = {0, 2}
    ListCaps = {0, 2}
    ReaderOf <- MCReaderOf
    WriterOf <- MCWriterOf
CHECK_DEADLOCK FALSE
INVARIANTS
    NothingLost
    WaitsNeeded
    WaitersServed
PROPERTIES
    FirstInFirstOut
    ChanCallsReturn
