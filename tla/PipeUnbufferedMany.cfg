SPECIFICATION RingSpec
CONSTANTS
    c1 = c1
    t1 = t1
    Coroutine = {c1, c2}
    Thread = {t1}
    Elem = {1, 2}
    Waitx = {1, 2, 3}
    Timeouts = {FALSE}
    SpuriousWakeups = FALSE
    None = None
    Caps = {0}
    ListCaps = {}
    ReaderOf <- MCManyReaders
    WriterOf <- MCWriterOf
CHECK_DEADLOCK FALSE
INVARIANTS
    ElementInOnePlace
