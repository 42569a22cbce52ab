SPECIFICATION SchedulerSpec
CONSTANTS
    c1 = c1
    c2 = c2
    c3 = c3
    s1 = s1
    s2 = s2
    Co = {c1, c2, c3, c4}
    Stack = {s1, s2}
    StackOf <- MCStackOf
    Buf = {b1, b2, b3}
    MaxBufs = 1
    None = None
    N = 3
    MaxLive = 7
    MaxBlock = 6
    Waiters = {a, b}
    Delays = {0, 2}
    EndOfTime = 4
    Nobody = Nobody
    Fd = {3, 4}
    File = {1, 2}
    User = {x, y}
    Thread = {t}
    Odd = {}
    Count = 2
    Clearer = {x, t}
    Obj = {1, 2}
    MaxCap = 1
    Yields = {FALSE}
SYMMETRY MCSymmetry
CHECK_DEADLOCK FALSE
INVARIANTS
    FramesIntact
    PoolSound
    TimersKept
    CallsAsAsked
    SchedulersOutlive
    ObjectsSafe
