SPECIFICATION EventSpec
CONSTANTS
    c1 = c1
    s1 = s1
    s2 = s2
    w3 = w3
    Coroutine = {c1, c2}
    Thread = {t1}
    Sched = {s1, s2}
    SchedOf <- MCSchedOf
    Waitx = {w1, w2}
    Timed = {c1}
    SpuriousWakeups = FALSE
    MaxWt = 2
    None = None
    Worker = {}
    Waiter = {}
    Batches = {}
    MaxWaits = 0
CHECK_DEADLOCK FALSE
INVARIANTS
    SuspendedCanWake
