SPECIFICATION QueuedSpec
CONSTANTS
    s1 = s1
    c1 = c1
    s2 = s2
    N = 2
    Coroutine = {c1, c2}
    Thread = {t1, t2}
    Sched = {s1, s2}
    SchedOf <- MCSchedOf
    NullPtr = NullPtr
    NoCo = NoCo
INVARIANTS
    OneOwner
    WaiterInOnePlace
    QueueInOrder
PROPERTIES
    HandsOff
    WaitersAcquire
