SPECIFICATION MCSpec
CONSTANTS
    c1 = c1
    s1 = s1
    s2 = s2
    w3 = w3
    Coroutine = {c1, c2}
    Thread = {t1, t2}
    Sched = {s1, s2}
    SchedOf <- MCSchedOf
    Waitx = {w1, w2, w3}
    Timed = {c1, t1}
    SpuriousWakeups = TRUE
    MaxWt = 3
    None = None
    Worker = {c2, t1}
    Waiter = {c1, t2}
    Batches = {{c2, t1}}
    MaxWaits = 1
CHECK_DEADLOCK FALSE
INVARIANTS
    ResumedAndFreedOnce
    WaitCoversAll
    WakeupsSignaled
PROPERTIES
    WaitsReturn
    NoSignalLost
