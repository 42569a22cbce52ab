SPECIFICATION LoopSpec
CONSTANTS
    Adder = {a1, a2}
    Stopper = {p1, p2}
    Self = self
    NewTask = {n1, n2}
    ReadyTask = {r1}
    SpuriousWakeups = TRUE
    a = a
    s1 = s1
    s2 = s2
    Sched = {s1, s2}
    Co = {a, b}
    Fd = {1}
    Homes <- MCHomes
    None = None
    Calls <- MCCalls
    Alone = TRUE
CHECK_DEADLOCK FALSE
INVARIANTS
    NoLostWakeup
    FirstStopWaits
    EventsReachWaiters
PROPERTIES
    LoopGoesOn
    EveryTaskResumed
    ResumedOnlyWaiting
    WaitEnds
