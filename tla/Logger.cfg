SPECIFICATION LibSpec
CONSTANTS
    t1 = t1
    t2 = t2
    Thread = {t1, t2}
    main = t1
    Buffers = 2
    Capacity = 2
    Logs = 2
    Early = FALSE
    MaxSize = 2
    MaxNum = 2
    Daily = TRUE
    DayLength = 3
    EndOfTime = 5
    Chunks = 5
    NoFile = NoFile
    a = a
    b = b
    u = u
    v = v
    Task = {a, b}
    Stopper = {u, v}
    Seconds = {0, 1, 2}
    Second = 2
    Horizon = 6
CHECK_DEADLOCK FALSE
INVARIANTS
    LogsInOrder
    StoppedAllWritten
    FilesKept
    TasksInTime
PROPERTIES
    ThreadsReturn
