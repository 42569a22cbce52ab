SPECIFICATION TaskedSpec
CONSTANTS
    Task = {a, b}
    Stopper = {u}
    Seconds = {0, 3}
    Second = 2
    Horizon = 8
CHECK_DEADLOCK FALSE
PROPERTY NotEarly
