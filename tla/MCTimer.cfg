SPECIFICATION Spec
CONSTANTS
    Threads = {a, b, c}
    None = None
    TimeBetweenIrq = 2
    Quantum = 4
    Word = 64
    Durations = {2, 4, 6}
    MaxCount = 5
SYMMETRY Symmetry
CHECK_DEADLOCK FALSE
INVARIANTS TimerTypeOK ListIsWellFormed NeverLate
PROPERTIES NeverEarly ImplementsSleepQueue
