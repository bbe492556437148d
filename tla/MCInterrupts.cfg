SPECIFICATION FairSpec
CONSTANTS
    boot = boot
    a = a
    b = b
    Idle = idle
    Gct = gct
    Thread <- MCThread
    Policy <- MCPolicy
    Bootstrap = boot
    User = {a, b}
    UserMode = {a, b}
    First = a
    MaxNest = 2
    Line = {0, 1, 3}
    Device = {0, 1}
INVARIANTS InterruptsTypeOK TableMatchesPic TimerIsFree
PROPERTY TimerIsServed
CHECK_DEADLOCK FALSE
