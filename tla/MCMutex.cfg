SPECIFICATION FairSpec
CONSTANTS
    boot = boot
    a = a
    b = b
    c = c
    Idle = idle
    Gct = gct
    NoThread = none
    Thread <- MCThread
    Policy <- MCPolicy
    Bootstrap = boot
    User = {a, b, c}
    UserMode = {a, b}
    First = a
    MaxNest = 2
CHECK_DEADLOCK FALSE
INVARIANT MutexTypeOK
INVARIANT MutualExclusion
INVARIANT HandoffIsComplete
INVARIANT NoForgottenWaiter
PROPERTY HandoffArrives
