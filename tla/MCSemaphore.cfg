SPECIFICATION Spec
CONSTANTS
    boot = boot
    a = a
    b = b
    c = c
    Idle = idle
    Gct = gct
    NoThread = none
    Thread <- MCThread
    Policy <- MCPolicy
    Bootstrap = boot
    User = {a, b, c}
    UserMode = {a, b}
    First = a
    MaxNest = 2
    UnitMax = 2
    UnitStart = 1
CHECK_DEADLOCK FALSE
INVARIANT SemaphoreTypeOK
INVARIANT NoStrandedWaiter
INVARIANT NoForgottenWaiter
