SPECIFICATION Spec
CONSTANTS
    boot = boot
    a = a
    b = b
    c = c
    Idle = idle
    Gct = gct
    NoThread = none
    Thread <- MCThread
    Policy <- MCPolicy
    Bootstrap = boot
    BootThread = a
    UserThread = {c}
    MaySpawn = {a, b}
    MaySleep = {a, b}
    MayJoin = {b, c}
    MayStop = {a, b}
    MaxNest = 2
INVARIANT TypeOK
INVARIANT SchedulerConsistent
INVARIANT NoSelfSwitch
INVARIANT NoLostWakeup
INVARIANT NoEarlyReturn
PROPERTY StopIsFinal
PROPERTY GctFirstThenPriority
