SPECIFICATION FairSpec
CONSTANTS
    boot = boot
    a = a
    b = b
    c = c
    Idle = idle
    Gct = gct
    NoThread = none
    Thread <- MCThread
    Policy <- MCPolicy
    Bootstrap = boot
    BootThread = a
    UserThread = {c}
    MaySpawn = {a}
    MaySleep = {a}
    MayJoin = {b}
    MayStop = {a}
    MaxNest = 1
PROPERTY StopIsAnnounced
