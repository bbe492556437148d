SPECIFICATION FairSpec
CONSTANTS
    boot = boot
    o = o
    s = s
    w1 = w1
    w2 = w2
    Idle = idle
    Gct = gct
    NoThread = none
    Thread <- MCThread
    Policy <- MCPolicy
    Bootstrap = boot
    User = {o, s, w1, w2}
    UserMode = {}
    First = o
    MaxNest = 1
    PoolThreads <- MCPoolThreads
    Submitter = {o, s}
    MaxTasks = 3
CHECK_DEADLOCK FALSE
INVARIANTS PoolTypeOK EveryTaskOnce BlockedIsQueued NoSleepingPool
PROPERTY PoolSettles
