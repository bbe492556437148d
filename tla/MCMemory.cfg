\* An app and the system loader over three levels of tables with two entries each,
\* with a load that fails.
SPECIFICATION Spec
CONSTANTS
    FrameCount = 17
    Reserved = {0}
    Levels = 3
    Entries = 2
    App = {A}
    Kernel = Kernel
    None = None
    MaxPages = 2
    CodePages = 1
    HeapPages = 2
    StackPages = 1
    SystemLoader = TRUE
    MaxFailed = 1
VIEW View
INVARIANTS MemoryTypeOK EveryFrameHasOneOwner KernelHalfShared HeapBelowLimit FailedAllocationIsUndone
CHECK_DEADLOCK FALSE
