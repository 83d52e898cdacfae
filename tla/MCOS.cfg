SPECIFICATION Spec
CONSTANTS
    CPUs = {c1, c2}
    LOADER = loader
    NULL = null
    Proc = {1, 2}
    NumProcesses = 2
    MaxPrio = 2
    MaxQueueSize = 2
    TimeSlot = 2
    TimeMod = 8
    MaxSize = 3
    MaxStart = 1
    Workloads <- MCWorkloads
INVARIANTS
    TypeOK
    OnePlace
    NoUseAfterFree
    NoProcessLost
    FreshQuantum
    OncePerSlot
PROPERTY
    NoStarvation
