SPECIFICATION Spec
CONSTANTS
    CPUs = {c1}
    LOADER = loader
    NULL = null
    Proc = {1}
    NumProcesses = 1
    MaxPrio = 2
    MaxQueueSize = 1
    TimeSlot = 1
    TimeMod = 4
    MaxSize = 2
    MaxStart = 0
    Workloads <- MCWorkloads
PROPERTIES StopOnlyWithoutWork
