SPECIFICATION Spec
CONSTANTS
    CPUs = {c1, c2}
    LOADER = loader
    NULL = null
    Proc = {1}
    NumProcesses = 1
    MaxPrio = 1
    MaxQueueSize = 1
    TimeSlot = 1
    TimeMod = 4
    MaxSize = 1
    MaxStart = 0
    Workloads <- MCWorkloads
PROPERTIES CpusFinish
