SPECIFICATION Spec
CONSTANTS
    Threads = {t1, t2}
    NumRam = 2
    PageSize = 2
    Stride = 1
    NumPools = 1
    NumRegs = 1
    MaxId = 0
    MaxBytes = 2
    NoFrame = none
INVARIANT
    NoKernelPanic
