SPECIFICATION Spec
CONSTANTS
    Threads = {t1}
    NumRam = 3
    PageSize = 2
    Stride = 2
    NumPools = 2
    NumRegs = 2
    MaxId = 2
    MaxBytes = 3
    NoFrame = none
INVARIANTS
    TypeOK
    
    PoolAccounts
    NoKernelPanic
