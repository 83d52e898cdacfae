SPECIFICATION Spec
CONSTANTS
    Procs = {p1, p2}
    NumRam = 2
    RamCells = 2
    NumSwap = 2
    SwapCells = 2
    FpnLimit = 2
    MaxPages = 2
    Values = {v1}
    Zero = zero
    NOBODY = nobody
INVARIANTS
    TypeOK
    
    FramesNotShared
    FifoResident

    
    
