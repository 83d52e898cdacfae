SPECIFICATION ProcSpec
CONSTANTS
    Rgids = {a, b}
    PageSize = 2
    Sizes = {0, 1, 2, 3}
    MaxEnd = 6
    Values = {zero, v1}
    Blank = zero
    MaxWritten = 1
    Offsets = {0, 1, 3}
    Stale = 99
    VmaIds <- AreaNumbers
    Numbers = {0, 17}
INVARIANTS
    ProcTypeOK
    
    
    RegistersHoldAddresses

    
    
SYMMETRY Symmetry
