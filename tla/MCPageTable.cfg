SPECIFICATION Spec
CONSTANTS
    Threads = {t1}
    Levels = 5
    Fanout = 2
    Pages = {1, 2, 17}
    Fpns = {8193}
    Swaps = {300}
    MaxMapped = 2
    MaxTables = 7
    NOBODY = nobody
INVARIANTS
    TypeOK
    TreeShape
    PointerInTree
PROPERTIES
    ImplementsPageMap
    CallsReturn
