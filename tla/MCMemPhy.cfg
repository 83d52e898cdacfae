SPECIFICATION Spec
CONSTANTS
    Threads = {t1, t2, t3}
    NumFrames = 4
INVARIANTS
    TypeOK
    FramesPartitioned
    OneOwner
