SPECIFICATION Spec
CONSTANTS
    Threads = {t1, t2}
    NumFrames = 1
INVARIANTS
    NeverPopsNull
