SPECIFICATION Spec
CONSTANTS
    NoFile = NoFile
    Procs = {p1, p2, p3}
    Contention = TRUE
    Ageing = TRUE
    Reused = {}
    MaxCrashes = 2
SYMMETRY Symmetry
INVARIANT Mutex
