CONSTANTS
    t1 = t1
    t2 = t2
    name = name
    other = other
    Terminal = {t1, t2}
    Path <- AllPaths
    Snap = {s}
    Fd = {f1, f2}
    Data = {d}
    Workload <- AllButRevival
SPECIFICATION Spec
SYMMETRY FdsAlike
VIEW WithoutMemory
INVARIANTS
    TypeOK
    CountsExact
    NothingDangles
    OrphansAreOpen
PROPERTIES
    UnlinkedDataKept
    DirectSavesKeepTree
    RefinesSnapshotStore
