CONSTANTS
    t1 = t1
    t2 = t2
    name = name
    other = other
    Terminal = {t1, t2}
    Path <- AllPaths
    Snap = {s}
    Fd = {f1}
    Data = {d}
    Workload <- RevivalOnly
SPECIFICATION Spec
INVARIANTS
    NothingDangles
