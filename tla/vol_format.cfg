SPECIFICATION Spec
CONSTANTS
    t1 = t1
    t2 = t2
    o1 = o1
    o2 = o2
    f1 = f1
    Terminal = {t1, t2}
    Op = {o1, o2, f1}
    Formats = {f1}
    NoOp = NoOp
    NoVolume = NoVolume
    Kinds = {"tx", "format"}
    InjectAt <- InjectOutsideWindow
    KillAt <- KillOutsideWindow
    KillAllAt <- AnywhereButRecovery
SYMMETRY Symmetry
PROPERTY RefinesAtomicVolume
