SPECIFICATION Spec
CONSTANTS
    t1 = t1
    o1 = o1
    o2 = o2
    o3 = o3
    o4 = o4
    Terminal = {t1}
    Op = {o1, o2, o3, o4}
    Formats = {}
    NoOp = NoOp
    NoVolume = NoVolume
    Kinds = {"tx", "direct"}
    InjectAt <- CrashPoints
    KillAt <- AnywhereButRecovery
    KillAllAt = {}
SYMMETRY Symmetry
INVARIANTS Durable Atomic
PROPERTY TxIdsFresh
