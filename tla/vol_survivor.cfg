SPECIFICATION Spec
CONSTANTS
    t1 = t1
    t2 = t2
    o1 = o1
    o2 = o2
    Terminal = {t1, t2}
    Op = {o1, o2}
    Formats = {}
    NoOp = NoOp
    NoVolume = NoVolume
    Kinds = {"tx"}
    InjectAt = {"jcommit"}
    KillAt = {}
    KillAllAt = {}
SYMMETRY Symmetry
INVARIANT Durable
CHECK_DEADLOCK FALSE
