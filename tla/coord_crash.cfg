SPECIFICATION Spec
CONSTANTS
    s1 = s1
    s2 = s2
    s3 = s3
    Session = {s1, s2, s3}
    NoSession = NoSession
    KillAt <- KillOutsideMutex
    StealLive = FALSE
    Impatient = TRUE
SYMMETRY Sessions
INVARIANTS TypeOK Exclusion LocksOnDisk NoLeftoverReadLock
PROPERTY RefinesRWLock
CHECK_DEADLOCK FALSE
