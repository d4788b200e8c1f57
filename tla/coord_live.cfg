SPECIFICATION FairSpec
CONSTANTS
    s1 = s1
    s2 = s2
    s3 = s3
    Session = {s1, s2, s3}
    NoSession = NoSession
    KillAt <- KillInsideMutex
    StealLive = FALSE
    Impatient = FALSE
PROPERTIES Progress AloneGetsLock
CHECK_DEADLOCK FALSE
