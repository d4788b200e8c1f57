SPECIFICATION Spec
CONSTANTS
    s1 = s1
    s2 = s2
    s3 = s3
    Session = {s1, s2, s3}
    NoSession = NoSession
    KillAt = {"granted"}
    StealLive = FALSE
    Impatient = FALSE
INVARIANT SerializedUntilOvertaken
CHECK_DEADLOCK FALSE
