\* Kills between any two steps and inside any write of the volume; reads and
\* saves of three terminals between the truncation and the writing of the volume
\* and of the epoch file; crashes of three terminals, also at the same time.
SPECIFICATION Spec
CONSTANTS
  Parts = 2
  MaxOps = 2
  KillIn <- AnySave
  Tails <- AnyCut
  Terminal = {t1, t2, t3}
  Nobody = Nobody
  MaxEpoch = 4
  Session = {s1, s2, s3}
  MaxSignal = 5
SYMMETRY Alike
INVARIANTS
  TypeOK
  CommittedSurvives
  WholeOrRedoable
  CopyIsCurrent
  CrashReachesAll
  OldSignalsIgnored
