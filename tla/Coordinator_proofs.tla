------------------------- MODULE Coordinator_proofs -------------------------
(***************************************************************************)
(* Mutual exclusion of the coordinator's locks for any number of sessions, *)
(* with processes that crash inside commands and are killed outside the    *)
(* mutex, and the refinement of RWLock that says the same as a protocol.   *)
(***************************************************************************)
EXTENDS Coordinator, TLAPS

\* No process ever dies inside the mutex, and none stays in it for 5 s.  Without
\* this SerializedUntilOvertaken fails: see the run coord_steal.
QuietMutex == KillAt \intersect MutexPoints = {} /\ ~StealLive

InMutex(s) == pc[s] \in MutexPoints

\* From the creation of tx.lock to the unlink of its holder.
TxOwner(s) ==
    \/ pc[s] \in {"writeHolder", "writing"}
    \/ pc[s] = "granted" /\ want[s] = "tx"

ReadOwner(s) ==
    \/ pc[s] = "reading"
    \/ pc[s] = "granted" /\ want[s] = "read"

\* The mutex directory exists exactly while one process is inside, and nobody
\* has waited for it long enough to remove it.
MutexInv ==
    /\ overdue = {}
    /\ \A s \in Session : pc[s] # "steal"
    /\ \A s \in Session : InMutex(s) => mutexDir
    /\ mutexDir => \E s \in Session : InMutex(s)
    /\ \A s, t \in Session : InMutex(s) /\ InMutex(t) => s = t

Registered == \A s \in Session : IsPidAlive(s) => s \in sessionFiles

\* tx.lock has one owner, whose progress can be read off the directory; while it
\* is being removed it has none, and nobody else removes it.
TxFiles ==
    /\ \A s \in Session : TxOwner(s) => txDir
    /\ \A s \in Session : TxOwner(s) /\ pc[s] # "writeHolder" => holder = s
    /\ \A s \in Session :
          pc[s] = "writeHolder" \/ pc[s] \in Removing => holder = NoSession
    /\ \A s, t \in Session : (TxOwner(s) \/ pc[s] \in Removing) /\
                             (TxOwner(t) \/ pc[t] \in Removing) => s = t

\* The holder file lies inside its directory, overtaken or not.
HolderInDir == holder # NoSession => txDir

\* The cleanup takes tx.lock away only when nobody owns it; the last owner may be
\* removing it at the same time.
CleanupInv == \A s, t \in Session :
    pc[s] \in {"dropHolder", "dropDir"} => ~TxOwner(t)

\* Each half of the protocol is walked only by the sessions that asked for it.
WantInv == \A s \in Session :
    /\ pc[s] \in {"mkdir", "writeHolder"} => want[s] = "tx"
    /\ pc[s] = "writeRead" => want[s] = "read"

ReadFiles == \A s \in Session : ReadOwner(s) => s \in readLocks

\* Once a writer has seen no reader, there is none until it starts to release;
\* once a reader has seen no writer, none gets in before the reader is done
\* with the mutex.
Claims(s) == pc[s] = "mkdir" \/ TxOwner(s)

NoOverlap ==
    /\ \A s, t \in Session : Claims(s) => ~ReadOwner(t)
    /\ \A s, t \in Session : pc[s] = "writeRead" => pc[t] # "writing"

\* What holds until a tx.lock is created under a pending removal.
TxInv == TxFiles /\ CleanupInv /\ NoOverlap

Inv ==
    /\ TypeOK
    /\ MutexInv
    /\ Registered
    /\ HolderInDir
    /\ WantInv
    /\ ReadFiles
    /\ ~overtaken => TxInv

-----------------------------------------------------------------------------
\* Every variable keeps its type (coordinator state and the files it owns).
THEOREM TypeCorrect == Spec => []TypeOK
<1> USE DEF TypeOK, Points, Removing, TryPoints, MutexPoints, NoteOvertaking
<1>1. Init => TypeOK
  BY DEF Init
<1>2. TypeOK /\ [Next]_vars => TypeOK'
  <2> SUFFICES ASSUME TypeOK, [Next]_vars
               PROVE TypeOK'
    OBVIOUS
  <2>1. CASE UNCHANGED vars
    BY <2>1 DEF vars
  <2>2. ASSUME NEW s \in Session, Work(s)
        PROVE TypeOK'
    BY <2>2 DEF Work, files, Goto, AcquireMutex, MutexTimeout, StealMutex, ScanHolder,
       ReadHolder, DropHolder, DropTxDir, ScanReadLocksAndSessions, CheckReaders,
       MakeTxDir, WriteHolder, CheckWriter, WriteReadLock, Granted, Refused, Retry,
       ReleaseTx, ReleaseTxDir, AbandonTx, ReleaseRead, ExitAbnormally
  <2>3. ASSUME NEW s \in Session, Decide(s)
        PROVE TypeOK'
    BY <2>3 DEF Decide, files, Goto, StartSession, Request, ShutdownClean, GiveUp,
       Crash, Kill
  <2>4. QED
    BY <2>1, <2>2, <2>3 DEF Next
<1>3. QED
  BY <1>1, <1>2, PTL DEF Spec

-----------------------------------------------------------------------------
LEMMA InitInv == Init => Inv
BY CoordAssumption DEF Init, Inv, TypeOK, MutexInv, Registered, HolderInDir, WantInv,
   ReadFiles, TxInv, TxFiles, CleanupInv, NoOverlap, Claims, TxOwner, ReadOwner,
   InMutex, IsPidAlive, Points, Removing, TryPoints, MutexPoints

LEMMA WorkInv ==
    ASSUME QuietMutex, Inv, TypeOK', NEW s \in Session, Work(s)
    PROVE  Inv'
<1> USE CoordAssumption DEF QuietMutex, Inv, Goto, files, InMutex, TxOwner, ReadOwner,
        Claims, IsPidAlive, MutexPoints, Removing, MutexInv, Registered, HolderInDir, WantInv,
        ReadFiles, TxInv, TxFiles, CleanupInv, NoOverlap
<1>1. CASE AcquireMutex(s)
  BY <1>1 DEF AcquireMutex, TypeOK, IsRecordStale
<1>2. CASE MutexTimeout(s)
  BY <1>2 DEF MutexTimeout, TypeOK, IsRecordStale
<1>3. CASE StealMutex(s)
  BY <1>3 DEF StealMutex, TypeOK, IsRecordStale
<1>4. CASE ScanHolder(s)
  BY <1>4 DEF ScanHolder, TypeOK, IsRecordStale
<1>5. CASE ReadHolder(s)
  BY <1>5 DEF ReadHolder, TypeOK, IsRecordStale
<1>6. CASE DropHolder(s)
  BY <1>6 DEF DropHolder, TypeOK, IsRecordStale
<1>7. CASE DropTxDir(s)
  <2>1. MutexInv'
    BY <1>7 DEF DropTxDir, TypeOK
  <2>2. Registered' /\ HolderInDir' /\ WantInv' /\ ReadFiles'
    BY <1>7 DEF DropTxDir, TypeOK
  <2>3. ASSUME ~overtaken' PROVE TxFiles'
    BY <1>7, <2>3 DEF DropTxDir, TypeOK
  <2>4. ASSUME ~overtaken' PROVE CleanupInv' /\ NoOverlap'
    BY <1>7, <2>4 DEF DropTxDir, TypeOK
  <2> QED
    BY <2>1, <2>2, <2>3, <2>4
<1>8. CASE ScanReadLocksAndSessions(s)
  BY <1>8 DEF ScanReadLocksAndSessions, TypeOK, IsRecordStale
<1>9. CASE CheckReaders(s)
  BY <1>9 DEF CheckReaders, TypeOK, IsRecordStale
<1>10. CASE MakeTxDir(s)
  <2>1. MutexInv'
    BY <1>10 DEF MakeTxDir, TypeOK, NoteOvertaking
  <2>2. Registered' /\ HolderInDir' /\ WantInv' /\ ReadFiles'
    BY <1>10 DEF MakeTxDir, TypeOK, NoteOvertaking
  <2>3. ASSUME ~overtaken' PROVE TxFiles'
    BY <1>10, <2>3 DEF MakeTxDir, TypeOK, NoteOvertaking
  <2>4. ASSUME ~overtaken' PROVE CleanupInv' /\ NoOverlap'
    BY <1>10, <2>4 DEF MakeTxDir, TypeOK, NoteOvertaking
  <2> QED
    BY <2>1, <2>2, <2>3, <2>4
<1>11. CASE WriteHolder(s)
  <2>1. MutexInv'
    BY <1>11 DEF WriteHolder, TypeOK
  <2>2. Registered' /\ HolderInDir' /\ WantInv' /\ ReadFiles'
    BY <1>11 DEF WriteHolder, TypeOK
  <2>3. ASSUME ~overtaken' PROVE TxFiles'
    BY <1>11, <2>3 DEF WriteHolder, TypeOK
  <2>4. ASSUME ~overtaken' PROVE CleanupInv' /\ NoOverlap'
    BY <1>11, <2>4 DEF WriteHolder, TypeOK
  <2> QED
    BY <2>1, <2>2, <2>3, <2>4
<1>12. CASE CheckWriter(s)
  BY <1>12 DEF CheckWriter, TypeOK, IsRecordStale
<1>13. CASE WriteReadLock(s)
  <2>1. MutexInv'
    BY <1>13 DEF WriteReadLock, TypeOK
  <2>2. Registered' /\ HolderInDir' /\ WantInv' /\ ReadFiles'
    BY <1>13 DEF WriteReadLock, TypeOK
  <2>3. ASSUME ~overtaken' PROVE TxFiles'
    BY <1>13, <2>3 DEF WriteReadLock, TypeOK
  <2>4. ASSUME ~overtaken' PROVE CleanupInv' /\ NoOverlap'
    BY <1>13, <2>4 DEF WriteReadLock, TypeOK
  <2> QED
    BY <2>1, <2>2, <2>3, <2>4
<1>14. CASE Granted(s)
  <2>1. MutexInv'
    BY <1>14 DEF Granted, TypeOK
  <2>2. Registered' /\ HolderInDir' /\ WantInv' /\ ReadFiles'
    BY <1>14 DEF Granted, TypeOK
  <2>3. ASSUME ~overtaken' PROVE TxFiles'
    BY <1>14, <2>3 DEF Granted, TypeOK
  <2>4. ASSUME ~overtaken' PROVE CleanupInv' /\ NoOverlap'
    BY <1>14, <2>4 DEF Granted, TypeOK
  <2> QED
    BY <2>1, <2>2, <2>3, <2>4
<1>15. CASE Refused(s)
  BY <1>15 DEF Refused, TypeOK, IsRecordStale
<1>16. CASE Retry(s)
  BY <1>16 DEF Retry, TypeOK, IsRecordStale
<1>17. CASE ReleaseTx(s)
  <2>1. MutexInv'
    BY <1>17 DEF ReleaseTx, TypeOK
  <2>2. Registered' /\ HolderInDir' /\ WantInv' /\ ReadFiles'
    BY <1>17 DEF ReleaseTx, TypeOK
  <2>3. ASSUME ~overtaken' PROVE TxFiles'
    BY <1>17, <2>3 DEF ReleaseTx, TypeOK
  <2>4. ASSUME ~overtaken' PROVE CleanupInv' /\ NoOverlap'
    BY <1>17, <2>4 DEF ReleaseTx, TypeOK
  <2> QED
    BY <2>1, <2>2, <2>3, <2>4
<1>18. CASE ReleaseTxDir(s)
  <2>1. MutexInv'
    BY <1>18 DEF ReleaseTxDir, TypeOK
  <2>2. Registered' /\ HolderInDir' /\ WantInv' /\ ReadFiles'
    BY <1>18 DEF ReleaseTxDir, TypeOK
  <2>3. ASSUME ~overtaken' PROVE TxFiles'
    BY <1>18, <2>3 DEF ReleaseTxDir, TypeOK
  <2>4. ASSUME ~overtaken' PROVE CleanupInv' /\ NoOverlap'
    BY <1>18, <2>4 DEF ReleaseTxDir, TypeOK
  <2> QED
    BY <2>1, <2>2, <2>3, <2>4
<1>19. CASE AbandonTx(s)
  BY <1>19 DEF AbandonTx, TypeOK, IsRecordStale
<1>20. CASE ReleaseRead(s)
  BY <1>20 DEF ReleaseRead, TypeOK, IsRecordStale
<1>21. CASE ExitAbnormally(s)
  BY <1>21 DEF ExitAbnormally, TypeOK, IsRecordStale
<1> QED
  BY <1>1, <1>2, <1>3, <1>4, <1>5, <1>6, <1>7, <1>8, <1>9, <1>10, <1>11,
     <1>12, <1>13, <1>14, <1>15, <1>16, <1>17, <1>18, <1>19, <1>20, <1>21 DEF Work

LEMMA DecideInv ==
    ASSUME QuietMutex, Inv, TypeOK', NEW s \in Session, Decide(s)
    PROVE  Inv'
<1> USE CoordAssumption DEF QuietMutex, Inv, Goto, files, InMutex, TxOwner, ReadOwner,
        Claims, IsPidAlive, MutexPoints, Removing, MutexInv, Registered, HolderInDir, WantInv,
        ReadFiles, TxInv, TxFiles, CleanupInv, NoOverlap
<1>1. CASE StartSession(s)
  BY <1>1 DEF StartSession, TypeOK
<1>2. CASE \E k \in {"tx", "read"} : Request(s, k)
  BY <1>2 DEF Request, TypeOK
<1>3. CASE ShutdownClean(s)
  BY <1>3 DEF ShutdownClean, TypeOK
<1>4. CASE GiveUp(s)
  BY <1>4 DEF GiveUp, TypeOK
<1>5. CASE Crash(s)
  BY <1>5 DEF Crash, CrashPoints, TypeOK
<1>6. CASE Kill(s)
  BY <1>6 DEF Kill, TypeOK
<1>7. QED
  BY <1>1, <1>2, <1>3, <1>4, <1>5, <1>6 DEF Decide

\* What is known in every reachable state, when nobody dies inside the mutex.
THEOREM Invariance == QuietMutex => (Spec => []Inv)
<1> SUFFICES ASSUME QuietMutex
             PROVE  Spec => []Inv
  OBVIOUS
<1>1. Init => Inv
  BY InitInv
<1>2. Inv /\ TypeOK' /\ [Next]_vars => Inv'
  <2> SUFFICES ASSUME Inv, TypeOK', [Next]_vars
               PROVE  Inv'
    OBVIOUS
  <2>1. CASE UNCHANGED vars
    BY <2>1 DEF vars, Inv, TypeOK, MutexInv, Registered, HolderInDir, WantInv,
       ReadFiles, TxInv, TxFiles, CleanupInv, NoOverlap, Claims, TxOwner, ReadOwner,
       InMutex, IsPidAlive
  <2>2. CASE Next
    BY <2>2, WorkInv, DecideInv DEF Next
  <2>3. QED
    BY <2>1, <2>2
<1>3. QED
  BY <1>1, <1>2, TypeCorrect, PTL DEF Spec

LEMMA InvExclusion == ASSUME Inv PROVE Exclusion
BY DEF Inv, TxInv, TxFiles, NoOverlap, Claims, TxOwner, ReadOwner, Exclusion, Writers,
   Readers, RW!Exclusion, RW!SingleWriter, RW!NoReaderBesideWriter

LEMMA InvLocksOnDisk == ASSUME Inv PROVE LocksOnDisk
BY DEF Inv, Registered, TxInv, TxFiles, TxOwner, ReadFiles, ReadOwner, LocksOnDisk

-----------------------------------------------------------------------------
\* Commands of different terminals exclude each other: one writer, and no reader
\* beside it, for any number of processes, until a tx.lock is created while the
\* last one to hold it is still removing it (acquireTxLock, acquireReadLock).
THEOREM MutualExclusion == QuietMutex => (Spec => []Exclusion)
BY Invariance, InvExclusion, PTL

\* No process loses its session file or read lock to the cleanup of another, nor,
\* until such a removal is overtaken, its transaction lock
\* (cleanupStaleLocksUnlocked, releasePath).
THEOREM LocksStay == QuietMutex => (Spec => []LocksOnDisk)
BY Invariance, InvLocksOnDisk, PTL

-----------------------------------------------------------------------------
LEMMA InitRefines == Init => RW!Init
BY DEF Init, RW!Init, Writers, Readers

LEMMA OvertakenStays == Next /\ overtaken => overtaken'
BY DEF Next, Work, Decide, NoteOvertaking, AcquireMutex, MutexTimeout, StealMutex,
   ScanHolder, ReadHolder, DropHolder, DropTxDir, ScanReadLocksAndSessions, CheckReaders,
   MakeTxDir, WriteHolder, CheckWriter, WriteReadLock, Granted, Refused, Retry, ReleaseTx,
   ReleaseTxDir, AbandonTx, ReleaseRead, ExitAbnormally, StartSession, Request,
   ShutdownClean, GiveUp, Crash, Kill

\* Only five kinds of step change who holds what; the others stutter.
LEMMA StepRefines ==
    ASSUME QuietMutex, Inv, ~overtaken, NEW s \in Session, Work(s) \/ Decide(s)
    PROVE  RW!Next \/ UNCHANGED <<Writers, Readers>>
<1> USE DEF Goto, Writers, Readers, Inv, TypeOK
<1>1. CASE Granted(s) /\ want[s] = "tx"
  <2>1. Writers = {} /\ Readers = {}
    BY <1>1 DEF Granted, TxInv, TxFiles, TxOwner, NoOverlap, Claims, ReadOwner
  <2>2. Writers' = {s} /\ Readers' = {}
    BY <1>1, <2>1 DEF Granted
  <2>3. QED
    BY <2>1, <2>2 DEF RW!Next, RW!AcquireWrite
<1>2. CASE Granted(s) /\ want[s] # "tx"
  <2>1. want[s] = "read"
    BY <1>2
  <2>2. Writers = {}
    BY <1>2, <2>1 DEF Granted, TxInv, NoOverlap, Claims, TxOwner, ReadOwner
  <2>3. s \notin Readers /\ Readers' = Readers \union {s} /\ Writers' = Writers
    BY <1>2, <2>1 DEF Granted
  <2>4. QED
    BY <2>2, <2>3 DEF RW!Next, RW!AcquireRead
<1>3. CASE (ReleaseTx(s) \/ Crash(s) \/ Kill(s)) /\ pc[s] = "writing"
  <2>1. s \in Writers /\ Writers' = Writers \ {s} /\ Readers' = Readers
    BY <1>3 DEF ReleaseTx, Crash, Kill
  <2>2. QED
    BY <2>1 DEF RW!Next, RW!LeaveWrite
<1>4. CASE (ReleaseRead(s) \/ Crash(s) \/ Kill(s)) /\ pc[s] = "reading"
  <2>1. s \in Readers /\ Readers' = Readers \ {s} /\ Writers' = Writers
    BY <1>4 DEF ReleaseRead, Crash, Kill
  <2>2. QED
    BY <2>1 DEF RW!Next, RW!LeaveRead
<1>5. CASE /\ pc[s] \notin {"writing", "reading"}
          /\ pc'[s] \notin {"writing", "reading"}
          /\ pc' = [pc EXCEPT ![s] = pc'[s]]
  BY <1>5
<1>6. ~Granted(s) /\ pc[s] \notin {"writing", "reading"} =>
          /\ pc'[s] \notin {"writing", "reading"}
          /\ pc' = [pc EXCEPT ![s] = pc'[s]]
  BY DEF Work, AcquireMutex, MutexTimeout, StealMutex, ScanHolder, ReadHolder,
     DropHolder, DropTxDir, ScanReadLocksAndSessions, CheckReaders, MakeTxDir,
     WriteHolder, CheckWriter, WriteReadLock, Refused, Retry, ReleaseTx, ReleaseTxDir,
     AbandonTx, ReleaseRead, ExitAbnormally, Decide, StartSession, Request,
     ShutdownClean, GiveUp, Crash, Kill
<1>7. pc[s] = "writing" => ReleaseTx(s) \/ Crash(s) \/ Kill(s)
  BY DEF Work, AcquireMutex, MutexTimeout, StealMutex, ScanHolder, ReadHolder,
     DropHolder, DropTxDir, ScanReadLocksAndSessions, CheckReaders, MakeTxDir,
     WriteHolder, CheckWriter, WriteReadLock, Granted, Refused, Retry, ReleaseTxDir,
     AbandonTx, ReleaseRead, ExitAbnormally, Decide, StartSession, Request,
     ShutdownClean, GiveUp
<1>8. pc[s] = "reading" => ReleaseRead(s) \/ Crash(s) \/ Kill(s)
  BY DEF Work, AcquireMutex, MutexTimeout, StealMutex, ScanHolder, ReadHolder,
     DropHolder, DropTxDir, ScanReadLocksAndSessions, CheckReaders, MakeTxDir,
     WriteHolder, CheckWriter, WriteReadLock, Granted, Refused, Retry, ReleaseTx,
     ReleaseTxDir, AbandonTx, ExitAbnormally, Decide, StartSession, Request,
     ShutdownClean, GiveUp
<1>9. QED
  BY <1>1, <1>2, <1>3, <1>4, <1>5, <1>6, <1>7, <1>8

\* The directories, files and cleanups behave like one shared/exclusive lock, up to
\* the step that creates a tx.lock under a pending removal, if one ever does.
THEOREM Refinement == QuietMutex => (Spec => RefinesRWLock)
<1> SUFFICES ASSUME QuietMutex
             PROVE  Spec => RefinesRWLock
  OBVIOUS
<1>1. Inv /\ [Next]_vars => [overtaken' \/ RW!Next]_(RW!lockVars)
  <2> SUFFICES ASSUME Inv, [Next]_vars, ~overtaken'
               PROVE  RW!Next \/ UNCHANGED <<Writers, Readers>>
    BY DEF RW!lockVars
  <2>1. CASE UNCHANGED vars
    BY <2>1 DEF vars, Writers, Readers
  <2>2. CASE Next
    <3>1. ~overtaken
      BY <2>2, OvertakenStays
    <3>2. QED
      BY <2>2, <3>1, StepRefines DEF Next
  <2>3. QED
    BY <2>1, <2>2
<1>2. QED
  BY <1>1, InitRefines, Invariance, PTL DEF Spec, RefinesRWLock

-----------------------------------------------------------------------------
\* A granted read lock is on its way to a reader.
LeftoverInv ==
    /\ NoLeftoverReadLock
    /\ \A s \in Session :
          /\ pc[s] = "granted" /\ s \in readLocks => want[s] = "read"
          /\ pc[s] = "writeRead" => want[s] = "read"

\* Whoever is killed and wherever, mutex or not: a read lock file belongs to a
\* command that reads or to a process that died (acquireReadLock, releasePath).
THEOREM ReadLocksCollected == Spec => []NoLeftoverReadLock
<1> USE DEF LeftoverInv, NoLeftoverReadLock, TypeOK, Goto, files
<1>1. Init => LeftoverInv
  BY DEF Init
<1>2. LeftoverInv /\ TypeOK /\ [Next]_vars => LeftoverInv'
  <2> SUFFICES ASSUME LeftoverInv, TypeOK, [Next]_vars
               PROVE  LeftoverInv'
    OBVIOUS
  <2>1. CASE UNCHANGED vars
    BY <2>1 DEF vars
  <2>2. ASSUME NEW s \in Session, Work(s)
        PROVE  LeftoverInv'
    <3>1. /\ pc' = [pc EXCEPT ![s] = pc'[s]]
          /\ readLocks' \ {s} \subseteq readLocks
          /\ UNCHANGED want
      BY <2>2 DEF Work, AcquireMutex, MutexTimeout, StealMutex, ScanHolder, ReadHolder,
         DropHolder, DropTxDir, ScanReadLocksAndSessions, CheckReaders, MakeTxDir,
         WriteHolder, CheckWriter, WriteReadLock, Granted, Refused, Retry, ReleaseTx,
         ReleaseTxDir, AbandonTx, ReleaseRead, ExitAbnormally
    <3>2. /\ s \in readLocks' => pc'[s] \in {"reading", "granted", "crashed", "dead"}
          /\ pc'[s] = "granted" /\ s \in readLocks' => want[s] = "read"
          /\ pc'[s] = "writeRead" => want[s] = "read"
      BY <2>2 DEF Work, AcquireMutex, MutexTimeout, StealMutex, ScanHolder, ReadHolder,
         DropHolder, DropTxDir, ScanReadLocksAndSessions, CheckReaders, MakeTxDir,
         WriteHolder, CheckWriter, WriteReadLock, Granted, Refused, Retry, ReleaseTx,
         ReleaseTxDir, AbandonTx, ReleaseRead, ExitAbnormally
    <3> QED
      BY <3>1, <3>2
  <2>3. ASSUME NEW s \in Session, Decide(s)
        PROVE  LeftoverInv'
    BY <2>3 DEF Decide, StartSession, Request, ShutdownClean, GiveUp, Crash, Kill
  <2> QED
    BY <2>1, <2>2, <2>3 DEF Next
<1> QED
  BY <1>1, <1>2, TypeCorrect, PTL DEF Spec
=============================================================================
