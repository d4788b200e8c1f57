---------------------------- MODULE Coordinator ----------------------------
(***************************************************************************)
(* The volume coordinator (src/src/coordinator.cpp): how independent       *)
(* ScopeFS processes share one volume with nothing but directories and     *)
(* files under .scopefs/.                                                  *)
(*                                                                         *)
(*   scopefs.lock/          a short mutex; whoever creates the directory   *)
(*                          holds it                        (mutexDir)     *)
(*   tx.lock/  + holder     the exclusive transaction lock  (txDir,holder) *)
(*   read_locks/read_*.lock one file per shared lock        (readLocks)    *)
(*   sessions/*.session     one file per running process    (sessionFiles) *)
(*                                                                         *)
(* One step is one visible effect on the file system.  Locks are taken     *)
(* inside the mutex and released outside it.  A process that dies leaves   *)
(* its files behind, and the next one to enter the mutex judges them       *)
(* stale by their process being gone.  A session id belongs to one         *)
(* process, so a dead session never returns.                               *)
(***************************************************************************)
EXTENDS Naturals

CONSTANTS
    Session,    \* session ids, one per process ever started
    NoSession,  \* "no holder file"
    KillAt,     \* the program points where the OS may kill the process
    StealLive,  \* may acquireMutex's 5 s deadline expire on a live holder?
    Impatient   \* may a waiter reach SCOPEFS_LOCK_TIMEOUT_MS and give up?

VARIABLES
    pc,            \* where each process is in the coordinator's code
    want,          \* the kind of lock each process asks for
    overdue,       \* waiters whose 5 s in acquireMutex are over
    mutexDir,      \* does scopefs.lock exist?
    txDir,         \* does tx.lock exist?
    holder,        \* the session named in tx.lock/holder, or NoSession
    readLocks,     \* the sessions with a file in read_locks
    sessionFiles,  \* the sessions with a file in sessions
    overtaken      \* history: has tx.lock ever been created anew while the last
                   \* one to hold it was still removing it?  No action reads it.

vars == <<pc, want, overdue, mutexDir, txDir, holder, readLocks, sessionFiles, overtaken>>
files == <<mutexDir, txDir, holder, readLocks, sessionFiles>>

\* Inside the scope of the mutex that acquireTxLock / acquireReadLock open.
MutexPoints == {"scanTx", "readHolder", "dropHolder", "dropDir", "scanRest",
                "check", "mkdir", "writeHolder", "writeRead", "granted", "refused"}

\* Inside releasePath, outside the mutex: tx.lock/holder is unlinked, tx.lock is not.
Removing == {"rmTxDir", "retryTx"}

\* From the request until the lock is returned or refused for good.
TryPoints == {"wait", "steal", "polling"} \union MutexPoints

Points == {"off", "idle", "writing", "reading", "crashed", "dead"}
              \union Removing \union TryPoints

\* Where a CrashException can unwind the process: every crash point is in the
\* kernel, before a command's lock is asked for or while it is held.
CrashPoints == {"idle", "writing", "reading"}

ASSUME CoordAssumption ==
    /\ NoSession \notin Session
    /\ KillAt \subseteq Points \ {"off", "dead"}
    /\ StealLive \in BOOLEAN
    /\ Impatient \in BOOLEAN

-----------------------------------------------------------------------------
\* isPidAlive: a crashed process is alive until its main returns.
IsPidAlive(s) == pc[s] \notin {"off", "dead"}

\* Mutant: a staleness test that forgets to ask whether the process still runs.
IsRecordStaleNoPid(t, s) == t # s /\ t \notin sessionFiles

\* Mutant: a staleness test that takes a record as stale while its process runs.
IsRecordStaleEager(t, s) == t # s

\* isRecordStale, of a record of session t, asked by session s.
IsRecordStale(t, s) ==
    /\ t # s
    /\ ~IsPidAlive(t) \/ t \notin sessionFiles

Goto(s, p) == pc' = [pc EXCEPT ![s] = p]

Init ==
    /\ pc = [s \in Session |-> "off"]
    /\ want = [s \in Session |-> "tx"]
    /\ overdue = {}
    /\ mutexDir = FALSE
    /\ txDir = FALSE
    /\ holder = NoSession
    /\ readLocks = {}
    /\ sessionFiles = {}
    /\ overtaken = FALSE

-----------------------------------------------------------------------------
(* Sessions *)

StartSession(s) ==
    /\ pc[s] = "off"
    /\ Goto(s, "idle")
    /\ sessionFiles' = sessionFiles \union {s}
    /\ UNCHANGED <<want, overdue, mutexDir, txDir, holder, readLocks, overtaken>>

\* A command (or boot, or unmount) enters the coordinator: heartbeat rewrites
\* the session file, then a lock of kind k is asked for.
Request(s, k) ==
    /\ pc[s] = "idle"
    /\ Goto(s, "wait")
    /\ want' = [want EXCEPT ![s] = k]
    /\ sessionFiles' = sessionFiles \union {s}
    /\ UNCHANGED <<overdue, mutexDir, txDir, holder, readLocks, overtaken>>

\* shutdownClean, after which main returns.
ShutdownClean(s) ==
    /\ pc[s] = "idle"
    /\ Goto(s, "dead")
    /\ sessionFiles' = sessionFiles \ {s}
    /\ UNCHANGED <<want, overdue, mutexDir, txDir, holder, readLocks, overtaken>>

-----------------------------------------------------------------------------
(* The mutex *)

AcquireMutex(s) ==
    /\ pc[s] = "wait"
    /\ ~mutexDir
    /\ mutexDir' = TRUE
    /\ overdue' = overdue \ {s}
    /\ Goto(s, "scanTx")
    /\ UNCHANGED <<want, txDir, holder, readLocks, sessionFiles, overtaken>>

\* The directory could not be created and 5 s have gone by: the waiter decides
\* to remove it.  Unless StealLive, sections are taken to be short enough that
\* the 5 s run out only when no running process is inside the mutex.  The
\* deadline is not set anew: from then on every failed attempt is overdue.
MutexTimeout(s) ==
    /\ pc[s] = "wait"
    /\ mutexDir
    /\ StealLive \/ s \in overdue \/ \A t \in Session : pc[t] \notin MutexPoints
    /\ overdue' = overdue \union {s}
    /\ Goto(s, "steal")
    /\ UNCHANGED <<want, overtaken, files>>

\* ... and removes whatever directory is there by then.
StealMutex(s) ==
    /\ pc[s] = "steal"
    /\ mutexDir' = FALSE
    /\ Goto(s, "wait")
    /\ UNCHANGED <<want, overdue, txDir, holder, readLocks, sessionFiles, overtaken>>

-----------------------------------------------------------------------------
(* cleanupStaleLocksUnlocked, at the start of every attempt *)

\* exists(tx.lock/holder) ...
ScanHolder(s) ==
    /\ pc[s] = "scanTx"
    /\ Goto(s, IF holder # NoSession THEN "readHolder" ELSE "scanRest")
    /\ UNCHANGED <<want, overdue, overtaken, files>>

\* ... and only then readRecord.  A file that its owner has unlinked meanwhile
\* (releasePath takes no mutex) reads as the default record, whose pid 0 is no
\* process: stale.
ReadHolder(s) ==
    /\ pc[s] = "readHolder"
    /\ Goto(s, IF holder = NoSession \/ IsRecordStale(holder, s)
               THEN "dropHolder" ELSE "scanRest")
    /\ UNCHANGED <<want, overdue, overtaken, files>>

\* drop(txDir) removes the file first and the directory after it.
DropHolder(s) ==
    /\ pc[s] = "dropHolder"
    /\ holder' = NoSession
    /\ Goto(s, "dropDir")
    /\ UNCHANGED <<want, overdue, mutexDir, txDir, readLocks, sessionFiles, overtaken>>

\* removeAllRetry: a directory with a holder in it again cannot be removed, and
\* the removal starts over.
DropTxDir(s) ==
    /\ pc[s] = "dropDir"
    /\ txDir' = (txDir /\ holder # NoSession)
    /\ Goto(s, IF txDir' THEN "dropHolder" ELSE "scanRest")
    /\ UNCHANGED <<want, overdue, mutexDir, holder, readLocks, sessionFiles, overtaken>>

ScanReadLocksAndSessions(s) ==
    /\ pc[s] = "scanRest"
    /\ readLocks' = {t \in readLocks : ~IsRecordStale(t, s)}
    /\ sessionFiles' = {t \in sessionFiles : ~IsRecordStale(t, s)}
    /\ Goto(s, "check")
    /\ UNCHANGED <<want, overdue, mutexDir, txDir, holder, overtaken>>

-----------------------------------------------------------------------------
(* acquireTxLock *)

\* Mutant: a writer that does not look for readers.
CheckReadersBlind(s) ==
    /\ pc[s] = "check"
    /\ want[s] = "tx"
    /\ Goto(s, "mkdir")
    /\ UNCHANGED <<want, overdue, overtaken, files>>

CheckReaders(s) ==
    /\ pc[s] = "check"
    /\ want[s] = "tx"
    /\ Goto(s, IF \E t \in readLocks \ {s} : ~IsRecordStale(t, s)
               THEN "refused" ELSE "mkdir")
    /\ UNCHANGED <<want, overdue, overtaken, files>>

\* What the properties remember of a tx.lock created under a pending removal.
NoteOvertaking ==
    overtaken' = \/ overtaken
                 \/ ~txDir /\ \E t \in Session : pc[t] \in Removing

\* Mutant: a directory creation whose failure is ignored.
MakeTxDirAnyway(s) ==
    /\ pc[s] = "mkdir"
    /\ txDir' = TRUE
    /\ Goto(s, "writeHolder")
    /\ NoteOvertaking
    /\ UNCHANGED <<want, overdue, mutexDir, holder, readLocks, sessionFiles>>

MakeTxDir(s) ==
    /\ pc[s] = "mkdir"
    /\ txDir' = TRUE
    /\ Goto(s, IF txDir THEN "refused" ELSE "writeHolder")
    /\ NoteOvertaking
    /\ UNCHANGED <<want, overdue, mutexDir, holder, readLocks, sessionFiles>>

\* Mutant: a holder record with its fields in the wrong order.
WriteHolderWrongField(s) ==
    /\ pc[s] = "writeHolder"
    /\ holder' = want[s]
    /\ Goto(s, "granted")
    /\ UNCHANGED <<want, overdue, mutexDir, txDir, readLocks, sessionFiles, overtaken>>

\* Writing into a directory that has been removed meanwhile fails silently.
WriteHolder(s) ==
    /\ pc[s] = "writeHolder"
    /\ holder' = IF txDir THEN s ELSE holder
    /\ Goto(s, "granted")
    /\ UNCHANGED <<want, overdue, mutexDir, txDir, readLocks, sessionFiles, overtaken>>

-----------------------------------------------------------------------------
(* acquireReadLock *)

\* exists, then readRecord, as in the cleanup; but a holder unlinked between the
\* two reads as stale, which is the answer of a holder unlinked before, so one
\* step says the same.
CheckWriter(s) ==
    /\ pc[s] = "check"
    /\ want[s] = "read"
    /\ Goto(s, IF holder # NoSession /\ ~IsRecordStale(holder, s)
               THEN "refused" ELSE "writeRead")
    /\ UNCHANGED <<want, overdue, overtaken, files>>

WriteReadLock(s) ==
    /\ pc[s] = "writeRead"
    /\ readLocks' = readLocks \union {s}
    /\ Goto(s, "granted")
    /\ UNCHANGED <<want, overdue, mutexDir, txDir, holder, sessionFiles, overtaken>>

-----------------------------------------------------------------------------
(* Leaving the mutex, and the polling loop around it *)

Granted(s) ==
    /\ pc[s] = "granted"
    /\ mutexDir' = FALSE
    /\ Goto(s, IF want[s] = "tx" THEN "writing" ELSE "reading")
    /\ UNCHANGED <<want, overdue, txDir, holder, readLocks, sessionFiles, overtaken>>

Refused(s) ==
    /\ pc[s] = "refused"
    /\ mutexDir' = FALSE
    /\ Goto(s, "polling")
    /\ UNCHANGED <<want, overdue, txDir, holder, readLocks, sessionFiles, overtaken>>

Retry(s) ==
    /\ pc[s] = "polling"
    /\ Goto(s, "wait")
    /\ UNCHANGED <<want, overdue, overtaken, files>>

\* E_LOCK_BUSY: only after at least one attempt.
GiveUp(s) ==
    /\ Impatient
    /\ pc[s] = "polling"
    /\ Goto(s, "idle")
    /\ UNCHANGED <<want, overdue, overtaken, files>>

-----------------------------------------------------------------------------
(* releasePath, which takes no mutex *)

\* Mutant: a release that removes the holder file and forgets the directory.
ReleaseTxHalf(s) ==
    /\ pc[s] = "writing"
    /\ holder' = NoSession
    /\ Goto(s, "idle")
    /\ UNCHANGED <<want, overdue, mutexDir, txDir, readLocks, sessionFiles, overtaken>>

\* remove_all of tx.lock: it removes what it finds inside, whoever wrote that,
\* and finds nothing to do when tx.lock is gone.  First try, or a later one.
ReleaseTx(s) ==
    /\ pc[s] \in {"writing", "retryTx"}
    /\ holder' = NoSession
    /\ Goto(s, IF txDir THEN "rmTxDir" ELSE "idle")
    /\ UNCHANGED <<want, overdue, mutexDir, txDir, readLocks, sessionFiles, overtaken>>

\* The directory goes if it is empty; if it has a holder again, the try has failed.
ReleaseTxDir(s) ==
    /\ pc[s] = "rmTxDir"
    /\ txDir' = (txDir /\ holder # NoSession)
    /\ Goto(s, IF txDir' THEN "retryTx" ELSE "idle")
    /\ UNCHANGED <<want, overdue, mutexDir, holder, readLocks, sessionFiles, overtaken>>

\* removeAllRetry gives up after eight failed tries; they are not counted here.
AbandonTx(s) ==
    /\ pc[s] = "retryTx"
    /\ Goto(s, "idle")
    /\ UNCHANGED <<want, overdue, overtaken, files>>

\* Mutant: a release of a read lock that leaves its file behind.
ReleaseReadKeep(s) ==
    /\ pc[s] = "reading"
    /\ Goto(s, "idle")
    /\ UNCHANGED <<want, overdue, overtaken, files>>

ReleaseRead(s) ==
    /\ pc[s] = "reading"
    /\ readLocks' = readLocks \ {s}
    /\ Goto(s, "idle")
    /\ UNCHANGED <<want, overdue, mutexDir, txDir, holder, sessionFiles, overtaken>>

-----------------------------------------------------------------------------
(* Death: a CrashException (markAbnormalExit makes releasePath do nothing, so  *)
(* every file stays; the process is alive until main has returned), or a kill. *)

Crash(s) ==
    /\ pc[s] \in CrashPoints
    /\ Goto(s, "crashed")
    /\ UNCHANGED <<want, overdue, overtaken, files>>

ExitAbnormally(s) ==
    /\ pc[s] = "crashed"
    /\ Goto(s, "dead")
    /\ UNCHANGED <<want, overdue, overtaken, files>>

Kill(s) ==
    /\ pc[s] \in KillAt
    /\ Goto(s, "dead")
    /\ UNCHANGED <<want, overdue, overtaken, files>>

-----------------------------------------------------------------------------
\* What a process does once it has entered the coordinator, and must go on doing.
Work(s) ==
    \/ AcquireMutex(s)
    \/ MutexTimeout(s)
    \/ StealMutex(s)
    \/ ScanHolder(s)
    \/ ReadHolder(s)
    \/ DropHolder(s)
    \/ DropTxDir(s)
    \/ ScanReadLocksAndSessions(s)
    \/ CheckReaders(s)
    \/ MakeTxDir(s)
    \/ WriteHolder(s)
    \/ CheckWriter(s)
    \/ WriteReadLock(s)
    \/ Granted(s)
    \/ Refused(s)
    \/ Retry(s)
    \/ ReleaseTx(s)
    \/ ReleaseTxDir(s)
    \/ AbandonTx(s)
    \/ ReleaseRead(s)
    \/ ExitAbnormally(s)

\* What the user, or the world outside, decides.
Decide(s) ==
    \/ StartSession(s)
    \/ \E k \in {"tx", "read"} : Request(s, k)
    \/ ShutdownClean(s)
    \/ GiveUp(s)
    \/ Crash(s)
    \/ Kill(s)

Next == \E s \in Session : Work(s) \/ Decide(s)

Spec == Init /\ [][Next]_vars

\* A running process is scheduled, and no command holds its lock for ever.
Fairness == \A s \in Session : WF_vars(Work(s))

FairSpec == Spec /\ Fairness

-----------------------------------------------------------------------------
(* Properties *)

\* Every variable has its type; what is read back from a holder file is a session.
TypeOK ==
    /\ pc \in [Session -> Points]
    /\ want \in [Session -> {"tx", "read"}]
    /\ overdue \subseteq Session
    /\ mutexDir \in BOOLEAN
    /\ txDir \in BOOLEAN
    /\ holder \in Session \union {NoSession}
    /\ readLocks \subseteq Session
    /\ sessionFiles \subseteq Session
    /\ overtaken \in BOOLEAN

Writers == {s \in Session : pc[s] = "writing"}
Readers == {s \in Session : pc[s] = "reading"}

\* The abstract lock that the protocol on directories and files stands for.
RW == INSTANCE RWLock WITH writers <- Writers, readers <- Readers

\* Until a tx.lock is created while its last holder is still removing it
\* (cleanupStaleLocksUnlocked against releasePath: see ReadHolder), every
\* step of the protocol is a step of the shared/exclusive lock or no step of it
\* (acquireTxLock, acquireReadLock, releasePath and the death of a holder).
RefinesRWLock == RW!Init /\ [][overtaken' \/ RW!Next]_(RW!lockVars)

\* Until then at most one command writes the volume, and none reads it meanwhile,
\* whoever crashed before and whatever else the stale cleanup removed.
Exclusion == overtaken \/ RW!Exclusion

\* "concurrent different-file tx serialization" (qa/concurrent_locks.ps1:61): two
\* terminals' transactions run one after the other, at the least as long as no
\* tx.lock is created while the one before is still being removed.
SerializedUntilOvertaken == overtaken \/ RW!SingleWriter

\* The files of a process that holds a lock are on disk as it left them: no
\* stale cleanup, unlink or mutex timeout of another process took them away; the
\* transaction lock's, until a tx.lock is created under a pending removal.
LocksOnDisk == \A s \in Session :
    /\ IsPidAlive(s) => s \in sessionFiles
    /\ pc[s] = "writing" => overtaken \/ (txDir /\ holder = s)
    /\ pc[s] = "reading" => s \in readLocks

\* A read lock file outlives its command only if the process died in it, and
\* then only until somebody has been through the cleanup.
NoLeftoverReadLock == \A s \in readLocks :
    pc[s] \in {"reading", "granted", "crashed", "dead"}

Trying(s) == pc[s] \in TryPoints
Quiet(s) == pc[s] \in {"off", "idle", "dead"}

\* Not everybody waits on everybody: when some session wants a lock, some
\* session gets one (or the last one that wanted it was killed).
Progress == (\E s \in Session : Trying(s)) ~>
                \/ Writers \union Readers # {}
                \/ ~\E s \in Session : Trying(s)

\* Whatever the dead left behind, a session whose peers all keep quiet gets
\* the lock it asks for: it is never for ever alone and still waiting.
AloneGetsLock == \A s \in Session :
    []<>~(Trying(s) /\ \A t \in Session \ {s} : Quiet(t))
=============================================================================
