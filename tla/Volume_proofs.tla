--------------------------- MODULE Volume_proofs ---------------------------
(***************************************************************************)
(* Type correctness, exclusive writing and crash consistency of the        *)
(* transaction path, and what the terminals rely on besides the commit:    *)
(* transaction ids, the mark of a clean volume, and the copies that        *)
(* readers work on.  For any number of terminals and mutations.            *)
(***************************************************************************)
EXTENDS Volume, TLAPS

RecoverPoints == {"redone", "recCleared", "recSaved"}

\* From the taking of the transaction lock to its release.
WritePoints == RecoverPoints \union {"opening", "openSaved"} \union TxPoints
                   \union {"closing", "closeSaved", "closeCleared"}

\* In a transaction that has its id.
InTx == {"begun", "jbegin", "jbefore", "mutated", "jafter", "jcommit", "saved", "ckpt"}

\* Nothing is done to an image that is not there.
MountInv == \A s \in Terminal :
    /\ mounted[s] => vol # NoVolume /\ mem[s] # NoVolume
    /\ ~mounted[s] => pc[s] \in {"off", "boot", "idle"} \/
                      (pc[s] \in {"txWait", "txOpen"} /\ kind[s] = "format")
    /\ pc[s] \in InTx => mem[s].next >= 1 /\ op[s] \in used

TypeInv == TypeOK /\ MountInv

-----------------------------------------------------------------------------
\* What the recovery makes of a volume is a volume.
LEMMA LastImageType ==
    ASSUME NEW v \in Image, NEW after, after \in [DOMAIN after -> Image],
           NEW ids \in SUBSET DOMAIN after
    PROVE  LastImage(v, after, ids) \in Image
<1> DEFINE last == {t \in ids : \A u \in ids : u <= t}
<1>1. CASE last = {}
  BY <1>1 DEF LastImage
<1>2. CASE last # {}
  <2>1. (CHOOSE t \in last : TRUE) \in DOMAIN after
    BY <1>2
  <2>2. LastImage(v, after, ids) = after[CHOOSE t \in last : TRUE]
    BY <1>2 DEF LastImage
  <2> QED
    BY <2>1, <2>2
<1> QED
  BY <1>1, <1>2

LEMMA RecoveredType ==
    ASSUME JournalOK, vol \in Image
    PROVE  Recovered(vol, journal) \in Image
BY LastImageType DEF Recovered, JournalOK

LEMMA BegunType ==
    ASSUME NEW image \in Image
    PROVE  Begun(image) \in Image /\ Begun(image).next >= 1
BY DEF Begun, Image, TxId, MountState

LEMMA FreshType == \A o \in Op : FreshImage(o) \in Image
BY DEF FreshImage, Image, TxId, MountState

LEMMA InitType == Init => TypeInv
BY VolumeAssumption DEF Init, TypeInv, TypeOK, MountInv, JournalOK, EmptyJournal, FormattedImage, Image, TxId,
   MountState, Lock!Init, Lock!TypeOK, Points, InTx

LEMMA BootType == ASSUME TypeInv, NEW s \in Terminal, Boot(s) PROVE TypeInv'
<1> USE VolumeAssumption DEF TypeInv, TypeOK, MountInv, disk, locks, ghosts, Goto, Remember,
        Points, BootPoints, TxPoints, ClosePoints, InTx, Lock!TypeOK, Bump
<1>1. CASE StartSession(s)
  BY <1>1 DEF StartSession, JournalOK
<1>2. CASE BootRead(s)
  <2>1. CASE vol = NoVolume
    BY <1>2, <2>1 DEF BootRead, JournalOK
  <2>2. CASE vol # NoVolume
    <3>1. mounted' = [mounted EXCEPT ![s] = TRUE]
      BY <1>2, <2>2 DEF BootRead
    <3> QED
      BY <1>2, <2>2, <3>1 DEF BootRead, JournalOK
  <2> QED
    BY <2>1, <2>2
<1>11. CASE LookAtJournal(s)
  BY <1>11 DEF LookAtJournal, JournalOK
<1>3. CASE RecoverNothing(s)
  BY <1>3 DEF RecoverNothing, JournalOK
<1>4. CASE Redo(s)
  <2>1. [Recovered(vol, journal) EXCEPT !.mount = "dirty"] \in Image
    BY <1>4, RecoveredType DEF Redo, Image, MountState
  <2> QED
    BY <1>4, <2>1 DEF Redo, JournalOK, Lock!AcquireWrite
<1>5. CASE RecoveryClear(s)
  BY <1>5 DEF RecoveryClear, WriteJournal, JournalOK, EmptyJournal
<1>6. CASE RecoverySave(s)
  BY <1>6 DEF RecoverySave, Save, JournalOK
<1>7. CASE RecoveryEnd(s)
  BY <1>7 DEF RecoveryEnd, JournalOK, Lock!LeaveWrite
<1>8. CASE OpenVolume(s)
  <2>1. [vol EXCEPT !.mount = "dirty"] \in Image
    BY <1>8 DEF OpenVolume, Image, MountState
  <2> QED
    BY <1>8, <2>1 DEF OpenVolume, JournalOK, Lock!AcquireWrite
<1>9. CASE OpenSave(s)
  BY <1>9 DEF OpenSave, Save, JournalOK
<1>10. CASE OpenEnd(s)
  BY <1>10 DEF OpenEnd, JournalOK, Lock!LeaveWrite
<1> QED
  BY <1>1, <1>2, <1>3, <1>4, <1>5, <1>6, <1>7, <1>8, <1>9, <1>10, <1>11 DEF Boot

LEMMA MutationType == ASSUME TypeInv, NEW s \in Terminal, Mutation(s) PROVE TypeInv'
<1> USE VolumeAssumption DEF TypeInv, TypeOK, MountInv, disk, locks, ghosts, Goto, Remember,
        Points, BootPoints, TxPoints, ClosePoints, InTx, Lock!TypeOK, Bump
<1>1. ASSUME NEW k \in Kinds, DispatchMutation(s, k)
      PROVE  TypeInv'
  BY <1>1 DEF DispatchMutation, JournalOK
<1>2. CASE LockAndReload(s)
  BY <1>2 DEF LockAndReload, JournalOK, Lock!AcquireWrite
<1>3. CASE Refuse(s)
  BY <1>3 DEF Refuse, JournalOK, Lock!LeaveWrite
<1>4. ASSUME NEW o \in Op, BeginTx(s, o)
      PROVE  TypeInv'
  <2>1. mem[s] \in Image
    BY <1>4 DEF BeginTx, StartFrom
  <2>2. Begun(mem[s]) \in Image /\ Begun(mem[s]).next >= 1
    BY <2>1, BegunType
  <2> QED
    BY <1>4, <2>2 DEF BeginTx, StartFrom, JournalOK
<1>5. ASSUME NEW o \in Op, BeginFormat(s, o)
      PROVE  TypeInv'
  <2>1. Begun(FreshImage(o)) \in Image /\ Begun(FreshImage(o)).next >= 1
    BY BegunType, FreshType
  <2> QED
    BY <1>5, <2>1 DEF BeginFormat, StartFrom, JournalOK
<1>6. ASSUME NEW o \in Op, SaveDirectly(s, o)
      PROVE  TypeInv'
  <2> DEFINE image == [mem[s] EXCEPT !.ops = @ \union {o}]
  <2>1. image \in Image
    BY <1>6 DEF SaveDirectly, Image
  <2>3. /\ pc[s] = "txOpen" /\ kind[s] = "direct"
        /\ mem' = [mem EXCEPT ![s] = image] /\ vol' = image
        /\ Goto(s, "dsaved")
        /\ used' = used \union {o}
        /\ op' = [op EXCEPT ![s] = o]
        /\ committed' = committed \union {o}
        /\ UNCHANGED <<journal, writers, readers, kind, mounted, fresh, doomed>>
    BY <1>6 DEF SaveDirectly
  <2> HIDE DEF image
  <2>5. image # NoVolume
    BY <2>1
  <2>6. TypeOK'
    BY <2>1, <2>3 DEF JournalOK
  <2>7. MountInv'
    BY <2>1, <2>3, <2>5
  <2> QED
    BY <2>6, <2>7
<1>7. CASE JournalBegin(s)
  <2>1. Txid(s) \in TxId
    BY <1>7 DEF JournalBegin, WriteJournal, Txid, Image, TxId
  <2> QED
    BY <1>7, <2>1 DEF JournalBegin, WriteJournal, JournalOK
<1>8. CASE JournalBefore(s)
  BY <1>8 DEF JournalBefore, WriteJournal, JournalOK
<1>9. CASE Mutate(s)
  <2> DEFINE image == [mem[s] EXCEPT !.ops = @ \union {op[s]}]
  <2>1. image \in Image /\ image.next >= 1
    BY <1>9 DEF Mutate, Image
  <2>3. /\ pc[s] = "jbefore"
        /\ mem' = [mem EXCEPT ![s] = image]
        /\ Goto(s, "mutated")
        /\ UNCHANGED <<vol, journal, writers, readers, kind, mounted, fresh, doomed,
                       op, used, committed>>
    BY <1>9 DEF Mutate
  <2> HIDE DEF image
  <2>5. image # NoVolume
    BY <2>1
  <2>6. TypeOK'
    BY <2>1, <2>3 DEF JournalOK
  <2>7. MountInv'
    BY <2>1, <2>3, <2>5
  <2> QED
    BY <2>6, <2>7
<1>10. CASE FailMidway(s)
  <2>1. PICK partial \in SUBSET {op[s]} :
           Remember(s, [mem[s] EXCEPT !.ops = @ \union partial])
    BY <1>10 DEF FailMidway
  <2> DEFINE image == [mem[s] EXCEPT !.ops = @ \union partial]
  <2>2. op[s] \in Op /\ mem[s] \in Image
    BY <1>10 DEF FailMidway
  <2>3. image \in Image
    BY <2>2 DEF Image
  <2>4. /\ pc[s] = "jbefore"
        /\ mem' = [mem EXCEPT ![s] = image]
        /\ writers' = writers \ {s}
        /\ Goto(s, "idle")
        /\ UNCHANGED <<vol, journal, readers, kind, mounted, fresh, doomed,
                       op, used, committed>>
    BY <1>10, <2>1 DEF FailMidway, Lock!LeaveWrite
  <2> HIDE DEF image
  <2>5. image # NoVolume
    BY <2>3
  <2>6. TypeOK'
    BY <2>3, <2>4 DEF JournalOK
  <2>7. MountInv'
    BY <2>3, <2>4, <2>5
  <2> QED
    BY <2>6, <2>7
<1>11. CASE JournalAfter(s)
  <2>1. Txid(s) \in TxId /\ mem[s] \in Image
    BY <1>11 DEF JournalAfter, WriteJournal, Txid, Image, TxId
  <2>2. WithAfter(journal.after, Txid(s), mem[s])
           \in [DOMAIN journal.after \union {Txid(s)} -> Image]
    BY <2>1 DEF WithAfter, JournalOK
  <2>3. journal'.after = WithAfter(journal.after, Txid(s), mem[s])
    BY <1>11 DEF JournalAfter, WriteJournal, JournalOK
  <2>4. JournalOK'
    BY <1>11, <2>1, <2>2, <2>3 DEF JournalAfter, WriteJournal, JournalOK
  <2> QED
    BY <1>11, <2>4 DEF JournalAfter, WriteJournal
<1>12. CASE JournalCommit(s)
  <2>1. Txid(s) \in TxId
    BY <1>12 DEF JournalCommit, WriteJournal, Txid, Image, TxId
  <2> QED
    BY <1>12, <2>1 DEF JournalCommit, WriteJournal, JournalOK
<1>13. CASE Checkpoint(s)
  BY <1>13 DEF Checkpoint, Save, JournalOK
<1>14. CASE JournalCheckpoint(s)
  <2>1. Txid(s) \in TxId
    BY <1>14 DEF JournalCheckpoint, WriteJournal, Txid, Image, TxId
  <2> QED
    BY <1>14, <2>1 DEF JournalCheckpoint, WriteJournal, JournalOK
<1>15. CASE ClearJournal(s)
  BY <1>15 DEF ClearJournal, WriteJournal, JournalOK, EmptyJournal
<1>16. CASE BumpEpoch(s)
  BY <1>16 DEF BumpEpoch, JournalOK
<1>17. CASE EndMutation(s)
  BY <1>17 DEF EndMutation, JournalOK, Lock!LeaveWrite
<1> QED
  BY <1>1, <1>2, <1>3, <1>4, <1>5, <1>6, <1>7, <1>8, <1>9, <1>10, <1>11, <1>12, <1>13, <1>14,
     <1>15, <1>16, <1>17 DEF Mutation

LEMMA ReadingType == ASSUME TypeInv, NEW s \in Terminal, Reading(s) PROVE TypeInv'
BY VolumeAssumption DEF TypeInv, TypeOK, MountInv, disk, locks, ghosts, Goto, Remember,
   Points, BootPoints, TxPoints, ClosePoints, InTx, Lock!TypeOK, JournalOK, Reading,
   DispatchRead, LockAndRead, EndRead, ReadUnlocked, ReloadIfEpochChanged,
   Lock!AcquireRead, Lock!LeaveRead

LEMMA DieType ==
    ASSUME TypeInv, NEW dead \in SUBSET Terminal, Die(dead), doomed' \subseteq Terminal
    PROVE  TypeInv'
<1> USE VolumeAssumption DEF TypeInv, Die, disk
<1>1. mounted' \in [Terminal -> BOOLEAN]
  BY Zenon DEF TypeOK
<1>2. MountInv'
  BY DEF MountInv, InTx, TypeOK
<1>3. (JournalOK /\ Lock!TypeOK)'
  BY DEF TypeOK, JournalOK, Lock!TypeOK
<1> QED
  BY <1>1, <1>2, <1>3 DEF TypeOK, Points

LEMMA DyingType == ASSUME TypeInv, NEW s \in Terminal, Dying(s) PROVE TypeInv'
<1>1. doomed' \subseteq Terminal
  BY DEF Dying, InjectCrash, CrashOnSignal, Kill, TypeInv, TypeOK
<1> QED
  BY <1>1, DieType DEF Dying, InjectCrash, CrashOnSignal, Kill

LEMMA LeavingType == ASSUME TypeInv, NEW s \in Terminal, Leaving(s) PROVE TypeInv'
<1> USE VolumeAssumption DEF disk, locks, ghosts, Goto, Remember, Lock!TypeOK
<1>1. CASE Leave(s) \/ GiveUpProcess(s)
  <2>1. doomed' \subseteq Terminal
    BY <1>1 DEF Leave, GiveUpProcess, TypeInv, TypeOK
  <2> QED
    BY <1>1, <2>1, DieType DEF Leave, GiveUpProcess
<1> USE DEF TypeInv, TypeOK, MountInv, Points, BootPoints, TxPoints, ClosePoints, InTx
<1>2. CASE StartClose(s)
  BY <1>2 DEF StartClose, JournalOK
<1>3. CASE CloseVolume(s)
  <2>1. [vol EXCEPT !.mount = "clean"] \in Image
    BY <1>3 DEF CloseVolume, Image, MountState
  <2> QED
    BY <1>3, <2>1 DEF CloseVolume, JournalOK, Lock!AcquireWrite
<1>4. CASE CloseSave(s)
  BY <1>4 DEF CloseSave, Save, JournalOK
<1>5. CASE CloseClear(s)
  BY <1>5 DEF CloseClear, WriteJournal, JournalOK, EmptyJournal
<1>6. CASE CloseEnd(s)
  BY <1>6 DEF CloseEnd, JournalOK, Lock!LeaveWrite
<1>7. CASE GiveUpCommand(s)
  BY <1>7 DEF GiveUpCommand, JournalOK
<1> QED
  BY <1>1, <1>2, <1>3, <1>4, <1>5, <1>6, <1>7 DEF Leaving

LEMMA StepType == TypeInv /\ [Next]_vars => TypeInv'
<1> SUFFICES ASSUME TypeInv, [Next]_vars
             PROVE  TypeInv'
  OBVIOUS
<1>1. CASE UNCHANGED vars
  BY <1>1 DEF vars, TypeInv, TypeOK, MountInv, JournalOK, Lock!TypeOK
<1>2. CASE KillAll
  BY <1>2, DieType DEF KillAll
<1>3. ASSUME NEW s \in Terminal,
             Boot(s) \/ Mutation(s) \/ Reading(s) \/ Dying(s) \/ Leaving(s)
      PROVE  TypeInv'
  BY <1>3, BootType, MutationType, ReadingType, DyingType, LeavingType
<1> QED
  BY <1>1, <1>2, <1>3 DEF Next

\* A command works on a mounted volume only, so that every image that is saved,
\* recovered or reloaded is one, and transaction ids are numbers.
THEOREM VolumeType == Spec => []TypeInv
BY InitType, StepType, PTL DEF Spec

\* Every variable keeps its type, for any crashes and kills.
THEOREM TypeCorrect == Spec => []TypeOK
BY VolumeType, PTL DEF TypeInv

-----------------------------------------------------------------------------
\* Who is between two points of a transaction holds the transaction lock.
LockInv ==
    /\ \A s \in Terminal : s \in writers <=> pc[s] \in WritePoints
    /\ \A s \in Terminal : s \in readers <=> pc[s] = "reading"
    /\ Lock!SingleWriter

\* A transaction is committed and its journal not yet cleared.
Window == {"jcommit", "saved", "ckpt"}

\* No format, and no process dies alone inside the window while others live,
\* nor ever between the two halves of a recovery's last step.  Without this
\* Durable fails: see the run vol_survivor, and BeginFormat for the format.
QuietCommit ==
    /\ "format" \notin Kinds /\ Formats = {}
    /\ "recCleared" \notin KillAt \union KillAllAt
    /\ (InjectAt \union KillAt) \intersect Window = {} \/ \A s, t \in Terminal : s = t

\* After a crash, until a recovery clears the journal.
Aftermath == \A s \in Terminal : pc[s] \in {"off", "boot", "loaded", "recWait", "redone"}

NoFormat == \A s \in Terminal : kind[s] # "format"

\* The journal holds one committed transaction at most, and then all of it.
JournalInv ==
    /\ journal.checkpoint \subseteq journal.commit
    /\ journal.commit # {} =>
          /\ vol # NoVolume
          /\ \E t \in DOMAIN journal.after :
                journal.commit = {t} /\ journal.after[t].ops = committed
          /\ Aftermath \/ \E s \in Terminal : pc[s] \in Window
    /\ journal.checkpoint # {} => vol.ops = committed

\* With no committed transaction in the journal, the volume file says it all.
VolumeInv ==
    journal.commit = {} /\ (\A s \in Terminal : pc[s] # "recCleared") =>
        committed = IF vol = NoVolume THEN {} ELSE vol.ops

\* What the holder of the transaction lock has in memory.
MemInv == \A s \in Terminal :
    /\ pc[s] \in WritePoints \ {"mutated", "jafter"} => mem[s].ops = committed
    /\ pc[s] \in {"mutated", "jafter"} => mem[s].ops = committed \union {op[s]}
    /\ pc[s] \in {"begun", "jbegin", "jbefore", "mutated", "jafter"} =>
          op[s] \notin committed
    /\ pc[s] \in {"jafter", "jcommit", "saved", "ckpt"} =>
          Txid(s) \in DOMAIN journal.after /\ journal.after[Txid(s)] = mem[s]
    /\ pc[s] \in Window => journal.commit = {Txid(s)}
    /\ pc[s] \in {"recSaved", "saved", "ckpt"} => vol = mem[s]

CommitInv == LockInv /\ NoFormat /\ JournalInv /\ VolumeInv /\ MemInv

-----------------------------------------------------------------------------
LEMMA InitCommit == Init => CommitInv
BY VolumeAssumption DEF Init, CommitInv, LockInv, NoFormat, JournalInv, VolumeInv, MemInv, EmptyJournal,
   FormattedImage, Lock!Init, Lock!SingleWriter, WritePoints, RecoverPoints, TxPoints,
   Window, Image

\* The lock steps of every action are those of its program counter.
LEMMA LockStep == TypeInv /\ LockInv /\ [Next]_vars => LockInv'
<1> SUFFICES ASSUME TypeInv, LockInv, [Next]_vars
             PROVE  LockInv'
  OBVIOUS
<1> USE DEF TypeInv, TypeOK, LockInv, Lock!SingleWriter, Lock!TypeOK, WritePoints,
        RecoverPoints, TxPoints, Goto, Remember, locks, disk, ghosts
<1>1. CASE UNCHANGED vars
  BY <1>1 DEF vars
<1>2. ASSUME NEW dead \in SUBSET Terminal, Die(dead)
      PROVE  LockInv'
  BY <1>2 DEF Die
<1>3. ASSUME NEW s \in Terminal, Boot(s)
      PROVE  LockInv'
  BY <1>3 DEF Boot, StartSession, BootRead, LookAtJournal, RecoverNothing, Redo, RecoveryClear,
     RecoverySave, RecoveryEnd, OpenVolume, OpenSave, OpenEnd, Save, WriteJournal,
     Lock!AcquireWrite, Lock!LeaveWrite
<1>4. ASSUME NEW s \in Terminal, Mutation(s)
      PROVE  LockInv'
  BY <1>4 DEF Mutation, DispatchMutation, LockAndReload, Refuse, BeginTx, BeginFormat,
     SaveDirectly, JournalBegin, JournalBefore, Mutate, FailMidway, JournalAfter,
     JournalCommit, Checkpoint, JournalCheckpoint, ClearJournal, BumpEpoch, EndMutation,
     StartFrom, Save, WriteJournal, Lock!AcquireWrite, Lock!LeaveWrite
<1>5. ASSUME NEW s \in Terminal, Reading(s)
      PROVE  LockInv'
  BY <1>5 DEF Reading, DispatchRead, LockAndRead, EndRead, ReadUnlocked,
     Lock!AcquireRead, Lock!LeaveRead
<1>6. ASSUME NEW s \in Terminal, Leaving(s)
      PROVE  LockInv'
  <2>1. CASE Leave(s) \/ GiveUpProcess(s)
    BY <2>1, <1>2 DEF Leave, GiveUpProcess
  <2>2. CASE ~(Leave(s) \/ GiveUpProcess(s))
    BY <1>6, <2>2 DEF Leaving, StartClose, CloseVolume, CloseSave, CloseClear, CloseEnd,
       GiveUpCommand, Save, WriteJournal, Lock!AcquireWrite, Lock!LeaveWrite
  <2> QED
    BY <2>1, <2>2
<1>7. CASE KillAll
  BY <1>7, <1>2 DEF KillAll
<1>8. ASSUME NEW s \in Terminal, Dying(s)
      PROVE  LockInv'
  BY <1>8, <1>2 DEF Dying, InjectCrash, CrashOnSignal, Kill
<1> QED
  BY <1>1, <1>3, <1>4, <1>5, <1>6, <1>7, <1>8 DEF Next

-----------------------------------------------------------------------------
\* Read off the locks: a free lock has no holder, a taken one only one.
LEMMA FreeLock == ASSUME LockInv, writers = {} PROVE \A s \in Terminal : pc[s] \notin WritePoints
BY DEF LockInv

LEMMA OneWriter ==
    ASSUME LockInv, NEW s \in Terminal, NEW t \in Terminal,
           pc[s] \in WritePoints, pc[t] \in WritePoints
    PROVE  s = t
BY DEF LockInv, Lock!SingleWriter

\* What LastImage finds in a journal that holds one committed transaction.
LEMMA RecoveredOne ==
    ASSUME TypeInv, JournalInv
    PROVE  /\ journal.commit # {} => Recovered(vol, journal).ops = committed
           /\ journal.commit = {} => Recovered(vol, journal) = vol
<1>1. CASE journal.commit = {}
  BY <1>1 DEF Recovered, LastImage
<1>2. CASE journal.commit # {} /\ journal.checkpoint # {}
  <2>1. (journal.commit \ journal.checkpoint) \intersect DOMAIN journal.after = {}
    BY <1>2 DEF JournalInv
  <2>2. Recovered(vol, journal) = vol
    BY <2>1 DEF Recovered, LastImage
  <2> QED
    BY <1>2, <2>2 DEF JournalInv
<1>3. CASE journal.commit # {} /\ journal.checkpoint = {}
  <2>1. PICK t \in DOMAIN journal.after :
           journal.commit = {t} /\ journal.after[t].ops = committed
    BY <1>3 DEF JournalInv
  <2>2. (journal.commit \ journal.checkpoint) \intersect DOMAIN journal.after = {t}
    BY <1>3, <2>1
  <2>3. t \in Nat
    BY DEF TypeInv, TypeOK, JournalOK, TxId
  <2>4. {u \in {t} : \A w \in {t} : w <= u} = {t}
    BY <2>3
  <2>5. Recovered(vol, journal) = journal.after[t]
    BY <2>2, <2>4 DEF Recovered, LastImage
  <2> QED
    BY <1>3, <2>1, <2>5
<1> QED
  BY <1>1, <1>2, <1>3

\* Nothing committed is left in the journal when the lock is free and somebody
\* is past its recovery.
LEMMA NothingPending ==
    ASSUME CommitInv, NEW s \in Terminal,
           pc[s] \notin {"off", "boot", "loaded", "recWait", "redone"} \union Window,
           writers = {} \/ pc[s] \in WritePoints
    PROVE  journal.commit = {}
<1>1. ~Aftermath
  BY DEF Aftermath
<1>2. \A t \in Terminal : pc[t] \notin Window
  BY FreeLock, OneWriter DEF CommitInv, Window, WritePoints, TxPoints
<1> QED
  BY <1>1, <1>2 DEF CommitInv, JournalInv

\* ... so that the volume file holds what is committed.
LEMMA VolumeIsCommitted ==
    ASSUME TypeInv, CommitInv, NEW s \in Terminal,
           pc[s] \notin {"off", "boot", "loaded", "recWait", "redone", "recCleared"} \union Window,
           writers = {} \/ pc[s] \in WritePoints,
           mounted[s]
    PROVE  vol.ops = committed
<1>1. journal.commit = {}
  BY NothingPending
<1>2. \A t \in Terminal : pc[t] # "recCleared"
  BY FreeLock, OneWriter DEF CommitInv, WritePoints, RecoverPoints
<1> QED
  BY <1>1, <1>2 DEF CommitInv, VolumeInv, TypeInv, MountInv

-----------------------------------------------------------------------------
LEMMA BootCommit ==
    ASSUME TypeInv, CommitInv, NEW s \in Terminal, Boot(s), TypeInv', LockInv'
    PROVE  CommitInv'
<1> USE DEF CommitInv, NoFormat, JournalInv, VolumeInv, MemInv, Aftermath, Window,
        WritePoints, RecoverPoints, TxPoints, Goto, Remember, locks, disk, ghosts, Txid
<1> pc \in [Terminal -> Points] /\ mem \in [Terminal -> Image \union {NoVolume}]
  BY DEF TypeInv, TypeOK
<1>1. CASE StartSession(s)
  BY <1>1 DEF StartSession
<1>2. CASE BootRead(s)
  BY <1>2 DEF BootRead
<1>11. CASE LookAtJournal(s)
  BY <1>11 DEF LookAtJournal, NothingToRecover, EmptyJournal
<1>3. CASE RecoverNothing(s)
  BY <1>3 DEF RecoverNothing, NothingToRecover, EmptyJournal
<1>4. CASE Redo(s)
  <2> DEFINE image == [Recovered(vol, journal) EXCEPT !.mount = "dirty"]
  <2>1. vol \in Image /\ Recovered(vol, journal) \in Image
    BY <1>4, RecoveredType DEF Redo, TypeInv, TypeOK, MountInv
  <2>2. image.ops = Recovered(vol, journal).ops
    BY <2>1 DEF Image
  <2>3. \A t \in Terminal : pc[t] \notin WritePoints
    BY <1>4, FreeLock DEF Redo, Lock!AcquireWrite
  <2>4. image.ops = committed
    <3>1. CASE journal.commit = {}
      <4>1. committed = vol.ops
        BY <2>1, <2>3, <3>1, VolumeAssumption
      <4> QED
        BY <2>2, <3>1, <4>1, RecoveredOne
    <3>2. CASE journal.commit # {}
      BY <2>2, <3>2, RecoveredOne
    <3> QED
      BY <3>1, <3>2
  <2>5. /\ pc[s] = "recWait"
        /\ mem' = [mem EXCEPT ![s] = image]
        /\ pc' = [pc EXCEPT ![s] = "redone"]
        /\ UNCHANGED <<vol, journal, kind, op, used, committed>>
    BY <1>4 DEF Redo
  <2> HIDE DEF image
  <2> QED
    BY <2>3, <2>4, <2>5
<1>5. CASE RecoveryClear(s)
  <2>1. \A t \in Terminal \ {s} : pc[t] \notin WritePoints
    BY <1>5, OneWriter DEF RecoveryClear, WriteJournal
  <2> QED
    BY <1>5, <2>1 DEF RecoveryClear, WriteJournal, EmptyJournal
<1>6. CASE RecoverySave(s)
  <2>1. \A t \in Terminal \ {s} : pc[t] \notin WritePoints
    BY <1>6, OneWriter DEF RecoverySave, Save
  <2>2. mem[s] # NoVolume
    BY <1>6 DEF RecoverySave, Save, TypeInv, MountInv
  <2>3. journal.commit = {}
    BY <1>6, NothingPending DEF RecoverySave, Save
  <2> QED
    BY <1>6, <2>1, <2>2, <2>3 DEF RecoverySave, Save
<1>7. CASE RecoveryEnd(s)
  <2>3. journal.commit = {}
    BY <1>7, NothingPending DEF RecoveryEnd
  <2> QED
    BY <1>7, <2>3 DEF RecoveryEnd
<1>8. CASE OpenVolume(s)
  <2> DEFINE image == [vol EXCEPT !.mount = "dirty"]
  <2>1. \A t \in Terminal : pc[t] \notin WritePoints
    BY <1>8, FreeLock DEF OpenVolume, Lock!AcquireWrite
  <2>2. mounted[s] /\ vol \in Image
    BY <1>8 DEF OpenVolume, TypeInv, TypeOK, MountInv
  <2>3. journal.commit = {}
    BY <1>8, NothingPending DEF OpenVolume, Lock!AcquireWrite
  <2>4. image.ops = committed
    BY <1>8, <2>2, VolumeIsCommitted DEF OpenVolume, Lock!AcquireWrite, Image
  <2>5. /\ pc[s] = "openWait"
        /\ mem' = [mem EXCEPT ![s] = image]
        /\ pc' = [pc EXCEPT ![s] = "opening"]
        /\ UNCHANGED <<vol, journal, kind, op, used, committed>>
    BY <1>8 DEF OpenVolume
  <2> HIDE DEF image
  <2> QED
    BY <2>1, <2>3, <2>4, <2>5
<1>9. CASE OpenSave(s)
  <2>1. \A t \in Terminal \ {s} : pc[t] \notin WritePoints
    BY <1>9, OneWriter DEF OpenSave, Save
  <2>2. mem[s] # NoVolume
    BY <1>9 DEF OpenSave, Save, TypeInv, MountInv
  <2>3. journal.commit = {}
    BY <1>9, NothingPending DEF OpenSave, Save
  <2> QED
    BY <1>9, <2>1, <2>2, <2>3 DEF OpenSave, Save
<1>10. CASE OpenEnd(s)
  <2>3. journal.commit = {}
    BY <1>10, NothingPending DEF OpenEnd
  <2> QED
    BY <1>10, <2>3 DEF OpenEnd
<1> QED
  BY <1>1, <1>2, <1>3, <1>4, <1>5, <1>6, <1>7, <1>8, <1>9, <1>10, <1>11 DEF Boot

-----------------------------------------------------------------------------
LEMMA MutationCommit ==
    ASSUME QuietCommit, TypeInv, CommitInv, NEW s \in Terminal, Mutation(s), TypeInv', LockInv'
    PROVE  CommitInv'
<1> USE DEF CommitInv, NoFormat, JournalInv, VolumeInv, MemInv, Aftermath, Window,
        WritePoints, RecoverPoints, TxPoints, Goto, Remember, locks, disk, ghosts
<1> pc \in [Terminal -> Points] /\ mem \in [Terminal -> Image \union {NoVolume}]
  BY DEF TypeInv, TypeOK
<1> kind \in [Terminal -> {"tx", "direct", "format"}] /\ op \in [Terminal -> Op \union {NoOp}]
  BY DEF TypeInv, TypeOK
<1>0. pc[s] \in WritePoints => \A t \in Terminal \ {s} : pc[t] \notin WritePoints
  BY OneWriter
<1>1. ASSUME NEW k \in Kinds, DispatchMutation(s, k)
      PROVE  CommitInv'
  BY <1>1 DEF DispatchMutation, QuietCommit, Txid
<1>2. CASE LockAndReload(s)
  <2>1. \A t \in Terminal : pc[t] \notin WritePoints
    BY <1>2, FreeLock DEF LockAndReload, Lock!AcquireWrite
  <2>2. mounted[s]
    BY <1>2 DEF LockAndReload, TypeInv, MountInv
  <2>3. journal.commit = {} /\ vol.ops = committed
    BY <1>2, <2>2, NothingPending, VolumeIsCommitted DEF LockAndReload, Lock!AcquireWrite
  <2> QED
    BY <1>2, <2>1, <2>2, <2>3 DEF LockAndReload, Txid
<1>3. CASE Refuse(s)
  <2>1. journal.commit = {}
    BY <1>3, NothingPending DEF Refuse
  <2> QED
    BY <1>3, <2>1 DEF Refuse, Txid
<1>4. ASSUME NEW o \in Op, BeginTx(s, o)
      PROVE  CommitInv'
  <2>1. pc[s] = "txOpen" /\ mounted[s] /\ mem[s].ops = committed
    BY <1>4 DEF BeginTx, StartFrom, TypeInv, MountInv
  <2>2. journal.commit = {}
    BY <2>1, NothingPending
  <2>3. Begun(mem[s]).ops = committed /\ Begun(mem[s]) # NoVolume
    BY <1>4, <2>1, VolumeAssumption DEF Begun, BeginTx, StartFrom, TypeInv, MountInv, TypeOK
  <2>4. o \notin committed
    BY <1>4 DEF BeginTx, StartFrom, TypeInv, TypeOK
  <2> QED
    BY <1>0, <1>4, <2>1, <2>2, <2>3, <2>4 DEF BeginTx, StartFrom, Txid
<1>5. ASSUME NEW o \in Op, BeginFormat(s, o)
      PROVE  CommitInv'
  BY <1>5 DEF BeginFormat
<1>6. ASSUME NEW o \in Op, SaveDirectly(s, o)
      PROVE  CommitInv'
  <2> DEFINE image == [mem[s] EXCEPT !.ops = @ \union {o}]
  <2>1. pc[s] = "txOpen" /\ mounted[s] /\ mem[s].ops = committed /\ mem[s] \in Image
    BY <1>6 DEF SaveDirectly, TypeInv, MountInv, TypeOK
  <2>2. journal.commit = {}
    BY <2>1, NothingPending
  <2>3. image.ops = committed \union {o} /\ image \in Image
    BY <2>1 DEF Image
  <2>4. /\ mem' = [mem EXCEPT ![s] = image] /\ vol' = image
        /\ pc' = [pc EXCEPT ![s] = "dsaved"]
        /\ committed' = committed \union {o}
        /\ UNCHANGED <<journal, kind>>
        /\ op' = [op EXCEPT ![s] = o]
    BY <1>6 DEF SaveDirectly
  <2> HIDE DEF image
  <2> QED
    BY <1>0, <2>1, <2>2, <2>3, <2>4, VolumeAssumption DEF Txid
<1>7. CASE JournalBegin(s)
  BY <1>0, <1>7, NothingPending DEF JournalBegin, WriteJournal, TypeInv, TypeOK, JournalOK, Txid
<1>8. CASE JournalBefore(s)
  BY <1>0, <1>8, NothingPending DEF JournalBefore, WriteJournal, Txid
<1>9. CASE Mutate(s)
  <2> DEFINE image == [mem[s] EXCEPT !.ops = @ \union {op[s]}]
  <2>1. pc[s] = "jbefore" /\ mem[s] \in Image /\ mem[s].ops = committed
    BY <1>9 DEF Mutate, TypeInv, MountInv, TypeOK
  <2>2. journal.commit = {}
    BY <2>1, NothingPending
  <2>3. image.ops = committed \union {op[s]}
    BY <2>1 DEF Image
  <2>4. /\ mem' = [mem EXCEPT ![s] = image]
        /\ pc' = [pc EXCEPT ![s] = "mutated"]
        /\ UNCHANGED <<vol, journal, kind, op, committed>>
    BY <1>9 DEF Mutate
  <2> HIDE DEF image
  <2> QED
    BY <1>0, <2>1, <2>2, <2>3, <2>4 DEF Txid
<1>10. CASE FailMidway(s)
  <2>1. PICK image : mem' = [mem EXCEPT ![s] = image]
    BY <1>10 DEF FailMidway
  <2>2. /\ pc[s] = "jbefore"
        /\ pc' = [pc EXCEPT ![s] = "idle"]
        /\ UNCHANGED <<vol, journal, kind, op, committed>>
    BY <1>10 DEF FailMidway
  <2>3. journal.commit = {}
    BY <2>2, NothingPending
  <2> QED
    BY <1>0, <2>1, <2>2, <2>3 DEF Txid
<1>11. CASE JournalAfter(s)
  <2>1. pc[s] = "mutated" /\ journal.commit = {}
    BY <1>11, NothingPending DEF JournalAfter, WriteJournal
  <2>2. /\ journal'.after = WithAfter(journal.after, Txid(s), mem[s])
        /\ journal'.commit = journal.commit /\ journal'.checkpoint = journal.checkpoint
    BY <1>11 DEF JournalAfter, WriteJournal, TypeInv, TypeOK, JournalOK
  <2>3. Txid(s) \in DOMAIN journal'.after /\ journal'.after[Txid(s)] = mem[s]
    BY <2>2 DEF WithAfter
  <2>4. /\ pc' = [pc EXCEPT ![s] = "jafter"]
        /\ UNCHANGED <<vol, kind, mem, op, committed>>
    BY <1>11 DEF JournalAfter, WriteJournal
  <2> QED
    BY <1>0, <2>1, <2>2, <2>3, <2>4 DEF Txid
<1>12. CASE JournalCommit(s)
  <2>1. pc[s] = "jafter" /\ journal.commit = {} /\ mounted[s]
    BY <1>12, NothingPending DEF JournalCommit, WriteJournal, TypeInv, MountInv
  <2>2. /\ journal'.after = journal.after
        /\ journal'.commit = {Txid(s)} /\ journal'.checkpoint = {}
    BY <1>12, <2>1 DEF JournalCommit, WriteJournal, TypeInv, TypeOK, JournalOK
  <2>3. committed' = committed \union {op[s]}
    BY <1>12 DEF JournalCommit
  <2>4. /\ pc' = [pc EXCEPT ![s] = "jcommit"]
        /\ UNCHANGED <<vol, kind, mem, op>>
    BY <1>12 DEF JournalCommit, WriteJournal
  <2>5. vol # NoVolume
    BY <2>1 DEF TypeInv, MountInv
  <2> QED
    BY <1>0, <2>1, <2>2, <2>3, <2>4, <2>5 DEF Txid
<1>13. CASE Checkpoint(s)
  <2>1. mem[s] # NoVolume
    BY <1>13 DEF Checkpoint, Save, TypeInv, MountInv
  <2> QED
    BY <1>0, <1>13, <2>1 DEF Checkpoint, Save, Txid
<1>14. CASE JournalCheckpoint(s)
  <2>1. /\ journal'.after = journal.after
        /\ journal'.commit = journal.commit
        /\ journal'.checkpoint = journal.checkpoint \union {Txid(s)}
    BY <1>14 DEF JournalCheckpoint, WriteJournal, TypeInv, TypeOK, JournalOK
  <2> QED
    BY <1>0, <1>14, <2>1 DEF JournalCheckpoint, WriteJournal, Txid
<1>15. CASE ClearJournal(s)
  <2>1. mem[s] # NoVolume
    BY <1>15 DEF ClearJournal, WriteJournal, TypeInv, MountInv
  <2> QED
    BY <1>0, <1>15, <2>1 DEF ClearJournal, WriteJournal, EmptyJournal, Txid
<1>16. CASE BumpEpoch(s)
  BY <1>0, <1>16, NothingPending DEF BumpEpoch, Txid
<1>17. CASE EndMutation(s)
  BY <1>0, <1>17, NothingPending DEF EndMutation, Txid
<1> QED
  BY <1>1, <1>2, <1>3, <1>4, <1>5, <1>6, <1>7, <1>8, <1>9, <1>10, <1>11, <1>12, <1>13, <1>14,
     <1>15, <1>16, <1>17 DEF Mutation

LEMMA ReadingCommit ==
    ASSUME CommitInv, TypeInv, NEW s \in Terminal, Reading(s), LockInv'
    PROVE  CommitInv'
<1> pc \in [Terminal -> Points] /\ mem \in [Terminal -> Image \union {NoVolume}]
  BY DEF TypeInv, TypeOK
<1> QED
  BY DEF CommitInv, NoFormat, JournalInv, VolumeInv, MemInv, Aftermath, Window, Txid,
     WritePoints, RecoverPoints, TxPoints, Goto, Remember, locks, disk, ghosts,
     Reading, DispatchRead, LockAndRead, EndRead, ReadUnlocked, ReloadIfEpochChanged

\* Whoever dies outside the window, or with everybody else, leaves a disk that
\* the next boot can read.
LEMMA DieCommit ==
    ASSUME TypeInv, CommitInv, NEW dead \in SUBSET Terminal, Die(dead), LockInv',
           \A s \in dead : pc[s] # "recCleared",
           (\A s \in dead : pc[s] \notin Window) \/ dead = Terminal
    PROVE  CommitInv'
<1> pc \in [Terminal -> Points] /\ mem \in [Terminal -> Image \union {NoVolume}]
  BY DEF TypeInv, TypeOK
<1> USE DEF CommitInv, NoFormat, JournalInv, VolumeInv, MemInv, Aftermath, Window, Txid,
        WritePoints, RecoverPoints, TxPoints, disk
<1>1. UNCHANGED <<vol, journal, kind, committed>>
  BY DEF Die
<1>2. \A s \in Terminal \ dead :
         pc'[s] = pc[s] /\ mem'[s] = mem[s] /\ op'[s] = op[s]
  BY DEF Die
<1>3. \A s \in dead : pc'[s] = "off"
  BY DEF Die
<1> QED
  BY <1>1, <1>2, <1>3

LEMMA DyingCommit ==
    ASSUME QuietCommit, TypeInv, CommitInv, NEW s \in Terminal, Dying(s), LockInv'
    PROVE  CommitInv'
<1>1. Die({s})
  BY DEF Dying, InjectCrash, CrashOnSignal, Kill
<1>2. pc[s] # "recCleared"
  BY VolumeAssumption DEF Dying, InjectCrash, CrashOnSignal, Kill, QuietCommit, CrashPoints
<1>3. pc[s] \notin Window \/ {s} = Terminal
  BY DEF Dying, InjectCrash, CrashOnSignal, Kill, QuietCommit, Window
<1> QED
  BY <1>1, <1>2, <1>3, DieCommit

LEMMA LeavingCommit ==
    ASSUME TypeInv, CommitInv, NEW s \in Terminal, Leaving(s), LockInv'
    PROVE  CommitInv'
<1>1. CASE Leave(s) \/ GiveUpProcess(s)
  <2>1. Die({s}) /\ pc[s] \notin Window \union {"recCleared"}
    BY <1>1 DEF Leave, GiveUpProcess, Window
  <2> QED
    BY <2>1, DieCommit
<1> USE DEF CommitInv, NoFormat, JournalInv, VolumeInv, MemInv, Aftermath, Window,
        WritePoints, RecoverPoints, TxPoints, Goto, Remember, locks, disk, ghosts, Txid
<1> pc \in [Terminal -> Points] /\ mem \in [Terminal -> Image \union {NoVolume}]
  BY DEF TypeInv, TypeOK
<1>0. pc[s] \in WritePoints => \A t \in Terminal \ {s} : pc[t] \notin WritePoints
  BY OneWriter
<1>2. CASE StartClose(s)
  BY <1>2, NothingPending DEF StartClose
<1>3. CASE CloseVolume(s)
  <2> DEFINE image == [vol EXCEPT !.mount = "clean"]
  <2>1. \A t \in Terminal : pc[t] \notin WritePoints
    BY <1>3, FreeLock DEF CloseVolume, Lock!AcquireWrite
  <2>2. mounted[s] /\ vol \in Image
    BY <1>3 DEF CloseVolume, TypeInv, TypeOK, MountInv
  <2>3. journal.commit = {} /\ vol.ops = committed
    BY <1>3, <2>2, NothingPending, VolumeIsCommitted DEF CloseVolume, Lock!AcquireWrite
  <2>4. image.ops = committed
    BY <2>2, <2>3 DEF Image
  <2>5. /\ pc[s] = "closeWait"
        /\ mem' = [mem EXCEPT ![s] = image]
        /\ pc' = [pc EXCEPT ![s] = "closing"]
        /\ UNCHANGED <<vol, journal, kind, op, used, committed>>
    BY <1>3 DEF CloseVolume
  <2> HIDE DEF image
  <2> QED
    BY <2>1, <2>3, <2>4, <2>5
<1>4. CASE CloseSave(s)
  <2>1. mem[s] # NoVolume /\ journal.commit = {}
    BY <1>4, NothingPending DEF CloseSave, Save, TypeInv, MountInv
  <2> QED
    BY <1>0, <1>4, <2>1 DEF CloseSave, Save
<1>5. CASE CloseClear(s)
  <2>1. journal.commit = {}
    BY <1>5, NothingPending DEF CloseClear, WriteJournal
  <2> QED
    BY <1>0, <1>5, <2>1 DEF CloseClear, WriteJournal, EmptyJournal
<1>6. CASE CloseEnd(s)
  BY <1>0, <1>6, NothingPending DEF CloseEnd
<1>7. CASE GiveUpCommand(s)
  BY <1>7 DEF GiveUpCommand
<1> QED
  BY <1>1, <1>2, <1>3, <1>4, <1>5, <1>6, <1>7 DEF Leaving

LEMMA StepCommit ==
    QuietCommit /\ TypeInv /\ CommitInv /\ [Next]_vars => CommitInv'
<1> SUFFICES ASSUME QuietCommit, TypeInv, CommitInv, [Next]_vars
             PROVE  CommitInv'
  OBVIOUS
<1>0. TypeInv' /\ LockInv'
  BY StepType, LockStep DEF CommitInv
<1>1. CASE UNCHANGED vars
  BY <1>1 DEF vars, CommitInv, LockInv, NoFormat, JournalInv, VolumeInv, MemInv, Aftermath,
     Txid, Lock!SingleWriter
<1>2. CASE KillAll
  <2>1. \A s \in Terminal : pc[s] # "recCleared"
    BY <1>2 DEF KillAll, QuietCommit, Running
  <2> QED
    BY <1>0, <1>2, <2>1, DieCommit DEF KillAll
<1>3. ASSUME NEW s \in Terminal,
             Boot(s) \/ Mutation(s) \/ Reading(s) \/ Dying(s) \/ Leaving(s)
      PROVE  CommitInv'
  BY <1>0, <1>3, BootCommit, MutationCommit, ReadingCommit, DyingCommit, LeavingCommit
<1> QED
  BY <1>1, <1>2, <1>3 DEF Next

\* Consistency in one sentence: the next mount would find the committed operations.
LEMMA ContentIsCommitted == TypeInv /\ CommitInv => Content = committed
<1> SUFFICES ASSUME TypeInv, CommitInv
             PROVE  Content = committed
  OBVIOUS
<1>1. CASE \E s \in Terminal : pc[s] = "recCleared"
  <2> DEFINE c == CHOOSE s \in Terminal : pc[s] = "recCleared"
  <2>1. c \in Terminal /\ pc[c] = "recCleared"
    BY <1>1
  <2>2. mem[c].ops = committed
    BY <2>1 DEF CommitInv, MemInv, WritePoints, RecoverPoints
  <2> QED
    BY <1>1, <2>2 DEF Content
<1>2. CASE ~\E s \in Terminal : pc[s] = "recCleared"
  <2>1. Content = IF vol = NoVolume THEN {} ELSE Recovered(vol, journal).ops
    BY <1>2 DEF Content
  <2>2. CASE journal.commit = {}
    BY <1>2, <2>1, <2>2, RecoveredOne DEF CommitInv, VolumeInv
  <2>3. CASE journal.commit # {}
    BY <2>1, <2>3, RecoveredOne DEF CommitInv, JournalInv
  <2> QED
    BY <2>2, <2>3
<1> QED
  BY <1>1, <1>2

LEMMA Consistency == QuietCommit => (Spec => [](TypeInv /\ CommitInv))
<1> SUFFICES ASSUME QuietCommit
             PROVE  Spec => [](TypeInv /\ CommitInv)
  OBVIOUS
<1>1. Init => TypeInv /\ CommitInv
  BY InitType, InitCommit
<1>2. TypeInv /\ CommitInv /\ [Next]_vars => (TypeInv /\ CommitInv)'
  BY StepType, StepCommit
<1> QED
  BY <1>1, <1>2, PTL DEF Spec

\* Nothing that was committed is lost by a crash or by what other terminals do
\* after it (commitTx, recoverIfNeeded, reloadVolumeFromDisk).
THEOREM Durability == QuietCommit => (Spec => []Durable)
<1>1. TypeInv /\ CommitInv => Durable
  BY ContentIsCommitted DEF Durable
<1> QED
  BY <1>1, Consistency, PTL

\* Nothing that was not committed is ever recovered (beginTx saves the image
\* before the mutation, recoveryFromJournal skips what has no commit record).
THEOREM Atomicity == QuietCommit => (Spec => []Atomic)
<1>1. TypeInv /\ CommitInv => Atomic
  BY ContentIsCommitted DEF Atomic
<1> QED
  BY <1>1, Consistency, PTL

\* Whenever the transaction lock is free the volume is what was committed.
THEOREM Visibility == QuietCommit => (Spec => []CheckpointVisible)
<1>1. TypeInv /\ CommitInv => CheckpointVisible
  BY ContentIsCommitted DEF CheckpointVisible
<1> QED
  BY <1>1, Consistency, PTL

-----------------------------------------------------------------------------
\* Steps commit one new mutation or none.
LEMMA CommitOne ==
    ASSUME TypeInv, CommitInv, [Next]_vars
    PROVE  \/ committed' = committed
           \/ \E o \in Op : o \notin committed /\ committed' = committed \union {o}
<1> USE DEF disk, locks, ghosts
<1>1. CASE UNCHANGED vars
  BY <1>1 DEF vars
<1>2. ASSUME NEW dead, Die(dead)
      PROVE  committed' = committed
  BY <1>2 DEF Die
<1>3. ASSUME NEW s \in Terminal, Boot(s)
      PROVE  committed' = committed
  BY <1>3 DEF Boot, StartSession, BootRead, LookAtJournal, RecoverNothing, Redo, RecoveryClear, RecoverySave,
     RecoveryEnd, OpenVolume, OpenSave, OpenEnd, Save
<1>4. ASSUME NEW s \in Terminal, NEW o \in Op, SaveDirectly(s, o)
      PROVE  o \notin committed /\ committed' = committed \union {o}
  BY <1>4 DEF SaveDirectly, TypeInv, TypeOK
<1>5. ASSUME NEW s \in Terminal, JournalCommit(s)
      PROVE  op[s] \in Op /\ op[s] \notin committed /\ committed' = committed \union {op[s]}
  BY <1>5 DEF JournalCommit, WriteJournal, CommitInv, NoFormat, MemInv, TypeInv, TypeOK,
     MountInv, InTx
<1>6. ASSUME NEW s \in Terminal, Mutation(s),
             ~JournalCommit(s), ~\E o \in Op : SaveDirectly(s, o)
      PROVE  committed' = committed
  BY <1>6 DEF Mutation, DispatchMutation, LockAndReload, Refuse, BeginTx, BeginFormat, StartFrom,
     JournalBegin, JournalBefore, Mutate, FailMidway, JournalAfter, Checkpoint,
     JournalCheckpoint, ClearJournal, BumpEpoch, EndMutation, Save
<1>7. ASSUME NEW s \in Terminal, Reading(s) \/ Leaving(s) \/ Dying(s)
      PROVE  committed' = committed
  BY <1>2, <1>7 DEF Reading, DispatchRead, LockAndRead, EndRead, ReadUnlocked, Dying,
     InjectCrash, CrashOnSignal, Kill, Leaving, Leave, StartClose, CloseVolume, CloseSave,
     CloseClear, CloseEnd, GiveUpCommand, GiveUpProcess, Save
<1>8. CASE KillAll
  BY <1>2, <1>8 DEF KillAll
<1> QED
  BY <1>1, <1>3, <1>4, <1>5, <1>6, <1>7, <1>8 DEF Next

\* The kernel's transactions on disk implement a store that changes by whole
\* mutations: every step of it, crash or not, adds one mutation to all that was
\* committed before, or stutters; a lost update is no step of the store.
THEOREM Refinement == QuietCommit => (Spec => RefinesAtomicVolume)
<1> SUFFICES ASSUME QuietCommit
             PROVE  Spec => RefinesAtomicVolume
  OBVIOUS
<1>1. TypeInv /\ CommitInv /\ Init => AV!Init
  <2> SUFFICES ASSUME TypeInv, CommitInv, Init
               PROVE  AV!Init
    OBVIOUS
  <2>1. Content = committed /\ committed = {}
    BY ContentIsCommitted DEF Init
  <2> QED
    BY <2>1 DEF AV!Init
<1>2. TypeInv /\ CommitInv /\ [Next]_vars => [AV!Next]_Content
  <2> SUFFICES ASSUME TypeInv, CommitInv, [Next]_vars
               PROVE  [AV!Next]_Content
    OBVIOUS
  <2>1. Content = committed
    BY ContentIsCommitted
  <2>2. Content' = committed'
    <3>1. (TypeInv /\ CommitInv)'
      BY StepType, StepCommit
    <3>2. (TypeInv /\ CommitInv => Content = committed)'
      BY ContentIsCommitted, PTL
    <3> QED
      BY <3>1, <3>2
  <2> QED
    BY <2>1, <2>2, CommitOne DEF QuietCommit, AV!Next, AV!Commit
<1> QED
  BY <1>1, <1>2, Consistency, PTL DEF Spec, RefinesAtomicVolume, AV!Spec

\* A mount under the lock finds what was committed, after any recovery
\* (boot, "mount.open").
THEOREM BootCoherence == QuietCommit => (Spec => BootSeesCommitted)
<1> SUFFICES ASSUME QuietCommit
             PROVE  Spec => BootSeesCommitted
  OBVIOUS
<1>1. TypeInv /\ CommitInv =>
         \A s \in Terminal : pc[s] = "openSaved" /\ pc'[s] = "idle" => mem[s].ops = committed
  BY DEF CommitInv, MemInv, WritePoints
<1> QED
  BY <1>1, Consistency, PTL DEF BootSeesCommitted

-----------------------------------------------------------------------------
\* Transaction ids.  An id in the journal is below the counter in the volume
\* file, whoever has saved it last.
IdInv ==
    /\ \A u \in journal.begun : vol # NoVolume /\ u < vol.next
    /\ \A s \in Terminal :
          /\ pc[s] = "txOpen" => mem[s] = vol
          /\ pc[s] \in InTx \union {"opening", "closing"} => vol.next = mem[s].next
          /\ pc[s] = "begun" => \A u \in journal.begun : u < mem[s].next - 1
          /\ pc[s] = "recCleared" => journal.begun = {}

LEMMA KindStep ==
    ASSUME "format" \notin Kinds, NoFormat, TypeInv, [Next]_vars
    PROVE  NoFormat'
<1> kind \in [Terminal -> {"tx", "direct", "format"}]
  BY DEF TypeInv, TypeOK
<1>1. ASSUME NEW s \in Terminal, NEW k \in Kinds, DispatchMutation(s, k)
      PROVE  NoFormat'
  BY <1>1 DEF DispatchMutation, NoFormat
<1>2. CASE UNCHANGED kind
  BY <1>2 DEF NoFormat
<1>3. ASSUME NEW s \in Terminal, Boot(s)
      PROVE  UNCHANGED kind
  BY <1>3 DEF Boot, StartSession, BootRead, LookAtJournal, RecoverNothing, Redo, RecoveryClear,
     RecoverySave, RecoveryEnd, OpenVolume, OpenSave, OpenEnd, Save, WriteJournal
<1>4. ASSUME NEW s \in Terminal, Mutation(s), ~\E k \in Kinds : DispatchMutation(s, k)
      PROVE  UNCHANGED kind
  BY <1>4 DEF Mutation, LockAndReload, Refuse, BeginTx, BeginFormat, SaveDirectly, JournalBegin,
     JournalBefore, Mutate, FailMidway, JournalAfter, JournalCommit, Checkpoint,
     JournalCheckpoint, ClearJournal, BumpEpoch, EndMutation, StartFrom, Save, WriteJournal
<1>5. ASSUME NEW s \in Terminal, Reading(s) \/ Dying(s) \/ Leaving(s)
      PROVE  UNCHANGED kind
  BY <1>5 DEF Reading, DispatchRead, LockAndRead, EndRead, ReadUnlocked, Dying, InjectCrash,
     CrashOnSignal, Kill, Leaving, Leave, StartClose, CloseVolume, CloseSave, CloseClear,
     CloseEnd, GiveUpCommand, GiveUpProcess, Die, Save, WriteJournal
<1>6. CASE KillAll
  BY <1>2, <1>6 DEF KillAll, Die
<1>7. CASE UNCHANGED vars
  BY <1>2, <1>7 DEF vars
<1> QED
  BY <1>1, <1>2, <1>3, <1>4, <1>5, <1>6, <1>7 DEF Next

LEMMA InitId == Init => IdInv
BY DEF Init, IdInv, EmptyJournal, InTx

LEMMA BootId ==
    ASSUME TypeInv, LockInv, IdInv, NEW s \in Terminal, Boot(s)
    PROVE  IdInv'
<1> USE DEF IdInv, InTx, WritePoints, RecoverPoints, TxPoints, Goto, Remember, locks, disk, ghosts
<1> pc \in [Terminal -> Points] /\ mem \in [Terminal -> Image \union {NoVolume}]
  BY DEF TypeInv, TypeOK
<1>0. pc[s] \in WritePoints => \A t \in Terminal \ {s} : pc[t] \notin WritePoints
  BY OneWriter
<1>1. CASE \/ StartSession(s) \/ BootRead(s) \/ LookAtJournal(s) \/ RecoverNothing(s)
           \/ Redo(s) \/ RecoveryEnd(s) \/ OpenEnd(s)
  <2>1. UNCHANGED <<vol, journal>> /\ pc'[s] \notin {"txOpen", "begun", "recCleared"} \union InTx
    BY <1>1 DEF StartSession, BootRead, LookAtJournal, RecoverNothing, Redo, RecoveryEnd, OpenEnd
  <2>2. \A t \in Terminal \ {s} : pc'[t] = pc[t] /\ mem'[t] = mem[t]
    BY <1>1 DEF StartSession, BootRead, LookAtJournal, RecoverNothing, Redo, RecoveryEnd, OpenEnd
  <2>3. pc'[s] \notin {"opening", "closing"}
    BY <1>1 DEF StartSession, BootRead, LookAtJournal, RecoverNothing, Redo, RecoveryEnd, OpenEnd
  <2> QED
    BY <2>1, <2>2, <2>3
<1>2. CASE RecoveryClear(s)
  BY <1>0, <1>2 DEF RecoveryClear, WriteJournal, EmptyJournal
<1>3. CASE RecoverySave(s)
  BY <1>0, <1>3 DEF RecoverySave, Save
<1>4. CASE OpenVolume(s)
  <2>1. vol \in Image
    BY <1>4 DEF OpenVolume, TypeInv, TypeOK, MountInv
  <2>2. [vol EXCEPT !.mount = "dirty"].next = vol.next
    BY <2>1 DEF Image
  <2> QED
    BY <1>4, <2>2 DEF OpenVolume
<1>5. CASE OpenSave(s)
  <2>1. mem[s] # NoVolume
    BY <1>5 DEF OpenSave, Save, TypeInv, MountInv
  <2> QED
    BY <1>0, <1>5, <2>1 DEF OpenSave, Save
<1> QED
  BY <1>1, <1>2, <1>3, <1>4, <1>5 DEF Boot

LEMMA MutationId ==
    ASSUME TypeInv, LockInv, NoFormat, IdInv, NEW s \in Terminal, Mutation(s)
    PROVE  IdInv'
<1> USE DEF IdInv, InTx, WritePoints, RecoverPoints, TxPoints, Goto, Remember, locks, disk, ghosts
<1> pc \in [Terminal -> Points] /\ mem \in [Terminal -> Image \union {NoVolume}]
  BY DEF TypeInv, TypeOK
<1>0. pc[s] \in WritePoints => \A t \in Terminal \ {s} : pc[t] \notin WritePoints
  BY OneWriter
<1>1. CASE \/ \E k \in Kinds : DispatchMutation(s, k)
           \/ Refuse(s) \/ FailMidway(s) \/ BumpEpoch(s) \/ EndMutation(s)
  <2>1. /\ UNCHANGED <<vol, journal>>
        /\ pc'[s] \notin InTx \union {"txOpen", "recCleared", "opening", "closing"}
    BY <1>1 DEF DispatchMutation, Refuse, FailMidway, BumpEpoch, EndMutation
  <2>2. \A t \in Terminal \ {s} : pc'[t] = pc[t] /\ mem'[t] = mem[t]
    BY <1>1 DEF DispatchMutation, Refuse, FailMidway, BumpEpoch, EndMutation
  <2> QED
    BY <2>1, <2>2
<1>2. CASE LockAndReload(s)
  <2>1. mounted[s]
    BY <1>2 DEF LockAndReload, TypeInv, MountInv, NoFormat
  <2> QED
    BY <1>2, <2>1 DEF LockAndReload
<1>3. ASSUME NEW o \in Op, BeginTx(s, o)
      PROVE  IdInv'
  <2>1. mem[s] = vol /\ vol \in Image
    BY <1>3 DEF BeginTx, StartFrom, TypeInv, TypeOK, MountInv
  <2>2. Begun(mem[s]) \in Image /\ Begun(mem[s]).next = vol.next + 1 /\ vol.next \in Nat
    BY <2>1, BegunType DEF Begun, Image, TxId
  <2>3. journal.begun \subseteq Nat
    BY DEF TypeInv, TypeOK, JournalOK, TxId
  <2>4. /\ pc[s] = "txOpen" /\ pc' = [pc EXCEPT ![s] = "begun"]
        /\ vol' = Begun(mem[s]) /\ mem' = [mem EXCEPT ![s] = Begun(mem[s])]
        /\ UNCHANGED journal
    BY <1>3 DEF BeginTx, StartFrom
  <2>5. vol' # NoVolume
    BY <2>2, <2>4, VolumeAssumption
  <2> QED
    BY <1>0, <2>2, <2>3, <2>4, <2>5
<1>4. ASSUME NEW o \in Op
      PROVE  ~BeginFormat(s, o)
  BY DEF BeginFormat, NoFormat
<1>5. ASSUME NEW o \in Op, SaveDirectly(s, o)
      PROVE  IdInv'
  <2>1. mem[s] = vol /\ vol \in Image
    BY <1>5 DEF SaveDirectly, TypeInv, TypeOK, MountInv
  <2>2. /\ pc[s] = "txOpen" /\ pc' = [pc EXCEPT ![s] = "dsaved"]
        /\ vol' = [vol EXCEPT !.ops = @ \union {o}] /\ UNCHANGED journal
        /\ \A t \in Terminal \ {s} : mem'[t] = mem[t]
    BY <1>5, <2>1 DEF SaveDirectly
  <2>3. vol'.next = vol.next /\ vol' \in Image
    BY <2>1, <2>2 DEF Image
  <2>4. vol' # NoVolume
    BY <2>3, VolumeAssumption
  <2> QED
    BY <1>0, <2>2, <2>3, <2>4
<1>6. CASE JournalBegin(s)
  <2>1. /\ pc[s] = "begun" /\ pc' = [pc EXCEPT ![s] = "jbegin"]
        /\ journal'.begun = journal.begun \union {Txid(s)}
        /\ UNCHANGED <<vol, mem>>
    BY <1>6 DEF JournalBegin, WriteJournal, TypeInv, TypeOK, JournalOK
  <2>2. vol # NoVolume /\ vol.next = mem[s].next /\ vol.next \in Nat
    BY <2>1 DEF TypeInv, TypeOK, MountInv, Image, TxId
  <2>3. Txid(s) < vol.next
    BY <2>2 DEF Txid
  <2> QED
    BY <1>0, <2>1, <2>2, <2>3
<1>7. CASE JournalBefore(s)
  BY <1>0, <1>7 DEF JournalBefore, WriteJournal
<1>8. CASE Mutate(s)
  <2>1. mem[s] \in Image
    BY <1>8 DEF Mutate, TypeInv, TypeOK, MountInv
  <2>2. [mem[s] EXCEPT !.ops = @ \union {op[s]}].next = mem[s].next
    BY <2>1 DEF Image
  <2> QED
    BY <1>0, <1>8, <2>2 DEF Mutate
<1>9. CASE JournalAfter(s) \/ JournalCommit(s) \/ JournalCheckpoint(s)
  <2>1. /\ journal'.begun = journal.begun /\ UNCHANGED <<vol, mem>>
        /\ pc[s] \in InTx
        /\ \E p \in {"jafter", "jcommit", "ckpt"} : pc' = [pc EXCEPT ![s] = p]
    BY <1>9 DEF JournalAfter, JournalCommit, JournalCheckpoint, WriteJournal, TypeInv, TypeOK,
       JournalOK
  <2> QED
    BY <1>0, <2>1
<1>10. CASE Checkpoint(s)
  <2>1. mem[s] # NoVolume
    BY <1>10 DEF Checkpoint, Save, TypeInv, MountInv
  <2> QED
    BY <1>0, <1>10, <2>1 DEF Checkpoint, Save
<1>11. CASE ClearJournal(s)
  BY <1>0, <1>11 DEF ClearJournal, WriteJournal, EmptyJournal
<1> QED
  BY <1>1, <1>2, <1>3, <1>4, <1>5, <1>6, <1>7, <1>8, <1>9, <1>10, <1>11 DEF Mutation

LEMMA StepId ==
    ASSUME TypeInv, LockInv, NoFormat, IdInv, [Next]_vars
    PROVE  IdInv'
<1> USE DEF IdInv, InTx, Goto, Remember, locks, disk, ghosts
<1> pc \in [Terminal -> Points] /\ mem \in [Terminal -> Image \union {NoVolume}]
  BY DEF TypeInv, TypeOK
<1>1. CASE UNCHANGED vars
  BY <1>1 DEF vars
<1>2. ASSUME NEW dead \in SUBSET Terminal, Die(dead)
      PROVE  IdInv'
  BY <1>2 DEF Die
<1>3. ASSUME NEW s \in Terminal, Reading(s)
      PROVE  IdInv'
  BY <1>3 DEF Reading, DispatchRead, LockAndRead, EndRead, ReadUnlocked, ReloadIfEpochChanged
<1>4. ASSUME NEW s \in Terminal, Leaving(s), ~\E dead \in SUBSET Terminal : Die(dead)
      PROVE  IdInv'
  <2>0. pc[s] \in WritePoints => \A t \in Terminal \ {s} : pc[t] \notin WritePoints
    BY OneWriter
  <2>1. CASE StartClose(s) \/ GiveUpCommand(s) \/ CloseEnd(s)
    BY <2>1 DEF StartClose, GiveUpCommand, CloseEnd
  <2>2. CASE CloseVolume(s)
    <3>1. vol \in Image
      BY <2>2 DEF CloseVolume, TypeInv, TypeOK, MountInv
    <3>2. [vol EXCEPT !.mount = "clean"].next = vol.next
      BY <3>1 DEF Image
    <3> QED
      BY <2>2, <3>2 DEF CloseVolume
  <2>3. CASE CloseSave(s)
    <3>1. mem[s] # NoVolume
      BY <2>3 DEF CloseSave, Save, TypeInv, MountInv
    <3> QED
      BY <2>0, <2>3, <3>1 DEF CloseSave, Save, WritePoints, RecoverPoints, TxPoints
  <2>4. CASE CloseClear(s)
    BY <2>0, <2>4 DEF CloseClear, WriteJournal, EmptyJournal, WritePoints, TxPoints
  <2> QED
    BY <1>4, <2>1, <2>2, <2>3, <2>4 DEF Leaving, Leave, GiveUpProcess
<1>5. ASSUME NEW s \in Terminal, Dying(s) \/ (Leaving(s) /\ \E dead \in SUBSET Terminal : Die(dead))
      PROVE  IdInv'
  BY <1>2, <1>5 DEF Dying, InjectCrash, CrashOnSignal, Kill
<1> QED
  BY <1>1, <1>2, <1>3, <1>4, <1>5, BootId, MutationId DEF Next, KillAll

\* The id of a transaction is new to the journal, which may still hold those of
\* processes that crashed and of commands that failed (beginTx, recoverIfNeeded).
THEOREM FreshIds == "format" \notin Kinds => (Spec => TxIdsFresh)
<1> SUFFICES ASSUME "format" \notin Kinds
             PROVE  Spec => TxIdsFresh
  OBVIOUS
<1> DEFINE Inv == TypeInv /\ LockInv /\ NoFormat /\ IdInv
<1>1. Init => Inv
  BY InitType, InitCommit, InitId DEF CommitInv
<1>2. Inv /\ [Next]_vars => Inv'
  BY StepType, LockStep, KindStep, StepId
<1>3. Inv => \A s \in Terminal :
                pc[s] = "begun" /\ pc'[s] = "jbegin" => Txid(s) \notin journal.begun
  <2> SUFFICES ASSUME Inv, NEW s \in Terminal, pc[s] = "begun", Txid(s) \in journal.begun
               PROVE  FALSE
    OBVIOUS
  <2>1. mem[s].next \in Nat
    BY DEF TypeInv, TypeOK, MountInv, InTx, Image, TxId
  <2> QED
    BY <2>1 DEF IdInv, Txid
<1> QED
  BY <1>1, <1>2, <1>3, PTL DEF Spec, TxIdsFresh

-----------------------------------------------------------------------------
\* The mark of a clean volume.
BeforeCommit == {"begun", "jbegin", "jbefore", "mutated", "jafter"}

CleanInv ==
    /\ journal.commit # {} => vol.mount = "dirty"
    /\ \A s \in Terminal :
          /\ pc[s] \in BeforeCommit => vol.mount = "dirty"
          /\ pc[s] \in BeforeCommit \union {"jcommit"} => mem[s].mount = "dirty"

LEMMA InitClean == Init => CleanInv
BY DEF Init, CleanInv, EmptyJournal, BeforeCommit

LEMMA StepClean ==
    ASSUME TypeInv, CommitInv, CleanInv, [Next]_vars
    PROVE  CleanInv'
<1> USE DEF CleanInv, BeforeCommit, Goto, Remember, locks, disk, ghosts
<1> pc \in [Terminal -> Points] /\ mem \in [Terminal -> Image \union {NoVolume}]
  BY DEF TypeInv, TypeOK
<1>1. CASE UNCHANGED vars
  BY <1>1 DEF vars
<1>2. ASSUME NEW dead \in SUBSET Terminal, Die(dead)
      PROVE  CleanInv'
  BY <1>2 DEF Die
<1>3. ASSUME NEW s \in Terminal, pc[s] \in WritePoints
      PROVE  \A t \in Terminal \ {s} : pc[t] \notin WritePoints
  BY <1>3, OneWriter DEF CommitInv
<1>4. ASSUME NEW s \in Terminal,
             \/ Boot(s) /\ ~RecoveryClear(s) /\ ~RecoverySave(s) /\ ~OpenSave(s)
             \/ Reading(s)
             \/ Refuse(s) \/ FailMidway(s) \/ LockAndReload(s) \/ BumpEpoch(s) \/ EndMutation(s)
             \/ \E k \in Kinds : DispatchMutation(s, k)
             \/ StartClose(s) \/ CloseVolume(s) \/ CloseEnd(s) \/ GiveUpCommand(s)
      PROVE  CleanInv'
  <2>1. UNCHANGED <<vol, journal>> /\ pc'[s] \notin BeforeCommit \union {"jcommit"}
    BY <1>4 DEF Boot, StartSession, BootRead, LookAtJournal, RecoverNothing, Redo, RecoveryEnd,
       OpenVolume, OpenEnd, Reading, DispatchRead, LockAndRead, EndRead, ReadUnlocked, Refuse,
       FailMidway, LockAndReload, BumpEpoch, EndMutation, DispatchMutation, StartClose,
       CloseVolume, CloseEnd, GiveUpCommand
  <2>2. \A t \in Terminal \ {s} : pc'[t] = pc[t] /\ mem'[t] = mem[t]
    BY <1>4 DEF Boot, StartSession, BootRead, LookAtJournal, RecoverNothing, Redo, RecoveryEnd,
       OpenVolume, OpenEnd, Reading, DispatchRead, LockAndRead, EndRead, ReadUnlocked, Refuse,
       FailMidway, LockAndReload, BumpEpoch, EndMutation, DispatchMutation, StartClose,
       CloseVolume, CloseEnd, GiveUpCommand, ReloadIfEpochChanged
  <2> QED
    BY <2>1, <2>2
<1>5. ASSUME NEW s \in Terminal,
             RecoveryClear(s) \/ CloseClear(s) \/ ClearJournal(s)
      PROVE  CleanInv'
  <2>1. /\ journal' = EmptyJournal /\ UNCHANGED <<vol, mem>>
        /\ \E p \in {"recCleared", "closeCleared", "cleared"} : pc' = [pc EXCEPT ![s] = p]
    BY <1>5 DEF RecoveryClear, CloseClear, ClearJournal, WriteJournal
  <2> QED
    BY <2>1 DEF EmptyJournal
<1>6. ASSUME NEW s \in Terminal,
             RecoverySave(s) \/ OpenSave(s) \/ CloseSave(s) \/ \E o \in Op : SaveDirectly(s, o)
      PROVE  CleanInv'
  <2>1. /\ pc[s] \in {"recCleared", "opening", "closing", "txOpen"} /\ UNCHANGED journal
        /\ pc'[s] \notin BeforeCommit \union {"jcommit"}
        /\ \A t \in Terminal \ {s} : pc'[t] = pc[t] /\ mem'[t] = mem[t]
    BY <1>6 DEF RecoverySave, OpenSave, CloseSave, SaveDirectly, Save
  <2>2. journal.commit = {}
    BY <2>1, NothingPending DEF WritePoints, RecoverPoints, TxPoints, Window
  <2>3. \A t \in Terminal \ {s} : pc[t] \notin WritePoints
    BY <1>3, <2>1 DEF WritePoints, RecoverPoints, TxPoints
  <2> QED
    BY <2>1, <2>2, <2>3 DEF WritePoints, TxPoints
<1>7. ASSUME NEW s \in Terminal, NEW o \in Op, BeginTx(s, o) \/ BeginFormat(s, o)
      PROVE  CleanInv'
  BY <1>7 DEF BeginTx, BeginFormat, StartFrom, Begun
<1>8. ASSUME NEW s \in Terminal,
             \/ JournalBegin(s) \/ JournalBefore(s) \/ JournalAfter(s)
             \/ JournalCommit(s) \/ JournalCheckpoint(s)
      PROVE  CleanInv'
  <2>1. /\ UNCHANGED <<vol, mem>>
        /\ pc[s] \in BeforeCommit \/ journal'.commit = journal.commit
        /\ \/ pc[s] \in BeforeCommit /\ pc'[s] \in BeforeCommit \union {"jcommit"}
           \/ pc'[s] = "ckpt"
        /\ \A t \in Terminal \ {s} : pc'[t] = pc[t]
    BY <1>8 DEF JournalBegin, JournalBefore, JournalAfter, JournalCommit, JournalCheckpoint,
       WriteJournal, TypeInv, TypeOK, JournalOK
  <2> QED
    BY <2>1
<1>9. ASSUME NEW s \in Terminal, Mutate(s)
      PROVE  CleanInv'
  <2>1. mem[s] \in Image
    BY <1>9 DEF Mutate, TypeInv, TypeOK, MountInv
  <2>2. [mem[s] EXCEPT !.ops = @ \union {op[s]}].mount = mem[s].mount
    BY <2>1 DEF Image
  <2> QED
    BY <1>9, <2>2 DEF Mutate
<1>10. ASSUME NEW s \in Terminal, Checkpoint(s)
       PROVE  CleanInv'
  BY <1>3, <1>10 DEF Checkpoint, Save, WritePoints, TxPoints
<1>11. ASSUME NEW s \in Terminal, Dying(s) \/ Leave(s) \/ GiveUpProcess(s)
       PROVE  CleanInv'
  BY <1>2, <1>11 DEF Dying, InjectCrash, CrashOnSignal, Kill, Leave, GiveUpProcess
<1>12. ASSUME NEW s \in Terminal, Mutation(s)
       PROVE  CleanInv'
  BY <1>4, <1>5, <1>6, <1>7, <1>8, <1>9, <1>10, <1>12 DEF Mutation
<1>13. ASSUME NEW s \in Terminal, Leaving(s)
       PROVE  CleanInv'
  BY <1>4, <1>5, <1>6, <1>11, <1>13 DEF Leaving
<1>14. ASSUME NEW s \in Terminal, Boot(s)
       PROVE  CleanInv'
  BY <1>4, <1>5, <1>6, <1>14
<1>15. CASE KillAll
  BY <1>2, <1>15 DEF KillAll
<1> QED
  BY <1>1, <1>4, <1>11, <1>12, <1>13, <1>14, <1>15 DEF Next

\* A volume that is marked clean lacks nothing the journal has: the next boot may
\* skip the recovery (unmountClean, recoverIfNeeded).
THEOREM CleanVolume == QuietCommit => (Spec => []CleanNeedsNoRecovery)
<1> SUFFICES ASSUME QuietCommit
             PROVE  Spec => []CleanNeedsNoRecovery
  OBVIOUS
<1> DEFINE Inv == TypeInv /\ CommitInv /\ CleanInv
<1>1. Init => Inv
  BY InitType, InitCommit, InitClean
<1>2. Inv /\ [Next]_vars => Inv'
  BY StepType, StepCommit, StepClean
<1>3. Inv => CleanNeedsNoRecovery
  BY RecoveredOne DEF CommitInv, CleanInv, CleanNeedsNoRecovery
<1> QED
  BY <1>1, <1>2, <1>3, PTL DEF Spec

-----------------------------------------------------------------------------
\* The copies of readers.

\* Committed, and the other terminals have not been told.
Unannounced == {"jcommit", "saved", "ckpt", "cleared", "dsaved"}

\* Nobody dies alone between a commit and its announcement.
QuietChange ==
    (InjectAt \union KillAt) \intersect Unannounced = {} \/ \A s, t \in Terminal : s = t

\* Mounted, and without the transaction lock.
Outside == {"idle", "txWait", "readWait", "reading", "closeWait"}

\* A copy that counts as current is what is committed, but for the last failure.
CopyInv ==
    (\A t \in Terminal : pc[t] \notin Unannounced) =>
        \A s \in fresh : mounted[s] /\ pc[s] \in Outside =>
            committed \subseteq mem[s].ops /\ mem[s].ops \subseteq committed \union {op[s]}

\* Between the two halves of a recovery's last step, somebody who was already
\* mounted knows that there was nothing to redo.
RedoneInv ==
    (\E t \in Terminal : pc[t] = "recCleared") /\ (\E s \in Terminal : pc[s] \in Outside) =>
        vol.ops = committed

ReadersFresh == \A s \in Terminal : pc[s] = "reading" => s \in fresh

ReadInv == Lock!NoReaderBesideWriter /\ ReadersFresh /\ RedoneInv /\ CopyInv

LEMMA InitRead == Init => ReadInv
BY DEF Init, ReadInv, CopyInv, RedoneInv, ReadersFresh, Lock!Init, Lock!NoReaderBesideWriter

\* Everything but the death of terminals, by what it does to the copies.
\* Changes no image and stays outside, or comes from a start.
Stay(s) ==
    \/ StartSession(s)
    \/ BootRead(s)
    \/ \E k \in Kinds : DispatchMutation(s, k)
    \/ DispatchRead(s)
    \/ EndRead(s)
    \/ StartClose(s)
    \/ GiveUpCommand(s)

\* Ends inside the lock, or off.
GoInside(s) ==
    \/ LookAtJournal(s) \/ RecoverNothing(s) \/ Redo(s) \/ RecoveryClear(s) \/ RecoverySave(s)
    \/ RecoveryEnd(s) \/ OpenVolume(s) \/ OpenSave(s) \/ LockAndReload(s)
    \/ \E o \in Op : BeginTx(s, o) \/ BeginFormat(s, o) \/ SaveDirectly(s, o)
    \/ JournalBegin(s) \/ JournalBefore(s) \/ Mutate(s) \/ JournalAfter(s) \/ JournalCommit(s)
    \/ Checkpoint(s) \/ JournalCheckpoint(s) \/ ClearJournal(s) \/ BumpEpoch(s)
    \/ CloseVolume(s) \/ CloseSave(s) \/ CloseClear(s) \/ CloseEnd(s)

\* Gives the lock back and goes on.
ComeOut(s) == OpenEnd(s) \/ Refuse(s) \/ FailMidway(s) \/ EndMutation(s)

Reload(s) == LockAndRead(s) \/ ReadUnlocked(s)

\* The four and the deaths are all there is.
LEMMA StepKinds ==
    ASSUME NEW s \in Terminal, Boot(s) \/ Mutation(s) \/ Reading(s) \/ Leaving(s) \/ Dying(s)
    PROVE  \/ Stay(s) \/ GoInside(s) \/ ComeOut(s) \/ Reload(s)
           \/ Leave(s) \/ GiveUpProcess(s) \/ Dying(s)
BY DEF Boot, Mutation, Reading, Leaving, Stay, GoInside, ComeOut, Reload

LEMMA StaySteps ==
    ASSUME TypeInv, NEW s \in Terminal, Stay(s)
    PROVE  /\ pc[s] \in Outside \union {"off", "boot"}
           /\ pc'[s] \in (Outside \ {"reading"}) \union {"boot", "loaded"}
           /\ pc'[s] \in Outside => pc[s] \in Outside \/ (~mounted'[s] /\ vol = NoVolume)
           /\ pc[s] \in Outside => mem' = mem /\ mounted' = mounted
           /\ fresh' \in {fresh, fresh \union {s}}
           /\ pc[s] \in Outside => fresh' = fresh
           /\ \A t \in Terminal \ {s} : pc'[t] = pc[t] /\ mem'[t] = mem[t] /\ mounted'[t] = mounted[t]
           /\ UNCHANGED <<vol, op, committed, writers>>
           /\ readers' \subseteq readers
<1> USE DEF Goto, Remember, Outside, disk, locks, ghosts, TypeInv, TypeOK
<1>1. CASE StartSession(s)
  BY <1>1 DEF StartSession
<1>2. CASE BootRead(s)
  BY <1>2 DEF BootRead
<1>3. CASE EndRead(s)
  BY <1>3 DEF EndRead, Lock!LeaveRead
<1>4. CASE (\E k \in Kinds : DispatchMutation(s, k)) \/ DispatchRead(s) \/ StartClose(s) \/ GiveUpCommand(s)
  BY <1>4 DEF DispatchMutation, DispatchRead, StartClose, GiveUpCommand
<1> QED
  BY <1>1, <1>2, <1>3, <1>4 DEF Stay

\* What a step of GoInside does.
InsideStep(s) ==
    /\ pc'[s] \notin Outside
    /\ pc[s] \in Unannounced => pc'[s] \in Unannounced \union {"bumped"}
    /\ pc'[s] = "bumped" => fresh' = {s}
    /\ committed' # committed => pc'[s] \in Unannounced
    /\ fresh' \in {fresh, {s}, {}}
    /\ fresh' # fresh => s \in writers \/ pc[s] \in WritePoints
    /\ vol' # vol => pc[s] \in WritePoints
    /\ committed' # committed => pc[s] \in WritePoints
    /\ pc'[s] = "recCleared" => pc[s] = "redone" /\ UNCHANGED <<vol, committed>>
    /\ \A t \in Terminal \ {s} :
          pc'[t] = pc[t] /\ mem'[t] = mem[t] /\ mounted'[t] = mounted[t] /\ op'[t] = op[t]
    /\ readers' = readers
    /\ writers' \subseteq writers \/ readers = {}

LEMMA InsideSteps ==
    ASSUME TypeInv, NEW s \in Terminal, GoInside(s)
    PROVE  InsideStep(s)
<1> USE DEF InsideStep, Goto, Remember, Outside, Unannounced, WritePoints, RecoverPoints,
        TxPoints, disk, locks, ghosts, TypeInv, TypeOK, Bump
<1>1. CASE \/ LookAtJournal(s) \/ RecoverNothing(s) \/ Redo(s) \/ RecoveryClear(s) \/ RecoverySave(s)
           \/ RecoveryEnd(s) \/ OpenVolume(s) \/ OpenSave(s) \/ LockAndReload(s)
  BY <1>1 DEF LookAtJournal, RecoverNothing, Redo, RecoveryClear, RecoverySave, RecoveryEnd,
     OpenVolume, OpenSave, LockAndReload, Save, WriteJournal, Lock!AcquireWrite, Lock!LeaveWrite
<1>2. ASSUME NEW o \in Op, BeginTx(s, o) \/ BeginFormat(s, o) \/ SaveDirectly(s, o)
      PROVE  InsideStep(s)
  BY <1>2 DEF BeginTx, BeginFormat, SaveDirectly, StartFrom
<1>3. CASE \/ JournalBegin(s) \/ JournalBefore(s) \/ Mutate(s) \/ JournalAfter(s) \/ JournalCommit(s)
           \/ Checkpoint(s) \/ JournalCheckpoint(s) \/ ClearJournal(s) \/ BumpEpoch(s)
  BY <1>3 DEF JournalBegin, JournalBefore, Mutate, JournalAfter, JournalCommit, Checkpoint,
     JournalCheckpoint, ClearJournal, BumpEpoch, Save, WriteJournal
<1>4. CASE CloseVolume(s) \/ CloseSave(s) \/ CloseClear(s) \/ CloseEnd(s)
  BY <1>4 DEF CloseVolume, CloseSave, CloseClear, CloseEnd, Save, WriteJournal,
     Lock!AcquireWrite, Lock!LeaveWrite
<1> QED
  BY <1>1, <1>2, <1>3, <1>4 DEF GoInside

LEMMA StayRead ==
    ASSUME TypeInv, ReadInv, NEW s \in Terminal, Stay(s)
    PROVE  ReadInv'
<1> USE StaySteps DEF ReadInv
<1>1. Lock!NoReaderBesideWriter'
  BY DEF Lock!NoReaderBesideWriter
<1>2. ReadersFresh'
  BY DEF ReadersFresh
<1>3. RedoneInv'
  <2> SUFFICES ASSUME NEW t \in Terminal, pc'[t] = "recCleared",
                      NEW u \in Terminal, pc'[u] \in Outside
               PROVE  vol.ops = committed
    BY DEF RedoneInv
  <2>1. t # s /\ pc[t] = "recCleared"
    BY DEF Outside
  <2>2. vol # NoVolume
    BY <2>1 DEF TypeInv, MountInv, TypeOK
  <2>3. \E w \in Terminal : pc[w] \in Outside
    BY <2>2
  <2> QED
    BY <2>1, <2>3 DEF RedoneInv
<1>4. CopyInv'
  <2>1. (\A t \in Terminal : pc'[t] \notin Unannounced) => \A t \in Terminal : pc[t] \notin Unannounced
    BY DEF Outside, Unannounced
  <2>2. ASSUME NEW t \in fresh', mounted'[t], pc'[t] \in Outside
        PROVE  t \in fresh /\ mounted[t] /\ pc[t] \in Outside /\ mem'[t] = mem[t]
    BY <2>2 DEF Outside, TypeInv, TypeOK
  <2> QED
    BY <2>1, <2>2 DEF CopyInv, TypeInv, TypeOK
<1> QED
  BY <1>1, <1>2, <1>3, <1>4

LEMMA InsideRead ==
    ASSUME TypeInv, CommitInv, ReadInv, NEW s \in Terminal, GoInside(s)
    PROVE  ReadInv'
<1> USE InsideSteps DEF ReadInv, InsideStep
<1>0. pc[s] \in WritePoints => s \in writers /\ \A t \in Terminal \ {s} : pc[t] \notin WritePoints
  BY OneWriter DEF CommitInv, LockInv
<1>1. Lock!NoReaderBesideWriter'
  BY DEF Lock!NoReaderBesideWriter, TypeInv, TypeOK, Lock!TypeOK
<1>2. ReadersFresh'
  <2> SUFFICES ASSUME NEW t \in Terminal, pc'[t] = "reading"
               PROVE  t \in fresh'
    BY DEF ReadersFresh
  <2>1. t # s /\ pc[t] = "reading"
    BY DEF Outside
  <2>2. t \in fresh /\ t \in readers
    BY <2>1 DEF ReadersFresh, CommitInv, LockInv
  <2>3. writers = {}
    BY <2>2 DEF Lock!NoReaderBesideWriter
  <2> QED
    BY <1>0, <2>2, <2>3
<1>3. RedoneInv'
  <2> SUFFICES ASSUME NEW t \in Terminal, pc'[t] = "recCleared",
                      NEW u \in Terminal, pc'[u] \in Outside
               PROVE  vol'.ops = committed'
    BY DEF RedoneInv
  <2>1. u # s /\ pc[u] \in Outside
    OBVIOUS
  <2>2. CASE t = s
    <3>1. pc[s] = "redone" /\ vol' = vol /\ committed' = committed
      BY <2>2
    <3>2. journal.commit = {}
      <4>1. ~Aftermath
        BY <2>1 DEF Aftermath, Outside
      <4>2. \A w \in Terminal : pc[w] \notin Window
        BY <1>0, <3>1 DEF Window, WritePoints, RecoverPoints, TxPoints
      <4> QED
        BY <4>1, <4>2 DEF CommitInv, JournalInv
    <3>3. \A w \in Terminal : pc[w] # "recCleared"
      BY <1>0, <3>1 DEF WritePoints, RecoverPoints
    <3>4. vol # NoVolume
      BY <3>1 DEF TypeInv, MountInv, TypeOK
    <3> QED
      BY <3>1, <3>2, <3>3, <3>4 DEF CommitInv, VolumeInv
  <2>3. CASE t # s
    <3>1. pc[t] = "recCleared" /\ pc[s] \notin WritePoints
      BY <1>0, <2>3 DEF WritePoints, RecoverPoints
    <3> QED
      BY <2>1, <3>1 DEF RedoneInv
  <2> QED
    BY <2>2, <2>3
<1>4. CopyInv'
  <2> SUFFICES ASSUME \A t \in Terminal : pc'[t] \notin Unannounced,
                      NEW t \in fresh', mounted'[t], pc'[t] \in Outside
               PROVE  committed' \subseteq mem'[t].ops /\ mem'[t].ops \subseteq committed' \union {op'[t]}
    BY DEF CopyInv
  <2>1. t # s /\ t \in Terminal
    BY DEF TypeInv, TypeOK
  <2>2. t \in fresh /\ fresh' = fresh
    BY <2>1
  <2>3. \A w \in Terminal : pc[w] \notin Unannounced
    BY <2>1, <2>2
  <2> QED
    BY <2>1, <2>2, <2>3 DEF CopyInv
<1> QED
  BY <1>1, <1>2, <1>3, <1>4

LEMMA OutSteps ==
    ASSUME TypeInv, CommitInv, NEW s \in Terminal, ComeOut(s)
    PROVE  /\ pc[s] \in WritePoints \ Unannounced /\ pc'[s] = "idle"
           /\ committed \subseteq mem'[s].ops /\ mem'[s].ops \subseteq committed \union {op[s]}
           /\ fresh' \in {fresh, {s}}
           /\ \A t \in Terminal \ {s} : pc'[t] = pc[t] /\ mem'[t] = mem[t] /\ mounted'[t] = mounted[t]
           /\ UNCHANGED <<vol, op, committed, readers>>
           /\ writers' \subseteq writers
<1> USE DEF Goto, Remember, Unannounced, WritePoints, RecoverPoints, TxPoints,
        disk, locks, ghosts, TypeInv, TypeOK, Bump, CommitInv, MemInv, Lock!LeaveWrite
<1>1. CASE OpenEnd(s) \/ Refuse(s) \/ EndMutation(s)
  BY <1>1 DEF OpenEnd, Refuse, EndMutation
<1>2. CASE FailMidway(s)
  <2>1. mem[s] \in Image
    BY <1>2 DEF FailMidway, MountInv
  <2>2. \A partial \in SUBSET {op[s]} : [mem[s] EXCEPT !.ops = @ \union partial].ops = mem[s].ops \union partial
    BY <2>1 DEF Image
  <2>3. mem[s].ops = committed
    BY <1>2 DEF FailMidway
  <2> QED
    BY <1>2, <2>2, <2>3 DEF FailMidway
<1> QED
  BY <1>1, <1>2 DEF ComeOut

LEMMA OutRead ==
    ASSUME TypeInv, CommitInv, ReadInv, NEW s \in Terminal, ComeOut(s)
    PROVE  ReadInv'
<1> USE OutSteps DEF ReadInv
<1>0. s \in writers /\ \A t \in Terminal \ {s} : pc[t] \notin WritePoints
  BY OneWriter DEF CommitInv, LockInv
<1>1. Lock!NoReaderBesideWriter'
  BY DEF Lock!NoReaderBesideWriter
<1>2. ReadersFresh'
  BY <1>0 DEF ReadersFresh, CommitInv, LockInv, Lock!NoReaderBesideWriter
<1>3. RedoneInv'
  BY <1>0 DEF RedoneInv, WritePoints, RecoverPoints
<1>4. CopyInv'
  <2> SUFFICES ASSUME NEW t \in fresh', mounted'[t], pc'[t] \in Outside
               PROVE  committed \subseteq mem'[t].ops /\ mem'[t].ops \subseteq committed \union {op[t]}
    BY DEF CopyInv
  <2>1. \A w \in Terminal : pc[w] \notin Unannounced
    BY <1>0 DEF Unannounced, WritePoints, TxPoints
  <2> QED
    BY <2>1 DEF CopyInv, TypeInv, TypeOK
<1> QED
  BY <1>1, <1>2, <1>3, <1>4

\* What a reload finds while no commit is unannounced.
LEMMA ReloadFindsCommitted ==
    ASSUME TypeInv, CommitInv, ReadInv, NEW s \in Terminal, pc[s] \in Outside, mounted[s],
           \A t \in Terminal : pc[t] \notin Unannounced
    PROVE  vol.ops = committed
<1>1. CASE \E t \in Terminal : pc[t] = "recCleared"
  BY <1>1 DEF ReadInv, RedoneInv
<1>2. CASE \A t \in Terminal : pc[t] # "recCleared"
  <2>1. ~Aftermath
    BY DEF Aftermath, Outside
  <2>2. \A t \in Terminal : pc[t] \notin Window
    BY DEF Window, Unannounced
  <2>3. journal.commit = {}
    BY <2>1, <2>2 DEF CommitInv, JournalInv
  <2> QED
    BY <1>2, <2>3 DEF CommitInv, VolumeInv, TypeInv, MountInv
<1> QED
  BY <1>1, <1>2

LEMMA ReloadRead ==
    ASSUME TypeInv, CommitInv, ReadInv, NEW s \in Terminal, Reload(s)
    PROVE  ReadInv'
<1> USE DEF ReadInv
<1>0. /\ pc[s] \in Outside /\ pc'[s] \in Outside /\ mounted[s]
      /\ mem'[s] = (IF s \in fresh THEN mem[s] ELSE vol)
      /\ fresh' = fresh \union {s}
      /\ \A t \in Terminal \ {s} : pc'[t] = pc[t] /\ mem'[t] = mem[t]
      /\ UNCHANGED <<vol, mounted, op, committed, writers>>
      /\ readers' = readers \/ writers = {}
  BY DEF Reload, LockAndRead, ReadUnlocked, ReloadIfEpochChanged, Goto, Remember, Outside, disk,
     locks, ghosts, TypeInv, TypeOK, MountInv, Lock!AcquireRead
<1>1. Lock!NoReaderBesideWriter'
  BY <1>0 DEF Lock!NoReaderBesideWriter
<1>2. ReadersFresh'
  BY <1>0 DEF ReadersFresh
<1>3. RedoneInv'
  BY <1>0 DEF RedoneInv, Outside
<1>4. CopyInv'
  <2> SUFFICES ASSUME \A t \in Terminal : pc'[t] \notin Unannounced,
                      NEW t \in fresh', mounted'[t], pc'[t] \in Outside
               PROVE  committed' \subseteq mem'[t].ops /\ mem'[t].ops \subseteq committed' \union {op'[t]}
    BY DEF CopyInv
  <2>1. \A w \in Terminal : pc[w] \notin Unannounced
    BY <1>0 DEF Outside, Unannounced
  <2>2. vol.ops = committed
    BY <1>0, <2>1, ReloadFindsCommitted
  <2> QED
    BY <1>0, <2>1, <2>2 DEF CopyInv, TypeInv, TypeOK
<1> QED
  BY <1>1, <1>2, <1>3, <1>4

\* Nobody is missed by the others: between a commit and its announcement nobody
\* dies, or everybody does.
LEMMA DieRead ==
    ASSUME TypeInv, LockInv, ReadInv, NEW dead \in SUBSET Terminal, Die(dead),
           (\A s \in dead : pc[s] \notin Unannounced) \/ dead = Terminal
    PROVE  ReadInv'
<1> USE DEF ReadInv, Die, disk
<1> mounted \in [Terminal -> BOOLEAN] /\ fresh \subseteq Terminal
  BY DEF TypeInv, TypeOK
<1>1. Lock!NoReaderBesideWriter'
  BY DEF Lock!NoReaderBesideWriter
<1>2. ReadersFresh'
  BY DEF ReadersFresh
<1>3. RedoneInv'
  BY DEF RedoneInv, Outside
<1>4. CopyInv'
  <2> SUFFICES ASSUME \A t \in Terminal : pc'[t] \notin Unannounced,
                      NEW t \in fresh', mounted'[t], pc'[t] \in Outside
               PROVE  committed' \subseteq mem'[t].ops /\ mem'[t].ops \subseteq committed' \union {op'[t]}
    BY DEF CopyInv
  <2>1. t \in Terminal \ dead /\ t \in fresh
    OBVIOUS
  <2>2. \A w \in Terminal : pc[w] \notin Unannounced
    BY <2>1
  <2>3. mounted[t]
    BY <2>1, Zenon
  <2> QED
    BY <2>1, <2>2, <2>3 DEF CopyInv
<1> QED
  BY <1>1, <1>2, <1>3, <1>4

LEMMA StepRead ==
    ASSUME QuietChange, TypeInv, CommitInv, ReadInv, [Next]_vars
    PROVE  ReadInv'
<1>1. CASE UNCHANGED vars
  BY <1>1 DEF vars, ReadInv, ReadersFresh, RedoneInv, CopyInv, Lock!NoReaderBesideWriter
<1>2. CASE KillAll
  BY <1>2, DieRead DEF KillAll, CommitInv
<1>3. ASSUME NEW s \in Terminal, Dying(s) \/ Leave(s) \/ GiveUpProcess(s)
      PROVE  ReadInv'
  <2>1. Die({s})
    BY <1>3 DEF Dying, InjectCrash, CrashOnSignal, Kill, Leave, GiveUpProcess
  <2>2. pc[s] \in InjectAt \union KillAt \/ pc[s] \notin Unannounced
    BY <1>3 DEF Dying, InjectCrash, CrashOnSignal, Kill, Leave, GiveUpProcess, Unannounced
  <2>3. (\A t \in {s} : pc[t] \notin Unannounced) \/ {s} = Terminal
    BY <2>2 DEF QuietChange
  <2> QED
    BY <2>1, <2>3, DieRead DEF CommitInv
<1>4. ASSUME NEW s \in Terminal,
             Boot(s) \/ Mutation(s) \/ Reading(s) \/ Leaving(s) \/ Dying(s)
      PROVE  ReadInv'
  BY <1>3, <1>4, StepKinds, StayRead, InsideRead, OutRead, ReloadRead
<1> QED
  BY <1>1, <1>2, <1>4 DEF Next

\* Whoever reads under the lock sees what is committed, although it reloads only
\* when the epoch has changed, and others reload and boot without a lock
\* (reloadIfEpochChanged, bumpEpoch).
THEOREM ReadersCoherent == QuietCommit /\ QuietChange => (Spec => []ReaderCoherent)
<1> SUFFICES ASSUME QuietCommit, QuietChange
             PROVE  Spec => []ReaderCoherent
  OBVIOUS
<1> DEFINE Inv == TypeInv /\ CommitInv /\ ReadInv
<1>1. Init => Inv
  BY InitType, InitCommit, InitRead
<1>2. Inv /\ [Next]_vars => Inv'
  BY StepType, StepCommit, StepRead
<1>3. Inv => ReaderCoherent
  <2> SUFFICES ASSUME Inv, NEW s \in Terminal, pc[s] = "reading"
               PROVE  committed \subseteq mem[s].ops /\ mem[s].ops \subseteq committed \union {op[s]}
    BY DEF ReaderCoherent
  <2>1. s \in fresh /\ s \in readers
    BY DEF ReadInv, ReadersFresh, CommitInv, LockInv
  <2>2. writers = {}
    BY <2>1 DEF ReadInv, Lock!NoReaderBesideWriter
  <2>3. \A t \in Terminal : pc[t] \notin Unannounced
    BY <2>2, FreeLock DEF CommitInv, Unannounced, WritePoints, TxPoints
  <2>4. mounted[s]
    BY DEF TypeInv, MountInv
  <2> QED
    BY <2>1, <2>3, <2>4 DEF ReadInv, CopyInv, Outside
<1> QED
  BY <1>1, <1>2, <1>3, PTL DEF Spec
=============================================================================
