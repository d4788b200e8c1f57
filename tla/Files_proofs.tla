--------------------------- MODULE Files_proofs ---------------------------
(***************************************************************************)
(* The three protocols on files, for volumes of any size and any number of *)
(* terminals.  A kill inside the checkpoint's write never loses a commit,  *)
(* wherever the write is cut.  A terminal that has seen the current epoch  *)
(* has the current volume, unless it reloaded without a lock inside the    *)
(* save of a transaction that then failed.  No terminal ends by a signal   *)
(* from before its time, and a crash reaches every terminal as long as     *)
(* only one at a time is sending.                                          *)
(***************************************************************************)
EXTENDS MCFiles, TLAPS

-----------------------------------------------------------------------------
(* The volume file.                                                        *)

\* What the journal holds at each point of a running process.
JournalAt(p) ==
  CASE p \in {"idle", "begin", "open", "direct", "unmount", "closing"} -> {}
    [] p \in {"mutate", "after"} -> {"begin", "before"}
    [] p = "commit" -> {"begin", "before", "after"}
    [] p \in {"checkpoint", "saved"} -> {"begin", "before", "after", "commit"}
    [] p = "clear" -> {"begin", "before", "after", "commit", "checkpoint"}

Running == FilePoints \ {"off", "failed"}
ToBeRedone == "commit" \in journal /\ "checkpoint" \notin journal

\* A running process's files and memory follow from where it is.
RunInv ==
  step \in Running =>
    /\ journal = JournalAt(step)
    /\ volume.lines = Parts + 1
    /\ step \in {"commit", "checkpoint", "saved"} => after = mem
    /\ step \in {"saved", "clear", "closing"} => volume.image = mem
    /\ ~torn /\ step \notin {"after", "commit", "direct"} => mem.data = durable

\* What recovery would find is the last commit.
DiskInv ==
  ~torn => IF ToBeRedone THEN "after" \in journal /\ after.data = durable
           ELSE volume.lines = Parts + 1 /\ volume.image.data = durable

FileIInv == FileTypeOK /\ RunInv /\ DiskInv

-----------------------------------------------------------------------------
LEMMA WholeType == ASSUME NEW image \in Image PROVE Whole(image) \in File
BY FileAssumption DEF Whole, File, CutLines

LEMMA DeserializeType ==
  ASSUME NEW file \in File
  PROVE  /\ Deserialize(file) \in Image
         /\ file.lines = Parts + 1 => Deserialize(file).data = file.image.data
<1>1. \A p \in 1 .. Parts : PartOf(file, p) \in 0 .. MaxOps + 2
  BY FileAssumption DEF PartOf, Lost, Garbled, File, Image, Data
<1>2. Deserialize(file).data \in Data
  BY <1>1 DEF Deserialize, Data
<1>3. Deserialize(file).mount \in {"clean", "dirty"}
  BY DEF Deserialize, File, Image
<1>4. Deserialize(file) \in Image
  BY <1>2, <1>3 DEF Deserialize, Image
<1>5. ASSUME file.lines = Parts + 1 PROVE Deserialize(file).data = file.image.data
  <2>1. \A p \in 1 .. Parts : PartOf(file, p) = file.image.data[p]
    BY <1>5, FileAssumption DEF PartOf
  <2>2. file.image.data \in [1 .. Parts -> 0 .. MaxOps + 2]
    BY DEF File, Image, Data
  <2> QED
    BY <2>1, <2>2 DEF Deserialize
<1> QED
  BY <1>4, <1>5

LEMMA BootedType == ASSUME FileTypeOK PROVE Booted \in Image
<1>1. Deserialize(volume) \in Image
  BY DeserializeType DEF FileTypeOK
<1>2. Recovered(Deserialize(volume)) \in Image
  BY <1>1 DEF Recovered, FileTypeOK
<1> QED
  BY <1>2 DEF Booted, Dirty, Image

\* After recovery memory holds the last commit.
LEMMA BootedData == ASSUME FileIInv, ~torn PROVE Booted.data = durable
<1>1. Booted.data = Recovered(Deserialize(volume)).data
  <2>1. Deserialize(volume) \in Image
    BY DeserializeType DEF FileIInv, FileTypeOK
  <2>2. Recovered(Deserialize(volume)) \in Image
    BY <2>1 DEF Recovered, FileIInv, FileTypeOK
  <2> QED
    BY <2>2 DEF Booted, Dirty, Image
<1>2. CASE ToBeRedone
  BY <1>1, <1>2 DEF FileIInv, DiskInv, Recovered, ToBeRedone
<1>3. CASE ~ToBeRedone
  BY <1>1, <1>3, DeserializeType DEF FileIInv, DiskInv, Recovered, ToBeRedone, FileTypeOK
<1> QED
  BY <1>2, <1>3

\* A change leaves an image.
LEMMA ChangeType ==
  ASSUME FileTypeOK, NEW p \in 1 .. Parts, Change(p)
  PROVE  mem' \in Image /\ ops' \in 0 .. MaxOps
<1>1. ops + 1 \in 0 .. MaxOps + 2 /\ ops' \in 0 .. MaxOps
  BY FileAssumption DEF FileTypeOK, Change
<1>2. [mem.data EXCEPT ![p] = ops + 1] \in Data
  BY <1>1 DEF FileTypeOK, Image, Data
<1>3. mem' = [mem EXCEPT !.data = [mem.data EXCEPT ![p] = ops + 1]]
  BY DEF Change, FileTypeOK, Image
<1> QED
  BY <1>1, <1>2, <1>3 DEF FileTypeOK, Image

LEMMA CutsType == ASSUME NEW image \in Image PROVE
  \A file \in Cuts(image) : file \in File
<1> TAKE file \in Cuts(image)
<1>1. file.lines \in 0 .. Parts + 1 /\ file.cut \in CutLines /\ file.image \in Image
  <2>1. file.lines \in 0 .. Parts /\ file.cut \in Tails /\ file.image = image
    BY DEF Cuts
  <2> QED
    BY <2>1, FileAssumption
<1>2. file = [image |-> file.image, lines |-> file.lines, cut |-> file.cut]
  BY DEF Cuts
<1> QED
  BY <1>1, <1>2 DEF File

LEMMA FileInitInv == FileInit => FileIInv
<1> SUFFICES ASSUME FileInit PROVE FileIInv
  OBVIOUS
<1>1. [p \in 1 .. Parts |-> 0] \in Data /\ Nothing \in Image
  BY FileAssumption DEF Data, Nothing, Image, Lost
<1>2. Whole([mount |-> "clean", data |-> [p \in 1 .. Parts |-> 0]]) \in File
  BY <1>1, WholeType DEF Image
<1>3. volume \in File /\ durable \in Data
  BY <1>1, <1>2 DEF FileInit
<1>4. after \in Image /\ mem \in Image /\ ops \in 0 .. MaxOps
  BY <1>1, FileAssumption DEF FileInit
<1>5. FileTypeOK
  BY <1>3, <1>4 DEF FileInit, FileTypeOK, FilePoints
<1> QED
  BY <1>5 DEF FileInit, FileIInv, RunInv, DiskInv, Running, ToBeRedone, Whole

LEMMA FileNextInv == FileIInv /\ [FileNext]_fileVars => FileIInv'
<1> SUFFICES ASSUME FileIInv, [FileNext]_fileVars PROVE FileIInv'
  OBVIOUS
<1>1. FileTypeOK /\ RunInv /\ DiskInv
  BY DEF FileIInv
<1> USE DEF FilePoints, Running
<1>2. CASE Boot
  <2>1. Booted \in Image /\ Whole(Booted) \in File
    BY <1>1, BootedType, WholeType
  <2>2. FileTypeOK'
    BY <1>1, <1>2, <2>1 DEF Boot, FileTypeOK
  <2>3. Whole(Booted).lines = Parts + 1 /\ Whole(Booted).image = Booted
    BY DEF Whole
  <2>4. RunInv'
    BY <1>2, <2>3, BootedData DEF Boot, RunInv, JournalAt
  <2>5. DiskInv'
    BY <1>2, <2>3, BootedData DEF Boot, DiskInv, ToBeRedone
  <2> QED
    BY <2>2, <2>4, <2>5 DEF FileIInv
<1>3. CASE BootRefused
  BY <1>1, <1>3 DEF BootRefused, FileIInv, FileTypeOK, RunInv, DiskInv, ToBeRedone
<1>4. CASE BeginTx
  BY <1>1, <1>4 DEF BeginTx, Goes, FileIInv, FileTypeOK, RunInv, DiskInv, ToBeRedone, JournalAt
<1>5. CASE SaveBegin
  <2>1. FileTypeOK'
    BY <1>1, <1>5, WholeType DEF SaveBegin, Save, Goes, FileTypeOK
  <2> QED
    BY <1>1, <1>5, <2>1 DEF SaveBegin, Save, Goes, FileIInv, RunInv, DiskInv, ToBeRedone, JournalAt, Whole
<1>6. CASE RecordBefore
  BY <1>1, <1>6 DEF RecordBefore, Append, Goes, FileIInv, FileTypeOK, RunInv, DiskInv, ToBeRedone, JournalAt
<1>7. CASE \E p \in 1 .. Parts : Mutate(p)
  <2>1. FileTypeOK'
    BY <1>1, <1>7, ChangeType DEF Mutate, Goes, FileTypeOK
  <2> QED
    BY <1>1, <1>7, <2>1 DEF Mutate, Goes, FileIInv, RunInv, DiskInv, ToBeRedone, JournalAt
<1>8. CASE RecordAfter
  BY <1>1, <1>8 DEF RecordAfter, Append, Goes, FileIInv, FileTypeOK, RunInv, DiskInv, ToBeRedone, JournalAt
<1>9. CASE Commit
  <2>1. FileTypeOK'
    BY <1>1, <1>9 DEF Commit, Append, Goes, FileTypeOK, Image
  <2> QED
    BY <1>1, <1>9, <2>1 DEF Commit, Append, Goes, FileIInv, RunInv, DiskInv, ToBeRedone, JournalAt
<1>10. CASE SaveCheckpoint
  <2>1. FileTypeOK'
    BY <1>1, <1>10, WholeType DEF SaveCheckpoint, Save, Goes, FileTypeOK
  <2> QED
    BY <1>1, <1>10, <2>1
       DEF SaveCheckpoint, Save, Goes, FileIInv, RunInv, DiskInv, ToBeRedone, JournalAt, Whole
<1>11. CASE Checkpoint
  <2>1. FileTypeOK'
    BY <1>1, <1>11 DEF Checkpoint, Append, Goes, FileTypeOK
  <2>2. RunInv'
    BY <1>1, <1>11 DEF Checkpoint, Append, Goes, RunInv, JournalAt
  <2>3. DiskInv'
    BY <1>1, <1>11 DEF Checkpoint, Append, Goes, RunInv, DiskInv, ToBeRedone, JournalAt
  <2> QED
    BY <2>1, <2>2, <2>3 DEF FileIInv
<1>12. CASE ClearJournal
  BY <1>1, <1>12 DEF ClearJournal, Goes, FileIInv, FileTypeOK, RunInv, DiskInv, ToBeRedone, JournalAt
<1>13. CASE \E p \in 1 .. Parts : Direct(p)
  <2>1. FileTypeOK'
    BY <1>1, <1>13, ChangeType DEF Direct, Goes, FileTypeOK
  <2> QED
    BY <1>1, <1>13, <2>1 DEF Direct, Goes, FileIInv, RunInv, DiskInv, ToBeRedone, JournalAt
<1>14. CASE SaveDirect
  <2>1. FileTypeOK'
    BY <1>1, <1>14, WholeType DEF SaveDirect, Save, Goes, FileTypeOK, Image
  <2> QED
    BY <1>1, <1>14, <2>1 DEF SaveDirect, Save, Goes, FileIInv, RunInv, DiskInv, ToBeRedone, JournalAt, Whole
<1>15. CASE Unmount
  <2>1. mem' \in Image /\ mem'.data = mem.data
    BY <1>1, <1>15 DEF Unmount, FileTypeOK, Image
  <2>2. FileTypeOK'
    BY <1>1, <1>15, <2>1 DEF Unmount, Goes, FileTypeOK
  <2> QED
    BY <1>1, <1>15, <2>1, <2>2 DEF Unmount, Goes, FileIInv, RunInv, DiskInv, ToBeRedone, JournalAt
<1>16. CASE SaveClean
  <2>1. FileTypeOK'
    BY <1>1, <1>16, WholeType DEF SaveClean, Save, Goes, FileTypeOK
  <2> QED
    BY <1>1, <1>16, <2>1 DEF SaveClean, Save, Goes, FileIInv, RunInv, DiskInv, ToBeRedone, JournalAt, Whole
<1>17. CASE ClearClean
  BY <1>1, <1>17 DEF ClearClean, Goes, FileIInv, FileTypeOK, RunInv, DiskInv, ToBeRedone, JournalAt
<1>18. CASE Kill
  BY <1>1, <1>18 DEF Kill, FileIInv, FileTypeOK, RunInv, DiskInv, ToBeRedone
<1>19. ASSUME NEW save \in KillIn, KillInside(save) PROVE FileIInv'
  <2>1. volume' \in File
    BY <1>1, <1>19, CutsType DEF KillInside, FileTypeOK
  <2>2. FileTypeOK'
    BY <1>1, <1>19, <2>1 DEF KillInside, FileTypeOK
  <2>3. RunInv'
    BY <1>19 DEF KillInside, RunInv
  <2>4. ~torn' => save = "checkpoint" /\ ~torn
    BY <1>1, <1>19 DEF KillInside, FileTypeOK
  <2>5. DiskInv'
    BY <1>1, <1>19, <2>4 DEF KillInside, RunInv, DiskInv, ToBeRedone, JournalAt
  <2> QED
    BY <2>2, <2>3, <2>5 DEF FileIInv
<1>20. CASE KillInBoot
  <2>1. volume' \in File
    BY <1>1, <1>20, CutsType, BootedType DEF KillInBoot
  <2>2. FileTypeOK'
    BY <1>1, <1>20, <2>1 DEF KillInBoot, FileTypeOK
  <2> QED
    BY <1>1, <1>20, <2>2 DEF KillInBoot, FileIInv, RunInv, DiskInv
<1>21. CASE UNCHANGED fileVars
  BY <1>1, <1>21 DEF fileVars, FileIInv, FileTypeOK, RunInv, DiskInv, ToBeRedone
<1> QED
  BY <1>2, <1>3, <1>4, <1>5, <1>6, <1>7, <1>8, <1>9, <1>10, <1>11, <1>12, <1>13,
     <1>14, <1>15, <1>16, <1>17, <1>18, <1>19, <1>20,
     <1>21 DEF FileNext

LEMMA FileIInvHolds == FileSpec => []FileIInv
BY FileInitInv, FileNextInv, PTL DEF FileSpec

-----------------------------------------------------------------------------
\* The files and the model in memory keep their types (block_device.cpp,
\* FileSystemKernel::saveState and deserializeState).
THEOREM FileTypeHolds == FileSpec => []FileTypeOK
<1>1. FileIInv => FileTypeOK
  BY DEF FileIInv
<1> QED
  BY <1>1, FileIInvHolds, PTL

\* A volume file whose writing was cut is never all there is, as long as only
\* checkpoints were cut: the journal holds the image (commitTx writes COMMIT
\* before saveState).
THEOREM WholeOrRedoableHolds == FileSpec => []WholeOrRedoable
<1>1. FileIInv => WholeOrRedoable
  <2> SUFFICES ASSUME FileIInv, volume.lines <= Parts, ~torn
               PROVE  {"after", "commit"} \subseteq journal /\ "checkpoint" \notin journal
                      /\ after.data = durable
    BY DEF WholeOrRedoable
  <2>1. volume.lines # Parts + 1
    BY FileAssumption DEF FileIInv, FileTypeOK, File
  <2> QED
    BY <2>1 DEF FileIInv, DiskInv, ToBeRedone
<1> QED
  BY <1>1, FileIInvHolds, PTL

\* No kill inside or beside a checkpoint undoes a commit: what a process works
\* on when it takes a command is what was committed last (boot's recovery).
THEOREM CommittedSurvivesHolds == FileSpec => []CommittedSurvives
<1>1. FileIInv => CommittedSurvives
  BY DEF FileIInv, RunInv, CommittedSurvives, FilePoints, Running
<1> QED
  BY <1>1, FileIInvHolds, PTL

-----------------------------------------------------------------------------
(* The epoch file.                                                         *)

Writing == {"begin", "beginning", "mutate", "change", "saving", "bump", "bumping"}

\* Who is in the middle of a change has the lock.
HolderInv == \A t \in Terminal : pc[t] \in Writing <=> holder = t

\* Each version is one number, and the file's lags behind at most by one.
NumberInv ==
  /\ \A t \in Terminal : observed[t] <= latest
  /\ holder = Nobody => epoch = latest
  /\ holder # Nobody =>
       /\ pc[holder] \in {"begin", "beginning", "mutate", "change"} => epoch = latest
       /\ pc[holder] \in {"saving", "bump"} => latest = epoch + 1
       /\ pc[holder] = "bumping" => epoch = 0 /\ next = latest /\ latest > 0

\* The volume file and the holder's copy are the latest version.
VolumeInv ==
  /\ holder = Nobody => stored = latest
  /\ holder # Nobody =>
       /\ copy[holder] = latest
       /\ pc[holder] \notin {"beginning", "saving"} => stored = latest
       /\ pc[holder] \in {"begin", "beginning", "mutate", "change"} => latest < MaxEpoch

\* Between changes too, whoever has the latest number has the latest version.
CopyInv ==
  \A t \in Terminal \ misled : pc[t] = "idle" /\ observed[t] = latest => copy[t] = latest

EpochIInv == EpochTypeOK /\ HolderInv /\ NumberInv /\ VolumeInv /\ CopyInv

-----------------------------------------------------------------------------
LEMMA EpochInitInv == EpochInit => EpochIInv
BY EpochAssumption
   DEF EpochInit, EpochIInv, EpochTypeOK, HolderInv, NumberInv, VolumeInv, CopyInv, Writing, Torn

LEMMA EpochReadInv ==
  ASSUME EpochIInv, NEW t \in Terminal, ReadLocked(t) \/ ReadUnlocked(t)
  PROVE  EpochIInv'
<1> USE EpochAssumption DEF ReadLocked, ReadUnlocked, Read, ReloadIfEpochChanged, Reload
<1>1. EpochTypeOK'
  BY DEF EpochIInv, EpochTypeOK
<1>2. HolderInv'
  BY DEF EpochIInv, HolderInv
<1>3. epoch <= latest /\ (holder # Nobody => holder \in Terminal)
  BY DEF EpochIInv, EpochTypeOK, NumberInv, HolderInv, Writing
<1>4. NumberInv'
  BY <1>3 DEF EpochIInv, EpochTypeOK, NumberInv
<1>5. holder # t
  BY DEF EpochIInv, HolderInv, Writing
<1>6. VolumeInv'
  BY <1>5 DEF EpochIInv, EpochTypeOK, VolumeInv
<1>7. CopyInv'
  <2> SUFFICES ASSUME NEW u \in Terminal \ misled', pc[u] = "idle", observed'[u] = latest
               PROVE  copy'[u] = latest
    BY DEF CopyInv, EpochIInv, EpochTypeOK
  <2>1. misled \subseteq misled'
    OBVIOUS
  <2>2. CASE u # t
    BY <2>1, <2>2 DEF EpochIInv, EpochTypeOK, CopyInv
  <2>3. CASE u = t /\ epoch = observed[t]
    BY <2>1, <2>3 DEF EpochIInv, EpochTypeOK, CopyInv
  <2>4. CASE u = t /\ epoch # observed[t]
    <3>1. epoch = latest
      BY <2>4 DEF EpochIInv, EpochTypeOK
    <3>2. CASE holder = Nobody
      BY <2>4, <3>1, <3>2 DEF EpochIInv, EpochTypeOK, VolumeInv
    <3>3. CASE holder # Nobody
      <4>1. pc[holder] \in Writing \ {"beginning"}
        BY <1>3, <2>4, <3>3 DEF EpochIInv, HolderInv, Writing
      <4>2. pc[holder] \in {"begin", "mutate", "change"}
        BY <1>3, <3>1, <3>3, <4>1 DEF EpochIInv, EpochTypeOK, NumberInv, Writing
      <4>3. stored = latest
        BY <3>3, <4>2 DEF EpochIInv, VolumeInv
      <4> QED
        BY <2>4, <4>3 DEF EpochIInv, EpochTypeOK
    <3> QED
      BY <3>2, <3>3
  <2> QED
    BY <2>2, <2>3, <2>4
<1> QED
  BY <1>1, <1>2, <1>4, <1>6, <1>7 DEF EpochIInv

LEMMA EpochLockInv ==
  ASSUME EpochIInv, NEW t \in Terminal, NEW from \in {"idle", "mounting"},
         NEW to \in {"begin", "change"}, Lock(t, from, to)
  PROVE  EpochIInv'
<1> USE EpochAssumption DEF Lock, Goto, Reload
<1>1. EpochTypeOK'
  BY DEF EpochIInv, EpochTypeOK
<1>2. HolderInv'
  BY DEF EpochIInv, EpochTypeOK, HolderInv, Writing
<1>3. NumberInv'
  BY DEF EpochIInv, EpochTypeOK, NumberInv
<1>4. VolumeInv'
  BY DEF EpochIInv, EpochTypeOK, VolumeInv
<1>5. CopyInv'
  BY DEF EpochIInv, EpochTypeOK, CopyInv, VolumeInv
<1> QED
  BY <1>1, <1>2, <1>3, <1>4, <1>5 DEF EpochIInv

LEMMA EpochNextInv == ASSUME EpochIInv, [EpochNext]_epochVars PROVE EpochIInv'
<1> USE EpochAssumption
<1>1. CASE UNCHANGED epochVars
  BY <1>1 DEF epochVars, EpochIInv, EpochTypeOK, HolderInv, NumberInv, VolumeInv, CopyInv
<1>2. ASSUME NEW t \in Terminal, Start(t) \/ BootRead(t) \/ BootFails(t) \/ Leave(t)
      PROVE  EpochIInv'
  <2> USE <1>2 DEF Start, BootRead, BootFails, Leave, Goto, Reload
  <2>1. EpochTypeOK'
    BY DEF EpochIInv, EpochTypeOK
  <2>2. HolderInv' /\ holder # t
    BY DEF EpochIInv, EpochTypeOK, HolderInv, Writing
  <2>3. epoch <= latest
    BY DEF EpochIInv, EpochTypeOK, NumberInv, HolderInv, Writing
  <2>4. NumberInv'
    BY <2>2, <2>3 DEF EpochIInv, EpochTypeOK, NumberInv
  <2>5. VolumeInv'
    BY <2>2 DEF EpochIInv, EpochTypeOK, VolumeInv
  <2>6. CopyInv'
    BY <2>2 DEF EpochIInv, EpochTypeOK, CopyInv
  <2> QED
    BY <2>1, <2>2, <2>4, <2>5, <2>6 DEF EpochIInv
<1>3. ASSUME NEW t \in Terminal, ReadLocked(t) \/ ReadUnlocked(t) PROVE EpochIInv'
  BY <1>3, EpochReadInv
<1>4. ASSUME NEW t \in Terminal, LockForTx(t) \/ LockForSave(t) \/ LockForMount(t) PROVE EpochIInv'
  BY <1>4, EpochLockInv DEF LockForTx, LockForSave, LockForMount
<1>5. ASSUME NEW t \in Terminal, OpenBegin(t) \/ WriteBegin(t) PROVE EpochIInv'
  <2> USE <1>5 DEF OpenBegin, OpenVolume, WriteBegin, WriteVolume, Goto
  <2>1. holder = t /\ EpochTypeOK' /\ HolderInv'
    BY DEF EpochIInv, EpochTypeOK, HolderInv, Writing, Torn
  <2>2. NumberInv'
    <3>1. pc[holder] \in {"begin", "beginning"} /\ pc'[holder] \in {"beginning", "mutate"}
      BY <2>1 DEF EpochIInv, EpochTypeOK
    <3>2. UNCHANGED <<epoch, holder, next, observed, latest>>
      OBVIOUS
    <3> QED
      BY <3>1, <3>2 DEF EpochIInv, NumberInv
  <2>3. VolumeInv'
    BY <2>1 DEF EpochIInv, EpochTypeOK, VolumeInv
  <2>4. CopyInv'
    BY <2>1 DEF EpochIInv, EpochTypeOK, CopyInv
  <2> QED
    BY <2>1, <2>2, <2>3, <2>4 DEF EpochIInv
<1>6. ASSUME NEW t \in Terminal, Fail(t) PROVE EpochIInv'
  <2> USE <1>6 DEF Fail, Goto
  <2>1. holder = t /\ EpochTypeOK' /\ HolderInv'
    BY DEF EpochIInv, EpochTypeOK, HolderInv, Writing
  <2>2. NumberInv'
    BY <2>1 DEF EpochIInv, EpochTypeOK, NumberInv
  <2>3. VolumeInv'
    BY <2>1 DEF EpochIInv, EpochTypeOK, VolumeInv
  <2>4. CopyInv'
    BY <2>1 DEF EpochIInv, EpochTypeOK, CopyInv, VolumeInv
  <2> QED
    BY <2>1, <2>2, <2>3, <2>4 DEF EpochIInv
<1>7. ASSUME NEW t \in Terminal, OpenChanged(t) PROVE EpochIInv'
  <2> USE <1>7 DEF OpenChanged, OpenVolume, Goto
  <2>1. holder = t /\ HolderInv' /\ latest < MaxEpoch
    BY DEF EpochIInv, EpochTypeOK, HolderInv, VolumeInv, Writing
  <2>2. EpochTypeOK'
    BY <2>1 DEF EpochIInv, EpochTypeOK, Torn
  <2>3. NumberInv'
    BY <2>1 DEF EpochIInv, EpochTypeOK, NumberInv
  <2>4. VolumeInv'
    BY <2>1 DEF EpochIInv, EpochTypeOK, VolumeInv
  <2>5. CopyInv'
    BY <2>1 DEF EpochIInv, EpochTypeOK, CopyInv, NumberInv
  <2> QED
    BY <2>1, <2>2, <2>3, <2>4, <2>5 DEF EpochIInv
<1>8. ASSUME NEW t \in Terminal, WriteChanged(t) PROVE EpochIInv'
  <2> USE <1>8 DEF WriteChanged, WriteVolume, Goto
  <2>1. holder = t /\ EpochTypeOK' /\ HolderInv'
    BY DEF EpochIInv, EpochTypeOK, HolderInv, Writing
  <2>2. NumberInv'
    BY <2>1 DEF EpochIInv, EpochTypeOK, NumberInv
  <2>3. VolumeInv'
    BY <2>1 DEF EpochIInv, EpochTypeOK, VolumeInv
  <2>4. CopyInv'
    BY <2>1 DEF EpochIInv, EpochTypeOK, CopyInv
  <2> QED
    BY <2>1, <2>2, <2>3, <2>4 DEF EpochIInv
<1>9. ASSUME NEW t \in Terminal, OpenEpoch(t) PROVE EpochIInv'
  <2> USE <1>9 DEF OpenEpoch, Goto
  <2>1. holder = t /\ HolderInv' /\ latest = epoch + 1
    BY DEF EpochIInv, EpochTypeOK, HolderInv, NumberInv, Writing
  <2>2. EpochTypeOK'
    BY <2>1 DEF EpochIInv, EpochTypeOK
  <2>3. NumberInv'
    BY <2>1 DEF EpochIInv, EpochTypeOK, NumberInv
  <2>4. VolumeInv'
    BY <2>1 DEF EpochIInv, EpochTypeOK, VolumeInv
  <2>5. CopyInv'
    BY <2>1 DEF EpochIInv, EpochTypeOK, CopyInv
  <2> QED
    BY <2>1, <2>2, <2>3, <2>4, <2>5 DEF EpochIInv
<1>10. ASSUME NEW t \in Terminal, WriteEpoch(t) PROVE EpochIInv'
  <2> USE <1>10 DEF WriteEpoch, Goto
  <2>1. holder = t /\ EpochTypeOK' /\ HolderInv'
    BY DEF EpochIInv, EpochTypeOK, HolderInv, Writing
  <2>2. NumberInv'
    BY <2>1 DEF EpochIInv, EpochTypeOK, NumberInv
  <2>3. VolumeInv'
    BY <2>1 DEF EpochIInv, EpochTypeOK, VolumeInv
  <2>4. CopyInv'
    BY <2>1 DEF EpochIInv, EpochTypeOK, CopyInv, VolumeInv
  <2> QED
    BY <2>1, <2>2, <2>3, <2>4 DEF EpochIInv
<1> QED
  BY <1>1, <1>2, <1>3, <1>4, <1>5, <1>6, <1>7, <1>8, <1>9, <1>10 DEF EpochNext

LEMMA EpochIInvHolds == EpochSpec => []EpochIInv
<1>1. EpochIInv /\ [EpochNext]_epochVars => EpochIInv'
  BY EpochNextInv
<1> QED
  BY <1>1, EpochInitInv, PTL DEF EpochSpec

-----------------------------------------------------------------------------
\* A terminal that saw the current number has the current volume, for any number
\* of terminals (reloadIfEpochChanged, bumpEpoch, beginTx and commitTx).
THEOREM CopyIsCurrentHolds == EpochSpec => []CopyIsCurrent
<1>1. EpochIInv => CopyIsCurrent
  BY DEF EpochIInv, NumberInv, VolumeInv, CopyInv, CopyIsCurrent
<1> QED
  BY <1>1, EpochIInvHolds, PTL

-----------------------------------------------------------------------------
(* The crash signal.                                                       *)

\* What is being sent is new to everybody who is still running.
SendInv == \A s \in Sending :
  /\ \A u \in Sending : u = s
  /\ \A t \in Session : doing[t] = "idle" => seen[t] < number[s]
  /\ number[s] > signal

\* Between two signals nobody is ahead of the file.
SeenInv ==
  Sending = {} =>
    \A t \in Session : doing[t] = "idle" =>
      seen[t] <= signal /\ (t \in owed => seen[t] < signal /\ sender # t)

OwedRunning == \A t \in owed : doing[t] # "off"

\* All of it until two terminals raced.
SignalInv == ~raced => SendInv /\ SeenInv /\ OwedRunning

-----------------------------------------------------------------------------
LEMMA SignalInitInv == SignalInit => SignalTypeOK /\ OldSignalsIgnored /\ SignalInv
<1> SUFFICES ASSUME SignalInit PROVE SignalTypeOK /\ OldSignalsIgnored /\ SignalInv
  OBVIOUS
<1>1. SignalTypeOK
  <2>1. 0 \in 0 .. MaxSignal
    BY SignalAssumption
  <2>2. raced \in BOOLEAN
    BY DEF SignalInit
  <2> QED
    BY <2>1, <2>2 DEF SignalInit, SignalTypeOK, SignalPoints
<1>2. \A t \in Session : doing[t] = "off"
  BY DEF SignalInit
<1> QED
  BY <1>1, <1>2
     DEF SignalInit, OldSignalsIgnored, SignalInv, SendInv, SeenInv, OwedRunning, Sending

LEMMA SignalTypeNext == SignalTypeOK /\ [SignalNext]_signalVars => SignalTypeOK'
<1> SUFFICES ASSUME SignalTypeOK, [SignalNext]_signalVars PROVE SignalTypeOK'
  OBVIOUS
<1> USE SignalAssumption DEF SignalTypeOK, SignalPoints, Turns, Gone
<1>1. CASE UNCHANGED signalVars
  BY <1>1 DEF signalVars
<1>2. ASSUME NEW t \in Session, StartListening(t) PROVE SignalTypeOK'
  BY <1>2 DEF StartListening
<1>3. ASSUME NEW t \in Session, Poll(t) \/ Quit(t) \/ KillSending(t) PROVE SignalTypeOK'
  BY <1>3 DEF Poll, Quit, KillSending
<1>4. ASSUME NEW t \in Session, ReadSignal(t) PROVE SignalTypeOK'
  <2>1. signal + 1 \in 0 .. MaxSignal
    BY <1>4 DEF ReadSignal
  <2> QED
    BY <1>4, <2>1 DEF ReadSignal
<1>5. ASSUME NEW t \in Session, TruncateSignal(t) PROVE SignalTypeOK'
  BY <1>5 DEF TruncateSignal
<1>6. ASSUME NEW t \in Session, WriteSignal(t) PROVE SignalTypeOK'
  BY <1>6 DEF WriteSignal
<1> QED
  BY <1>1, <1>2, <1>3, <1>4, <1>5, <1>6 DEF SignalNext

LEMMA SignalOldNext == SignalTypeOK /\ OldSignalsIgnored /\ [SignalNext]_signalVars => OldSignalsIgnored'
<1> SUFFICES ASSUME SignalTypeOK, OldSignalsIgnored, [SignalNext]_signalVars PROVE OldSignalsIgnored'
  OBVIOUS
<1> USE DEF SignalTypeOK, OldSignalsIgnored, Pending, Turns, Gone
<1>1. CASE UNCHANGED signalVars
  BY <1>1 DEF signalVars
<1>2. ASSUME NEW t \in Session, StartListening(t) PROVE OldSignalsIgnored'
  BY <1>2 DEF StartListening
<1>3. ASSUME NEW t \in Session, Poll(t) \/ Quit(t) PROVE OldSignalsIgnored'
  BY <1>3 DEF Poll, Quit
<1>4. ASSUME NEW t \in Session, KillSending(t) PROVE OldSignalsIgnored'
  BY <1>4 DEF KillSending, Sending
<1>5. ASSUME NEW t \in Session, ReadSignal(t)
      PROVE  OldSignalsIgnored'
  BY <1>5 DEF ReadSignal
<1>6. ASSUME NEW t \in Session, TruncateSignal(t) PROVE OldSignalsIgnored'
  BY <1>6 DEF TruncateSignal
<1>7. ASSUME NEW t \in Session, WriteSignal(t) PROVE OldSignalsIgnored'
  BY <1>7 DEF WriteSignal
<1> QED
  BY <1>1, <1>2, <1>3, <1>4, <1>5, <1>6, <1>7 DEF SignalNext

LEMMA SignalSendNext ==
  ASSUME SignalTypeOK, SignalInv, [SignalNext]_signalVars
  PROVE  SignalInv'
<1> USE DEF Turns, Gone, Sending, OwedRunning
<1> SUFFICES ASSUME ~raced' PROVE SendInv' /\ SeenInv' /\ OwedRunning'
  BY DEF SignalInv
<1>0. ~raced /\ SendInv /\ SeenInv /\ OwedRunning
  <2>1. raced => raced'
    BY DEF SignalNext, signalVars, StartListening, Poll, Quit, ReadSignal, TruncateSignal,
           WriteSignal, KillSending
  <2> QED
    BY <2>1 DEF SignalInv
<1>1. CASE UNCHANGED signalVars
  BY <1>0, <1>1 DEF signalVars, SendInv, SeenInv
<1>2. ASSUME NEW t \in Session, StartListening(t)
      PROVE  SendInv' /\ SeenInv' /\ OwedRunning'
  <2>1. Sending' = Sending
    <3>1. \A u \in Session : doing'[u] \in {"reading", "truncated"}
                             <=> doing[u] \in {"reading", "truncated"}
      BY <1>2 DEF StartListening, SignalTypeOK
    <3> QED
      BY <3>1
  <2>2. SendInv'
    BY <1>0, <1>2, <2>1 DEF StartListening, SendInv, SignalTypeOK
  <2>3. SeenInv'
    BY <1>0, <1>2, <2>1 DEF StartListening, SeenInv, SignalTypeOK
  <2>4. OwedRunning'
    BY <1>0, <1>2 DEF StartListening, SignalTypeOK
  <2> QED
    BY <2>2, <2>3, <2>4
<1>3. ASSUME NEW t \in Session, Poll(t) \/ Quit(t)
      PROVE  SendInv' /\ SeenInv' /\ OwedRunning'
  BY <1>0, <1>3 DEF Poll, Quit, SendInv, SeenInv, SignalTypeOK
<1>4. ASSUME NEW t \in Session, ReadSignal(t)
      PROVE  SendInv' /\ SeenInv' /\ OwedRunning'
  <2>1. Sending = {}
    BY <1>4 DEF ReadSignal
  <2>2. Sending' = {t} /\ number'[t] = signal + 1
    BY <1>4, <2>1 DEF ReadSignal, SignalTypeOK
  <2>3. SendInv'
    BY <1>0, <1>4, <2>1, <2>2 DEF ReadSignal, SeenInv, SendInv, SignalTypeOK
  <2>4. OwedRunning'
    BY <1>0, <1>4 DEF ReadSignal, SignalTypeOK
  <2> QED
    BY <2>2, <2>3, <2>4 DEF SeenInv
<1>5. ASSUME NEW t \in Session, TruncateSignal(t)
      PROVE  SendInv' /\ SeenInv' /\ OwedRunning'
  BY <1>0, <1>5 DEF TruncateSignal, SendInv, SeenInv, SignalTypeOK
<1>6. ASSUME NEW t \in Session, WriteSignal(t)
      PROVE  SendInv' /\ SeenInv' /\ OwedRunning'
  BY <1>0, <1>6 DEF WriteSignal, SendInv, SeenInv, SignalTypeOK
<1>7. ASSUME NEW t \in Session, KillSending(t) PROVE FALSE
  BY <1>7 DEF KillSending
<1> QED
  BY <1>1, <1>2, <1>3, <1>4, <1>5, <1>6, <1>7 DEF SignalNext

-----------------------------------------------------------------------------
\* No session ends by a signal written before it started, for any crashes and
\* kills (startSession, hasPendingCrashSignal).
THEOREM OldSignalsIgnoredHolds == SignalSpec => []OldSignalsIgnored
<1>1. SignalTypeOK /\ OldSignalsIgnored /\ [SignalNext]_signalVars => (SignalTypeOK /\ OldSignalsIgnored)'
  BY SignalTypeNext, SignalOldNext
<1> QED
  BY <1>1, SignalInitInv, PTL DEF SignalSpec

\* A crash reaches every terminal that is running, until two terminals send at
\* the same time or one is killed at it (broadcastCrash, hasPendingCrashSignal).
THEOREM CrashReachesAllHolds == SignalSpec => []CrashReachesAll
<1>1. SignalTypeOK /\ SignalInv /\ [SignalNext]_signalVars => (SignalTypeOK /\ SignalInv)'
  BY SignalTypeNext, SignalSendNext
<1>2. SignalTypeOK /\ SignalInv => CrashReachesAll
  BY DEF SignalTypeOK, SignalInv, SeenInv, CrashReachesAll, Pending
<1> QED
  BY <1>1, <1>2, SignalInitInv, PTL DEF SignalSpec

-----------------------------------------------------------------------------
(* The three together.                                                     *)

\* A behaviour of the three protocols side by side is one of each: whatever is
\* proved of one of them above holds beside the other two.
LEMMA EachByItself == Spec => FileSpec /\ EpochSpec /\ SignalSpec
<1>1. Init => FileInit /\ EpochInit /\ SignalInit
  BY DEF Init
<1>2. [Next]_vars => [FileNext]_fileVars /\ [EpochNext]_epochVars /\ [SignalNext]_signalVars
  BY DEF Next, vars
<1> QED
  BY <1>1, <1>2, PTL DEF Spec, FileSpec, EpochSpec, SignalSpec

\* Every protocol keeps its types, for any number of parts, terminals and changes.
THEOREM TypeHolds == Spec => []TypeOK
<1>1. EpochSpec => []EpochTypeOK
  <2>1. EpochIInv => EpochTypeOK
    BY DEF EpochIInv
  <2> QED
    BY <2>1, EpochIInvHolds, PTL
<1>2. SignalSpec => []SignalTypeOK
  <2>1. SignalTypeOK /\ [SignalNext]_signalVars => SignalTypeOK'
    BY SignalTypeNext
  <2>2. SignalInit => SignalTypeOK
    BY SignalInitInv
  <2> QED
    BY <2>1, <2>2, PTL DEF SignalSpec
<1>3. FileTypeOK /\ EpochTypeOK /\ SignalTypeOK => TypeOK
  BY DEF TypeOK
<1> QED
  BY EachByItself, FileTypeHolds, <1>1, <1>2, <1>3, PTL
=============================================================================
