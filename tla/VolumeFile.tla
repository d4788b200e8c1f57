----------------------------- MODULE VolumeFile -----------------------------
(***************************************************************************)
(* The volume and the journal as files (block_device.cpp) and what the     *)
(* kernel makes of a file whose writing was cut short.  BlockDevice writes *)
(* the volume in place: the file is truncated, then filled line by line,   *)
(* so a process killed inside the write leaves a prefix of the new image.  *)
(* deserializeState takes whatever lines it finds.  One process; Volume    *)
(* has the concurrency and the kills between two writes, with whole files. *)
(***************************************************************************)
EXTENDS Naturals

CONSTANTS
  Parts,    \* the lines after the superblock's are numbered 1 .. Parts
  MaxOps,   \* bound: versions written
  KillIn,   \* the writes a process may be killed inside
  Tails     \* what the line that was cut may look like to the reader

Saves == {"boot", "begin", "checkpoint", "direct", "unmount"}

\* A cut line has too few fields and is skipped; has them all and ends in a
\* shortened last one; or ends in an empty number, which std::stoul refuses.
CutLines == {"skipped", "shortened", "refused"}

ASSUME FileAssumption ==
  /\ Parts \in Nat \ {0} /\ MaxOps \in Nat
  /\ KillIn \subseteq Saves /\ Tails \subseteq CutLines

VARIABLES
  volume,   \* the volume file
  journal,  \* the journal file: which lines of the transaction it has
  after,    \* the image of its RECORD|after line
  mem,      \* state_
  step,     \* where the process is
  ops,      \* versions handed out so far
  durable,  \* ghost: the data of the last commit, or of a direct save after it
  torn      \* ghost: a write was cut that no journal covers

fileVars == <<volume, journal, after, mem, step, ops, durable, torn>>

Lost == MaxOps + 1      \* no line for this part: it is gone
Garbled == MaxOps + 2   \* a value nobody wrote
Data == [1 .. Parts -> 0 .. MaxOps + 2]
Image == [mount : {"clean", "dirty"}, data : Data]
File == [image : Image, lines : 0 .. Parts + 1, cut : CutLines]

\* serializeState, and the whole of it on disk.
Whole(image) == [image |-> image, lines |-> Parts + 1, cut |-> "skipped"]

\* What a write that did not finish leaves: some lines, and a piece of the next.
Cuts(image) == [image : {image}, lines : 0 .. Parts, cut : Tails]

\* deserializeState: a part keeps its value when its line is there.  FsState{}
\* is clean, which is what remains without the superblock's line.
PartOf(file, p) ==
  IF p + 1 <= file.lines THEN file.image.data[p]
  ELSE IF p = file.lines /\ file.cut = "shortened" THEN Garbled ELSE Lost

Deserialize(file) ==
  [mount |-> IF file.lines > 0 \/ file.cut = "shortened" THEN file.image.mount
                                                        ELSE "clean",
   data  |-> [p \in 1 .. Parts |-> PartOf(file, p)]]

\* std::stoul throws on an empty number, and deserializeState with it.
Refused(file) == file.lines <= Parts /\ file.cut = "refused"

\* Mutant: the journal is looked at only when the volume says it is dirty.
RecoveredIfDirty(image) ==
  IF image.mount = "dirty" /\ "commit" \in journal THEN after ELSE image

\* recoveryFromJournal on what readJournal returned: a committed image that was
\* not checkpointed replaces what the volume held.
Recovered(image) ==
  IF "commit" \in journal /\ "checkpoint" \notin journal THEN after ELSE image

\* Mutant: the state in which recovery leaves the volume is never set back.
Recovering(image) == [image EXCEPT !.mount = "recovering"]

\* setMountState(Dirty).
Dirty(image) == [image EXCEPT !.mount = "dirty"]

\* What boot has in memory once it has recovered, and what it saves.
Booted == Dirty(Recovered(Deserialize(volume)))

Nothing == [mount |-> "clean", data |-> [p \in 1 .. Parts |-> Lost]]

FileInit ==
  /\ volume = Whole([mount |-> "clean", data |-> [p \in 1 .. Parts |-> 0]])
  /\ journal = {}
  /\ after = Nothing
  /\ mem = Nothing
  /\ step = "off"
  /\ ops = 0
  /\ durable = [p \in 1 .. Parts |-> 0]
  /\ torn = FALSE

-----------------------------------------------------------------------------
(* boot(): the volume is read before the journal.  It ends with the volume *)
(* saved twice, by the recovery after it cleared the journal and by the    *)
(* mount.  Volume has these steps one by one.                              *)

Boot ==
  /\ step = "off" /\ ~Refused(volume)
  /\ mem' = Booted
  /\ volume' = Whole(Booted)
  /\ journal' = {}
  /\ step' = "idle"
  /\ UNCHANGED <<after, ops, durable, torn>>

\* The exception leaves main(): the process ends, the files are untouched, and
\* the next process fares the same.
BootRefused ==
  /\ step \in {"off", "failed"} /\ Refused(volume)
  /\ step' = "failed"
  /\ UNCHANGED <<volume, journal, after, mem, ops, durable, torn>>

Goes(from, to) == step = from /\ step' = to

\* saveState: writeAll(serializeState()).
Save(from, to) ==
  /\ Goes(from, to)
  /\ volume' = Whole(mem)
  /\ UNCHANGED <<journal, after, mem, ops>>

\* appendJournal.  A RECORD line cut short has no effect on what is recovered,
\* as no COMMIT follows it; the other lines are one write each.
Append(from, to, lines) ==
  /\ Goes(from, to)
  /\ journal' = journal \cup lines
  /\ UNCHANGED <<volume, mem, ops>>

\* The model changes: some part gets a value it never had.
Change(p) ==
  /\ ops < MaxOps
  /\ ops' = ops + 1
  /\ mem' = [mem EXCEPT !.data[p] = ops + 1]

BeginTx    == Goes("idle", "begin") /\ UNCHANGED <<volume, journal, after, mem, ops, durable, torn>>
SaveBegin  == Save("begin", "open") /\ UNCHANGED <<durable, torn>>
RecordBefore == Append("open", "mutate", {"begin", "before"}) /\ UNCHANGED <<after, durable, torn>>
Mutate(p)  == Goes("mutate", "after") /\ Change(p) /\ UNCHANGED <<volume, journal, after, durable, torn>>
RecordAfter == Append("after", "commit", {"after"}) /\ after' = mem /\ UNCHANGED <<durable, torn>>

\* Mutant: the COMMIT line is left for later.
CommitUnwritten ==
  Goes("commit", "checkpoint") /\ durable' = mem.data
  /\ UNCHANGED <<volume, journal, after, mem, ops, torn>>
Commit ==
  Append("commit", "checkpoint", {"commit"}) /\ durable' = mem.data /\ UNCHANGED <<after, torn>>

SaveCheckpoint == Save("checkpoint", "saved") /\ UNCHANGED <<durable, torn>>
Checkpoint == Append("saved", "clear", {"checkpoint"}) /\ UNCHANGED <<after, durable, torn>>

ClearJournal ==
  /\ Goes("clear", "idle")
  /\ journal' = {}
  /\ UNCHANGED <<volume, after, mem, ops, durable, torn>>

\* close, logout, fsck --repair: saved without a transaction.
Direct(p) == Goes("idle", "direct") /\ Change(p) /\ UNCHANGED <<volume, journal, after, durable, torn>>
SaveDirect == Save("direct", "idle") /\ durable' = mem.data /\ UNCHANGED torn

\* unmountClean.
Unmount ==
  /\ Goes("idle", "unmount")
  /\ mem' = [mem EXCEPT !.mount = "clean"]
  /\ UNCHANGED <<volume, journal, after, ops, durable, torn>>
SaveClean == Save("unmount", "closing") /\ UNCHANGED <<durable, torn>>

ClearClean ==
  /\ Goes("closing", "off")
  /\ journal' = {}
  /\ UNCHANGED <<volume, after, mem, ops, durable, torn>>

\* The process is killed between two of these steps, or inside a write.
Kill ==
  /\ step \notin {"off", "failed"}
  /\ step' = "off"
  /\ UNCHANGED <<volume, journal, after, mem, ops, durable, torn>>

KillInside(save) ==
  /\ step = save
  /\ volume' \in Cuts(mem)
  /\ step' = "off"
  /\ torn' = (torn \/ save # "checkpoint")
  /\ UNCHANGED <<journal, after, mem, ops, durable>>

\* Boot's saves come after the journal was cleared.
KillInBoot ==
  /\ step = "off" /\ ~Refused(volume)
  /\ volume' \in Cuts(Booted)
  /\ journal' = {}
  /\ torn' = TRUE
  /\ UNCHANGED <<after, mem, step, ops, durable>>

FileNext ==
  \/ Boot \/ BootRefused
  \/ BeginTx \/ SaveBegin \/ RecordBefore \/ RecordAfter \/ Commit
  \/ SaveCheckpoint \/ Checkpoint \/ ClearJournal
  \/ \E p \in 1 .. Parts : Mutate(p) \/ Direct(p)
  \/ SaveDirect \/ Unmount \/ SaveClean \/ ClearClean
  \/ Kill
  \/ \E save \in KillIn : IF save = "boot" THEN KillInBoot ELSE KillInside(save)

FileSpec == FileInit /\ [][FileNext]_fileVars

-----------------------------------------------------------------------------
(* Properties.                                                             *)

FilePoints == {"off", "failed", "idle", "begin", "open", "mutate", "after", "commit",
               "checkpoint", "saved", "clear", "direct", "unmount", "closing"}

\* The files and the model in memory have their types.
FileTypeOK ==
  /\ volume \in File
  /\ journal \subseteq {"begin", "before", "after", "commit", "checkpoint"}
  /\ after \in Image
  /\ mem \in Image
  /\ step \in FilePoints
  /\ ops \in 0 .. MaxOps
  /\ durable \in Data
  /\ torn \in BOOLEAN

\* What was committed, or saved directly since, is what a process works on
\* whenever it is about to take a command, as long as only writes were cut that
\* the journal covers: no such kill undid it, brought an older value of a part
\* back or left a value nobody wrote.
CommittedSurvives == step = "idle" /\ ~torn => mem.data = durable

\* Until then a volume file that is not whole is never all there is: the
\* journal holds the committed image it was being replaced by.
WholeOrRedoable ==
  volume.lines <= Parts /\ ~torn =>
    {"after", "commit"} \subseteq journal /\ "checkpoint" \notin journal
    /\ after.data = durable
=============================================================================
