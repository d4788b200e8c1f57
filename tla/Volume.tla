------------------------------- MODULE Volume -------------------------------
(***************************************************************************)
(* The transaction path of the kernel (src/src/kernel.cpp with             *)
(* src/src/block_device.cpp): boot and recovery, the journaled mutation    *)
(* (beginTx ... commitTx), the un-journaled saves of close, logout and     *)
(* fsck --repair, reads under the shared lock with the epoch check,        *)
(* unmount, injected crashes with their broadcast, and kills.              *)
(*                                                                         *)
(* Several terminals (processes) share one volume file, one journal file   *)
(* and one epoch file.  Each keeps the whole model in memory (mem) and     *)
(* writes it back whole, so an image is abstracted to the set of           *)
(* operations it contains, its next transaction id and its mount state.    *)
(* Locks are those of RWLock, which Coordinator.tla implements; a dead     *)
(* holder's lock is stale and counts as free.                              *)
(***************************************************************************)
EXTENDS Naturals

CONSTANTS
    Terminal,   \* processes; one that died or left may be started again
    Op,         \* mutations: one token each, so at most |Op| take effect
    Formats,    \* the mutations that are a format
    NoOp,       \* no mutation so far
    NoVolume,   \* the volume file does not exist; also: nothing mounted
    Kinds,      \* the kinds of mutating command users issue
    InjectAt,   \* armed crash points: CrashException, broadcast to the others
    KillAt,     \* where one process may be killed, silently
    KillAllAt   \* where running processes may be when all are killed at once

VARIABLES
    vol,        \* the volume file
    journal,    \* the journal file, as recoveryFromJournal reads it
    writers,    \* holders of the transaction lock
    readers,    \* holders of read locks
    pc,         \* where each terminal is
    kind,       \* the kind of mutation a terminal has under way
    mounted,    \* mounted_
    mem,        \* state_: the image in memory
    fresh,      \* terminals whose observedEpoch_ is the current epoch
    doomed,     \* terminals that have not yet seen the last crash signal
    op,         \* ghost: the last mutation each terminal tried
    used,       \* ghost: the mutations tried so far
    committed   \* ghost: the mutations whose commit is on disk

disk == <<vol, journal>>
locks == <<writers, readers>>
ghosts == <<op, used, committed>>
vars == <<vol, journal, writers, readers, pc, kind, mounted, mem, fresh, doomed,
          op, used, committed>>

Lock == INSTANCE RWLock WITH Session <- Terminal

BootPoints == {"boot", "loaded", "recWait", "redone", "recCleared", "recSaved",
               "openWait", "opening", "openSaved"}
TxPoints == {"txOpen", "begun", "jbegin", "jbefore", "mutated", "jafter", "jcommit",
             "saved", "ckpt", "cleared", "dsaved", "bumped"}
ClosePoints == {"closeWait", "closing", "closeSaved", "closeCleared"}
Points == {"off", "idle", "txWait", "readWait", "reading"}
              \union BootPoints \union TxPoints \union ClosePoints

\* Where crashPoint is called (before/after journal.begin, .record, .commit,
\* .checkpoint, and before a command), and the command "crash now".
CrashPoints == {"idle", "reading", "begun", "jbegin", "jbefore", "mutated", "jafter",
                "jcommit", "bumped"}

MountState == {"clean", "dirty"}
TxId == Nat
Image == [ops : SUBSET Op, next : TxId, mount : MountState]

ASSUME VolumeAssumption ==
    /\ NoOp \notin Op
    /\ Formats \subseteq Op
    /\ NoVolume \notin Image
    /\ Kinds \subseteq {"tx", "direct", "format"}
    /\ InjectAt \subseteq CrashPoints
    /\ KillAt \subseteq Points \ {"off"}
    /\ KillAllAt \subseteq Points \ {"off"}

-----------------------------------------------------------------------------
\* initFreshState: an empty tree, transaction ids counted from 1 again.
FreshImage(o) == [ops |-> {o}, next |-> 1, mount |-> "dirty"]

\* A volume that was formatted and cleanly unmounted before the story begins.
FormattedImage == [ops |-> {}, next |-> 2, mount |-> "clean"]

EmptyJournal == [begun |-> {}, after |-> <<>>, commit |-> {}, checkpoint |-> {}]

\* The image of the greatest of these ids, or v when there is none.
LastImage(v, after, ids) ==
    LET last == {t \in ids : \A u \in ids : u <= t}
    IN IF last = {} THEN v ELSE after[CHOOSE t \in last : TRUE]

\* Mutant: a recovery that redoes every after image it finds.
RecoveredUncommitted(v, j) == LastImage(v, j.after, DOMAIN j.after \ j.checkpoint)

\* recoveryFromJournal: the after images of committed, unfinished transactions
\* replace the model one after the other in the order of their ids.
Recovered(v, j) ==
    LastImage(v, j.after, (j.commit \ j.checkpoint) \intersect DOMAIN j.after)

Running(s) == pc[s] # "off"
Alone(s) == \A t \in Terminal \ {s} : ~Running(t)

Goto(s, p) == pc' = [pc EXCEPT ![s] = p]
Remember(s, image) == mem' = [mem EXCEPT ![s] = image]

\* saveState: the image in memory becomes the volume file.
Save(s, from, to) ==
    /\ pc[s] = from
    /\ vol' = mem[s]
    /\ Goto(s, to)
    /\ UNCHANGED <<journal, locks, kind, mounted, mem, fresh, doomed, ghosts>>

\* journalLine, clearJournal: the journal file becomes j.
WriteJournal(s, from, to, j) ==
    /\ pc[s] = from
    /\ journal' = j
    /\ Goto(s, to)
    /\ UNCHANGED <<vol, locks, kind, mounted, mem, fresh, doomed, op, used>>

\* bumpEpoch: everybody else's observed epoch is now an old one.
Bump(s) == fresh' = {s}

Init ==
    /\ vol \in {NoVolume, FormattedImage}
    /\ journal = EmptyJournal
    /\ Lock!Init
    /\ pc = [s \in Terminal |-> "off"]
    /\ kind = [s \in Terminal |-> "tx"]
    /\ mounted = [s \in Terminal |-> FALSE]
    /\ mem = [s \in Terminal |-> NoVolume]
    /\ fresh = {}
    /\ doomed = {}
    /\ op = [s \in Terminal |-> NoOp]
    /\ used = {}
    /\ committed = {}

-----------------------------------------------------------------------------
(* boot *)

StartSession(s) ==
    /\ pc[s] = "off"
    /\ Goto(s, "boot")
    /\ fresh' = fresh \union {s}
    /\ doomed' = doomed \ {s}
    /\ UNCHANGED <<disk, locks, kind, mounted, mem, ghosts>>

NothingToRecover(image) == image.mount = "clean" /\ journal = EmptyJournal

\* The volume is read, and after it the journal, both without a lock.
BootRead(s) ==
    /\ pc[s] = "boot"
    /\ mounted' = [mounted EXCEPT ![s] = vol # NoVolume]
    /\ Remember(s, vol)
    /\ Goto(s, IF vol = NoVolume THEN "idle" ELSE "loaded")
    /\ UNCHANGED <<disk, locks, kind, fresh, doomed, ghosts>>

LookAtJournal(s) ==
    /\ pc[s] = "loaded"
    /\ Goto(s, IF NothingToRecover(mem[s]) THEN "openWait" ELSE "recWait")
    /\ UNCHANGED <<disk, locks, kind, mounted, mem, fresh, doomed, ghosts>>

\* recoverIfNeeded looks again under the transaction lock ...
RecoverNothing(s) ==
    /\ pc[s] = "recWait"
    /\ writers = {} /\ readers = {}
    /\ NothingToRecover(vol)
    /\ Remember(s, vol)
    /\ Goto(s, "openWait")
    /\ UNCHANGED <<disk, locks, kind, mounted, fresh, doomed, ghosts>>

\* Mutant: a recovery that never leaves its own mount state.
RedoStillRecovering(s) ==
    /\ pc[s] = "recWait"
    /\ ~NothingToRecover(vol)
    /\ Lock!AcquireWrite(s)
    /\ Remember(s, [Recovered(vol, journal) EXCEPT !.mount = "recovering"])
    /\ Goto(s, "redone")
    /\ UNCHANGED <<disk, kind, mounted, fresh, doomed, ghosts>>

\* ... and redoes in memory.  ("recovering" is never saved.)
Redo(s) ==
    /\ pc[s] = "recWait"
    /\ ~NothingToRecover(vol)
    /\ Lock!AcquireWrite(s)
    /\ Remember(s, [Recovered(vol, journal) EXCEPT !.mount = "dirty"])
    /\ Goto(s, "redone")
    /\ UNCHANGED <<disk, kind, mounted, fresh, doomed, ghosts>>

\* The journal is cleared before the redone image is saved.
RecoveryClear(s) ==
    /\ WriteJournal(s, "redone", "recCleared", EmptyJournal)
    /\ UNCHANGED committed

RecoverySave(s) == Save(s, "recCleared", "recSaved")

RecoveryEnd(s) ==
    /\ pc[s] = "recSaved"
    /\ Bump(s)
    /\ Lock!LeaveWrite(s)
    /\ Goto(s, "openWait")
    /\ UNCHANGED <<disk, kind, mounted, mem, doomed, ghosts>>

\* Mutant: a mount that trusts what it read before it had the lock.
OpenStale(s) ==
    /\ pc[s] = "openWait"
    /\ Lock!AcquireWrite(s)
    /\ Remember(s, [mem[s] EXCEPT !.mount = "dirty"])
    /\ Goto(s, "opening")
    /\ UNCHANGED <<disk, kind, mounted, fresh, doomed, ghosts>>

\* The second half of boot, "mount.open", does not look at the journal again.
OpenVolume(s) ==
    /\ pc[s] = "openWait"
    /\ Lock!AcquireWrite(s)
    /\ Remember(s, [vol EXCEPT !.mount = "dirty"])
    /\ Goto(s, "opening")
    /\ UNCHANGED <<disk, kind, mounted, fresh, doomed, ghosts>>

OpenSave(s) == Save(s, "opening", "openSaved")

OpenEnd(s) ==
    /\ pc[s] = "openSaved"
    /\ Bump(s)
    /\ Lock!LeaveWrite(s)
    /\ Goto(s, "idle")
    /\ UNCHANGED <<disk, kind, mounted, mem, doomed, ghosts>>

-----------------------------------------------------------------------------
(* execute: a mutating command *)

\* heartbeat, then the crash signal is looked for, then the lock is asked for.
DispatchMutation(s, k) ==
    /\ pc[s] = "idle"
    /\ s \notin doomed
    /\ mounted[s] \/ k = "format"
    /\ kind' = [kind EXCEPT ![s] = k]
    /\ Goto(s, "txWait")
    /\ UNCHANGED <<disk, locks, mounted, mem, fresh, doomed, ghosts>>

\* Mutant: working on the model in memory as it is, without reading the volume again.
LockAndKeep(s) ==
    /\ pc[s] = "txWait"
    /\ Lock!AcquireWrite(s)
    /\ Goto(s, "txOpen")
    /\ UNCHANGED <<disk, kind, mounted, mem, fresh, doomed, ghosts>>

\* acquireTxLock and, when mounted, reloadVolumeFromDisk.
LockAndReload(s) ==
    /\ pc[s] = "txWait"
    /\ Lock!AcquireWrite(s)
    /\ Remember(s, IF mounted[s] THEN vol ELSE mem[s])
    /\ Goto(s, "txOpen")
    /\ UNCHANGED <<disk, kind, mounted, fresh, doomed, ghosts>>

\* An error found before anything is changed.  format finds none, but when all of
\* them have been used up (the bound on Formats) it ends here as well.
Refuse(s) ==
    /\ pc[s] = "txOpen"
    /\ kind[s] = "format" => Formats \subseteq used
    /\ Lock!LeaveWrite(s)
    /\ Goto(s, "idle")
    /\ UNCHANGED <<disk, kind, mounted, mem, fresh, doomed, ghosts>>

\* Mutant: a beginTx that forgets to mark the volume dirty.
BegunKeepMount(image) == [image EXCEPT !.next = @ + 1]

\* Mutant: a beginTx that forgets to count the transaction id.
BegunSameId(image) == [image EXCEPT !.mount = "dirty"]

\* The image beginTx saves: the transaction id is taken, the volume is dirty.
Begun(image) == [ops |-> image.ops, next |-> image.next + 1, mount |-> "dirty"]

\* The transaction a terminal is in.
Txid(s) == mem[s].next - 1

\* Mutation o starts from this image, which is saved before the journal knows
\* of the transaction.
StartFrom(s, o, image) ==
    /\ pc[s] = "txOpen"
    /\ o \notin used
    /\ Remember(s, Begun(image))
    /\ vol' = Begun(image)
    /\ Goto(s, "begun")
    /\ used' = used \union {o}
    /\ op' = [op EXCEPT ![s] = o]
    /\ UNCHANGED <<journal, locks, kind, fresh, doomed, committed>>

\* beginTx, up to its first crash point.
BeginTx(s, o) ==
    /\ kind[s] = "tx"
    /\ o \notin Formats
    /\ StartFrom(s, o, mem[s])
    /\ UNCHANGED mounted

\* Mutant: a format that starts from the model that is in memory.
BeginFormatOverOld(s, o) ==
    /\ kind[s] = "format"
    /\ o \in Formats
    /\ StartFrom(s, o, IF mounted[s] THEN mem[s] ELSE FreshImage(o))
    /\ mounted' = [mounted EXCEPT ![s] = TRUE]

\* cmdFormat calls it with a fresh model in memory.
BeginFormat(s, o) ==
    /\ kind[s] = "format"
    /\ o \in Formats
    /\ StartFrom(s, o, FreshImage(o))
    /\ mounted' = [mounted EXCEPT ![s] = TRUE]

JournalBegin(s) ==
    /\ WriteJournal(s, "begun", "jbegin", [journal EXCEPT !.begun = @ \union {Txid(s)}])
    /\ UNCHANGED committed

\* No recovery reads the before image, so this line adds nothing to the record.
JournalBefore(s) ==
    /\ WriteJournal(s, "jbegin", "jbefore", journal)
    /\ UNCHANGED committed

\* The command body changes the model in memory ...
Mutate(s) ==
    /\ pc[s] = "jbefore"
    /\ Remember(s, [mem[s] EXCEPT !.ops = @ \union {op[s]}])
    /\ Goto(s, "mutated")
    /\ UNCHANGED <<disk, locks, kind, mounted, fresh, doomed, ghosts>>

\* ... or fails in it, leaving the memory as it is by then and the journal with
\* a transaction that never commits.
FailMidway(s) ==
    /\ pc[s] = "jbefore"
    /\ kind[s] = "tx"
    /\ \E partial \in SUBSET {op[s]} :
          Remember(s, [mem[s] EXCEPT !.ops = @ \union partial])
    /\ Lock!LeaveWrite(s)
    /\ Goto(s, "idle")
    /\ UNCHANGED <<disk, kind, mounted, fresh, doomed, ghosts>>

\* The after images with one more line: the last image of an id counts.
WithAfter(after, id, image) ==
    [t \in DOMAIN after \union {id} |-> IF t = id THEN image ELSE after[t]]

JournalAfter(s) ==
    /\ WriteJournal(s, "mutated", "jafter",
                    [journal EXCEPT !.after = WithAfter(@, Txid(s), mem[s])])
    /\ UNCHANGED committed

JournalCommit(s) ==
    /\ WriteJournal(s, "jafter", "jcommit",
                    [journal EXCEPT !.commit = @ \union {Txid(s)}])
    /\ committed' = IF kind[s] = "format" THEN {op[s]} ELSE committed \union {op[s]}

Checkpoint(s) == Save(s, "jcommit", "saved")

JournalCheckpoint(s) ==
    /\ WriteJournal(s, "saved", "ckpt",
                    [journal EXCEPT !.checkpoint = @ \union {Txid(s)}])
    /\ UNCHANGED committed

\* Mutant: a journal cleared as soon as the transaction is committed.
ClearJournalEarly(s) ==
    /\ WriteJournal(s, "jcommit", "cleared", EmptyJournal)
    /\ UNCHANGED committed

ClearJournal(s) ==
    /\ WriteJournal(s, "ckpt", "cleared", EmptyJournal)
    /\ UNCHANGED committed

\* close, logout, fsck --repair: no journal, the volume is written once.
SaveDirectly(s, o) ==
    /\ pc[s] = "txOpen"
    /\ kind[s] = "direct"
    /\ o \notin used \union Formats
    /\ LET image == [mem[s] EXCEPT !.ops = @ \union {o}]
       IN Remember(s, image) /\ vol' = image
    /\ Goto(s, "dsaved")
    /\ used' = used \union {o}
    /\ op' = [op EXCEPT ![s] = o]
    /\ committed' = committed \union {o}
    /\ UNCHANGED <<journal, locks, kind, mounted, fresh, doomed>>

\* Mutant: a change the other terminals are not told of.
BumpNothing(s) ==
    /\ pc[s] \in {"cleared", "dsaved"}
    /\ Goto(s, "bumped")
    /\ UNCHANGED <<disk, locks, kind, mounted, mem, fresh, doomed, ghosts>>

BumpEpoch(s) ==
    /\ pc[s] \in {"cleared", "dsaved"}
    /\ Bump(s)
    /\ Goto(s, "bumped")
    /\ UNCHANGED <<disk, locks, kind, mounted, mem, doomed, ghosts>>

EndMutation(s) ==
    /\ pc[s] = "bumped"
    /\ Lock!LeaveWrite(s)
    /\ Goto(s, "idle")
    /\ UNCHANGED <<disk, kind, mounted, mem, fresh, doomed, ghosts>>

-----------------------------------------------------------------------------
(* execute: the other commands *)

DispatchRead(s) ==
    /\ pc[s] = "idle"
    /\ s \notin doomed
    /\ mounted[s]
    /\ Goto(s, "readWait")
    /\ UNCHANGED <<disk, locks, kind, mounted, mem, fresh, doomed, ghosts>>

ReloadIfEpochChanged(s) ==
    /\ Remember(s, IF s \in fresh THEN mem[s] ELSE vol)
    /\ fresh' = fresh \union {s}

LockAndRead(s) ==
    /\ pc[s] = "readWait"
    /\ Lock!AcquireRead(s)
    /\ ReloadIfEpochChanged(s)
    /\ Goto(s, "reading")
    /\ UNCHANGED <<disk, kind, mounted, doomed, ghosts>>

EndRead(s) ==
    /\ pc[s] = "reading"
    /\ Lock!LeaveRead(s)
    /\ Goto(s, "idle")
    /\ UNCHANGED <<disk, kind, mounted, mem, fresh, doomed, ghosts>>

\* sleep, help, theme, lang: reloaded without any lock.
ReadUnlocked(s) ==
    /\ pc[s] = "idle"
    /\ s \notin doomed
    /\ mounted[s]
    /\ s \notin fresh
    /\ ReloadIfEpochChanged(s)
    /\ UNCHANGED <<disk, locks, pc, kind, mounted, doomed, ghosts>>

-----------------------------------------------------------------------------
(* Death.  What is on disk stays; the locks of the dead count as free. *)

Die(dead) ==
    /\ pc' = [s \in Terminal |-> IF s \in dead THEN "off" ELSE pc[s]]
    /\ mounted' = [s \in Terminal |-> mounted[s] /\ s \notin dead]
    /\ mem' = [s \in Terminal |-> IF s \in dead THEN NoVolume ELSE mem[s]]
    /\ op' = [s \in Terminal |-> IF s \in dead THEN NoOp ELSE op[s]]
    /\ writers' = writers \ dead
    /\ readers' = readers \ dead
    /\ fresh' = fresh \ dead
    /\ UNCHANGED <<disk, kind, used, committed>>

\* maybeCrashNow: the signal is broadcast, then the stack unwinds to main.
\* The crash points of commitTx are not on the path of a direct save.
InjectCrash(s) ==
    /\ pc[s] \in InjectAt
    /\ mounted[s]
    /\ pc[s] = "idle" => s \notin doomed
    /\ pc[s] = "bumped" => kind[s] # "direct"
    /\ doomed' = {t \in Terminal \ {s} : Running(t)}
    /\ Die({s})

\* checkExternalCrashSignal, at the next command of another terminal.
CrashOnSignal(s) ==
    /\ pc[s] = "idle"
    /\ s \in doomed
    /\ doomed' = doomed \ {s}
    /\ Die({s})

Kill(s) ==
    /\ pc[s] \in KillAt
    /\ doomed' = doomed \ {s}
    /\ Die({s})

\* Every process is killed at once.
KillAll ==
    /\ \E s \in Terminal : Running(s)
    /\ \A s \in Terminal : Running(s) => pc[s] \in KillAllAt
    /\ doomed' = {}
    /\ Die(Terminal)

-----------------------------------------------------------------------------
(* unmountClean, after exit or end of input *)

\* Others are running (or nothing is mounted): the process just leaves.
Leave(s) ==
    /\ pc[s] = "idle"
    /\ ~mounted[s] \/ ~Alone(s) \/ writers # {} \/ readers # {}
    /\ doomed' = doomed \ {s}
    /\ Die({s})

\* Nobody else is running, or so it looks without a lock.
StartClose(s) ==
    /\ pc[s] = "idle"
    /\ mounted[s] /\ Alone(s) /\ writers = {} /\ readers = {}
    /\ Goto(s, "closeWait")
    /\ UNCHANGED <<disk, locks, kind, mounted, mem, fresh, doomed, ghosts>>

CloseVolume(s) ==
    /\ pc[s] = "closeWait"
    /\ Lock!AcquireWrite(s)
    /\ Remember(s, [vol EXCEPT !.mount = "clean"])
    /\ Goto(s, "closing")
    /\ UNCHANGED <<disk, kind, mounted, fresh, doomed, ghosts>>

CloseSave(s) == Save(s, "closing", "closeSaved")

CloseClear(s) ==
    /\ WriteJournal(s, "closeSaved", "closeCleared", EmptyJournal)
    /\ UNCHANGED committed

\* bumpEpoch, the lock is released, shutdownClean, the process ends.
CloseEnd(s) ==
    /\ pc[s] = "closeCleared"
    /\ Goto(s, "off")
    /\ Lock!LeaveWrite(s)
    /\ mounted' = [mounted EXCEPT ![s] = FALSE]
    /\ Remember(s, NoVolume)
    /\ op' = [op EXCEPT ![s] = NoOp]
    /\ fresh' = {}
    /\ doomed' = doomed \ {s}
    /\ UNCHANGED <<disk, kind, used, committed>>

\* E_LOCK_BUSY: a command fails; boot and unmount end the process.
GiveUpCommand(s) ==
    /\ pc[s] \in {"txWait", "readWait"}
    /\ writers # {} \/ readers # {}
    /\ Goto(s, "idle")
    /\ UNCHANGED <<disk, locks, kind, mounted, mem, fresh, doomed, ghosts>>

GiveUpProcess(s) ==
    /\ pc[s] \in {"recWait", "openWait", "closeWait"}
    /\ writers # {} \/ readers # {}
    /\ doomed' = doomed \ {s}
    /\ Die({s})

-----------------------------------------------------------------------------
Boot(s) ==
    \/ StartSession(s)
    \/ BootRead(s)
    \/ LookAtJournal(s)
    \/ RecoverNothing(s)
    \/ Redo(s)
    \/ RecoveryClear(s)
    \/ RecoverySave(s)
    \/ RecoveryEnd(s)
    \/ OpenVolume(s)
    \/ OpenSave(s)
    \/ OpenEnd(s)

Mutation(s) ==
    \/ \E k \in Kinds : DispatchMutation(s, k)
    \/ LockAndReload(s)
    \/ Refuse(s)
    \/ \E o \in Op : BeginTx(s, o) \/ BeginFormat(s, o) \/ SaveDirectly(s, o)
    \/ JournalBegin(s)
    \/ JournalBefore(s)
    \/ Mutate(s)
    \/ FailMidway(s)
    \/ JournalAfter(s)
    \/ JournalCommit(s)
    \/ Checkpoint(s)
    \/ JournalCheckpoint(s)
    \/ ClearJournal(s)
    \/ BumpEpoch(s)
    \/ EndMutation(s)

Reading(s) ==
    \/ DispatchRead(s)
    \/ LockAndRead(s)
    \/ EndRead(s)
    \/ ReadUnlocked(s)

Dying(s) ==
    \/ InjectCrash(s)
    \/ CrashOnSignal(s)
    \/ Kill(s)

Leaving(s) ==
    \/ Leave(s)
    \/ StartClose(s)
    \/ CloseVolume(s)
    \/ CloseSave(s)
    \/ CloseClear(s)
    \/ CloseEnd(s)
    \/ GiveUpCommand(s)
    \/ GiveUpProcess(s)

Next ==
    \/ \E s \in Terminal : Boot(s) \/ Mutation(s) \/ Reading(s) \/ Dying(s) \/ Leaving(s)
    \/ KillAll

Spec == Init /\ [][Next]_vars

-----------------------------------------------------------------------------
(* Properties *)

\* The journal's records are keyed by transaction ids and hold whole images.
JournalOK ==
    /\ journal \in [begun : SUBSET TxId, commit : SUBSET TxId,
                    checkpoint : SUBSET TxId, after : {journal.after}]
    /\ DOMAIN journal.after \subseteq TxId
    /\ journal.after \in [DOMAIN journal.after -> Image]

\* Every variable has its type: no image is saved or recovered that is none
\* ("recovering", the mount state of recoverIfNeeded, never reaches the disk).
TypeOK ==
    /\ vol \in Image \union {NoVolume}
    /\ JournalOK
    /\ Lock!TypeOK
    /\ pc \in [Terminal -> Points]
    /\ kind \in [Terminal -> {"tx", "direct", "format"}]
    /\ mounted \in [Terminal -> BOOLEAN]
    /\ mem \in [Terminal -> Image \union {NoVolume}]
    /\ fresh \subseteq Terminal
    /\ doomed \subseteq Terminal
    /\ op \in [Terminal -> Op \union {NoOp}]
    /\ used \subseteq Op
    /\ committed \subseteq used

\* What the next mount would find, were every process to die now.  For one
\* moment of a recovery only the recovering process knows: it has cleared the
\* journal and not saved the volume yet (kernel.cpp:875-877).
Content ==
    IF \E s \in Terminal : pc[s] = "recCleared"
    THEN mem[CHOOSE s \in Terminal : pc[s] = "recCleared"].ops
    ELSE IF vol = NoVolume THEN {} ELSE Recovered(vol, journal).ops

\* "A crash after commit but before checkpoint is recovered by replaying the
\* after image" (docs/design.md:29): nothing committed is ever lost, neither by
\* a crash nor by what another terminal does next.
Durable == committed \subseteq Content

\* recoveryFromJournal "ignores uncommitted transactions" (README.md:151): nothing
\* uncommitted is ever recovered, nor on disk before its commit record.
Atomic == Content \subseteq committed

\* Seen through a crash, every step is one whole mutation or none: beginTx ...
\* commitTx of all terminals together implement AtomicVolume.  No terminal
\* overwrites what another one has committed, unless by a format; and a format
\* that dies half way has taken place or it has not.
AV == INSTANCE AtomicVolume WITH content <- Content

RefinesAtomicVolume == AV!Spec

\* A clean superblock lets the next boot skip the recovery only if the journal is
\* empty too; whoever closed the volume and when, a journal that is not holds
\* nothing that the clean volume lacks.
CleanNeedsNoRecovery ==
    vol # NoVolume /\ vol.mount = "clean" => Recovered(vol, journal) = vol

\* A command under the read lock works on the committed tree of that moment,
\* reloaded or not; of more than that it can only see its own terminal's last
\* failed mutation, which stays in memory until the next reload.
ReaderCoherent == \A s \in Terminal : pc[s] = "reading" =>
    /\ committed \subseteq mem[s].ops
    /\ mem[s].ops \subseteq committed \union {op[s]}

\* Mounting shows exactly what was committed when the lock was held, although the
\* volume and the journal were first read, and recovery decided on, without it.
BootSeesCommitted == [][\A s \in Terminal :
    pc[s] = "openSaved" /\ pc'[s] = "idle" => mem[s].ops = committed]_vars

\* Two transactions in one journal never share an id, although ids are handed
\* out by processes that crash, fail and recover older images.
TxIdsFresh == [][\A s \in Terminal :
    pc[s] = "begun" /\ pc'[s] = "jbegin" => Txid(s) \notin journal.begun]_vars

\* Whenever the transaction lock is free, a mount would find exactly what was
\* committed, whoever failed or died on the way to COMMIT.
CheckpointVisible == writers = {} => Content = committed
=============================================================================
