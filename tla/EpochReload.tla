---------------------------- MODULE EpochReload ----------------------------
(***************************************************************************)
(* How a terminal finds out that its copy of the volume is old: the epoch  *)
(* file counts the changes, and reloadIfEpochChanged compares it with the  *)
(* number it saw last.  Both files are truncated before they are written,  *)
(* and boot and the commands that take no lock read them meanwhile.        *)
(* Volume has the same protocol with whole writes, and with the journal.   *)
(***************************************************************************)
EXTENDS Naturals

CONSTANTS
  Terminal,
  Nobody,      \* no terminal: the transaction lock is free
  MaxEpoch     \* bound: changes of the volume

ASSUME EpochAssumption ==
  /\ Nobody \notin Terminal
  /\ MaxEpoch \in Nat

VARIABLES
  stored,    \* the version in the volume file; Torn while it is being written
  epoch,     \* the number in the epoch file; an empty file reads as 0
  holder,    \* who has the transaction lock
  next,      \* what the holder is going to write to the epoch file
  pc,
  copy,      \* the version a terminal has in state_; what its last failed
             \* command left there besides is Volume's
  observed,  \* observedEpoch_
  latest,    \* ghost: the version whose save has begun last
  misled     \* ghost: who reloaded from a transaction's unfinished first save
             \* and holds a number that no change has passed since

epochVars == <<stored, epoch, holder, next, pc, copy, observed, latest, misled>>

Torn == MaxEpoch + 1

EpochInit ==
  /\ stored = 0 /\ epoch = 0 /\ holder = Nobody /\ next = 0 /\ latest = 0 /\ misled = {}
  /\ pc = [t \in Terminal |-> "off"]
  /\ copy = [t \in Terminal |-> 0]
  /\ observed = [t \in Terminal |-> 0]

Goto(t, from, to) == pc[t] = from /\ pc' = [pc EXCEPT ![t] = to]

-----------------------------------------------------------------------------
(* Reading.                                                                *)

\* reloadVolumeFromDisk.
Reload(t) == copy' = [copy EXCEPT ![t] = stored]

\* startSession looks at the epoch without a lock.
Start(t) ==
  /\ Goto(t, "off", "starting")
  /\ observed' = [observed EXCEPT ![t] = epoch]
  /\ UNCHANGED <<stored, epoch, holder, next, copy, latest, misled>>

\* boot reads the volume without a lock.  deserializeState makes something of
\* most pieces of a volume, and boot goes on to read it again under the lock.
BootRead(t) ==
  /\ Goto(t, "starting", "mounting")
  /\ Reload(t)
  /\ UNCHANGED <<stored, epoch, holder, next, observed, latest, misled>>

\* A piece that ends in an empty number makes std::stoul throw: main() returns 2.
BootFails(t) ==
  /\ stored = Torn
  /\ Goto(t, "starting", "failed")
  /\ UNCHANGED <<stored, epoch, holder, next, copy, observed, latest, misled>>

\* reloadIfEpochChanged.
ReloadIfEpochChanged(t) ==
  /\ observed' = [observed EXCEPT ![t] = epoch]
  /\ IF epoch = observed[t] THEN UNCHANGED copy ELSE Reload(t)

Read(t) ==
  /\ pc[t] = "idle"
  /\ ReloadIfEpochChanged(t)
  /\ UNCHANGED <<stored, epoch, holder, next, pc, latest>>

\* A read command waits for the writer to finish.
ReadLocked(t) == holder = Nobody /\ Read(t) /\ UNCHANGED misled

\* help, sleep, theme, lang.
ReadUnlocked(t) ==
  /\ Read(t)
  /\ misled' = IF epoch # observed[t] /\ \E u \in Terminal : pc[u] = "beginning"
               THEN misled \cup {t} ELSE misled

-----------------------------------------------------------------------------
(* Writing: a mutation, a direct save, the mount and the unmount.          *)

\* acquireTxLock and the reload; the epoch is not looked at.
Lock(t, from, to) ==
  /\ holder = Nobody /\ latest < MaxEpoch
  /\ Goto(t, from, to)
  /\ holder' = t
  /\ Reload(t)
  /\ UNCHANGED <<stored, epoch, next, observed, latest, misled>>

LockForTx(t)    == Lock(t, "idle", "begin")
LockForSave(t)  == Lock(t, "idle", "change")
LockForMount(t) == Lock(t, "mounting", "change")

\* BlockDevice::writeAll, opened and written.
OpenVolume(t, from, to) ==
  /\ Goto(t, from, to)
  /\ stored' = Torn
  /\ UNCHANGED <<epoch, holder, next, observed>>

WriteVolume(t, from, to) ==
  /\ Goto(t, from, to)
  /\ stored' = copy[t]
  /\ UNCHANGED <<epoch, holder, next, copy, observed, latest, misled>>

\* beginTx saves what was just loaded.
OpenBegin(t)  == OpenVolume(t, "begin", "beginning") /\ UNCHANGED <<copy, latest, misled>>
WriteBegin(t) == WriteVolume(t, "beginning", "mutate")

\* The command throws, or returns an error, after beginTx: nothing is bumped.
Fail(t) ==
  /\ Goto(t, "mutate", "idle")
  /\ holder' = Nobody
  /\ UNCHANGED <<stored, epoch, next, copy, observed, latest, misled>>

\* commitTx's checkpoint, or the direct save: a new version.
OpenChanged(t) ==
  /\ OpenVolume(t, "mutate", "saving") \/ OpenVolume(t, "change", "saving")
  /\ latest' = latest + 1
  /\ copy' = [copy EXCEPT ![t] = latest + 1]
  /\ misled' = {}

WriteChanged(t) == WriteVolume(t, "saving", "bump")

\* bumpEpoch reads the number, truncates the file and writes the next number.
OpenEpoch(t) ==
  /\ Goto(t, "bump", "bumping")
  /\ next' = epoch + 1
  /\ epoch' = 0
  /\ UNCHANGED <<stored, holder, copy, observed, latest, misled>>

\* Mutant: the next number is counted from the one this terminal saw last.
WriteEpochFromMemory(t) ==
  /\ Goto(t, "bumping", "idle")
  /\ epoch' = observed[t] + 1
  /\ observed' = [observed EXCEPT ![t] = observed[t] + 1]
  /\ holder' = Nobody
  /\ UNCHANGED <<stored, next, copy, latest, misled>>

WriteEpoch(t) ==
  /\ Goto(t, "bumping", "idle")
  /\ epoch' = next
  /\ observed' = [observed EXCEPT ![t] = next]
  /\ holder' = Nobody
  /\ UNCHANGED <<stored, next, copy, latest, misled>>

\* exit, or a process killed while it has no lock; the next one starts anew.
Leave(t) ==
  /\ pc[t] \in {"starting", "mounting", "idle"}
  /\ pc' = [pc EXCEPT ![t] = "off"]
  /\ UNCHANGED <<stored, epoch, holder, next, copy, observed, latest, misled>>

EpochNext == \E t \in Terminal :
  \/ Start(t) \/ BootRead(t) \/ BootFails(t)
  \/ ReadLocked(t) \/ ReadUnlocked(t)
  \/ LockForTx(t) \/ LockForSave(t) \/ LockForMount(t)
  \/ OpenBegin(t) \/ WriteBegin(t) \/ Fail(t)
  \/ OpenChanged(t) \/ WriteChanged(t) \/ OpenEpoch(t) \/ WriteEpoch(t)
  \/ Leave(t)

EpochSpec == EpochInit /\ [][EpochNext]_epochVars

-----------------------------------------------------------------------------
(* Properties.                                                             *)

EpochTypeOK ==
  /\ stored \in 0 .. Torn /\ latest \in 0 .. MaxEpoch
  /\ epoch \in 0 .. MaxEpoch /\ next \in 0 .. MaxEpoch
  /\ holder \in Terminal \cup {Nobody}
  /\ pc \in [Terminal -> {"off", "failed", "starting", "mounting", "idle", "begin",
                          "beginning", "mutate", "change", "saving", "bump", "bumping"}]
  /\ copy \in [Terminal -> 0 .. Torn]
  /\ observed \in [Terminal -> 0 .. MaxEpoch]
  /\ misled \subseteq Terminal

\* When no save is under way, a terminal that has seen the current number has
\* the volume's contents in memory: neither a number that comes back nor a
\* volume read while it was being written stays undiscovered, and a read command
\* shows what was committed last (reloadIfEpochChanged, bumpEpoch).  Misled are
\* only those who reloaded without a lock inside the save of a transaction that
\* then failed, until the volume changes.
CopyIsCurrent ==
  holder = Nobody =>
    \A t \in Terminal \ misled :
      pc[t] = "idle" /\ observed[t] = epoch => copy[t] = stored
=============================================================================
