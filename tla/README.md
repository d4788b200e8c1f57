# ScopeFS in TLA+

ScopeFS is a teaching file system in C++: a set of independent processes
("terminals") that share one volume file, one journal file and a directory of lock
files, with snapshots, copy-on-write, an ACL model and a trace of everything. This
directory holds TLA+ specifications of the parts of it whose correctness depends on
order, interleaving and crashes, TLC configurations that check them on small
instances, and TLAPS proofs for every size.

Paths below are relative to the repository root.

## The system

| Component | Source | State | Operations | What makes it correct |
|---|---|---|---|---|
| Coordinator | `src/coordinator.cpp` | `scopefs.lock/`, `tx.lock/holder`, `read_locks/`, `sessions/`, `scopefs.epoch`, `scopefs.signal` | acquire/release of the transaction and read locks, stale cleanup, session start and end, epoch, crash signal | one writer or many readers; locks of the dead are reclaimed, locks of the living are not; somebody always progresses; a changed volume is noticed; a crash reaches everybody who is running and nobody who starts later |
| Transaction path | `src/kernel.cpp` (boot, execute, beginTx, commitTx, recoverIfNeeded, unmountClean), `src/main.cpp` | the model in memory, mounted, the epoch last seen | boot and recovery, mutation, direct save, read, unmount, injected crash | atomicity and durability across crashes, coherent reads, no lost updates |
| Block device | `src/block_device.cpp` | volume file, journal file | whole read and write, journal append, clear | a write cut short loses nothing that was committed |
| Copy-on-write tree | `src/kernel.cpp` (allocate/retain/release, cloneInode, ensureMutablePath, snapshots, cp, open/close/delete) | inodes, blocks, reference counts, snapshots, open files | path COW, snapshot create/rollback/delete, delayed delete | counts equal references; snapshots never change; nothing reachable is freed; an open file stays until it is closed and goes then |
| Identity | `src/kernel.cpp` (authCheck, effectiveGroups, group and acl commands) | users, groups, parents, ACLs | the authorization chain, grant, revoke | only owners and managers widen access; membership and parents agree; built-in roles are root's |
| Dispatch and sessions | `src/kernel.cpp` (execute, login, logout, fd commands), `src/util.cpp` (pathParts) | active user, working directories, fd tables | which lock a command takes, login, paths, fds | a path names the directory one gets to by walking it; fds name live inodes |
| fsck | `src/kernel.cpp` | - | check, repair | a volume written by commands is clean |
| Trace sink | `src/trace.cpp` | ring of events, stack of open spans | emit, span, finish, selection by command | the stack is what is open; parents nest; transactions keep their events |
| Shell | `src/shell.cpp` | line, cursor, history, completion | keys | the line is what was typed; the draft comes back |
| UI, terminal, other utilities | `src/ui.cpp`, `src/terminal.cpp`, `src/util.cpp` | layout | render, encode | pure text functions |

How they interact: the shell calls `execute` for each line. `execute` writes the
session file, looks for a crash signal, takes the transaction lock (mutations) or a read
lock from the coordinator, reloads the model from the volume when it must, runs the
command, and releases the lock when the scope ends. A mutation goes through
`beginTx`/`commitTx`, which write the volume and the journal through the block device
and bump the epoch; `close`, `logout` and `fsck --repair` save the volume without a
journal. There are no threads and no callbacks: all concurrency is between processes,
through files, and every process may die between any two file operations.

The hard behaviours are therefore: file operations of several processes in any order;
processes that die holding locks or in the middle of a transaction or of a recovery; the
five-second timeouts; the epoch that tells a process its copy is old. `PROJECT.json`
lists the hazards line by line.

## Modules

```
RWLock          the abstract shared/exclusive lock
  ^ implements          ^ used by
Coordinator             Volume ----implements----> AtomicVolume
  ^                       |  one terminal, files cut short:       VolumeFile
Coordinator_proofs        |  many terminals, files being written: EpochReload
MCCoordinator             |  the crash signal's file:             CrashSignal
                          |  what a mutation does:
                        CowTree ---implements----> SnapshotStore
                        Identity, Sessions      who may, and where
                        TraceSink, LineEditor   what is recorded, what is typed
```

`MCX` gives the constants of module `X` values for TLC; `MCFiles` does it for `VolumeFile`,
`EpochReload` and `CrashSignal`, and `MCTerminal` for `Sessions`, `TraceSink` and `LineEditor`:
a behaviour of theirs runs one of the three and leaves the others where they begin. `X_proofs`
extends `X` with its theorems; `Files_proofs` holds those of `MCFiles` and its three modules,
`Terminal_proofs` those of `MCTerminal`, `TraceSink`, `Sessions` and `LineEditor`. `IntervalInduction` is what the
proofs about recursive functions rest on: induction and recursion over `0..k`, stated about sets
and functions.

**RWLock** is what the kernel expects from the coordinator. A holder that dies just stops
being one.

**Coordinator** is `src/coordinator.cpp` with one step per visible effect on the file
system. `pc` is the place in the code, `want` the kind of lock asked for, the other
variables are the directories and files. Acquiring is one chain of steps inside the mutex
(`AcquireMutex`, `ScanHolder`, `ReadHolder`, `DropHolder`, `DropTxDir`, `ScanReadLocksAndSessions`, then
`CheckReaders`, `MakeTxDir`, `WriteHolder` or `CheckWriter`, `WriteReadLock`, then
`Granted` or `Refused`); releasing is outside of it (`ReleaseTx` unlinks the holder file,
`ReleaseTxDir` the directory; when there is a holder in it again, `removeAllRetry` starts over, or
gives up, after eight tries in the code and after any number here: `AbandonTx`). The cleanup
looks for a holder file (`ScanHolder`) and reads it (`ReadHolder`) in two steps, and a release may
fall between them: a file that is gone reads as the record of no process, which is stale. Then the
cleanup removes `tx.lock` under the releaser, the next writer creates its own, and the releaser's pending
removal takes that one away. The ghost `overtaken` remembers that a `tx.lock` was created while
another process was still removing the one before. `Crash` is a `CrashException`, after which the destructors
release nothing and the process still counts as alive until `ExitAbnormally`; `Kill` is
the operating system's, at the points in `KillAt`. The reader's own look at the holder
(`CheckWriter`) is one step, because there a file that goes between look and read gives the answer of one
that was gone before. The scan of the read locks and of the
sessions is one step: no step of another process between two of its file reads can make
a record of a dead process live again, and sessions are added only by the living. A
session id and a process id belong to one process.

**Volume** is the transaction path. A terminal has the whole model in memory, so an image
is abstracted to the set of mutations it contains (`ops`), the next transaction id and the
mount state. Every write of a file is a step of its own, in the code's order: `BeginTx`
(id taken, volume saved), `JournalBegin`, `JournalBefore`, `Mutate` (or `FailMidway`, an
exception inside the command), `JournalAfter`, `JournalCommit`, `Checkpoint`,
`JournalCheckpoint`, `ClearJournal`, `BumpEpoch`, `EndMutation`. `SaveDirectly` is
close, logout and `fsck --repair`. `Formats` are the members of `Op` that are formats: `BeginFormat` takes
one of them, every other mutation is an ordinary one. The journal is kept as recovery reads it: the ids begun,
the after image per id, the ids committed and checkpointed. `fresh` are the terminals whose
observed epoch is the current one; `doomed` those that have not yet seen the last crash
signal. `op`, `used` and `committed` are ghosts: `committed` grows when a COMMIT record (or a
direct save) is on disk. Locks are `RWLock`'s, and a dead process's lock counts as free,
which is what `Coordinator` implements until a lock is overtaken; what two writers at once
do to the volume is not modelled.

**AtomicVolume** is what the journal promises: a set of mutations that changes by whole
ones, each of which is added to what is there, except that a member of `Formats` replaces it all. In an
instance without formats nothing that was committed ever goes. `Volume` is mapped to it by `Content`: what the next mount would recover if every
process died now.

**VolumeFile** is the volume below the grain of `Volume`: a file of a superblock line and
`Parts` further lines, truncated and written by `writeAll`, and what `deserializeState` makes
of a file that was cut (`step` is where the process is): parts that are missing, a shortened last field that is taken for a
value, or an empty number that throws. One process goes through boot, transactions, direct
saves and unmount (`SaveClean`, then `ClearClean` for the journal) with the same order of writes as in
`Volume`; a kill may fall between any
two steps and inside the writes in `KillIn`. The ghost `torn` is set when a write was cut
that no journal covers; `durable` is what was committed last.

**EpochReload** is the other half: several terminals, nobody killed in the middle, but each
`std::ofstream(..., trunc)` is two steps, so that a reader may find the volume torn (`Torn`)
or the epoch file empty, which reads as 0. Versions of the volume stand for its contents.
`ReadLocked` waits for the transaction lock as read commands do; `ReadUnlocked` is `help`,
`sleep`, `theme` and `lang`, which reload without a lock. The ghost `misled` holds the terminals that
did so in the middle of the first save of a transaction, until the next change: the number they have
noted is not that of what they have read.

**CrashSignal** is `scopefs.signal`: read, truncated, written with the next number, and polled.
`owed` and `raced` are ghosts: the terminals that were running when a signal was written and have
neither crashed nor ended since, and whether two have been sending at the same time or one was
killed at it.

**SnapshotStore** is what the tree promises: a live tree, from paths to contents, and snapshots
that are trees. **CowTree** is how: inodes with entries, `..`, reference count, delete-pending
flag and a block; blocks with a count; the volume's image, the image in each terminal's memory
and its fd table. (An inode keeps the target of its `..` as `up`.) A command is one step, since it holds the transaction lock from the reload to
the commit, but it is computed as the code does, helper by helper (`EnsureMutablePath`,
`CloneInode`, `ReleaseInode`, `SetFileData` ...) on a command state `[im, at, ok]`; when ids or
blocks run out `ok` becomes FALSE, the volume stays and the memory keeps what was done so far.
`releaseInode` calls itself for the children of what it frees; every call only counts down, so that
the order does not matter, and `ReleaseInodes` computes the outcome at once: the set of inodes that
lose their last reference, grown downwards in rounds, is gone, and the rest loses the references
from it. `close`, `logout`, `fsck --repair` save the memory they have. `work` says which
commands about which paths a behaviour has, and is chosen in `Init` from `Workload`. `CowTree` is mapped to `SnapshotStore` by reading the tree below the root and below
every snapshot (`View`).

**Identity** has users, groups (owner, parents, members, grant option, constraint) and the owner,
group, mode and ACL of a few paths. `EffectiveGroups` is the code's work list as a recursive
function, `AuthCheck` the chain of `authCheck` in its order, `CanTraverse` the loop over
components. Commands change something only when the code's own checks let them. `Workload` is as in `CowTree`.

**Sessions** is `pathParts`, `canonicalize` and `resolve` over a shared set of directories, with a
working directory per user and terminal. The reference `Walk` goes through the tree component by
component.

**TraceSink** is the sink as a record that every operation returns anew (`BeginSpan`, `FinishSpan`,
`Emit` ...) and the kernel's commands around it: `frame` holds the spans that the running
`execute` has on its C++ stack, in the order in which destructors close them. The first command
finds in the ring what boot has emitted: for each transaction in the journal that recovery redid or
ignored an event with its txid, under no span (`RecoveryEvents`), and one event for all those without
a txid. Statuses other than "start" and "error" count as "ok".

**LineEditor** is `readInteractiveLine`, one action per key. `bottom` is a ghost: the line as it was
when no history line was shown.

## Runs

| Run | Instance | Checks |
|---|---|---|
| `coord_crash` | 3 processes, kills anywhere outside the mutex, give-ups | `TypeOK`, `Exclusion`, `LocksOnDisk`, `NoLeftoverReadLock`, `RefinesRWLock`: the second, third and fifth until a lock is overtaken |
| `coord_live` | 3 processes, kills inside the mutex and in commands, fairness | `Progress`, `AloneGetsLock` |
| `coord_steal` | a kill inside the mutex | `SerializedUntilOvertaken` fails |
| `vol_terminals` | 2 terminals, 2 mutations, journaled or direct, crashes and kills outside the commit window, all killed at once anywhere but at `recCleared` | `TypeOK`, `CleanNeedsNoRecovery`, `ReaderCoherent`, `CheckpointVisible`, `RefinesAtomicVolume`, `BootSeesCommitted` |
| `vol_restart` | 1 terminal, 4 mutations, every crash point, kills anywhere but at `recCleared` | `Durable`, `Atomic`, `TxIdsFresh` |
| `vol_format` | 2 terminals, a format and 2 journaled mutations, crashes and kills as in `vol_terminals` | `RefinesAtomicVolume` |
| `vol_survivor` | a crash after COMMIT with a second terminal waiting | `Durable` fails |
| `cow` | the seven workloads of `MCCowTree` but `Revival` | `TypeOK`, `CountsExact`, `NothingDangles`, `OrphansAreOpen`, `UnlinkedDataKept`, `DirectSavesKeepTree`, `RefinesSnapshotStore` |
| `cow_revival` | an open file, its delete, a snapshot of it, a rollback | `NothingDangles` fails |
| `id` | root, an assistant of a course, somebody else; the three workloads of `MCIdentity` | `MembershipAgrees`, `FreshGroupIsCreatorsOnly`, `AccessNeedsConsent` |
| `files` | `VolumeFile` with 2 parts and 2 changes, kills everywhere; `EpochReload` with 3 terminals and 4 changes; `CrashSignal` with 3 terminals and 5 signals | `TypeOK`, `CommittedSurvives`, `WholeOrRedoable`, `CopyIsCurrent`, `CrashReachesAll`, `OldSignalsIgnored` |
| `terminal` | `TraceSink` with a ring of 6 events; `Sessions` with 2 terminals of one user; `LineEditor` with lines of 2 bytes | `TypeOK`, `StackIsOpenSpans`, `TxEventsInTx`, `ShownIsTheCommand`, `PathIsWalk`, `TabReplacesCandidate`, `DraftReturns` |

The failing runs are disagreements between the code and its documentation or tests:

* `coord_steal`: the five-second deadline of `acquireMutex` is not set anew after the
  directory has been removed, so two overdue waiters remove it under each other's feet and
  both get the transaction lock.
* `vol_survivor`: a terminal that waits for the lock of one that died after COMMIT neither
  sees the crash signal (it looked before it waited) nor reads the journal (only boot
  does); its own commit clears the journal with the other's transaction in it.
* `cow_revival`: `deletePending` stays set when a rollback makes the file reachable again, and the
  close of the fd that was open at the delete frees it.

### What the passing runs leave out

Their constants, workloads and ghosts exclude the following, which the code does differently
from what the property says. Each was met while modelling; where a failing run shows it, the run is named.

* `Coordinator`, the ghost `overtaken`: what becomes of `Exclusion`, `LocksOnDisk` and `RefinesRWLock` after
  a `tx.lock` was created under a pending removal. Nobody needs to die or to wait long for it: one process
  releases the transaction lock while another one's cleanup is between `exists` and `readRecord` of its
  holder file (`coordinator.cpp:412-414`). The cleanup takes the lock for a dead process's and removes it, the
  releaser then removes the lock that the other has created for itself, and the next command gets a second
  one: without the guard two processes, no kills and `StealLive = FALSE` are enough for TLC to find two writers.
  `Volume` has the locks of `RWLock`, so its properties, too, are about commands that the lock keeps apart.
* `Volume`, `BeginFormat`: `format` replaces the model in memory before `beginTx` (`kernel.cpp:1472-1477`), and
  `beginTx` saves that model (`:975`) before its first crash point and before any line of the journal. A
  crash there leaves the new, empty volume, and what was committed is gone, although `docs/design.md:29` says
  that a crash before commit leaves the previous checkpoint visible. `CheckpointVisible`, `Durable` and `Atomic`
  are therefore checked where nobody formats. `vol_format` has these crashes, and checks what does
  hold: the format has then taken place as a whole.
* `Volume`, `InjectOutsideWindow` and `KillOutsideWindow`: the steps from the commit record
  to the epoch bump in which one terminal dies and another lives on (`vol_survivor`; a terminal
  killed between checkpoint and bump also leaves readers with an old copy). Everybody
  dying at once in that window is included, and so is a terminal alone dying in it (`vol_restart`).
* `Volume`, `recCleared`: recovery clears the journal before it saves the redone volume
  (`kernel.cpp:875-877`), so a kill between the two loses what it had redone.
* `VolumeFile`, the ghost `torn`: `beginTx`, direct saves, boot and unmount truncate the volume when
  nothing in the journal covers it. And boot parses the volume, and may throw (`BootRefused`), before
  it looks at the journal.
* `EpochReload`, the ghost `misled`: the commands that reload without a lock may read half of a
  transaction's first save; when the transaction then fails, that counts as current until the next
  commit. Boot, too, reads the volume without a lock, but again under it.
* `CrashSignal`, the ghost `raced`: the number is read and rewritten without a lock, so that two crashes
  at once may write the same one.
* `CowTree`, by workload: an open file deleted in one terminal and open in another (delete knows its own
  process's files only); a write through an fd whose file was deleted and created anew (it goes to
  whatever is at the path, and the old inode is left to nobody); an exit with a deleted file open (what
  `unmountClean` frees is lost by the reload that follows it). `..` is in no property: a copied
  directory's children keep the old one's, which a snapshot delete frees.
* `Identity`, by targets: a built-in group put below an own one, which any user may do. No property
  speaks of the following either: the execute bit of `/` is asked only for paths directly in it;
  a group belongs to a course by the prefix of its name; the write bit of the mode gives an assistant
  `g` as well; the grant option is the group's, and every new group has it; users and groups share
  names, and deleting a user's group takes the user out of the other groups' lists.
* `Sessions`: `rmdir` protects the working directory of its own session only, so that `PathIsWalk` has to
  treat a relative path from a directory that is gone as one that cannot be walked.
* `LineEditor`: the editing keys work on bytes, also within a character of several.

### Bounds

* Processes: two for `Volume`, because every property relates a terminal that acts to one
  that is interrupted or that watches, and a restarted terminal plays a third; three for
  `Coordinator`, where a dead holder and two competing waiters are needed.
* `Op`: each mutation takes effect at most once, so `|Op|` bounds the transactions. Two
  suffice for an interrupted one and an overwriting one; `vol_restart` has four, so that
  several failed and committed transactions pile up in one journal and recoveries
  redo some of them. When all are used, commands are refused.
* Transaction ids are bounded by `Op` through `used`; no state constraint is needed.
* Boots, crashes, reads and unmounts are not bounded.
* Symmetry is used on processes, mutations and fds in the safety runs only; no definition
  distinguishes their members (CHOOSE is used for unique elements).
* Deadlock is checked in all passing runs but those of `Coordinator`, where all processes may
  have ended.
* `CowTree`: a component that is shared, one above it and one below it need a path of two names.
  A workload has the inodes of its tree and two or three to copy: further copies fail, and
  failing half way is part of the run. The data of a file is one block, as the code changes
  a file's blocks all at once. `WithoutMemory` as a VIEW drops the memory of a terminal where no
  command of the workload reads it.
* `Identity`: roles, not people: an administrator, an assistant, and somebody outside; one course, a
  group for each role in it and two new groups, which is enough for a chain, a cycle of
  parents, and a name that is used again.
* `VolumeFile`: two parts show an old, a missing and a garbled one side by side; two versions are
  an interrupted and an overwritten one. `Volume` has the concurrency.
* `EpochReload`, `CrashSignal`: numbers are bounded by the guards; three terminals are a writer,
  somebody who reads at the wrong moment and somebody who sees the result. Terminals are symmetric.
* `TraceSink`: commands start only below `MaxSeq`, and each may run to its end; a command has up to
  two path components and two events of its own. Recovery speaks of up to `MaxTx` transactions, of which
  the next ones may repeat the txid when they were ignored. The longest nesting has more events than the ring,
  so that open spans outlive theirs.
* `Sessions`, `LineEditor`: depth, typed components and bytes are the bounds; every path and every
  sequence of keys within them is included.

### Fairness

`FairSpec` asks weak fairness of `Work(s)`: a process that has entered the coordinator goes
on with its polling loop, and a command that holds a lock finishes or dies. The code has
no blocking call outside these loops; commands are finite (`sleep` takes no lock). No
fairness is asked of users, of crashes, or of waiters against each other. `Progress` says
that somebody gets a lock, not who: the code lets readers starve a writer, which then
fails with `E_LOCK_BUSY`. For the liveness run waiters never give up (`Impatient = FALSE`),
so that a lost lock shows as waiting for ever. Kills between the creation of `tx.lock` and
the write of its holder, and between the two unlinks of its removal, are left out of that
run: they leave a directory that no cleanup takes for stale, and the transaction lock stays
busy until somebody removes it by hand.

## Proofs

`Coordinator_proofs` proves, for any set of sessions:

* `TypeCorrect`: `TypeOK`, without assumptions.
* `MutualExclusion`, `LocksStay`, `Refinement`: `Exclusion`, `LocksOnDisk` and `RefinesRWLock`
  under `QuietMutex`: nobody is killed inside the mutex, and nobody stays in it for
  five seconds. (`coord_steal` shows that this is needed.) The properties themselves end with
  `overtaken`: the theorems say that there is no other way to two writers than a `tx.lock`
  created under a pending removal, not that there is none (see "What the passing runs leave out").
* `ReadLocksCollected`: `NoLeftoverReadLock`, without assumptions.

`Exclusion` is not inductive: it must be known that the mutex directory has one owner
(`MutexInv`), that each owner of `tx.lock` finds there what its place in the code says
(`TxFiles`), that a cleanup removes it only when it has none (`CleanupInv`), and that a
writer that has seen no readers excludes those who come later (`NoOverlap`); the last three for as
long as no lock was overtaken. Their conjunction `Inv` is inductive; the proof goes through it action by action.

`Volume_proofs` proves, for any sets of terminals and mutations:

* `TypeCorrect`: `TypeOK`, for every choice of crashes and kills; it needs `MountInv`, which
  says that unmounted terminals never get to save.
* `Durability`, `Atomicity`, `Visibility`, `BootCoherence` and `Refinement` under
  `QuietCommit`: no `format` (neither the kind nor a member of `Formats`), no kill at `recCleared`, and no process dies alone inside the
  window from COMMIT to the truncation of the journal, unless there is only one
  terminal. (`vol_survivor` shows that the last part is needed; for the others see "What the passing
  runs leave out".)

The invariant is `TypeInv /\ CommitInv`. `LockInv` ties the locks to the program counters;
`JournalInv` says that the journal holds at most one committed transaction, whole, and
only while its owner is in the window or after everybody has died (`Aftermath`); `VolumeInv`
that otherwise the volume file is what was committed; `MemInv` what the lock's holder has
in memory at each point. Together they give `Content = committed`
(`ContentIsCommitted`), from which the four theorems follow, and, as each step commits
one new mutation or none (`CommitOne`), the refinement. `CommitInv` has been checked by
TLC on the instances of `vol_terminals` and `vol_restart` before being proved.

Its second part is what the terminals rely on besides the commit:

* `FreshIds`: `TxIdsFresh`, for all crashes and kills, as long as nobody formats. `IdInv`: the counter
  in the volume file is above every id in the journal, and the lock's holder has the same counter.
* `CleanVolume`: `CleanNeedsNoRecovery`, under `QuietCommit`. `CleanInv`: before a commit record is
  written the volume is marked dirty, in the file as in memory.
* `ReadersCoherent`: `ReaderCoherent`, under `QuietCommit` and `QuietChange` (nobody dies alone
  between a commit and `bumpEpoch`; the terminals that survive would keep copies they believe
  current). `ReadInv` says that a copy whose epoch is current holds what is committed, but for its
  terminal's last failed mutation, whenever no commit waits to be announced (`CopyInv`); boots
  and reloads without a lock make it depend on what a recovery has in hand (`RedoneInv`).

The other proofs, each by an inductive invariant that TLC has checked before:

* `SnapshotStore_proofs`: `NoStrayPaths` for any set of paths; a path's parent is a prefix of it, so
  that what may be removed is nobody's parent. No run checks it: `cow` shows that `CowTree`
  implements `SnapshotStore`, and the theorem says what that is worth.
* `Identity_proofs`: `MembershipAgrees` for any users, groups and files. The invariant adds only the
  types of users and groups; grant has a case for users, for groups and for the names that are both.
  `FreshGroupIsCreatorsOnly`, `BuiltInRolesStable` and `AccessNeedsConsent` are about `EffectiveGroups`,
  a closure that the model computes by a recursive function: `EffectiveIsLast` says that it is
  the last of a chain of sets, each the one before with the parents that the constraints let in, and
  the three follow by induction along the chain (`BuiltInRolesStable` is in no run: the proof
  covers what a run would). `Name` is finite, as the tables of the code are.
* `Files_proofs`: `TypeOK` of the three protocols together, and of each by itself:
  `WholeOrRedoable` and `CommittedSurvives` for any number of parts and versions, any set of writes
  that may be cut and any look of the cut line (`RunInv` says what the journal, the file and the
  memory hold at each point of a running process, `DiskInv` what a recovery would find when there is
  none); `CopyIsCurrent` for any number of terminals and changes (`NumberInv` relates the epoch, what
  terminals have seen and the versions written; a terminal may hold a torn model only while it is
  `misled` or has not seen the next number); `OldSignalsIgnored` and `CrashReachesAll` for any number
  of terminals and signals.
* `Terminal_proofs`, the trace sink: `StackIsOpenSpans`, `TxEventsInTx` and `ShownIsTheCommand` for any commands, any
  ring above two events and whatever boot's recovery has left in it. The first part says what each operation of the sink leaves: `Evolves` (numbers
  without a gap, events that stay what they are, new ones with the sink's context), `Closes` and `Opens`
  for the stack, and `TxSafe`, what may be emitted while a transaction's span is open. The second
  is the inductive invariant `TraceInv`: `FrameOK` (a transaction's span is opened after the root span,
  and a permission check is held outside both lookups and transactions) makes the transaction's
  span the innermost one whenever its txid is emitted (`TopIsTx`), and `WrapperOK` says of which
  contexts the events since `cmdTrace()` are. That a login takes only the last two numbers is why the ring
  must hold three: with less, `since()` would be rendered instead of the command.
* `Terminal_proofs`, the rest: `TypeOK` of the terminal, and `TabReplacesCandidate`, `DraftReturns` for any bytes,
  words and line length (`EditorInv`: while Tab cycles, the word the candidates began with is what is
  kept of the typed line; at the bottom of the history the line is the draft) and `PathIsWalk` for any
  names and homes. `Canonicalize` and `Walk` are recursive functions over the typed components:
  `CanonicalizeIsLast` and `WalkIsLast` name their intermediate values, and `WalkAgrees` relates the two,
  component by component, for as long as every prefix walked is a directory.

* `CowTree_proofs`: `TypeOK`, `CountsExact` and `NothingDangles` for any number of inodes, blocks,
  names, paths, terminals, fds and snapshots. `Counted(im, extra)` is the heart of it: a refcount is the
  number of links, plus one for the inodes of `extra`, whose link has just been taken away and whose
  release is still to come; what waits for a close has no link at all; files are leaves; and every
  block has exactly its users. It is proved for each helper:
  + `EnsureMutablePathOK`: a walk along the path in which the copy mirrors the original (`Mirrors`: a map
    from the inodes of the copy to those of the original that keeps names, so that what `resolve` found
    in the old tree is found in the new one), by induction along the path;
  + `FreedIsClosed`: the rounds of `Freed` come to an end before they are used up, by counting, so that
    what is freed is just what loses its last reference when all of it is freed;
  + `ReleaseInodesOK`: from it, that the counts of what is left are exact again, and that only what is
    open comes to wait.

  Each command is then a composition of these (`Ends`, `Follows`), and each step one of the commands
  (`Moves`). A command that fails half way throws its image away, but its memory stays an image.
  `OrphansAreOpen` needs `WaitInv` besides: what waits for a close is open in some terminal.
  Two assumptions about the workload are made where the code needs them. `WaitingUnshared`: no workload
  has open files, deletes and snapshots all three, because a deleted open file that a snapshot
  shares keeps the mark that it waits, and a rollback brings it back to be freed (`cow_revival`
  shows it; of the workloads of `cow` only `Holding`, which has no rollback, is outside, and stays
  with TLC). `NoLeak`: no `exit` and no `write` by fd where something is removed while files are open,
  the two ways to leave an orphan behind that are listed above; all workloads of `cow` obey it.
  `CountsExact`, `NothingDangles` and `TypeOK` do not need it.

Only model-checked: `UnlinkedDataKept`, `DirectSavesKeepTree` and the refinement of `SnapshotStore` by
`CowTree`, which speak of what every path leads to; everything about format; liveness
(`Progress`, `AloneGetsLock`), which is out of the prover's reach.

## Not modelled, and why

* Reuse of process ids by the operating system.
* Two commands in the transaction lock at once, after it was overtaken: `Coordinator` shows that they get
  there, `Volume` does not follow them.
* Each single event of boot, of a lock or of a reload that has no txid.
* A kill between the truncation and the writing of the epoch file: the numbers start anew and may
  meet one that a terminal saw long ago. `EpochReload` has no kills inside a change.
* Rights to take, roll back and delete snapshots (there are none), and the attributes a rollback brings
  back; offsets within files, and the contents of a directory's own block.
* Names that contain a comma, which the volume's encoding of sets splits, and prefixes of names in
  constraints: names are values here.
* `clearStaleLocks`, which nobody calls.
* Saving, replaying and stepping a trace, the tokenizer, the password prompt, terminal and UI: text.

## Plan

Done: all of the above. What would come next:

1. The refinement of `SnapshotStore` by `CowTree` for every size: `Mirrors` says what a copied path
   keeps of the tree; it has to be carried on to `View`, for the live tree and the snapshots.
2. fds of other terminals under a format, and kills inside `EpochReload`'s writes.
