------------------------------ MODULE CowTree ------------------------------
\* The tree of src/src/kernel.cpp: inodes and blocks with reference counts, the
\* copying of shared paths, snapshots, cp, open files and delayed deletion.
\*
\* Every mutating command holds the transaction lock from its reload of the volume
\* to its commit (see Volume), so it is one step here, computed helper by helper
\* as the handler calls them; a command that runs out of inodes or blocks half way
\* leaves the volume as it was and the memory of its terminal as far as it came.
\* Paths are canonical.  A refusal (permission, wrong type, busy) changes nothing
\* and is no step.  A file has at most one block, and one session per terminal
\* stands for all of its users' sessions.
EXTENDS Naturals, Sequences, FiniteSets, SequencesExt, FiniteSetsExt

CONSTANTS Terminal,   \* terminal processes
          Snap,       \* names of snapshots
          Fd,         \* open files per terminal (config::kMaxOpenPerUser)
          Data,       \* non-empty contents of a file
          Path,       \* bound: paths, sequences of names
          Workload    \* bound: what is done to a volume, and the volume's size

Name == UNION {ToSet(p) : p \in Path}

\* A workload: who gives which commands about which paths, and config::kInodeCount
\* and the number of data blocks.
ASSUME CowAssumption ==
    /\ <<>> \in Path /\ Path \subseteq Seq(Name)
    /\ \A p \in Path : Prefixes(p) \subseteq Path
    /\ IsFiniteSet(Fd) /\ IsFiniteSet(Path) /\ IsFiniteSet(Snap)
    /\ \A w \in Workload :
          /\ w.users \subseteq Terminal /\ w.paths \subseteq Path
          /\ {w.inodes, w.blocks} \subseteq Nat \ {0}

VARIABLES vol,   \* the image in the volume file
          mem,   \* terminal -> the image it reads: its state_ after any reload
          fds,   \* terminal -> its open fds -> [ino, path]
          work   \* the workload of the behaviour

vars == <<vol, mem, fds, work>>

Inodes == 1..work.inodes
Blocks == 1..work.blocks
Empty == "empty"        \* the content of a file of size 0
Listing == "listing"    \* the block of a directory (its entries, never read back)

----------------------------------------------------------------------------
\* Images: root, node (inode table), block (block table), snap (snapshots).  In a
\* node: ents without "." and "..", up the target of "..", ref the refcount, pend
\* deletePending, blk its block or 0.

FreshImage ==
    [root  |-> 1,
     node  |-> [i \in {1} |-> [dir |-> TRUE, ents |-> <<>>, up |-> 1, ref |-> 1,
                               pend |-> FALSE, blk |-> 1]],
     block |-> [b \in {1} |-> [ref |-> 1, data |-> Listing]],
     snap  |-> <<>>]

Has(im, i) == i \in DOMAIN im.node
With(f, x, v) == [y \in DOMAIN f \union {x} |-> IF y = x THEN v ELSE f[y]]
Without(f, x) == Restrict(f, DOMAIN f \ {x})

\* The inode at path p below inode r, 0 if there is none.
LookupFrom(im, r, p) ==
    LET at[k \in 0..Len(p)] ==
            IF k = 0 THEN r
            ELSE IF Has(im, at[k - 1]) /\ p[k] \in DOMAIN im.node[at[k - 1]].ents
                 THEN im.node[at[k - 1]].ents[p[k]] ELSE 0
    IN at[Len(p)]

Lookup(im, p) == LookupFrom(im, im.root, p)
IsDir(im, i)  == Has(im, i) /\ im.node[i].dir
IsFile(im, i) == Has(im, i) /\ ~im.node[i].dir

\* readFileData.
ReadInode(im, i) ==
    IF Has(im, i) /\ im.node[i].blk \in DOMAIN im.block
    THEN im.block[im.node[i].blk].data ELSE Empty

ReleaseBlock(im, b) ==
    IF b \notin DOMAIN im.block THEN im
    ELSE IF im.block[b].ref > 1 THEN [im EXCEPT !.block[b].ref = @ - 1]
    ELSE [im EXCEPT !.block = Without(@, b)]

\* Mutant: a copy that does not count itself among the users of its block.
RetainNoBlock(im, b) == im

\* retainBlock; a missing block comes into being.
RetainBlock(im, b) ==
    IF b = 0 THEN im
    ELSE IF b \in DOMAIN im.block THEN [im EXCEPT !.block[b].ref = @ + 1]
    ELSE [im EXCEPT !.block = With(@, b, [ref |-> 1, data |-> Empty])]

\* The entries of the inodes of dirs that name an inode, and the users of a block.
EntriesTo(im, dirs, i) ==
    {e \in dirs \X Name :
        e[2] \in DOMAIN im.node[e[1]].ents /\ im.node[e[1]].ents[e[2]] = i}

BlockUsers(im, b) == {i \in DOMAIN im.node : im.node[i].blk = b}

\* How often releaseInode comes to inode c when it is called for each of these and
\* the inodes of gone are freed, which releases what their entries name.
Releases(im, these, gone, c) ==
    Cardinality(EntriesTo(im, gone, c)) + (IF c \in these THEN 1 ELSE 0)

\* The call that finds no other reference frees, unless the inode is open.
LosesAll(im, these, gone, c) ==
    LET n == Releases(im, these, gone, c) IN n >= 1 /\ n >= im.node[c].ref

FreedWith(im, open, these, gone) ==
    {c \in DOMAIN im.node \ open : LosesAll(im, these, gone, c)}

\* The inodes that are freed: the rounds go down the tree as the recursion does.
Freed(im, open, these) ==
    LET depth == Cardinality(DOMAIN im.node)
        round[k \in 0..depth] ==
            IF k = 0 THEN {} ELSE FreedWith(im, open, these, round[k - 1])
    IN round[depth]

\* releaseInode(i, true) for each i of these, in a terminal in which the inodes of
\* open are open.  The order does not matter: every call only counts down.
ReleaseInodes(im, open, these) ==
    LET gone     == Freed(im, open, these)
        left(c)  == IF LosesAll(im, these, gone, c)
                    THEN [im.node[c] EXCEPT !.ref = 0, !.pend = TRUE]
                    ELSE [im.node[c] EXCEPT !.ref = @ - Releases(im, these, gone, c)]
        users(b) == Cardinality(BlockUsers(im, b) \intersect gone)
        kept     == {b \in DOMAIN im.block : users(b) = 0 \/ users(b) < im.block[b].ref}
    IN [im EXCEPT !.node  = [c \in DOMAIN im.node \ gone |-> left(c)],
                  !.block = [b \in kept |-> [im.block[b] EXCEPT !.ref = @ - users(b)]]]

ReleaseInode(im, open, i) == ReleaseInodes(im, open, {i})

----------------------------------------------------------------------------
\* A command under way: its image so far, the inode it has come to, and whether
\* nothing has been thrown.  Every helper below does nothing once ok is FALSE.

Running(im) == [im |-> im, at |-> im.root, ok |-> TRUE]
Throw(c) == [c EXCEPT !.ok = FALSE]

\* setFileData and refreshDirBlock: the old block goes before the new one is
\* taken, the lowest free one.
SetFileData(c, i, d) ==
    LET im   == ReleaseBlock(c.im, c.im.node[i].blk)
        free == Blocks \ DOMAIN im.block
        b    == Min(free)
    IN IF ~c.ok THEN c
       ELSE IF free = {} THEN [c EXCEPT !.im = [im EXCEPT !.node[i].blk = 0], !.ok = FALSE]
       ELSE [c EXCEPT !.im = [im EXCEPT !.node[i].blk = b,
                                        !.block = With(@, b, [ref |-> 1, data |-> d])]]

\* Mutant: ids from 0 on.
AllocateFromZero(c, node) ==
    LET free == (0..work.inodes) \ DOMAIN c.im.node
    IN IF ~c.ok \/ free = {} THEN Throw(c)
       ELSE [c EXCEPT !.at = Min(free), !.im.node = With(@, Min(free), node)]

\* allocateInode: the lowest free id.
AllocateInode(c, node) ==
    LET free == Inodes \ DOMAIN c.im.node
        id   == Min(free)
    IN IF ~c.ok \/ free = {} THEN Throw(c)
       ELSE [c EXCEPT !.at = id, !.im.node = With(@, id, node)]

\* cloneInode: the copy shares the block and the children, and has the original's "..".
CloneInode(c, src) ==
    LET old == c.im.node[src]
        new == AllocateInode(c, [old EXCEPT !.ref = 1, !.pend = FALSE])
        shared(i) == Cardinality({n \in DOMAIN old.ents : old.ents[n] = i})
        retained == [i \in DOMAIN new.im.node |->
                        [new.im.node[i] EXCEPT !.ref = @ + shared(i)]]
    IN IF ~new.ok THEN new
       ELSE [new EXCEPT !.im = RetainBlock([@ EXCEPT !.node = retained], old.blk)]

\* ensureMutablePath: the root, then each component, is replaced by a copy when it
\* is shared; .at is then the inode at the path.

\* The copy stands where the original stood.
RootMoved(im, old, copy) ==
    [im EXCEPT !.root = copy, !.node[old].ref = @ - 1, !.node[copy].up = copy]

EntryMoved(im, old, dir, name, copy) ==
    [im EXCEPT !.node[old].ref = @ - 1, !.node[dir].ents[name] = copy]

\* Mutant: the root is written in place although a snapshot has it ...
CopyRootNever(c) == c

CopyRoot(c) ==
    LET old == c.im.root
        new == CloneInode(c, old)
    IN IF c.im.node[old].ref <= 1 THEN c
       ELSE IF ~new.ok THEN new
       ELSE SetFileData([new EXCEPT !.im = RootMoved(new.im, old, new.at)], new.at, Listing)

CopyComponent(c, name) ==
    LET dir   == c.at
        child == c.im.node[dir].ents[name]
        new   == CloneInode(c, child)
        moved == EntryMoved(new.im, child, dir, name, new.at)
    IN IF ~c.ok \/ ~Has(c.im, dir) \/ name \notin DOMAIN c.im.node[dir].ents THEN Throw(c)
       ELSE IF ~Has(c.im, child) THEN Throw([c EXCEPT !.at = child])
       ELSE IF c.im.node[child].ref <= 1 THEN [c EXCEPT !.at = child]
       ELSE IF ~new.ok THEN new
       ELSE SetFileData([new EXCEPT !.im = moved], dir, Listing)

EnsureMutablePath(im, p) ==
    LET upTo[k \in 0..Len(p)] ==
            IF k = 0 THEN CopyRoot(Running(im)) ELSE CopyComponent(upTo[k - 1], p[k])
    IN upTo[Len(p)]

\* A changed directory: its entries and its block.
WithEntry(c, dir, name, i) ==
    IF ~c.ok THEN c
    ELSE SetFileData([c EXCEPT !.im.node[dir].ents = With(@, name, i)], dir, Listing)

WithoutEntry(c, dir, name) ==
    IF ~c.ok THEN c
    ELSE SetFileData([c EXCEPT !.im.node[dir].ents = Without(@, name)], dir, Listing)

Released(c, open, i) ==
    IF ~c.ok THEN c ELSE [c EXCEPT !.im = ReleaseInode(c.im, open, i)]

----------------------------------------------------------------------------
\* Terminals.

Held(t) == {fds[t][f].ino : f \in DOMAIN fds[t]}     \* openCount > 0 in t

\* Mutant: a mutation that starts from the memory a failed command has left.
NotReloaded(t) == mem[t]

\* The reload under the transaction lock: what a mutation starts from.
Reloaded(t) == vol

\* A save that reaches the volume; everybody else reloads before reading again.
Save(im) ==
    /\ vol' = im
    /\ mem' = [u \in Terminal |-> im]

Finish(t, c) ==
    \/ c.ok /\ Save(c.im)
    \/ ~c.ok /\ mem' = [mem EXCEPT ![t] = c.im] /\ UNCHANGED vol

\* resolve(p, false) finds the directory but not the name.
Absent(im, p) == p # <<>> /\ IsDir(im, Lookup(im, Front(p))) /\ Lookup(im, p) = 0

NewFile == [dir |-> FALSE, ents |-> <<>>, up |-> 0, ref |-> 1, pend |-> FALSE, blk |-> 0]
NewDir(parent) == [NewFile EXCEPT !.dir = TRUE, !.up = parent]

Mkdir(t, p) ==
    LET im     == Reloaded(t)
        c      == EnsureMutablePath(im, Front(p))
        new    == AllocateInode(c, NewDir(c.at))
        listed == IF new.ok THEN SetFileData(new, new.at, Listing) ELSE new
    IN /\ Absent(im, p)
       /\ Finish(t, WithEntry(listed, c.at, Last(p), new.at))
       /\ UNCHANGED fds

Create(t, p) ==
    LET im  == Reloaded(t)
        c   == EnsureMutablePath(im, Front(p))
        new == AllocateInode(c, NewFile)
    IN /\ Absent(im, p)
       /\ Finish(t, WithEntry(new, c.at, Last(p), new.at))
       /\ UNCHANGED fds

Copy(t, src, p) ==
    LET im  == Reloaded(t)
        c   == EnsureMutablePath(im, Front(p))
        new == IF c.ok THEN CloneInode(c, Lookup(c.im, src)) ELSE c
    IN /\ IsFile(im, Lookup(im, src)) /\ Absent(im, p)
       /\ Finish(t, WithEntry(new, c.at, Last(p), new.at))
       /\ UNCHANGED fds

Rmdir(t, p) ==
    LET im == Reloaded(t)
        i  == Lookup(im, p)
        c  == EnsureMutablePath(im, Front(p))
    IN /\ p # <<>> /\ IsDir(im, i) /\ DOMAIN im.node[i].ents = {}
       /\ Finish(t, Released(WithoutEntry(c, c.at, Last(p)), Held(t), i))
       /\ UNCHANGED fds

\* Mutant: a deletion that does not look at the open files.
DeleteAtOnce(t, p) ==
    LET im == Reloaded(t)
        c  == EnsureMutablePath(im, Front(p))
    IN /\ IsFile(im, Lookup(im, p))
       /\ Finish(t, Released(WithoutEntry(c, c.at, Last(p)), {}, Lookup(im, p)))
       /\ UNCHANGED fds

\* A file that is open here only loses its entry; the last close releases it.
Delete(t, p) ==
    LET im   == Reloaded(t)
        i    == Lookup(im, p)
        c    == EnsureMutablePath(im, Front(p))
        gone == WithoutEntry(c, c.at, Last(p))
    IN /\ IsFile(im, i)
       /\ Finish(t, IF ~gone.ok THEN gone
                    ELSE IF i \in Held(t) THEN [gone EXCEPT !.im.node[i].pend = TRUE]
                    ELSE Released(gone, {}, i))
       /\ UNCHANGED fds

\* truncate by path (a directory is not refused) and, with the fd kept on its
\* inode, what chmod, chown, chgroup and acl do to the tree.
TruncatePath(t, p, d) ==
    LET im == Reloaded(t)
        c  == EnsureMutablePath(im, p)
    IN /\ Has(im, Lookup(im, p))
       /\ Finish(t, SetFileData(c, c.at, d))
       /\ UNCHANGED fds

ChangeAttributes(t, p) ==
    /\ Has(Reloaded(t), Lookup(Reloaded(t), p))
    /\ Finish(t, EnsureMutablePath(Reloaded(t), p))
    /\ UNCHANGED fds

----------------------------------------------------------------------------
\* Open files.

Opened(t, f, i, p) ==
    fds' = [fds EXCEPT ![t] = With(@, f, [ino |-> i, path |-> p])]

\* Without "truncate" an open is no mutation: it reads the memory of its terminal.
Open(t, f, p) ==
    LET i == Lookup(mem[t], p) IN
    /\ f \notin DOMAIN fds[t] /\ IsFile(mem[t], i)
    /\ Opened(t, f, i, p)
    /\ UNCHANGED <<vol, mem>>

OpenTruncate(t, f, p) ==
    LET im == Reloaded(t)
        c  == EnsureMutablePath(im, p)
        emptied == SetFileData(c, c.at, Empty)
    IN /\ f \notin DOMAIN fds[t] /\ IsFile(im, Lookup(im, p))
       /\ Finish(t, emptied)
       /\ IF emptied.ok THEN Opened(t, f, c.at, p) ELSE UNCHANGED fds

\* write and truncate by fd go to whatever is at the fd's path by now, and the fd
\* moves there before the blocks are taken.
WriteFd(t, f, d) ==
    LET c == EnsureMutablePath(Reloaded(t), fds[t][f].path)
    IN /\ Finish(t, IF c.ok THEN SetFileData(c, c.at, d) ELSE c)
       /\ fds' = IF c.ok THEN [fds EXCEPT ![t][f].ino = c.at] ELSE fds

\* close and logout: the fds go first, then what waited for the last of them.

\* Mutant: or none does.
AfterNoClose(im, left, i) == im

AfterClose(im, left, i) ==
    IF Has(im, i) /\ im.node[i].pend /\ i \notin left THEN ReleaseInode(im, left, i) ELSE im

Close(t, f) ==
    LET left == {fds[t][g].ino : g \in DOMAIN fds[t] \ {f}}
    IN /\ fds' = [fds EXCEPT ![t] = Without(@, f)]
       /\ Save(AfterClose(Reloaded(t), left, fds[t][f].ino))

Logout(t) ==
    /\ fds' = [fds EXCEPT ![t] = <<>>]
    /\ LET im == Reloaded(t) IN
       Save(ReleaseInodes(im, {}, {i \in Held(t) : Has(im, i) /\ im.node[i].pend}))

\* unmountClean, or a death: what the memory releases is not what is saved.
Exit(t) ==
    /\ fds' = [fds EXCEPT ![t] = <<>>]
    /\ Save(vol)

----------------------------------------------------------------------------
\* Snapshots.

SnapshotCreate(t, s) ==
    LET im == Reloaded(t) IN
    /\ s \notin DOMAIN im.snap
    /\ Save([im EXCEPT !.node[im.root].ref = @ + 1, !.snap = With(@, s, im.root)])
    /\ UNCHANGED fds

\* Mutant: the root that becomes active is not counted.
RollbackUncounted(t, s) ==
    LET im == Reloaded(t) IN
    /\ s \in DOMAIN im.snap
    /\ Save(ReleaseInode([im EXCEPT !.root = im.snap[s]], Held(t), im.root))
    /\ UNCHANGED fds

SnapshotRollback(t, s) ==
    LET im == Reloaded(t) IN
    /\ s \in DOMAIN im.snap
    /\ Save(ReleaseInode([im EXCEPT !.node[im.snap[s]].ref = @ + 1, !.root = im.snap[s]],
                         Held(t), im.root))
    /\ UNCHANGED fds

SnapshotDelete(t, s) ==
    LET im == Reloaded(t) IN
    /\ s \in DOMAIN im.snap
    /\ Save(ReleaseInode([im EXCEPT !.snap = Without(@, s)], Held(t), im.snap[s]))
    /\ UNCHANGED fds

\* flattenTree: every path below an inode.
FlattenTree(im, r) ==
    LET at == [p \in Path |-> LookupFrom(im, r, p)]
    IN [p \in {p \in Path : Has(im, at[p])} |-> at[p]]

----------------------------------------------------------------------------
\* fsck --repair: the count of a block becomes the number of inodes that use it, and
\* a block nobody counts on is free.

FsckRepair(t) ==
    LET im == Reloaded(t)
        counted == [b \in DOMAIN im.block |->
                        IF BlockUsers(im, b) = {} THEN im.block[b]
                        ELSE [im.block[b] EXCEPT !.ref = Cardinality(BlockUsers(im, b))]]
    IN /\ Save([im EXCEPT !.block = Restrict(counted, {b \in DOMAIN counted : counted[b].ref > 0})])
       /\ UNCHANGED fds

----------------------------------------------------------------------------
Init ==
    /\ work \in Workload
    /\ vol = FreshImage
    /\ mem = [t \in Terminal |-> FreshImage]
    /\ fds = [t \in Terminal |-> <<>>]

Given(command) == command \in work.ops

TreeCommands(t) ==
    \E p \in work.paths :
       \/ Given("mkdir") /\ Mkdir(t, p)
       \/ Given("rmdir") /\ Rmdir(t, p)
       \/ Given("create") /\ Create(t, p)
       \/ Given("delete") /\ Delete(t, p)
       \/ Given("chmod") /\ ChangeAttributes(t, p)
       \/ Given("cp") /\ \E q \in work.paths : Copy(t, q, p)
       \/ Given("truncate") /\ \E d \in Data \union {Empty} : TruncatePath(t, p, d)

FileCommands(t) ==
    \/ \E f \in Fd, p \in work.paths : Given("open") /\ Open(t, f, p)
    \/ \E f \in Fd, p \in work.paths : Given("open truncate") /\ OpenTruncate(t, f, p)
    \/ \E f \in DOMAIN fds[t] :
          \/ Given("write") /\ \E d \in Data \union {Empty} : WriteFd(t, f, d)
          \/ Given("close") /\ Close(t, f)
    \/ Given("logout") /\ Logout(t)
    \/ Given("exit") /\ Exit(t)
    \/ Given("fsck --repair") /\ FsckRepair(t)

SnapshotCommands(t) ==
    \E s \in Snap :
       \/ Given("snapshot create") /\ SnapshotCreate(t, s)
       \/ Given("snapshot rollback") /\ SnapshotRollback(t, s)
       \/ Given("snapshot delete") /\ SnapshotDelete(t, s)

Next ==
    /\ \E t \in work.users : TreeCommands(t) \/ FileCommands(t) \/ SnapshotCommands(t)
    /\ UNCHANGED work

Spec == Init /\ [][Next]_vars

----------------------------------------------------------------------------
\* Properties.

ImageOK(im) ==
    /\ im.root \in Inodes
    /\ DOMAIN im.node \subseteq Inodes
    /\ \A i \in DOMAIN im.node :
          /\ im.node[i].blk \in Blocks \union {0}
          /\ im.node[i].ref \in Nat
          /\ \A n \in DOMAIN im.node[i].ents : n \in Name /\ im.node[i].ents[n] \in Inodes
    /\ DOMAIN im.block \subseteq Blocks
    /\ \A b \in DOMAIN im.block : im.block[b].data \in Data \union {Empty, Listing}
    /\ DOMAIN im.snap \subseteq Snap

\* The volume and every terminal's memory are images, and fds are within the limit.
TypeOK ==
    /\ ImageOK(vol)
    /\ \A t \in Terminal :
          /\ ImageOK(mem[t])
          /\ \A f \in DOMAIN fds[t] : f \in Fd /\ fds[t][f].ino \in Inodes

\* What refers to an inode: entries, the active root, snapshots.
Links(im, i) ==
    Cardinality(EntriesTo(im, DOMAIN im.node, i)) + Cardinality({s \in DOMAIN im.snap : im.snap[s] = i})
        + (IF im.root = i THEN 1 ELSE 0)

\* The refcount of an inode is the number of references to it; only an inode whose
\* deletion waits for a close may still count the entry it has lost.
InodeCountsExact ==
    \A i \in DOMAIN vol.node :
       LET n == vol.node[i] IN
       IF n.pend THEN n.ref \in {Links(vol, i), Links(vol, i) + 1} ELSE n.ref = Links(vol, i)

\* The refcount of a block is the number of inodes that share it, and none is lost.
BlockCountsExact ==
    /\ \A b \in DOMAIN vol.block :
          BlockUsers(vol, b) # {} /\ vol.block[b].ref = Cardinality(BlockUsers(vol, b))
    /\ \A b \in Blocks : BlockUsers(vol, b) # {} => b \in DOMAIN vol.block

\* Whatever is shared, copied, rolled back or released, every count is the number of
\* those who share the inode or the block: what fsck checks of them, and more.
CountsExact == InodeCountsExact /\ BlockCountsExact

\* The root, every entry of every directory and every snapshot name an inode that
\* exists: nothing reachable is ever freed.
NothingDangles ==
    /\ vol.root \in DOMAIN vol.node
    /\ \A i \in DOMAIN vol.node, n \in Name :
          n \in DOMAIN vol.node[i].ents => Has(vol, vol.node[i].ents[n])
    /\ \A s \in DOMAIN vol.snap : Has(vol, vol.snap[s])

\* Delayed deletion ends: an inode nothing refers to is open somewhere, and goes
\* with its last close or logout.
OrphansAreOpen ==
    \A i \in DOMAIN vol.node :
       Links(vol, i) = 0 => \E t \in Terminal : i \in Held(t)

\* A file that loses its last reference keeps its data for the fds open on it, in
\* the step that unlinks it and from then on.
UnlinkedDataKept ==
    [][\A t \in Terminal : \A f \in DOMAIN fds[t] \intersect DOMAIN fds'[t] :
          LET i == fds[t][f].ino IN
          fds'[t][f] = fds[t][f] /\ Has(vol, i) /\ 0 \in {Links(vol, i), Links(vol', i)}
             => Has(vol', i) /\ ReadInode(vol', i) = ReadInode(vol, i)]_vars

\* The tree below an inode as a reader sees it.
View(im, r) ==
    LET flat == FlattenTree(im, r) IN
    [p \in DOMAIN flat |-> IF im.node[flat[p]].dir THEN Listing ELSE ReadInode(im, flat[p])]

SnapView(im) == [s \in DOMAIN im.snap |-> View(im, im.snap[s])]

\* close, logout and fsck --repair save the whole image without a transaction: they
\* change neither the live tree nor a snapshot, also right after a command that
\* failed half way and left its work in memory.
DirectSavesKeepTree ==
    [][\A t \in Terminal :
          (\E f \in DOMAIN fds[t] : Close(t, f)) \/ Logout(t) \/ FsckRepair(t)
             => View(vol', vol'.root) = View(vol, vol.root) /\ SnapView(vol') = SnapView(vol)]_vars

\* Copy-on-write is invisible: a command changes the live tree at one path and no
\* snapshot at all, and a command that fails changes nothing.
Store == INSTANCE SnapshotStore
    WITH tree <- View(vol, vol.root), snaps <- SnapView(vol), Folder <- Listing

RefinesSnapshotStore == Store!Spec

=============================================================================
