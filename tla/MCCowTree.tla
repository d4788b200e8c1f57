----------------------------- MODULE MCCowTree -----------------------------
\* The workloads of the instances of CowTree.
EXTENDS CowTree, TLC

CONSTANTS t1, t2,        \* terminals
          name, other    \* names

OneFile == {<<>>, <<name>>}
TwoFiles == {<<>>, <<name>>, <<other>>}
Nested == {<<>>, <<name>>, <<name, other>>}
AllPaths == TwoFiles \union Nested

SnapshotOps == {"snapshot create", "snapshot rollback", "snapshot delete"}
FileOps == {"open", "open truncate", "write", "close", "logout"}

\* Directories, files and a snapshot, nested; no open files, no data.
Shape == [users |-> {t1}, paths |-> Nested, inodes |-> 6, blocks |-> 6,
          ops |-> {"mkdir", "rmdir", "create", "delete"} \union SnapshotOps]

\* Files that share blocks through cp and a snapshot.
Sharing == [users |-> {t1}, paths |-> TwoFiles, inodes |-> 4, blocks |-> 3,
            ops |-> {"create", "cp", "truncate", "snapshot create", "snapshot delete"}]

\* Commands that run out of inodes and blocks half way, and those that save without
\* a transaction right after.
Failing == [users |-> {t1}, paths |-> OneFile, inodes |-> 4, blocks |-> 3,
            ops |-> {"create", "truncate", "chmod", "logout", "fsck --repair",
                     "snapshot create", "snapshot delete"}]

\* Open files that are deleted and created again; no fd moves to another file.
Unlinking == [users |-> {t1}, paths |-> OneFile, inodes |-> 4, blocks |-> 4,
              ops |-> {"create", "delete", "truncate", "open", "close", "logout",
                       "fsck --repair"}]

\* The same with a snapshot that shares the file and never comes back.
Holding == [users |-> {t1}, paths |-> OneFile, inodes |-> 5, blocks |-> 3,
            ops |-> {"create", "delete", "open", "close",
                     "snapshot create", "snapshot delete"}]

\* Open files under rollback: none is deleted.
RollingBack == [users |-> {t1}, paths |-> OneFile, inodes |-> 4, blocks |-> 4,
                ops |-> {"create", "chmod", "open", "close"} \union SnapshotOps]

\* Open files of two terminals, none of which loses its last reference.
TwoTerminals == [users |-> {t1, t2}, paths |-> OneFile, inodes |-> 4, blocks |-> 4,
                 ops |-> {"create", "truncate", "exit", "snapshot create"} \union FileOps]

\* An open file is deleted and a snapshot of it comes back.
Revival == [users |-> {t1}, paths |-> OneFile, inodes |-> 6, blocks |-> 6,
            ops |-> {"create", "delete", "open", "close"} \union SnapshotOps]

AllButRevival == {Shape, Sharing, Failing, Unlinking, Holding, RollingBack, TwoTerminals}
RevivalOnly == {Revival}

\* The memory of a terminal is read by an open, and written back by a fsck
\* --repair that did not reload.
WithoutMemory ==
    <<vol, fds, work, IF Given("open") \/ Given("fsck --repair") THEN mem ELSE 0>>

FdsAlike == Permutations(Fd)

ASSUME StoreOfCowTree == Store!StoreAssumption

=============================================================================
