--------------------------- MODULE SnapshotStore ---------------------------
\* What the copy-on-write tree of src/src/kernel.cpp promises: one live tree and
\* a set of named snapshots, each of them a value.  A mutation changes the live
\* tree at one path; a snapshot is taken whole, comes back whole, and is changed
\* by nothing.  Inodes, blocks and reference counts are not visible here.
EXTENDS Sequences, SequencesExt

CONSTANTS Path,     \* absolute paths, sequences of names; <<>> is "/"
          Snap,     \* names of snapshots
          Data,     \* contents of a file
          Empty,    \* the content of a file that has none
          Folder    \* what a directory holds, apart from its entries

Name == UNION {ToSet(p) : p \in Path}

StoreAssumption == /\ <<>> \in Path /\ Path \subseteq Seq(Name)
                          /\ Empty \notin Data \union {Folder}
                          /\ Folder \notin Data

VARIABLES tree,     \* the live tree: existing path -> content
          snaps     \* existing snapshot -> tree

storeVars == <<tree, snaps>>

Content == Data \union {Empty}

Init ==
    /\ tree = [p \in {<<>>} |-> Folder]
    /\ snaps = [s \in {} |-> tree]

IsFolder(p) == p \in DOMAIN tree /\ tree[p] = Folder

\* t with c at p.
Extended(t, p, c) == [q \in DOMAIN t \union {p} |-> IF q = p THEN c ELSE t[q]]

\* mkdir, create and cp: one more path, under an existing directory.
Add(p, c) ==
    /\ p \notin DOMAIN tree
    /\ p # <<>> /\ IsFolder(Front(p))
    /\ tree' = Extended(tree, p, c)
    /\ UNCHANGED snaps

\* cp: the new file reads as the source does now.
Copy(p, q) ==
    /\ p \in DOMAIN tree /\ ~IsFolder(p)
    /\ Add(q, tree[p])

\* rmdir and delete: a path with nothing below it disappears.
RemovePath(p) ==
    /\ p \in DOMAIN tree \ {<<>>}
    /\ \A q \in DOMAIN tree : IsPrefix(p, q) => q = p
    /\ tree' = Restrict(tree, DOMAIN tree \ {p})
    /\ UNCHANGED snaps

\* write and truncate: one file has a new content.
Update(p, c) ==
    /\ p \in DOMAIN tree /\ ~IsFolder(p)
    /\ tree' = [tree EXCEPT ![p] = c]
    /\ UNCHANGED snaps

TakeSnapshot(s) ==
    /\ s \notin DOMAIN snaps
    /\ snaps' = Extended(snaps, s, tree)
    /\ UNCHANGED tree

Rollback(s) ==
    /\ s \in DOMAIN snaps
    /\ tree' = snaps[s]
    /\ UNCHANGED snaps

DropSnapshot(s) ==
    /\ s \in DOMAIN snaps
    /\ snaps' = Restrict(snaps, DOMAIN snaps \ {s})
    /\ UNCHANGED tree

Next ==
    \/ \E p \in Path :
          \/ RemovePath(p)
          \/ \E c \in Content : Update(p, c)
          \/ \E c \in {Empty, Folder} : Add(p, c)
          \/ \E q \in Path : Copy(p, q)
    \/ \E s \in Snap : TakeSnapshot(s) \/ Rollback(s) \/ DropSnapshot(s)

Spec == Init /\ [][Next]_storeVars

----------------------------------------------------------------------------
\* The paths of a tree hang together: each one's parent is a directory.
HangsTogether(t) ==
    /\ DOMAIN t \subseteq Path
    /\ <<>> \in DOMAIN t /\ t[<<>>] = Folder
    /\ \A p \in DOMAIN t \ {<<>>} : Front(p) \in DOMAIN t /\ t[Front(p)] = Folder

\* No command and no rollback leaves a path without its directory, in the live tree
\* or in a snapshot: what resolve (kernel.cpp) relies on when it walks down a path.
NoStrayPaths ==
    /\ HangsTogether(tree)
    /\ \A s \in DOMAIN snaps : HangsTogether(snaps[s])

=============================================================================
