------------------------ MODULE SnapshotStore_proofs ------------------------
\* The trees of SnapshotStore hang together, for every set of paths and snapshots.
EXTENDS SnapshotStore, SequenceTheorems, TLAPS

\* A path is no descendant of itself, and every path extends its parent.
LEMMA ParentIsPrefix ==
    ASSUME StoreAssumption, NEW q \in Path, q # <<>>
    PROVE  IsPrefix(Front(q), q) /\ Front(q) # q
<1>1. q \in Seq(Name) /\ Len(q) >= 1
  BY DEF StoreAssumption
<1>2. Front(q) \in Seq(Name) /\ Len(Front(q)) = Len(q) - 1
  <2>1. \A i \in 1..(Len(q) - 1) : q[i] \in Name
    BY <1>1
  <2>2. Len(q) - 1 \in Int /\ 1 \in Int /\ 1 <= Len(q)
    BY <1>1
  <2>3. /\ SubSeq(q, 1, Len(q) - 1) \in Seq(Name)
        /\ Len(SubSeq(q, 1, Len(q) - 1)) = IF 1 <= Len(q) - 1 THEN Len(q) - 1 - 1 + 1 ELSE 0
    BY <2>1, <2>2, SubSeqProperties
  <2>4. Front(q) = SubSeq(q, 1, Len(q) - 1)
    BY DEF Front
  <2>5. Len(q) \in Nat
    BY <1>1
  <2>6. (IF 1 <= Len(q) - 1 THEN Len(q) - 1 - 1 + 1 ELSE 0) = Len(q) - 1
    <3>1. \A n \in Nat : 1 <= n => (IF 1 <= n - 1 THEN n - 1 - 1 + 1 ELSE 0) = n - 1
      OBVIOUS
    <3> QED
      BY <2>5, <2>2, <3>1
  <2> QED
    BY <2>3, <2>4, <2>6
<1>3. SubSeq(Front(q), 1, Len(Front(q))) = SubSeq(q, 1, Len(Front(q)))
  BY <1>1, <1>2, SubSeqFull DEF Front
<1> QED
  BY <1>1, <1>2, <1>3 DEF IsPrefix

\* A new path under a directory.
LEMMA AddKeeps ==
    ASSUME NEW t, HangsTogether(t), NEW p \in Path, p \notin DOMAIN t, p # <<>>,
           Front(p) \in DOMAIN t, t[Front(p)] = Folder, NEW c
    PROVE  HangsTogether(Extended(t, p, c))
<1> DEFINE u == Extended(t, p, c)
<1>1. DOMAIN u = DOMAIN t \union {p} /\ \A q \in DOMAIN t : u[q] = t[q]
  BY DEF Extended
<1>2. ASSUME NEW q \in DOMAIN u \ {<<>>}
      PROVE  Front(q) \in DOMAIN u /\ u[Front(q)] = Folder
  <2>1. Front(q) \in DOMAIN t /\ t[Front(q)] = Folder
    BY <1>1, <1>2 DEF HangsTogether
  <2> QED
    BY <2>1, <1>1
<1> QED
  BY <1>1, <1>2 DEF HangsTogether

\* A path with nothing below it goes.
LEMMA RemoveKeeps ==
    ASSUME StoreAssumption, NEW t, HangsTogether(t), NEW p \in DOMAIN t \ {<<>>},
           \A q \in DOMAIN t : IsPrefix(p, q) => q = p
    PROVE  HangsTogether(Restrict(t, DOMAIN t \ {p}))
<1> DEFINE u == Restrict(t, DOMAIN t \ {p})
<1>1. DOMAIN u = DOMAIN t \ {p} /\ \A q \in DOMAIN u : u[q] = t[q]
  BY DEF Restrict
<1>2. ASSUME NEW q \in DOMAIN u \ {<<>>}
      PROVE  Front(q) \in DOMAIN u /\ u[Front(q)] = Folder
  <2>1. q \in Path /\ Front(q) \in DOMAIN t /\ t[Front(q)] = Folder
    BY <1>1, <1>2 DEF HangsTogether
  <2>2. Front(q) # p
    BY <2>1, <1>1, <1>2, ParentIsPrefix
  <2> QED
    BY <2>1, <2>2, <1>1
<1> QED
  BY <1>1, <1>2 DEF HangsTogether

\* A file's content changes and stays a file's.
LEMMA UpdateKeeps ==
    ASSUME NEW t, HangsTogether(t), NEW p \in DOMAIN t, t[p] # Folder, NEW c
    PROVE  HangsTogether([t EXCEPT ![p] = c])
BY DEF HangsTogether

\* No command and no rollback leaves a path without its directory.
THEOREM NoStrayPathsHolds ==
    ASSUME StoreAssumption
    PROVE  Spec => []NoStrayPaths
<1>1. Init => NoStrayPaths
  BY DEF StoreAssumption, Init, NoStrayPaths, HangsTogether
<1>2. NoStrayPaths /\ [Next]_storeVars => NoStrayPaths'
  <2> SUFFICES ASSUME NoStrayPaths, [Next]_storeVars PROVE NoStrayPaths'
    OBVIOUS
  <2>1. ASSUME NEW p \in Path, RemovePath(p) PROVE NoStrayPaths'
    BY <2>1, RemoveKeeps DEF RemovePath, NoStrayPaths
  <2>2. ASSUME NEW p \in Path, NEW c \in Content, Update(p, c) PROVE NoStrayPaths'
    BY <2>2, UpdateKeeps DEF Update, IsFolder, NoStrayPaths
  <2>3. ASSUME NEW p \in Path, NEW c, Add(p, c) PROVE NoStrayPaths'
    BY <2>3, AddKeeps DEF Add, IsFolder, NoStrayPaths
  <2>4. ASSUME NEW p \in Path, NEW q \in Path, Copy(p, q) PROVE NoStrayPaths'
    BY <2>4, <2>3 DEF Copy
  <2>5. ASSUME NEW s \in Snap, TakeSnapshot(s) PROVE NoStrayPaths'
    <3>1. /\ tree' = tree /\ DOMAIN snaps' = DOMAIN snaps \union {s}
          /\ snaps'[s] = tree /\ \A r \in DOMAIN snaps : snaps'[r] = snaps[r]
      BY <2>5 DEF TakeSnapshot, Extended
    <3> QED
      BY <3>1 DEF NoStrayPaths
  <2>6. ASSUME NEW s \in Snap, Rollback(s) PROVE NoStrayPaths'
    BY <2>6 DEF Rollback, NoStrayPaths
  <2>7. ASSUME NEW s \in Snap, DropSnapshot(s) PROVE NoStrayPaths'
    BY <2>7 DEF DropSnapshot, Restrict, NoStrayPaths
  <2>8. CASE UNCHANGED storeVars
    BY <2>8 DEF storeVars, NoStrayPaths
  <2> QED
    BY <2>1, <2>2, <2>3, <2>4, <2>5, <2>6, <2>7, <2>8 DEF Next
<1> QED
  BY <1>1, <1>2, PTL DEF Spec

=============================================================================
