--------------------------- MODULE CowTree_proofs ---------------------------
(***************************************************************************)
(* The tree of the volume for every number of inodes, blocks, terminals,   *)
(* fds, paths, names and snapshots: images keep their shape, every count   *)
(* is that of the links and users, nothing that is named is freed, and     *)
(* what nothing names any more is open.                                    *)
(*                                                                         *)
(* First images by themselves: what is counted (Counted), and what each    *)
(* helper does to the counts, from ReleaseBlock and AllocateInode to       *)
(* EnsureMutablePath and ReleaseInodes.  Then what each command does with  *)
(* an image (Ends, Follows), and last what it does to the volume, the      *)
(* memories and the fds (Moves), and the theorems.                         *)
(***************************************************************************)
EXTENDS CowTree, IntervalInduction, FiniteSetTheorems, SequenceTheorems, TLAPS

-----------------------------------------------------------------------------
\* The types of an image.

Tables(K, V) == UNION {[D -> V] : D \in SUBSET K}
Content == Data \union {Empty, Listing}

NodeSet == [dir : BOOLEAN, ents : Tables(Name, Inodes), up : Nat, ref : Nat,
            pend : BOOLEAN, blk : Blocks \union {0}]
BlockSet == [ref : Nat, data : Content]
Image == [root : Inodes, node : Tables(Inodes, NodeSet),
          block : Tables(Blocks, BlockSet), snap : Tables(Snap, Inodes)]
Command == [im : Image, at : Inodes, ok : BOOLEAN]

LEMMA InTables ==
    \A f, K, V : f \in Tables(K, V) <=> DOMAIN f \subseteq K /\ f \in [DOMAIN f -> V]
BY DEF Tables

LEMMA EmptyTable ==
    /\ DOMAIN <<>> = {}
    /\ \A K, V : <<>> \in Tables(K, V)
<1>1. DOMAIN <<>> = 1..Len(<<>>)
  <2>1. <<>> \in Seq(Nat)
    OBVIOUS
  <2> QED
    BY <2>1, LenProperties
<1>2. Len(<<>>) = 0
  OBVIOUS
<1>3. 1..0 = {}
  OBVIOUS
<1>4. DOMAIN <<>> = {}
  BY <1>1, <1>2, <1>3
<1>5. ASSUME NEW K, NEW V PROVE <<>> \in Tables(K, V)
  BY DEF Tables
<1> QED
  BY <1>4, <1>5

LEMMA WithInTables ==
    ASSUME NEW K, NEW V, NEW f \in Tables(K, V), NEW x \in K, NEW v \in V
    PROVE  With(f, x, v) \in Tables(K, V)
<1>1. DOMAIN f \subseteq K /\ f \in [DOMAIN f -> V]
  BY InTables
<1>2. With(f, x, v) \in [DOMAIN f \union {x} -> V] /\ DOMAIN f \union {x} \subseteq K
  BY <1>1 DEF With
<1> QED
  BY <1>2 DEF Tables

LEMMA RestrictInTables ==
    ASSUME NEW K, NEW V, NEW f \in Tables(K, V), NEW D, D \subseteq DOMAIN f
    PROVE  Restrict(f, D) \in Tables(K, V)
<1>1. DOMAIN f \subseteq K /\ f \in [DOMAIN f -> V]
  BY InTables
<1>2. Restrict(f, D) \in [D -> V] /\ D \subseteq K
  BY <1>1 DEF Restrict
<1> QED
  BY <1>2 DEF Tables

LEMMA ExceptInTables ==
    ASSUME NEW K, NEW V, NEW f \in Tables(K, V), NEW x \in DOMAIN f, NEW v \in V
    PROVE  [f EXCEPT ![x] = v] \in Tables(K, V)
<1>1. DOMAIN f \subseteq K /\ f \in [DOMAIN f -> V]
  BY InTables
<1>2. [f EXCEPT ![x] = v] \in [DOMAIN f -> V]
  BY <1>1
<1> QED
  BY <1>1, <1>2 DEF Tables

LEMMA CommandUpdates ==
    ASSUME NEW c \in Command
    PROVE  /\ c = [im |-> c.im, at |-> c.at, ok |-> c.ok]
           /\ c.im \in Image /\ c.at \in Inodes /\ c.ok \in BOOLEAN
           /\ \A x : [c EXCEPT !.im = x] = [im |-> x, at |-> c.at, ok |-> c.ok]
           /\ \A x : [c EXCEPT !.at = x] = [im |-> c.im, at |-> x, ok |-> c.ok]
           /\ \A x : [c EXCEPT !.ok = x] = [im |-> c.im, at |-> c.at, ok |-> x]
           /\ \A x, y : [c EXCEPT !.at = x, !.im = y] = [im |-> y, at |-> x, ok |-> c.ok]
           /\ \A x, y : [c EXCEPT !.im = x, !.ok = y] = [im |-> x, at |-> c.at, ok |-> y]
<1> DEFINE A == Image
           B == Inodes
           C == BOOLEAN
<1>0. c \in [im : A, at : B, ok : C]
  BY DEF Command
<1>6. c = [im |-> c.im, at |-> c.at, ok |-> c.ok] /\ c.im \in Image /\ c.at \in Inodes /\ c.ok \in BOOLEAN
  BY DEF Command
<1> HIDE DEF A, B, C
<1>1. ASSUME NEW x PROVE [c EXCEPT !.im = x] = [im |-> x, at |-> c.at, ok |-> c.ok]
  BY ONLY <1>0
<1>2. ASSUME NEW x PROVE [c EXCEPT !.at = x] = [im |-> c.im, at |-> x, ok |-> c.ok]
  BY ONLY <1>0
<1>3. ASSUME NEW x PROVE [c EXCEPT !.ok = x] = [im |-> c.im, at |-> c.at, ok |-> x]
  BY ONLY <1>0
<1>4. ASSUME NEW x, NEW y
      PROVE  [c EXCEPT !.at = x, !.im = y] = [im |-> y, at |-> x, ok |-> c.ok]
  <2> DEFINE d == [c EXCEPT !.at = x]
  <2>1. [c EXCEPT !.at = x, !.im = y] = [d EXCEPT !.im = y]
    BY ONLY <1>0
  <2> HIDE DEF d
  <2>2. d \in [im : A, at : {x}, ok : C] /\ d.at = x /\ d.ok = c.ok
    BY ONLY <1>0, <1>2 DEF d
  <2>3. [d EXCEPT !.im = y] = [im |-> y, at |-> d.at, ok |-> d.ok]
    BY <2>2
  <2> QED
    BY <2>1, <2>2, <2>3
<1>5. ASSUME NEW x, NEW y
      PROVE  [c EXCEPT !.im = x, !.ok = y] = [im |-> x, at |-> c.at, ok |-> y]
  <2> DEFINE d == [c EXCEPT !.im = x]
  <2>1. [c EXCEPT !.im = x, !.ok = y] = [d EXCEPT !.ok = y]
    BY ONLY <1>0
  <2> HIDE DEF d
  <2>2. d \in [im : {x}, at : B, ok : C] /\ d.im = x /\ d.at = c.at
    BY ONLY <1>0, <1>1 DEF d
  <2>3. [d EXCEPT !.ok = y] = [im |-> d.im, at |-> d.at, ok |-> y]
    BY <2>2
  <2> QED
    BY <2>1, <2>2, <2>3
<1> QED
  BY ONLY <1>1, <1>2, <1>3, <1>4, <1>5, <1>6

\* A workload of a behaviour, and the sets that depend on it.
WorkOK == CowAssumption /\ work \in Workload

LEMMA Sizes ==
    ASSUME WorkOK
    PROVE  /\ Inodes \subseteq Nat \ {0} /\ IsFiniteSet(Inodes) /\ 1 \in Inodes
           /\ Blocks \subseteq Nat \ {0} /\ IsFiniteSet(Blocks) /\ 1 \in Blocks
           /\ IsFiniteSet(Snap)
<1>1. work.inodes \in Nat \ {0} /\ work.blocks \in Nat \ {0} /\ IsFiniteSet(Snap)
  BY DEF WorkOK, CowAssumption
<1>2. IsFiniteSet(1..work.inodes) /\ IsFiniteSet(1..work.blocks)
  <2>1. 1 \in Int /\ work.inodes \in Int /\ work.blocks \in Int
    BY <1>1
  <2> QED
    BY <2>1, FS_Interval
<1> QED
  BY <1>1, <1>2 DEF Inodes, Blocks

LEMMA NamesAreFinite ==
    ASSUME CowAssumption
    PROVE  IsFiniteSet(Name)
<1> DEFINE names == [p \in Path |-> ToSet(p)]
<1>1. \A p \in Path : p \in Seq(Name)
  BY DEF CowAssumption
<1>2. ASSUME NEW p \in Path PROVE IsFiniteSet(ToSet(p))
  <2>1. Len(p) \in Nat /\ p \in [1..Len(p) -> Name] /\ DOMAIN p = 1..Len(p)
    BY <1>1, LenProperties
  <2>2. p \in Surjection(1..Len(p), ToSet(p))
    BY <2>1 DEF Surjection, ToSet
  <2> QED
    BY <2>1, <2>2, FS_Interval, FS_Surjection
<1>3. names \in Surjection(Path, {ToSet(p) : p \in Path})
  BY DEF Surjection
<1>4. IsFiniteSet({ToSet(p) : p \in Path})
  BY <1>3, FS_Surjection DEF CowAssumption
<1> QED
  BY <1>2, <1>4, FS_UNION DEF Name

LEMMA MinIsLeast ==
    ASSUME NEW S, S \subseteq Nat, S # {}
    PROVE  Min(S) \in S
<1>1. \E x \in S : \A y \in S : x <= y
  BY LeastElement
<1> QED
  BY <1>1 DEF Min

LEMMA ImageFields ==
    ASSUME NEW im \in Image
    PROVE  /\ im = [root |-> im.root, node |-> im.node, block |-> im.block, snap |-> im.snap]
           /\ im.root \in Inodes
           /\ DOMAIN im.node \subseteq Inodes /\ im.node \in [DOMAIN im.node -> NodeSet]
           /\ DOMAIN im.block \subseteq Blocks /\ im.block \in [DOMAIN im.block -> BlockSet]
           /\ DOMAIN im.snap \subseteq Snap /\ im.snap \in [DOMAIN im.snap -> Inodes]
<1>1. /\ im.root \in Inodes /\ im.node \in Tables(Inodes, NodeSet)
      /\ im.block \in Tables(Blocks, BlockSet) /\ im.snap \in Tables(Snap, Inodes)
      /\ im = [root |-> im.root, node |-> im.node, block |-> im.block, snap |-> im.snap]
  BY DEF Image
<1> QED
  BY <1>1, InTables

LEMMA NodeFields ==
    ASSUME NEW n \in NodeSet
    PROVE  /\ n.dir \in BOOLEAN /\ n.up \in Nat /\ n.ref \in Nat /\ n.pend \in BOOLEAN
           /\ n.blk \in Blocks \union {0}
           /\ DOMAIN n.ents \subseteq Name /\ n.ents \in [DOMAIN n.ents -> Inodes]
           /\ n = [dir |-> n.dir, ents |-> n.ents, up |-> n.up, ref |-> n.ref,
                   pend |-> n.pend, blk |-> n.blk]
<1>1. n.ents \in Tables(Name, Inodes)
  BY DEF NodeSet
<1>2. /\ n.dir \in BOOLEAN /\ n.up \in Nat /\ n.ref \in Nat /\ n.pend \in BOOLEAN
      /\ n.blk \in Blocks \union {0}
      /\ n = [dir |-> n.dir, ents |-> n.ents, up |-> n.up, ref |-> n.ref,
              pend |-> n.pend, blk |-> n.blk]
  BY DEF NodeSet
<1> QED
  BY <1>1, <1>2, InTables

-----------------------------------------------------------------------------
\* Counted blocks: the table knows exactly the blocks that are used, each with the
\* number of its users.  Apart from inode i: i is not looked at.

UsersApart(im, i, b) == BlockUsers(im, b) \ {i}

CountsUsers(table, im, i) ==
    /\ table \in Tables(Blocks, BlockSet)
    /\ \A b \in Blocks :
          IF UsersApart(im, i, b) = {} THEN b \notin DOMAIN table
          ELSE b \in DOMAIN table /\ table[b].ref = Cardinality(UsersApart(im, i, b))

BlocksCounted(im) == CountsUsers(im.block, im, 0)

LEMMA UsersAreFinite ==
    ASSUME WorkOK, NEW im \in Image, NEW b, NEW i
    PROVE  IsFiniteSet(BlockUsers(im, b)) /\ IsFiniteSet(UsersApart(im, i, b))
<1>1. BlockUsers(im, b) \subseteq Inodes /\ UsersApart(im, i, b) \subseteq Inodes
  BY ImageFields DEF BlockUsers, UsersApart
<1> QED
  BY <1>1, Sizes, FS_Subset

\* A block after one user has let go.
LEMMA ReleaseBlockOK ==
    ASSUME WorkOK, NEW im \in Image, NEW i \in DOMAIN im.node
    PROVE  LET r == ReleaseBlock(im, im.node[i].blk) IN
           /\ r \in Image /\ r = [im EXCEPT !.block = r.block]
           /\ BlocksCounted(im) => CountsUsers(r.block, im, i)
<1> DEFINE b == im.node[i].blk
           r == ReleaseBlock(im, b)
<1>1. /\ im.block \in Tables(Blocks, BlockSet) /\ DOMAIN im.block \subseteq Blocks
      /\ \A c \in DOMAIN im.block : im.block[c].ref \in Nat /\ im.block[c] \in BlockSet
      /\ b \in Blocks \union {0}
  <2>1. im.node[i] \in NodeSet
    BY ImageFields
  <2>2. /\ im.block \in Tables(Blocks, BlockSet) /\ DOMAIN im.block \subseteq Blocks
        /\ \A c \in DOMAIN im.block : im.block[c] \in BlockSet
    BY ImageFields, InTables DEF Image
  <2>3. \A c \in DOMAIN im.block : im.block[c].ref \in Nat
    BY <2>2 DEF BlockSet
  <2> QED
    BY <2>1, <2>2, <2>3, NodeFields
<1>2. i # 0 /\ 0 \notin Blocks /\ 0 \notin DOMAIN im.node
  BY Sizes, ImageFields
<1>3. ASSUME NEW c PROVE UsersApart(im, 0, c) = BlockUsers(im, c)
  BY <1>2 DEF UsersApart, BlockUsers
<1>4. i \in BlockUsers(im, b)
  BY DEF BlockUsers
<1>5. ASSUME NEW c, c # b PROVE UsersApart(im, i, c) = BlockUsers(im, c)
  BY <1>5 DEF UsersApart, BlockUsers
<1>6. Cardinality(BlockUsers(im, b)) \in Nat
      /\ Cardinality(UsersApart(im, i, b)) = Cardinality(BlockUsers(im, b)) - 1
      /\ (Cardinality(UsersApart(im, i, b)) = 0 <=> UsersApart(im, i, b) = {})
      /\ Cardinality(UsersApart(im, i, b)) \in Nat
  BY <1>4, UsersAreFinite, FS_RemoveElement, FS_CardinalityType, FS_EmptySet DEF UsersApart
<1>7. CASE b \notin DOMAIN im.block
  <2>1. r = im /\ im = [im EXCEPT !.block = im.block]
    <3>1. im = [im EXCEPT !.block = im.block]
      BY DEF Image
    <3> QED
      BY <1>7, <3>1 DEF ReleaseBlock
  <2>2. ASSUME BlocksCounted(im) PROVE CountsUsers(im.block, im, i)
    <3>1. b = 0
      BY <1>1, <1>3, <1>4, <1>7, <2>2 DEF BlocksCounted, CountsUsers
    <3> QED
      BY <1>1, <1>2, <1>3, <1>5, <2>2, <3>1 DEF BlocksCounted, CountsUsers
  <2> HIDE DEF r, b
  <2> QED
    BY <2>1, <2>2 DEF r, b
<1>8. CASE b \in DOMAIN im.block /\ im.block[b].ref > 1
  <2> DEFINE v == [im.block[b] EXCEPT !.ref = @ - 1]
             table == [im.block EXCEPT ![b] = v]
  <2>1. v \in BlockSet /\ v.ref = im.block[b].ref - 1
    BY <1>1, <1>8 DEF BlockSet
  <2>2. r = [im EXCEPT !.block = table]
    BY <1>8 DEF ReleaseBlock, Image
  <2>3. /\ table \in Tables(Blocks, BlockSet) /\ DOMAIN table = DOMAIN im.block
        /\ table[b].ref = im.block[b].ref - 1
        /\ \A c \in DOMAIN im.block : c # b => table[c] = im.block[c]
    <3> HIDE DEF v
    <3>1. DOMAIN table = DOMAIN im.block /\ table[b] = v
          /\ \A c \in DOMAIN im.block : c # b => table[c] = im.block[c]
      BY <1>1, <1>8
    <3> QED
      BY <1>1, <1>8, <2>1, <3>1, ExceptInTables
  <2> HIDE DEF table, v
  <2>4. ASSUME BlocksCounted(im) PROVE CountsUsers(table, im, i)
    <3>1. ASSUME NEW c \in Blocks, c # b
          PROVE  IF UsersApart(im, i, c) = {} THEN c \notin DOMAIN table
                 ELSE c \in DOMAIN table /\ table[c].ref = Cardinality(UsersApart(im, i, c))
      BY <1>3, <1>5, <2>3, <2>4, <3>1 DEF BlocksCounted, CountsUsers
    <3>2. im.block[b].ref = Cardinality(BlockUsers(im, b)) /\ b \in Blocks
      BY <1>1, <1>3, <1>4, <1>8, <2>4 DEF BlocksCounted, CountsUsers
    <3>3. UsersApart(im, i, b) # {}
      BY <1>6, <1>8, <3>2
    <3> QED
      BY <1>6, <1>8, <2>3, <3>1, <3>2, <3>3 DEF CountsUsers
  <2>5. r \in Image /\ r.block = table
    BY <2>2, <2>3 DEF Image
  <2> HIDE DEF r, b
  <2> QED
    BY <2>2, <2>4, <2>5 DEF r, b
<1>9. CASE b \in DOMAIN im.block /\ ~(im.block[b].ref > 1)
  <2> DEFINE table == Without(im.block, b)
  <2>1. r = [im EXCEPT !.block = table]
    BY <1>9 DEF ReleaseBlock, Image
  <2>2. /\ table \in Tables(Blocks, BlockSet) /\ DOMAIN table = DOMAIN im.block \ {b}
        /\ \A c \in DOMAIN im.block : c # b => table[c] = im.block[c]
    BY <1>1, RestrictInTables DEF Without, Restrict
  <2> HIDE DEF table
  <2>3. ASSUME BlocksCounted(im) PROVE CountsUsers(table, im, i)
    <3>1. ASSUME NEW c \in Blocks, c # b
          PROVE  IF UsersApart(im, i, c) = {} THEN c \notin DOMAIN table
                 ELSE c \in DOMAIN table /\ table[c].ref = Cardinality(UsersApart(im, i, c))
      BY <1>3, <1>5, <2>2, <2>3, <3>1 DEF BlocksCounted, CountsUsers
    <3>2. im.block[b].ref = Cardinality(BlockUsers(im, b)) /\ b \in Blocks
      BY <1>1, <1>3, <1>4, <1>9, <2>3 DEF BlocksCounted, CountsUsers
    <3>3. UsersApart(im, i, b) = {}
      BY <1>6, <1>9, <3>2
    <3> QED
      BY <2>2, <3>1, <3>2, <3>3 DEF CountsUsers
  <2>4. r \in Image /\ r.block = table
    BY <2>1, <2>2 DEF Image
  <2> HIDE DEF r, b
  <2> QED
    BY <2>1, <2>3, <2>4 DEF r, b
<1> QED
  BY <1>7, <1>8, <1>9

\* Two images with the same tree: blocks and ".." may differ.
SameTree(im, other) ==
    /\ other.root = im.root /\ other.snap = im.snap
    /\ DOMAIN other.node = DOMAIN im.node
    /\ \A i \in DOMAIN im.node :
          /\ other.node[i].dir = im.node[i].dir /\ other.node[i].ents = im.node[i].ents
          /\ other.node[i].ref = im.node[i].ref /\ other.node[i].pend = im.node[i].pend

\* What an inode with a new block b does to the users of the blocks.
LEMMA NewUser ==
    ASSUME WorkOK, NEW im \in Image, NEW i \in DOMAIN im.node, NEW table, NEW other \in Image,
           NEW b \in Blocks \ DOMAIN table, NEW d \in Content,
           CountsUsers(table, im, i),
           DOMAIN other.node = DOMAIN im.node, other.node[i].blk = b,
           \A j \in DOMAIN im.node \ {i} : other.node[j].blk = im.node[j].blk,
           other.block = With(table, b, [ref |-> 1, data |-> d])
    PROVE  BlocksCounted(other)
<1>1. i # 0 /\ 0 \notin DOMAIN im.node
  BY Sizes, ImageFields
<1>2. UsersApart(im, i, b) = {}
  BY DEF CountsUsers
<1>3. UsersApart(other, 0, b) = {i}
  BY <1>1, <1>2 DEF UsersApart, BlockUsers
<1>4. ASSUME NEW c \in Blocks, c # b PROVE UsersApart(other, 0, c) = UsersApart(im, i, c)
  BY <1>1, <1>4 DEF UsersApart, BlockUsers
<1>5. Cardinality({i}) = 1
  BY FS_Singleton
<1>6. /\ DOMAIN other.block = DOMAIN table \union {b} /\ other.block[b].ref = 1
      /\ \A c \in DOMAIN table : c # b => other.block[c] = table[c]
  BY DEF With
<1>7. other.block \in Tables(Blocks, BlockSet)
  BY DEF Image
<1>8. ASSUME NEW c \in Blocks
      PROVE  IF UsersApart(other, 0, c) = {} THEN c \notin DOMAIN other.block
             ELSE c \in DOMAIN other.block /\ other.block[c].ref = Cardinality(UsersApart(other, 0, c))
  <2>1. CASE c = b
    BY <1>3, <1>5, <1>6, <2>1
  <2>2. CASE c # b
    BY <1>4, <1>6, <2>2 DEF CountsUsers
  <2> QED
    BY <2>1, <2>2
<1> QED
  BY <1>7, <1>8 DEF BlocksCounted, CountsUsers

\* setFileData changes blocks only, and keeps them counted unless it fails.
SetsData(c, i, r) ==
    /\ r \in Command /\ r.at = c.at /\ SameTree(c.im, r.im)
    /\ r.ok /\ BlocksCounted(c.im) => BlocksCounted(r.im)

LEMMA SetFileDataOK ==
    ASSUME WorkOK, NEW c \in Command, c.ok, NEW i \in DOMAIN c.im.node, NEW d \in Content
    PROVE  SetsData(c, i, SetFileData(c, i, d))
<1> DEFINE im == ReleaseBlock(c.im, c.im.node[i].blk)
           free == Blocks \ DOMAIN im.block
           b == Min(free)
           r == SetFileData(c, i, d)
           failed == [im EXCEPT !.node[i].blk = 0]
           done == [im EXCEPT !.node[i].blk = b, !.block = With(@, b, [ref |-> 1, data |-> d])]
<1>1. c.im \in Image /\ c.at \in Inodes /\ c = [im |-> c.im, at |-> c.at, ok |-> TRUE]
  BY DEF Command
<1>2. /\ im \in Image /\ im = [c.im EXCEPT !.block = im.block]
      /\ BlocksCounted(c.im) => CountsUsers(im.block, c.im, i)
  BY <1>1, ReleaseBlockOK
<1>3. r = IF free = {} THEN [im |-> failed, at |-> c.at, ok |-> FALSE]
          ELSE [im |-> done, at |-> c.at, ok |-> TRUE]
  <2>1. r = IF free = {} THEN [c EXCEPT !.im = failed, !.ok = FALSE] ELSE [c EXCEPT !.im = done]
    BY Zenon DEF SetFileData
  <2> HIDE DEF r, im, free, failed, done
  <2>2. /\ [c EXCEPT !.im = failed, !.ok = FALSE] = [im |-> failed, at |-> c.at, ok |-> FALSE]
        /\ [c EXCEPT !.im = done] = [im |-> done, at |-> c.at, ok |-> TRUE]
    <3>1. c.ok = TRUE
      BY <1>1
    <3>2. /\ \A x : [c EXCEPT !.im = x] = [im |-> x, at |-> c.at, ok |-> c.ok]
          /\ \A x, y : [c EXCEPT !.im = x, !.ok = y] = [im |-> x, at |-> c.at, ok |-> y]
      BY CommandUpdates
    <3> QED
      BY ONLY <3>1, <3>2, Zenon
  <2> QED
    BY <2>1, <2>2
<1> HIDE DEF im, r
<1>4. im.root = c.im.root /\ im.snap = c.im.snap /\ im.node = c.im.node
  BY <1>1, <1>2 DEF Image
<1>5. /\ im.node \in Tables(Inodes, NodeSet) /\ im.block \in Tables(Blocks, BlockSet)
      /\ i \in DOMAIN im.node /\ im.node[i] \in NodeSet /\ \A j \in DOMAIN im.node : im.node[j] \in NodeSet
  BY <1>2, <1>4, ImageFields DEF Image
<1>6. ASSUME NEW x \in Blocks \union {0}
      PROVE  LET n == [im.node[i] EXCEPT !.blk = x] IN
             /\ n \in NodeSet /\ n.blk = x /\ n.dir = im.node[i].dir /\ n.ents = im.node[i].ents
             /\ n.ref = im.node[i].ref /\ n.pend = im.node[i].pend
  BY <1>5 DEF NodeSet
<1>7. CASE free = {}
  <2> DEFINE n == [im.node[i] EXCEPT !.blk = 0]
             nodes == [im.node EXCEPT ![i] = n]
  <2>1. failed = [im EXCEPT !.node = nodes]
    BY <1>2, <1>5 DEF Image
  <2> HIDE DEF n, failed
  <2>2. nodes \in Tables(Inodes, NodeSet)
    BY <1>5, <1>6, ExceptInTables DEF n
  <2>3. DOMAIN nodes = DOMAIN im.node /\ nodes[i] = n /\ \A j \in DOMAIN im.node : j # i => nodes[j] = im.node[j]
    BY <1>5
  <2> HIDE DEF nodes
  <2>10. /\ n.dir = im.node[i].dir /\ n.ents = im.node[i].ents
        /\ n.ref = im.node[i].ref /\ n.pend = im.node[i].pend
    BY <1>6 DEF n
  <2>4. failed \in Image /\ failed.node = nodes /\ failed.root = im.root /\ failed.snap = im.snap
    BY <1>2, <2>1, <2>2 DEF Image
  <2>5. SameTree(c.im, failed)
    BY <1>4, <2>10, <2>3, <2>4 DEF SameTree
  <2> HIDE DEF free
  <2> QED
    BY <1>1, <1>3, <1>7, <2>4, <2>5 DEF SetsData, Command, r
<1>8. CASE free # {}
  <2> DEFINE n == [im.node[i] EXCEPT !.blk = b]
             nodes == [im.node EXCEPT ![i] = n]
             blocks == With(im.block, b, [ref |-> 1, data |-> d])
  <2>1. b \in free /\ b \in Blocks
    BY <1>8, Sizes, MinIsLeast
  <2> HIDE DEF b
  <2>2. done = [im EXCEPT !.node = nodes, !.block = blocks]
    BY <1>2, <1>5 DEF Image
  <2> HIDE DEF done, n
  <2>3. nodes \in Tables(Inodes, NodeSet)
    BY <1>5, <1>6, <2>1, ExceptInTables DEF n
  <2>4. DOMAIN nodes = DOMAIN im.node /\ nodes[i] = n /\ \A j \in DOMAIN im.node : j # i => nodes[j] = im.node[j]
    BY <1>5
  <2>5. [ref |-> 1, data |-> d] \in BlockSet
    BY DEF BlockSet
  <2>6. blocks \in Tables(Blocks, BlockSet)
    BY <1>5, <2>1, <2>5, WithInTables
  <2>10. /\ n.dir = im.node[i].dir /\ n.ents = im.node[i].ents
        /\ n.ref = im.node[i].ref /\ n.pend = im.node[i].pend /\ n.blk = b
    BY <1>6, <2>1 DEF n
  <2> HIDE DEF nodes, blocks
  <2>7. /\ done \in Image /\ done.node = nodes /\ done.root = im.root /\ done.snap = im.snap
        /\ done.block = blocks
    BY <1>2, <2>2, <2>3, <2>6 DEF Image
  <2>8. SameTree(c.im, done)
    BY <1>4, <2>10, <2>4, <2>7 DEF SameTree
  <2>9. ASSUME BlocksCounted(c.im) PROVE BlocksCounted(done)
    <3>1. /\ b \in Blocks \ DOMAIN im.block /\ CountsUsers(im.block, c.im, i)
          /\ DOMAIN done.node = DOMAIN c.im.node /\ done.node[i].blk = b
          /\ \A j \in DOMAIN c.im.node \ {i} : done.node[j].blk = c.im.node[j].blk
          /\ done.block = With(im.block, b, [ref |-> 1, data |-> d])
      <4>1. b \in Blocks \ DOMAIN im.block
        BY <2>1 DEF free
      <4>2. done.block = With(im.block, b, [ref |-> 1, data |-> d])
        BY <2>7 DEF blocks
      <4> QED
        BY <1>2, <1>4, <1>5, <2>10, <2>4, <2>7, <2>9, <4>1, <4>2
    <3> QED
      BY <1>1, <2>7, <3>1, NewUser
  <2> HIDE DEF free
  <2> QED
    BY <1>1, <1>3, <1>8, <2>7, <2>8, <2>9 DEF SetsData, Command, r
<1> QED
  BY <1>7, <1>8 DEF r

-----------------------------------------------------------------------------
\* Counted inodes: a count is the number of references, one more for an inode of
\* extra; an inode nothing refers to any more is pending.  Files have no entries and
\* are no roots.

Entries(im, i) == EntriesTo(im, DOMAIN im.node, i)
Snaps(im, i) == {s \in DOMAIN im.snap : im.snap[s] = i}
OneIf(cond) == IF cond THEN 1 ELSE 0

InodeCounted(im, extra, i) ==
    IF im.node[i].pend THEN Links(im, i) = 0 /\ im.node[i].ref <= 1
    ELSE im.node[i].ref >= 1 /\ im.node[i].ref = Links(im, i) + OneIf(i \in extra)

FilesAreLeaves(im) ==
    \A i \in DOMAIN im.node :
       ~im.node[i].dir => /\ DOMAIN im.node[i].ents = {} /\ im.root # i
                          /\ \A s \in DOMAIN im.snap : im.snap[s] # i

InodesCounted(im, extra) ==
    /\ \A i \in DOMAIN im.node : InodeCounted(im, extra, i)
    /\ \A i \in Inodes : Links(im, i) # 0 => i \in DOMAIN im.node
    /\ FilesAreLeaves(im)

Pending(im) == {i \in DOMAIN im.node : im.node[i].pend}

\* Nothing is shared, and nothing can come to be.
Lone(im) == DOMAIN im.snap = {} /\ \A i \in DOMAIN im.node : im.node[i].ref <= 1

LEMMA LinksParts ==
    ASSUME WorkOK, NEW im \in Image, NEW i
    PROVE  /\ IsFiniteSet(Entries(im, i)) /\ Cardinality(Entries(im, i)) \in Nat
           /\ IsFiniteSet(Snaps(im, i)) /\ Cardinality(Snaps(im, i)) \in Nat
           /\ Links(im, i) = Cardinality(Entries(im, i)) + Cardinality(Snaps(im, i))
                                + OneIf(im.root = i)
           /\ Links(im, i) \in Nat
           /\ Links(im, i) = 0 <=> Entries(im, i) = {} /\ Snaps(im, i) = {} /\ im.root # i
<1>1. Entries(im, i) \subseteq Inodes \X Name /\ Snaps(im, i) \subseteq Snap
  BY ImageFields DEF Entries, EntriesTo, Snaps
<1>2. IsFiniteSet(Inodes \X Name) /\ IsFiniteSet(Snap)
  BY Sizes, NamesAreFinite, FS_Product DEF WorkOK
<1>3. IsFiniteSet(Entries(im, i)) /\ IsFiniteSet(Snaps(im, i))
  BY <1>1, <1>2, FS_Subset
<1>4. /\ Cardinality(Entries(im, i)) \in Nat /\ Cardinality(Snaps(im, i)) \in Nat
      /\ Cardinality(Entries(im, i)) = 0 <=> Entries(im, i) = {}
      /\ Cardinality(Snaps(im, i)) = 0 <=> Snaps(im, i) = {}
  BY <1>3, FS_CardinalityType, FS_EmptySet
<1>5. Links(im, i) = Cardinality(Entries(im, i)) + Cardinality(Snaps(im, i)) + OneIf(im.root = i)
  BY Zenon DEF Links, Entries, Snaps, OneIf
<1> QED
  BY <1>3, <1>4, <1>5 DEF OneIf

\* What is named is there and not pending.
LEMMA NamedIsThere ==
    ASSUME WorkOK, NEW im \in Image, NEW extra, InodesCounted(im, extra)
    PROVE  /\ \A d \in DOMAIN im.node : \A n \in DOMAIN im.node[d].ents :
                 im.node[d].ents[n] \in DOMAIN im.node /\ ~im.node[im.node[d].ents[n]].pend
           /\ \A s \in DOMAIN im.snap : im.snap[s] \in DOMAIN im.node /\ ~im.node[im.snap[s]].pend
           /\ im.root \in DOMAIN im.node /\ ~im.node[im.root].pend
<1>1. ASSUME NEW i \in Inodes, Links(im, i) # 0 PROVE i \in DOMAIN im.node /\ ~im.node[i].pend
  BY <1>1 DEF InodesCounted, InodeCounted
<1>2. ASSUME NEW d \in DOMAIN im.node, NEW n \in DOMAIN im.node[d].ents
      PROVE  im.node[d].ents[n] \in Inodes /\ Links(im, im.node[d].ents[n]) # 0
  <2>1. im.node[d] \in NodeSet
    BY ImageFields
  <2>2. n \in Name /\ im.node[d].ents[n] \in Inodes
    BY <2>1, NodeFields
  <2>3. <<d, n>> \in Entries(im, im.node[d].ents[n])
    BY <2>2 DEF Entries, EntriesTo
  <2> QED
    BY <2>2, <2>3, LinksParts
<1>3. ASSUME NEW s \in DOMAIN im.snap PROVE im.snap[s] \in Inodes /\ Links(im, im.snap[s]) # 0
  <2>1. s \in Snaps(im, im.snap[s]) /\ im.snap[s] \in Inodes
    BY ImageFields DEF Snaps
  <2> QED
    BY <2>1, LinksParts
<1>4. im.root \in Inodes /\ Links(im, im.root) # 0
  BY LinksParts, ImageFields
<1> QED
  BY <1>1, <1>2, <1>3, <1>4

LEMMA SameTreeSameCounts ==
    ASSUME NEW im \in Image, NEW other \in Image, SameTree(im, other), NEW extra,
           InodesCounted(im, extra)
    PROVE  InodesCounted(other, extra)
<1>1. ASSUME NEW i PROVE Links(other, i) = Links(im, i)
  <2>1. EntriesTo(other, DOMAIN other.node, i) = EntriesTo(im, DOMAIN im.node, i)
    BY DEF SameTree, EntriesTo
  <2>2. other.snap = im.snap /\ other.root = im.root
    BY DEF SameTree
  <2> QED
    BY <2>1, <2>2, Zenon DEF Links
<1>2. ASSUME NEW i \in DOMAIN other.node PROVE InodeCounted(other, extra, i)
  <2>1. /\ i \in DOMAIN im.node /\ other.node[i].ref = im.node[i].ref
        /\ other.node[i].pend = im.node[i].pend
    BY DEF SameTree
  <2> QED
    BY <1>1, <2>1 DEF InodesCounted, InodeCounted
<1>3. FilesAreLeaves(other)
  BY DEF InodesCounted, FilesAreLeaves, SameTree
<1>4. DOMAIN other.node = DOMAIN im.node
  BY DEF SameTree
<1> QED
  BY <1>1, <1>2, <1>3, <1>4 DEF InodesCounted

Counted(im, extra) == im \in Image /\ InodesCounted(im, extra) /\ BlocksCounted(im)

\* Of all commands, those that are counted unless they have failed.
Outcome(c, extra) == c \in Command /\ (c.ok => Counted(c.im, extra))

LEMMA DataKeepsCounts ==
    ASSUME WorkOK, NEW c \in Command, c.ok, NEW extra, InodesCounted(c.im, extra),
           BlocksCounted(c.im), NEW i \in DOMAIN c.im.node, NEW d \in Content
    PROVE  LET r == SetFileData(c, i, d) IN
           Outcome(r, extra) /\ r.at = c.at /\ SameTree(c.im, r.im)
<1> DEFINE r == SetFileData(c, i, d)
<1>1. SetsData(c, i, r)
  BY SetFileDataOK
<1> HIDE DEF r
<1>2. r \in Command /\ r.at = c.at /\ SameTree(c.im, r.im) /\ (r.ok => BlocksCounted(r.im))
  BY <1>1 DEF SetsData
<1>3. r.im \in Image /\ c.im \in Image
  BY <1>2, CommandUpdates
<1>4. InodesCounted(r.im, extra)
  BY <1>2, <1>3, SameTreeSameCounts
<1> QED
  BY <1>2, <1>3, <1>4 DEF Outcome, Counted, r

-----------------------------------------------------------------------------
\* New inodes.

\* An inode that nothing refers to yet, with entries that name existing ones, each
\* of which counts the entries that name it.
Joins(im, other, id, ents) ==
    /\ DOMAIN ents \subseteq Name
    /\ \A n \in DOMAIN ents : ents[n] \in DOMAIN im.node /\ ~im.node[ents[n]].pend
    /\ other.root = im.root /\ other.snap = im.snap
    /\ DOMAIN other.node = DOMAIN im.node \union {id}
    /\ other.node[id].ents = ents /\ ~other.node[id].pend /\ other.node[id].ref = 1
    /\ ~other.node[id].dir => DOMAIN ents = {}
    /\ \A i \in DOMAIN im.node :
          /\ other.node[i].dir = im.node[i].dir /\ other.node[i].ents = im.node[i].ents
          /\ other.node[i].pend = im.node[i].pend
          /\ other.node[i].ref = im.node[i].ref + Cardinality({n \in DOMAIN ents : ents[n] = i})

LEMMA NewInodeCounted ==
    ASSUME WorkOK, NEW im \in Image, InodesCounted(im, {}), NEW other \in Image,
           NEW id \in Inodes \ DOMAIN im.node, NEW ents, Joins(im, other, id, ents)
    PROVE  InodesCounted(other, {id})
<1> USE DEF Joins
<1> DEFINE N(i) == {n \in DOMAIN ents : ents[n] = i}
<1>1. ASSUME NEW i PROVE IsFiniteSet(N(i)) /\ Cardinality(N(i)) \in Nat
  <2>1. IsFiniteSet(Name) /\ N(i) \subseteq Name
    BY NamesAreFinite DEF WorkOK
  <2> QED
    BY <2>1, FS_Subset, FS_CardinalityType
<1>2. ASSUME NEW i PROVE Entries(other, i) = Entries(im, i) \union ({id} \X N(i))
  BY DEF Entries, EntriesTo
<1>3. ASSUME NEW i PROVE Entries(im, i) \intersect ({id} \X N(i)) = {}
  BY DEF Entries, EntriesTo
<1>4. ASSUME NEW i PROVE N(i) # {} => i \in DOMAIN im.node /\ ~im.node[i].pend
  OBVIOUS
<1>5. ASSUME NEW i \in DOMAIN im.node
      PROVE  other.node[i].ref = im.node[i].ref + Cardinality(N(i))
  OBVIOUS
<1> HIDE DEF N
<1>6. ASSUME NEW i PROVE Cardinality(Entries(other, i)) = Cardinality(Entries(im, i)) + Cardinality(N(i))
  <2> HIDE DEF Joins
  <2>1. IsFiniteSet({id}) /\ Cardinality({id}) = 1
    BY FS_Singleton
  <2>2. IsFiniteSet({id} \X N(i)) /\ Cardinality({id} \X N(i)) = 1 * Cardinality(N(i))
    BY <1>1, <2>1, FS_Product
  <2>3. Cardinality({}) = 0
    BY FS_EmptySet
  <2>4. IsFiniteSet(Entries(im, i)) /\ Cardinality(Entries(im, i)) \in Nat
    BY LinksParts
  <2>5. Cardinality(Entries(im, i) \union ({id} \X N(i))) =
           Cardinality(Entries(im, i)) + Cardinality({id} \X N(i)) - Cardinality({})
    BY <1>3, <2>2, <2>4, FS_Union
  <2>6. Cardinality({id} \X N(i)) = Cardinality(N(i)) /\ Cardinality(N(i)) \in Nat
    BY <1>1, <2>2
  <2>7. \A a, b \in Nat : a + b - 0 = a + b
    OBVIOUS
  <2> QED
    BY ONLY <1>2, <2>3, <2>4, <2>5, <2>6, <2>7
<1>7. ASSUME NEW i PROVE Links(other, i) = Links(im, i) + Cardinality(N(i))
  <2>1. Snaps(other, i) = Snaps(im, i) /\ other.root = im.root
    BY DEF Snaps
  <2>2. /\ Links(im, i) = Cardinality(Entries(im, i)) + Cardinality(Snaps(im, i)) + OneIf(im.root = i)
        /\ Cardinality(Entries(im, i)) \in Nat /\ Cardinality(Snaps(im, i)) \in Nat
    BY LinksParts
  <2>3. Links(other, i) = Cardinality(Entries(other, i)) + Cardinality(Snaps(other, i))
                             + OneIf(other.root = i)
    BY LinksParts
  <2>4. Cardinality(N(i)) \in Nat /\ OneIf(im.root = i) \in Nat
    BY <1>1 DEF OneIf
  <2>5. Cardinality(Entries(other, i)) = Cardinality(Entries(im, i)) + Cardinality(N(i))
    BY <1>6
  <2> QED
    BY ONLY <2>1, <2>2, <2>3, <2>4, <2>5
<1>8. ASSUME NEW i PROVE N(i) = {} => Cardinality(N(i)) = 0
  BY FS_EmptySet
<1>9. Links(other, id) = 0
  <2>1. Links(im, id) = 0 /\ N(id) = {}
    BY <1>4 DEF InodesCounted
  <2> QED
    BY <1>7, <1>8, <2>1
<1>10. ASSUME NEW i \in DOMAIN other.node PROVE InodeCounted(other, {id}, i)
  <2>1. CASE i = id
    BY <1>9, <2>1 DEF InodeCounted, OneIf
  <2>2. CASE i # id
    <3>1. i \in DOMAIN im.node /\ InodeCounted(im, {}, i)
      BY <2>2 DEF InodesCounted
    <3>2. other.node[i].ref = im.node[i].ref + Cardinality(N(i)) /\ other.node[i].pend = im.node[i].pend
      BY <1>5, <3>1
    <3>3. Links(im, i) \in Nat /\ im.node[i].ref \in Nat /\ Cardinality(N(i)) \in Nat
      BY <1>1, <3>1, LinksParts, ImageFields, NodeFields
    <3>4. CASE im.node[i].pend
      <4>1. Cardinality(N(i)) = 0
        BY <1>4, <1>8, <3>4
      <4> QED
        BY <1>7, <3>1, <3>2, <3>3, <3>4, <4>1 DEF InodeCounted
    <3>5. CASE ~im.node[i].pend
      BY <1>7, <2>2, <3>1, <3>2, <3>3, <3>5 DEF InodeCounted, OneIf
    <3> QED
      BY <3>4, <3>5
  <2> QED
    BY <2>1, <2>2
<1>11. ASSUME NEW i \in Inodes, Links(other, i) # 0 PROVE i \in DOMAIN other.node
  <2>1. Links(im, i) # 0 \/ Cardinality(N(i)) # 0
    BY <1>7, <1>11
  <2> QED
    BY <1>4, <1>8, <2>1 DEF InodesCounted
<1>12. FilesAreLeaves(other)
  <2>1. FilesAreLeaves(im) /\ im.root \in DOMAIN im.node
        /\ \A s \in DOMAIN im.snap : im.snap[s] \in DOMAIN im.node
    <3> HIDE DEF Joins
    <3> QED
      BY NamedIsThere DEF InodesCounted
  <2> QED
    BY <2>1 DEF FilesAreLeaves
<1> QED
  BY <1>10, <1>11, <1>12 DEF InodesCounted

Allocates(c, node, r) ==
    /\ r \in Command
    /\ r.ok => /\ r.at \in Inodes \ DOMAIN c.im.node
               /\ r.im = [c.im EXCEPT !.node = With(c.im.node, r.at, node)]

LEMMA AllocateInodeOK ==
    ASSUME WorkOK, NEW c \in Command, c.ok, NEW node \in NodeSet
    PROVE  Allocates(c, node, AllocateInode(c, node))
<1> DEFINE free == Inodes \ DOMAIN c.im.node
           id == Min(free)
           r == AllocateInode(c, node)
           image == [c.im EXCEPT !.node = With(@, id, node)]
<1>1. c.im \in Image /\ c.at \in Inodes
  BY CommandUpdates
<1>2. r = IF free = {} THEN Throw(c) ELSE [c EXCEPT !.at = id, !.im = image]
  BY Zenon DEF AllocateInode
<1> HIDE DEF r
<1>3. CASE free = {}
  <2>1. r = [im |-> c.im, at |-> c.at, ok |-> FALSE]
    BY <1>2, <1>3, CommandUpdates DEF Throw
  <2> QED
    BY <1>1, <2>1 DEF Allocates, Command, r
<1>4. CASE free # {}
  <2>1. id \in free
    BY <1>4, Sizes, MinIsLeast
  <2> HIDE DEF id
  <2>2. image = [c.im EXCEPT !.node = With(c.im.node, id, node)]
    BY <1>1 DEF Image
  <2>3. With(c.im.node, id, node) \in Tables(Inodes, NodeSet)
    BY <1>1, <2>1, WithInTables DEF Image
  <2>4. image \in Image
    BY <1>1, <2>2, <2>3 DEF Image
  <2> HIDE DEF image
  <2>5. [c EXCEPT !.at = id, !.im = image] = [im |-> image, at |-> id, ok |-> c.ok] /\ c.ok \in BOOLEAN
    <3>1. \A x, y : [c EXCEPT !.at = x, !.im = y] = [im |-> y, at |-> x, ok |-> c.ok]
      BY CommandUpdates
    <3>2. c.ok \in BOOLEAN
      BY CommandUpdates
    <3> QED
      BY ONLY <3>1, <3>2, Zenon
  <2>6. r = [im |-> image, at |-> id, ok |-> c.ok]
    BY <1>2, <1>4, <2>5
  <2>7. r \in Command /\ r.at = id /\ r.im = image
    BY <2>1, <2>4, <2>5, <2>6 DEF Command
  <2> QED
    BY <2>1, <2>2, <2>7 DEF Allocates, r
<1> QED
  BY <1>3, <1>4 DEF r

\* A new inode that uses block b or, if b is 0, none.
LEMMA NewInodeBlocks ==
    ASSUME WorkOK, NEW im \in Image, BlocksCounted(im), NEW other \in Image,
           NEW id \in Inodes \ DOMAIN im.node, NEW b,
           DOMAIN other.node = DOMAIN im.node \union {id}, other.node[id].blk = b,
           \A i \in DOMAIN im.node : other.node[i].blk = im.node[i].blk,
           \/ b = 0 /\ other.block = im.block
           \/ /\ b \in DOMAIN im.block /\ DOMAIN other.block = DOMAIN im.block
              /\ other.block[b].ref = im.block[b].ref + 1
              /\ \A x \in DOMAIN im.block \ {b} : other.block[x] = im.block[x]
    PROVE  BlocksCounted(other)
<1>1. 0 \notin Blocks /\ 0 \notin DOMAIN im.node /\ id # 0 /\ DOMAIN im.block \subseteq Blocks
  BY Sizes, ImageFields
<1>2. ASSUME NEW x PROVE UsersApart(im, 0, x) = BlockUsers(im, x) /\ UsersApart(other, 0, x) = BlockUsers(other, x)
  BY <1>1 DEF UsersApart, BlockUsers
<1>3. ASSUME NEW x \in Blocks
      PROVE  /\ x = b => BlockUsers(other, x) = BlockUsers(im, x) \union {id}
             /\ x # b => BlockUsers(other, x) = BlockUsers(im, x)
  BY DEF BlockUsers
<1>4. ASSUME NEW x \in Blocks PROVE id \notin BlockUsers(im, x)
  BY DEF BlockUsers
<1>5. ASSUME NEW x \in Blocks, x = b
      PROVE  Cardinality(BlockUsers(other, x)) = Cardinality(BlockUsers(im, x)) + 1
             /\ BlockUsers(other, x) # {}
  <2>1. BlockUsers(other, x) = BlockUsers(im, x) \union {id} /\ id \notin BlockUsers(im, x)
    BY <1>3, <1>4, <1>5
  <2>2. IsFiniteSet(BlockUsers(im, x))
    BY UsersAreFinite
  <2> QED
    BY <2>1, <2>2, FS_AddElement
<1>6. other.block \in Tables(Blocks, BlockSet)
  BY DEF Image
<1>7. ASSUME NEW x \in Blocks
      PROVE  IF UsersApart(other, 0, x) = {} THEN x \notin DOMAIN other.block
             ELSE x \in DOMAIN other.block /\ other.block[x].ref = Cardinality(UsersApart(other, 0, x))
  <2>1. CASE x # b
    <3>1. DOMAIN other.block = DOMAIN im.block /\ (x \in DOMAIN im.block => other.block[x] = im.block[x])
      BY <2>1
    <3>2. UsersApart(other, 0, x) = UsersApart(im, 0, x)
      BY <1>2, <1>3, <2>1
    <3> QED
      BY <3>1, <3>2 DEF BlocksCounted, CountsUsers
  <2>2. CASE x = b
    <3>1. b \in DOMAIN im.block /\ x \in DOMAIN other.block /\ other.block[x].ref = im.block[x].ref + 1
      BY <1>1, <2>2
    <3>2. im.block[x].ref = Cardinality(BlockUsers(im, x))
      BY <1>2, <2>2, <3>1 DEF BlocksCounted, CountsUsers
    <3> QED
      BY <1>2, <1>5, <2>2, <3>1, <3>2
  <2> QED
    BY <2>1, <2>2
<1> QED
  BY <1>6, <1>7 DEF BlocksCounted, CountsUsers

Retains(im, b, r) ==
    /\ r \in Image /\ r.root = im.root /\ r.node = im.node /\ r.snap = im.snap
    /\ b = 0 => r.block = im.block
    /\ b \in DOMAIN im.block =>
          /\ DOMAIN r.block = DOMAIN im.block /\ r.block[b].ref = im.block[b].ref + 1
          /\ \A x \in DOMAIN im.block \ {b} : r.block[x] = im.block[x]

LEMMA RetainBlockOK ==
    ASSUME WorkOK, NEW im \in Image, NEW b \in Blocks \union {0}
    PROVE  Retains(im, b, RetainBlock(im, b))
<1> DEFINE r == RetainBlock(im, b)
<1>1. /\ im.block \in Tables(Blocks, BlockSet) /\ DOMAIN im.block \subseteq Blocks /\ 0 \notin Blocks
      /\ \A x \in DOMAIN im.block : im.block[x] \in BlockSet
  BY ImageFields, Sizes DEF Image
<1>2. CASE b = 0
  BY <1>1, <1>2 DEF RetainBlock, Retains
<1>3. CASE b \in DOMAIN im.block
  <2> DEFINE v == [im.block[b] EXCEPT !.ref = @ + 1]
             table == [im.block EXCEPT ![b] = v]
  <2>1. v \in BlockSet /\ v.ref = im.block[b].ref + 1
    BY <1>1, <1>3 DEF BlockSet
  <2>2. r = [im EXCEPT !.block = table]
    BY <1>1, <1>3 DEF RetainBlock, Image
  <2> HIDE DEF v
  <2>3. /\ table \in Tables(Blocks, BlockSet) /\ DOMAIN table = DOMAIN im.block /\ table[b] = v
        /\ \A x \in DOMAIN im.block : x # b => table[x] = im.block[x]
    BY <1>1, <1>3, <2>1, ExceptInTables
  <2> HIDE DEF table
  <2>4. /\ r \in Image /\ r.block = table /\ r.root = im.root /\ r.node = im.node /\ r.snap = im.snap
    BY <2>2, <2>3 DEF Image
  <2> HIDE DEF r
  <2> QED
    BY <1>1, <1>3, <2>1, <2>3, <2>4 DEF Retains, r
<1>4. CASE b # 0 /\ b \notin DOMAIN im.block
  <2> DEFINE table == With(im.block, b, [ref |-> 1, data |-> Empty])
  <2>1. r = [im EXCEPT !.block = table]
    BY <1>4 DEF RetainBlock, Image
  <2>2. [ref |-> 1, data |-> Empty] \in BlockSet
    BY DEF BlockSet, Content
  <2>3. table \in Tables(Blocks, BlockSet)
    BY <1>1, <1>4, <2>2, WithInTables
  <2> HIDE DEF table
  <2>4. /\ r \in Image /\ r.root = im.root /\ r.node = im.node /\ r.snap = im.snap
    BY <2>1, <2>3 DEF Image
  <2> HIDE DEF r
  <2> QED
    BY <1>4, <2>4 DEF Retains, r
<1> QED
  BY <1>2, <1>3, <1>4

\* cloneInode: one more inode that looks like src, and nothing else looks different.
Clones(c, src, r) ==
    /\ r \in Command
    /\ r.ok =>
          /\ r.at \in Inodes \ DOMAIN c.im.node
          /\ r.im.root = c.im.root /\ r.im.snap = c.im.snap
          /\ DOMAIN r.im.node = DOMAIN c.im.node \union {r.at}
          /\ r.im.node[r.at].ents = c.im.node[src].ents
          /\ r.im.node[r.at].dir = c.im.node[src].dir
          /\ \A i \in DOMAIN c.im.node :
                /\ r.im.node[i].dir = c.im.node[i].dir /\ r.im.node[i].ents = c.im.node[i].ents
                /\ r.im.node[i].ref >= c.im.node[i].ref
          /\ Pending(r.im) = Pending(c.im)
          /\ Counted(r.im, {r.at})
          /\ (Lone(c.im) /\ DOMAIN c.im.node[src].ents = {}) => Lone(r.im)

LEMMA CloneInodeOK ==
    ASSUME WorkOK, NEW c \in Command, c.ok, Counted(c.im, {}), NEW src \in DOMAIN c.im.node
    PROVE  Clones(c, src, CloneInode(c, src))
<1> DEFINE old == c.im.node[src]
           node == [old EXCEPT !.ref = 1, !.pend = FALSE]
           new == AllocateInode(c, node)
           shared(i) == Cardinality({n \in DOMAIN old.ents : old.ents[n] = i})
           retained == [i \in DOMAIN new.im.node |-> [new.im.node[i] EXCEPT !.ref = @ + shared(i)]]
           im1 == [new.im EXCEPT !.node = retained]
           r == CloneInode(c, src)
<1>1. r = IF ~new.ok THEN new
          ELSE [new EXCEPT !.im = RetainBlock([@ EXCEPT !.node = retained], old.blk)]
  BY Zenon DEF CloneInode
<1>2. /\ c.im \in Image /\ old \in NodeSet
      /\ \A i \in DOMAIN c.im.node : c.im.node[i] \in NodeSet
      /\ old.ref \in Nat /\ old.blk \in Blocks \union {0} /\ DOMAIN old.ents \subseteq Name
  <2>1. c.im \in Image
    BY CommandUpdates
  <2>2. \A i \in DOMAIN c.im.node : c.im.node[i] \in NodeSet
    BY <2>1, ImageFields
  <2> HIDE DEF old
  <2>3. old \in NodeSet
    BY <2>2 DEF old
  <2> QED
    BY <2>1, <2>2, <2>3, NodeFields
<1>3. /\ node \in NodeSet /\ node.ref = 1 /\ ~node.pend /\ node.dir = old.dir
      /\ node.ents = old.ents /\ node.blk = old.blk
  BY <1>2 DEF NodeSet
<1> HIDE DEF node
<1>4. Allocates(c, node, new)
  BY <1>3, AllocateInodeOK
<1> HIDE DEF new, r
<1>5. CASE ~new.ok
  BY <1>1, <1>4, <1>5 DEF Allocates, Clones, r
<1>6. CASE new.ok
  <2> DEFINE id == new.at
             b == old.blk
             im2 == RetainBlock(im1, b)
  <2>1. /\ id \in Inodes \ DOMAIN c.im.node /\ new.im \in Image /\ new \in Command
        /\ new.im = [c.im EXCEPT !.node = With(c.im.node, id, node)]
    BY <1>4, <1>6, CommandUpdates DEF Allocates
  <2>2. /\ new.im.root = c.im.root /\ new.im.snap = c.im.snap /\ new.im.block = c.im.block
        /\ new.im.node = With(c.im.node, id, node)
    BY <1>2, <2>1 DEF Image
  <2>3. /\ DOMAIN new.im.node = DOMAIN c.im.node \union {id} /\ new.im.node[id] = node
        /\ \A i \in DOMAIN c.im.node : new.im.node[i] = c.im.node[i]
    BY <2>1, <2>2 DEF With
  <2>4. ASSUME NEW i PROVE shared(i) \in Nat
    <3>1. IsFiniteSet(Name) /\ {n \in DOMAIN old.ents : old.ents[n] = i} \subseteq Name
      BY <1>2, NamesAreFinite DEF WorkOK
    <3> QED
      BY <3>1, FS_Subset, FS_CardinalityType
  <2>5. \A i : shared(i) = Cardinality({n \in DOMAIN old.ents : old.ents[n] = i})
    OBVIOUS
  <2> HIDE DEF shared, id
  <2>6. ASSUME NEW i \in DOMAIN new.im.node
        PROVE  LET n == [new.im.node[i] EXCEPT !.ref = @ + shared(i)] IN
               /\ n \in NodeSet /\ n.ref = new.im.node[i].ref + shared(i) /\ n.dir = new.im.node[i].dir
               /\ n.ents = new.im.node[i].ents /\ n.pend = new.im.node[i].pend
               /\ n.blk = new.im.node[i].blk
    <3>1. new.im.node[i] \in NodeSet /\ shared(i) \in Nat
      BY <2>1, <2>4, ImageFields
    <3> QED
      BY <3>1 DEF NodeSet
  <2>7. /\ DOMAIN retained = DOMAIN new.im.node
        /\ \A i \in DOMAIN new.im.node :
              /\ retained[i] \in NodeSet /\ retained[i].ref = new.im.node[i].ref + shared(i)
              /\ retained[i].dir = new.im.node[i].dir /\ retained[i].ents = new.im.node[i].ents
              /\ retained[i].pend = new.im.node[i].pend /\ retained[i].blk = new.im.node[i].blk
    BY <2>6
  <2>8. retained \in Tables(Inodes, NodeSet)
    <3>1. DOMAIN new.im.node \subseteq Inodes
      BY <2>1, ImageFields
    <3>2. retained \in [DOMAIN retained -> NodeSet]
      BY <2>7
    <3> HIDE DEF retained
    <3>3. DOMAIN retained \subseteq Inodes
      BY <2>7, <3>1
    <3> QED
      BY ONLY <3>2, <3>3, InTables
  <2> HIDE DEF retained
  <2>9. /\ im1 \in Image /\ im1.node = retained /\ im1.root = c.im.root /\ im1.snap = c.im.snap
        /\ im1.block = c.im.block
    BY <2>1, <2>2, <2>8 DEF Image
  <2>10. r = [new EXCEPT !.im = im2]
    BY <1>1, <1>6
  <2> HIDE DEF im1
  <2>11. Retains(im1, b, im2)
    BY <1>2, <2>9, RetainBlockOK
  <2> HIDE DEF im2, b
  <2>12. /\ im2 \in Image /\ im2.node = retained /\ im2.root = c.im.root /\ im2.snap = c.im.snap
    BY <2>9, <2>11 DEF Retains
  <2>13. \A x : [new EXCEPT !.im = x] = [im |-> x, at |-> new.at, ok |-> new.ok]
    BY <2>1, CommandUpdates
  <2>14. r \in Command /\ r.im = im2 /\ r.at = id
    <3>1. r = [im |-> im2, at |-> new.at, ok |-> new.ok] /\ new.at \in Inodes /\ new.ok \in BOOLEAN
      BY <2>1, <2>10, <2>13, CommandUpdates
    <3> QED
      BY <2>12, <3>1 DEF Command, id
  <2>15. /\ \A i \in DOMAIN c.im.node :
               /\ im2.node[i].dir = c.im.node[i].dir /\ im2.node[i].ents = c.im.node[i].ents
               /\ im2.node[i].pend = c.im.node[i].pend /\ im2.node[i].blk = c.im.node[i].blk
               /\ im2.node[i].ref = c.im.node[i].ref + shared(i)
    BY <2>3, <2>7, <2>12
  <2>16. InodesCounted(c.im, {}) /\ BlocksCounted(c.im)
    BY DEF Counted
  <2>17. \A n \in DOMAIN old.ents : old.ents[n] \in DOMAIN c.im.node /\ ~c.im.node[old.ents[n]].pend
    BY <1>2, <2>16, NamedIsThere
  <2>18. shared(id) = 0
    <3>1. {n \in DOMAIN old.ents : old.ents[n] = id} = {}
      BY <2>1, <2>17
    <3> QED
      BY <2>5, <3>1, FS_EmptySet
  <2>19. /\ im2.node[id].dir = old.dir /\ im2.node[id].ents = old.ents /\ ~im2.node[id].pend
         /\ im2.node[id].blk = b /\ im2.node[id].ref = 1
    BY <1>3, <2>3, <2>7, <2>12, <2>18 DEF b
  <2>20. DOMAIN im2.node = DOMAIN c.im.node \union {id}
    BY <2>3, <2>7, <2>12
  <2>21. ~im2.node[id].dir => DOMAIN old.ents = {}
    BY <2>16, <2>19 DEF InodesCounted, FilesAreLeaves
  <2>22. InodesCounted(im2, {id})
    <3>1. \A i \in DOMAIN c.im.node :
             /\ im2.node[i].dir = c.im.node[i].dir /\ im2.node[i].ents = c.im.node[i].ents
             /\ im2.node[i].pend = c.im.node[i].pend
             /\ im2.node[i].ref = c.im.node[i].ref
                                    + Cardinality({n \in DOMAIN old.ents : old.ents[n] = i})
      BY <2>5, <2>15
    <3>2. /\ c.im \in Image /\ InodesCounted(c.im, {}) /\ im2 \in Image
          /\ id \in Inodes \ DOMAIN c.im.node /\ DOMAIN old.ents \subseteq Name
          /\ im2.root = c.im.root /\ im2.snap = c.im.snap
      BY <1>2, <2>1, <2>12, <2>16
    <3> HIDE DEF old
    <3>3. Joins(c.im, im2, id, old.ents)
      BY <3>1, <3>2, <2>17, <2>19, <2>20, <2>21 DEF Joins
    <3> QED
      BY <3>2, <3>3, NewInodeCounted
  <2>23. BlocksCounted(im2)
    <3>1. b = 0 \/ b \in DOMAIN c.im.block
      <4>1. src \in UsersApart(c.im, 0, b)
        BY <1>2, Sizes, ImageFields DEF UsersApart, BlockUsers, b
      <4> QED
        BY <1>2, <2>16, <4>1 DEF BlocksCounted, CountsUsers, b
    <3>2. \/ b = 0 /\ im2.block = c.im.block
          \/ /\ b \in DOMAIN c.im.block /\ DOMAIN im2.block = DOMAIN c.im.block
             /\ im2.block[b].ref = c.im.block[b].ref + 1
             /\ \A x \in DOMAIN c.im.block \ {b} : im2.block[x] = c.im.block[x]
      BY <2>9, <2>11, <3>1 DEF Retains
    <3> QED
      BY <1>2, <2>1, <2>12, <2>15, <2>16, <2>19, <2>20, <3>2, NewInodeBlocks
  <2>24. ASSUME NEW i \in DOMAIN c.im.node PROVE im2.node[i].ref >= c.im.node[i].ref
    BY <1>2, <2>4, <2>15, NodeFields
  <2>25. Pending(im2) = Pending(c.im)
    BY <2>15, <2>19, <2>20 DEF Pending
  <2>26. ASSUME Lone(c.im), DOMAIN old.ents = {} PROVE Lone(im2)
    <3>1. \A i : shared(i) = 0
      <4>1. \A i : {n \in DOMAIN old.ents : old.ents[n] = i} = {}
        BY <2>26
      <4> QED
        BY <2>5, <4>1, FS_EmptySet
    <3>2. \A i \in DOMAIN c.im.node : c.im.node[i].ref \in Nat
      BY <1>2, NodeFields
    <3> QED
      BY <2>12, <2>15, <2>19, <2>20, <2>26, <3>1, <3>2 DEF Lone
  <2> HIDE DEF old
  <2> QED
    BY <2>1, <2>12, <2>14, <2>15, <2>19, <2>20, <2>22, <2>23, <2>24, <2>25, <2>26
       DEF Clones, Counted, old, r
<1> QED
  BY <1>5, <1>6 DEF r

-----------------------------------------------------------------------------
\* One reference comes, goes or moves.

LEMMA RemoveOne ==
    ASSUME NEW S, IsFiniteSet(S), NEW e
    PROVE  /\ Cardinality(S) \in Nat /\ Cardinality(S \ {e}) \in Nat
           /\ e \in S => Cardinality(S \ {e}) + 1 = Cardinality(S)
           /\ e \notin S => Cardinality(S \ {e}) = Cardinality(S)
<1>1. IsFiniteSet(S \ {e}) /\ Cardinality(S \ {e}) = IF e \in S THEN Cardinality(S) - 1 ELSE Cardinality(S)
  BY FS_RemoveElement
<1>2. Cardinality(S) \in Nat /\ Cardinality(S \ {e}) \in Nat
  BY <1>1, FS_CardinalityType
<1> QED
  BY <1>1, <1>2

\* An entry is set, which may have named inode k before.
SetsEntry(im, other, dir, name, i) ==
    /\ DOMAIN other.node = DOMAIN im.node /\ other.root = im.root /\ other.snap = im.snap
    /\ other.node[dir].ents = With(im.node[dir].ents, name, i)
    /\ \A d \in DOMAIN im.node \ {dir} : other.node[d].ents = im.node[d].ents

Names(im, dir, name, x) == name \in DOMAIN im.node[dir].ents /\ im.node[dir].ents[name] = x

LEMMA LinksWithEntry ==
    ASSUME WorkOK, NEW im \in Image, NEW other \in Image, NEW dir \in DOMAIN im.node,
           NEW name \in Name, NEW i, SetsEntry(im, other, dir, name, i), NEW x
    PROVE  Links(other, x) + OneIf(Names(im, dir, name, x)) = Links(im, x) + OneIf(x = i)
<1> DEFINE e == <<dir, name>>
           before == Names(im, dir, name, x)
<1>0. /\ DOMAIN other.node = DOMAIN im.node /\ other.root = im.root /\ other.snap = im.snap
      /\ other.node[dir].ents = With(im.node[dir].ents, name, i)
      /\ \A d \in DOMAIN im.node \ {dir} : other.node[d].ents = im.node[d].ents
  BY DEF SetsEntry
<1>1. e \in Entries(im, x) <=> before
  BY DEF Entries, EntriesTo, Names
<1>2. DOMAIN other.node[dir].ents = DOMAIN im.node[dir].ents \union {name}
      /\ \A n \in DOMAIN im.node[dir].ents \union {name} :
            other.node[dir].ents[n] = IF n = name THEN i ELSE im.node[dir].ents[n]
  BY <1>0 DEF With
<1>3. e \in Entries(other, x) <=> x = i
  BY <1>0, <1>2 DEF Entries, EntriesTo
<1>4. ASSUME NEW d \in DOMAIN im.node, NEW n \in Name, <<d, n>> # e
      PROVE  <<d, n>> \in Entries(other, x) <=> <<d, n>> \in Entries(im, x)
  <2>1. CASE d = dir
    <3>1. n # name
      BY <1>4, <2>1
    <3>2. /\ n \in DOMAIN other.node[d].ents <=> n \in DOMAIN im.node[d].ents
          /\ n \in DOMAIN im.node[d].ents => other.node[d].ents[n] = im.node[d].ents[n]
      BY <1>2, <2>1, <3>1
    <3> QED
      BY <1>0, <3>2 DEF Entries, EntriesTo
  <2>2. CASE d # dir
    <3>1. other.node[d].ents = im.node[d].ents
      BY <1>0, <2>2
    <3> QED
      BY <1>0, <3>1 DEF Entries, EntriesTo
  <2> QED
    BY <2>1, <2>2
<1>5. Entries(other, x) \ {e} = Entries(im, x) \ {e}
  <2>1. /\ Entries(other, x) \subseteq (DOMAIN im.node) \X Name
        /\ Entries(im, x) \subseteq (DOMAIN im.node) \X Name
    BY <1>0 DEF Entries, EntriesTo
  <2> HIDE DEF e
  <2> QED
    BY <1>4, <2>1
<1> HIDE DEF e, before
<1>6. IsFiniteSet(Entries(im, x)) /\ IsFiniteSet(Entries(other, x))
  BY LinksParts
<1>10. /\ Cardinality(Entries(im, x) \ {e}) + OneIf(before) = Cardinality(Entries(im, x))
       /\ Cardinality(Entries(other, x) \ {e}) + OneIf(x = i) = Cardinality(Entries(other, x))
       /\ Cardinality(Entries(im, x) \ {e}) \in Nat
  BY <1>1, <1>3, <1>6, RemoveOne DEF OneIf
<1>7. Snaps(other, x) = Snaps(im, x)
  BY <1>0 DEF Snaps
<1>8. Cardinality(Entries(other, x)) + OneIf(before) = Cardinality(Entries(im, x)) + OneIf(x = i)
  <2>1. \A m, a, b, p, q \in Nat : m + a = p /\ m + b = q => q + a = p + b
    OBVIOUS
  <2>2. OneIf(before) \in Nat /\ OneIf(x = i) \in Nat
    BY DEF OneIf
  <2>3. Cardinality(Entries(other, x)) \in Nat /\ Cardinality(Entries(im, x)) \in Nat
    BY LinksParts
  <2>4. Cardinality(Entries(other, x) \ {e}) = Cardinality(Entries(im, x) \ {e})
    BY <1>5, Zenon
  <2> QED
    BY ONLY <1>10, <2>1, <2>2, <2>3, <2>4
<1>9. Links(other, x) + OneIf(before) = Links(im, x) + OneIf(x = i)
  BY <1>0, <1>7, <1>8, LinksParts DEF OneIf
<1> QED
  BY <1>9 DEF before

\* An entry that named an inode goes.
DropsEntry(im, other, dir, name) ==
    /\ DOMAIN other.node = DOMAIN im.node /\ other.root = im.root /\ other.snap = im.snap
    /\ other.node[dir].ents = Without(im.node[dir].ents, name)
    /\ \A d \in DOMAIN im.node \ {dir} : other.node[d].ents = im.node[d].ents

LEMMA LinksWithoutEntry ==
    ASSUME WorkOK, NEW im \in Image, NEW other \in Image, NEW dir \in DOMAIN im.node,
           NEW name \in DOMAIN im.node[dir].ents, DropsEntry(im, other, dir, name), NEW x
    PROVE  Links(other, x) + OneIf(im.node[dir].ents[name] = x) = Links(im, x)
<1> USE DEF DropsEntry
<1> DEFINE e == <<dir, name>>
           before == im.node[dir].ents[name] = x
<1>0. name \in Name
  BY ImageFields, NodeFields
<1>1. e \in Entries(im, x) <=> before
  BY <1>0 DEF Entries, EntriesTo
<1>2. DOMAIN other.node[dir].ents = DOMAIN im.node[dir].ents \ {name}
      /\ \A n \in DOMAIN im.node[dir].ents \ {name} :
            other.node[dir].ents[n] = im.node[dir].ents[n]
  BY DEF Without, Restrict
<1>3. Entries(other, x) = Entries(im, x) \ {e}
  BY <1>2 DEF Entries, EntriesTo
<1> HIDE DEF e, before
<1>7. IsFiniteSet(Entries(im, x))
  BY LinksParts
<1>4. Cardinality(Entries(other, x)) + OneIf(before) = Cardinality(Entries(im, x))
  BY <1>1, <1>3, <1>7, RemoveOne DEF OneIf
<1>5. Snaps(other, x) = Snaps(im, x)
  BY DEF Snaps
<1>6. Links(other, x) + OneIf(before) = Links(im, x)
  BY <1>4, <1>5, LinksParts DEF OneIf
<1> QED
  BY <1>6 DEF before

\* The root moves.
LEMMA LinksWithRoot ==
    ASSUME WorkOK, NEW im \in Image, NEW other \in Image,
           DOMAIN other.node = DOMAIN im.node, other.snap = im.snap,
           \A d \in DOMAIN im.node : other.node[d].ents = im.node[d].ents,
           NEW x
    PROVE  Links(other, x) + OneIf(im.root = x) = Links(im, x) + OneIf(other.root = x)
<1>1. Entries(other, x) = Entries(im, x)
  BY DEF Entries, EntriesTo
<1>2. Snaps(other, x) = Snaps(im, x)
  BY DEF Snaps
<1> QED
  BY <1>1, <1>2, LinksParts DEF OneIf

LEMMA StillCounted ==
    ASSUME WorkOK, NEW im \in Image, NEW other \in Image, NEW before, NEW after,
           InodesCounted(im, before), DOMAIN other.node = DOMAIN im.node,
           FilesAreLeaves(other),
           \A i \in Inodes \ DOMAIN im.node : Links(other, i) = 0,
           \A i \in DOMAIN im.node :
              /\ other.node[i].pend = im.node[i].pend
              /\ IF im.node[i].pend
                 THEN Links(other, i) = 0 /\ other.node[i].ref = im.node[i].ref
                 ELSE /\ other.node[i].ref >= 1
                      /\ other.node[i].ref + Links(im, i) + OneIf(i \in before)
                            = im.node[i].ref + Links(other, i) + OneIf(i \in after)
    PROVE  InodesCounted(other, after)
<1>1. ASSUME NEW i \in DOMAIN other.node PROVE InodeCounted(other, after, i)
  <2>1. InodeCounted(im, before, i) /\ i \in DOMAIN im.node
    BY DEF InodesCounted
  <2>2. CASE im.node[i].pend
    BY <2>1, <2>2 DEF InodeCounted
  <2>3. CASE ~im.node[i].pend
    <3>1. /\ im.node[i].ref = Links(im, i) + OneIf(i \in before)
          /\ other.node[i].ref + Links(im, i) + OneIf(i \in before)
                = im.node[i].ref + Links(other, i) + OneIf(i \in after)
          /\ other.node[i].ref >= 1 /\ ~other.node[i].pend
      BY <2>1, <2>3 DEF InodeCounted
    <3>2. /\ im.node[i].ref \in Nat /\ other.node[i].ref \in Nat
          /\ Links(im, i) \in Nat /\ Links(other, i) \in Nat
      BY <2>1, LinksParts, ImageFields, NodeFields
    <3>3. OneIf(i \in before) \in Nat /\ OneIf(i \in after) \in Nat
      BY DEF OneIf
    <3>4. \A r, q, l, k, a, b \in Nat : r = l + a /\ q + l + a = r + k + b => q = k + b
      OBVIOUS
    <3>5. other.node[i].ref = Links(other, i) + OneIf(i \in after)
      BY ONLY <3>1, <3>2, <3>3, <3>4
    <3> QED
      BY <3>1, <3>5 DEF InodeCounted
  <2> QED
    BY <2>2, <2>3
<1>2. ASSUME NEW i \in Inodes, Links(other, i) # 0 PROVE i \in DOMAIN other.node
  BY <1>2
<1> QED
  BY <1>1, <1>2 DEF InodesCounted

LEMMA SameBlocksCounted ==
    ASSUME NEW im \in Image, NEW other \in Image, BlocksCounted(im),
           DOMAIN other.node = DOMAIN im.node, other.block = im.block,
           \A i \in DOMAIN im.node : other.node[i].blk = im.node[i].blk
    PROVE  BlocksCounted(other)
<1>1. ASSUME NEW b PROVE UsersApart(other, 0, b) = UsersApart(im, 0, b)
  BY DEF UsersApart, BlockUsers
<1> QED
  BY <1>1 DEF BlocksCounted, CountsUsers

-----------------------------------------------------------------------------
\* Copying is invisible: o maps the inodes of image b to those of image a that they
\* are, or are copies of, and both trees look the same.

NodeMirrors(a, b, o, node, i) ==
    /\ node.dir = a.node[i].dir /\ DOMAIN node.ents = DOMAIN a.node[i].ents
    /\ \A n \in DOMAIN node.ents :
          node.ents[n] \in DOMAIN b.node /\ o[node.ents[n]] = a.node[i].ents[n]

Mirrors(a, b, o) ==
    /\ o \in [DOMAIN b.node -> DOMAIN a.node]
    /\ \A i \in DOMAIN a.node : i \in DOMAIN b.node /\ o[i] = i
    /\ b.root \in DOMAIN b.node /\ o[b.root] = a.root /\ b.snap = a.snap
    /\ \A j \in DOMAIN b.node : NodeMirrors(a, b, o, b.node[j], o[j])

LEMMA MirrorsItself ==
    ASSUME WorkOK, NEW im \in Image, NEW extra, InodesCounted(im, extra)
    PROVE  Mirrors(im, im, [i \in DOMAIN im.node |-> i])
BY NamedIsThere DEF Mirrors, NodeMirrors

LEMMA SameTreeMirrors ==
    ASSUME NEW a, NEW b, NEW other, NEW o, Mirrors(a, b, o), SameTree(b, other)
    PROVE  Mirrors(a, other, o)
<1>1. /\ DOMAIN other.node = DOMAIN b.node /\ other.root = b.root /\ other.snap = b.snap
      /\ \A j \in DOMAIN b.node : other.node[j].dir = b.node[j].dir /\ other.node[j].ents = b.node[j].ents
  BY DEF SameTree
<1> QED
  BY <1>1 DEF Mirrors, NodeMirrors

\* The map after inode src was cloned as id.
Extended(o, b, id, src) == [j \in DOMAIN b.node \union {id} |-> IF j = id THEN o[src] ELSE o[j]]

LEMMA CloneMirrors ==
    ASSUME NEW a, NEW o, NEW c, Mirrors(a, c.im, o), NEW src \in DOMAIN c.im.node, NEW r,
           Clones(c, src, r), r.ok
    PROVE  Mirrors(a, r.im, Extended(o, c.im, r.at, src))
<1> DEFINE o2 == Extended(o, c.im, r.at, src)
<1>1. /\ r.at \notin DOMAIN c.im.node
      /\ r.im.root = c.im.root /\ r.im.snap = c.im.snap
      /\ DOMAIN r.im.node = DOMAIN c.im.node \union {r.at}
      /\ r.im.node[r.at].ents = c.im.node[src].ents /\ r.im.node[r.at].dir = c.im.node[src].dir
      /\ \A i \in DOMAIN c.im.node :
            r.im.node[i].dir = c.im.node[i].dir /\ r.im.node[i].ents = c.im.node[i].ents
  BY DEF Clones
<1>2. /\ o2 \in [DOMAIN r.im.node -> DOMAIN a.node]
      /\ o2[r.at] = o[src] /\ \A j \in DOMAIN c.im.node : o2[j] = o[j]
  BY <1>1 DEF Extended, Mirrors
<1> HIDE DEF o2
<1>3. ASSUME NEW j \in DOMAIN r.im.node PROVE NodeMirrors(a, r.im, o2, r.im.node[j], o2[j])
  <2>1. PICK k \in DOMAIN c.im.node :
           /\ o2[j] = o[k] /\ r.im.node[j].dir = c.im.node[k].dir
           /\ r.im.node[j].ents = c.im.node[k].ents
    BY <1>1, <1>2
  <2>2. NodeMirrors(a, c.im, o, c.im.node[k], o[k])
    BY DEF Mirrors
  <2>3. NodeMirrors(a, r.im, o2, c.im.node[k], o[k])
    BY <1>1, <1>2, <2>2 DEF NodeMirrors
  <2> QED
    BY <2>1, <2>3 DEF NodeMirrors
<1>4. \A i \in DOMAIN a.node : i \in DOMAIN r.im.node /\ o2[i] = i
  BY <1>1, <1>2 DEF Mirrors
<1>5. r.im.root \in DOMAIN r.im.node /\ o2[r.im.root] = a.root /\ r.im.snap = a.snap
  BY <1>1, <1>2 DEF Mirrors
<1> QED
  BY <1>2, <1>3, <1>4, <1>5 DEF Mirrors, o2

\* An entry or the root that names a copy instead.
Redirects(b, other, o, id) ==
    /\ DOMAIN other.node = DOMAIN b.node /\ other.snap = b.snap
    /\ (other.root = b.root \/ (other.root = id /\ o[id] = o[b.root]))
    /\ \A j \in DOMAIN b.node :
          /\ other.node[j].dir = b.node[j].dir
          /\ DOMAIN other.node[j].ents = DOMAIN b.node[j].ents
          /\ \A n \in DOMAIN b.node[j].ents :
                \/ other.node[j].ents[n] = b.node[j].ents[n]
                \/ other.node[j].ents[n] = id /\ o[id] = o[b.node[j].ents[n]]

LEMMA RedirectMirrors ==
    ASSUME NEW a, NEW b, NEW o, Mirrors(a, b, o), NEW other, NEW id \in DOMAIN b.node,
           Redirects(b, other, o, id)
    PROVE  Mirrors(a, other, o)
<1>0. /\ DOMAIN other.node = DOMAIN b.node /\ other.snap = b.snap
      /\ (other.root = b.root \/ (other.root = id /\ o[id] = o[b.root]))
      /\ \A j \in DOMAIN b.node :
            /\ other.node[j].dir = b.node[j].dir
            /\ DOMAIN other.node[j].ents = DOMAIN b.node[j].ents
  BY DEF Redirects
<1>1. ASSUME NEW j \in DOMAIN other.node PROVE NodeMirrors(a, other, o, other.node[j], o[j])
  <2>1. NodeMirrors(a, b, o, b.node[j], o[j])
    BY <1>0 DEF Mirrors
  <2>2. other.node[j].dir = a.node[o[j]].dir /\ DOMAIN other.node[j].ents = DOMAIN a.node[o[j]].ents
    BY <1>0, <2>1 DEF NodeMirrors
  <2>3. ASSUME NEW n \in DOMAIN other.node[j].ents
        PROVE  other.node[j].ents[n] \in DOMAIN other.node /\ o[other.node[j].ents[n]] = a.node[o[j]].ents[n]
    <3>1. j \in DOMAIN b.node /\ n \in DOMAIN b.node[j].ents
      BY <1>0
    <3>2. b.node[j].ents[n] \in DOMAIN b.node /\ o[b.node[j].ents[n]] = a.node[o[j]].ents[n]
      BY <2>1, <3>1 DEF NodeMirrors
    <3>3. \/ other.node[j].ents[n] = b.node[j].ents[n]
          \/ other.node[j].ents[n] = id /\ o[id] = o[b.node[j].ents[n]]
      BY <3>1 DEF Redirects
    <3> QED
      BY <1>0, <3>2, <3>3
  <2> QED
    BY <2>2, <2>3 DEF NodeMirrors
<1>2. other.root \in DOMAIN other.node /\ o[other.root] = a.root /\ other.snap = a.snap
  BY <1>0 DEF Mirrors
<1>3. o \in [DOMAIN other.node -> DOMAIN a.node] /\ \A i \in DOMAIN a.node : i \in DOMAIN other.node /\ o[i] = i
  BY <1>0 DEF Mirrors
<1> QED
  BY <1>1, <1>2, <1>3 DEF Mirrors

-----------------------------------------------------------------------------
\* The walk of ensureMutablePath.

\* A reference moves from inode old to its copy id, which nothing names yet.
LEMMA MovedCounted ==
    ASSUME WorkOK, NEW im \in Image, NEW other \in Image,
           NEW id \in DOMAIN im.node, NEW old \in DOMAIN im.node, old # id,
           Counted(im, {id}), ~im.node[id].pend, ~im.node[old].pend, im.node[old].ref > 1,
           DOMAIN other.node = DOMAIN im.node, other.block = im.block,
           \A j \in DOMAIN im.node :
              /\ other.node[j].dir = im.node[j].dir /\ other.node[j].pend = im.node[j].pend
              /\ other.node[j].blk = im.node[j].blk
              /\ DOMAIN other.node[j].ents = DOMAIN im.node[j].ents
              /\ other.node[j].ref = im.node[j].ref - OneIf(j = old),
           \A x : Links(other, x) + OneIf(x = old) = Links(im, x) + OneIf(x = id),
           FilesAreLeaves(other)
    PROVE  Counted(other, {})
<1>1. InodesCounted(im, {id}) /\ BlocksCounted(im)
  BY DEF Counted
<1>3. ASSUME NEW i PROVE Links(im, i) \in Nat /\ Links(other, i) \in Nat
  BY LinksParts
<1>4. ASSUME NEW i \in Inodes \ DOMAIN im.node PROVE Links(other, i) = 0
  <2>1. Links(im, i) = 0 /\ i # id /\ i # old
    BY <1>1, <1>4 DEF InodesCounted
  <2> QED
    BY <1>3, <2>1 DEF OneIf
<1>5. ASSUME NEW i \in DOMAIN im.node
      PROVE  /\ other.node[i].pend = im.node[i].pend
             /\ IF im.node[i].pend
                THEN Links(other, i) = 0 /\ other.node[i].ref = im.node[i].ref
                ELSE /\ other.node[i].ref >= 1
                     /\ other.node[i].ref + Links(im, i) + OneIf(i \in {id})
                           = im.node[i].ref + Links(other, i) + OneIf(i \in {})
  <2>1. /\ InodeCounted(im, {id}, i) /\ other.node[i].pend = im.node[i].pend
        /\ other.node[i].ref = im.node[i].ref - OneIf(i = old)
        /\ Links(other, i) + OneIf(i = old) = Links(im, i) + OneIf(i = id)
        /\ im.node[i].ref \in Nat
    BY <1>1, <1>5, ImageFields, NodeFields DEF InodesCounted
  <2>2. CASE im.node[i].pend
    <3>1. i # id /\ i # old /\ Links(im, i) = 0
      BY <2>1, <2>2 DEF InodeCounted
    <3> QED
      BY <1>3, <2>1, <2>2, <3>1 DEF OneIf
  <2>3. CASE ~im.node[i].pend
    <3>1. im.node[i].ref >= 1
      BY <2>1, <2>3 DEF InodeCounted
    <3> QED
      BY <1>3, <2>1, <2>3, <3>1 DEF OneIf
  <2> QED
    BY <2>2, <2>3
<1>6. InodesCounted(other, {})
  BY <1>1, <1>4, <1>5, StillCounted
<1>7. BlocksCounted(other)
  BY <1>1, SameBlocksCounted
<1> QED
  BY <1>6, <1>7 DEF Counted

\* What the updates of the model do to an image and to its inodes.

CountDown(f, o) == [f EXCEPT ![o].ref = @ - 1]
WithUp(f, i, x) == [f EXCEPT ![i].up = x]
WithEnts(f, i, e) == [f EXCEPT ![i].ents = e]
Redirected(e, name, x) == [e EXCEPT ![name] = x]

LEMMA RootMoves ==
    ASSUME NEW im \in Image, NEW o, NEW x
    PROVE  RootMoved(im, o, x) =
              [root |-> x, node |-> WithUp(CountDown(im.node, o), x, x),
               block |-> im.block, snap |-> im.snap]
<1> DEFINE A == Inodes
           B == Tables(Inodes, NodeSet)
           C == Tables(Blocks, BlockSet)
           D == Tables(Snap, Inodes)
           d == [im EXCEPT !.root = x]
           n1 == [im.node EXCEPT ![o].ref = @ - 1]
           e == [d EXCEPT !.node = n1]
           n2 == [n1 EXCEPT ![x].up = x]
<1>0. im \in [root : A, node : B, block : C, snap : D]
  BY DEF Image
<1> HIDE DEF A, B, C, D
<1>1. d = [root |-> x, node |-> im.node, block |-> im.block, snap |-> im.snap]
  BY <1>0
<1>2. RootMoved(im, o, x) = [d EXCEPT !.node[o].ref = @ - 1, !.node[x].up = x]
  BY <1>0 DEF RootMoved
<1>3. [d EXCEPT !.node[o].ref = @ - 1] = e
  BY <1>1
<1>4. [d EXCEPT !.node[o].ref = @ - 1, !.node[x].up = x] = [e EXCEPT !.node[x].up = x]
  BY <1>1, <1>3
<1> HIDE DEF d, n1
<1>5. e = [root |-> x, node |-> n1, block |-> im.block, snap |-> im.snap]
  BY <1>1
<1> HIDE DEF e
<1>6. [e EXCEPT !.node[x].up = x] = [root |-> x, node |-> n2, block |-> im.block, snap |-> im.snap]
  BY <1>5
<1>7. n2 = WithUp(CountDown(im.node, o), x, x)
  BY Zenon DEF n1, WithUp, CountDown
<1> HIDE DEF n2
<1> QED
  BY <1>2, <1>4, <1>6, <1>7

LEMMA EntryMoves ==
    ASSUME NEW im \in Image, NEW o, NEW dir, NEW name, NEW x
    PROVE  EntryMoved(im, o, dir, name, x) =
              [root |-> im.root,
               node |-> WithEnts(CountDown(im.node, o), dir,
                                 Redirected(CountDown(im.node, o)[dir].ents, name, x)),
               block |-> im.block, snap |-> im.snap]
<1> DEFINE A == Inodes
           B == Tables(Inodes, NodeSet)
           C == Tables(Blocks, BlockSet)
           D == Tables(Snap, Inodes)
           n1 == [im.node EXCEPT ![o].ref = @ - 1]
           e == [im EXCEPT !.node = n1]
           n2 == [n1 EXCEPT ![dir].ents[name] = x]
<1>0. im \in [root : A, node : B, block : C, snap : D]
  BY DEF Image
<1> HIDE DEF A, B, C, D
<1>3. [im EXCEPT !.node[o].ref = @ - 1] = e
  BY <1>0
<1>4. EntryMoved(im, o, dir, name, x) = [e EXCEPT !.node[dir].ents[name] = x]
  BY <1>0, <1>3 DEF EntryMoved
<1> HIDE DEF n1
<1>5. e = [root |-> im.root, node |-> n1, block |-> im.block, snap |-> im.snap]
  BY <1>0
<1> HIDE DEF e
<1>6. [e EXCEPT !.node[dir].ents[name] = x]
      = [root |-> im.root, node |-> n2, block |-> im.block, snap |-> im.snap]
  BY <1>5
<1>7. n2 = WithEnts(n1, dir, Redirected(n1[dir].ents, name, x))
  BY DEF WithEnts, Redirected
<1>8. n1 = CountDown(im.node, o)
  BY Zenon DEF n1, CountDown
<1> HIDE DEF n2
<1> QED
  BY <1>4, <1>6, <1>7, <1>8

LEMMA CountsDown ==
    ASSUME NEW f \in Tables(Inodes, NodeSet), NEW o \in DOMAIN f, f[o].ref > 0
    PROVE  /\ CountDown(f, o) \in Tables(Inodes, NodeSet) /\ DOMAIN CountDown(f, o) = DOMAIN f
           /\ \A j \in DOMAIN f : LET n == CountDown(f, o)[j] IN
                 /\ n.dir = f[j].dir /\ n.ents = f[j].ents /\ n.up = f[j].up
                 /\ n.pend = f[j].pend /\ n.blk = f[j].blk
                 /\ n.ref = f[j].ref - OneIf(j = o)
<1> DEFINE v == [f[o] EXCEPT !.ref = @ - 1]
           g == [f EXCEPT ![o] = v]
<1>0. CountDown(f, o) = g
  BY DEF CountDown
<1>1. f[o] \in NodeSet /\ \A j \in DOMAIN f : f[j].ref \in Nat
  <2>1. \A j \in DOMAIN f : f[j] \in NodeSet
    BY InTables
  <2> QED
    BY <2>1, NodeFields
<1>2. /\ v \in NodeSet /\ v.dir = f[o].dir /\ v.ents = f[o].ents /\ v.up = f[o].up
      /\ v.pend = f[o].pend /\ v.blk = f[o].blk /\ v.ref = f[o].ref - 1
  BY <1>1 DEF NodeSet
<1> HIDE DEF v
<1>3. g \in Tables(Inodes, NodeSet) /\ DOMAIN g = DOMAIN f /\ g[o] = v
      /\ \A j \in DOMAIN f : j # o => g[j] = f[j]
  BY <1>2, ExceptInTables
<1> HIDE DEF g
<1>4. \A j \in DOMAIN f : f[j].ref - OneIf(j = o) = IF j = o THEN f[o].ref - 1 ELSE f[j].ref
  BY <1>1 DEF OneIf
<1> QED
  BY <1>0, <1>2, <1>3, <1>4

LEMMA UpMoves ==
    ASSUME NEW f \in Tables(Inodes, NodeSet), NEW i \in DOMAIN f, NEW x \in Nat
    PROVE  /\ WithUp(f, i, x) \in Tables(Inodes, NodeSet) /\ DOMAIN WithUp(f, i, x) = DOMAIN f
           /\ \A j \in DOMAIN f : LET n == WithUp(f, i, x)[j] IN
                 /\ n.dir = f[j].dir /\ n.ents = f[j].ents /\ n.ref = f[j].ref
                 /\ n.pend = f[j].pend /\ n.blk = f[j].blk
<1> DEFINE v == [f[i] EXCEPT !.up = x]
           g == [f EXCEPT ![i] = v]
<1>0. WithUp(f, i, x) = g
  BY DEF WithUp
<1>1. f[i] \in NodeSet
  BY InTables
<1>2. /\ v \in NodeSet /\ v.dir = f[i].dir /\ v.ents = f[i].ents /\ v.ref = f[i].ref
      /\ v.pend = f[i].pend /\ v.blk = f[i].blk
  BY <1>1 DEF NodeSet
<1> HIDE DEF v
<1>3. g \in Tables(Inodes, NodeSet) /\ DOMAIN g = DOMAIN f /\ g[i] = v
      /\ \A j \in DOMAIN f : j # i => g[j] = f[j]
  BY <1>2, ExceptInTables
<1> HIDE DEF g
<1> QED
  BY <1>0, <1>2, <1>3

LEMMA EntsMove ==
    ASSUME NEW f \in Tables(Inodes, NodeSet), NEW i \in DOMAIN f, NEW e \in Tables(Name, Inodes)
    PROVE  /\ WithEnts(f, i, e) \in Tables(Inodes, NodeSet) /\ DOMAIN WithEnts(f, i, e) = DOMAIN f
           /\ WithEnts(f, i, e)[i].ents = e
           /\ \A j \in DOMAIN f : LET n == WithEnts(f, i, e)[j] IN
                 /\ n.dir = f[j].dir /\ n.up = f[j].up /\ n.ref = f[j].ref
                 /\ n.pend = f[j].pend /\ n.blk = f[j].blk /\ (j # i => n = f[j])
<1> DEFINE v == [f[i] EXCEPT !.ents = e]
           g == [f EXCEPT ![i] = v]
<1>0. WithEnts(f, i, e) = g
  BY DEF WithEnts
<1>1. f[i] \in NodeSet
  BY InTables
<1>2. /\ v \in NodeSet /\ v.dir = f[i].dir /\ v.ents = e /\ v.ref = f[i].ref
      /\ v.pend = f[i].pend /\ v.blk = f[i].blk /\ v.up = f[i].up
  BY <1>1 DEF NodeSet
<1> HIDE DEF v
<1>3. g \in Tables(Inodes, NodeSet) /\ DOMAIN g = DOMAIN f /\ g[i] = v
      /\ \A j \in DOMAIN f : j # i => g[j] = f[j]
  BY <1>2, ExceptInTables
<1> HIDE DEF g
<1> QED
  BY <1>0, <1>2, <1>3

\* A command that has come to inode i of a, or to its copy ...
Stands(a, c, o, i) == Mirrors(a, c.im, o) /\ c.at \in DOMAIN c.im.node /\ o[c.at] = i

\* ... and has copied that inode and directories that are not empty at most.
Walked(a, c, o, i) ==
    /\ Stands(a, c, o, i)
    /\ \A j \in DOMAIN c.im.node \ DOMAIN a.node : o[j] = i \/ DOMAIN a.node[o[j]].ents # {}

CopiesRoot(im, r) ==
    /\ Outcome(r, {})
    /\ r.ok => Pending(r.im) = Pending(im) /\ \E o : Walked(im, r, o, im.root)
    /\ Lone(im) => r.im = im

LEMMA CopyRootOK ==
    ASSUME WorkOK, NEW im \in Image, Counted(im, {})
    PROVE  CopiesRoot(im, CopyRoot(Running(im)))
<1> DEFINE c == Running(im)
           old == im.root
           new == CloneInode(c, old)
           id == new.at
           image == new.im
           im3 == RootMoved(image, old, id)
           moved == [new EXCEPT !.im = im3]
           r == CopyRoot(c)
<1>1. c \in Command /\ c.im = im /\ c.ok /\ c.at = old
  BY ImageFields DEF Command, Running
<1>2. InodesCounted(im, {}) /\ BlocksCounted(im) /\ old \in DOMAIN im.node /\ ~im.node[old].pend
  BY NamedIsThere DEF Counted
<1>3. Clones(c, old, new)
  BY <1>1, <1>2, CloneInodeOK
<1>4. r = IF im.node[old].ref <= 1 THEN c
          ELSE IF ~new.ok THEN new ELSE SetFileData(moved, id, Listing)
  <2>1. r = IF c.im.node[c.im.root].ref <= 1 THEN c
            ELSE IF ~CloneInode(c, c.im.root).ok THEN CloneInode(c, c.im.root)
            ELSE SetFileData([CloneInode(c, c.im.root) EXCEPT !.im =
                    RootMoved(CloneInode(c, c.im.root).im, c.im.root, CloneInode(c, c.im.root).at)],
                   CloneInode(c, c.im.root).at, Listing)
    BY Zenon DEF CopyRoot
  <2>2. c.im.root = old /\ c.im = im
    BY <1>1
  <2> QED
    BY <2>1, <2>2, Zenon
<1>5. CASE im.node[old].ref <= 1
  <2>1. r = c
    BY <1>4, <1>5
  <2>2. Walked(im, c, [i \in DOMAIN im.node |-> i], old)
    BY <1>1, <1>2, MirrorsItself DEF Walked, Stands
  <2> HIDE DEF r, c
  <2> QED
    BY <1>1, <2>1, <2>2 DEF CopiesRoot, Outcome, r, c
<1> HIDE DEF r, new
<1>6. im.node \in [DOMAIN im.node -> NodeSet] /\ im.node[old].ref \in Nat
  BY <1>2, ImageFields, NodeFields DEF Counted
<1>7. CASE im.node[old].ref > 1 /\ ~new.ok
  <2>1. r = new /\ ~Lone(im)
    BY <1>2, <1>4, <1>6, <1>7 DEF Lone
  <2> QED
    BY <1>3, <1>7, <2>1 DEF CopiesRoot, Outcome, Clones, r
<1>8. CASE im.node[old].ref > 1 /\ new.ok
  <2> DEFINE nodes1 == CountDown(image.node, old)
             nodes == WithUp(nodes1, id, id)
  <2>1. /\ id \in Inodes \ DOMAIN im.node /\ image \in Image /\ image.root = old
        /\ image.snap = im.snap /\ DOMAIN image.node = DOMAIN im.node \union {id}
        /\ image.node[id].ents = im.node[old].ents /\ image.node[id].dir = im.node[old].dir
        /\ \A i \in DOMAIN im.node : image.node[i].ref >= im.node[i].ref
        /\ \A i \in DOMAIN im.node : image.node[i].dir = im.node[i].dir
        /\ Pending(image) = Pending(im) /\ Counted(image, {id}) /\ new \in Command
    BY <1>1, <1>3, <1>8 DEF Clones, Counted
  <2>2. im3 = [root |-> id, node |-> nodes, block |-> image.block, snap |-> image.snap]
    <3>1. image \in Image
      BY <2>1
    <3> HIDE DEF image, old, id
    <3> QED
      <4>1. im3 = RootMoved(image, old, id)
        BY Zenon DEF im3
      <4> QED
        BY <3>1, <4>1, RootMoves DEF nodes, nodes1
  <2>3. /\ id # old /\ id \in DOMAIN image.node /\ old \in DOMAIN image.node /\ id \in Nat
        /\ image.node[old].ref > 1 /\ image.node \in Tables(Inodes, NodeSet)
        /\ image.node[old].ref \in Nat /\ ~image.node[id].pend /\ ~image.node[old].pend
    <3>1. id # old /\ id \in DOMAIN image.node /\ old \in DOMAIN image.node /\ id \in Nat
      BY <1>2, <2>1, Sizes
    <3>2. image.node \in Tables(Inodes, NodeSet) /\ image.node[old].ref \in Nat
      BY <2>1, <3>1, ImageFields, NodeFields DEF Image
    <3>3. image.node[old].ref > 1
      BY <1>2, <1>6, <1>8, <2>1, <3>2
    <3>4. id \notin Pending(image) /\ old \notin Pending(image)
      BY <1>2, <2>1 DEF Pending
    <3> QED
      BY <3>1, <3>2, <3>3, <3>4 DEF Pending
  <2> HIDE DEF im3
  <2>4. /\ nodes \in Tables(Inodes, NodeSet) /\ DOMAIN nodes = DOMAIN image.node
        /\ \A j \in DOMAIN image.node :
              /\ nodes[j].dir = image.node[j].dir /\ nodes[j].ents = image.node[j].ents
              /\ nodes[j].pend = image.node[j].pend /\ nodes[j].blk = image.node[j].blk
              /\ nodes[j].ref = image.node[j].ref - OneIf(j = old)
    <3>1. /\ nodes1 \in Tables(Inodes, NodeSet) /\ DOMAIN nodes1 = DOMAIN image.node
          /\ \A j \in DOMAIN image.node :
                /\ nodes1[j].dir = image.node[j].dir /\ nodes1[j].ents = image.node[j].ents
                /\ nodes1[j].pend = image.node[j].pend /\ nodes1[j].blk = image.node[j].blk
                /\ nodes1[j].ref = image.node[j].ref - OneIf(j = old)
      BY <2>3, CountsDown
    <3> HIDE DEF nodes1
    <3>2. /\ nodes \in Tables(Inodes, NodeSet) /\ DOMAIN nodes = DOMAIN nodes1
          /\ \A j \in DOMAIN nodes1 :
                /\ nodes[j].dir = nodes1[j].dir /\ nodes[j].ents = nodes1[j].ents
                /\ nodes[j].pend = nodes1[j].pend /\ nodes[j].blk = nodes1[j].blk
                /\ nodes[j].ref = nodes1[j].ref
      <4>1. id \in DOMAIN nodes1 /\ id \in Nat
        BY <2>3, <3>1
      <4> HIDE DEF id
      <4> QED
        BY <3>1, <4>1, UpMoves DEF nodes
    <3> QED
      BY <3>1, <3>2
  <2> HIDE DEF nodes, nodes1
  <2>5. /\ im3 \in Image /\ im3.root = id /\ im3.node = nodes /\ im3.block = image.block
        /\ im3.snap = image.snap
    BY <2>1, <2>2, <2>4 DEF Image
  <2>6. Counted(im3, {})
    <3>1. ASSUME NEW x PROVE Links(im3, x) + OneIf(x = old) = Links(image, x) + OneIf(x = id)
      <4>1. Links(im3, x) + OneIf(image.root = x) = Links(image, x) + OneIf(im3.root = x)
        <5>1. /\ image \in Image /\ im3 \in Image
              /\ DOMAIN im3.node = DOMAIN image.node /\ im3.snap = image.snap
              /\ \A d \in DOMAIN image.node : im3.node[d].ents = image.node[d].ents
          BY <2>1, <2>4, <2>5
        <5> HIDE DEF image
        <5> QED
          BY <5>1, LinksWithRoot
      <4>2. OneIf(image.root = x) = OneIf(x = old) /\ OneIf(im3.root = x) = OneIf(x = id)
        BY <2>1, <2>5 DEF OneIf
      <4> QED
        BY <4>1, <4>2
    <3>2. \A x : Links(im3, x) + OneIf(x = old) = Links(image, x) + OneIf(x = id)
      BY <3>1
    <3> QED
      <4>1. \A j \in DOMAIN image.node :
              /\ im3.node[j].dir = image.node[j].dir /\ im3.node[j].pend = image.node[j].pend
              /\ im3.node[j].blk = image.node[j].blk
              /\ DOMAIN im3.node[j].ents = DOMAIN image.node[j].ents
              /\ im3.node[j].ref = image.node[j].ref - OneIf(j = old)
        BY <2>4, <2>5
      <4>2. /\ image \in Image /\ im3 \in Image /\ id \in DOMAIN image.node
            /\ old \in DOMAIN image.node /\ old # id /\ Counted(image, {id})
            /\ ~image.node[id].pend /\ ~image.node[old].pend /\ image.node[old].ref > 1
            /\ DOMAIN im3.node = DOMAIN image.node /\ im3.block = image.block
        BY <2>1, <2>3, <2>4, <2>5
      <4>3. FilesAreLeaves(im3)
        <5>1. FilesAreLeaves(image)
          BY <2>1 DEF Counted, InodesCounted
        <5>2. image.node[id].dir = image.node[old].dir /\ image.root = old
          BY <1>2, <2>1
        <5> HIDE DEF image, id, old
        <5> QED
          BY <2>5, <4>1, <4>2, <5>1, <5>2 DEF FilesAreLeaves
      <4> HIDE DEF image, id, old
      <4> QED
        BY <3>2, <4>1, <4>2, <4>3, MovedCounted
  <2>7. Pending(im3) = Pending(im)
    BY <2>1, <2>4, <2>5 DEF Pending
  <2> DEFINE o == Extended([i \in DOMAIN im.node |-> i], im, id, old)
  <2>8. Mirrors(im, image, o) /\ o[id] = old /\ o[old] = old
    <3>1. Mirrors(im, im, [i \in DOMAIN im.node |-> i])
      BY <1>2, MirrorsItself DEF Counted
    <3>2. Mirrors(im, image, o)
      BY <1>1, <1>2, <1>3, <1>8, <3>1, CloneMirrors
    <3> QED
      BY <1>2, <2>1, <3>2 DEF Extended
  <2> HIDE DEF o
  <2>9. Mirrors(im, im3, o)
    <3>1. /\ im3.snap = image.snap /\ im3.root = id /\ o[id] = o[image.root]
          /\ DOMAIN im3.node = DOMAIN image.node /\ id \in DOMAIN image.node
          /\ \A j \in DOMAIN image.node :
                im3.node[j].dir = image.node[j].dir /\ im3.node[j].ents = image.node[j].ents
      BY <2>1, <2>3, <2>4, <2>5, <2>8
    <3>2. Mirrors(im, image, o)
      BY <2>8
    <3> HIDE DEF image, id
    <3> QED
      BY <3>1, <3>2, RedirectMirrors DEF Redirects
  <2>10. moved \in Command /\ moved.im = im3 /\ moved.at = id /\ moved.ok
    <3>1. \A x : [new EXCEPT !.im = x] = [im |-> x, at |-> new.at, ok |-> new.ok]
      BY <2>1, CommandUpdates
    <3>2. new.at \in Inodes /\ new.ok \in BOOLEAN
      BY <2>1, CommandUpdates
    <3> QED
      BY <1>8, <2>5, <3>1, <3>2 DEF Command
  <2>11. r = SetFileData(moved, id, Listing) /\ ~Lone(im)
    BY <1>2, <1>4, <1>6, <1>8 DEF Lone
  <2> HIDE DEF moved
  <2>12. Outcome(r, {}) /\ r.at = id /\ SameTree(im3, r.im)
    <3>1. InodesCounted(moved.im, {}) /\ BlocksCounted(moved.im) /\ id \in DOMAIN moved.im.node
      BY <2>3, <2>4, <2>5, <2>6, <2>10 DEF Counted
    <3>2. Listing \in Content
      BY DEF Content
    <3> QED
      BY <2>10, <2>11, <3>1, <3>2, DataKeepsCounts
  <2>13. Mirrors(im, r.im, o)
    BY <2>9, <2>12, SameTreeMirrors
  <2>14. Pending(r.im) = Pending(im) /\ DOMAIN r.im.node = DOMAIN im.node \union {id}
    BY <2>1, <2>4, <2>5, <2>7, <2>12 DEF Pending, SameTree
  <2>15. Walked(im, r, o, old)
    BY <2>8, <2>12, <2>13, <2>14 DEF Walked, Stands
  <2> QED
    BY <2>11, <2>12, <2>14, <2>15 DEF CopiesRoot, r
<1> QED
  BY <1>5, <1>6, <1>7, <1>8 DEF r

\* What a component of a path does to a command that has come to inode i of a.
CopiesComponent(a, c, i, name, r) ==
    /\ Outcome(r, {})
    /\ r.ok => /\ Pending(r.im) = Pending(c.im) /\ name \in DOMAIN a.node[i].ents
               /\ \E o : Walked(a, r, o, a.node[i].ents[name])
    /\ Lone(c.im) => r.im = c.im

LEMMA CopyComponentOK ==
    ASSUME WorkOK, NEW c \in Command, c.ok, Counted(c.im, {}), NEW name \in Name,
           NEW a, NEW o, NEW i, Walked(a, c, o, i)
    PROVE  CopiesComponent(a, c, i, name, CopyComponent(c, name))
<1> DEFINE dir == c.at
           child == c.im.node[dir].ents[name]
           new == CloneInode(c, child)
           id == new.at
           image == new.im
           im3 == EntryMoved(image, child, dir, name, id)
           moved == [new EXCEPT !.im = im3]
           r == CopyComponent(c, name)
<1>1. r = IF ~c.ok \/ ~Has(c.im, dir) \/ name \notin DOMAIN c.im.node[dir].ents THEN Throw(c)
          ELSE IF ~Has(c.im, child) THEN Throw([c EXCEPT !.at = child])
          ELSE IF c.im.node[child].ref <= 1 THEN [c EXCEPT !.at = child]
          ELSE IF ~new.ok THEN new ELSE SetFileData(moved, dir, Listing)
  BY Zenon DEF CopyComponent
<1> SUFFICES CopiesComponent(a, c, i, name, r)
  OBVIOUS
<1> HIDE DEF r
<1>2. /\ c.im \in Image /\ c.at \in Inodes /\ InodesCounted(c.im, {}) /\ BlocksCounted(c.im)
      /\ dir \in DOMAIN c.im.node /\ Has(c.im, dir)
      /\ Mirrors(a, c.im, o) /\ o[dir] = i /\ i \in DOMAIN a.node
  <2>1. Mirrors(a, c.im, o) /\ dir \in DOMAIN c.im.node /\ o[dir] = i
    BY DEF Walked, Stands
  <2>2. i \in DOMAIN a.node
    BY <2>1 DEF Mirrors
  <2> QED
    BY <2>1, <2>2, CommandUpdates DEF Counted, Has
<1>3. /\ \A x : [c EXCEPT !.at = x] = [im |-> c.im, at |-> x, ok |-> c.ok]
      /\ \A x : [c EXCEPT !.ok = x] = [im |-> c.im, at |-> c.at, ok |-> x]
  BY CommandUpdates
<1>4. CASE name \notin DOMAIN c.im.node[dir].ents
  <2>1. r = [im |-> c.im, at |-> c.at, ok |-> FALSE]
    <3>1. r = Throw(c)
      BY <1>1, <1>4
    <3> QED
      BY <1>3, <3>1 DEF Throw
  <2> QED
    BY <1>2, <2>1 DEF CopiesComponent, Outcome, Command
<1>5. CASE name \in DOMAIN c.im.node[dir].ents
  <2>1. /\ name \in DOMAIN a.node[i].ents /\ child \in DOMAIN c.im.node
        /\ o[child] = a.node[i].ents[name] /\ ~c.im.node[child].pend /\ Has(c.im, child)
        /\ child \in Inodes /\ c.im.node[child].ref \in Nat
    <3>1. NodeMirrors(a, c.im, o, c.im.node[dir], i)
      BY <1>2 DEF Mirrors
    <3>2. child \in DOMAIN c.im.node /\ ~c.im.node[child].pend
      BY <1>2, <1>5, NamedIsThere
    <3>3. name \in DOMAIN a.node[i].ents /\ o[child] = a.node[i].ents[name]
      BY <1>5, <3>1 DEF NodeMirrors
    <3>4. child \in Inodes /\ c.im.node[child].ref \in Nat
      BY <1>2, <3>2, ImageFields, NodeFields
    <3>5. Has(c.im, child)
      BY <3>2 DEF Has
    <3> QED
      BY <3>2, <3>3, <3>4, <3>5
  <2>2. \A j \in DOMAIN c.im.node \ DOMAIN a.node : DOMAIN a.node[o[j]].ents # {}
    BY <2>1 DEF Walked
  <2>3. CASE c.im.node[child].ref <= 1
    <3>1. r = [im |-> c.im, at |-> child, ok |-> TRUE]
      <4>1. r = [c EXCEPT !.at = child] /\ c.ok = TRUE
        BY <1>1, <1>2, <1>5, <2>1, <2>3, CommandUpdates
      <4> HIDE DEF child
      <4> QED
        BY <1>3, <4>1
    <3>2. Walked(a, r, o, a.node[i].ents[name])
      BY <1>2, <2>1, <2>2, <3>1 DEF Walked, Stands
    <3> QED
      BY <1>2, <2>1, <3>1, <3>2 DEF CopiesComponent, Outcome, Command
  <2> HIDE DEF new
  <2>4. Clones(c, child, new)
    BY <1>2, <2>1, CloneInodeOK DEF new
  <2>5. CASE c.im.node[child].ref > 1 /\ ~new.ok
    <3> HIDE DEF child
    <3>1. r = new
      <4>1. c.ok /\ Has(c.im, dir) /\ Has(c.im, child) /\ ~(c.im.node[child].ref <= 1) /\ ~new.ok
        BY <1>2, <2>1, <2>5
      <4> HIDE DEF moved
      <4> QED
        BY <1>1, <1>5, <4>1, Zenon
    <3>3. ~Lone(c.im)
      BY <2>1, <2>5 DEF Lone
    <3> QED
      BY <2>4, <2>5, <3>1, <3>3 DEF CopiesComponent, Outcome, Clones
  <2>6. CASE c.im.node[child].ref > 1 /\ new.ok
    <3> HIDE DEF child
    <3> DEFINE nodes1 == CountDown(image.node, child)
               ents == Redirected(nodes1[dir].ents, name, id)
               nodes == WithEnts(nodes1, dir, ents)
               o2 == Extended(o, c.im, id, child)
    <3>1. /\ id \in Inodes \ DOMAIN c.im.node /\ image \in Image /\ image.root = c.im.root
          /\ image.snap = c.im.snap /\ DOMAIN image.node = DOMAIN c.im.node \union {id}
          /\ image.node[id].ents = c.im.node[child].ents /\ image.node[id].dir = c.im.node[child].dir
          /\ \A x \in DOMAIN c.im.node :
                /\ image.node[x].ref >= c.im.node[x].ref /\ image.node[x].dir = c.im.node[x].dir
                /\ image.node[x].ents = c.im.node[x].ents
          /\ Pending(image) = Pending(c.im) /\ Counted(image, {id}) /\ new \in Command
      BY <2>4, <2>6 DEF Clones, Counted
    <3>2. im3 = [root |-> image.root, node |-> nodes, block |-> image.block, snap |-> image.snap]
      <4>1. image \in Image
        BY <3>1
      <4> HIDE DEF image, id
      <4>2. im3 = EntryMoved(image, child, dir, name, id)
        BY Zenon DEF im3
      <4> QED
        BY <4>1, <4>2, EntryMoves DEF nodes, nodes1, ents
    <3>3. /\ id # child /\ id # dir /\ id \in DOMAIN image.node /\ child \in DOMAIN image.node
          /\ dir \in DOMAIN image.node
          /\ image.node[child].ref > 1 /\ image.node[child].ref > 0
          /\ image.node \in Tables(Inodes, NodeSet) /\ image.node[dir] \in NodeSet
          /\ ~image.node[id].pend /\ ~image.node[child].pend
          /\ image.node[dir].ents[name] = child /\ name \in DOMAIN image.node[dir].ents
      <4>1. /\ id # child /\ id # dir /\ id \in DOMAIN image.node /\ child \in DOMAIN image.node
            /\ dir \in DOMAIN image.node
        BY <1>2, <2>1, <3>1
      <4>2. /\ image.node \in Tables(Inodes, NodeSet) /\ image.node[child].ref \in Nat
            /\ image.node[dir] \in NodeSet
        BY <3>1, <4>1, ImageFields, NodeFields DEF Image
      <4>3. image.node[child].ref > 1
        BY <2>1, <2>6, <3>1, <4>2
      <4>4. id \notin Pending(image) /\ child \notin Pending(image)
        BY <1>2, <2>1, <3>1 DEF Pending
      <4>5. image.node[dir].ents[name] = child /\ name \in DOMAIN image.node[dir].ents
        BY <1>2, <1>5, <3>1 DEF child
      <4> QED
        BY <4>1, <4>2, <4>3, <4>4, <4>5 DEF Pending
    <3> HIDE DEF im3, o2
    <3>4. /\ nodes1 \in Tables(Inodes, NodeSet) /\ DOMAIN nodes1 = DOMAIN image.node
          /\ \A j \in DOMAIN image.node :
                /\ nodes1[j].dir = image.node[j].dir /\ nodes1[j].ents = image.node[j].ents
                /\ nodes1[j].pend = image.node[j].pend /\ nodes1[j].blk = image.node[j].blk
                /\ nodes1[j].ref = image.node[j].ref - OneIf(j = child)
      BY <3>3, CountsDown
    <3> HIDE DEF nodes1
    <3>5. ents = With(image.node[dir].ents, name, id) /\ ents \in Tables(Name, Inodes)
          /\ DOMAIN ents = DOMAIN image.node[dir].ents
          /\ \A n \in DOMAIN image.node[dir].ents :
                ents[n] = IF n = name THEN id ELSE image.node[dir].ents[n]
      <4>1. nodes1[dir].ents = image.node[dir].ents
        BY <3>3, <3>4
      <4>2. image.node[dir].ents \in Tables(Name, Inodes) /\ id \in Inodes
        BY <3>1, <3>3 DEF NodeSet
      <4>3. image.node[dir].ents \in [DOMAIN image.node[dir].ents -> Inodes]
        BY <4>2, InTables
      <4>4. ents \in [DOMAIN image.node[dir].ents -> Inodes]
            /\ \A n \in DOMAIN image.node[dir].ents :
                  ents[n] = IF n = name THEN id ELSE image.node[dir].ents[n]
        BY <3>3, <4>1, <4>2, <4>3 DEF Redirected
      <4>5. DOMAIN image.node[dir].ents \union {name} = DOMAIN image.node[dir].ents
        BY <3>3
      <4> HIDE DEF ents, id, image
      <4>6. ents = With(image.node[dir].ents, name, id)
        BY <4>4, <4>5 DEF With
      <4> QED
        BY <4>2, <4>4, <4>6, InTables
    <3> HIDE DEF ents
    <3>6. /\ nodes \in Tables(Inodes, NodeSet) /\ DOMAIN nodes = DOMAIN image.node
          /\ nodes[dir].ents = ents
          /\ \A j \in DOMAIN image.node :
                /\ nodes[j].dir = image.node[j].dir /\ nodes[j].pend = image.node[j].pend
                /\ nodes[j].blk = image.node[j].blk
                /\ nodes[j].ref = image.node[j].ref - OneIf(j = child)
                /\ j # dir => nodes[j].ents = image.node[j].ents
      <4>1. dir \in DOMAIN nodes1
        BY <3>3, <3>4
      <4>2. /\ nodes \in Tables(Inodes, NodeSet) /\ DOMAIN nodes = DOMAIN nodes1
            /\ nodes[dir].ents = ents
            /\ \A j \in DOMAIN nodes1 :
                  /\ nodes[j].dir = nodes1[j].dir /\ nodes[j].pend = nodes1[j].pend
                  /\ nodes[j].blk = nodes1[j].blk /\ nodes[j].ref = nodes1[j].ref
                  /\ j # dir => nodes[j] = nodes1[j]
        <5> HIDE DEF dir, image
        <5>1. nodes1 \in Tables(Inodes, NodeSet) /\ ents \in Tables(Name, Inodes)
          BY <3>4, <3>5
        <5> QED
          BY ONLY <4>1, <5>1, EntsMove DEF nodes
      <4> QED
        BY <3>4, <4>2
    <3> HIDE DEF nodes
    <3>7. /\ im3 \in Image /\ im3.root = image.root /\ im3.node = nodes /\ im3.block = image.block
          /\ im3.snap = image.snap
      BY <3>1, <3>2, <3>6 DEF Image
    <3>8. Counted(im3, {})
      <4>1. ASSUME NEW x PROVE Links(im3, x) + OneIf(x = child) = Links(image, x) + OneIf(x = id)
        <5>1. image \in Image /\ im3 \in Image /\ dir \in DOMAIN image.node
          BY <3>1, <3>3, <3>7
        <5>2. OneIf(Names(image, dir, name, x)) = OneIf(x = child)
          BY <3>3 DEF OneIf, Names
        <5>3. SetsEntry(image, im3, dir, name, id)
          BY <3>5, <3>6, <3>7 DEF SetsEntry
        <5> HIDE DEF image, id, dir
        <5>4. Links(im3, x) + OneIf(Names(image, dir, name, x)) = Links(image, x) + OneIf(x = id)
          BY <5>1, <5>3, LinksWithEntry
        <5> QED
          BY <5>2, <5>4
      <4>2. \A x : Links(im3, x) + OneIf(x = child) = Links(image, x) + OneIf(x = id)
        BY <4>1
      <4>3. \A j \in DOMAIN image.node :
              /\ im3.node[j].dir = image.node[j].dir /\ im3.node[j].pend = image.node[j].pend
              /\ im3.node[j].blk = image.node[j].blk
              /\ DOMAIN im3.node[j].ents = DOMAIN image.node[j].ents
              /\ im3.node[j].ref = image.node[j].ref - OneIf(j = child)
        BY <3>5, <3>6, <3>7
      <4>4. /\ image \in Image /\ im3 \in Image /\ id \in DOMAIN image.node
            /\ child \in DOMAIN image.node /\ child # id /\ Counted(image, {id})
            /\ ~image.node[id].pend /\ ~image.node[child].pend /\ image.node[child].ref > 1
            /\ DOMAIN im3.node = DOMAIN image.node /\ im3.block = image.block
        BY <3>1, <3>3, <3>6, <3>7
      <4>5. FilesAreLeaves(im3)
        <5>1. FilesAreLeaves(image)
          BY <3>1 DEF Counted, InodesCounted
        <5> HIDE DEF image, id
        <5> QED
          BY <3>7, <4>3, <4>4, <5>1 DEF FilesAreLeaves
      <4> HIDE DEF image, id
      <4> QED
        BY <4>2, <4>3, <4>4, <4>5, MovedCounted
    <3>9. Pending(im3) = Pending(c.im)
      BY <3>1, <3>6, <3>7 DEF Pending
    <3>10. /\ Mirrors(a, image, o2) /\ o2[id] = o[child] /\ o2[child] = o[child]
           /\ \A j \in DOMAIN c.im.node : o2[j] = o[j]
      <4>1. Mirrors(a, image, o2)
        BY <1>2, <2>1, <2>4, <2>6, CloneMirrors DEF o2
      <4> QED
        BY <2>1, <3>1, <4>1 DEF Extended, o2
    <3>11. Mirrors(a, im3, o2)
      <4>1. /\ im3.snap = image.snap /\ im3.root = image.root
            /\ DOMAIN im3.node = DOMAIN image.node /\ id \in DOMAIN image.node
            /\ \A j \in DOMAIN image.node :
                  /\ im3.node[j].dir = image.node[j].dir
                  /\ DOMAIN im3.node[j].ents = DOMAIN image.node[j].ents
        <5> HIDE DEF image, id, dir
        <5>1. im3.snap = image.snap /\ im3.root = image.root /\ im3.node = nodes
          BY <3>7
        <5>2. \A j \in DOMAIN image.node : DOMAIN nodes[j].ents = DOMAIN image.node[j].ents
          BY <3>5, <3>6
        <5> QED
          BY <3>3, <3>6, <5>1, <5>2
      <4>2. ASSUME NEW j \in DOMAIN image.node, NEW n \in DOMAIN image.node[j].ents
            PROVE  \/ im3.node[j].ents[n] = image.node[j].ents[n]
                   \/ im3.node[j].ents[n] = id /\ o2[id] = o2[image.node[j].ents[n]]
        <5>1. CASE j # dir
          BY <3>6, <3>7, <5>1
        <5>2. CASE j = dir /\ n # name
          <6>1. im3.node[j].ents = ents
            BY <3>6, <3>7, <5>2
          <6> QED
            BY <3>5, <5>2, <6>1
        <5>3. CASE j = dir /\ n = name
          <6>1. im3.node[j].ents[n] = id /\ image.node[j].ents[n] = child
            BY <3>3, <3>5, <3>6, <3>7, <5>3
          <6> QED
            BY <3>10, <6>1
        <5> QED
          BY <5>1, <5>2, <5>3
      <4>3. Mirrors(a, image, o2)
        BY <3>10
      <4>5. \A j \in DOMAIN image.node : \A n \in DOMAIN image.node[j].ents :
               \/ im3.node[j].ents[n] = image.node[j].ents[n]
               \/ im3.node[j].ents[n] = id /\ o2[id] = o2[image.node[j].ents[n]]
        BY <4>2
      <4> HIDE DEF image, id
      <4> QED
        <5>1. Redirects(image, im3, o2, id)
          BY <4>1, <4>5 DEF Redirects
        <5> QED
          BY <4>1, <4>3, <5>1, RedirectMirrors
    <3>12. moved \in Command /\ moved.im = im3 /\ moved.at = id /\ moved.ok
      <4>1. \A x : [new EXCEPT !.im = x] = [im |-> x, at |-> new.at, ok |-> new.ok]
        BY <3>1, CommandUpdates
      <4>2. new.at \in Inodes /\ new.ok \in BOOLEAN
        BY <3>1, CommandUpdates
      <4> QED
        BY <2>6, <3>7, <4>1, <4>2 DEF Command
    <3> HIDE DEF moved
    <3>18. r = SetFileData(moved, dir, Listing)
      <4>1. /\ c.ok /\ Has(c.im, dir) /\ Has(c.im, child) /\ ~(c.im.node[child].ref <= 1)
            /\ new.ok /\ name \in DOMAIN c.im.node[dir].ents
        BY <1>2, <1>5, <2>1, <2>6
      <4> QED
        BY <1>1, <4>1, Zenon
    <3>13. ~Lone(c.im)
      BY <2>1, <2>6 DEF Lone
    <3>14. Outcome(r, {}) /\ r.at = id /\ SameTree(im3, r.im)
      <4>1. InodesCounted(moved.im, {}) /\ BlocksCounted(moved.im) /\ dir \in DOMAIN moved.im.node
        BY <3>3, <3>6, <3>7, <3>8, <3>12 DEF Counted
      <4>2. Listing \in Content
        BY DEF Content
      <4> QED
        BY <3>12, <3>18, <4>1, <4>2, DataKeepsCounts
    <3>15. Mirrors(a, r.im, o2)
      BY <3>11, <3>14, SameTreeMirrors
    <3>16. Pending(r.im) = Pending(c.im) /\ DOMAIN r.im.node = DOMAIN c.im.node \union {id}
      BY <3>1, <3>6, <3>7, <3>9, <3>14 DEF Pending, SameTree
    <3>17. Walked(a, r, o2, a.node[i].ents[name])
      BY <2>1, <2>2, <3>10, <3>14, <3>15, <3>16 DEF Walked, Stands
    <3> QED
      BY <2>1, <3>13, <3>14, <3>16, <3>17 DEF CopiesComponent
  <2> HIDE DEF child
  <2> QED
    BY <2>1, <2>3, <2>5, <2>6
<1> QED
  BY <1>4, <1>5

-----------------------------------------------------------------------------
\* Paths.

\* What a name leads to, 0 for nothing.
NextInode(im, i, name) ==
    IF Has(im, i) /\ name \in DOMAIN im.node[i].ents THEN im.node[i].ents[name] ELSE 0

Walk(im, r, p, f) ==
    /\ f \in [0..Len(p) -> Inodes \union {0}] /\ f[0] = r
    /\ \A k \in 1..Len(p) : f[k] = NextInode(im, f[k - 1], p[k])

LEMMA NextInodeType ==
    ASSUME NEW im \in Image, NEW i, NEW name
    PROVE  NextInode(im, i, name) \in Inodes \union {0}
<1>1. CASE Has(im, i) /\ name \in DOMAIN im.node[i].ents
  <2>1. im.node[i] \in NodeSet
    BY <1>1, ImageFields DEF Has
  <2>2. im.node[i].ents[name] \in Inodes
    BY <1>1, <2>1, NodeFields
  <2> QED
    BY <1>1, <2>2 DEF NextInode
<1>2. CASE ~(Has(im, i) /\ name \in DOMAIN im.node[i].ents)
  BY <1>2 DEF NextInode
<1> QED
  BY <1>1, <1>2

LEMMA LookupWalks ==
    ASSUME NEW im \in Image, NEW r \in Inodes \union {0}, NEW p \in Seq(Name)
    PROVE  \E f : Walk(im, r, p, f) /\ LookupFrom(im, r, p) = f[Len(p)]
<1> DEFINE k == Len(p)
           S == Inodes \union {0}
           step == [n \in 0..k |-> [i \in S |-> NextInode(im, i, p[n])]]
           Equal(f) == f = [n \in 0..k |->
                               IF n = 0 THEN r
                               ELSE IF Has(im, f[n - 1]) /\ p[n] \in DOMAIN im.node[f[n - 1]].ents
                                    THEN im.node[f[n - 1]].ents[p[n]] ELSE 0]
           Same(f) == f = [n \in 0..k |-> IF n = 0 THEN r ELSE NextInode(im, f[n - 1], p[n])]
           chosen == CHOOSE f : Equal(f)
<1>1. k \in Nat
  BY LenProperties
<1>2. LookupFrom(im, r, p) = chosen[k]
  BY Zenon DEF LookupFrom
<1>3. \A f : Equal(f) <=> Same(f)
  BY DEF NextInode
<1> HIDE DEF k, Equal, S
<1>4. step \in [0..k -> [S -> S]]
  BY NextInodeType DEF S
<1>5. PICK f \in [0..k -> S] : Iterates(f, k, r, step)
  <2>1. r \in S
    BY DEF S
  <2> HIDE DEF step
  <2> QED
    BY <1>1, <1>4, <2>1, UpToRecursion
<1>6. \A n \in 1..k : f[n] = NextInode(im, f[n - 1], p[n])
  <2> SUFFICES ASSUME NEW n \in 1..k PROVE f[n] = NextInode(im, f[n - 1], p[n])
    OBVIOUS
  <2>1. f[n] = step[n][f[n - 1]] /\ n \in 0..k /\ n - 1 \in 0..k
    <3> HIDE DEF step
    <3> QED
      BY <1>1, <1>5 DEF Iterates
  <2> QED
    BY <1>5, <2>1
<1>7. \A n \in 0..k : f[n] = IF n = 0 THEN r ELSE NextInode(im, f[n - 1], p[n])
  BY <1>1, <1>5, <1>6 DEF Iterates
<1>8. Equal(f)
  <2>1. Same(f)
    BY <1>5, <1>7
  <2> QED
    BY <1>3, <2>1
<1>9. Equal(chosen)
  BY <1>8
<1> HIDE DEF chosen
<1>10. Same(chosen)
  BY <1>3, <1>9
<1>11. \A n \in 1..k : chosen[n] = NextInode(im, chosen[n - 1], p[n])
  BY <1>1, <1>10
<1>12. chosen \in [0..k -> S] /\ chosen[0] = r
  <2>1. ASSUME NEW n \in 0..k PROVE chosen[n] \in S
    <3>1. CASE n = 0
      BY <1>10, <3>1 DEF S
    <3>2. CASE n # 0
      <4>1. n \in 1..k
        BY <1>1, <3>2
      <4> QED
        BY <1>11, <4>1, NextInodeType DEF S
    <3> QED
      BY <3>1, <3>2
  <2>2. chosen = [n \in 0..k |-> chosen[n]]
    BY <1>10
  <2>3. chosen[0] = r
    BY <1>1, <1>10
  <2> HIDE DEF Same
  <2> QED
    BY <2>1, <2>2, <2>3
<1>13. Walk(im, r, p, chosen)
  BY <1>11, <1>12 DEF Walk, k, S
<1> QED
  BY <1>2, <1>13 DEF k

\* There is one walk.
Begins(q, p) ==
    /\ q \in Seq(Name) /\ p \in Seq(Name) /\ Len(q) <= Len(p)
    /\ \A k \in 1..Len(q) : q[k] = p[k]

LEMMA WalksAgree ==
    ASSUME NEW im, NEW r, NEW p, NEW f, Walk(im, r, p, f), NEW q, Begins(q, p),
           NEW g, Walk(im, r, q, g)
    PROVE  \A k \in 0..Len(q) : g[k] = f[k]
<1> DEFINE T == {k \in 0..Len(q) : g[k] = f[k]}
<1>1. /\ Len(p) \in Nat /\ Len(q) \in Nat /\ Len(q) <= Len(p)
      /\ \A k \in 1..Len(q) : q[k] = p[k]
  BY LenProperties DEF Begins
<1>2. 0 \in T
  BY <1>1 DEF Walk
<1>3. ASSUME NEW k \in 0..Len(q), k < Len(q), k \in T PROVE k + 1 \in T
  <2>1. k + 1 \in 1..Len(q) /\ k + 1 \in 1..Len(p) /\ (k + 1) - 1 = k /\ k + 1 \in 0..Len(q)
    BY <1>1, <1>3
  <2>2. f[k + 1] = NextInode(im, f[k], p[k + 1]) /\ g[k + 1] = NextInode(im, g[k], q[k + 1])
    BY <2>1 DEF Walk
  <2> QED
    BY <1>1, <1>3, <2>1, <2>2
<1> HIDE DEF T
<1>4. 0..Len(q) \subseteq T
  BY <1>1, <1>2, <1>3, UpToInduction
<1> QED
  BY <1>4 DEF T

LEMMA FrontAndLast ==
    ASSUME NEW p \in Seq(Name), p # <<>>
    PROVE  /\ Front(p) \in Seq(Name) /\ Len(Front(p)) = Len(p) - 1 /\ Len(p) \in Nat \ {0}
           /\ \A k \in 1..Len(p) - 1 : Front(p)[k] = p[k]
           /\ Last(p) = p[Len(p)] /\ Last(p) \in Name
<1>1. Len(p) \in Nat /\ Len(p) # 0
  BY LenProperties, EmptySeq
<1>2. Front(p) = SubSeq(p, 1, Len(p) - 1) /\ Last(p) = p[Len(p)]
  BY DEF Front, Last
<1>3. 1 \in Int /\ Len(p) - 1 \in Int /\ \A i \in 1..Len(p) - 1 : p[i] \in Name
  BY <1>1, ElementOfSeq
<1>4. /\ SubSeq(p, 1, Len(p) - 1) \in Seq(Name)
      /\ Len(SubSeq(p, 1, Len(p) - 1)) = IF 1 <= Len(p) - 1 THEN Len(p) - 1 - 1 + 1 ELSE 0
      /\ \A i \in 1..Len(p) - 1 - 1 + 1 : SubSeq(p, 1, Len(p) - 1)[i] = p[1 + i - 1]
  BY <1>3, SubSeqProperties
<1>5. p[Len(p)] \in Name
  BY <1>1, ElementOfSeq
<1>6. Len(p) - 1 - 1 + 1 = Len(p) - 1 /\ \A i \in 1..Len(p) - 1 : 1 + i - 1 = i
  BY <1>1
<1>7. Len(Front(p)) = Len(p) - 1
  <2>1. Len(SubSeq(p, 1, Len(p) - 1)) = Len(p) - 1
    <3> DEFINE n == Len(SubSeq(p, 1, Len(p) - 1))
    <3>1. n = IF 1 <= Len(p) - 1 THEN Len(p) - 1 - 1 + 1 ELSE 0
      BY <1>4
    <3> HIDE DEF n
    <3>2. n = Len(p) - 1
      <4>1. \A m \in Nat : m # 0 => Len(p) # m \/ n = m - 1
        BY <3>1
      <4> QED
        BY ONLY <1>1, <4>1
    <3> QED
      BY <3>2 DEF n
  <2> QED
    BY <1>2, <2>1
<1>8. ASSUME NEW k \in 1..Len(p) - 1 PROVE Front(p)[k] = p[k]
  BY <1>2, <1>4, <1>6
<1> QED
  BY <1>1, <1>2, <1>4, <1>5, <1>7, <1>8

\* A path leads where its last name leads from its parent.
LEMMA LookupLast ==
    ASSUME NEW im \in Image, NEW r \in Inodes \union {0}, NEW p \in Seq(Name), p # <<>>
    PROVE  LookupFrom(im, r, p) = NextInode(im, LookupFrom(im, r, Front(p)), Last(p))
<1>1. /\ Front(p) \in Seq(Name) /\ Len(Front(p)) = Len(p) - 1 /\ Len(p) \in Nat \ {0}
      /\ \A k \in 1..Len(p) - 1 : Front(p)[k] = p[k]
      /\ Last(p) = p[Len(p)]
  BY FrontAndLast
<1>2. PICK f : Walk(im, r, p, f) /\ LookupFrom(im, r, p) = f[Len(p)]
  BY LookupWalks
<1>3. PICK g : Walk(im, r, Front(p), g) /\ LookupFrom(im, r, Front(p)) = g[Len(Front(p))]
  BY <1>1, LookupWalks
<1>4. g[Len(p) - 1] = f[Len(p) - 1]
  <2>1. \A k \in 0..Len(Front(p)) : g[k] = f[k]
    <3> DEFINE q == Front(p)
    <3>1. Begins(q, p)
      BY <1>1 DEF Begins
    <3>2. Walk(im, r, p, f) /\ Walk(im, r, q, g)
      BY <1>2, <1>3
    <3> HIDE DEF q
    <3>3. \A k \in 0..Len(q) : g[k] = f[k]
      BY <3>1, <3>2, WalksAgree
    <3> QED
      BY <3>3 DEF q
  <2> QED
    BY <1>1, <2>1
<1>5. f[Len(p)] = NextInode(im, f[Len(p) - 1], p[Len(p)])
  BY <1>1, <1>2 DEF Walk
<1> QED
  BY <1>1, <1>2, <1>3, <1>4, <1>5

LEMMA LookupEmpty ==
    ASSUME NEW im \in Image, NEW r \in Inodes \union {0}
    PROVE  LookupFrom(im, r, <<>>) = r
<1>1. <<>> \in Seq(Name) /\ Len(<<>>) = 0
  BY EmptySeq
<1>2. PICK f : Walk(im, r, <<>>, f) /\ LookupFrom(im, r, <<>>) = f[Len(<<>>)]
  BY <1>1, LookupWalks
<1> QED
  BY <1>1, <1>2 DEF Walk

\* What ensureMutablePath has done when it has come to inode i.
CopiesPath(im, i, r) ==
    /\ Outcome(r, {})
    /\ r.ok => Pending(r.im) = Pending(im) /\ \E o : Walked(im, r, o, i)
    /\ Lone(im) => r.im = im

LEMMA ThrowOK ==
    ASSUME NEW c \in Command
    PROVE  Throw(c) \in Command /\ Throw(c).im = c.im /\ ~Throw(c).ok
<1>1. \A x : [c EXCEPT !.ok = x] = [im |-> c.im, at |-> c.at, ok |-> x]
  BY CommandUpdates
<1>2. Throw(c) = [im |-> c.im, at |-> c.at, ok |-> FALSE] /\ c.im \in Image /\ c.at \in Inodes
  BY <1>1, CommandUpdates DEF Throw
<1> QED
  BY <1>2 DEF Command

LEMMA CopiesOneMore ==
    ASSUME WorkOK, NEW im \in Image, NEW i, NEW name \in Name, NEW c, CopiesPath(im, i, c)
    PROVE  CopiesPath(im, NextInode(im, i, name), CopyComponent(c, name))
<1> DEFINE r == CopyComponent(c, name)
<1>1. c \in Command /\ Outcome(c, {})
  BY DEF CopiesPath, Outcome
<1>2. CASE ~c.ok
  <2>1. r = Throw(c)
    BY <1>2 DEF CopyComponent
  <2> HIDE DEF r
  <2>2. r \in Command /\ r.im = c.im /\ ~r.ok
    BY <1>1, <2>1, ThrowOK
  <2> QED
    BY <2>2 DEF CopiesPath, Outcome, r
<1>3. CASE c.ok
  <2>1. Counted(c.im, {}) /\ Pending(c.im) = Pending(im)
    BY <1>1, <1>3 DEF Outcome, CopiesPath
  <2>2. PICK o : Walked(im, c, o, i)
    BY <1>3 DEF CopiesPath
  <2>3. CopiesComponent(im, c, i, name, r)
    BY <1>1, <1>3, <2>1, <2>2, CopyComponentOK
  <2> HIDE DEF r
  <2>4. i \in DOMAIN im.node
    BY <2>2 DEF Walked, Stands, Mirrors
  <2>5. name \in DOMAIN im.node[i].ents => NextInode(im, i, name) = im.node[i].ents[name]
    BY <2>4 DEF NextInode, Has
  <2>6. r.ok => /\ Pending(r.im) = Pending(im)
                /\ \E q : Walked(im, r, q, NextInode(im, i, name))
    BY <2>1, <2>3, <2>5 DEF CopiesComponent
  <2>7. Lone(im) => r.im = im
    BY <2>3 DEF CopiesComponent, CopiesPath
  <2>8. Outcome(r, {})
    BY <2>3 DEF CopiesComponent
  <2> QED
    BY <2>6, <2>7, <2>8 DEF CopiesPath, r
<1> QED
  BY <1>2, <1>3

LEMMA EnsureMutablePathOK ==
    ASSUME WorkOK, NEW im \in Image, Counted(im, {}), NEW p \in Seq(Name)
    PROVE  CopiesPath(im, Lookup(im, p), EnsureMutablePath(im, p))
<1> DEFINE k == Len(p)
           S == {c \in Command : \E i : CopiesPath(im, i, c)}
           base == CopyRoot(Running(im))
           step == [n \in 0..k |-> [c \in S |-> IF n = 0 THEN c ELSE CopyComponent(c, p[n])]]
           Equal(f) == f = [n \in 0..k |-> IF n = 0 THEN CopyRoot(Running(im))
                                           ELSE CopyComponent(f[n - 1], p[n])]
           chosen == CHOOSE f : Equal(f)
<1>1. k \in Nat /\ \A n \in 1..k : p[n] \in Name
  BY LenProperties, ElementOfSeq
<1>2. EnsureMutablePath(im, p) = chosen[k]
  BY Zenon DEF EnsureMutablePath
<1>3. CopiesPath(im, im.root, base)
  <2>1. CopiesRoot(im, base)
    BY CopyRootOK
  <2> HIDE DEF base
  <2> QED
    BY <2>1 DEF CopiesRoot, CopiesPath
<1> HIDE DEF k
<1>4. base \in S
  BY <1>3 DEF CopiesPath, Outcome
<1>5. ASSUME NEW c \in S, NEW n \in 1..k PROVE CopyComponent(c, p[n]) \in S
  <2>1. PICK i : CopiesPath(im, i, c)
    OBVIOUS
  <2>2. CopiesPath(im, NextInode(im, i, p[n]), CopyComponent(c, p[n]))
    BY <1>1, <2>1, CopiesOneMore
  <2> QED
    BY <2>2 DEF CopiesPath, Outcome
<1> HIDE DEF S
<1>6. step \in [0..k -> [S -> S]]
  BY <1>1, <1>5
<1>7. base = CopyRoot(Running(im))
  OBVIOUS
<1> HIDE DEF base
<1>8. PICK f \in [0..k -> S] : Iterates(f, k, base, step)
  <2> HIDE DEF step
  <2> QED
    BY <1>1, <1>4, <1>6, UpToRecursion
<1>9. \A n \in 0..k : f[n] = IF n = 0 THEN base ELSE CopyComponent(f[n - 1], p[n])
  <2> SUFFICES ASSUME NEW n \in 1..k PROVE f[n] = CopyComponent(f[n - 1], p[n])
    BY <1>1, <1>8 DEF Iterates
  <2>1. f[n] = step[n][f[n - 1]] /\ n \in 0..k /\ n - 1 \in 0..k /\ n # 0
    <3> HIDE DEF step
    <3> QED
      BY <1>1, <1>8 DEF Iterates
  <2> QED
    BY <1>8, <2>1
<1>10. Equal(f)
  BY <1>7, <1>8, <1>9
<1>11. Equal(chosen)
  <2> HIDE DEF Equal
  <2> QED
    BY <1>10
<1> HIDE DEF chosen
<1>12. /\ chosen[0] = base
       /\ \A n \in 1..k : chosen[n] = CopyComponent(chosen[n - 1], p[n])
  BY <1>1, <1>7, <1>11
<1> HIDE DEF Equal
<1>13. PICK g : Walk(im, im.root, p, g) /\ LookupFrom(im, im.root, p) = g[k]
  BY ImageFields, LookupWalks DEF k
<1>14. g[0] = im.root /\ \A n \in 1..k : g[n] = NextInode(im, g[n - 1], p[n])
  BY <1>13 DEF Walk, k
<1> DEFINE T == {n \in 0..k : CopiesPath(im, g[n], chosen[n])}
<1>15. 0 \in T
  BY <1>1, <1>3, <1>12, <1>14
<1>16. ASSUME NEW n \in 0..k, n < k, n \in T PROVE n + 1 \in T
  <2>1. n + 1 \in 1..k /\ n + 1 \in 0..k /\ (n + 1) - 1 = n
    BY <1>1, <1>16
  <2>2. chosen[n + 1] = CopyComponent(chosen[n], p[n + 1]) /\ g[n + 1] = NextInode(im, g[n], p[n + 1])
    BY <1>12, <1>14, <2>1
  <2>3. CopiesPath(im, NextInode(im, g[n], p[n + 1]), CopyComponent(chosen[n], p[n + 1]))
    BY <1>1, <1>16, <2>1, CopiesOneMore
  <2> QED
    BY <2>1, <2>2, <2>3
<1> HIDE DEF T
<1>17. k \in T
  <2>1. 0..k \subseteq T
    BY <1>1, <1>15, <1>16, UpToInduction
  <2> QED
    BY <1>1, <2>1
<1>18. CopiesPath(im, g[k], chosen[k])
  BY <1>17 DEF T
<1> QED
  BY <1>2, <1>13, <1>18 DEF Lookup

-----------------------------------------------------------------------------
\* Entries come and go.

Relisted(c, dir, e) == [c EXCEPT !.im.node[dir].ents = e]

LEMMA Relists ==
    ASSUME NEW c \in Command, NEW dir \in DOMAIN c.im.node, NEW e \in Tables(Name, Inodes)
    PROVE  LET r == Relisted(c, dir, e) IN
           /\ r \in Command /\ r.at = c.at /\ r.ok = c.ok
           /\ r.im.root = c.im.root /\ r.im.block = c.im.block /\ r.im.snap = c.im.snap
           /\ r.im.node = WithEnts(c.im.node, dir, e)
<1> DEFINE r == Relisted(c, dir, e)
           table == WithEnts(c.im.node, dir, e)
           image == [c.im EXCEPT !.node = table]
<1>1. /\ c.im \in Image /\ c.at \in Inodes /\ c.ok \in BOOLEAN
      /\ \A x : [c EXCEPT !.im = x] = [im |-> x, at |-> c.at, ok |-> c.ok]
  BY CommandUpdates
<1>2. r = [c EXCEPT !.im = image]
  <2> DEFINE A == Image
             B == Inodes
             C == BOOLEAN
  <2>1. c \in [im : A, at : B, ok : C]
    BY DEF Command
  <2> HIDE DEF A, B, C
  <2> QED
    BY <2>1 DEF Relisted, WithEnts
<1>3. table \in Tables(Inodes, NodeSet)
  <2>1. c.im.node \in Tables(Inodes, NodeSet)
    BY <1>1 DEF Image
  <2> QED
    BY <2>1, EntsMove
<1> HIDE DEF table
<1>4. /\ image \in Image /\ image.root = c.im.root /\ image.block = c.im.block
      /\ image.snap = c.im.snap /\ image.node = table
  BY <1>1, <1>3 DEF Image
<1> HIDE DEF image, r
<1>5. r = [im |-> image, at |-> c.at, ok |-> c.ok]
  BY <1>1, <1>2
<1> QED
  BY <1>1, <1>4, <1>5 DEF Command, r, table

\* An entry for inode i, which nothing named and somebody counted on.
Enters(c, r) ==
    /\ Outcome(r, {})
    /\ r.ok => Pending(r.im) = Pending(c.im) /\ (Lone(c.im) => Lone(r.im))

LEMMA SameTreeLone ==
    ASSUME NEW im, NEW other, SameTree(im, other)
    PROVE  (Lone(im) => Lone(other)) /\ Pending(other) = Pending(im)
BY DEF SameTree, Lone, Pending

LEMMA WithEntryOK ==
    ASSUME WorkOK, NEW c \in Command, c.ok, NEW i \in DOMAIN c.im.node, Counted(c.im, {i}),
           ~c.im.node[i].pend, NEW dir \in DOMAIN c.im.node, c.im.node[dir].dir,
           NEW name \in Name, name \notin DOMAIN c.im.node[dir].ents
    PROVE  Enters(c, WithEntry(c, dir, name, i))
<1> DEFINE e == With(c.im.node[dir].ents, name, i)
           d == Relisted(c, dir, e)
           r == WithEntry(c, dir, name, i)
<1>1. r = SetFileData(d, dir, Listing)
  BY Zenon DEF WithEntry, Relisted
<1>2. /\ c.im \in Image /\ InodesCounted(c.im, {i}) /\ BlocksCounted(c.im) /\ i \in Inodes
      /\ c.im.node \in Tables(Inodes, NodeSet) /\ c.im.node[dir] \in NodeSet
  <2>1. c.im \in Image /\ InodesCounted(c.im, {i}) /\ BlocksCounted(c.im)
    BY DEF Counted
  <2>2. c.im.node \in Tables(Inodes, NodeSet)
    BY <2>1 DEF Image
  <2>3. DOMAIN c.im.node \subseteq Inodes /\ c.im.node \in [DOMAIN c.im.node -> NodeSet]
    BY <2>1, ImageFields
  <2> QED
    BY <2>1, <2>2, <2>3
<1>3. e \in Tables(Name, Inodes)
  <2>1. c.im.node[dir].ents \in Tables(Name, Inodes)
    BY <1>2 DEF NodeSet
  <2> QED
    BY <1>2, <2>1, WithInTables
<1>4. e = With(c.im.node[dir].ents, name, i)
  OBVIOUS
<1> HIDE DEF e, r
<1>5. /\ d \in Command /\ d.at = c.at /\ d.ok = c.ok
      /\ d.im.root = c.im.root /\ d.im.block = c.im.block /\ d.im.snap = c.im.snap
      /\ d.im.node = WithEnts(c.im.node, dir, e)
  BY <1>3, Relists
<1> HIDE DEF d
<1>6. /\ DOMAIN d.im.node = DOMAIN c.im.node /\ d.im.node[dir].ents = e
      /\ \A j \in DOMAIN c.im.node :
            /\ d.im.node[j].dir = c.im.node[j].dir /\ d.im.node[j].ref = c.im.node[j].ref
            /\ d.im.node[j].pend = c.im.node[j].pend /\ d.im.node[j].blk = c.im.node[j].blk
            /\ j # dir => d.im.node[j] = c.im.node[j]
  BY <1>2, <1>3, <1>5, EntsMove
<1>7. d.im \in Image
  BY <1>5, CommandUpdates
<1>8. ASSUME NEW x PROVE Links(d.im, x) = Links(c.im, x) + OneIf(x = i)
  <2>1. SetsEntry(c.im, d.im, dir, name, i)
    BY <1>4, <1>5, <1>6 DEF SetsEntry
  <2>2. Links(d.im, x) + OneIf(Names(c.im, dir, name, x)) = Links(c.im, x) + OneIf(x = i)
    BY <1>2, <1>7, <2>1, LinksWithEntry
  <2>3. OneIf(Names(c.im, dir, name, x)) = 0
    BY DEF OneIf, Names
  <2>4. Links(d.im, x) \in Nat
    BY <1>7, LinksParts
  <2> QED
    BY <2>2, <2>3, <2>4
<1>9. InodesCounted(d.im, {})
  <2>1. FilesAreLeaves(d.im)
    <3>1. FilesAreLeaves(c.im)
      BY <1>2 DEF InodesCounted
    <3> QED
      BY <1>5, <1>6, <3>1 DEF FilesAreLeaves
  <2>2. ASSUME NEW x \in Inodes \ DOMAIN c.im.node PROVE Links(d.im, x) = 0
    BY <1>2, <1>8, <2>2 DEF InodesCounted, OneIf
  <2>3. ASSUME NEW x \in DOMAIN c.im.node
        PROVE  /\ d.im.node[x].pend = c.im.node[x].pend
               /\ IF c.im.node[x].pend
                  THEN Links(d.im, x) = 0 /\ d.im.node[x].ref = c.im.node[x].ref
                  ELSE /\ d.im.node[x].ref >= 1
                       /\ d.im.node[x].ref + Links(c.im, x) + OneIf(x \in {i})
                             = c.im.node[x].ref + Links(d.im, x) + OneIf(x \in {})
    <3>1. /\ InodeCounted(c.im, {i}, x) /\ Links(c.im, x) \in Nat
          /\ Links(d.im, x) = Links(c.im, x) + OneIf(x = i) /\ c.im.node[x].ref \in Nat
      <4>1. InodeCounted(c.im, {i}, x)
        BY <1>2 DEF InodesCounted
      <4>2. Links(c.im, x) \in Nat
        BY <1>2, LinksParts
      <4>3. c.im.node[x].ref \in Nat
        BY <1>2, ImageFields, NodeFields
      <4> QED
        BY <1>8, <4>1, <4>2, <4>3
    <3>2. d.im.node[x].pend = c.im.node[x].pend /\ d.im.node[x].ref = c.im.node[x].ref
      BY <1>6
    <3>3. CASE c.im.node[x].pend
      <4>1. x # i
        BY <3>3
      <4> QED
        BY <3>1, <3>2, <3>3, <4>1 DEF InodeCounted, OneIf
    <3>4. CASE ~c.im.node[x].pend
      BY <3>1, <3>2, <3>4 DEF InodeCounted, OneIf
    <3> QED
      BY <3>3, <3>4
  <2> QED
    BY <1>2, <1>6, <1>7, <2>1, <2>2, <2>3, StillCounted
<1>10. BlocksCounted(d.im)
  BY <1>2, <1>5, <1>6, <1>7, SameBlocksCounted
<1>11. Outcome(r, {}) /\ SameTree(d.im, r.im)
  <2>1. Listing \in Content /\ dir \in DOMAIN d.im.node
    BY <1>6 DEF Content
  <2> QED
    BY <1>1, <1>5, <1>9, <1>10, <2>1, DataKeepsCounts
<1>12. Pending(d.im) = Pending(c.im) /\ (Lone(c.im) => Lone(d.im))
  BY <1>5, <1>6 DEF Pending, Lone
<1> QED
  BY <1>11, <1>12, SameTreeLone DEF Enters, r

\* An entry that goes; somebody still counts on its inode.
Leaves(c, i, r) ==
    /\ Outcome(r, {i})
    /\ r.ok => /\ Pending(r.im) = Pending(c.im) /\ (Lone(c.im) => Lone(r.im))
               /\ i \in DOMAIN r.im.node /\ ~r.im.node[i].pend
               /\ r.im.node[i].ref = c.im.node[i].ref

LEMMA WithoutEntryOK ==
    ASSUME WorkOK, NEW c \in Command, c.ok, Counted(c.im, {}), NEW dir \in DOMAIN c.im.node,
           NEW name \in DOMAIN c.im.node[dir].ents, NEW i, i = c.im.node[dir].ents[name]
    PROVE  Leaves(c, i, WithoutEntry(c, dir, name))
<1> DEFINE e == Without(c.im.node[dir].ents, name)
           d == Relisted(c, dir, e)
           r == WithoutEntry(c, dir, name)
<1>1. r = SetFileData(d, dir, Listing)
  BY Zenon DEF WithoutEntry, Relisted
<1>2. /\ c.im \in Image /\ InodesCounted(c.im, {}) /\ BlocksCounted(c.im)
      /\ c.im.node \in Tables(Inodes, NodeSet) /\ c.im.node[dir] \in NodeSet
      /\ i \in DOMAIN c.im.node /\ ~c.im.node[i].pend
  <2>1. c.im \in Image /\ InodesCounted(c.im, {}) /\ BlocksCounted(c.im)
    BY DEF Counted
  <2>2. c.im.node \in Tables(Inodes, NodeSet)
    BY <2>1 DEF Image
  <2>3. DOMAIN c.im.node \subseteq Inodes /\ c.im.node \in [DOMAIN c.im.node -> NodeSet]
    BY <2>1, ImageFields
  <2>4. i \in DOMAIN c.im.node /\ ~c.im.node[i].pend
    BY <2>1, NamedIsThere
  <2> QED
    BY <2>1, <2>2, <2>3, <2>4
<1>3. e \in Tables(Name, Inodes)
  <2>1. c.im.node[dir].ents \in Tables(Name, Inodes)
    BY <1>2 DEF NodeSet
  <2> QED
    BY <2>1, RestrictInTables DEF Without
<1>4. e = Without(c.im.node[dir].ents, name) /\ DOMAIN e \subseteq DOMAIN c.im.node[dir].ents
  BY DEF Without, Restrict
<1> HIDE DEF e, r
<1>5. /\ d \in Command /\ d.at = c.at /\ d.ok = c.ok
      /\ d.im.root = c.im.root /\ d.im.block = c.im.block /\ d.im.snap = c.im.snap
      /\ d.im.node = WithEnts(c.im.node, dir, e)
  BY <1>3, Relists
<1> HIDE DEF d
<1>6. /\ DOMAIN d.im.node = DOMAIN c.im.node /\ d.im.node[dir].ents = e
      /\ \A j \in DOMAIN c.im.node :
            /\ d.im.node[j].dir = c.im.node[j].dir /\ d.im.node[j].ref = c.im.node[j].ref
            /\ d.im.node[j].pend = c.im.node[j].pend /\ d.im.node[j].blk = c.im.node[j].blk
            /\ j # dir => d.im.node[j] = c.im.node[j]
  <2>1. dir \in DOMAIN c.im.node /\ c.im.node \in Tables(Inodes, NodeSet)
    BY <1>2
  <2> QED
    BY <1>3, <1>5, <2>1, EntsMove
<1>7. d.im \in Image
  BY <1>5, CommandUpdates
<1>8. ASSUME NEW x PROVE Links(d.im, x) + OneIf(x = i) = Links(c.im, x)
  <2> DropsEntry(c.im, d.im, dir, name)
    BY <1>4, <1>5, <1>6 DEF DropsEntry
  <2>1. Links(d.im, x) + OneIf(c.im.node[dir].ents[name] = x) = Links(c.im, x)
    BY <1>2, <1>7, LinksWithoutEntry
  <2>2. OneIf(c.im.node[dir].ents[name] = x) = OneIf(x = i)
    BY DEF OneIf
  <2> QED
    BY <2>1, <2>2
<1>9. InodesCounted(d.im, {i})
  <2>1. FilesAreLeaves(d.im)
    <3>1. FilesAreLeaves(c.im)
      BY <1>2 DEF InodesCounted
    <3>2. \A j \in DOMAIN c.im.node :
             /\ d.im.node[j].dir = c.im.node[j].dir
             /\ DOMAIN d.im.node[j].ents \subseteq DOMAIN c.im.node[j].ents
      BY <1>4, <1>6
    <3>3. DOMAIN d.im.node = DOMAIN c.im.node /\ d.im.root = c.im.root /\ d.im.snap = c.im.snap
      BY <1>5, <1>6
    <3> HIDE DEF d, e
    <3> QED
      BY <3>1, <3>2, <3>3 DEF FilesAreLeaves
  <2>2. ASSUME NEW x \in Inodes \ DOMAIN c.im.node PROVE Links(d.im, x) = 0
    <3>1. Links(c.im, x) = 0 /\ x # i /\ Links(d.im, x) \in Nat
      BY <1>2, <1>7, <2>2, LinksParts DEF InodesCounted
    <3> QED
      BY <1>8, <3>1 DEF OneIf
  <2>3. ASSUME NEW x \in DOMAIN c.im.node
        PROVE  /\ d.im.node[x].pend = c.im.node[x].pend
               /\ IF c.im.node[x].pend
                  THEN Links(d.im, x) = 0 /\ d.im.node[x].ref = c.im.node[x].ref
                  ELSE /\ d.im.node[x].ref >= 1
                       /\ d.im.node[x].ref + Links(c.im, x) + OneIf(x \in {})
                             = c.im.node[x].ref + Links(d.im, x) + OneIf(x \in {i})
    <3>1. /\ InodeCounted(c.im, {}, x) /\ Links(c.im, x) \in Nat /\ Links(d.im, x) \in Nat
          /\ Links(d.im, x) + OneIf(x = i) = Links(c.im, x) /\ c.im.node[x].ref \in Nat
      BY <1>2, <1>7, <1>8, LinksParts, ImageFields, NodeFields DEF InodesCounted
    <3>2. d.im.node[x].pend = c.im.node[x].pend /\ d.im.node[x].ref = c.im.node[x].ref
      BY <1>6
    <3>3. CASE c.im.node[x].pend
      <4>1. x # i
        BY <1>2, <3>3
      <4> QED
        BY <3>1, <3>2, <3>3, <4>1 DEF InodeCounted, OneIf
    <3>4. CASE ~c.im.node[x].pend
      BY <3>1, <3>2, <3>4 DEF InodeCounted, OneIf
    <3> QED
      BY <3>3, <3>4
  <2> QED
    BY <1>2, <1>6, <1>7, <2>1, <2>2, <2>3, StillCounted
<1>10. BlocksCounted(d.im)
  BY <1>2, <1>5, <1>6, <1>7, SameBlocksCounted
<1>11. Outcome(r, {i}) /\ SameTree(d.im, r.im)
  <2>1. Listing \in Content /\ dir \in DOMAIN d.im.node
    BY <1>6 DEF Content
  <2> QED
    BY <1>1, <1>5, <1>9, <1>10, <2>1, DataKeepsCounts
<1>12. Pending(d.im) = Pending(c.im) /\ (Lone(c.im) => Lone(d.im))
  BY <1>5, <1>6 DEF Pending, Lone
<1>13. /\ i \in DOMAIN r.im.node /\ ~r.im.node[i].pend /\ r.im.node[i].ref = c.im.node[i].ref
  <2>1. i \in DOMAIN c.im.node /\ ~c.im.node[i].pend
    BY <1>2
  <2>2. i \in DOMAIN d.im.node /\ ~d.im.node[i].pend /\ d.im.node[i].ref = c.im.node[i].ref
    BY <1>6, <2>1
  <2> QED
    BY <1>11, <2>2 DEF SameTree
<1> QED
  BY <1>11, <1>12, <1>13, SameTreeLone DEF Leaves, r

-----------------------------------------------------------------------------
\* What a command finds when it has come to the directory of its path.

\* The copied tree leads everywhere the tree led.
LEMMA MirroredLookup ==
    ASSUME WorkOK, NEW a \in Image, NEW b \in Image, NEW o, Mirrors(a, b, o),
           NEW p \in Seq(Name), Lookup(a, p) \in DOMAIN a.node
    PROVE  Lookup(b, p) \in DOMAIN b.node /\ o[Lookup(b, p)] = Lookup(a, p)
<1> DEFINE k == Len(p)
<1>1. k \in Nat
  BY LenProperties
<1>2. PICK f : Walk(a, a.root, p, f) /\ Lookup(a, p) = f[k]
  BY ImageFields, LookupWalks DEF k, Lookup
<1>3. PICK g : Walk(b, b.root, p, g) /\ Lookup(b, p) = g[k]
  BY ImageFields, LookupWalks DEF k, Lookup
<1>4. /\ f[0] = a.root /\ \A n \in 1..k : f[n] = NextInode(a, f[n - 1], p[n])
      /\ g[0] = b.root /\ \A n \in 1..k : g[n] = NextInode(b, g[n - 1], p[n])
  BY <1>2, <1>3 DEF Walk, k
<1>5. 0 \notin DOMAIN a.node
  BY Sizes, ImageFields
<1> HIDE DEF k
<1> DEFINE T == {n \in 0..k : f[n] \in DOMAIN a.node => g[n] \in DOMAIN b.node /\ o[g[n]] = f[n]}
<1>6. 0 \in T
  BY <1>1, <1>4 DEF Mirrors
<1>7. ASSUME NEW n \in 0..k, n < k, n \in T PROVE n + 1 \in T
  <2>1. n + 1 \in 1..k /\ n + 1 \in 0..k /\ (n + 1) - 1 = n
    BY <1>1, <1>7
  <2>2. f[n + 1] = NextInode(a, f[n], p[n + 1]) /\ g[n + 1] = NextInode(b, g[n], p[n + 1])
    BY <1>4, <2>1
  <2>3. ASSUME f[n + 1] \in DOMAIN a.node
        PROVE  g[n + 1] \in DOMAIN b.node /\ o[g[n + 1]] = f[n + 1]
    <3>1. /\ f[n] \in DOMAIN a.node /\ p[n + 1] \in DOMAIN a.node[f[n]].ents
          /\ f[n + 1] = a.node[f[n]].ents[p[n + 1]]
      BY <1>5, <2>2, <2>3 DEF NextInode, Has
    <3>2. g[n] \in DOMAIN b.node /\ o[g[n]] = f[n]
      BY <1>7, <3>1
    <3>3. NodeMirrors(a, b, o, b.node[g[n]], f[n])
      BY <3>2 DEF Mirrors
    <3>4. /\ p[n + 1] \in DOMAIN b.node[g[n]].ents
          /\ b.node[g[n]].ents[p[n + 1]] \in DOMAIN b.node
          /\ o[b.node[g[n]].ents[p[n + 1]]] = f[n + 1]
      BY <3>1, <3>3 DEF NodeMirrors
    <3> QED
      BY <2>2, <3>2, <3>4 DEF NextInode, Has
  <2> QED
    BY <2>1, <2>3
<1> HIDE DEF T
<1>8. k \in T
  <2>1. 0..k \subseteq T
    BY <1>1, <1>6, <1>7, UpToInduction
  <2> QED
    BY <1>1, <2>1
<1> QED
  BY <1>2, <1>3, <1>8 DEF T

\* A file or an empty directory is never copied on the way to its parent: the entry
\* there names it as before.
LEMMA EntryFound ==
    ASSUME WorkOK, NEW a \in Image, NEW c, NEW o, NEW d, Walked(a, c, o, d),
           NEW name \in DOMAIN a.node[d].ents, DOMAIN a.node[a.node[d].ents[name]].ents = {}
    PROVE  /\ c.at \in DOMAIN c.im.node /\ name \in DOMAIN c.im.node[c.at].ents
           /\ c.im.node[c.at].ents[name] = a.node[d].ents[name]
<1> DEFINE i == a.node[d].ents[name]
           e == c.im.node[c.at].ents[name]
<1>1. Mirrors(a, c.im, o) /\ c.at \in DOMAIN c.im.node /\ o[c.at] = d
  BY DEF Walked, Stands
<1>2. NodeMirrors(a, c.im, o, c.im.node[c.at], d)
  BY <1>1 DEF Mirrors
<1>3. name \in DOMAIN c.im.node[c.at].ents /\ e \in DOMAIN c.im.node /\ o[e] = i
  BY <1>2 DEF NodeMirrors
<1>4. CASE e \in DOMAIN a.node
  BY <1>1, <1>3, <1>4 DEF Mirrors
<1>5. CASE e \notin DOMAIN a.node
  <2>1. o[e] = d \/ DOMAIN a.node[o[e]].ents # {}
    BY <1>3, <1>5 DEF Walked
  <2> QED
    BY <1>3, <2>1
<1> QED
  BY <1>1, <1>3, <1>4, <1>5

\* A directory without the name stays one.
LEMMA NoEntryFound ==
    ASSUME WorkOK, NEW a \in Image, NEW p \in Seq(Name), Absent(a, p), NEW c, NEW o,
           Walked(a, c, o, Lookup(a, Front(p)))
    PROVE  /\ c.at \in DOMAIN c.im.node /\ c.im.node[c.at].dir
           /\ Last(p) \in Name /\ Last(p) \notin DOMAIN c.im.node[c.at].ents
<1> DEFINE d == Lookup(a, Front(p))
<1>1. p # <<>> /\ d \in DOMAIN a.node /\ a.node[d].dir /\ Lookup(a, p) = 0
  BY DEF Absent, IsDir, Has
<1>2. Mirrors(a, c.im, o) /\ c.at \in DOMAIN c.im.node /\ o[c.at] = d
  BY DEF Walked, Stands
<1>3. NodeMirrors(a, c.im, o, c.im.node[c.at], d)
  BY <1>2 DEF Mirrors
<1>4. Lookup(a, p) = NextInode(a, d, Last(p))
  BY <1>1, ImageFields, LookupLast DEF Lookup
<1> HIDE DEF d
<1>5. Last(p) \notin DOMAIN a.node[d].ents
  <2>1. a.node[d] \in NodeSet
    BY <1>1, ImageFields
  <2>2. a.node[d].ents \in [DOMAIN a.node[d].ents -> Inodes] /\ 0 \notin Inodes
    BY <2>1, NodeFields, Sizes
  <2> QED
    BY <1>1, <1>4, <2>2 DEF NextInode, Has
<1> QED
  BY <1>1, <1>2, <1>3, <1>5, FrontAndLast DEF NodeMirrors

\* A new inode, which nothing names yet, and nothing else that looks different.
Adds(c, r) ==
    /\ r \in Command
    /\ r.ok => /\ r.at \in DOMAIN r.im.node /\ ~r.im.node[r.at].pend /\ Counted(r.im, {r.at})
               /\ (Lone(c.im) => Lone(r.im)) /\ Pending(r.im) = Pending(c.im)
               /\ \A i \in DOMAIN c.im.node :
                     /\ i \in DOMAIN r.im.node
                     /\ r.im.node[i].dir = c.im.node[i].dir /\ r.im.node[i].ents = c.im.node[i].ents

LEMMA NewNodeOK ==
    ASSUME WorkOK, NEW c \in Command, c.ok, Counted(c.im, {}), NEW node \in NodeSet,
           node.ents = <<>>, node.ref = 1, ~node.pend, node.blk = 0
    PROVE  Adds(c, AllocateInode(c, node))
<1> SUFFICES ASSUME NEW r, Allocates(c, node, r) PROVE Adds(c, r)
  BY AllocateInodeOK
<1>1. r \in Command
  BY DEF Allocates
<1>2. CASE ~r.ok
  BY <1>1, <1>2 DEF Adds
<1>3. CASE r.ok
  <2> DEFINE id == r.at
  <2>1. /\ c.im \in Image /\ r.im \in Image /\ id \in Inodes \ DOMAIN c.im.node
        /\ r.im = [c.im EXCEPT !.node = With(c.im.node, id, node)]
    BY <1>1, <1>3, CommandUpdates DEF Allocates
  <2>2. /\ r.im.root = c.im.root /\ r.im.snap = c.im.snap /\ r.im.block = c.im.block
        /\ r.im.node = With(c.im.node, id, node)
    BY <2>1 DEF Image
  <2>3. /\ DOMAIN r.im.node = DOMAIN c.im.node \union {id} /\ r.im.node[id] = node
        /\ \A i \in DOMAIN c.im.node : r.im.node[i] = c.im.node[i]
    BY <2>1, <2>2 DEF With
  <2> HIDE DEF id
  <2>4. InodesCounted(c.im, {}) /\ BlocksCounted(c.im)
    BY DEF Counted
  <2> DEFINE e == <<>>
  <2>5. /\ r.im.node[id].ents = e /\ DOMAIN e = {} /\ ~r.im.node[id].pend /\ r.im.node[id].ref = 1
        /\ r.im.node[id].blk = 0
    BY <2>3
  <2> HIDE DEF e
  <2>6. \A i \in DOMAIN c.im.node :
           /\ r.im.node[i].dir = c.im.node[i].dir /\ r.im.node[i].ents = c.im.node[i].ents
           /\ r.im.node[i].pend = c.im.node[i].pend
           /\ r.im.node[i].ref = c.im.node[i].ref + Cardinality({n \in DOMAIN e : e[n] = i})
    <3>1. ASSUME NEW i PROVE Cardinality({n \in DOMAIN e : e[n] = i}) = 0
      <4>1. {n \in DOMAIN e : e[n] = i} = {}
        BY <2>5
      <4> QED
        BY <4>1, FS_EmptySet
    <3> DEFINE named(i) == Cardinality({n \in DOMAIN e : e[n] = i})
    <3>2. \A i : named(i) = 0
      BY <3>1
    <3>3. ASSUME NEW i \in DOMAIN c.im.node PROVE c.im.node[i].ref \in Nat
      BY <2>1, ImageFields, NodeFields
    <3> HIDE DEF named
    <3>4. \A i \in DOMAIN c.im.node :
             /\ r.im.node[i].dir = c.im.node[i].dir /\ r.im.node[i].ents = c.im.node[i].ents
             /\ r.im.node[i].pend = c.im.node[i].pend
             /\ r.im.node[i].ref = c.im.node[i].ref + named(i)
      BY <2>3, <3>2, <3>3
    <3> QED
      BY <3>4, Zenon DEF named
  <2>7. InodesCounted(r.im, {id})
    <3>1. /\ DOMAIN e \subseteq Name
          /\ \A n \in DOMAIN e : e[n] \in DOMAIN c.im.node /\ ~c.im.node[e[n]].pend
          /\ ~r.im.node[id].dir => DOMAIN e = {}
      BY <2>5
    <3>2. /\ c.im \in Image /\ r.im \in Image /\ id \in Inodes \ DOMAIN c.im.node
          /\ DOMAIN r.im.node = DOMAIN c.im.node \union {id}
          /\ r.im.root = c.im.root /\ r.im.snap = c.im.snap
      BY <2>1, <2>2, <2>3
    <3>3. Joins(c.im, r.im, id, e)
      BY <2>5, <2>6, <3>1, <3>2 DEF Joins
    <3> QED
      BY <2>4, <3>2, <3>3, NewInodeCounted
  <2>8. BlocksCounted(r.im)
    <3>1. \A i \in DOMAIN c.im.node : r.im.node[i].blk = c.im.node[i].blk
      BY <2>3
    <3> QED
      BY <2>1, <2>2, <2>3, <2>4, <2>5, <3>1, NewInodeBlocks
  <2>9. (Lone(c.im) => Lone(r.im)) /\ Pending(r.im) = Pending(c.im)
    BY <2>1, <2>2, <2>3 DEF Lone, Pending
  <2> QED
    BY <1>1, <2>1, <2>3, <2>5, <2>7, <2>8, <2>9 DEF Adds, Counted, id
<1> QED
  BY <1>2, <1>3

LEMMA CloneAdds ==
    ASSUME WorkOK, NEW c \in Command, c.ok, Counted(c.im, {}), NEW src \in DOMAIN c.im.node,
           DOMAIN c.im.node[src].ents = {}
    PROVE  Adds(c, CloneInode(c, src))
<1> SUFFICES ASSUME NEW r, Clones(c, src, r) PROVE Adds(c, r)
  BY CloneInodeOK
<1>1. r.ok => ~r.im.node[r.at].pend
  BY DEF Clones, Pending
<1> QED
  BY <1>1 DEF Adds, Clones

\* The block of a new directory.
LEMMA ListingAdded ==
    ASSUME WorkOK, NEW c, NEW r, Adds(c, r), r.ok
    PROVE  LET l == SetFileData(r, r.at, Listing) IN Adds(c, l) /\ l.at = r.at
<1> DEFINE l == SetFileData(r, r.at, Listing)
<1>1. /\ r \in Command /\ r.at \in DOMAIN r.im.node /\ ~r.im.node[r.at].pend
      /\ InodesCounted(r.im, {r.at}) /\ BlocksCounted(r.im) /\ Listing \in Content
  BY DEF Adds, Counted, Content
<1>2. Outcome(l, {r.at}) /\ l.at = r.at /\ SameTree(r.im, l.im)
  BY <1>1, DataKeepsCounts
<1> HIDE DEF l
<1>3. /\ DOMAIN l.im.node = DOMAIN r.im.node
      /\ \A i \in DOMAIN r.im.node :
            /\ l.im.node[i].dir = r.im.node[i].dir /\ l.im.node[i].ents = r.im.node[i].ents
            /\ l.im.node[i].pend = r.im.node[i].pend
  BY <1>2 DEF SameTree
<1>4. (Lone(r.im) => Lone(l.im)) /\ Pending(l.im) = Pending(r.im)
  BY <1>2, SameTreeLone
<1>5. Adds(c, l)
  BY <1>1, <1>2, <1>3, <1>4 DEF Adds, Outcome
<1> QED
  BY <1>2, <1>5 DEF l

-----------------------------------------------------------------------------
\* releaseInode.

LEMMA EntriesFrom ==
    ASSUME WorkOK, NEW im \in Image, NEW dirs, dirs \subseteq DOMAIN im.node, NEW i
    PROVE  /\ IsFiniteSet(EntriesTo(im, dirs, i)) /\ Cardinality(EntriesTo(im, dirs, i)) \in Nat
           /\ EntriesTo(im, dirs, i) \subseteq Entries(im, i)
           /\ Cardinality(EntriesTo(im, dirs, i))
                 + Cardinality(EntriesTo(im, DOMAIN im.node \ dirs, i)) = Cardinality(Entries(im, i))
<1> DEFINE here == EntriesTo(im, dirs, i)
           there == EntriesTo(im, DOMAIN im.node \ dirs, i)
           all == Entries(im, i)
<1>1. here \union there = all /\ here \intersect there = {}
  BY DEF Entries, EntriesTo
<1>2. IsFiniteSet(all)
  BY LinksParts
<1> HIDE DEF here, there, all
<1>3. here \in SUBSET all /\ there \in SUBSET all
  BY <1>1
<1>4. IsFiniteSet(here) /\ IsFiniteSet(there)
  BY <1>2, <1>3, FS_Subset
<1>5. Cardinality(here) \in Nat /\ Cardinality(there) \in Nat
  BY <1>4, FS_CardinalityType
<1>6. Cardinality(all) = Cardinality(here) + Cardinality(there) - Cardinality({})
  BY <1>1, <1>4, FS_Union
<1>7. Cardinality({}) = 0
  BY FS_EmptySet
<1>8. \A m, n \in Nat : m + n - 0 = m + n
  OBVIOUS
<1>9. Cardinality(here) + Cardinality(there) = Cardinality(all)
  BY ONLY <1>5, <1>6, <1>7, <1>8
<1> QED
  BY <1>3, <1>4, <1>5, <1>9 DEF here, there, all

LEMMA ReleasesType ==
    ASSUME WorkOK, NEW im \in Image, NEW these, NEW gone, gone \subseteq DOMAIN im.node, NEW c
    PROVE  /\ Releases(im, these, gone, c) \in Nat
           /\ Releases(im, these, gone, c)
                 = Cardinality(EntriesTo(im, gone, c)) + OneIf(c \in these)
<1>1. Cardinality(EntriesTo(im, gone, c)) \in Nat
  BY EntriesFrom
<1> QED
  BY <1>1 DEF Releases, OneIf

\* The more is freed, the more is released.
LEMMA ReleasesGrow ==
    ASSUME WorkOK, NEW im \in Image, NEW open, NEW these, NEW gone, NEW more,
           gone \subseteq more, more \subseteq DOMAIN im.node
    PROVE  FreedWith(im, open, these, gone) \subseteq FreedWith(im, open, these, more)
<1> SUFFICES ASSUME NEW c \in FreedWith(im, open, these, gone)
             PROVE  LosesAll(im, these, more, c)
  BY DEF FreedWith
<1> DEFINE n == Releases(im, these, gone, c)
           m == Releases(im, these, more, c)
           few == EntriesTo(im, gone, c)
           many == EntriesTo(im, more, c)
<1>1. few \in SUBSET many
  BY DEF EntriesTo
<1>2. IsFiniteSet(many)
  BY EntriesFrom
<1>3. n = Cardinality(few) + OneIf(c \in these) /\ n \in Nat
  BY ReleasesType
<1>4. m = Cardinality(many) + OneIf(c \in these) /\ m \in Nat
  BY ReleasesType
<1>5. c \in DOMAIN im.node /\ n >= 1 /\ n >= im.node[c].ref
  BY DEF FreedWith, LosesAll
<1>6. im.node[c].ref \in Nat
  BY <1>5, ImageFields, NodeFields
<1>7. m = Releases(im, these, more, c)
  OBVIOUS
<1> HIDE DEF n, m, few, many
<1>8. Cardinality(few) <= Cardinality(many) /\ Cardinality(few) \in Nat /\ Cardinality(many) \in Nat
  BY <1>1, <1>2, FS_Subset, FS_CardinalityType
<1>9. n <= m
  BY <1>3, <1>4, <1>8 DEF OneIf
<1>10. m >= 1 /\ m >= im.node[c].ref
  BY <1>3, <1>4, <1>5, <1>6, <1>9
<1> QED
  BY <1>7, <1>10 DEF LosesAll

\* What is freed is what loses its last reference by what is freed, all of it.
LEMMA FreedIsClosed ==
    ASSUME WorkOK, NEW im \in Image, NEW open, NEW these
    PROVE  LET gone == Freed(im, open, these) IN gone = FreedWith(im, open, these, gone)
<1> DEFINE all == DOMAIN im.node
           k == Cardinality(all)
           S == SUBSET all
           F(gone) == FreedWith(im, open, these, gone)
           step == [n \in 0..k |-> [gone \in S |-> F(gone)]]
           Equal(f) == f = [n \in 0..k |-> IF n = 0 THEN {} ELSE F(f[n - 1])]
           chosen == CHOOSE f : Equal(f)
<1>1. IsFiniteSet(all) /\ k \in Nat
  BY ImageFields, Sizes, FS_Subset, FS_CardinalityType
<1>2. Freed(im, open, these) = chosen[k]
  BY Zenon DEF Freed
<1>3. \A gone \in S : F(gone) \in S
  BY DEF FreedWith
<1>4. ASSUME NEW gone \in S, NEW more \in S, gone \subseteq more PROVE F(gone) \subseteq F(more)
  BY <1>4, ReleasesGrow
<1> HIDE DEF k, F
<1>5. step \in [0..k -> [S -> S]] /\ {} \in S
  BY <1>3
<1>6. PICK f \in [0..k -> S] : Iterates(f, k, {}, step)
  <2> HIDE DEF step
  <2> QED
    BY <1>1, <1>5, UpToRecursion
<1>7. \A n \in 0..k : f[n] = IF n = 0 THEN {} ELSE F(f[n - 1])
  <2> SUFFICES ASSUME NEW n \in 1..k PROVE f[n] = F(f[n - 1])
    BY <1>1, <1>6 DEF Iterates
  <2>1. f[n] = step[n][f[n - 1]] /\ n \in 0..k /\ n - 1 \in 0..k
    <3> HIDE DEF step
    <3> QED
      BY <1>1, <1>6 DEF Iterates
  <2> QED
    BY <1>6, <2>1
<1>8. Equal(f)
  BY <1>6, <1>7
<1>9. Equal(chosen)
  <2> HIDE DEF Equal
  <2> QED
    BY <1>8
<1> HIDE DEF chosen
<1>10. chosen[0] = {} /\ \A n \in 1..k : chosen[n] = F(chosen[n - 1])
  <2>1. 0 \in 0..k /\ \A n \in 1..k : n \in 0..k /\ n # 0
    BY <1>1
  <2>2. \A n \in 0..k : chosen[n] = IF n = 0 THEN {} ELSE F(chosen[n - 1])
    BY <1>9
  <2> HIDE DEF Equal
  <2> QED
    BY <2>1, <2>2
<1> HIDE DEF Equal
<1> DEFINE Full(n) == Cardinality(chosen[n]) >= n \/ F(chosen[n]) \subseteq chosen[n]
           T == {n \in 0..k : chosen[n] \in S /\ chosen[n] \subseteq F(chosen[n]) /\ Full(n)}
<1> HIDE DEF S
<1>11. 0 \in T
  <2>1. 0 \in 0..k /\ chosen[0] \in S /\ chosen[0] \subseteq F(chosen[0])
    BY <1>1, <1>5, <1>10
  <2>2. Cardinality(chosen[0]) >= 0
    BY <1>10, FS_EmptySet
  <2> QED
    BY <2>1, <2>2
<1>12. ASSUME NEW n \in 0..k, n < k, n \in T PROVE n + 1 \in T
  <2> DEFINE now == chosen[n]
             next == chosen[n + 1]
  <2>1. n + 1 \in 1..k /\ n + 1 \in 0..k /\ (n + 1) - 1 = n
    BY <1>1, <1>12
  <2>2. next = F(now) /\ now \in S /\ now \subseteq next
    BY <1>10, <1>12, <2>1
  <2>3. Cardinality(now) >= n \/ next \subseteq now
    BY <1>12, <2>2
  <2> HIDE DEF now, next
  <2>4. next \in S /\ next \subseteq F(next)
    BY <1>3, <1>4, <2>2
  <2>5. CASE next \subseteq now
    <3>1. next = now
      BY <2>2, <2>5
    <3> QED
      BY <2>1, <2>2, <2>4, <3>1 DEF next
  <2>6. CASE ~(next \subseteq now)
    <3>1. IsFiniteSet(next) /\ now \in SUBSET next /\ next # now
      BY <1>1, <2>2, <2>4, <2>6, FS_Subset DEF S
    <3>2. /\ Cardinality(now) <= Cardinality(next) /\ Cardinality(now) # Cardinality(next)
          /\ Cardinality(now) \in Nat /\ Cardinality(next) \in Nat
      BY <3>1, FS_Subset, FS_CardinalityType
    <3>3. Cardinality(next) >= n + 1
      BY <2>3, <2>6, <3>2
    <3> QED
      BY <2>1, <2>4, <3>3 DEF next
  <2> QED
    BY <2>5, <2>6
<1> HIDE DEF T
<1>13. k \in T
  <2>1. 0..k \subseteq T
    BY <1>1, <1>11, <1>12, UpToInduction
  <2> QED
    BY <1>1, <2>1
<1> DEFINE last == chosen[k]
<1>14. last \in S /\ last \subseteq F(last) /\ (Cardinality(last) >= k \/ F(last) \subseteq last)
  BY <1>13 DEF T
<1> HIDE DEF last
<1>15. ASSUME Cardinality(last) >= k PROVE F(last) \subseteq last
  <2>1. last \in SUBSET all /\ Cardinality(last) <= k /\ Cardinality(last) \in Nat
    BY <1>1, <1>14, FS_Subset, FS_CardinalityType DEF S, k
  <2>2. Cardinality(last) = Cardinality(all)
    BY <1>1, <1>15, <2>1 DEF k
  <2>3. last = all
    BY <1>1, <2>1, <2>2, FS_Subset
  <2>4. F(last) \in SUBSET all
    BY <1>3, <1>14 DEF S
  <2> QED
    BY <2>3, <2>4
<1>16. last = F(last)
  BY <1>14, <1>15
<1> QED
  BY <1>2, <1>16 DEF last, F

\* A node that has lost n of its references, all of them or not.
CountedOff(node, n, all) ==
    IF all THEN [node EXCEPT !.ref = 0, !.pend = TRUE] ELSE [node EXCEPT !.ref = @ - n]

LEMMA CountsOff ==
    ASSUME NEW node \in NodeSet, NEW n \in Nat, NEW all \in BOOLEAN, all \/ n <= node.ref
    PROVE  LET x == CountedOff(node, n, all) IN
           /\ x \in NodeSet /\ x.dir = node.dir /\ x.ents = node.ents /\ x.blk = node.blk
           /\ x.up = node.up
           /\ all => x.ref = 0 /\ x.pend
           /\ ~all => x.ref = node.ref - n /\ x.pend = node.pend
<1>1. CASE all
  BY <1>1 DEF CountedOff, NodeSet
<1>2. CASE ~all
  <2>1. node.ref - n \in Nat
    BY <1>2, NodeFields
  <2> QED
    BY <1>2, <2>1 DEF CountedOff, NodeSet
<1> QED
  BY <1>1, <1>2

\* The inodes and the blocks that are left.
LeavesInodes(im, these, gone, r) ==
    /\ r.root = im.root /\ r.snap = im.snap /\ DOMAIN r.node = DOMAIN im.node \ gone
    /\ r.node \in Tables(Inodes, NodeSet)
    /\ \A c \in DOMAIN im.node \ gone :
          /\ r.node[c].dir = im.node[c].dir /\ r.node[c].ents = im.node[c].ents
          /\ r.node[c].blk = im.node[c].blk
          /\ LosesAll(im, these, gone, c) => r.node[c].ref = 0 /\ r.node[c].pend
          /\ ~LosesAll(im, these, gone, c) =>
                /\ r.node[c].ref = im.node[c].ref - Releases(im, these, gone, c)
                /\ r.node[c].pend = im.node[c].pend

UsersGone(im, gone, b) == Cardinality(BlockUsers(im, b) \intersect gone)

LeavesBlocks(im, gone, r) ==
    /\ \A b \in DOMAIN im.block :
          b \in DOMAIN r.block <=> UsersGone(im, gone, b) = 0 \/ UsersGone(im, gone, b) < im.block[b].ref
    /\ DOMAIN r.block \subseteq DOMAIN im.block
    /\ r.block \in Tables(Blocks, BlockSet)
    /\ \A b \in DOMAIN r.block : r.block[b].ref = im.block[b].ref - UsersGone(im, gone, b)

\* Nobody loses more references than it has.
LEMMA LosesNoMore ==
    ASSUME WorkOK, NEW im \in Image, NEW these, NEW gone, gone \subseteq DOMAIN im.node,
           NEW c \in DOMAIN im.node
    PROVE  LosesAll(im, these, gone, c) \/ Releases(im, these, gone, c) <= im.node[c].ref
<1>1. Releases(im, these, gone, c) \in Nat
  BY ReleasesType
<1>2. im.node[c].ref \in Nat
  BY ImageFields, NodeFields
<1> QED
  BY <1>1, <1>2 DEF LosesAll

LEMMA ReleaseInodesLeaves ==
    ASSUME WorkOK, NEW im \in Image, NEW open, NEW these
    PROVE  LET r == ReleaseInodes(im, open, these)
               gone == Freed(im, open, these)
           IN r \in Image /\ LeavesInodes(im, these, gone, r) /\ LeavesBlocks(im, gone, r)
<1> DEFINE gone == Freed(im, open, these)
           left(c) == CountedOff(im.node[c], Releases(im, these, gone, c), LosesAll(im, these, gone, c))
           users(b) == UsersGone(im, gone, b)
           kept == {b \in DOMAIN im.block : users(b) = 0 \/ users(b) < im.block[b].ref}
           node == [c \in DOMAIN im.node \ gone |-> left(c)]
           block == [b \in kept |-> [im.block[b] EXCEPT !.ref = @ - users(b)]]
           r == ReleaseInodes(im, open, these)
<1>1. gone \subseteq DOMAIN im.node
  <2>1. gone = FreedWith(im, open, these, gone)
    BY FreedIsClosed
  <2> HIDE DEF gone
  <2> QED
    BY <2>1 DEF FreedWith
<1>2. r = [im EXCEPT !.node = node, !.block = block]
  BY Zenon DEF ReleaseInodes, CountedOff, UsersGone
<1> HIDE DEF gone, r
<1>3. ASSUME NEW c \in DOMAIN im.node
      PROVE  LET x == left(c) IN
             /\ x \in NodeSet /\ x.dir = im.node[c].dir /\ x.ents = im.node[c].ents
             /\ x.blk = im.node[c].blk
             /\ LosesAll(im, these, gone, c) => x.ref = 0 /\ x.pend
             /\ ~LosesAll(im, these, gone, c) =>
                   /\ x.ref = im.node[c].ref - Releases(im, these, gone, c)
                   /\ x.pend = im.node[c].pend
  <2> DEFINE n == Releases(im, these, gone, c)
             all == LosesAll(im, these, gone, c)
  <2>1. im.node[c] \in NodeSet
    BY ImageFields
  <2>2. n \in Nat
    BY <1>1, ReleasesType
  <2>3. all \/ n <= im.node[c].ref
    BY <1>1, LosesNoMore
  <2>4. all \in BOOLEAN
    BY DEF LosesAll
  <2> HIDE DEF n, all
  <2> QED
    BY <2>1, <2>2, <2>3, <2>4, CountsOff DEF n, all
<1> HIDE DEF left
<1>4. DOMAIN node = DOMAIN im.node \ gone /\ \A c \in DOMAIN im.node \ gone : node[c] = left(c)
  OBVIOUS
<1>5. DOMAIN im.node \subseteq Inodes /\ DOMAIN im.block \subseteq Blocks
  BY ImageFields
<1> HIDE DEF node
<1>6. node \in Tables(Inodes, NodeSet)
  <2>1. DOMAIN node \subseteq Inodes
    BY <1>4, <1>5
  <2>2. node \in [DOMAIN node -> NodeSet]
    <3>1. \A c \in DOMAIN node : node[c] \in NodeSet
      BY <1>3, <1>4
    <3>2. node = [c \in DOMAIN node |-> node[c]]
      BY DEF node
    <3> QED
      BY <3>1, <3>2
  <2> QED
    BY <2>1, <2>2, InTables
<1>7. ASSUME NEW b \in DOMAIN im.block
      PROVE  /\ im.block[b] \in BlockSet /\ users(b) \in Nat
  <2>1. IsFiniteSet(BlockUsers(im, b)) /\ BlockUsers(im, b) \intersect gone \in SUBSET BlockUsers(im, b)
    BY UsersAreFinite
  <2>2. IsFiniteSet(BlockUsers(im, b) \intersect gone)
    BY <2>1, FS_Subset
  <2> QED
    BY <2>2, ImageFields, FS_CardinalityType DEF UsersGone
<1>8. DOMAIN block = kept /\ \A b \in kept : block[b] = [im.block[b] EXCEPT !.ref = @ - users(b)]
  OBVIOUS
<1>9. \A b \in DOMAIN im.block : b \in kept <=> users(b) = 0 \/ users(b) < im.block[b].ref
  OBVIOUS
<1>10. kept \subseteq DOMAIN im.block
  OBVIOUS
<1> HIDE DEF kept, users
<1>11. ASSUME NEW b \in kept
       PROVE  block[b] \in BlockSet /\ block[b].ref = im.block[b].ref - users(b)
  <2>1. /\ im.block[b].ref \in Nat /\ im.block[b] \in BlockSet /\ users(b) \in Nat
        /\ (users(b) = 0 \/ users(b) < im.block[b].ref)
    BY <1>7, <1>9, <1>10 DEF BlockSet
  <2>2. im.block[b].ref - users(b) \in Nat
    BY <2>1
  <2>3. block[b] = [im.block[b] EXCEPT !.ref = @ - users(b)]
    BY <1>8
  <2> HIDE DEF block
  <2> QED
    BY <2>1, <2>2, <2>3 DEF BlockSet
<1>12. block \in Tables(Blocks, BlockSet)
  <2>1. DOMAIN block \subseteq Blocks
    BY <1>5, <1>8, <1>10
  <2>2. block \in [DOMAIN block -> BlockSet]
    <3>1. \A b \in DOMAIN block : block[b] \in BlockSet
      BY <1>8, <1>11
    <3>2. block = [b \in DOMAIN block |-> block[b]]
      OBVIOUS
    <3> HIDE DEF block
    <3> QED
      BY <3>1, <3>2
  <2> QED
    BY <2>1, <2>2, InTables
<1> HIDE DEF block
<1>13. /\ r \in Image /\ r.node = node /\ r.block = block /\ r.root = im.root /\ r.snap = im.snap
  BY <1>2, <1>6, <1>12 DEF Image
<1>14. LeavesInodes(im, these, gone, r)
  BY <1>3, <1>4, <1>6, <1>13 DEF LeavesInodes
<1>15. LeavesBlocks(im, gone, r)
  BY <1>8, <1>9, <1>10, <1>11, <1>12, <1>13 DEF LeavesBlocks, users
<1> QED
  BY <1>13, <1>14, <1>15 DEF gone, r

\* The links of what is left are those that what is gone does not have.
LEMMA LinksLeft ==
    ASSUME WorkOK, NEW im \in Image, NEW these, NEW gone, gone \subseteq DOMAIN im.node,
           NEW r \in Image, LeavesInodes(im, these, gone, r), NEW i
    PROVE  /\ Links(r, i) + Cardinality(EntriesTo(im, gone, i)) = Links(im, i)
           /\ Links(r, i) \in Nat /\ Links(im, i) \in Nat
           /\ Cardinality(EntriesTo(im, gone, i)) \in Nat
<1> DEFINE here == Cardinality(EntriesTo(im, gone, i))
           there == Cardinality(EntriesTo(im, DOMAIN im.node \ gone, i))
<1>1. Entries(r, i) = EntriesTo(im, DOMAIN im.node \ gone, i)
  BY DEF Entries, EntriesTo, LeavesInodes
<1>2. Snaps(r, i) = Snaps(im, i) /\ r.root = im.root
  BY DEF Snaps, LeavesInodes
<1>3. here + there = Cardinality(Entries(im, i)) /\ here \in Nat
  BY EntriesFrom
<1>4. Cardinality(Entries(r, i)) = there
  BY <1>1
<1> HIDE DEF here, there
<1>5. /\ Links(im, i) = Cardinality(Entries(im, i)) + Cardinality(Snaps(im, i)) + OneIf(im.root = i)
      /\ Cardinality(Snaps(im, i)) \in Nat /\ Links(im, i) \in Nat
  BY LinksParts
<1>6. /\ Links(r, i) = Cardinality(Entries(r, i)) + Cardinality(Snaps(r, i)) + OneIf(r.root = i)
      /\ Links(r, i) \in Nat /\ Cardinality(Entries(r, i)) \in Nat
  BY LinksParts
<1>7. Links(r, i) = there + Cardinality(Snaps(im, i)) + OneIf(im.root = i) /\ there \in Nat
  BY <1>2, <1>4, <1>6
<1>8. OneIf(im.root = i) \in Nat
  BY DEF OneIf
<1>9. \A a, b, s, o \in Nat : (b + s + o) + a = (a + b) + s + o
  OBVIOUS
<1>10. Links(r, i) + here = Links(im, i)
  BY ONLY <1>3, <1>5, <1>7, <1>8, <1>9
<1> QED
  BY <1>3, <1>5, <1>6, <1>10 DEF here

LEMMA LeftInodesCounted ==
    ASSUME WorkOK, NEW im \in Image, NEW open, NEW these, InodesCounted(im, these),
           NEW gone, gone = FreedWith(im, open, these, gone),
           NEW r \in Image, LeavesInodes(im, these, gone, r)
    PROVE  InodesCounted(r, {})
<1>1. gone \subseteq DOMAIN im.node /\ \A c \in gone : LosesAll(im, these, gone, c)
  BY DEF FreedWith
<1>2. DOMAIN r.node = DOMAIN im.node \ gone
  BY DEF LeavesInodes
<1>3. ASSUME NEW i
      PROVE  /\ Links(r, i) + Cardinality(EntriesTo(im, gone, i)) = Links(im, i)
             /\ Links(r, i) \in Nat /\ Links(im, i) \in Nat
             /\ Cardinality(EntriesTo(im, gone, i)) \in Nat
             /\ Releases(im, these, gone, i) = Cardinality(EntriesTo(im, gone, i)) + OneIf(i \in these)
  BY <1>1, LinksLeft, ReleasesType
<1>4. ASSUME NEW i \in DOMAIN im.node
      PROVE  InodeCounted(im, these, i) /\ im.node[i].ref \in Nat
  BY ImageFields, NodeFields DEF InodesCounted
<1>5. ASSUME NEW i \in DOMAIN im.node, LosesAll(im, these, gone, i) PROVE Links(r, i) = 0
  <2> DEFINE g == Cardinality(EntriesTo(im, gone, i))
  <2>1. /\ Links(r, i) + g = Links(im, i) /\ Links(r, i) \in Nat /\ g \in Nat /\ Links(im, i) \in Nat
        /\ Releases(im, these, gone, i) = g + OneIf(i \in these)
    BY <1>3
  <2> HIDE DEF g
  <2>2. g + OneIf(i \in these) >= im.node[i].ref
    BY <1>5, <2>1 DEF LosesAll
  <2>3. CASE im.node[i].pend
    BY <1>4, <2>1, <2>3 DEF InodeCounted
  <2>4. CASE ~im.node[i].pend
    BY <1>4, <2>1, <2>2, <2>4 DEF InodeCounted, OneIf
  <2> QED
    BY <2>3, <2>4
<1>6. ASSUME NEW i \in Inodes, Links(r, i) # 0 PROVE i \in DOMAIN r.node
  <2>1. Links(im, i) # 0
    BY <1>3, <1>6
  <2>2. i \in DOMAIN im.node
    BY <2>1 DEF InodesCounted
  <2> QED
    BY <1>1, <1>2, <1>5, <1>6, <2>2
<1>7. ASSUME NEW i \in DOMAIN r.node PROVE InodeCounted(r, {}, i)
  <2> DEFINE g == Cardinality(EntriesTo(im, gone, i))
             n == Releases(im, these, gone, i)
  <2>1. i \in DOMAIN im.node \ gone
    BY <1>2
  <2>2. CASE LosesAll(im, these, gone, i)
    BY <1>5, <2>1, <2>2 DEF LeavesInodes, InodeCounted
  <2>3. CASE ~LosesAll(im, these, gone, i)
    <3>1. r.node[i].ref = im.node[i].ref - n /\ r.node[i].pend = im.node[i].pend
      BY <2>1, <2>3 DEF LeavesInodes
    <3>2. /\ Links(r, i) + g = Links(im, i) /\ Links(r, i) \in Nat /\ g \in Nat /\ Links(im, i) \in Nat
          /\ n = g + OneIf(i \in these)
      BY <1>3
    <3>3. InodeCounted(im, these, i) /\ im.node[i].ref \in Nat
      BY <1>4, <2>1
    <3>4. n = 0 \/ n < im.node[i].ref
      <4>1. n \in Nat
        BY <3>2 DEF OneIf
      <4> QED
        BY <2>3, <3>3, <4>1 DEF LosesAll
    <3> HIDE DEF g, n
    <3>5. CASE im.node[i].pend
      <4>1. Links(im, i) = 0 /\ im.node[i].ref <= 1
        BY <3>3, <3>5 DEF InodeCounted
      <4>2. Links(r, i) = 0 /\ g = 0
        BY <3>2, <4>1
      <4>3. r.node[i].ref <= 1
        BY <3>1, <3>2, <3>3, <4>1, <4>2 DEF OneIf
      <4> QED
        BY <3>1, <3>5, <4>2, <4>3 DEF InodeCounted
    <3>6. CASE ~im.node[i].pend
      <4>1. im.node[i].ref >= 1 /\ im.node[i].ref = Links(im, i) + OneIf(i \in these)
        BY <3>3, <3>6 DEF InodeCounted
      <4>2. r.node[i].ref = Links(r, i) /\ r.node[i].ref >= 1
        BY <3>1, <3>2, <3>3, <3>4, <4>1 DEF OneIf
      <4>3. OneIf(i \in {}) = 0
        BY DEF OneIf
      <4> QED
        BY <3>1, <3>2, <3>6, <4>2, <4>3 DEF InodeCounted
    <3> QED
      BY <3>5, <3>6
  <2> QED
    BY <2>2, <2>3
<1>8. FilesAreLeaves(r)
  <2>1. FilesAreLeaves(im)
    BY DEF InodesCounted
  <2> QED
    BY <2>1 DEF FilesAreLeaves, LeavesInodes
<1> QED
  BY <1>6, <1>7, <1>8 DEF InodesCounted

LEMMA LeftBlocksCounted ==
    ASSUME WorkOK, NEW im \in Image, BlocksCounted(im), NEW these, NEW gone,
           NEW r \in Image, LeavesInodes(im, these, gone, r), LeavesBlocks(im, gone, r)
    PROVE  BlocksCounted(r)
<1> SUFFICES ASSUME NEW b \in Blocks
             PROVE  IF UsersApart(r, 0, b) = {} THEN b \notin DOMAIN r.block
                    ELSE b \in DOMAIN r.block /\ r.block[b].ref = Cardinality(UsersApart(r, 0, b))
  BY DEF BlocksCounted, CountsUsers, LeavesBlocks
<1> DEFINE all == BlockUsers(im, b)
           mine == BlockUsers(im, b) \intersect gone
           rest == all \ mine
<1>1. 0 \notin DOMAIN im.node
  BY Sizes, ImageFields
<1>2. UsersApart(im, 0, b) = all
  BY <1>1 DEF UsersApart, BlockUsers
<1>3. UsersApart(r, 0, b) = rest
  BY <1>1 DEF UsersApart, BlockUsers, LeavesInodes
<1>4. IF all = {} THEN b \notin DOMAIN im.block
      ELSE b \in DOMAIN im.block /\ im.block[b].ref = Cardinality(all)
  BY <1>2 DEF BlocksCounted, CountsUsers
<1>5. IsFiniteSet(all)
  BY UsersAreFinite
<1>6. UsersGone(im, gone, b) = Cardinality(mine)
  BY DEF UsersGone
<1>7. mine \in SUBSET all /\ rest \in SUBSET all /\ mine \intersect rest = {} /\ mine \union rest = all
  OBVIOUS
<1> HIDE DEF all, mine, rest
<1>8. IsFiniteSet(mine) /\ IsFiniteSet(rest)
  BY <1>5, <1>7, FS_Subset
<1>9. /\ Cardinality(all) \in Nat /\ Cardinality(mine) \in Nat /\ Cardinality(rest) \in Nat
      /\ Cardinality(rest) = 0 <=> rest = {}
  BY <1>5, <1>8, FS_CardinalityType, FS_EmptySet
<1>10. Cardinality(all) = Cardinality(mine) + Cardinality(rest)
  <2>1. Cardinality(all) = Cardinality(mine) + Cardinality(rest) - Cardinality({})
    BY <1>7, <1>8, FS_Union
  <2>2. Cardinality({}) = 0
    BY FS_EmptySet
  <2>3. \A m, n \in Nat : m + n - 0 = m + n
    OBVIOUS
  <2> QED
    BY ONLY <1>9, <2>1, <2>2, <2>3
<1>11. CASE all = {}
  <2>1. rest = {} /\ b \notin DOMAIN im.block
    BY <1>4, <1>7, <1>11
  <2> QED
    BY <1>3, <2>1 DEF LeavesBlocks
<1>12. CASE all # {}
  <2>1. /\ b \in DOMAIN im.block /\ im.block[b].ref = Cardinality(all)
        /\ Cardinality(all) # 0
    BY <1>4, <1>5, <1>12, FS_EmptySet
  <2>2. b \in DOMAIN r.block <=> Cardinality(mine) = 0 \/ Cardinality(mine) < Cardinality(all)
    BY <1>6, <2>1 DEF LeavesBlocks
  <2>3. b \in DOMAIN r.block => r.block[b].ref = Cardinality(all) - Cardinality(mine)
    BY <1>6, <2>1 DEF LeavesBlocks
  <2>4. CASE rest = {}
    BY <1>3, <1>9, <1>10, <2>1, <2>2, <2>4
  <2>5. CASE rest # {}
    BY <1>3, <1>9, <1>10, <2>2, <2>3, <2>5
  <2> QED
    BY <2>4, <2>5
<1> QED
  BY <1>11, <1>12

\* releaseInode takes the references away that it is called for, and only those; an
\* inode without references that is left is open or has been waiting before.
ReleasesWell(im, open, these, r) ==
    /\ Counted(r, {}) /\ (Lone(im) => Lone(r)) /\ Pending(r) \subseteq open \union (Pending(im) \ these)

LEMMA ReleaseInodesOK ==
    ASSUME WorkOK, NEW im, NEW open, NEW these, Counted(im, these)
    PROVE  ReleasesWell(im, open, these, ReleaseInodes(im, open, these))
<1> DEFINE r == ReleaseInodes(im, open, these)
           gone == Freed(im, open, these)
<1>1. im \in Image /\ InodesCounted(im, these) /\ BlocksCounted(im)
  BY DEF Counted
<1>2. gone = FreedWith(im, open, these, gone)
  BY <1>1, FreedIsClosed
<1>3. r \in Image /\ LeavesInodes(im, these, gone, r) /\ LeavesBlocks(im, gone, r)
  BY <1>1, ReleaseInodesLeaves
<1> HIDE DEF gone, r
<1>4. InodesCounted(r, {}) /\ BlocksCounted(r)
  BY <1>1, <1>2, <1>3, LeftInodesCounted, LeftBlocksCounted
<1>5. gone \subseteq DOMAIN im.node
  BY <1>2 DEF FreedWith
<1>6. ASSUME Lone(im) PROVE Lone(r)
  <2>1. ASSUME NEW i \in DOMAIN r.node PROVE r.node[i].ref <= 1
    <3>1. i \in DOMAIN im.node /\ i \notin gone /\ im.node[i].ref <= 1
      BY <1>3, <1>6 DEF Lone, LeavesInodes
    <3>2. Releases(im, these, gone, i) \in Nat
      BY <1>1, <1>5, ReleasesType
    <3>3. im.node[i].ref \in Nat
      BY <1>1, <3>1, ImageFields, NodeFields
    <3>4. r.node[i].ref = 0 \/ r.node[i].ref = im.node[i].ref - Releases(im, these, gone, i)
      BY <1>3, <3>1 DEF LeavesInodes
    <3> QED
      BY <3>1, <3>2, <3>3, <3>4
  <2> QED
    BY <1>3, <1>6, <2>1 DEF Lone, LeavesInodes
<1>7. ASSUME NEW i \in Pending(r), i \notin open PROVE i \in Pending(im) \ these
  <2>1. i \in DOMAIN r.node /\ r.node[i].pend /\ i \in DOMAIN im.node /\ i \notin gone
    BY <1>3 DEF Pending, LeavesInodes
  <2>2. ~LosesAll(im, these, gone, i)
    BY <1>2, <1>7, <2>1 DEF FreedWith
  <2>3. im.node[i].pend
    BY <1>3, <2>1, <2>2 DEF LeavesInodes
  <2>4. ASSUME i \in these PROVE FALSE
    <3>1. Releases(im, these, gone, i) = Cardinality(EntriesTo(im, gone, i)) + 1
      BY <1>1, <1>5, <2>4, ReleasesType DEF OneIf
    <3>2. Cardinality(EntriesTo(im, gone, i)) \in Nat
      BY <1>1, <1>5, EntriesFrom
    <3>3. im.node[i].ref <= 1 /\ im.node[i].ref \in Nat
      BY <1>1, <2>1, <2>3, ImageFields, NodeFields DEF InodesCounted, InodeCounted
    <3> QED
      BY <2>2, <3>1, <3>2, <3>3 DEF LosesAll
  <2> QED
    BY <2>1, <2>3, <2>4 DEF Pending
<1> QED
  BY <1>3, <1>4, <1>6, <1>7 DEF ReleasesWell, Counted, r

-----------------------------------------------------------------------------
\* The commands.  Each ends, if it does not fail, with a counted image that shares
\* nothing when nothing was shared, and in which no inode waits for a close but
\* those that did before and those of waiting.

Follows(im, r, waiting) ==
    /\ Counted(r, {}) /\ (Lone(im) => Lone(r))
    /\ Pending(r) \subseteq Pending(im) \union waiting

Ends(im, c, waiting) == c \in Command /\ (c.ok => Follows(im, c.im, waiting))

LEMMA PathEnds ==
    ASSUME NEW im, NEW i, NEW c, CopiesPath(im, i, c)
    PROVE  /\ Ends(im, c, {})
           /\ c.ok => /\ Counted(c.im, {}) /\ (Lone(im) => Lone(c.im)) /\ Pending(c.im) = Pending(im)
                      /\ \E o : Walked(im, c, o, i)
<1>1. Lone(im) => c.im = im
  BY DEF CopiesPath
<1> QED
  BY <1>1 DEF CopiesPath, Outcome, Ends, Follows

\* A command that gives what it has added a name.
LEMMA EntryEnds ==
    ASSUME WorkOK, NEW im \in Image, NEW p \in Seq(Name), Absent(im, p),
           NEW c, CopiesPath(im, Lookup(im, Front(p)), c),
           NEW r \in Command, r.ok => c.ok /\ Adds(c, r), NEW i, r.ok => i = r.at
    PROVE  Ends(im, WithEntry(r, c.at, Last(p), i), {})
<1> DEFINE e == WithEntry(r, c.at, Last(p), i)
<1>1. CASE ~r.ok
  <2>1. e = r
    BY <1>1 DEF WithEntry
  <2> QED
    BY <1>1, <2>1 DEF Ends, Follows
<1>2. CASE r.ok
  <2> DEFINE d == Lookup(im, Front(p))
  <2>1. c.ok /\ Adds(c, r) /\ i = r.at
    BY <1>2
  <2>2. (Lone(im) => Lone(c.im)) /\ Pending(c.im) = Pending(im) /\ \E o : Walked(im, c, o, d)
    BY <2>1, PathEnds
  <2>3. PICK o : Walked(im, c, o, d)
    BY <2>2
  <2>4. /\ c.at \in DOMAIN c.im.node /\ c.im.node[c.at].dir
        /\ Last(p) \in Name /\ Last(p) \notin DOMAIN c.im.node[c.at].ents
    BY <2>3, NoEntryFound
  <2>5. /\ i \in DOMAIN r.im.node /\ ~r.im.node[i].pend /\ Counted(r.im, {i})
        /\ (Lone(c.im) => Lone(r.im)) /\ Pending(r.im) = Pending(c.im)
        /\ c.at \in DOMAIN r.im.node /\ r.im.node[c.at].dir
        /\ Last(p) \notin DOMAIN r.im.node[c.at].ents
    BY <1>2, <2>1, <2>4 DEF Adds
  <2>6. Enters(r, e)
    BY <1>2, <2>4, <2>5, WithEntryOK
  <2> HIDE DEF e
  <2>7. Ends(im, e, {})
    BY <2>2, <2>5, <2>6 DEF Enters, Outcome, Ends, Follows
  <2> QED
    BY <2>7 DEF e
<1> QED
  BY <1>1, <1>2

LEMMA AllocateFails ==
    ASSUME NEW c \in Command, ~c.ok, NEW node
    PROVE  AllocateInode(c, node) \in Command /\ ~AllocateInode(c, node).ok
<1>1. AllocateInode(c, node) = Throw(c)
  BY DEF AllocateInode
<1> QED
  BY <1>1, ThrowOK

\* What mkdir, touch and cp do once the path is copied.
LEMMA NewNodeEnds ==
    ASSUME WorkOK, NEW im \in Image, NEW p \in Seq(Name), Absent(im, p),
           NEW c, CopiesPath(im, Lookup(im, Front(p)), c),
           NEW node \in NodeSet, node.ents = <<>>, node.ref = 1, ~node.pend, node.blk = 0
    PROVE  LET new == AllocateInode(c, node)
               listed == IF new.ok THEN SetFileData(new, new.at, Listing) ELSE new
           IN /\ Ends(im, WithEntry(new, c.at, Last(p), new.at), {})
              /\ Ends(im, WithEntry(listed, c.at, Last(p), new.at), {})
<1> DEFINE new == AllocateInode(c, node)
           filled == SetFileData(new, new.at, Listing)
           listed == IF new.ok THEN filled ELSE new
<1>1. c \in Command
  BY DEF CopiesPath, Outcome
<1>2. new \in Command /\ (new.ok => c.ok /\ Adds(c, new))
  <2>1. CASE c.ok
    <3>1. Counted(c.im, {})
      BY <2>1 DEF CopiesPath, Outcome
    <3>2. Adds(c, new)
      BY <1>1, <2>1, <3>1, NewNodeOK
    <3> HIDE DEF new
    <3> QED
      BY <2>1, <3>2 DEF Adds
  <2>2. CASE ~c.ok
    BY <1>1, <2>2, AllocateFails
  <2> QED
    BY <2>1, <2>2
<1> HIDE DEF new
<1>3. Ends(im, WithEntry(new, c.at, Last(p), new.at), {})
  BY <1>2, EntryEnds
<1>4. new.ok => Adds(c, filled) /\ filled.at = new.at
  BY <1>2, ListingAdded
<1>5. new.ok => filled \in Command
  BY <1>4 DEF Adds
<1> HIDE DEF filled
<1>6. /\ listed \in Command /\ (listed.ok => c.ok /\ Adds(c, listed))
      /\ listed.ok => new.at = listed.at
  <2>1. CASE new.ok
    BY <1>2, <1>4, <1>5, <2>1
  <2>2. CASE ~new.ok
    BY <1>2, <2>2
  <2> QED
    BY <2>1, <2>2
<1> HIDE DEF listed
<1>7. Ends(im, WithEntry(listed, c.at, Last(p), new.at), {})
  BY <1>6, EntryEnds
<1> QED
  BY <1>3, <1>7 DEF listed, filled, new

LEMMA CopyEnds ==
    ASSUME WorkOK, NEW im \in Image, NEW p \in Seq(Name), Absent(im, p),
           NEW c, CopiesPath(im, Lookup(im, Front(p)), c),
           NEW src \in Seq(Name), IsFile(im, Lookup(im, src)), FilesAreLeaves(im)
    PROVE  LET new == IF c.ok THEN CloneInode(c, Lookup(c.im, src)) ELSE c
           IN Ends(im, WithEntry(new, c.at, Last(p), new.at), {})
<1> DEFINE from == Lookup(c.im, src)
           new == IF c.ok THEN CloneInode(c, from) ELSE c
<1>1. c \in Command
  BY DEF CopiesPath, Outcome
<1>2. new \in Command /\ (new.ok => c.ok /\ Adds(c, new))
  <2>1. CASE c.ok
    <3>1. Counted(c.im, {}) /\ \E o : Walked(im, c, o, Lookup(im, Front(p)))
      BY <2>1, PathEnds
    <3>2. PICK o : Mirrors(im, c.im, o)
      BY <3>1 DEF Walked, Stands
    <3>3. Lookup(im, src) \in DOMAIN im.node /\ ~im.node[Lookup(im, src)].dir /\ c.im \in Image
      BY <3>1 DEF IsFile, Has, Counted
    <3>4. from \in DOMAIN c.im.node /\ o[from] = Lookup(im, src)
      BY <3>2, <3>3, MirroredLookup
    <3> HIDE DEF from
    <3>5. NodeMirrors(im, c.im, o, c.im.node[from], Lookup(im, src))
      BY <3>2, <3>4 DEF Mirrors
    <3>6. DOMAIN c.im.node[from].ents = {}
      BY <3>3, <3>5 DEF NodeMirrors, FilesAreLeaves
    <3>7. Adds(c, CloneInode(c, from))
      BY <1>1, <2>1, <3>1, <3>4, <3>6, CloneAdds
    <3> QED
      BY <2>1, <3>7 DEF Adds
  <2>2. CASE ~c.ok
    BY <1>1, <2>2
  <2> QED
    BY <2>1, <2>2
<1> HIDE DEF new
<1>3. Ends(im, WithEntry(new, c.at, Last(p), new.at), {})
  BY <1>2, EntryEnds
<1> QED
  BY <1>3 DEF new, from

\* Inode i is at path p, and has no entries: it is a file or an empty directory.
Leaf(im, p, i) == p # <<>> /\ i = Lookup(im, p) /\ i \in DOMAIN im.node /\ DOMAIN im.node[i].ents = {}

\* What rm and rmdir do before the release.
LEMMA EntryGone ==
    ASSUME WorkOK, NEW im \in Image, Counted(im, {}), NEW p \in Seq(Name), NEW i, Leaf(im, p, i)
    PROVE  LET c == EnsureMutablePath(im, Front(p))
               r == WithoutEntry(c, c.at, Last(p))
           IN /\ r \in Command
              /\ r.ok => /\ Counted(r.im, {i}) /\ Pending(r.im) = Pending(im)
                         /\ (Lone(im) => Lone(r.im)) /\ i \in DOMAIN r.im.node /\ ~r.im.node[i].pend
<1> DEFINE d == Lookup(im, Front(p))
           c == EnsureMutablePath(im, Front(p))
           r == WithoutEntry(c, c.at, Last(p))
<1>1. p # <<>> /\ i = Lookup(im, p) /\ i \in DOMAIN im.node /\ DOMAIN im.node[i].ents = {}
  BY DEF Leaf
<1>2. CopiesPath(im, d, c)
  BY <1>1, FrontAndLast, EnsureMutablePathOK
<1>3. d \in DOMAIN im.node /\ Last(p) \in DOMAIN im.node[d].ents /\ i = im.node[d].ents[Last(p)]
  <2>1. i = NextInode(im, d, Last(p))
    BY <1>1, ImageFields, LookupLast DEF Lookup
  <2>2. i # 0
    BY <1>1, Sizes, ImageFields
  <2> HIDE DEF d
  <2> QED
    BY <2>1, <2>2 DEF NextInode, Has
<1> HIDE DEF c, d
<1>4. c \in Command
  BY <1>2 DEF CopiesPath, Outcome
<1>5. CASE ~c.ok
  <2>1. r = c
    BY <1>5 DEF WithoutEntry
  <2> HIDE DEF r
  <2> QED
    BY <1>4, <1>5, <2>1 DEF r, c
<1>6. CASE c.ok
  <2>1. /\ Counted(c.im, {}) /\ (Lone(im) => Lone(c.im)) /\ Pending(c.im) = Pending(im)
        /\ \E o : Walked(im, c, o, d)
    BY <1>2, <1>6, PathEnds
  <2>2. PICK o : Walked(im, c, o, d)
    BY <2>1
  <2>3. /\ c.at \in DOMAIN c.im.node /\ Last(p) \in DOMAIN c.im.node[c.at].ents
        /\ c.im.node[c.at].ents[Last(p)] = i
    BY <1>1, <1>3, <2>2, EntryFound
  <2>4. Leaves(c, i, r)
    BY <1>4, <1>6, <2>1, <2>3, WithoutEntryOK
  <2> HIDE DEF r
  <2>5. /\ r \in Command
        /\ r.ok => /\ Counted(r.im, {i}) /\ Pending(r.im) = Pending(im)
                   /\ (Lone(im) => Lone(r.im)) /\ i \in DOMAIN r.im.node /\ ~r.im.node[i].pend
    BY <2>1, <2>4 DEF Leaves, Outcome
  <2> QED
    BY <2>5 DEF r, c
<1> QED
  BY <1>5, <1>6

LEMMA ReleasedEnds ==
    ASSUME WorkOK, NEW im \in Image, NEW r \in Command, NEW i, NEW open,
           r.ok => Counted(r.im, {i}) /\ Pending(r.im) = Pending(im) /\ (Lone(im) => Lone(r.im))
    PROVE  Ends(im, Released(r, open, i), open)
<1>1. CASE ~r.ok
  <2>1. Released(r, open, i) = r
    BY <1>1 DEF Released
  <2> QED
    BY <1>1, <2>1 DEF Ends, Follows
<1>2. CASE r.ok
  <2> DEFINE left == ReleaseInodes(r.im, open, {i})
             e == [r EXCEPT !.im = left]
  <2>1. Released(r, open, i) = e
    BY <1>2 DEF Released, ReleaseInode
  <2>2. ReleasesWell(r.im, open, {i}, left)
    BY <1>2, ReleaseInodesOK
  <2> HIDE DEF left
  <2>3. r.at \in Inodes /\ r.ok \in BOOLEAN /\ left \in Image
    BY <2>2, CommandUpdates DEF ReleasesWell, Counted
  <2>4. e = [im |-> left, at |-> r.at, ok |-> r.ok]
    <3>1. \A x : [r EXCEPT !.im = x] = [im |-> x, at |-> r.at, ok |-> r.ok]
      BY CommandUpdates
    <3> QED
      BY <3>1
  <2> HIDE DEF e
  <2>5. e \in Command /\ e.im = left /\ e.ok = r.ok
    BY <2>3, <2>4 DEF Command
  <2>6. Ends(im, e, open)
    BY <1>2, <2>2, <2>5 DEF Ends, Follows, ReleasesWell
  <2> QED
    BY <2>1, <2>6
<1> QED
  BY <1>1, <1>2

\* A file that is open loses its last entry and waits.
LEMMA WaitingEnds ==
    ASSUME WorkOK, NEW im \in Image, Lone(im), NEW r \in Command, NEW i,
           r.ok => /\ Counted(r.im, {i}) /\ Pending(r.im) = Pending(im) /\ (Lone(im) => Lone(r.im))
                   /\ i \in DOMAIN r.im.node /\ ~r.im.node[i].pend,
           r.ok
    PROVE  Ends(im, [r EXCEPT !.im.node[i].pend = TRUE], {i})
<1> DEFINE b == r.im
           node == [b.node EXCEPT ![i].pend = TRUE]
           image == [b EXCEPT !.node = node]
           e == [r EXCEPT !.im = image]
<1>1. /\ b \in Image /\ InodesCounted(b, {i}) /\ BlocksCounted(b) /\ Lone(b)
      /\ i \in DOMAIN b.node /\ ~b.node[i].pend /\ Pending(b) = Pending(im)
  BY DEF Counted
<1>2. [r EXCEPT !.im.node[i].pend = TRUE] = e
  <2> DEFINE A == Image
             B == Inodes
             C == BOOLEAN
  <2>1. r \in [im : A, at : B, ok : C]
    BY DEF Command
  <2> HIDE DEF A, B, C
  <2> QED
    BY <2>1
<1>3. /\ r.at \in Inodes /\ r.ok \in BOOLEAN
      /\ \A x : [r EXCEPT !.im = x] = [im |-> x, at |-> r.at, ok |-> r.ok]
  BY CommandUpdates
<1> HIDE DEF b
<1>4. /\ DOMAIN b.node \subseteq Inodes /\ b.node \in [DOMAIN b.node -> NodeSet]
      /\ b.node \in Tables(Inodes, NodeSet) /\ b.node[i] \in NodeSet
  <2>1. DOMAIN b.node \subseteq Inodes /\ b.node \in [DOMAIN b.node -> NodeSet]
    BY <1>1, ImageFields
  <2> QED
    BY <1>1, <2>1, InTables
<1> DEFINE waits == [b.node[i] EXCEPT !.pend = TRUE]
<1>5. /\ waits \in NodeSet /\ waits.pend /\ waits.ref = b.node[i].ref /\ waits.ents = b.node[i].ents
      /\ waits.dir = b.node[i].dir /\ waits.blk = b.node[i].blk
  BY <1>4 DEF NodeSet
<1>6. node = [b.node EXCEPT ![i] = waits]
  OBVIOUS
<1> HIDE DEF waits, node
<1>7. node \in Tables(Inodes, NodeSet)
  BY <1>1, <1>4, <1>5, <1>6, ExceptInTables
<1>8. /\ DOMAIN node = DOMAIN b.node /\ node[i] = waits
      /\ \A j \in DOMAIN b.node \ {i} : node[j] = b.node[j]
  BY <1>1, <1>6
<1>9. image \in Image /\ image.root = b.root /\ image.snap = b.snap /\ image.block = b.block
      /\ image.node = node
  BY <1>1, <1>7 DEF Image
<1> HIDE DEF image
<1>10. \A j \in DOMAIN b.node :
          /\ image.node[j].dir = b.node[j].dir /\ image.node[j].ents = b.node[j].ents
          /\ image.node[j].ref = b.node[j].ref /\ image.node[j].blk = b.node[j].blk
          /\ j # i => image.node[j].pend = b.node[j].pend
          /\ j = i => image.node[j].pend
  BY <1>1, <1>5, <1>8, <1>9
<1>11. ASSUME NEW x PROVE Links(image, x) = Links(b, x)
  <2>1. Entries(image, x) = Entries(b, x) /\ Snaps(image, x) = Snaps(b, x)
    BY <1>8, <1>9, <1>10 DEF Entries, EntriesTo, Snaps
  <2> QED
    BY <1>1, <1>9, <2>1, LinksParts
<1>12. InodesCounted(image, {})
  <2>1. FilesAreLeaves(image)
    BY <1>1, <1>8, <1>9, <1>10 DEF InodesCounted, FilesAreLeaves
  <2>2. \A x \in Inodes : Links(image, x) # 0 => x \in DOMAIN image.node
    BY <1>1, <1>8, <1>9, <1>11 DEF InodesCounted
  <2>3. ASSUME NEW x \in DOMAIN b.node PROVE InodeCounted(image, {}, x)
    <3>1. InodeCounted(b, {i}, x) /\ Links(b, x) \in Nat /\ Links(image, x) = Links(b, x)
      BY <1>1, <1>11, LinksParts DEF InodesCounted
    <3>2. b.node[x].ref \in Nat /\ b.node[x].ref <= 1
      BY <1>1, <1>4, NodeFields DEF Lone
    <3>3. CASE x = i
      <4>1. b.node[x].ref = Links(b, x) + 1
        BY <1>1, <3>1, <3>3 DEF InodeCounted, OneIf
      <4>2. Links(b, x) = 0
        BY <3>1, <3>2, <4>1
      <4> QED
        BY <1>10, <3>1, <3>2, <3>3, <4>2 DEF InodeCounted
    <3>4. CASE x # i
      <4>1. image.node[x].pend = b.node[x].pend /\ image.node[x].ref = b.node[x].ref
        BY <1>10, <3>4
      <4>2. OneIf(x \in {i}) = OneIf(x \in {})
        BY <3>4 DEF OneIf
      <4> QED
        BY <3>1, <4>1, <4>2 DEF InodeCounted
    <3> QED
      BY <3>3, <3>4
  <2> QED
    BY <1>8, <1>9, <2>1, <2>2, <2>3 DEF InodesCounted
<1>13. BlocksCounted(image)
  BY <1>1, <1>8, <1>9, <1>10, SameBlocksCounted
<1>14. Lone(image) /\ Pending(image) = Pending(im) \union {i}
  BY <1>1, <1>8, <1>9, <1>10 DEF Lone, Pending
<1>15. e = [im |-> image, at |-> r.at, ok |-> r.ok]
  BY <1>3
<1> HIDE DEF e
<1>16. e \in Command /\ e.im = image
  BY <1>3, <1>9, <1>15 DEF Command
<1>17. Ends(im, e, {i})
  BY <1>9, <1>12, <1>13, <1>14, <1>16 DEF Ends, Follows, Counted
<1> QED
  BY <1>2, <1>17

\* A file is not at the root.
LEMMA FileIsLeaf ==
    ASSUME WorkOK, NEW im \in Image, Counted(im, {}), NEW p \in Seq(Name), IsFile(im, Lookup(im, p))
    PROVE  Leaf(im, p, Lookup(im, p))
<1>1. FilesAreLeaves(im)
  BY DEF Counted, InodesCounted
<1>2. Lookup(im, <<>>) = im.root
  BY ImageFields, LookupEmpty DEF Lookup
<1>3. /\ Lookup(im, p) \in DOMAIN im.node /\ DOMAIN im.node[Lookup(im, p)].ents = {}
      /\ Lookup(im, p) # im.root
  BY <1>1 DEF IsFile, Has, FilesAreLeaves
<1> QED
  BY <1>2, <1>3 DEF Leaf

\* rm, of a file that is open here or not.
LEMMA DeleteEnds ==
    ASSUME WorkOK, NEW im \in Image, Counted(im, {}), NEW p \in Seq(Name),
           IsFile(im, Lookup(im, p)), NEW held, Lookup(im, p) \in held => Lone(im)
    PROVE  LET i == Lookup(im, p)
               c == EnsureMutablePath(im, Front(p))
               gone == WithoutEntry(c, c.at, Last(p))
           IN Ends(im, IF ~gone.ok THEN gone
                       ELSE IF i \in held THEN [gone EXCEPT !.im.node[i].pend = TRUE]
                       ELSE Released(gone, {}, i), held)
<1> DEFINE i == Lookup(im, p)
           c == EnsureMutablePath(im, Front(p))
           gone == WithoutEntry(c, c.at, Last(p))
           waiting == [gone EXCEPT !.im.node[i].pend = TRUE]
           released == Released(gone, {}, i)
<1>1. Leaf(im, p, i)
  BY FileIsLeaf
<1>2. /\ gone \in Command
      /\ gone.ok => /\ Counted(gone.im, {i}) /\ Pending(gone.im) = Pending(im)
                    /\ (Lone(im) => Lone(gone.im))
                    /\ i \in DOMAIN gone.im.node /\ ~gone.im.node[i].pend
  <2> HIDE DEF i
  <2> QED
    BY <1>1, EntryGone
<1>3. i \in held => Lone(im)
  OBVIOUS
<1> HIDE DEF gone, i
<1>4. CASE ~gone.ok
  BY <1>2, <1>4 DEF Ends, Follows, gone, i
<1>5. CASE gone.ok /\ i \in held
  <2>1. Ends(im, waiting, {i})
    BY <1>2, <1>3, <1>5, WaitingEnds
  <2> HIDE DEF waiting
  <2>2. Ends(im, waiting, held)
    BY <1>5, <2>1 DEF Ends, Follows
  <2> QED
    BY <1>5, <2>2 DEF waiting, gone, i
<1>6. CASE gone.ok /\ i \notin held
  <2>1. Ends(im, released, {})
    BY <1>2, ReleasedEnds
  <2> HIDE DEF released
  <2>2. Ends(im, released, held)
    BY <2>1 DEF Ends, Follows
  <2> QED
    BY <1>6, <2>2 DEF released, gone, i
<1> QED
  BY <1>4, <1>5, <1>6

LEMMA RmdirEnds ==
    ASSUME WorkOK, NEW im \in Image, Counted(im, {}), NEW p \in Seq(Name), p # <<>>,
           IsDir(im, Lookup(im, p)), DOMAIN im.node[Lookup(im, p)].ents = {}, NEW open
    PROVE  LET c == EnsureMutablePath(im, Front(p))
           IN Ends(im, Released(WithoutEntry(c, c.at, Last(p)), open, Lookup(im, p)), open)
<1> DEFINE i == Lookup(im, p)
           c == EnsureMutablePath(im, Front(p))
           gone == WithoutEntry(c, c.at, Last(p))
<1>1. Leaf(im, p, i)
  BY DEF Leaf, IsDir, Has
<1>2. /\ gone \in Command
      /\ gone.ok => /\ Counted(gone.im, {i}) /\ Pending(gone.im) = Pending(im)
                    /\ (Lone(im) => Lone(gone.im))
  <2> HIDE DEF i
  <2> QED
    BY <1>1, EntryGone
<1> HIDE DEF gone, i
<1>3. Ends(im, Released(gone, open, i), open)
  BY <1>2, ReleasedEnds
<1> QED
  BY <1>3 DEF gone, i

\* New contents for what is at a path, once it is copied.
LEMMA DataEnds ==
    ASSUME WorkOK, NEW im \in Image, NEW i, NEW c, CopiesPath(im, i, c), c.ok, NEW d \in Content
    PROVE  Ends(im, SetFileData(c, c.at, d), {}) /\ c.at \in Inodes
<1> DEFINE r == SetFileData(c, c.at, d)
<1>1. /\ Counted(c.im, {}) /\ (Lone(im) => Lone(c.im)) /\ Pending(c.im) = Pending(im)
      /\ \E o : Walked(im, c, o, i)
  BY PathEnds
<1>2. c \in Command /\ c.at \in DOMAIN c.im.node /\ InodesCounted(c.im, {}) /\ BlocksCounted(c.im)
  BY <1>1 DEF CopiesPath, Outcome, Walked, Stands, Counted
<1>3. Outcome(r, {}) /\ SameTree(c.im, r.im)
  BY <1>2, DataKeepsCounts
<1> HIDE DEF r
<1>4. Ends(im, r, {})
  BY <1>1, <1>3, SameTreeLone DEF Outcome, Ends, Follows
<1>5. c.at \in Inodes
  BY <1>2, CommandUpdates
<1> QED
  BY <1>4, <1>5 DEF r

LEMMA DataFails ==
    ASSUME NEW c, ~c.ok, NEW i, NEW d
    PROVE  SetFileData(c, i, d) = c
BY DEF SetFileData

-----------------------------------------------------------------------------
\* Snapshots.

\* References come to the inodes of gain and leave those of lose, at most one each.
Shifts(im, other, gain, lose) ==
    /\ \A x : Links(other, x) + OneIf(x \in lose) = Links(im, x) + OneIf(x \in gain)
    /\ DOMAIN other.node = DOMAIN im.node /\ other.block = im.block
    /\ \A j \in DOMAIN im.node :
          /\ other.node[j].dir = im.node[j].dir /\ other.node[j].pend = im.node[j].pend
          /\ other.node[j].blk = im.node[j].blk
          /\ other.node[j].ref = im.node[j].ref + OneIf(j \in gain)
    /\ \A j \in gain \union lose : j \in DOMAIN im.node /\ ~im.node[j].pend
    /\ FilesAreLeaves(other)

LEMMA ShiftCounted ==
    ASSUME WorkOK, NEW im, Counted(im, {}), NEW other \in Image, NEW gain, NEW lose,
           Shifts(im, other, gain, lose)
    PROVE  Counted(other, lose) /\ Pending(other) = Pending(im)
<1>1. im \in Image /\ InodesCounted(im, {}) /\ BlocksCounted(im)
  BY DEF Counted
<1>2. /\ \A x : Links(other, x) + OneIf(x \in lose) = Links(im, x) + OneIf(x \in gain)
      /\ DOMAIN other.node = DOMAIN im.node /\ other.block = im.block
      /\ \A j \in DOMAIN im.node :
            /\ other.node[j].dir = im.node[j].dir /\ other.node[j].pend = im.node[j].pend
            /\ other.node[j].blk = im.node[j].blk
            /\ other.node[j].ref = im.node[j].ref + OneIf(j \in gain)
      /\ \A j \in gain \union lose : j \in DOMAIN im.node /\ ~im.node[j].pend
      /\ FilesAreLeaves(other)
  BY DEF Shifts
<1>3. ASSUME NEW i PROVE Links(im, i) \in Nat /\ Links(other, i) \in Nat
  BY <1>1, LinksParts
<1>4. ASSUME NEW i \in Inodes \ DOMAIN im.node PROVE Links(other, i) = 0
  <2>1. Links(im, i) = 0 /\ i \notin gain /\ i \notin lose
    BY <1>1, <1>2, <1>4 DEF InodesCounted
  <2>2. Links(other, i) + OneIf(i \in lose) = Links(im, i) + OneIf(i \in gain)
    BY <1>2
  <2> QED
    BY <1>3, <2>1, <2>2 DEF OneIf
<1>5. ASSUME NEW i \in DOMAIN im.node
      PROVE  /\ other.node[i].pend = im.node[i].pend
             /\ IF im.node[i].pend
                THEN Links(other, i) = 0 /\ other.node[i].ref = im.node[i].ref
                ELSE /\ other.node[i].ref >= 1
                     /\ other.node[i].ref + Links(im, i) + OneIf(i \in {})
                           = im.node[i].ref + Links(other, i) + OneIf(i \in lose)
  <2>1. InodeCounted(im, {}, i)
    BY <1>1 DEF InodesCounted
  <2>2. im.node[i].ref \in Nat
    BY <1>1, ImageFields, NodeFields
  <2>3. /\ other.node[i].pend = im.node[i].pend
        /\ other.node[i].ref = im.node[i].ref + OneIf(i \in gain)
        /\ Links(other, i) + OneIf(i \in lose) = Links(im, i) + OneIf(i \in gain)
    BY <1>2
  <2>4. CASE im.node[i].pend
    <3>1. i \notin gain /\ i \notin lose /\ Links(im, i) = 0
      BY <1>2, <2>1, <2>4 DEF InodeCounted
    <3> QED
      BY <1>3, <2>2, <2>3, <2>4, <3>1 DEF OneIf
  <2>5. CASE ~im.node[i].pend
    <3>1. im.node[i].ref >= 1
      BY <2>1, <2>5 DEF InodeCounted
    <3> QED
      BY <1>3, <2>2, <2>3, <2>5, <3>1 DEF OneIf
  <2> QED
    BY <2>4, <2>5
<1>6. InodesCounted(other, lose)
  BY <1>1, <1>2, <1>4, <1>5, StillCounted
<1>7. BlocksCounted(other)
  BY <1>1, <1>2, SameBlocksCounted
<1>8. Pending(other) = Pending(im)
  BY <1>2 DEF Pending
<1> QED
  BY <1>6, <1>7, <1>8 DEF Counted

\* The other image is im with one more snapshot.
AddsSnap(im, other, s, o) ==
    /\ s \notin DOMAIN im.snap /\ other.snap = With(im.snap, s, o)
    /\ DOMAIN other.node = DOMAIN im.node /\ other.root = im.root
    /\ \A d \in DOMAIN im.node : other.node[d].ents = im.node[d].ents

LEMMA LinksWithSnap ==
    ASSUME WorkOK, NEW im \in Image, NEW other \in Image, NEW s, NEW o,
           AddsSnap(im, other, s, o), NEW x
    PROVE  Links(other, x) = Links(im, x) + OneIf(x = o)
<1> USE DEF AddsSnap
<1>1. Entries(other, x) = Entries(im, x)
  BY DEF Entries, EntriesTo
<1>2. Snaps(other, x) = IF x = o THEN Snaps(im, x) \union {s} ELSE Snaps(im, x)
  BY DEF Snaps, With
<1>3. IsFiniteSet(Snaps(im, x)) /\ s \notin Snaps(im, x)
  <2>1. s \notin Snaps(im, x)
    BY DEF Snaps
  <2> QED
    BY <2>1, LinksParts
<1>4. Cardinality(Snaps(other, x)) = Cardinality(Snaps(im, x)) + OneIf(x = o)
  <2>1. Cardinality(Snaps(im, x) \union {s}) = Cardinality(Snaps(im, x)) + 1
    BY <1>3, FS_AddElement
  <2>2. Cardinality(Snaps(im, x)) \in Nat
    BY LinksParts
  <2> QED
    BY <1>2, <2>1, <2>2 DEF OneIf
<1>5. /\ Links(im, x) = Cardinality(Entries(im, x)) + Cardinality(Snaps(im, x)) + OneIf(im.root = x)
      /\ Cardinality(Entries(im, x)) \in Nat /\ Cardinality(Snaps(im, x)) \in Nat
  BY LinksParts
<1>6. Links(other, x) = Cardinality(Entries(other, x)) + Cardinality(Snaps(other, x))
                           + OneIf(other.root = x)
  BY LinksParts
<1>7. \A a, b, c, d \in Nat : a + (b + c) + d = a + b + d + c
  OBVIOUS
<1>8. OneIf(im.root = x) \in Nat /\ OneIf(x = o) \in Nat /\ OneIf(other.root = x) = OneIf(im.root = x)
  BY DEF OneIf
<1> QED
  BY ONLY <1>1, <1>4, <1>5, <1>6, <1>7, <1>8

LEMMA LinksWithoutSnap ==
    ASSUME WorkOK, NEW im \in Image, NEW other \in Image, NEW s \in DOMAIN im.snap,
           DOMAIN other.node = DOMAIN im.node, other.root = im.root,
           other.snap = Without(im.snap, s),
           \A d \in DOMAIN im.node : other.node[d].ents = im.node[d].ents,
           NEW x
    PROVE  Links(other, x) + OneIf(x = im.snap[s]) = Links(im, x)
<1>1. Entries(other, x) = Entries(im, x)
  BY DEF Entries, EntriesTo
<1>2. Snaps(other, x) = Snaps(im, x) \ {s}
  BY DEF Snaps, Without, Restrict
<1>3. IsFiniteSet(Snaps(im, x)) /\ (s \in Snaps(im, x) <=> x = im.snap[s])
  <2>1. s \in Snaps(im, x) <=> x = im.snap[s]
    BY DEF Snaps
  <2> QED
    BY <2>1, LinksParts
<1>4. /\ Cardinality(Snaps(other, x)) + OneIf(x = im.snap[s]) = Cardinality(Snaps(im, x))
      /\ Cardinality(Snaps(other, x)) \in Nat
  BY <1>2, <1>3, RemoveOne DEF OneIf
<1>5. /\ Links(im, x) = Cardinality(Entries(im, x)) + Cardinality(Snaps(im, x)) + OneIf(im.root = x)
      /\ Cardinality(Entries(im, x)) \in Nat /\ Cardinality(Snaps(im, x)) \in Nat
  BY LinksParts
<1>6. Links(other, x) = Cardinality(Entries(other, x)) + Cardinality(Snaps(other, x))
                           + OneIf(other.root = x)
  BY LinksParts
<1>7. \A a, b, c, d \in Nat : a + b + d + c = a + (b + c) + d
  OBVIOUS
<1>8. /\ OneIf(im.root = x) \in Nat /\ OneIf(x = im.snap[s]) \in Nat
      /\ OneIf(other.root = x) = OneIf(im.root = x)
  BY DEF OneIf
<1> QED
  BY ONLY <1>1, <1>4, <1>5, <1>6, <1>7, <1>8

\* One more reference to inode o.
CountUp(f, o) == [f EXCEPT ![o].ref = @ + 1]

LEMMA CountsUp ==
    ASSUME NEW f \in Tables(Inodes, NodeSet), NEW o \in DOMAIN f
    PROVE  /\ CountUp(f, o) \in Tables(Inodes, NodeSet) /\ DOMAIN CountUp(f, o) = DOMAIN f
           /\ \A j \in DOMAIN f : LET n == CountUp(f, o)[j] IN
                 /\ n.dir = f[j].dir /\ n.ents = f[j].ents /\ n.up = f[j].up
                 /\ n.pend = f[j].pend /\ n.blk = f[j].blk
                 /\ n.ref = f[j].ref + OneIf(j = o)
<1> DEFINE v == [f[o] EXCEPT !.ref = @ + 1]
           g == [f EXCEPT ![o] = v]
<1>0. CountUp(f, o) = g
  BY DEF CountUp
<1>1. f[o] \in NodeSet /\ \A j \in DOMAIN f : f[j].ref \in Nat
  <2>1. \A j \in DOMAIN f : f[j] \in NodeSet
    BY InTables
  <2> QED
    BY <2>1, NodeFields
<1>2. /\ v \in NodeSet /\ v.dir = f[o].dir /\ v.ents = f[o].ents /\ v.up = f[o].up
      /\ v.pend = f[o].pend /\ v.blk = f[o].blk /\ v.ref = f[o].ref + 1
  BY <1>1 DEF NodeSet
<1> HIDE DEF v
<1>3. g \in Tables(Inodes, NodeSet) /\ DOMAIN g = DOMAIN f /\ g[o] = v
      /\ \A j \in DOMAIN f : j # o => g[j] = f[j]
  BY <1>2, ExceptInTables
<1> HIDE DEF g
<1>4. \A j \in DOMAIN f : f[j].ref + OneIf(j = o) = IF j = o THEN f[o].ref + 1 ELSE f[j].ref
  BY <1>1 DEF OneIf
<1> QED
  BY <1>0, <1>2, <1>3, <1>4

\* What the updates of the model do to an image.
SnapTaken(im, o, s) == [im EXCEPT !.node[o].ref = @ + 1, !.snap = With(@, s, o)]
RootTaken(im, o) == [im EXCEPT !.node[o].ref = @ + 1, !.root = o]

LEMMA TakesSnap ==
    ASSUME NEW im \in Image, NEW o, NEW s
    PROVE  SnapTaken(im, o, s) = [root |-> im.root, node |-> CountUp(im.node, o),
                                  block |-> im.block, snap |-> With(im.snap, s, o)]
<1> DEFINE A == Inodes
           B == Tables(Inodes, NodeSet)
           C == Tables(Blocks, BlockSet)
           D == Tables(Snap, Inodes)
           n == [im.node EXCEPT ![o].ref = @ + 1]
           w == With(im.snap, s, o)
           e == [im EXCEPT !.node = n]
<1>0. im \in [root : A, node : B, block : C, snap : D]
  BY DEF Image
<1> HIDE DEF A, B, C, D
<1>1. [im EXCEPT !.node[o].ref = @ + 1] = e
  BY <1>0
<1>2. SnapTaken(im, o, s) = [e EXCEPT !.snap = w]
  BY <1>0, <1>1 DEF SnapTaken
<1> HIDE DEF n, w
<1>5. e = [root |-> im.root, node |-> n, block |-> im.block, snap |-> im.snap]
  BY <1>0
<1> HIDE DEF e
<1>3. [e EXCEPT !.snap = w] = [root |-> im.root, node |-> n, block |-> im.block, snap |-> w]
  BY <1>5
<1>4. n = CountUp(im.node, o)
  BY Zenon DEF n, CountUp
<1> QED
  BY <1>2, <1>3, <1>4 DEF w

LEMMA TakesRoot ==
    ASSUME NEW im \in Image, NEW o
    PROVE  RootTaken(im, o) = [root |-> o, node |-> CountUp(im.node, o),
                               block |-> im.block, snap |-> im.snap]
<1> DEFINE A == Inodes
           B == Tables(Inodes, NodeSet)
           C == Tables(Blocks, BlockSet)
           D == Tables(Snap, Inodes)
           n == [im.node EXCEPT ![o].ref = @ + 1]
           e == [im EXCEPT !.node = n]
<1>0. im \in [root : A, node : B, block : C, snap : D]
  BY DEF Image
<1> HIDE DEF A, B, C, D
<1>1. [im EXCEPT !.node[o].ref = @ + 1] = e
  BY <1>0
<1>2. RootTaken(im, o) = [e EXCEPT !.root = o]
  BY <1>0, <1>1 DEF RootTaken
<1> HIDE DEF n
<1>5. e = [root |-> im.root, node |-> n, block |-> im.block, snap |-> im.snap]
  BY <1>0
<1> HIDE DEF e
<1>3. [e EXCEPT !.root = o] = [root |-> o, node |-> n, block |-> im.block, snap |-> im.snap]
  BY <1>5
<1>4. n = CountUp(im.node, o)
  BY Zenon DEF n, CountUp
<1> QED
  BY <1>2, <1>3, <1>4

LEMMA SnapshotCreateFollows ==
    ASSUME WorkOK, NEW im, Counted(im, {}), NEW s \in Snap, s \notin DOMAIN im.snap
    PROVE  LET r == [im EXCEPT !.node[im.root].ref = @ + 1, !.snap = With(@, s, im.root)]
           IN Counted(r, {}) /\ Pending(r) = Pending(im)
<1> DEFINE o == im.root
           r == SnapTaken(im, o, s)
           node == CountUp(im.node, o)
           snap == With(im.snap, s, o)
<1>1. im \in Image /\ InodesCounted(im, {})
  BY DEF Counted
<1>2. o \in DOMAIN im.node /\ ~im.node[o].pend /\ o \in Inodes
  BY <1>1, NamedIsThere, ImageFields
<1>3. r = [root |-> o, node |-> node, block |-> im.block, snap |-> snap]
  BY <1>1, TakesSnap
<1>4. im.node \in Tables(Inodes, NodeSet) /\ im.snap \in Tables(Snap, Inodes)
      /\ im.block \in Tables(Blocks, BlockSet)
  BY <1>1 DEF Image
<1>5. /\ node \in Tables(Inodes, NodeSet) /\ DOMAIN node = DOMAIN im.node
      /\ \A j \in DOMAIN im.node :
            /\ node[j].dir = im.node[j].dir /\ node[j].ents = im.node[j].ents
            /\ node[j].pend = im.node[j].pend /\ node[j].blk = im.node[j].blk
            /\ node[j].ref = im.node[j].ref + OneIf(j = o)
  BY <1>2, <1>4, CountsUp
<1>6. snap \in Tables(Snap, Inodes)
  BY <1>2, <1>4, WithInTables
<1>7. snap = With(im.snap, s, o)
  OBVIOUS
<1> HIDE DEF node, snap, r
<1>8. r \in Image /\ r.root = o /\ r.node = node /\ r.block = im.block /\ r.snap = snap
  BY <1>2, <1>3, <1>4, <1>5, <1>6 DEF Image
<1>9. ASSUME NEW x PROVE Links(r, x) = Links(im, x) + OneIf(x = o)
  <2>1. AddsSnap(im, r, s, o)
    BY <1>5, <1>7, <1>8 DEF AddsSnap
  <2> HIDE DEF o
  <2> QED
    BY <1>1, <1>8, <2>1, LinksWithSnap
<1>10. Shifts(im, r, {o}, {})
  <2>1. \A x : Links(r, x) + OneIf(x \in {}) = Links(im, x) + OneIf(x \in {o})
    <3>1. ASSUME NEW x PROVE Links(r, x) + OneIf(x \in {}) = Links(im, x) + OneIf(x \in {o})
      <4>1. Links(r, x) \in Nat /\ Links(im, x) \in Nat
        BY <1>1, <1>8, LinksParts
      <4> QED
        BY <1>9, <4>1 DEF OneIf
    <3> QED
      BY <3>1
  <2>2. \A j : OneIf(j \in {o}) = OneIf(j = o)
    BY DEF OneIf
  <2>3. FilesAreLeaves(r)
    <3>1. FilesAreLeaves(im)
      BY <1>1 DEF InodesCounted
    <3>2. \A x \in DOMAIN snap : snap[x] = o \/ (x \in DOMAIN im.snap /\ snap[x] = im.snap[x])
      BY <1>7 DEF With
    <3> QED
      BY <1>5, <1>8, <3>1, <3>2 DEF FilesAreLeaves
  <2> HIDE DEF o
  <2> QED
    BY <1>2, <1>5, <1>8, <2>1, <2>2, <2>3 DEF Shifts
<1>11. Counted(r, {}) /\ Pending(r) = Pending(im)
  BY <1>8, <1>10, ShiftCounted
<1> QED
  BY <1>11, Zenon DEF r, SnapTaken

LEMMA SnapshotRollbackFollows ==
    ASSUME WorkOK, NEW im, Counted(im, {}), NEW s \in DOMAIN im.snap, NEW open
    PROVE  Follows(im, ReleaseInode([im EXCEPT !.node[im.snap[s]].ref = @ + 1, !.root = im.snap[s]],
                                    open, im.root), open)
<1> DEFINE o == im.snap[s]
           b == RootTaken(im, o)
           node == CountUp(im.node, o)
<1>1. im \in Image /\ InodesCounted(im, {})
  BY DEF Counted
<1>2. /\ o \in DOMAIN im.node /\ ~im.node[o].pend /\ o \in Inodes
      /\ im.root \in DOMAIN im.node /\ ~im.node[im.root].pend
  BY <1>1, NamedIsThere, ImageFields
<1>3. b = [root |-> o, node |-> node, block |-> im.block, snap |-> im.snap]
  BY <1>1, TakesRoot
<1>4. im.node \in Tables(Inodes, NodeSet) /\ im.snap \in Tables(Snap, Inodes)
      /\ im.block \in Tables(Blocks, BlockSet)
  BY <1>1 DEF Image
<1>5. /\ node \in Tables(Inodes, NodeSet) /\ DOMAIN node = DOMAIN im.node
      /\ \A j \in DOMAIN im.node :
            /\ node[j].dir = im.node[j].dir /\ node[j].ents = im.node[j].ents
            /\ node[j].pend = im.node[j].pend /\ node[j].blk = im.node[j].blk
            /\ node[j].ref = im.node[j].ref + OneIf(j = o)
  <2>1. o \in DOMAIN im.node
    BY <1>2
  <2> HIDE DEF o
  <2>2. /\ CountUp(im.node, o) \in Tables(Inodes, NodeSet)
        /\ DOMAIN CountUp(im.node, o) = DOMAIN im.node
        /\ \A j \in DOMAIN im.node : LET n == CountUp(im.node, o)[j] IN
              /\ n.dir = im.node[j].dir /\ n.ents = im.node[j].ents /\ n.up = im.node[j].up
              /\ n.pend = im.node[j].pend /\ n.blk = im.node[j].blk
              /\ n.ref = im.node[j].ref + OneIf(j = o)
    BY <1>4, <2>1, CountsUp
  <2> QED
    BY <2>2
<1> HIDE DEF node, b
<1>6. b \in Image /\ b.root = o /\ b.node = node /\ b.block = im.block /\ b.snap = im.snap
  BY <1>2, <1>3, <1>4, <1>5 DEF Image
<1>7. ASSUME NEW x PROVE Links(b, x) + OneIf(im.root = x) = Links(im, x) + OneIf(b.root = x)
  BY <1>1, <1>5, <1>6, LinksWithRoot
<1>8. Shifts(im, b, {o}, {im.root})
  <2>1. \A j : OneIf(j \in {o}) = OneIf(j = o) /\ OneIf(j \in {im.root}) = OneIf(im.root = j)
               /\ OneIf(b.root = j) = OneIf(j = o)
    BY <1>6 DEF OneIf
  <2>2. \A x : Links(b, x) + OneIf(x \in {im.root}) = Links(im, x) + OneIf(x \in {o})
    BY <1>7, <2>1
  <2>3. FilesAreLeaves(b)
    <3>1. FilesAreLeaves(im)
      BY <1>1 DEF InodesCounted
    <3> QED
      BY <1>5, <1>6, <3>1 DEF FilesAreLeaves
  <2> HIDE DEF o
  <2> QED
    BY <1>2, <1>5, <1>6, <2>1, <2>2, <2>3 DEF Shifts
<1>9. Counted(b, {im.root}) /\ Pending(b) = Pending(im)
  BY <1>6, <1>8, ShiftCounted
<1>10. ~Lone(im)
  BY DEF Lone
<1>11. ReleasesWell(b, open, {im.root}, ReleaseInodes(b, open, {im.root}))
  BY <1>9, ReleaseInodesOK
<1>12. Follows(im, ReleaseInodes(b, open, {im.root}), open)
  BY <1>9, <1>10, <1>11 DEF ReleasesWell, Follows
<1> QED
  BY <1>12, Zenon DEF b, RootTaken, ReleaseInode

LEMMA SnapshotDeleteFollows ==
    ASSUME WorkOK, NEW im, Counted(im, {}), NEW s \in DOMAIN im.snap, NEW open
    PROVE  Follows(im, ReleaseInode([im EXCEPT !.snap = Without(@, s)], open, im.snap[s]), open)
<1> DEFINE o == im.snap[s]
           snap == Without(im.snap, s)
           b == [im EXCEPT !.snap = snap]
<1>1. im \in Image /\ InodesCounted(im, {})
  BY DEF Counted
<1>2. o \in DOMAIN im.node /\ ~im.node[o].pend
  BY <1>1, NamedIsThere
<1>3. im.snap \in Tables(Snap, Inodes)
  BY <1>1 DEF Image
<1>4. snap \in Tables(Snap, Inodes)
  BY <1>3, RestrictInTables DEF Without
<1>5. snap = Without(im.snap, s)
  OBVIOUS
<1> HIDE DEF snap
<1>6. b \in Image /\ b.root = im.root /\ b.node = im.node /\ b.block = im.block /\ b.snap = snap
  BY <1>1, <1>4 DEF Image
<1>7. [im EXCEPT !.snap = Without(@, s)] = b
  BY <1>5, Zenon
<1> HIDE DEF b
<1>8. ASSUME NEW x PROVE Links(b, x) + OneIf(x = o) = Links(im, x)
  BY <1>1, <1>5, <1>6, LinksWithoutSnap
<1>9. Shifts(im, b, {}, {o})
  <2>1. \A x : Links(b, x) + OneIf(x \in {o}) = Links(im, x) + OneIf(x \in {})
    <3>1. ASSUME NEW x PROVE Links(b, x) + OneIf(x \in {o}) = Links(im, x) + OneIf(x \in {})
      <4>1. Links(b, x) \in Nat /\ Links(im, x) \in Nat
        BY <1>1, <1>6, LinksParts
      <4> QED
        BY <1>8, <4>1 DEF OneIf
    <3> QED
      BY <3>1
  <2>2. \A j \in DOMAIN im.node : im.node[j].ref = im.node[j].ref + OneIf(j \in {})
    <3>1. \A j \in DOMAIN im.node : im.node[j].ref \in Nat
      BY <1>1, ImageFields, NodeFields
    <3> QED
      BY <3>1 DEF OneIf
  <2>3. FilesAreLeaves(b)
    <3>1. FilesAreLeaves(im)
      BY <1>1 DEF InodesCounted
    <3>2. DOMAIN snap \subseteq DOMAIN im.snap /\ \A x \in DOMAIN snap : snap[x] = im.snap[x]
      BY <1>5 DEF Without, Restrict
    <3> QED
      BY <1>6, <3>1, <3>2 DEF FilesAreLeaves
  <2> HIDE DEF o
  <2> QED
    BY <1>2, <1>6, <2>1, <2>2, <2>3 DEF Shifts
<1>10. Counted(b, {o}) /\ Pending(b) = Pending(im)
  BY <1>6, <1>9, ShiftCounted
<1>11. ~Lone(im)
  BY DEF Lone
<1> HIDE DEF o
<1>12. ReleasesWell(b, open, {o}, ReleaseInodes(b, open, {o}))
  BY <1>10, ReleaseInodesOK
<1>13. Follows(im, ReleaseInodes(b, open, {o}), open)
  BY <1>10, <1>11, <1>12 DEF ReleasesWell, Follows
<1> QED
  BY <1>7, <1>13, Zenon DEF ReleaseInode, o

\* What waits for a close counts no reference, so a release may begin with it.
LEMMA PendingCounted ==
    ASSUME WorkOK, NEW im, Counted(im, {}), NEW these, these \subseteq Pending(im)
    PROVE  Counted(im, these)
<1>1. ASSUME NEW i \in DOMAIN im.node, InodeCounted(im, {}, i) PROVE InodeCounted(im, these, i)
  <2>1. CASE im.node[i].pend
    BY <1>1, <2>1 DEF InodeCounted
  <2>2. CASE ~im.node[i].pend
    <3>1. i \notin these
      BY <2>2 DEF Pending
    <3> QED
      BY <1>1, <2>2, <3>1 DEF InodeCounted, OneIf
  <2> QED
    BY <2>1, <2>2
<1> QED
  BY <1>1 DEF Counted, InodesCounted

LEMMA AfterCloseFollows ==
    ASSUME WorkOK, NEW im, Counted(im, {}), NEW left, NEW i
    PROVE  /\ Follows(im, AfterClose(im, left, i), left)
           /\ Pending(AfterClose(im, left, i)) \subseteq left \union (Pending(im) \ {i})
           /\ i \notin Pending(im) => AfterClose(im, left, i) = im
<1> DEFINE waits == Has(im, i) /\ im.node[i].pend /\ i \notin left
<1>1. CASE waits
  <2>1. AfterClose(im, left, i) = ReleaseInodes(im, left, {i})
    BY <1>1 DEF AfterClose, ReleaseInode
  <2>2. {i} \subseteq Pending(im)
    BY <1>1 DEF Pending, Has
  <2>3. Counted(im, {i})
    BY <2>2, PendingCounted
  <2>4. ReleasesWell(im, left, {i}, ReleaseInodes(im, left, {i}))
    BY <2>3, ReleaseInodesOK
  <2> QED
    BY <2>1, <2>2, <2>4 DEF ReleasesWell, Follows
<1>2. CASE ~waits
  <2>1. AfterClose(im, left, i) = im
    BY <1>2 DEF AfterClose
  <2>2. i \in left \/ i \notin Pending(im)
    BY <1>2 DEF Pending, Has
  <2>3. Pending(im) \subseteq left \union (Pending(im) \ {i})
    BY <2>2
  <2> QED
    BY <2>1, <2>3 DEF Follows
<1> QED
  BY <1>1, <1>2

LEMMA LogoutFollows ==
    ASSUME WorkOK, NEW im, Counted(im, {}), NEW held
    PROVE  LET r == ReleaseInodes(im, {}, {i \in held : Has(im, i) /\ im.node[i].pend})
           IN Follows(im, r, {}) /\ Pending(r) \subseteq Pending(im) \ held
<1> DEFINE these == {i \in held : Has(im, i) /\ im.node[i].pend}
<1>1. these \subseteq Pending(im) /\ Pending(im) \ these = Pending(im) \ held
  BY DEF Pending, Has
<1> HIDE DEF these
<1>2. Counted(im, these)
  BY <1>1, PendingCounted
<1>3. ReleasesWell(im, {}, these, ReleaseInodes(im, {}, these))
  BY <1>2, ReleaseInodesOK
<1>4. /\ Follows(im, ReleaseInodes(im, {}, these), {})
      /\ Pending(ReleaseInodes(im, {}, these)) \subseteq Pending(im) \ held
  BY <1>1, <1>3 DEF ReleasesWell, Follows
<1> QED
  BY <1>4 DEF these

\* A volume whose blocks are counted is none fsck has anything to repair in.
LEMMA NothingToRepair ==
    ASSUME WorkOK, NEW im, Counted(im, {})
    PROVE  LET counted == [b \in DOMAIN im.block |->
                              IF BlockUsers(im, b) = {} THEN im.block[b]
                              ELSE [im.block[b] EXCEPT !.ref = Cardinality(BlockUsers(im, b))]]
           IN [im EXCEPT !.block = Restrict(counted, {b \in DOMAIN counted : counted[b].ref > 0})] = im
<1> DEFINE counted == [b \in DOMAIN im.block |->
                          IF BlockUsers(im, b) = {} THEN im.block[b]
                          ELSE [im.block[b] EXCEPT !.ref = Cardinality(BlockUsers(im, b))]]
           kept == {b \in DOMAIN counted : counted[b].ref > 0}
<1>1. im \in Image /\ BlocksCounted(im)
  BY DEF Counted
<1>2. ASSUME NEW b \in DOMAIN im.block
      PROVE  counted[b] = im.block[b] /\ im.block[b].ref > 0
  <2>1. im.block[b] \in BlockSet /\ b \in Blocks
    BY <1>1, ImageFields
  <2>2. UsersApart(im, 0, b) = BlockUsers(im, b)
    BY <1>1, ImageFields, Sizes DEF UsersApart, BlockUsers
  <2>3. BlockUsers(im, b) # {} /\ im.block[b].ref = Cardinality(BlockUsers(im, b))
    BY <1>1, <2>1, <2>2 DEF BlocksCounted, CountsUsers
  <2>4. IsFiniteSet(BlockUsers(im, b))
    BY <1>1, UsersAreFinite
  <2>5. Cardinality(BlockUsers(im, b)) # 0 /\ Cardinality(BlockUsers(im, b)) \in Nat
    BY <2>3, <2>4, FS_EmptySet, FS_CardinalityType
  <2>6. [im.block[b] EXCEPT !.ref = im.block[b].ref] = im.block[b]
    BY <2>1 DEF BlockSet
  <2> QED
    BY <2>3, <2>5, <2>6
<1>3. counted = im.block
  <2>1. im.block \in [DOMAIN im.block -> BlockSet]
    BY <1>1, ImageFields
  <2> QED
    BY <1>2, <2>1
<1>4. kept = DOMAIN im.block
  BY <1>2, <1>3
<1>5. Restrict(im.block, DOMAIN im.block) = im.block
  <2>1. im.block \in [DOMAIN im.block -> BlockSet]
    BY <1>1, ImageFields
  <2> QED
    BY <2>1 DEF Restrict
<1>6. [im EXCEPT !.block = im.block] = im
  BY <1>1 DEF Image
<1> HIDE DEF counted
<1>7. [im EXCEPT !.block = Restrict(counted, kept)] = im
  BY <1>3, <1>4, <1>5, <1>6
<1> QED
  BY <1>7 DEF counted

-----------------------------------------------------------------------------
\* The invariant.

Fds == [Terminal -> Tables(Fd, [ino : Inodes, path : Path])]
FdsOK == fds \in Fds

\* The volume and the memories are images, and the volume's counts are those of its links.
VolumeOK == WorkOK /\ Counted(vol, {}) /\ mem \in [Terminal -> Image]

\* Without snapshots nothing is shared, and without opens nothing is open.
NothingShared == "snapshot create" \notin work.ops => Lone(vol)
NothingOpen ==
    work.ops \intersect {"open", "open truncate"} = {} => \A t \in Terminal : fds[t] = <<>>

CowInv == VolumeOK /\ FdsOK /\ NothingShared /\ NothingOpen

\* The workloads in which what waits for a close is in no snapshot.  Where a file may
\* be open, deleted and in a snapshot, releaseInode counts it down at the close and
\* leaves it waiting, and a rollback makes it reachable again (the run cow_revival).
WaitingUnshared ==
    \A w \in Workload :
       "delete" \in w.ops /\ w.ops \intersect {"open", "open truncate"} # {}
          => "snapshot create" \notin w.ops

\* What a command does to the volume: at most the inodes of waiting come to wait.
Moves(waiting) ==
    /\ Counted(vol', {})
    /\ Pending(vol') \subseteq Pending(vol) \union waiting
    /\ "snapshot create" \notin work.ops => (Lone(vol) => Lone(vol'))
    /\ mem' \in [Terminal -> Image]

LEMMA Commanders ==
    ASSUME WorkOK
    PROVE  /\ work.users \subseteq Terminal /\ work.paths \subseteq Path
           /\ \A p \in Path : p \in Seq(Name)
BY DEF WorkOK, CowAssumption

LEMMA Stays ==
    ASSUME VolumeOK
    PROVE  vol \in Image /\ FilesAreLeaves(vol) /\ Follows(vol, vol, {})
BY DEF VolumeOK, Counted, InodesCounted, Follows

LEMMA FollowsMoves ==
    ASSUME NEW im, NEW waiting, Follows(vol, im, waiting), vol' = im,
           mem' \in [Terminal -> Image]
    PROVE  Moves(waiting)
<1>1. /\ Counted(im, {}) /\ (Lone(vol) => Lone(im))
      /\ Pending(im) \subseteq Pending(vol) \union waiting
  BY DEF Follows
<1>2. Counted(vol', {})
  BY <1>1
<1>3. Pending(vol') \subseteq Pending(vol) \union waiting
  BY <1>1
<1>4. Lone(vol) => Lone(vol')
  BY <1>1
<1> QED
  BY <1>2, <1>3, <1>4 DEF Moves

LEMMA SaveMoves ==
    ASSUME VolumeOK, NEW im, NEW waiting, Follows(vol, im, waiting), Save(im)
    PROVE  Moves(waiting)
<1>1. vol' = im /\ mem' = [u \in Terminal |-> im]
  BY DEF Save
<1>2. im \in Image
  BY DEF Follows, Counted
<1>3. mem' \in [Terminal -> Image]
  BY <1>1, <1>2
<1> QED
  BY <1>1, <1>3, FollowsMoves

LEMMA FinishMoves ==
    ASSUME VolumeOK, NEW t \in Terminal, NEW c, NEW waiting, Ends(vol, c, waiting), Finish(t, c)
    PROVE  Moves(waiting)
<1>1. c \in Command /\ (c.ok => Follows(vol, c.im, waiting))
  BY DEF Ends
<1>2. CASE c.ok /\ Save(c.im)
  BY <1>1, <1>2, SaveMoves
<1>3. CASE ~c.ok /\ mem' = [mem EXCEPT ![t] = c.im] /\ UNCHANGED vol
  <2>1. c.im \in Image
    BY <1>1, CommandUpdates
  <2>2. mem \in [Terminal -> Image] /\ Follows(vol, vol, {})
    BY Stays DEF VolumeOK
  <2>3. mem' \in [Terminal -> Image] /\ vol' = vol
    BY <1>3, <2>1, <2>2
  <2>4. Follows(vol, vol, waiting)
    BY <2>2 DEF Follows
  <2> QED
    BY <2>3, <2>4, FollowsMoves
<1> QED
  BY <1>2, <1>3 DEF Finish

-----------------------------------------------------------------------------
\* The commands.

LEMMA MkdirMoves ==
    ASSUME VolumeOK, NEW t \in Terminal, NEW p \in Path, Mkdir(t, p)
    PROVE  Moves({}) /\ UNCHANGED fds
<1> DEFINE c == EnsureMutablePath(vol, Front(p))
           node == NewDir(c.at)
           new == AllocateInode(c, node)
           listed == IF new.ok THEN SetFileData(new, new.at, Listing) ELSE new
<1>1. /\ Absent(vol, p) /\ Finish(t, WithEntry(listed, c.at, Last(p), new.at))
      /\ UNCHANGED fds
  BY DEF Mkdir, Reloaded
<1>2. p \in Seq(Name) /\ vol \in Image /\ WorkOK /\ Counted(vol, {})
  BY Commanders, Stays DEF VolumeOK
<1>3. Front(p) \in Seq(Name)
  BY <1>1, <1>2, FrontAndLast DEF Absent
<1>4. CopiesPath(vol, Lookup(vol, Front(p)), c)
  BY <1>2, <1>3, EnsureMutablePathOK
<1>5. node \in NodeSet /\ node.ents = <<>> /\ node.ref = 1 /\ ~node.pend /\ node.blk = 0
  <2>1. c.at \in Nat
    BY <1>2, <1>4, CommandUpdates, Sizes DEF CopiesPath, Outcome
  <2>2. <<>> \in Tables(Name, Inodes)
    BY EmptyTable
  <2> HIDE DEF c
  <2> QED
    BY <2>1, <2>2 DEF NewDir, NewFile, NodeSet
<1> HIDE DEF c, node
<1>6. Ends(vol, WithEntry(listed, c.at, Last(p), new.at), {})
  BY <1>1, <1>2, <1>4, <1>5, NewNodeEnds
<1> QED
  BY <1>1, <1>6, FinishMoves

LEMMA CreateMoves ==
    ASSUME VolumeOK, NEW t \in Terminal, NEW p \in Path, Create(t, p)
    PROVE  Moves({}) /\ UNCHANGED fds
<1> DEFINE c == EnsureMutablePath(vol, Front(p))
           new == AllocateInode(c, NewFile)
<1>1. /\ Absent(vol, p) /\ Finish(t, WithEntry(new, c.at, Last(p), new.at))
      /\ UNCHANGED fds
  BY DEF Create, Reloaded
<1>2. p \in Seq(Name) /\ vol \in Image /\ WorkOK /\ Counted(vol, {})
  BY Commanders, Stays DEF VolumeOK
<1>3. Front(p) \in Seq(Name)
  BY <1>1, <1>2, FrontAndLast DEF Absent
<1>4. CopiesPath(vol, Lookup(vol, Front(p)), c)
  BY <1>2, <1>3, EnsureMutablePathOK
<1>5. /\ NewFile \in NodeSet /\ NewFile.ents = <<>> /\ NewFile.ref = 1
      /\ ~NewFile.pend /\ NewFile.blk = 0
  <2>1. <<>> \in Tables(Name, Inodes)
    BY EmptyTable
  <2> HIDE DEF c
  <2> QED
    BY <2>1 DEF NewFile, NodeSet
<1> HIDE DEF c
<1>6. Ends(vol, WithEntry(new, c.at, Last(p), new.at), {})
  BY <1>1, <1>2, <1>4, <1>5, NewNodeEnds
<1> QED
  BY <1>1, <1>6, FinishMoves

LEMMA CopyMoves ==
    ASSUME VolumeOK, NEW t \in Terminal, NEW src \in Path, NEW p \in Path, Copy(t, src, p)
    PROVE  Moves({}) /\ UNCHANGED fds
<1> DEFINE c == EnsureMutablePath(vol, Front(p))
           new == IF c.ok THEN CloneInode(c, Lookup(c.im, src)) ELSE c
<1>1. /\ IsFile(vol, Lookup(vol, src)) /\ Absent(vol, p)
      /\ Finish(t, WithEntry(new, c.at, Last(p), new.at)) /\ UNCHANGED fds
  BY DEF Copy, Reloaded
<1>2. /\ p \in Seq(Name) /\ src \in Seq(Name) /\ vol \in Image /\ WorkOK /\ Counted(vol, {})
      /\ FilesAreLeaves(vol)
  BY Commanders, Stays DEF VolumeOK
<1>3. Front(p) \in Seq(Name)
  BY <1>1, <1>2, FrontAndLast DEF Absent
<1>4. CopiesPath(vol, Lookup(vol, Front(p)), c)
  BY <1>2, <1>3, EnsureMutablePathOK
<1> HIDE DEF c
<1>5. Ends(vol, WithEntry(new, c.at, Last(p), new.at), {})
  BY <1>1, <1>2, <1>4, CopyEnds
<1> QED
  BY <1>1, <1>5, FinishMoves

LEMMA RmdirMoves ==
    ASSUME VolumeOK, NEW t \in Terminal, NEW p \in Path, Rmdir(t, p)
    PROVE  Moves(Held(t)) /\ UNCHANGED fds
<1> DEFINE c == EnsureMutablePath(vol, Front(p))
           i == Lookup(vol, p)
           r == Released(WithoutEntry(c, c.at, Last(p)), Held(t), i)
<1>1. /\ p # <<>> /\ IsDir(vol, i) /\ DOMAIN vol.node[i].ents = {}
      /\ Finish(t, r) /\ UNCHANGED fds
  BY DEF Rmdir, Reloaded
<1>2. p \in Seq(Name) /\ vol \in Image /\ WorkOK /\ Counted(vol, {})
  BY Commanders, Stays DEF VolumeOK
<1>3. Ends(vol, r, Held(t))
  BY <1>1, <1>2, RmdirEnds
<1> HIDE DEF r
<1> QED
  BY <1>1, <1>3, FinishMoves

LEMMA DeleteMoves ==
    ASSUME VolumeOK, NEW t \in Terminal, NEW p \in Path, Delete(t, p),
           Held(t) # {} => Lone(vol)
    PROVE  Moves(Held(t)) /\ UNCHANGED fds
<1> DEFINE i == Lookup(vol, p)
           c == EnsureMutablePath(vol, Front(p))
           gone == WithoutEntry(c, c.at, Last(p))
           r == IF ~gone.ok THEN gone
                ELSE IF i \in Held(t) THEN [gone EXCEPT !.im.node[i].pend = TRUE]
                ELSE Released(gone, {}, i)
<1>1. IsFile(vol, i) /\ Finish(t, r) /\ UNCHANGED fds
  BY DEF Delete, Reloaded
<1>2. p \in Seq(Name) /\ vol \in Image /\ WorkOK /\ Counted(vol, {})
  BY Commanders, Stays DEF VolumeOK
<1>3. Ends(vol, r, Held(t))
  <2>1. Lookup(vol, p) \in Held(t) => Lone(vol)
    OBVIOUS
  <2> QED
    BY <1>1, <1>2, <2>1, DeleteEnds
<1> HIDE DEF r
<1> QED
  BY <1>1, <1>3, FinishMoves

LEMMA TruncatePathMoves ==
    ASSUME VolumeOK, NEW t \in Terminal, NEW p \in Path, NEW d \in Data \union {Empty},
           TruncatePath(t, p, d)
    PROVE  Moves({}) /\ UNCHANGED fds
<1> DEFINE c == EnsureMutablePath(vol, p)
           r == SetFileData(c, c.at, d)
<1>1. Finish(t, r) /\ UNCHANGED fds
  BY DEF TruncatePath, Reloaded
<1>2. p \in Seq(Name) /\ vol \in Image /\ WorkOK /\ Counted(vol, {}) /\ d \in Content
  BY Commanders, Stays DEF VolumeOK, Content
<1>3. CopiesPath(vol, Lookup(vol, p), c)
  BY <1>2, EnsureMutablePathOK
<1> HIDE DEF c
<1>4. Ends(vol, r, {})
  <2>1. CASE c.ok
    BY <1>2, <1>3, <2>1, DataEnds
  <2>2. CASE ~c.ok
    BY <1>3, <2>2, DataFails, PathEnds
  <2> QED
    BY <2>1, <2>2
<1> QED
  BY <1>1, <1>4, FinishMoves

LEMMA ChangeAttributesMoves ==
    ASSUME VolumeOK, NEW t \in Terminal, NEW p \in Path, ChangeAttributes(t, p)
    PROVE  Moves({}) /\ UNCHANGED fds
<1> DEFINE c == EnsureMutablePath(vol, p)
<1>1. Finish(t, c) /\ UNCHANGED fds
  BY DEF ChangeAttributes, Reloaded
<1>2. p \in Seq(Name) /\ vol \in Image /\ WorkOK /\ Counted(vol, {})
  BY Commanders, Stays DEF VolumeOK
<1>3. CopiesPath(vol, Lookup(vol, p), c)
  BY <1>2, EnsureMutablePathOK
<1> HIDE DEF c
<1>4. Ends(vol, c, {})
  BY <1>3, PathEnds
<1> QED
  BY <1>1, <1>4, FinishMoves

\* The fds.

LEMMA FdFields ==
    ASSUME FdsOK, NEW t \in Terminal
    PROVE  /\ fds[t] \in Tables(Fd, [ino : Inodes, path : Path]) /\ DOMAIN fds[t] \subseteq Fd
           /\ \A f \in DOMAIN fds[t] : /\ fds[t][f] \in [ino : Inodes, path : Path]
                                       /\ fds[t][f].ino \in Inodes /\ fds[t][f].path \in Path
<1>1. fds[t] \in Tables(Fd, [ino : Inodes, path : Path])
  BY DEF FdsOK, Fds
<1>2. DOMAIN fds[t] \subseteq Fd /\ fds[t] \in [DOMAIN fds[t] -> [ino : Inodes, path : Path]]
  BY <1>1, InTables
<1> QED
  BY <1>1, <1>2

LEMMA OpenedFds ==
    ASSUME FdsOK, NEW t \in Terminal, NEW f \in Fd, NEW i \in Inodes, NEW p \in Path,
           Opened(t, f, i, p)
    PROVE  fds' \in Fds
<1> DEFINE R == [ino : Inodes, path : Path]
           e == [ino |-> i, path |-> p]
           w == With(fds[t], f, e)
<1>1. e \in R
  OBVIOUS
<1>2. fds[t] \in Tables(Fd, R)
  BY FdFields
<1> HIDE DEF e, R
<1>3. w \in Tables(Fd, R)
  BY <1>1, <1>2, WithInTables
<1>4. fds' = [fds EXCEPT ![t] = w]
  BY DEF Opened, e
<1> HIDE DEF w
<1>5. fds \in [Terminal -> Tables(Fd, R)]
  BY DEF FdsOK, Fds, R
<1>6. fds' \in [Terminal -> Tables(Fd, R)]
  BY <1>3, <1>4, <1>5
<1> QED
  BY <1>6 DEF Fds, R

LEMMA OpenMoves ==
    ASSUME VolumeOK, FdsOK, NEW t \in Terminal, NEW f \in Fd, NEW p \in Path, Open(t, f, p)
    PROVE  Moves({}) /\ fds' \in Fds
<1> DEFINE i == Lookup(mem[t], p)
<1>1. IsFile(mem[t], i) /\ Opened(t, f, i, p) /\ UNCHANGED <<vol, mem>>
  BY DEF Open
<1>2. mem \in [Terminal -> Image]
  BY DEF VolumeOK
<1>3. mem[t] \in Image
  BY <1>2
<1>4. i \in Inodes
  BY <1>1, <1>3, ImageFields DEF IsFile, Has
<1> HIDE DEF i
<1>5. fds' \in Fds
  BY <1>1, <1>4, OpenedFds
<1>6. Follows(vol, vol, {})
  BY Stays
<1>7. vol' = vol /\ mem' \in [Terminal -> Image]
  BY <1>1, <1>2
<1>8. Moves({})
  BY <1>6, <1>7, FollowsMoves
<1> QED
  BY <1>5, <1>8

LEMMA OpenTruncateMoves ==
    ASSUME VolumeOK, FdsOK, NEW t \in Terminal, NEW f \in Fd, NEW p \in Path,
           OpenTruncate(t, f, p)
    PROVE  Moves({}) /\ fds' \in Fds
<1> DEFINE c == EnsureMutablePath(vol, p)
           r == SetFileData(c, c.at, Empty)
<1>1. Finish(t, r) /\ IF r.ok THEN Opened(t, f, c.at, p) ELSE UNCHANGED fds
  BY DEF OpenTruncate, Reloaded
<1>2. p \in Seq(Name) /\ vol \in Image /\ WorkOK /\ Counted(vol, {}) /\ Empty \in Content
  BY Commanders, Stays DEF VolumeOK, Content
<1>3. CopiesPath(vol, Lookup(vol, p), c)
  BY <1>2, EnsureMutablePathOK
<1> HIDE DEF c
<1>4. Ends(vol, r, {}) /\ c.at \in Inodes
  <2>1. CASE c.ok
    BY <1>2, <1>3, <2>1, DataEnds
  <2>2. CASE ~c.ok
    <3>1. r = c
      BY <2>2, DataFails
    <3>2. Ends(vol, c, {})
      BY <1>3, PathEnds
    <3>3. c.at \in Inodes
      BY <3>2, CommandUpdates DEF Ends
    <3> QED
      BY <3>1, <3>2, <3>3
  <2> QED
    BY <2>1, <2>2
<1> HIDE DEF r
<1>5. Moves({})
  BY <1>1, <1>4, FinishMoves
<1>6. CASE r.ok
  BY <1>1, <1>4, <1>5, <1>6, OpenedFds
<1>7. CASE ~r.ok
  <2>1. fds' = fds /\ fds \in Fds
    BY <1>1, <1>7 DEF FdsOK
  <2> QED
    BY <1>5, <2>1
<1> QED
  BY <1>6, <1>7

LEMMA WriteFdMoves ==
    ASSUME VolumeOK, FdsOK, NEW t \in Terminal, NEW f \in DOMAIN fds[t],
           NEW d \in Data \union {Empty}, WriteFd(t, f, d)
    PROVE  Moves({}) /\ fds' \in Fds /\ (DOMAIN fds'[t] = DOMAIN fds[t])
<1> DEFINE p == fds[t][f].path
           c == EnsureMutablePath(vol, p)
           r == IF c.ok THEN SetFileData(c, c.at, d) ELSE c
           moved == [fds EXCEPT ![t][f].ino = c.at]
<1>1. Finish(t, r) /\ fds' = IF c.ok THEN moved ELSE fds
  BY DEF WriteFd, Reloaded
<1>2. p \in Path
  BY FdFields
<1>3. p \in Seq(Name) /\ vol \in Image /\ WorkOK /\ Counted(vol, {}) /\ d \in Content
  BY <1>2, Commanders, Stays DEF VolumeOK, Content
<1> HIDE DEF p
<1>4. CopiesPath(vol, Lookup(vol, p), c)
  BY <1>3, EnsureMutablePathOK
<1> HIDE DEF c
<1>5. Ends(vol, r, {}) /\ c.at \in Inodes
  <2>1. CASE c.ok
    BY <1>3, <1>4, <2>1, DataEnds
  <2>2. CASE ~c.ok
    BY <1>4, <2>2, PathEnds, CommandUpdates DEF Ends
  <2> QED
    BY <2>1, <2>2
<1>6. moved \in Fds /\ DOMAIN moved[t] = DOMAIN fds[t]
  <2> DEFINE R == [ino : Inodes, path : Path]
             e == [fds[t][f] EXCEPT !.ino = c.at]
             g == [fds[t] EXCEPT ![f] = e]
  <2>1. fds[t][f] \in R /\ fds[t] \in Tables(Fd, R)
    BY FdFields
  <2>2. e \in R
    BY <1>5, <2>1
  <2>3. fds \in [Terminal -> Tables(Fd, R)]
    BY DEF FdsOK, Fds
  <2>4. moved = [fds EXCEPT ![t] = g]
    BY <2>3
  <2> HIDE DEF R, e, moved
  <2>5. g \in Tables(Fd, R) /\ DOMAIN g = DOMAIN fds[t]
    BY <2>1, <2>2, ExceptInTables
  <2> HIDE DEF g
  <2>6. moved \in [Terminal -> Tables(Fd, R)] /\ moved[t] = g
    BY <2>3, <2>4, <2>5
  <2> QED
    BY <2>5, <2>6 DEF Fds, R
<1> HIDE DEF r, moved
<1>7. Moves({})
  BY <1>1, <1>5, FinishMoves
<1>8. fds' \in Fds /\ DOMAIN fds'[t] = DOMAIN fds[t]
  BY <1>1, <1>6 DEF FdsOK
<1> QED
  BY <1>7, <1>8

LEMMA CloseMoves ==
    ASSUME VolumeOK, FdsOK, NEW t \in Terminal, NEW f \in DOMAIN fds[t], Close(t, f)
    PROVE  /\ Moves({fds[t][g].ino : g \in DOMAIN fds[t] \ {f}}) /\ fds' \in Fds
           /\ Pending(vol') \subseteq {fds[t][g].ino : g \in DOMAIN fds[t] \ {f}}
                                         \union (Pending(vol) \ {fds[t][f].ino})
           /\ fds[t][f].ino \notin Pending(vol) => vol' = vol
           /\ fds' = [fds EXCEPT ![t] = Without(fds[t], f)]
<1> DEFINE left == {fds[t][g].ino : g \in DOMAIN fds[t] \ {f}}
           i == fds[t][f].ino
           r == AfterClose(vol, left, i)
           w == Without(fds[t], f)
<1>1. fds' = [fds EXCEPT ![t] = w] /\ Save(r)
  BY DEF Close, Reloaded
<1>2. WorkOK /\ Counted(vol, {})
  BY DEF VolumeOK
<1>3. w \in Tables(Fd, [ino : Inodes, path : Path])
  BY FdFields, RestrictInTables DEF Without
<1> HIDE DEF left, i, w
<1>4. /\ Follows(vol, r, left) /\ Pending(r) \subseteq left \union (Pending(vol) \ {i})
      /\ i \notin Pending(vol) => r = vol
  BY <1>2, AfterCloseFollows
<1> HIDE DEF r
<1>5. Moves(left)
  BY <1>1, <1>4, SaveMoves
<1>6. fds' \in Fds
  BY <1>1, <1>3 DEF FdsOK, Fds
<1>7. /\ Pending(vol') \subseteq left \union (Pending(vol) \ {i})
      /\ i \notin Pending(vol) => vol' = vol
  <2>1. vol' = r
    BY <1>1 DEF Save
  <2> QED
    BY <1>4, <2>1
<1> QED
  BY <1>1, <1>5, <1>6, <1>7 DEF left, i, w

LEMMA LogoutMoves ==
    ASSUME VolumeOK, FdsOK, NEW t \in Terminal, Logout(t)
    PROVE  /\ Moves({}) /\ fds' \in Fds /\ fds' = [fds EXCEPT ![t] = <<>>]
           /\ Pending(vol') \subseteq Pending(vol) \ Held(t)
<1> DEFINE held == Held(t)
           r == ReleaseInodes(vol, {}, {i \in held : Has(vol, i) /\ vol.node[i].pend})
<1>1. fds' = [fds EXCEPT ![t] = <<>>] /\ Save(r)
  BY DEF Logout, Reloaded
<1>2. WorkOK /\ Counted(vol, {})
  BY DEF VolumeOK
<1>3. <<>> \in Tables(Fd, [ino : Inodes, path : Path])
  BY EmptyTable
<1> HIDE DEF held
<1>4. Follows(vol, r, {}) /\ Pending(r) \subseteq Pending(vol) \ held
  BY <1>2, LogoutFollows
<1> HIDE DEF r
<1>5. Moves({})
  BY <1>1, <1>4, SaveMoves
<1>6. fds' \in Fds
  BY <1>1, <1>3 DEF FdsOK, Fds
<1>7. Pending(vol') \subseteq Pending(vol) \ held
  <2>1. vol' = r
    BY <1>1 DEF Save
  <2> QED
    BY <1>4, <2>1
<1> QED
  BY <1>1, <1>5, <1>6, <1>7 DEF held

LEMMA ExitMoves ==
    ASSUME VolumeOK, FdsOK, NEW t \in Terminal, Exit(t)
    PROVE  Moves({}) /\ fds' \in Fds /\ fds' = [fds EXCEPT ![t] = <<>>]
<1>1. fds' = [fds EXCEPT ![t] = <<>>] /\ Save(vol)
  BY DEF Exit
<1>2. Follows(vol, vol, {})
  BY Stays
<1>3. Moves({})
  BY <1>1, <1>2, SaveMoves
<1>4. <<>> \in Tables(Fd, [ino : Inodes, path : Path])
  BY EmptyTable
<1>5. fds' \in Fds
  BY <1>1, <1>4 DEF FdsOK, Fds
<1> QED
  BY <1>1, <1>3, <1>5

LEMMA FsckRepairMoves ==
    ASSUME VolumeOK, FdsOK, NEW t \in Terminal, FsckRepair(t)
    PROVE  Moves({}) /\ UNCHANGED fds
<1>1. WorkOK /\ Counted(vol, {}) /\ Follows(vol, vol, {})
  BY Stays DEF VolumeOK
<1>2. Save(vol) /\ UNCHANGED fds
  BY <1>1, NothingToRepair DEF FsckRepair, Reloaded
<1> QED
  BY <1>1, <1>2, SaveMoves

LEMMA SnapshotCreateMoves ==
    ASSUME VolumeOK, NEW t \in Terminal, NEW s \in Snap, SnapshotCreate(t, s),
           "snapshot create" \in work.ops
    PROVE  Moves({}) /\ UNCHANGED fds
<1> DEFINE r == [vol EXCEPT !.node[vol.root].ref = @ + 1, !.snap = With(@, s, vol.root)]
<1>1. s \notin DOMAIN vol.snap /\ Save(r) /\ UNCHANGED fds
  BY Zenon DEF SnapshotCreate, Reloaded
<1>2. WorkOK /\ Counted(vol, {})
  BY DEF VolumeOK
<1>3. Counted(r, {}) /\ Pending(r) = Pending(vol)
  BY <1>1, <1>2, SnapshotCreateFollows
<1> HIDE DEF r
<1>4. vol' = r /\ mem' = [u \in Terminal |-> r] /\ r \in Image
  BY <1>1, <1>3 DEF Save, Counted
<1>5. Counted(vol', {})
  BY <1>3, <1>4
<1>6. Pending(vol') \subseteq Pending(vol) \union {}
  BY <1>3, <1>4
<1>7. mem' \in [Terminal -> Image]
  BY <1>4
<1> QED
  BY <1>1, <1>5, <1>6, <1>7 DEF Moves

LEMMA SnapshotRollbackMoves ==
    ASSUME VolumeOK, NEW t \in Terminal, NEW s \in Snap, SnapshotRollback(t, s)
    PROVE  Moves(Held(t)) /\ UNCHANGED fds
<1> DEFINE b == [vol EXCEPT !.node[vol.snap[s]].ref = @ + 1, !.root = vol.snap[s]]
           r == ReleaseInode(b, Held(t), vol.root)
<1>1. s \in DOMAIN vol.snap /\ Save(r) /\ UNCHANGED fds
  BY Zenon DEF SnapshotRollback, Reloaded
<1>2. WorkOK /\ Counted(vol, {})
  BY DEF VolumeOK
<1>3. Follows(vol, r, Held(t))
  BY <1>1, <1>2, SnapshotRollbackFollows
<1> HIDE DEF r
<1> QED
  BY <1>1, <1>3, SaveMoves

LEMMA SnapshotDeleteMoves ==
    ASSUME VolumeOK, NEW t \in Terminal, NEW s \in Snap, SnapshotDelete(t, s)
    PROVE  Moves(Held(t)) /\ UNCHANGED fds
<1> DEFINE r == ReleaseInode([vol EXCEPT !.snap = Without(@, s)], Held(t), vol.snap[s])
<1>1. s \in DOMAIN vol.snap /\ Save(r) /\ UNCHANGED fds
  BY Zenon DEF SnapshotDelete, Reloaded
<1>2. WorkOK /\ Counted(vol, {})
  BY DEF VolumeOK
<1>3. Follows(vol, r, Held(t))
  BY <1>1, <1>2, SnapshotDeleteFollows
<1> HIDE DEF r
<1> QED
  BY <1>1, <1>3, SaveMoves

-----------------------------------------------------------------------------
\* The steps.

\* With the same workload the invariant of the next state is that of its volume.
LEMMA SameWork ==
    ASSUME work' = work, Counted(vol', {}), mem' \in [Terminal -> Image], WorkOK, fds' \in Fds
    PROVE  VolumeOK' /\ FdsOK'
<1>1. WorkOK'
  BY DEF WorkOK, CowAssumption
<1>2. Counted(vol, {})'
  BY DEF Counted, InodesCounted, InodeCounted, BlocksCounted, CountsUsers, Image, NodeSet,
         BlockSet, Inodes, Blocks
<1>3. (mem \in [Terminal -> Image])'
  BY DEF Image, NodeSet, BlockSet, Inodes, Blocks
<1>4. FdsOK'
  BY DEF FdsOK, Fds, Inodes
<1> QED
  BY <1>1, <1>2, <1>3, <1>4 DEF VolumeOK

LEMMA StepKeeps ==
    ASSUME CowInv, NEW waiting, Moves(waiting), fds' \in Fds, work' = work,
           work.ops \intersect {"open", "open truncate"} = {} => \A t \in Terminal : fds'[t] = <<>>
    PROVE  CowInv'
<1>1. Counted(vol', {}) /\ mem' \in [Terminal -> Image] /\ WorkOK
  BY DEF Moves, CowInv, VolumeOK
<1>2. VolumeOK' /\ FdsOK'
  BY <1>1, SameWork
<1>3. NothingShared'
  BY DEF CowInv, NothingShared, Moves, Lone
<1>4. NothingOpen'
  BY DEF NothingOpen
<1> QED
  BY <1>2, <1>3, <1>4 DEF CowInv

\* What waits for a close is open, and nothing waits where an exit or a write by fd
\* could leave it behind.
WaitInv ==
    /\ Pending(vol) \subseteq UNION {Held(u) : u \in Terminal}
    /\ work.ops \intersect {"exit", "write"} # {} => Pending(vol) = {}

Removing == {"delete", "rmdir", "snapshot rollback", "snapshot delete"}

\* The workloads in which no process ends, and no fd moves on, while its terminal
\* holds the last reference to something removed.
NoLeak ==
    \A w \in Workload :
       /\ w.ops \intersect {"open", "open truncate"} # {}
       /\ w.ops \intersect Removing # {}
       => w.ops \intersect {"exit", "write"} = {}

LEMMA NoneHeld ==
    ASSUME CowInv, NEW t \in Terminal, work.ops \intersect {"open", "open truncate"} = {}
    PROVE  Held(t) = {} /\ DOMAIN fds[t] = {}
<1>1. fds[t] = <<>>
  BY DEF CowInv, NothingOpen
<1>2. DOMAIN <<>> = {}
  BY EmptyTable
<1>3. DOMAIN fds[t] = {}
  BY <1>1, <1>2, Zenon
<1> QED
  BY <1>3 DEF Held

LEMMA SameFdsKeeps ==
    ASSUME CowInv, NEW waiting, Moves(waiting), UNCHANGED fds, work' = work
    PROVE  CowInv'
<1>1. fds' \in Fds
  BY DEF CowInv, FdsOK
<1>2. work.ops \intersect {"open", "open truncate"} = {} => \A t \in Terminal : fds'[t] = <<>>
  BY DEF CowInv, NothingOpen
<1> QED
  BY <1>1, <1>2, StepKeeps

LEMMA NothingWaits ==
    ASSUME WaitInv, Moves({}), work' = work, \A u \in Terminal : Held(u) \subseteq Held(u)'
    PROVE  WaitInv'
<1>1. Pending(vol') \subseteq Pending(vol)
  BY DEF Moves
<1> QED
  BY <1>1 DEF WaitInv

LEMMA SameFdsWait ==
    ASSUME WaitInv, Moves({}), work' = work, UNCHANGED fds
    PROVE  WaitInv'
BY NothingWaits DEF Held

LEMMA RemovalWaits ==
    ASSUME CowInv, WaitInv, NoLeak, NEW t \in Terminal, Moves(Held(t)), UNCHANGED fds,
           work' = work, NEW x \in Removing, x \in work.ops
    PROVE  WaitInv'
<1>1. Pending(vol') \subseteq Pending(vol) \union Held(t)
  BY DEF Moves
<1>2. Pending(vol') \subseteq UNION {Held(u) : u \in Terminal}
  BY <1>1 DEF WaitInv
<1>3. (UNION {Held(u) : u \in Terminal})' = UNION {Held(u) : u \in Terminal}
  BY DEF Held
<1>4. ASSUME work.ops \intersect {"exit", "write"} # {} PROVE Pending(vol') = {}
  <2>1. work \in Workload
    BY DEF CowInv, VolumeOK, WorkOK
  <2>2. work.ops \intersect {"open", "open truncate"} = {}
    BY <1>4, <2>1 DEF NoLeak
  <2>3. Held(t) = {}
    BY <2>2, NoneHeld
  <2> QED
    BY <1>1, <1>4, <2>3 DEF WaitInv
<1>5. (Pending(vol))' = Pending(vol')
  BY DEF Pending
<1> QED
  BY <1>2, <1>3, <1>4, <1>5 DEF WaitInv

LEMMA TreeStep ==
    ASSUME CowInv, WaitingUnshared, NEW t \in work.users, TreeCommands(t), work' = work
    PROVE  CowInv' /\ (WaitInv /\ NoLeak => WaitInv')
<1>1. VolumeOK /\ WorkOK /\ t \in Terminal /\ work.paths \subseteq Path
  BY Commanders DEF CowInv, VolumeOK
<1> SUFFICES ASSUME NEW p \in work.paths,
                    \/ Given("mkdir") /\ Mkdir(t, p)
                    \/ Given("rmdir") /\ Rmdir(t, p)
                    \/ Given("create") /\ Create(t, p)
                    \/ Given("delete") /\ Delete(t, p)
                    \/ Given("chmod") /\ ChangeAttributes(t, p)
                    \/ Given("cp") /\ \E q \in work.paths : Copy(t, q, p)
                    \/ Given("truncate") /\ \E d \in Data \union {Empty} : TruncatePath(t, p, d)
             PROVE  CowInv' /\ (WaitInv /\ NoLeak => WaitInv')
  BY DEF TreeCommands
<1>2. p \in Path
  BY <1>1
<1>3. ASSUME Moves({}), UNCHANGED fds PROVE CowInv' /\ (WaitInv /\ NoLeak => WaitInv')
  BY <1>3, SameFdsKeeps, SameFdsWait
<1>4. ASSUME NEW x \in Removing, Given(x), Moves(Held(t)), UNCHANGED fds
      PROVE  CowInv' /\ (WaitInv /\ NoLeak => WaitInv')
  BY <1>1, <1>4, SameFdsKeeps, RemovalWaits DEF Given
<1>5. CASE Mkdir(t, p)
  BY <1>1, <1>2, <1>3, <1>5, MkdirMoves
<1>6. CASE Given("rmdir") /\ Rmdir(t, p)
  <2>1. "rmdir" \in Removing
    BY DEF Removing
  <2> QED
    BY <1>1, <1>2, <1>4, <1>6, <2>1, RmdirMoves
<1>7. CASE Create(t, p)
  BY <1>1, <1>2, <1>3, <1>7, CreateMoves
<1>8. CASE Given("delete") /\ Delete(t, p)
  <2>1. "delete" \in Removing
    BY DEF Removing
  <2>2. ASSUME Held(t) # {} PROVE Lone(vol)
    <3>1. work.ops \intersect {"open", "open truncate"} # {}
      BY <1>1, <2>2, NoneHeld
    <3>2. "snapshot create" \notin work.ops
      BY <1>1, <1>8, <3>1 DEF WaitingUnshared, WorkOK, Given
    <3> QED
      BY <3>2 DEF CowInv, NothingShared
  <2>3. Moves(Held(t)) /\ UNCHANGED fds
    BY <1>1, <1>2, <1>8, <2>2, DeleteMoves
  <2> QED
    BY <1>4, <1>8, <2>1, <2>3
<1>9. CASE ChangeAttributes(t, p)
  BY <1>1, <1>2, <1>3, <1>9, ChangeAttributesMoves
<1>10. CASE \E q \in work.paths : Copy(t, q, p)
  BY <1>1, <1>2, <1>3, <1>10, CopyMoves
<1>11. CASE \E d \in Data \union {Empty} : TruncatePath(t, p, d)
  BY <1>1, <1>2, <1>3, <1>11, TruncatePathMoves
<1> QED
  BY <1>5, <1>6, <1>7, <1>8, <1>9, <1>10, <1>11

LEMMA SnapshotStep ==
    ASSUME CowInv, NEW t \in work.users, SnapshotCommands(t), work' = work
    PROVE  CowInv' /\ (WaitInv /\ NoLeak => WaitInv')
<1>1. VolumeOK /\ t \in Terminal
  BY Commanders DEF CowInv, VolumeOK
<1> SUFFICES ASSUME NEW s \in Snap,
                    \/ Given("snapshot create") /\ SnapshotCreate(t, s)
                    \/ Given("snapshot rollback") /\ SnapshotRollback(t, s)
                    \/ Given("snapshot delete") /\ SnapshotDelete(t, s)
             PROVE  CowInv' /\ (WaitInv /\ NoLeak => WaitInv')
  BY DEF SnapshotCommands
<1>2. ASSUME NEW x \in Removing, Given(x), Moves(Held(t)), UNCHANGED fds
      PROVE  CowInv' /\ (WaitInv /\ NoLeak => WaitInv')
  BY <1>1, <1>2, SameFdsKeeps, RemovalWaits DEF Given
<1>3. "snapshot rollback" \in Removing /\ "snapshot delete" \in Removing
  BY DEF Removing
<1>4. CASE Given("snapshot create") /\ SnapshotCreate(t, s)
  <2>1. Moves({}) /\ UNCHANGED fds
    BY <1>1, <1>4, SnapshotCreateMoves DEF Given
  <2> QED
    BY <2>1, SameFdsKeeps, SameFdsWait
<1>5. CASE Given("snapshot rollback") /\ SnapshotRollback(t, s)
  BY <1>1, <1>2, <1>3, <1>5, SnapshotRollbackMoves
<1>6. CASE Given("snapshot delete") /\ SnapshotDelete(t, s)
  BY <1>1, <1>2, <1>3, <1>6, SnapshotDeleteMoves
<1> QED
  BY <1>4, <1>5, <1>6

LEMMA FdsGrow ==
    ASSUME FdsOK, NEW t \in Terminal, NEW f, f \notin DOMAIN fds[t], NEW i, NEW p,
           Opened(t, f, i, p)
    PROVE  \A u \in Terminal : Held(u) \subseteq Held(u)'
<1>1. /\ fds'[t] = With(fds[t], f, [ino |-> i, path |-> p])
      /\ \A u \in Terminal \ {t} : fds'[u] = fds[u]
  BY DEF Opened, FdsOK, Fds
<1>2. DOMAIN fds[t] \subseteq DOMAIN fds'[t] /\ \A g \in DOMAIN fds[t] : fds'[t][g] = fds[t][g]
  BY <1>1 DEF With
<1> QED
  BY <1>1, <1>2 DEF Held

LEMMA FileStep ==
    ASSUME CowInv, NEW t \in work.users, FileCommands(t), work' = work
    PROVE  CowInv' /\ (WaitInv /\ NoLeak => WaitInv')
<1> DEFINE Kept == CowInv' /\ (WaitInv /\ NoLeak => WaitInv')
           Unopened == work.ops \intersect {"open", "open truncate"} = {}
<1>1. VolumeOK /\ FdsOK /\ WorkOK /\ t \in Terminal /\ work.paths \subseteq Path
  BY Commanders DEF CowInv, VolumeOK
<1>2. Unopened => DOMAIN fds[t] = {} /\ \A u \in Terminal : fds[u] = <<>>
  BY <1>1, NoneHeld DEF CowInv, NothingOpen
<1> HIDE DEF Kept
<1>3. ASSUME NEW f \in Fd, NEW p \in work.paths, Given("open"), Open(t, f, p)
      PROVE  Kept
  <2>1. Moves({}) /\ fds' \in Fds
    BY <1>1, <1>3, OpenMoves
  <2>2. ~Unopened
    BY <1>3 DEF Given
  <2>3. CowInv'
    BY <2>1, <2>2, StepKeeps
  <2>4. \A u \in Terminal : Held(u) \subseteq Held(u)'
    BY <1>1, <1>3, FdsGrow DEF Open
  <2> QED
    BY <2>1, <2>3, <2>4, NothingWaits DEF Kept
<1>4. ASSUME NEW f \in Fd, NEW p \in work.paths, Given("open truncate"), OpenTruncate(t, f, p)
      PROVE  Kept
  <2>1. Moves({}) /\ fds' \in Fds
    BY <1>1, <1>4, OpenTruncateMoves
  <2>2. ~Unopened
    BY <1>4 DEF Given
  <2>3. CowInv'
    BY <2>1, <2>2, StepKeeps
  <2>4. f \notin DOMAIN fds[t] /\ (UNCHANGED fds \/ \E i : Opened(t, f, i, p))
    BY <1>4 DEF OpenTruncate
  <2>5. \A u \in Terminal : Held(u) \subseteq Held(u)'
    <3>1. CASE UNCHANGED fds
      BY <3>1 DEF Held
    <3>2. CASE \E i : Opened(t, f, i, p)
      BY <1>1, <2>4, <3>2, FdsGrow
    <3> QED
      BY <2>4, <3>1, <3>2
  <2> QED
    BY <2>1, <2>3, <2>5, NothingWaits DEF Kept
<1>5. ASSUME NEW f \in DOMAIN fds[t], NEW d \in Data \union {Empty}, Given("write"), WriteFd(t, f, d)
      PROVE  Kept
  <2>1. Moves({}) /\ fds' \in Fds
    BY <1>1, <1>5, WriteFdMoves
  <2>2. ~Unopened
    BY <1>2, <1>5
  <2>3. CowInv'
    BY <2>1, <2>2, StepKeeps
  <2>4. ASSUME WaitInv PROVE WaitInv'
    <3>1. Pending(vol) = {}
      BY <1>5, <2>4 DEF WaitInv, Given
    <3>2. Pending(vol') = {}
      BY <2>1, <3>1 DEF Moves
    <3>3. (Pending(vol))' = Pending(vol')
      BY DEF Pending
    <3> QED
      BY <3>2, <3>3 DEF WaitInv
  <2> QED
    BY <2>3, <2>4 DEF Kept
<1>6. ASSUME NEW f \in DOMAIN fds[t], Close(t, f)
      PROVE  Kept
  <2> DEFINE left == {fds[t][g].ino : g \in DOMAIN fds[t] \ {f}}
             i == fds[t][f].ino
  <2>1. /\ Moves(left) /\ fds' \in Fds
        /\ Pending(vol') \subseteq left \union (Pending(vol) \ {i})
        /\ i \notin Pending(vol) => vol' = vol
        /\ fds' = [fds EXCEPT ![t] = Without(fds[t], f)]
    BY <1>1, <1>6, CloseMoves
  <2>2. ~Unopened
    BY <1>2, <1>6
  <2>3. CowInv'
    BY <2>1, <2>2, StepKeeps
  <2>4. Held(t)' = left /\ Held(t) = left \union {i} /\ \A u \in Terminal \ {t} : Held(u)' = Held(u)
    <3>1. fds \in [Terminal -> Tables(Fd, [ino : Inodes, path : Path])]
      BY <1>1 DEF FdsOK, Fds
    <3>2. fds'[t] = Without(fds[t], f) /\ \A u \in Terminal \ {t} : fds'[u] = fds[u]
      BY <1>1, <2>1, <3>1
    <3>3. DOMAIN fds'[t] = DOMAIN fds[t] \ {f} /\ \A g \in DOMAIN fds'[t] : fds'[t][g] = fds[t][g]
      BY <3>2 DEF Without, Restrict
    <3> QED
      BY <3>2, <3>3 DEF Held
  <2>5. ASSUME WaitInv PROVE WaitInv'
    <3> HIDE DEF left, i
    <3>1. Pending(vol) \subseteq UNION {Held(u) : u \in Terminal}
      BY <2>5 DEF WaitInv
    <3>2. ASSUME NEW j \in Pending(vol') PROVE \E u \in Terminal : j \in Held(u)'
      <4>1. CASE j \in left
        BY <1>1, <2>4, <4>1
      <4>2. CASE j \notin left
        <5>1. j \in Pending(vol) /\ j # i
          BY <2>1, <3>2, <4>2
        <5>2. PICK u \in Terminal : j \in Held(u)
          BY <3>1, <5>1
        <5>3. u # t
          BY <2>4, <4>2, <5>1, <5>2
        <5> QED
          BY <2>4, <5>2, <5>3
      <4> QED
        BY <4>1, <4>2
    <3>3. ASSUME work.ops \intersect {"exit", "write"} # {} PROVE Pending(vol') = {}
      <4>1. Pending(vol) = {}
        BY <2>5, <3>3 DEF WaitInv
      <4>2. vol' = vol
        BY <2>1, <4>1
      <4> QED
        BY <4>1, <4>2
    <3>4. (Pending(vol))' = Pending(vol')
      BY DEF Pending
    <3> QED
      BY <3>2, <3>3, <3>4 DEF WaitInv
  <2> QED
    BY <2>3, <2>5 DEF Kept
<1>7. ASSUME fds' = [fds EXCEPT ![t] = <<>>]
      PROVE  /\ Unopened => \A u \in Terminal : fds'[u] = <<>>
             /\ \A u \in Terminal \ {t} : fds'[u] = fds[u]
  <2>1. fds \in [Terminal -> Tables(Fd, [ino : Inodes, path : Path])]
    BY <1>1 DEF FdsOK, Fds
  <2> QED
    BY <1>1, <1>2, <1>7, <2>1
<1>8. ASSUME Logout(t)
      PROVE  Kept
  <2>1. /\ Moves({}) /\ fds' \in Fds /\ fds' = [fds EXCEPT ![t] = <<>>]
        /\ Pending(vol') \subseteq Pending(vol) \ Held(t)
    BY <1>1, <1>8, LogoutMoves
  <2>2. CowInv'
    BY <1>7, <2>1, StepKeeps
  <2>3. ASSUME WaitInv PROVE WaitInv'
    <3>1. \A u \in Terminal \ {t} : Held(u)' = Held(u)
      BY <1>7, <2>1 DEF Held
    <3>2. (Pending(vol))' = Pending(vol')
      BY DEF Pending
    <3> QED
      BY <2>1, <2>3, <3>1, <3>2 DEF WaitInv
  <2> QED
    BY <2>2, <2>3 DEF Kept
<1>9. ASSUME Given("exit"), Exit(t)
      PROVE  Kept
  <2>1. Moves({}) /\ fds' \in Fds /\ fds' = [fds EXCEPT ![t] = <<>>]
    BY <1>1, <1>9, ExitMoves
  <2>2. CowInv'
    BY <1>7, <2>1, StepKeeps
  <2>3. ASSUME WaitInv PROVE WaitInv'
    <3>1. Pending(vol) = {}
      BY <1>9, <2>3 DEF WaitInv, Given
    <3>2. Pending(vol') = {}
      BY <2>1, <3>1 DEF Moves
    <3>3. (Pending(vol))' = Pending(vol')
      BY DEF Pending
    <3> QED
      BY <3>2, <3>3 DEF WaitInv
  <2> QED
    BY <2>2, <2>3 DEF Kept
<1>10. ASSUME FsckRepair(t)
       PROVE  Kept
  <2>1. Moves({}) /\ UNCHANGED fds
    BY <1>1, <1>10, FsckRepairMoves
  <2> QED
    BY <2>1, SameFdsKeeps, SameFdsWait DEF Kept
<1>11. Kept
  BY <1>3, <1>4, <1>5, <1>6, <1>8, <1>9, <1>10 DEF FileCommands
<1> QED
  BY <1>11 DEF Kept

-----------------------------------------------------------------------------
\* The theorems.

LEMMA FreshIsCounted ==
    ASSUME WorkOK
    PROVE  Counted(FreshImage, {}) /\ Lone(FreshImage) /\ Pending(FreshImage) = {}
<1> DEFINE im == FreshImage
           n == [dir |-> TRUE, ents |-> <<>>, up |-> 1, ref |-> 1, pend |-> FALSE, blk |-> 1]
           b == [ref |-> 1, data |-> Listing]
<1>1. /\ im.root = 1 /\ im.node = [i \in {1} |-> n] /\ im.block = [x \in {1} |-> b]
      /\ im.snap = <<>> /\ im = [root |-> 1, node |-> im.node, block |-> im.block, snap |-> <<>>]
  BY DEF FreshImage
<1>2. DOMAIN <<>> = {}
  BY EmptyTable
<1>3. <<>> \in Tables(Name, Inodes) /\ <<>> \in Tables(Snap, Inodes)
  BY EmptyTable
<1>4. n \in NodeSet /\ b \in BlockSet
  BY <1>3, Sizes DEF NodeSet, BlockSet, Content
<1>5. /\ n.dir = TRUE /\ n.ents = <<>> /\ n.ref = 1 /\ n.pend = FALSE /\ n.blk = 1 /\ b.ref = 1
  OBVIOUS
<1> HIDE DEF n, b, im
<1>6. DOMAIN im.node = {1} /\ im.node[1] = n /\ DOMAIN im.block = {1} /\ im.block[1] = b
  BY <1>1
<1>7. im.node \in Tables(Inodes, NodeSet) /\ im.block \in Tables(Blocks, BlockSet)
  <2>1. im.node \in [{1} -> NodeSet] /\ im.block \in [{1} -> BlockSet]
    BY <1>1, <1>4
  <2>2. {1} \subseteq Inodes /\ {1} \subseteq Blocks
    BY Sizes
  <2> QED
    BY <2>1, <2>2, <1>6, InTables
<1>8. im \in Image
  BY <1>1, <1>3, <1>7, Sizes DEF Image
<1>9. \A i : Entries(im, i) = {} /\ Snaps(im, i) = {}
  BY <1>1, <1>2, <1>5, <1>6 DEF Entries, EntriesTo, Snaps
<1>10. \A i : Links(im, i) = OneIf(i = 1)
  <2>1. ASSUME NEW i PROVE Links(im, i) = OneIf(i = 1)
    <3>1. Links(im, i) = Cardinality(Entries(im, i)) + Cardinality(Snaps(im, i)) + OneIf(im.root = i)
      BY <1>8, LinksParts
    <3>2. Cardinality(Entries(im, i)) = 0 /\ Cardinality(Snaps(im, i)) = 0
      BY <1>9, FS_EmptySet
    <3> QED
      BY <1>1, <3>1, <3>2 DEF OneIf
  <2> QED
    BY <2>1
<1>11. InodesCounted(im, {})
  <2>1. ASSUME NEW i \in DOMAIN im.node PROVE InodeCounted(im, {}, i)
    BY <1>5, <1>6, <1>10, <2>1 DEF InodeCounted, OneIf
  <2>2. \A i \in Inodes : Links(im, i) # 0 => i \in DOMAIN im.node
    BY <1>6, <1>10 DEF OneIf
  <2>3. FilesAreLeaves(im)
    BY <1>5, <1>6 DEF FilesAreLeaves
  <2> QED
    BY <2>1, <2>2, <2>3 DEF InodesCounted
<1>12. BlocksCounted(im)
  <2>1. \A x : UsersApart(im, 0, x) = IF x = 1 THEN {1} ELSE {}
    BY <1>5, <1>6 DEF UsersApart, BlockUsers
  <2>2. Cardinality({1}) = 1
    BY FS_Singleton
  <2> QED
    BY <1>5, <1>6, <1>7, <2>1, <2>2 DEF BlocksCounted, CountsUsers
<1>13. Lone(im) /\ Pending(im) = {}
  BY <1>1, <1>2, <1>5, <1>6 DEF Lone, Pending
<1> QED
  BY <1>8, <1>11, <1>12, <1>13 DEF Counted, im

LEMMA InitOK ==
    ASSUME CowAssumption, Init
    PROVE  CowInv /\ WaitInv
<1>1. WorkOK /\ vol = FreshImage /\ mem = [t \in Terminal |-> FreshImage]
      /\ fds = [t \in Terminal |-> <<>>]
  BY DEF Init, WorkOK
<1>2. Counted(FreshImage, {}) /\ Lone(FreshImage) /\ Pending(FreshImage) = {}
  BY <1>1, FreshIsCounted
<1> HIDE DEF FreshImage
<1>3. Counted(vol, {}) /\ Lone(vol) /\ Pending(vol) = {}
  BY <1>1, <1>2
<1>4. mem \in [Terminal -> Image]
  BY <1>1, <1>2 DEF Counted
<1>5. FdsOK
  <2>1. <<>> \in Tables(Fd, [ino : Inodes, path : Path])
    BY EmptyTable
  <2> QED
    BY <1>1, <2>1 DEF FdsOK, Fds
<1>6. WaitInv
  BY <1>3 DEF WaitInv
<1> QED
  BY <1>1, <1>3, <1>4, <1>5, <1>6 DEF CowInv, VolumeOK, NothingShared, NothingOpen

LEMMA StepOK ==
    ASSUME CowInv, WaitingUnshared, [Next]_vars
    PROVE  CowInv' /\ (WaitInv /\ NoLeak => WaitInv')
<1>1. CASE UNCHANGED vars
  <2>1. vol' = vol /\ mem' = mem /\ fds' = fds /\ work' = work
    BY <1>1 DEF vars
  <2>2. VolumeOK
    BY DEF CowInv
  <2>3. mem \in [Terminal -> Image] /\ Follows(vol, vol, {})
    BY <2>2, Stays DEF VolumeOK
  <2>4. Moves({})
    BY <2>1, <2>3, FollowsMoves
  <2> QED
    BY <2>1, <2>4, SameFdsKeeps, SameFdsWait
<1>2. CASE Next
  <2>1. PICK t \in work.users : TreeCommands(t) \/ FileCommands(t) \/ SnapshotCommands(t)
    BY <1>2 DEF Next
  <2>2. work' = work
    BY <1>2 DEF Next
  <2> QED
    BY <2>1, <2>2, TreeStep, FileStep, SnapshotStep
<1> QED
  BY <1>1, <1>2

\* What every command leaves: a volume whose counts are exact, also for the inodes
\* that wait for a close, memories that are images, and fds that name inodes.
THEOREM CowInvariant ==
    ASSUME WaitingUnshared
    PROVE  Spec => []CowInv
<1>1. Init => CowInv
  BY CowAssumption, InitOK
<1>2. WaitingUnshared /\ CowInv /\ [Next]_vars => CowInv'
  BY StepOK
<1> QED
  BY <1>1, <1>2, PTL DEF Spec

LEMMA ImagesAreOK ==
    ASSUME WorkOK, NEW im \in Image
    PROVE  ImageOK(im)
<1>1. /\ im.root \in Inodes /\ DOMAIN im.node \subseteq Inodes
      /\ DOMAIN im.block \subseteq Blocks /\ DOMAIN im.snap \subseteq Snap
      /\ \A i \in DOMAIN im.node : im.node[i] \in NodeSet
      /\ \A b \in DOMAIN im.block : im.block[b] \in BlockSet
  BY ImageFields
<1>2. ASSUME NEW i \in DOMAIN im.node
      PROVE  /\ im.node[i].blk \in Blocks \union {0} /\ im.node[i].ref \in Nat
             /\ \A n \in DOMAIN im.node[i].ents : n \in Name /\ im.node[i].ents[n] \in Inodes
  BY <1>1, NodeFields
<1>3. ASSUME NEW b \in DOMAIN im.block
      PROVE  im.block[b].data \in Data \union {Empty, Listing}
  BY <1>1 DEF BlockSet, Content
<1> QED
  BY <1>1, <1>2, <1>3 DEF ImageOK

\* The volume and every terminal's memory are images of the configured size, that of a
\* command that ran out of inodes or blocks half way too, and every fd names an inode
\* number of the table.
THEOREM CowTypes ==
    ASSUME WaitingUnshared
    PROVE  Spec => []TypeOK
<1>1. CowInv => TypeOK
  <2> SUFFICES ASSUME CowInv PROVE TypeOK
    OBVIOUS
  <2>1. WorkOK /\ vol \in Image /\ mem \in [Terminal -> Image] /\ FdsOK
    BY Stays DEF CowInv, VolumeOK
  <2>2. ImageOK(vol) /\ \A t \in Terminal : ImageOK(mem[t])
    BY <2>1, ImagesAreOK
  <2>3. \A t \in Terminal : \A f \in DOMAIN fds[t] : f \in Fd /\ fds[t][f].ino \in Inodes
    BY <2>1, FdFields
  <2> QED
    BY <2>2, <2>3 DEF TypeOK
<1> QED
  BY <1>1, CowInvariant, PTL

\* Whatever ensureMutablePath, cloneInode, releaseInode and setFileData share, copy, release
\* or leave half done, the refcount of an inode of the volume is the number of its
\* links, and that of a block the number of its users.
THEOREM CountsStayExact ==
    ASSUME WaitingUnshared
    PROVE  Spec => []CountsExact
<1>1. CowInv => CountsExact
  <2> SUFFICES ASSUME CowInv PROVE CountsExact
    OBVIOUS
  <2>1. WorkOK /\ vol \in Image /\ InodesCounted(vol, {}) /\ BlocksCounted(vol)
    BY DEF CowInv, VolumeOK, Counted
  <2>2. ASSUME NEW i \in DOMAIN vol.node
        PROVE  LET n == vol.node[i] IN
               IF n.pend THEN n.ref \in {Links(vol, i), Links(vol, i) + 1} ELSE n.ref = Links(vol, i)
    <3>1. InodeCounted(vol, {}, i)
      BY <2>1 DEF InodesCounted
    <3>2. vol.node[i].ref \in Nat /\ Links(vol, i) \in Nat
      BY <2>1, ImageFields, NodeFields, LinksParts
    <3> QED
      BY <3>1, <3>2 DEF InodeCounted, OneIf
  <2>3. \A b : UsersApart(vol, 0, b) = BlockUsers(vol, b)
    BY <2>1, ImageFields, Sizes DEF UsersApart, BlockUsers
  <2>4. DOMAIN vol.block \subseteq Blocks
    BY <2>1, ImageFields
  <2>5. BlockCountsExact
    BY <2>1, <2>3, <2>4 DEF BlocksCounted, CountsUsers, BlockCountsExact
  <2> QED
    BY <2>2, <2>5 DEF CountsExact, InodeCountsExact
<1> QED
  BY <1>1, CowInvariant, PTL

\* Nothing that the root, a directory or a snapshot names is ever freed by releaseInode.
THEOREM NothingEverDangles ==
    ASSUME WaitingUnshared
    PROVE  Spec => []NothingDangles
<1>1. CowInv => NothingDangles
  BY NamedIsThere DEF CowInv, VolumeOK, Counted, NothingDangles, Has
<1> QED
  BY <1>1, CowInvariant, PTL

\* An inode that nothing names any more is open in some terminal: delete, rmdir and the
\* snapshot commands free the others at once, close and logout the last of these.
THEOREM OrphansStayOpen ==
    ASSUME WaitingUnshared, NoLeak
    PROVE  Spec => []OrphansAreOpen
<1>1. Init => CowInv /\ WaitInv
  BY CowAssumption, InitOK
<1>2. CowInv /\ WaitInv /\ [Next]_vars => CowInv' /\ WaitInv'
  BY StepOK
<1>3. CowInv /\ WaitInv => OrphansAreOpen
  <2> SUFFICES ASSUME CowInv, WaitInv, NEW i \in DOMAIN vol.node, Links(vol, i) = 0
               PROVE  \E t \in Terminal : i \in Held(t)
    BY DEF OrphansAreOpen
  <2>1. InodeCounted(vol, {}, i)
    BY DEF CowInv, VolumeOK, Counted, InodesCounted
  <2>2. vol.node[i].pend
    BY <2>1 DEF InodeCounted, OneIf
  <2>3. i \in Pending(vol)
    BY <2>2 DEF Pending
  <2> QED
    BY <2>3 DEF WaitInv
<1> QED
  BY <1>1, <1>2, <1>3, PTL DEF Spec

=============================================================================
