--------------------------- MODULE Identity_proofs ---------------------------
\* The two halves of membership agree, for any accounts, groups and commands.
EXTENDS Identity, IntervalInduction, FiniteSetTheorems, TLAPS

GroupDef == [owner : User \union {"root"}, parents : SUBSET Name, members : SUBSET Name,
             option : BOOLEAN, scope : Scopes \union {NoScope}]

GroupsTyped ==
    /\ active \in User \union {NoUser}
    /\ member \in [User -> SUBSET Name]
    /\ DOMAIN group \subseteq Name
    /\ group \in [DOMAIN group -> GroupDef]
    /\ work \in Workload

MembershipInv == GroupsTyped /\ MembershipAgrees

LEMMA InitMembership == Init => MembershipInv
<1> SUFFICES ASSUME Init PROVE MembershipInv
  OBVIOUS
<1>1. DOMAIN group = User \union DOMAIN Above
  BY DEF Init
<1>2. \A g \in DOMAIN group : group[g] \in GroupDef /\ group[g].parents \subseteq DOMAIN group
  BY IdentityAssumption DEF Init, GroupDef
<1>3. GroupsTyped
  <2>1. member \in [User -> SUBSET Name]
    BY IdentityAssumption DEF Init
  <2>2. group \in [DOMAIN group -> GroupDef]
    BY <1>2 DEF Init
  <2> QED
    BY <2>1, <2>2, <1>1, IdentityAssumption DEF GroupsTyped, Init
<1>4. \A u \in User : member[u] \subseteq DOMAIN group
  BY <1>1, IdentityAssumption DEF Init
<1>5. \A g \in DOMAIN group : /\ group[g].members \subseteq User
                              /\ \A u \in group[g].members : g \in member[u]
  BY <1>1, IdentityAssumption DEF Init
<1> QED
  BY <1>2, <1>3, <1>4, <1>5 DEF MembershipInv, MembershipAgrees

LEMMA CreateMembership ==
    ASSUME MembershipInv, NEW u \in User, NEW g \in Name, GroupCreate(u, g), active' = active, work' = work
    PROVE  MembershipInv'
<1>1. /\ DOMAIN group' = DOMAIN group \union {g} /\ g \notin DOMAIN group
      /\ \A x \in DOMAIN group : group'[x] = group[x]
      /\ group'[g] = [owner |-> u, parents |-> {}, members |-> {u},
                      option |-> TRUE, scope |-> NoScope]
      /\ member' = [member EXCEPT ![u] = @ \union {g}]
  BY DEF GroupCreate
<1>2. GroupsTyped'
  <2>1. group'[g] \in GroupDef
    BY <1>1, IdentityAssumption DEF GroupDef
  <2>2. group' \in [DOMAIN group' -> GroupDef]
    BY <2>1, <1>1 DEF GroupCreate, MembershipInv, GroupsTyped
  <2> QED
    BY <2>2, <1>1 DEF MembershipInv, GroupsTyped
<1>3. \A v \in User : member'[v] = IF v = u THEN member[u] \union {g} ELSE member[v]
  BY <1>1 DEF MembershipInv, GroupsTyped
<1>4. \A v \in User : member'[v] \subseteq DOMAIN group'
  BY <1>1, <1>3 DEF MembershipInv, MembershipAgrees
<1>5. ASSUME NEW x \in DOMAIN group'
      PROVE  /\ group'[x].parents \subseteq DOMAIN group'
             /\ \A v \in group'[x].members \intersect User : x \in member'[v]
             /\ \A h \in group'[x].members \ User : h \in DOMAIN group' /\ x \in group'[h].parents
  <2>1. CASE x = g
    BY <2>1, <1>1, <1>3
  <2>2. CASE x # g
    BY <2>2, <1>1, <1>3, <1>5 DEF MembershipInv, MembershipAgrees
  <2> QED
    BY <2>1, <2>2
<1> QED
  BY <1>2, <1>4, <1>5 DEF MembershipInv, MembershipAgrees

LEMMA DeleteMembership ==
    ASSUME MembershipInv, NEW u \in User, NEW g \in Name, GroupDelete(u, g), active' = active, work' = work
    PROVE  MembershipInv'
<1>1. /\ DOMAIN group' = DOMAIN group \ {g}
      /\ member' = [v \in User |-> member[v] \ {g}]
      /\ \A x \in DOMAIN group' :
            /\ group'[x] \in GroupDef
            /\ group'[x].parents = group[x].parents \ {g}
            /\ group'[x].members = group[x].members \ {g}
  <2>1. /\ DOMAIN group' = DOMAIN group \ {g}
        /\ member' = [v \in User |-> member[v] \ {g}]
        /\ \A x \in DOMAIN group' :
              group'[x] = [group[x] EXCEPT !.parents = @ \ {g}, !.members = @ \ {g}]
    BY DEF GroupDelete
  <2>2. \A x \in DOMAIN group : group[x] \in GroupDef
    BY DEF MembershipInv, GroupsTyped
  <2>3. ASSUME NEW r \in GroupDef
        PROVE  LET t == [r EXCEPT !.parents = @ \ {g}, !.members = @ \ {g}]
               IN t \in GroupDef /\ t.parents = r.parents \ {g} /\ t.members = r.members \ {g}
    BY DEF GroupDef
  <2> QED
    <3> SUFFICES ASSUME NEW x \in DOMAIN group'
                 PROVE  /\ group'[x] \in GroupDef
                        /\ group'[x].parents = group[x].parents \ {g}
                        /\ group'[x].members = group[x].members \ {g}
      BY <2>1
    <3>1. x \in DOMAIN group /\ group[x] \in GroupDef
      BY <2>1, <2>2
    <3> QED
      BY <3>1, <2>1, <2>3
<1>2. GroupsTyped'
  <2>1. DOMAIN group' \subseteq DOMAIN group /\ \A x \in DOMAIN group' : group'[x] \in GroupDef
    BY <1>1
  <2>2. group' \in [DOMAIN group' -> GroupDef]
    BY <2>1 DEF GroupDelete
  <2>3. member' \in [User -> SUBSET Name]
    BY <1>1 DEF MembershipInv, GroupsTyped
  <2> QED
    BY <2>1, <2>2, <2>3 DEF MembershipInv, GroupsTyped
<1> QED
  BY <1>1, <1>2 DEF MembershipInv, MembershipAgrees, GroupsTyped

LEMMA GrantMembership ==
    ASSUME MembershipInv, NEW u \in User, NEW g \in Name, NEW target \in Name,
           NEW option \in BOOLEAN, NEW scope \in Scopes \union {NoScope},
           GroupGrant(u, g, target, option, scope), active' = active, work' = work
    PROVE  MembershipInv'
<1> DEFINE changed == [group[g] EXCEPT !.members = @ \union {target},
                                       !.option = @ \/ option,
                                       !.scope = IF scope = NoScope THEN @ ELSE scope]
           granted == [group EXCEPT ![g] = changed]
<1>1. g \in DOMAIN group /\ target \in User \union DOMAIN group /\ group[g] \in GroupDef
  BY DEF GroupGrant, MembershipInv, GroupsTyped
<1>2. /\ changed \in GroupDef
      /\ changed.parents = group[g].parents
      /\ changed.members = group[g].members \union {target}
  BY <1>1 DEF GroupDef
<1> HIDE DEF changed
<1>3. CASE target \in User
  <2>1. /\ member' = [member EXCEPT ![target] = @ \union {g}] /\ group' = granted
    BY <1>3 DEF GroupGrant, changed
  <2>2. GroupsTyped'
    BY <1>1, <1>2, <2>1, <1>3 DEF MembershipInv, GroupsTyped
  <2>3. /\ \A v \in User : member[v] \subseteq member'[v] /\ member'[v] \subseteq member[v] \union {g}
        /\ g \in member'[target]
    BY <2>1, <1>3 DEF MembershipInv, GroupsTyped
  <2>4. /\ DOMAIN group' = DOMAIN group
        /\ \A x \in DOMAIN group :
              /\ group'[x].parents = group[x].parents
              /\ group'[x].members = IF x = g THEN group[x].members \union {target}
                                     ELSE group[x].members
    BY <1>1, <1>2, <2>1 DEF MembershipInv, GroupsTyped
  <2> QED
    <3>1. ASSUME NEW x \in DOMAIN group'
          PROVE  /\ group'[x].parents \subseteq DOMAIN group'
                 /\ \A v \in group'[x].members \intersect User : x \in member'[v]
                 /\ \A h \in group'[x].members \ User :
                       h \in DOMAIN group' /\ x \in group'[h].parents
      <4>1. x \in DOMAIN group /\ group'[x].parents = group[x].parents
        BY <2>4, <3>1
      <4>2. \A h \in group'[x].members \ User : h \in group[x].members
        BY <1>3, <2>4, <4>1
      <4>3. \A h \in group'[x].members \ User : h \in DOMAIN group /\ x \in group[h].parents
        BY <4>1, <4>2 DEF MembershipInv, MembershipAgrees
      <4>4. ASSUME NEW v \in group'[x].members \intersect User PROVE x \in member'[v]
        <5>1. CASE v \in group[x].members
          BY <5>1, <4>1, <2>3 DEF MembershipInv, MembershipAgrees
        <5>2. CASE v \notin group[x].members
          <6>1. v \in group'[x].members
            BY <4>4
          <6>2. x = g /\ v = target
            BY <6>1, <5>2, <4>1, <2>4
          <6> QED
            BY <6>2, <2>3
        <5> QED
          BY <5>1, <5>2
      <4>5. group[x].parents \subseteq DOMAIN group
        BY <4>1 DEF MembershipInv, MembershipAgrees
      <4> QED
        BY <4>1, <4>3, <4>4, <4>5, <2>4
    <3>2. \A v \in User : member'[v] \subseteq DOMAIN group'
      BY <1>1, <2>3, <2>4 DEF MembershipInv, MembershipAgrees
    <3> QED
      BY <2>2, <3>1, <3>2 DEF MembershipInv, MembershipAgrees
<1>4. CASE target \notin User
  <2>1. group' = [granted EXCEPT ![target].parents = @ \union {g}] /\ UNCHANGED member
    BY <1>4 DEF GroupGrant, changed
  <2>2. target \in DOMAIN group
    BY <1>1, <1>4
  <2>3. /\ granted \in [DOMAIN group -> GroupDef]
        /\ \A x \in DOMAIN group :
              /\ granted[x].parents = group[x].parents
              /\ granted[x].members = IF x = g THEN group[x].members \union {target}
                                      ELSE group[x].members
    BY <1>1, <1>2 DEF MembershipInv, GroupsTyped
  <2> HIDE DEF granted
  <2>4. [granted[target] EXCEPT !.parents = @ \union {g}] \in GroupDef
    BY <2>2, <2>3 DEF GroupDef
  <2>5. /\ DOMAIN group' = DOMAIN group
        /\ \A x \in DOMAIN group :
              group'[x] = IF x = target THEN [granted[x] EXCEPT !.parents = @ \union {g}]
                          ELSE granted[x]
    BY <2>1, <2>2, <2>3
  <2>6. \A x \in DOMAIN group :
              /\ group'[x] \in GroupDef
              /\ group'[x].members = granted[x].members
              /\ group'[x].parents = IF x = target THEN granted[x].parents \union {g}
                                     ELSE granted[x].parents
    BY <2>3, <2>4, <2>5 DEF GroupDef
  <2>7. group' \in [DOMAIN group' -> GroupDef]
    BY <2>1, <2>3, <2>5, <2>6
  <2>8. GroupsTyped'
    BY <2>1, <2>5, <2>7 DEF MembershipInv, GroupsTyped
  <2> QED
    <3>1. ASSUME NEW x \in DOMAIN group'
          PROVE  group'[x].parents \subseteq DOMAIN group'
      <4>1. x \in DOMAIN group /\ group[x].parents \subseteq DOMAIN group
        BY <2>5, <3>1 DEF MembershipInv, MembershipAgrees
      <4>2. group'[x].parents \subseteq group[x].parents \union {g}
        BY <4>1, <2>3, <2>6
      <4> QED
        BY <4>1, <4>2, <1>1, <2>5
    <3>2. ASSUME NEW x \in DOMAIN group', NEW h \in group'[x].members \ User
          PROVE  h \in DOMAIN group' /\ x \in group'[h].parents
      <4>1. CASE h = target /\ x = g
        BY <4>1, <2>2, <2>5, <2>6
      <4>2. CASE ~(h = target /\ x = g)
        <5>1. h \in group[x].members \ User
          BY <4>2, <2>3, <2>5, <2>6
        <5>2. h \in DOMAIN group /\ x \in group[h].parents
          BY <5>1, <2>5 DEF MembershipInv, MembershipAgrees
        <5> QED
          BY <5>2, <2>3, <2>5, <2>6
      <4> QED
        BY <4>1, <4>2
    <3>3. ASSUME NEW x \in DOMAIN group', NEW v \in group'[x].members \intersect User
          PROVE  x \in member'[v]
      <4>1. x \in DOMAIN group /\ v \in granted[x].members /\ v # target
        BY <1>4, <2>5, <2>6, <3>3
      <4>2. v \in group[x].members
        BY <4>1, <2>3
      <4> QED
        BY <4>1, <4>2, <2>1, <3>3 DEF MembershipInv, MembershipAgrees
    <3>4. \A v \in User : member'[v] \subseteq DOMAIN group'
      BY <2>1, <2>5 DEF MembershipInv, MembershipAgrees
    <3> QED
      BY <2>8, <3>1, <3>2, <3>3, <3>4 DEF MembershipInv, MembershipAgrees
<1> QED
  BY <1>3, <1>4

LEMMA RevokeMembership ==
    ASSUME MembershipInv, NEW u \in User, NEW g \in Name, NEW target \in Name,
           GroupRevoke(u, g, target), active' = active, work' = work
    PROVE  MembershipInv'
<1> DEFINE left == [group EXCEPT ![g].members = @ \ {target}]
<1>1. g \in DOMAIN group
  BY DEF GroupRevoke
<1>2. /\ left \in [DOMAIN group -> GroupDef]
      /\ \A x \in DOMAIN group :
            /\ left[x].parents = group[x].parents
            /\ left[x].members = IF x = g THEN group[x].members \ {target} ELSE group[x].members
  <2>1. [group[g] EXCEPT !.members = @ \ {target}] \in GroupDef
    BY <1>1 DEF MembershipInv, GroupsTyped, GroupDef
  <2> QED
    BY <1>1, <2>1 DEF MembershipInv, GroupsTyped, GroupDef
<1>3. group' = IF target \in DOMAIN group
               THEN [left EXCEPT ![target].parents = @ \ {g}] ELSE left
  BY DEF GroupRevoke
<1> HIDE DEF left
<1>4. /\ DOMAIN group' = DOMAIN group
      /\ group' \in [DOMAIN group -> GroupDef]
      /\ \A x \in DOMAIN group :
            /\ group'[x].members = left[x].members
            /\ group'[x].parents = IF x = target THEN left[x].parents \ {g} ELSE left[x].parents
  <2>1. CASE target \in DOMAIN group
    <3>1. [left[target] EXCEPT !.parents = @ \ {g}] \in GroupDef
      BY <2>1, <1>2 DEF GroupDef
    <3> QED
      BY <3>1, <2>1, <1>2, <1>3 DEF GroupDef
  <2>2. CASE target \notin DOMAIN group
    BY <2>2, <1>2, <1>3
  <2> QED
    BY <2>1, <2>2
<1>5. /\ member' \in [User -> SUBSET Name]
      /\ \A v \in User : member'[v] = IF v = target THEN member[v] \ {g} ELSE member[v]
  BY DEF GroupRevoke, MembershipInv, GroupsTyped
<1>6. GroupsTyped'
  BY <1>4, <1>5 DEF MembershipInv, GroupsTyped
<1> QED
  <2>1. ASSUME NEW x \in DOMAIN group'
        PROVE  group'[x].parents \subseteq DOMAIN group'
    <3>1. x \in DOMAIN group /\ group[x].parents \subseteq DOMAIN group
      BY <1>4, <2>1 DEF MembershipInv, MembershipAgrees
    <3>2. group'[x].parents \subseteq group[x].parents
      BY <3>1, <1>2, <1>4
    <3> QED
      BY <3>1, <3>2, <1>4
  <2>2. ASSUME NEW x \in DOMAIN group', NEW h \in group'[x].members \ User
        PROVE  h \in DOMAIN group' /\ x \in group'[h].parents
    <3>1. h \in group[x].members \ User /\ ~(h = target /\ x = g)
      <4>1. x \in DOMAIN group /\ h \in left[x].members
        BY <1>4, <2>2
      <4> QED
        BY <4>1, <1>2, <2>2
    <3>2. h \in DOMAIN group /\ x \in group[h].parents
      BY <3>1, <1>4 DEF MembershipInv, MembershipAgrees
    <3> QED
      BY <3>1, <3>2, <1>2, <1>4
  <2>3. ASSUME NEW x \in DOMAIN group', NEW v \in group'[x].members \intersect User
        PROVE  x \in member'[v]
    <3>1. v \in group[x].members /\ ~(v = target /\ x = g)
      BY <1>2, <1>4, <2>3
    <3>2. x \in member[v]
      BY <3>1, <1>4, <2>3 DEF MembershipInv, MembershipAgrees
    <3> QED
      BY <3>1, <3>2, <1>5
  <2>4. \A v \in User : member'[v] \subseteq DOMAIN group'
    BY <1>4, <1>5 DEF MembershipInv, MembershipAgrees
  <2> QED
    BY <1>6, <2>1, <2>2, <2>3, <2>4 DEF MembershipInv, MembershipAgrees

LEMMA MembershipStep == MembershipInv /\ [Next]_vars => MembershipInv'
<1> SUFFICES ASSUME MembershipInv, [Next]_vars PROVE MembershipInv'
  OBVIOUS
<1>1. CASE UNCHANGED <<member, group, work>> /\ active' \in User \union {NoUser}
  BY <1>1 DEF MembershipInv, GroupsTyped, MembershipAgrees
<1>2. CASE Commands /\ UNCHANGED work
  <2>1. active \in User /\ active' = active /\ work' = work
    BY <1>2 DEF Commands, MembershipInv, GroupsTyped
  <2>2. CASE GroupCommands(active)
    <3>1. PICK g \in work.groups :
             \/ GroupCreate(active, g)
             \/ GroupDelete(active, g)
             \/ \E target \in work.targets, option \in BOOLEAN,
                   scope \in work.scopes \union {NoScope} :
                      GroupGrant(active, g, target, option, scope)
             \/ \E target \in work.targets : GroupRevoke(active, g, target)
      BY <2>2 DEF GroupCommands
    <3>2. g \in Name /\ work.targets \subseteq Name /\ work.scopes \subseteq Scopes
      BY IdentityAssumption DEF MembershipInv, GroupsTyped
    <3> QED
      BY <2>1, <3>1, <3>2, CreateMembership, DeleteMembership, GrantMembership, RevokeMembership
  <2>3. CASE AccessCommands(active)
    <3>1. UNCHANGED <<member, group>>
      BY <2>3 DEF AccessCommands, AclGrant, AclRevoke, Chmod, Chown, Chgroup
    <3> QED
      BY <1>1, <2>1, <3>1
  <2>4. CASE FileCommands(active)
    <3>1. UNCHANGED <<member, group>>
      BY <2>4 DEF FileCommands, Create, Copy, Delete
    <3> QED
      BY <1>1, <2>1, <3>1
  <2> QED
    BY <1>2, <2>2, <2>3, <2>4 DEF Commands
<1>3. CASE Logout /\ UNCHANGED work
  BY <1>1, <1>3 DEF Logout
<1>4. ASSUME NEW u \in work.users, Login(u), UNCHANGED work PROVE MembershipInv'
  <2>1. u \in User
    BY IdentityAssumption DEF MembershipInv, GroupsTyped
  <2> QED
    BY <1>1, <1>4, <2>1 DEF Login
<1>5. CASE UNCHANGED vars
  BY <1>1, <1>5 DEF vars, MembershipInv, GroupsTyped
<1> QED
  BY <1>2, <1>3, <1>4, <1>5 DEF Next

LEMMA MembershipInvHolds == Spec => []MembershipInv
  BY InitMembership, MembershipStep, PTL DEF Spec

\* Whatever is granted, revoked, deleted and created again, no member of a group is
\* without the group and no deleted group lives on.
THEOREM MembershipAgreesHolds == Spec => []MembershipAgrees
<1>1. MembershipInv => MembershipAgrees
  BY DEF MembershipInv
<1> QED
  BY MembershipInvHolds, <1>1, PTL

----------------------------------------------------------------------------
\* Effective groups.  The function that EffectiveGroups computes with, and the two
\* steps it takes: what the constraints leave, and what is inherited.

Depth == Cardinality(Name)
AllowedIn(G, S, p) == {g \in S : g \in DOMAIN G => ConstraintsAllow(G[g].scope, p)}
AboveIn(G, S)      == UNION {G[g].parents : g \in S \intersect DOMAIN G}

Inherits(f, u, p) ==
    /\ f \in [0..Depth -> SUBSET Name]
    /\ f[0] = AllowedIn(group, member[u], p)
    /\ \A n \in 1..Depth : f[n] = AllowedIn(group, member[u] \union AboveIn(group, f[n - 1]), p)

LEMMA DepthIsNat == Depth \in Nat
  BY IdentityAssumption, FS_CardinalityType DEF Depth

\* What EffectiveGroups returns is the last value of such a function, and the
\* function exists.
LEMMA EffectiveIsLast ==
    GroupsTyped => \A u \in User : \A p : \E f : Inherits(f, u, p) /\ EffectiveGroups(u, p) = f[Depth]
<1> SUFFICES ASSUME GroupsTyped, NEW u \in User, NEW p
             PROVE  \E f : Inherits(f, u, p) /\ EffectiveGroups(u, p) = f[Depth]
  OBVIOUS
<1> DEFINE base == AllowedIn(group, member[u], p)
           step == [n \in 0..Depth |->
                       [S \in SUBSET Name |-> AllowedIn(group, member[u] \union AboveIn(group, S), p)]]
           from(f, n) == member[u] \union IF n = 0 THEN {} ELSE AboveIn(group, f[n - 1])
           Equal(f) == f = [n \in 0..Depth |-> AllowedIn(group, from(f, n), p)]
<1>1. \A S \in SUBSET Name : AboveIn(group, S) \in SUBSET Name
  BY DEF AboveIn, GroupsTyped, GroupDef
<1>2. \A S \in SUBSET Name : AllowedIn(group, S, p) \in SUBSET Name
  BY DEF AllowedIn
<1>3. member[u] \in SUBSET Name
  BY DEF GroupsTyped
<1>4. base \in SUBSET Name /\ step \in [0..Depth -> [SUBSET Name -> SUBSET Name]]
  BY <1>1, <1>2, <1>3
<1>5. PICK f \in [0..Depth -> SUBSET Name] : Iterates(f, Depth, base, step)
  <2> HIDE DEF base, step
  <2> QED
    BY <1>4, DepthIsNat, UpToRecursion
<1>6. \A g : /\ from(g, 0) = member[u]
             /\ \A n \in 1..Depth : from(g, n) = member[u] \union AboveIn(group, g[n - 1])
  OBVIOUS
<1>7. \A n \in 0..Depth : f[n] = AllowedIn(group, from(f, n), p)
  <2>1. f[0] = AllowedIn(group, from(f, 0), p)
    BY <1>5, <1>6 DEF Iterates
  <2>2. ASSUME NEW n \in 1..Depth PROVE f[n] = AllowedIn(group, from(f, n), p)
    <3>1. n \in 0..Depth /\ n - 1 \in 0..Depth
      BY DepthIsNat
    <3>2. f[n] = step[n][f[n - 1]] /\ f[n - 1] \in SUBSET Name
      BY <3>1, <1>5 DEF Iterates
    <3>3. f[n] = AllowedIn(group, member[u] \union AboveIn(group, f[n - 1]), p)
      BY <3>1, <3>2
    <3> HIDE DEF from
    <3> QED
      BY <3>3, <1>6
  <2> HIDE DEF from
  <2> QED
    BY <2>1, <2>2, DepthIsNat
<1> DEFINE chosen == CHOOSE g : Equal(g)
<1>8. Equal(chosen)
  <2>1. Equal(f)
    <3> HIDE DEF from
    <3> QED
      BY <1>7
  <2> HIDE DEF Equal
  <2> QED
    BY <2>1
<1>9. EffectiveGroups(u, p) = chosen[Depth]
  BY DEF EffectiveGroups, AllowedIn, AboveIn, Depth
<1> HIDE DEF chosen, from
<1>10. chosen = f
  <2>1. \A n \in 0..Depth : chosen[n] = AllowedIn(group, from(chosen, n), p)
    BY <1>8
  <2> DEFINE T == {n \in 0..Depth : chosen[n] = f[n]}
  <2>2. 0 \in T
    BY <2>1, <1>6, <1>7, DepthIsNat
  <2>3. ASSUME NEW n \in 0..Depth, n < Depth, n \in T PROVE n + 1 \in T
    <3>1. PICK m \in 1..Depth : m = n + 1
      BY <2>3, DepthIsNat
    <3>2. m \in 0..Depth /\ m - 1 = n /\ chosen[n] = f[n]
      BY <2>3, <3>1, DepthIsNat
    <3>3. /\ from(chosen, m) = member[u] \union AboveIn(group, chosen[m - 1])
          /\ from(f, m) = member[u] \union AboveIn(group, f[m - 1])
      BY <1>6
    <3>4. from(chosen, m) = from(f, m)
      BY <3>2, <3>3
    <3> QED
      BY <3>1, <3>2, <3>4, <2>1, <1>7
  <2> HIDE DEF T
  <2>4. 0..Depth \subseteq T
    BY <2>2, <2>3, DepthIsNat, UpToInduction
  <2>5. \A n \in 0..Depth : chosen[n] = f[n]
    BY <2>4 DEF T
  <2>6. chosen = [n \in 0..Depth |-> chosen[n]] /\ f = [n \in 0..Depth |-> f[n]]
    BY <1>5, <1>8
  <2> QED
    BY <2>5, <2>6
<1>11. Inherits(f, u, p)
  <2>1. f[0] = AllowedIn(group, member[u], p)
    BY <1>6, <1>7, DepthIsNat
  <2>2. ASSUME NEW n \in 1..Depth PROVE f[n] = AllowedIn(group, member[u] \union AboveIn(group, f[n - 1]), p)
    <3>1. n \in 0..Depth /\ from(f, n) = member[u] \union AboveIn(group, f[n - 1])
      BY <1>6, DepthIsNat
    <3> QED
      BY <3>1, <1>7
  <2> QED
    BY <2>1, <2>2, <1>5 DEF Inherits
<1> QED
  BY <1>9, <1>10, <1>11

LEMMA EffectiveIsLastNext ==
    GroupsTyped' => (\A u \in User : \A p : \E f : Inherits(f, u, p) /\ EffectiveGroups(u, p) = f[Depth])'
  BY EffectiveIsLast, PTL

\* What a user is in directly is effective where its constraint allows it; what is
\* effective the user is in, or inherits from a group.
LEMMA EffectiveBounds ==
    GroupsTyped => \A u \in User : \A p :
       /\ \A g \in member[u] : (g \in DOMAIN group => ConstraintsAllow(group[g].scope, p))
                                  => g \in EffectiveGroups(u, p)
       /\ \A g \in EffectiveGroups(u, p) :
             g \in member[u] \/ \E h \in DOMAIN group : g \in group[h].parents
<1> SUFFICES ASSUME GroupsTyped, NEW u \in User, NEW p
             PROVE
       /\ \A g \in member[u] : (g \in DOMAIN group => ConstraintsAllow(group[g].scope, p))
                                  => g \in EffectiveGroups(u, p)
       /\ \A g \in EffectiveGroups(u, p) :
             g \in member[u] \/ \E h \in DOMAIN group : g \in group[h].parents
  OBVIOUS
<1>1. PICK f : Inherits(f, u, p) /\ EffectiveGroups(u, p) = f[Depth]
  BY EffectiveIsLast
<1>2. CASE Depth = 0
  BY <1>1, <1>2 DEF Inherits, AllowedIn
<1>3. CASE Depth # 0
  <2>1. Depth \in 1..Depth
    BY <1>3, DepthIsNat
  <2>2. f[Depth] = AllowedIn(group, member[u] \union AboveIn(group, f[Depth - 1]), p)
    BY <2>1, <1>1 DEF Inherits
  <2> QED
    BY <2>2, <1>1 DEF AllowedIn, AboveIn
<1> QED
  BY <1>2, <1>3

LEMMA EffectiveBoundsNext ==
    GroupsTyped' => (\A u \in User : \A p :
       /\ \A g \in member[u] : (g \in DOMAIN group => ConstraintsAllow(group[g].scope, p))
                                  => g \in EffectiveGroups(u, p)
       /\ \A g \in EffectiveGroups(u, p) :
             g \in member[u] \/ \E h \in DOMAIN group : g \in group[h].parents)'
  BY EffectiveBounds, PTL

\* A step that leaves the groups of B alone, with whatever is below them: nobody
\* loses or gains one of them, and no other group is below one of them.
LeavesAlone(B) ==
    /\ \A u \in User : member'[u] \intersect B = member[u] \intersect B
    /\ \A b \in B \intersect Name :
          /\ b \in DOMAIN group' <=> b \in DOMAIN group
          /\ b \in DOMAIN group => /\ group'[b].scope = group[b].scope
                                   /\ group'[b].parents \intersect B = group[b].parents \intersect B
    /\ \A x \in DOMAIN group \ B : group[x].parents \intersect B = {}
    /\ \A x \in DOMAIN group' \ B : group'[x].parents \intersect B = {}

\* Such a step changes nobody's effective groups within B, at any depth.
LEMMA AloneStaysEffective ==
    ASSUME GroupsTyped, GroupsTyped', NEW B, LeavesAlone(B), NEW u \in User, NEW p
    PROVE  EffectiveGroups(u, p)' \intersect B = EffectiveGroups(u, p) \intersect B
<1>1. PICK f : Inherits(f, u, p) /\ EffectiveGroups(u, p) = f[Depth]
  BY EffectiveIsLast
<1>2. PICK h : Inherits(h, u, p)' /\ EffectiveGroups(u, p)' = h[Depth]
  BY EffectiveIsLastNext
<1> DEFINE T == {n \in 0..Depth : h[n] \intersect B = f[n] \intersect B}
<1>3. ASSUME NEW S, S \subseteq Name, NEW R, R \subseteq Name, R \intersect B = S \intersect B
      PROVE  AllowedIn(group', R, p) \intersect B = AllowedIn(group, S, p) \intersect B
  BY <1>3 DEF LeavesAlone, AllowedIn, ConstraintsAllow
<1>4. ASSUME NEW S, S \subseteq Name, NEW R, R \subseteq Name, R \intersect B = S \intersect B
      PROVE  AboveIn(group', R) \intersect B = AboveIn(group, S) \intersect B
  <2>1. ASSUME NEW b \in B, b \in AboveIn(group', R) PROVE b \in AboveIn(group, S)
    <3>1. PICK g \in R \intersect DOMAIN group' : b \in group'[g].parents
      BY <2>1 DEF AboveIn
    <3>2. g \in B
      BY <3>1 DEF LeavesAlone
    <3>3. g \in S \intersect DOMAIN group /\ b \in group[g].parents
      BY <1>4, <3>1, <3>2 DEF LeavesAlone
    <3> QED
      BY <3>3 DEF AboveIn
  <2>2. ASSUME NEW b \in B, b \in AboveIn(group, S) PROVE b \in AboveIn(group', R)
    <3>1. PICK g \in S \intersect DOMAIN group : b \in group[g].parents
      BY <2>2 DEF AboveIn
    <3>2. g \in B
      BY <3>1 DEF LeavesAlone
    <3>3. g \in R \intersect DOMAIN group' /\ b \in group'[g].parents
      BY <1>4, <3>1, <3>2 DEF LeavesAlone
    <3> QED
      BY <3>3 DEF AboveIn
  <2> QED
    BY <2>1, <2>2
<1>5. /\ \A S : S \subseteq Name => AboveIn(group, S) \subseteq Name /\ AboveIn(group', S) \subseteq Name
      /\ member[u] \subseteq Name /\ member'[u] \subseteq Name
      /\ member'[u] \intersect B = member[u] \intersect B
  BY DEF AboveIn, GroupsTyped, GroupDef, LeavesAlone
<1>6. 0 \in T
  <2>1. f[0] = AllowedIn(group, member[u], p) /\ h[0] = AllowedIn(group', member'[u], p)
    BY <1>1, <1>2 DEF Inherits
  <2> QED
    BY <2>1, <1>3, <1>5, DepthIsNat
<1>7. ASSUME NEW n \in 0..Depth, n < Depth, n \in T PROVE n + 1 \in T
  <2>1. PICK m \in 1..Depth : m = n + 1
    BY <1>7, DepthIsNat
  <2>2. m \in 0..Depth /\ m - 1 = n
    BY <2>1, DepthIsNat
  <2>3. /\ f[m] = AllowedIn(group, member[u] \union AboveIn(group, f[n]), p)
        /\ h[m] = AllowedIn(group', member'[u] \union AboveIn(group', h[n]), p)
    BY <2>2, <1>1, <1>2 DEF Inherits
  <2>4. f[n] \subseteq Name /\ h[n] \subseteq Name /\ h[n] \intersect B = f[n] \intersect B
    BY <1>7, <1>1, <1>2 DEF Inherits
  <2>5. AboveIn(group', h[n]) \intersect B = AboveIn(group, f[n]) \intersect B
    BY <1>4, <2>4
  <2>6. h[m] \intersect B = f[m] \intersect B
    <3> DEFINE S == member[u] \union AboveIn(group, f[n])
               R == member'[u] \union AboveIn(group', h[n])
    <3>1. S \subseteq Name /\ R \subseteq Name /\ R \intersect B = S \intersect B
      BY <1>5, <2>4, <2>5
    <3> HIDE DEF S, R
    <3>2. AllowedIn(group', R, p) \intersect B = AllowedIn(group, S, p) \intersect B
      BY <1>3, <3>1
    <3> QED
      BY <3>2, <2>3 DEF S, R
  <2> QED
    BY <2>1, <2>2, <2>6
<1> HIDE DEF T
<1>8. 0..Depth \subseteq T
  BY <1>6, <1>7, DepthIsNat, UpToInduction
<1>9. h[Depth] \intersect B = f[Depth] \intersect B
  BY <1>8, DepthIsNat DEF T
<1> QED
  BY <1>1, <1>2, <1>9

----------------------------------------------------------------------------
\* What a step does.

GroupStep(u) ==
    \E g \in Name :
       \/ GroupCreate(u, g) \/ GroupDelete(u, g)
       \/ \E target \in Name, option \in BOOLEAN, scope \in Scopes \union {NoScope} :
             GroupGrant(u, g, target, option, scope)
       \/ \E target \in Name : GroupRevoke(u, g, target)

LEMMA StepCases ==
    ASSUME MembershipInv, [Next]_vars
    PROVE  \/ UNCHANGED <<member, group, file>>
           \/ active \in User /\ active # NoUser /\ GroupStep(active)
           \/ active \in User /\ active # NoUser /\ AccessCommands(active)
           \/ active \in User /\ active # NoUser /\ FileCommands(active)
<1>1. ASSUME Commands PROVE active \in User /\ active # NoUser
  BY <1>1 DEF Commands, MembershipInv, GroupsTyped
<1>2. ASSUME GroupCommands(active) PROVE GroupStep(active)
  <2>1. work.groups \subseteq Name /\ work.targets \subseteq Name /\ work.scopes \subseteq Scopes
    BY IdentityAssumption DEF MembershipInv, GroupsTyped
  <2>2. PICK g \in work.groups :
           \/ GroupCreate(active, g) \/ GroupDelete(active, g)
           \/ \E target \in work.targets, option \in BOOLEAN,
                 scope \in work.scopes \union {NoScope} :
                    GroupGrant(active, g, target, option, scope)
           \/ \E target \in work.targets : GroupRevoke(active, g, target)
    BY <1>2 DEF GroupCommands
  <2>3. g \in Name
    BY <2>1
  <2> QED
    BY <2>1, <2>2, <2>3 DEF GroupStep
<1>3. ASSUME Logout \/ \E u \in work.users : Login(u) PROVE UNCHANGED <<member, group, file>>
  BY <1>3 DEF Logout, Login
<1> QED
  BY <1>1, <1>2, <1>3 DEF Next, vars, Commands

\* The group commands change neither files nor, in the hands of a plain user, what
\* concerns the built-in groups.
LEMMA GroupStepKeepsFiles ==
    ASSUME NEW u, GroupStep(u)
    PROVE  file' = file
<1>1. PICK g \in Name :
         \/ GroupCreate(u, g) \/ GroupDelete(u, g)
         \/ \E target \in Name, option \in BOOLEAN, scope \in Scopes \union {NoScope} :
               GroupGrant(u, g, target, option, scope)
         \/ \E target \in Name : GroupRevoke(u, g, target)
  BY DEF GroupStep
<1>2. ASSUME NEW target, NEW option, NEW scope, GroupGrant(u, g, target, option, scope)
      PROVE  file' = file
  BY <1>2 DEF GroupGrant
<1> QED
  BY <1>1, <1>2 DEF GroupCreate, GroupDelete, GroupRevoke

LEMMA PlainStepLeavesBuiltIn ==
    ASSUME MembershipInv, MembershipInv', NEW u \in User, u \notin Admin, PlainBelow, GroupStep(u)
    PROVE  LeavesAlone(BuiltIn)
<1>1. PICK g \in Name :
         \/ GroupCreate(u, g) \/ GroupDelete(u, g)
         \/ \E target \in Name, option \in BOOLEAN, scope \in Scopes \union {NoScope} :
               GroupGrant(u, g, target, option, scope)
         \/ \E target \in Name : GroupRevoke(u, g, target)
  BY DEF GroupStep
<1>2. /\ \A b \in BuiltIn \intersect Name : b \in DOMAIN group
      /\ \A x \in DOMAIN group \ BuiltIn : group[x].parents \intersect BuiltIn = {}
      /\ \A x \in DOMAIN group : group[x] \in GroupDef
      /\ member \in [User -> SUBSET Name]
  BY DEF PlainBelow, MembershipInv, GroupsTyped
<1>3. CASE GroupCreate(u, g)
  <2>1. g \notin BuiltIn /\ g \notin DOMAIN group
    BY <1>2, <1>3 DEF GroupCreate
  <2>2. /\ DOMAIN group' = DOMAIN group \union {g}
        /\ \A x \in DOMAIN group : group'[x] = group[x]
        /\ group'[g].parents = {}
        /\ \A v \in User : member'[v] \intersect BuiltIn = member[v] \intersect BuiltIn
    BY <1>2, <1>3, <2>1 DEF GroupCreate
  <2> QED
    BY <1>2, <2>1, <2>2 DEF LeavesAlone
<1>4. CASE GroupDelete(u, g)
  <2>1. g \notin BuiltIn
    BY <1>4 DEF GroupDelete, IsRoot
  <2>2. /\ DOMAIN group' = DOMAIN group \ {g}
        /\ \A x \in DOMAIN group' :
              group'[x] = [group[x] EXCEPT !.parents = @ \ {g}, !.members = @ \ {g}]
        /\ \A v \in User : member'[v] = member[v] \ {g}
    BY <1>4 DEF GroupDelete
  <2>3. \A x \in DOMAIN group' : /\ group'[x].scope = group[x].scope
                                 /\ group'[x].parents = group[x].parents \ {g}
    <3>1. ASSUME NEW r \in GroupDef
          PROVE  LET t == [r EXCEPT !.parents = @ \ {g}, !.members = @ \ {g}]
                 IN t.scope = r.scope /\ t.parents = r.parents \ {g}
      BY DEF GroupDef
    <3> QED
      BY <1>2, <2>2, <3>1
  <2> QED
    BY <1>2, <2>1, <2>2, <2>3 DEF LeavesAlone
<1>5. ASSUME NEW target \in Name, NEW option \in BOOLEAN, NEW scope \in Scopes \union {NoScope},
             GroupGrant(u, g, target, option, scope)
      PROVE  LeavesAlone(BuiltIn)
  <2>1. g \notin BuiltIn /\ g \in DOMAIN group
    BY <1>5 DEF GroupGrant, MayChange, IsRoot
  <2>2. /\ DOMAIN group' = DOMAIN group
        /\ \A x \in DOMAIN group \ {g} :
              /\ group'[x].scope = group[x].scope
              /\ group'[x].parents \in {group[x].parents, group[x].parents \union {g}}
        /\ group'[g].parents \in {group[g].parents, group[g].parents \union {g}}
        /\ \A v \in User : member'[v] \in {member[v], member[v] \union {g}}
    <3> DEFINE changed == [group[g] EXCEPT !.members = @ \union {target},
                                           !.option = @ \/ option,
                                           !.scope = IF scope = NoScope THEN @ ELSE scope]
               granted == [group EXCEPT ![g] = changed]
    <3>0. group[g] \in GroupDef
      BY <1>2, <2>1
    <3>1. /\ changed \in GroupDef
          /\ changed.parents = group[g].parents
          /\ changed.members = group[g].members \union {target}
      BY <3>0 DEF GroupDef
    <3>2. \/ /\ target \in User /\ group' = granted
             /\ member' = [member EXCEPT ![target] = @ \union {g}]
          \/ /\ group' = [granted EXCEPT ![target].parents = @ \union {g}]
             /\ member' = member
      BY <1>5 DEF GroupGrant
    <3> HIDE DEF changed
    <3>3. /\ DOMAIN granted = DOMAIN group
          /\ \A x \in DOMAIN group : /\ granted[x] \in GroupDef
                                     /\ granted[x].parents = group[x].parents
                                     /\ x # g => granted[x] = group[x]
      BY <1>2, <2>1, <3>1
    <3> HIDE DEF granted
    <3>4. CASE group' = [granted EXCEPT ![target].parents = @ \union {g}] /\ member' = member
      <4>1. \A x \in DOMAIN group :
               /\ group'[x].scope = granted[x].scope
               /\ group'[x].parents \in {granted[x].parents, granted[x].parents \union {g}}
        BY <3>3, <3>4 DEF GroupDef
      <4> QED
        BY <4>1, <3>3, <3>4, <2>1
    <3>5. CASE /\ target \in User /\ group' = granted
               /\ member' = [member EXCEPT ![target] = @ \union {g}]
      BY <1>2, <2>1, <3>3, <3>5
    <3> QED
      BY <3>2, <3>4, <3>5
  <2> QED
    BY <1>2, <2>1, <2>2 DEF LeavesAlone
<1>6. ASSUME NEW target \in Name, GroupRevoke(u, g, target) PROVE LeavesAlone(BuiltIn)
  <2>1. g \notin BuiltIn /\ g \in DOMAIN group
    BY <1>6 DEF GroupRevoke, MayChange, IsRoot
  <2>2. /\ DOMAIN group' = DOMAIN group
        /\ \A x \in DOMAIN group :
              /\ group'[x].scope = group[x].scope
              /\ group'[x].parents \in {group[x].parents, group[x].parents \ {g}}
        /\ \A v \in User : member'[v] \in {member[v], member[v] \ {g}}
    <3> DEFINE left == [group EXCEPT ![g].members = @ \ {target}]
    <3>1. /\ group' = IF target \in DOMAIN group
                      THEN [left EXCEPT ![target].parents = @ \ {g}] ELSE left
          /\ member' = IF target \in User THEN [member EXCEPT ![target] = @ \ {g}] ELSE member
      BY <1>6 DEF GroupRevoke
    <3>2. /\ DOMAIN left = DOMAIN group
          /\ \A x \in DOMAIN group : /\ left[x] \in GroupDef
                                     /\ left[x].parents = group[x].parents
                                     /\ left[x].scope = group[x].scope
      BY <1>2, <2>1 DEF GroupDef
    <3> HIDE DEF left
    <3>3. /\ DOMAIN group' = DOMAIN group
          /\ \A x \in DOMAIN group :
                /\ group'[x].scope = left[x].scope
                /\ group'[x].parents \in {left[x].parents, left[x].parents \ {g}}
      BY <3>1, <3>2 DEF GroupDef
    <3>4. \A v \in User : member'[v] \in {member[v], member[v] \ {g}}
      BY <1>2, <3>1
    <3> QED
      BY <3>2, <3>3, <3>4
  <2> QED
    BY <1>2, <2>1, <2>2 DEF LeavesAlone
<1> QED
  BY <1>1, <1>3, <1>4, <1>5, <1>6

----------------------------------------------------------------------------
\* The three promises about a step.

LEMMA FreshStep ==
    ASSUME MembershipInv, [Next]_vars, NEW g \in DOMAIN group' \ DOMAIN group,
           NEW v \in User, NEW p
    PROVE  g \in EffectiveGroups(v, p)' <=> v = active
<1>1. MembershipInv'
  BY MembershipStep
<1>2. active \in User /\ GroupStep(active)
  <2>1. ASSUME AccessCommands(active) PROVE group' = group
    BY <2>1 DEF AccessCommands, AclGrant, AclRevoke, Chmod, Chown, Chgroup
  <2>2. ASSUME FileCommands(active) PROVE group' = group
    BY <2>2 DEF FileCommands, Create, Copy, Delete
  <2> QED
    BY StepCases, <2>1, <2>2
<1>3. GroupCreate(active, g)
  <2>1. PICK h \in Name :
           \/ GroupCreate(active, h) \/ GroupDelete(active, h)
           \/ \E target \in Name, option \in BOOLEAN, scope \in Scopes \union {NoScope} :
                 GroupGrant(active, h, target, option, scope)
           \/ \E target \in Name : GroupRevoke(active, h, target)
    BY <1>2 DEF GroupStep
  <2>2. ASSUME GroupDelete(active, h) PROVE FALSE
    BY <2>2 DEF GroupDelete
  <2>3. ASSUME NEW target \in Name, NEW option \in BOOLEAN, NEW scope,
               GroupGrant(active, h, target, option, scope)
        PROVE  FALSE
    <3>1. DOMAIN group' = DOMAIN group
      BY <2>3 DEF GroupGrant
    <3> QED
      BY <3>1
  <2>4. ASSUME NEW target \in Name, GroupRevoke(active, h, target) PROVE FALSE
    <3>1. DOMAIN group' = DOMAIN group
      BY <2>4 DEF GroupRevoke
    <3> QED
      BY <3>1
  <2>5. GroupCreate(active, h)
    BY <2>1, <2>2, <2>3, <2>4
  <2>6. DOMAIN group' = DOMAIN group \union {h}
    BY <2>5 DEF GroupCreate
  <2> QED
    BY <2>5, <2>6
<1>4. /\ DOMAIN group' = DOMAIN group \union {g}
      /\ \A x \in DOMAIN group : group'[x] = group[x]
      /\ group'[g].parents = {} /\ group'[g].scope = NoScope
      /\ \A u \in User : member'[u] = IF u = active THEN member[u] \union {g} ELSE member[u]
  BY <1>2, <1>3 DEF GroupCreate, MembershipInv, GroupsTyped
<1>5. /\ \A u \in User : g \notin member[u]
      /\ \A h \in DOMAIN group' : g \notin group'[h].parents
  BY <1>4 DEF MembershipInv, MembershipAgrees
<1>6. /\ \A h \in member'[v] : (h \in DOMAIN group' => ConstraintsAllow(group'[h].scope, p))
                                    => h \in EffectiveGroups(v, p)'
      /\ \A h \in EffectiveGroups(v, p)' :
            h \in member'[v] \/ \E k \in DOMAIN group' : h \in group'[k].parents
  <2>1. GroupsTyped'
    BY <1>1 DEF MembershipInv
  <2> QED
    BY <2>1, EffectiveBoundsNext
<1>8. CASE v = active
  <2>1. g \in member'[v] /\ ConstraintsAllow(group'[g].scope, p)
    BY <1>2, <1>4, <1>8 DEF ConstraintsAllow
  <2> QED
    BY <2>1, <1>6, <1>8
<1>9. CASE v # active
  <2>1. g \notin member'[v]
    BY <1>4, <1>5, <1>9
  <2> QED
    BY <2>1, <1>5, <1>6, <1>9
<1> QED
  BY <1>8, <1>9

\* A group that is created, for the first time or again, is effective for its
\* creator and for nobody else: whatever names were granted before, and on any path.
THEOREM FreshGroupIsCreatorsOnlyHolds == Spec => FreshGroupIsCreatorsOnly
<1>1. MembershipInv /\ [Next]_vars =>
         \A g \in DOMAIN group' \ DOMAIN group, v \in User, p \in Path :
            g \in EffectiveGroups(v, p)' <=> v = active
  BY FreshStep
<1> QED
  BY MembershipInvHolds, <1>1, PTL DEF Spec, FreshGroupIsCreatorsOnly

LEMMA RolesStep ==
    ASSUME MembershipInv, [Next]_vars, active \notin Admin, PlainBelow, NEW v \in User, NEW p
    PROVE  EffectiveGroups(v, p)' \intersect BuiltIn = EffectiveGroups(v, p) \intersect BuiltIn
<1>1. MembershipInv'
  BY MembershipStep
<1>2. LeavesAlone(BuiltIn)
  <2>1. CASE UNCHANGED <<member, group>>
    BY <2>1 DEF LeavesAlone, PlainBelow
  <2>2. CASE active \in User /\ GroupStep(active)
    BY <2>2, <1>1, PlainStepLeavesBuiltIn
  <2>3. ASSUME AccessCommands(active) PROVE UNCHANGED <<member, group>>
    BY <2>3 DEF AccessCommands, AclGrant, AclRevoke, Chmod, Chown, Chgroup
  <2>4. ASSUME FileCommands(active) PROVE UNCHANGED <<member, group>>
    BY <2>4 DEF FileCommands, Create, Copy, Delete
  <2> QED
    BY StepCases, <2>1, <2>2, <2>3, <2>4
<1> QED
  BY <1>1, <1>2, AloneStaysEffective DEF MembershipInv

\* Nothing a plain user does to groups gives or takes a built-in group, however deep
\* the groups hang below each other, as long as no user's group has been put below a
\* built-in one and no built-in one deleted.
THEOREM BuiltInRolesStableHolds == Spec => BuiltInRolesStable
<1>1. MembershipInv /\ [Next]_vars =>
         (active \notin Admin /\ PlainBelow =>
            \A v \in User, p \in Path : EffectiveGroups(v, p)' \intersect BuiltIn
                                           = EffectiveGroups(v, p) \intersect BuiltIn)
  BY RolesStep
<1> QED
  BY MembershipInvHolds, <1>1, PTL DEF Spec, BuiltInRolesStable

LEMMA ConsentStep ==
    ASSUME MembershipInv, [Next]_vars, active \notin Admin \union {NoUser}, PlainBelow,
           NEW p \in DOMAIN file \intersect DOMAIN file',
           ~IsOwner(active, p), ~AuthCheck(active, "g", p), NEW v \in User,
           EffectiveGroups(v, p)' \subseteq EffectiveGroups(v, p) \union BuiltIn
    PROVE  Rights(v, p)' \subseteq Rights(v, p)
<1>1. EffectiveGroups(v, p)' \subseteq EffectiveGroups(v, p)
  <2>1. EffectiveGroups(v, p)' \intersect BuiltIn = EffectiveGroups(v, p) \intersect BuiltIn
    BY RolesStep
  <2> QED
    BY <2>1
<1>2. file'[p] = file[p]
  <2>1. CASE UNCHANGED file
    BY <2>1
  <2>2. ASSUME AccessCommands(active) PROVE file'[p] = file[p]
    <3>1. PICK q \in work.paths :
             \/ \E s, r, scope : AclGrant(active, q, s, r, scope)
             \/ \E s, r : AclRevoke(active, q, s, r)
             \/ \E m : Chmod(active, q, m)
             \/ \E u : Chown(active, q, u)
             \/ \E g : Chgroup(active, q, g)
      BY <2>2 DEF AccessCommands
    <3>2. IsOwner(active, q) \/ AuthCheck(active, "g", q)
      BY <3>1 DEF AclGrant, AclRevoke, Chmod, Chown, Chgroup, IsOwner
    <3>3. q # p
      BY <3>2
    <3> QED
      BY <3>1, <3>3 DEF AclGrant, AclRevoke, Chmod, Chown, Chgroup
  <2>3. ASSUME FileCommands(active) PROVE file'[p] = file[p]
    <3>1. PICK q \in work.paths : \/ \E m : Create(active, q, m)
                                  \/ \E x : Copy(active, q, x)
                                  \/ Delete(active, q)
      BY <2>3 DEF FileCommands
    <3>2. ASSUME NEW m, Create(active, q, m) PROVE file'[p] = file[p]
      BY <3>2 DEF Create
    <3>3. ASSUME NEW x, Copy(active, q, x) PROVE file'[p] = file[p]
      BY <3>3 DEF Copy
    <3>4. ASSUME Delete(active, q) PROVE file'[p] = file[p]
      <4>1. file' = [x \in DOMAIN file \ {q} |-> file[x]]
        BY <3>4 DEF Delete, Restrict
      <4> QED
        BY <4>1
    <3> QED
      BY <3>1, <3>2, <3>3, <3>4
  <2>4. ASSUME GroupStep(active) PROVE file' = file
    BY <2>4, GroupStepKeepsFiles
  <2> QED
    BY StepCases, <2>1, <2>2, <2>3, <2>4
<1> QED
  BY <1>1, <1>2 DEF Rights, Allows, AclAllows, IsRoot, ModeAllows, ConstraintsAllow

\* Access to a file grows by a step of a plain user only when the user owns the file
\* or may manage it, or when somebody gains a user-created group.
THEOREM AccessNeedsConsentHolds == Spec => AccessNeedsConsent
<1>1. MembershipInv /\ [Next]_vars =>
         (active \notin Admin \union {NoUser} /\ PlainBelow =>
            \A p \in DOMAIN file \intersect DOMAIN file' :
               \/ IsOwner(active, p) \/ AuthCheck(active, "g", p)
               \/ \A v \in User :
                     \/ Rights(v, p)' \subseteq Rights(v, p)
                     \/ ~(EffectiveGroups(v, p)' \subseteq EffectiveGroups(v, p) \union BuiltIn))
  BY ConsentStep
<1> QED
  BY MembershipInvHolds, <1>1, PTL DEF Spec, AccessNeedsConsent

=============================================================================
