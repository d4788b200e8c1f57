------------------------------ MODULE Identity ------------------------------
\* Users, groups and access rights of src/src/kernel.cpp: the group graph, the
\* chain of authCheck, and the commands that change groups, ACLs, modes and owners.
\*
\* Every command here holds the transaction lock, so it is one step, taken by the
\* user who is logged in here; a refused command changes nothing and is no step.  Users
\* come with format and stay.  The effect of a rollback on attributes is not here.
EXTENDS Naturals, Sequences, FiniteSets, SequencesExt

CONSTANTS User,         \* accounts; each has a private group of the same name
          Admin,        \* root and admin
          Name,         \* names of users and groups
          BuiltIn,      \* isBuiltInGroup
          NoUser,       \* nobody is logged in
          CourseOf,     \* courseForGroup: name -> course, by the prefix of the name
          TeacherOf,    \* course -> "<course>_teacher"
          AssistantOf,  \* course -> "<course>_assistant"
          NoCourse,
          Joined,       \* user -> the groups besides the private one it starts in
          Above,        \* group that exists from the start -> its parents
          Path,         \* bound: paths, sequences of names; <<>> is "/"
          Modes,        \* bound: modes, [owner, group, other] of subsets of r, w, x
          FirstMode,    \* the mode of "/"
          Grants,       \* bound: sets of rights in an ACL entry
          Scopes,       \* bound: what a path_prefix constraint admits, sets of paths
          Workload      \* bound: what users do

\* A workload: who logs in, and the commands (ops) they give about which groups,
\* to whom or from whom (targets), on which paths, with which modes and constraints.

ASSUME IdentityAssumption ==
    /\ IsFiniteSet(Name) /\ User \subseteq Name /\ DOMAIN Above \subseteq Name /\ DOMAIN Above \intersect User = {}
    /\ \A w \in Workload :
          /\ w.users \subseteq User /\ w.groups \union w.targets \subseteq Name
          /\ w.paths \subseteq Path /\ w.modes \subseteq Modes /\ w.scopes \subseteq Scopes
    /\ <<>> \in Path /\ {} \notin Scopes
    /\ Joined \in [User -> SUBSET DOMAIN Above]
    /\ \A g \in DOMAIN Above : Above[g] \subseteq DOMAIN Above

NoScope == {}    \* no constraint given

VARIABLES active,   \* activeUser_, or NoUser
          member,   \* UserRecord.groups: user -> names
          group,    \* FsState.groups: existing name -> GroupDef
          file,     \* path -> owner, group, mode and ACL of its inode
          work      \* the workload of the behaviour

vars == <<active, member, group, file, work>>

----------------------------------------------------------------------------
\* Groups.

\* constraintsAllow: a constraint is the set of paths that have its prefix.
ConstraintsAllow(scope, p) == scope = NoScope \/ p \in scope

\* effectiveGroups: what the user's groups inherit, each only where its constraint
\* allows the path; a group that is cut off hands nothing on.
EffectiveGroups(u, p) ==
    LET allowed(S)  == {g \in S : g \in DOMAIN group => ConstraintsAllow(group[g].scope, p)}
        above(S)    == UNION {group[g].parents : g \in S \intersect DOMAIN group}
        upTo[n \in 0..Cardinality(Name)] ==
            allowed(member[u] \union IF n = 0 THEN {} ELSE above(upTo[n - 1]))
    IN upTo[Cardinality(Name)]

IsRoot(u) == u \in Admin

\* isCourseTeacher, isCourseAssistant.
IsCourseTeacher(u, c)   == c # NoCourse /\ TeacherOf[c] \in EffectiveGroups(u, <<>>)
IsCourseAssistant(u, c) == c # NoCourse /\ AssistantOf[c] \in EffectiveGroups(u, <<>>)

\* teachingCourses: only the groups a user is in directly count.
TeachingCourses(u) == {c \in member[u] : c \in DOMAIN TeacherOf}

----------------------------------------------------------------------------
\* Access.

\* A right is asked for by one letter; the bits of a mode answer for several.
ModeAllows(bits, right) ==
    \/ right \in {"r", "x"} /\ right \in bits
    \/ right \in {"w", "c", "d", "s", "g"} /\ "w" \in bits

AclAllows(u, groups, right, p) ==
    \E e \in file[p].acl :
       /\ e.subject \in {u} \union groups
       /\ right \in e.rights
       /\ ConstraintsAllow(e.scope, p)

\* The chain of authCheck, for a user with the given effective groups.
Allows(u, groups, right, p) ==
    LET f      == file[p]
        course == CourseOf[f.group]
    IN \/ IsRoot(u)
       \/ f.owner = u /\ ModeAllows(f.mode.owner, right)
       \/ course # NoCourse /\ TeacherOf[course] \in groups
       \/ course # NoCourse /\ AssistantOf[course] \in groups
             /\ right \in {"r", "w", "x", "c", "d"}
       \/ f.group \in groups /\ ModeAllows(f.mode.group, right)
       \/ ModeAllows(f.mode.other, right)
       \/ AclAllows(u, groups, right, p)

AuthCheck(u, right, p) == Allows(u, EffectiveGroups(u, p), right, p)

\* canTraverse: "/" is asked only when no other directory is.
CanTraverse(u, p, includeTarget) ==
    LET limit == IF includeTarget \/ p = <<>> THEN Len(p) ELSE Len(p) - 1
    IN \/ IsRoot(u)
       \/ limit = 0 /\ AuthCheck(u, "x", <<>>)
       \/ limit > 0 /\ \A k \in 1..limit : /\ SubSeq(p, 1, k) \in DOMAIN file
                                           /\ AuthCheck(u, "x", SubSeq(p, 1, k))

\* What the commands on the tree ask for before they begin a transaction.
MayOpen(u, right, p)   == CanTraverse(u, p, FALSE) /\ AuthCheck(u, right, p)
MayAddTo(u, dir)       == CanTraverse(u, dir, TRUE) /\ AuthCheck(u, "c", dir)
MayRemoveFrom(u, dir)  == CanTraverse(u, dir, TRUE) /\ AuthCheck(u, "d", dir)

\* canGrantAclSubject: course staff, and only inside the course.
CanGrantAclSubject(u, p, subject) ==
    LET course == CourseOf[file[p].group]
    IN \/ IsRoot(u)
       \/ course = NoCourse
       \/ /\ IsCourseTeacher(u, course) \/ IsCourseAssistant(u, course)
          /\ \/ CourseOf[subject] = course
             \/ subject \in User /\ course \in TeachingCourses(subject)

----------------------------------------------------------------------------
\* group create, delete, grant, revoke.

GroupCreate(u, g) ==
    /\ g \notin DOMAIN group
    /\ group' = [x \in DOMAIN group \union {g} |->
                    IF x \in DOMAIN group THEN group[x]
                    ELSE [owner |-> u, parents |-> {}, members |-> {u},
                          option |-> TRUE, scope |-> NoScope]]
    /\ member' = [member EXCEPT ![u] = @ \union {g}]
    /\ UNCHANGED file

\* Mutant: a deletion that looks only at the groups.
GroupDeleteKeepsMembers(u, g) ==
    /\ g \in DOMAIN group
    /\ IsRoot(u) \/ (g \notin BuiltIn /\ group[g].owner = u)
    /\ group' = [x \in DOMAIN group \ {g} |->
                    [group[x] EXCEPT !.parents = @ \ {g}, !.members = @ \ {g}]]
    /\ UNCHANGED <<member, file>>

\* Files and ACL entries keep the name of a group that is deleted.
GroupDelete(u, g) ==
    /\ g \in DOMAIN group
    /\ IsRoot(u) \/ (g \notin BuiltIn /\ group[g].owner = u)
    /\ member' = [v \in User |-> member[v] \ {g}]
    /\ group' = [x \in DOMAIN group \ {g} |->
                    [group[x] EXCEPT !.parents = @ \ {g}, !.members = @ \ {g}]]
    /\ UNCHANGED file

\* The option belongs to the group, not to the one who asks.
MayChange(u, g) ==
    IsRoot(u) \/ (g \notin BuiltIn /\ (group[g].option \/ group[g].owner = u))

\* A name that is a user's is the user; else the target inherits the group.
GroupGrant(u, g, target, withOption, scope) ==
    LET changed == [group[g] EXCEPT !.members = @ \union {target},
                                    !.option = @ \/ withOption,
                                    !.scope = IF scope = NoScope THEN @ ELSE scope]
        granted == [group EXCEPT ![g] = changed]
    IN /\ g \in DOMAIN group /\ target \in User \union DOMAIN group
       /\ MayChange(u, g)
       /\ IF target \in User
          THEN /\ member' = [member EXCEPT ![target] = @ \union {g}]
               /\ group' = granted
          ELSE /\ group' = [granted EXCEPT ![target].parents = @ \union {g}]
               /\ UNCHANGED member
       /\ UNCHANGED file

\* Mutant: a revocation that leaves the list of the group's members alone.
GroupRevokeKeepsMember(u, g, target) ==
    /\ g \in DOMAIN group /\ MayChange(u, g)
    /\ member' = IF target \in User THEN [member EXCEPT ![target] = @ \ {g}] ELSE member
    /\ group' = IF target \in DOMAIN group
                THEN [group EXCEPT ![target].parents = @ \ {g}] ELSE group
    /\ UNCHANGED file

GroupRevoke(u, g, target) ==
    LET left == [group EXCEPT ![g].members = @ \ {target}]
    IN /\ g \in DOMAIN group /\ MayChange(u, g)
       /\ member' = IF target \in User THEN [member EXCEPT ![target] = @ \ {g}] ELSE member
       /\ group' = IF target \in DOMAIN group
                   THEN [left EXCEPT ![target].parents = @ \ {g}] ELSE left
       /\ UNCHANGED file

----------------------------------------------------------------------------
\* acl grant and revoke, chmod, chown, chgroup.

\* Mutant: whoever can read a file can share it.
AclGrantByReader(u, p, subject, rights, scope) ==
    /\ subject \in User \union DOMAIN group
    /\ p \in DOMAIN file
    /\ CanTraverse(u, p, FALSE) /\ AuthCheck(u, "r", p)
    /\ file' = [file EXCEPT ![p].acl =
                   @ \union {[subject |-> subject, rights |-> rights, scope |-> scope]}]
    /\ UNCHANGED <<member, group>>

AclGrant(u, p, subject, rights, scope) ==
    /\ subject \in User \union DOMAIN group
    /\ p \in DOMAIN file
    /\ CanTraverse(u, p, FALSE) /\ AuthCheck(u, "g", p)
    /\ CanGrantAclSubject(u, p, subject)
    /\ file' = [file EXCEPT ![p].acl =
                   @ \union {[subject |-> subject, rights |-> rights, scope |-> scope]}]
    /\ UNCHANGED <<member, group>>

\* An entry that holds all of the rights goes, with every other right it holds.
AclRevoke(u, p, subject, rights) ==
    /\ p \in DOMAIN file
    /\ CanTraverse(u, p, FALSE) /\ AuthCheck(u, "g", p)
    /\ CanGrantAclSubject(u, p, subject)
    /\ file' = [file EXCEPT ![p].acl =
                   {e \in @ : ~(e.subject = subject /\ rights \subseteq e.rights)}]
    /\ UNCHANGED <<member, group>>

IsOwner(u, p) == IsRoot(u) \/ file[p].owner = u

Chmod(u, p, mode) ==
    /\ p \in DOMAIN file /\ CanTraverse(u, p, FALSE) /\ IsOwner(u, p)
    /\ file' = [file EXCEPT ![p].mode = mode]
    /\ UNCHANGED <<member, group>>

Chown(u, p, v) ==
    /\ p \in DOMAIN file /\ IsRoot(u)
    /\ file' = [file EXCEPT ![p].owner = v]
    /\ UNCHANGED <<member, group>>

\* Any group that exists, the user's own or not.
Chgroup(u, p, g) ==
    /\ p \in DOMAIN file /\ g \in DOMAIN group
    /\ CanTraverse(u, p, FALSE) /\ IsOwner(u, p)
    /\ file' = [file EXCEPT ![p].group = g]
    /\ UNCHANGED <<member, group>>

----------------------------------------------------------------------------
\* mkdir and create make a file of the user and its private group; delete and rmdir
\* remove one that has none below; cp gives a copy the user as owner and the rest
\* of the original's attributes.

Below(p) == {q \in DOMAIN file : q # p /\ IsPrefix(p, q)}

Create(u, p, mode) ==
    /\ p \notin DOMAIN file /\ Front(p) \in DOMAIN file
    /\ MayAddTo(u, Front(p))
    /\ file' = [q \in DOMAIN file \union {p} |->
                   IF q # p THEN file[q]
                   ELSE [owner |-> u, group |-> u, mode |-> mode, acl |-> {}]]
    /\ UNCHANGED <<member, group>>

Copy(u, p, q) ==
    /\ p \in DOMAIN file /\ q \notin DOMAIN file /\ Front(q) \in DOMAIN file
    /\ MayOpen(u, "r", p) /\ MayAddTo(u, Front(q))
    /\ file' = [x \in DOMAIN file \union {q} |->
                   IF x # q THEN file[x] ELSE [file[p] EXCEPT !.owner = u]]
    /\ UNCHANGED <<member, group>>

Delete(u, p) ==
    /\ p \in DOMAIN file \ {<<>>} /\ Below(p) = {}
    /\ MayRemoveFrom(u, Front(p))
    /\ file' = Restrict(file, DOMAIN file \ {p})
    /\ UNCHANGED <<member, group>>

----------------------------------------------------------------------------
\* initFreshState: users with their private groups, the teaching groups, and "/".
Init ==
    /\ work \in Workload
    /\ active = NoUser
    /\ member = [u \in User |-> {u} \union Joined[u]]
    /\ group = [g \in User \union DOMAIN Above |->
                  [owner   |-> "root",
                   parents |-> IF g \in User THEN {} ELSE Above[g],
                   members |-> {u \in User : u = g \/ g \in Joined[u]},
                   option  |-> g = "system",
                   scope   |-> NoScope]]
    /\ file = [p \in {<<>>} |-> [owner |-> "root", group |-> "system",
                                 mode |-> FirstMode, acl |-> {}]]

Given(command) == command \in work.ops

GroupCommands(u) ==
    \E g \in work.groups :
       \/ Given("group create") /\ GroupCreate(u, g)
       \/ Given("group delete") /\ GroupDelete(u, g)
       \/ /\ Given("group grant")
          /\ \E target \in work.targets, option \in BOOLEAN, scope \in work.scopes \union {NoScope} :
                GroupGrant(u, g, target, option, scope)
       \/ Given("group revoke") /\ \E target \in work.targets : GroupRevoke(u, g, target)

AccessCommands(u) ==
    \E p \in work.paths :
       \/ /\ Given("acl grant")
          /\ \E s \in work.targets, r \in Grants, scope \in work.scopes \union {NoScope} :
                AclGrant(u, p, s, r, scope)
       \/ Given("acl revoke") /\ \E s \in work.targets, r \in Grants : AclRevoke(u, p, s, r)
       \/ Given("chmod") /\ \E m \in work.modes : Chmod(u, p, m)
       \/ Given("chown") /\ \E v \in work.users : Chown(u, p, v)
       \/ Given("chgroup") /\ \E g \in work.groups : Chgroup(u, p, g)

FileCommands(u) ==
    \E p \in work.paths :
       \/ Given("create") /\ \E m \in work.modes : Create(u, p, m)
       \/ Given("cp") /\ \E q \in work.paths : Copy(u, p, q)
       \/ Given("delete") /\ Delete(u, p)

\* login to another account needs no logout before.
Login(u) ==
    /\ active' = u
    /\ UNCHANGED <<member, group, file>>

Logout ==
    /\ active # NoUser /\ active' = NoUser
    /\ UNCHANGED <<member, group, file>>

\* requiresLogin.
Commands ==
    /\ active # NoUser
    /\ GroupCommands(active) \/ AccessCommands(active) \/ FileCommands(active)
    /\ UNCHANGED active

Next ==
    /\ Commands \/ Logout \/ \E u \in work.users : Login(u)
    /\ UNCHANGED work

Spec == Init /\ [][Next]_vars

----------------------------------------------------------------------------
\* Properties.

\* Membership is kept twice, with the user and with the group, and a group's place
\* below another twice too: no member of a group is without the group, and no deleted
\* group lives on anywhere, whatever is granted, revoked, deleted and created again.
MembershipAgrees ==
    /\ \A u \in User : member[u] \subseteq DOMAIN group
    /\ \A g \in DOMAIN group :
          /\ group[g].parents \subseteq DOMAIN group
          /\ \A u \in group[g].members \intersect User : g \in member[u]
          /\ \A h \in group[g].members \ User : h \in DOMAIN group /\ g \in group[h].parents

\* A group that is created, for the first time or again, is effective for its
\* creator and for nobody else on any path.
FreshGroupIsCreatorsOnly ==
    [][\A g \in DOMAIN group' \ DOMAIN group, v \in User, p \in Path :
          g \in EffectiveGroups(v, p)' <=> v = active]_vars

\* Unless root has put a user's group below a built-in one or deleted a built-in
\* one, nothing a plain user does to groups gives or takes a built-in group.
PlainBelow ==
    /\ BuiltIn \intersect Name \subseteq DOMAIN group
    /\ \A g \in DOMAIN group \ BuiltIn : group[g].parents \intersect BuiltIn = {}

BuiltInRolesStable ==
    [][active \notin Admin /\ PlainBelow =>
          \A v \in User, p \in Path :
             EffectiveGroups(v, p)' \intersect BuiltIn = EffectiveGroups(v, p) \intersect BuiltIn]_vars

Rights(u, p) ==
    LET groups == EffectiveGroups(u, p)
    IN {r \in {"r", "w", "x", "c", "d", "g"} : Allows(u, groups, r, p)}

\* Access to a file grows by a step of a plain user only when the user owns the file
\* or may manage it, or when somebody gains a user-created group.
AccessNeedsConsent ==
    [][active \notin Admin \union {NoUser} /\ PlainBelow =>
          \A p \in DOMAIN file \intersect DOMAIN file' :
             \/ IsOwner(active, p) \/ AuthCheck(active, "g", p)
             \/ \A v \in User :
                   \/ Rights(v, p)' \subseteq Rights(v, p)
                   \/ ~(EffectiveGroups(v, p)' \subseteq EffectiveGroups(v, p) \union BuiltIn)]_vars

=============================================================================
