------------------------------ MODULE Sessions ------------------------------
(***************************************************************************)
(* Paths and working directories: canonicalize and pathParts turn what is  *)
(* typed into a path from the root, resolve looks it up in the tree, and   *)
(* every user of a terminal has a session with a working directory of its  *)
(* own, which stays when the user logs out.  The tree of directories is    *)
(* shared by all terminals.  Files are CowTree's, rights are Identity's.   *)
(***************************************************************************)
EXTENDS Naturals, Sequences, SequencesExt

CONSTANTS
  Terminal, User,
  NoUser,       \* nobody is logged in
  NoSession,    \* the user has no session in a terminal
  Name,         \* names of directories
  Home,         \* the home directory of each user, a path
  MaxDepth,     \* bound: components of a path in the tree
  MaxTyped      \* bound: components of a path that is typed

VARIABLES
  dirs,     \* the directories of the tree, each by its path from the root
  active,   \* activeUser_
  cwd       \* cwd of each user's session in each terminal

sessionVars == <<dirs, active, cwd>>

\* What is between two slashes.
NoName == ""

SeqsUpTo(S, n) == UNION {[1 .. k -> S] : k \in 0 .. n}
Canonical == SeqsUpTo(Name, MaxDepth)

ASSUME SessionAssumption ==
  /\ NoUser \notin User
  /\ MaxDepth \in Nat /\ MaxTyped \in Nat
  /\ Name \intersect {NoName, ".", ".."} = {}
  /\ Home \in [User -> Canonical]

\* What may be typed: components between slashes.
TypedPaths == [absolute : BOOLEAN, parts : SeqsUpTo(Name \cup {NoName, ".", ".."}, MaxTyped)]

\* The root, and the homes with the directories above them.
FreshDirs == {<<>>} \cup UNION {{SubSeq(Home[u], 1, n) : n \in 0 .. Len(Home[u])} : u \in User}

SessionInit ==
  /\ dirs = FreshDirs
  /\ active = [t \in Terminal |-> NoUser]
  /\ cwd = [t \in Terminal |-> [u \in User |-> NoSession]]

-----------------------------------------------------------------------------
(* Paths.                                                                  *)

\* Mutant: ".." at the root is kept.
DescendOrKeep(out, part) ==
  CASE part \in {NoName, "."} -> out
    [] part = ".." /\ out # <<>> -> Front(out)
    [] OTHER -> Append(out, part)

\* One component of pathParts.
Descend(out, part) ==
  CASE part \in {NoName, "."} -> out
    [] part = ".." -> IF out = <<>> THEN out ELSE Front(out)
    [] OTHER -> Append(out, part)

PathParts(parts) ==
  LET out[n \in 0 .. Len(parts)] ==
        IF n = 0 THEN <<>> ELSE Descend(out[n - 1], parts[n])
  IN out[Len(parts)]

\* canonicalize, against the active user's working directory.
Base(t) == cwd[t][active[t]]
Canonicalize(t, path) == PathParts(IF path.absolute THEN path.parts ELSE Base(t) \o path.parts)

\* resolve(path, true) finds the directory; resolve(path, false) is content with
\* its parent.
Resolves(p) == p \in dirs
Creatable(p) == p # <<>> /\ p \notin dirs /\ Front(p) \in dirs

-----------------------------------------------------------------------------
(* Commands.                                                               *)

LoggedIn(t) == active[t] # NoUser

\* A user who has been here before finds the session as it was left.
LogIn(t, u) ==
  /\ active' = [active EXCEPT ![t] = u]
  /\ cwd' = [cwd EXCEPT ![t][u] = IF @ = NoSession THEN Home[u] ELSE @]
  /\ UNCHANGED dirs

LogOut(t) ==
  /\ LoggedIn(t)
  /\ active' = [active EXCEPT ![t] = NoUser]
  /\ UNCHANGED <<dirs, cwd>>

\* format forgets the sessions of its own terminal.
Format(t) ==
  /\ dirs' = FreshDirs
  /\ active' = [active EXCEPT ![t] = NoUser]
  /\ cwd' = [cwd EXCEPT ![t] = [u \in User |-> NoSession]]

Chdir(t, path) ==
  /\ LoggedIn(t)
  /\ Resolves(Canonicalize(t, path))
  /\ cwd' = [cwd EXCEPT ![t][active[t]] = Canonicalize(t, path)]
  /\ UNCHANGED <<dirs, active>>

Mkdir(t, path) ==
  LET p == Canonicalize(t, path) IN
  /\ LoggedIn(t)
  /\ Creatable(p) /\ Len(p) <= MaxDepth
  /\ dirs' = dirs \cup {p}
  /\ UNCHANGED <<active, cwd>>

\* rmdir: an empty directory that the working directory is not in.
Rmdir(t, path) ==
  LET p == Canonicalize(t, path) IN
  /\ LoggedIn(t)
  /\ Resolves(p) /\ p # <<>>
  /\ ~\E q \in dirs : IsStrictPrefix(p, q)
  /\ ~IsPrefix(p, Base(t))
  /\ dirs' = dirs \ {p}
  /\ UNCHANGED <<active, cwd>>

SessionNext == \E t \in Terminal :
  \/ \E u \in User : LogIn(t, u)
  \/ LogOut(t) \/ Format(t)
  \/ \E path \in TypedPaths : Chdir(t, path) \/ Mkdir(t, path) \/ Rmdir(t, path)

SessionSpec == SessionInit /\ [][SessionNext]_sessionVars

-----------------------------------------------------------------------------
(* Properties.                                                             *)

SessionTypeOK ==
  /\ dirs \subseteq Canonical
  /\ active \in [Terminal -> User \cup {NoUser}]
  /\ cwd \in [Terminal -> [User -> Canonical \cup {NoSession}]]

\* No directory has this path.
Nowhere == <<NoName>>

\* The reference: walking the tree one component after the other.
Step(dir, part) ==
  IF dir = Nowhere THEN Nowhere
  ELSE CASE part \in {NoName, "."} -> dir
         [] part = ".." -> IF dir = <<>> THEN dir ELSE Front(dir)
         [] OTHER -> IF Append(dir, part) \in dirs THEN Append(dir, part) ELSE Nowhere

Walk(t, path) ==
  LET from == IF path.absolute THEN <<>> ELSE IF Base(t) \in dirs THEN Base(t) ELSE Nowhere
      at[n \in 0 .. Len(path.parts)] ==
        IF n = 0 THEN from ELSE Step(at[n - 1], path.parts[n])
  IN at[Len(path.parts)]

\* A path names the directory one gets to by walking it; without ".." it names
\* one only if it can be walked.  (With "..", a missing directory before it is
\* not noticed: canonicalize works on the text.)
PathIsWalk ==
  \A t \in Terminal : LoggedIn(t) =>
    \A path \in TypedPaths :
      /\ Walk(t, path) # Nowhere => Resolves(Canonicalize(t, path))
                                    /\ Canonicalize(t, path) = Walk(t, path)
      /\ Resolves(Canonicalize(t, path)) /\ (\A i \in DOMAIN path.parts : path.parts[i] # "..")
           => Walk(t, path) = Canonicalize(t, path)
=============================================================================
