----------------------------- MODULE MCIdentity -----------------------------
\* Instances of Identity: some of the accounts and groups of a fresh volume.
EXTENDS Identity, TLC

CONSTANTS notes    \* the name of a file

\* An assistant and somebody from outside the course.
Mates == ("root" :> {"system"}) @@ ("usr3" :> {"cs101", "cs101_assistant"}) @@ ("usr7" :> {})

CourseGroups == [g \in {"system", "cs101", "cs101_teacher", "cs101_assistant"} |->
                    IF g \in {"cs101_teacher", "cs101_assistant"} THEN {"cs101"} ELSE {}]

FreshGroups == {"system", "cs101", "cs101_teacher", "cs101_assistant", "root", "usr3", "usr7"}

\* A lab whose name has the prefix of a course.
Course == [n \in Name |-> IF n \in {"cs101", "cs101_teacher", "cs101_assistant", "cs101_lab"}
                          THEN "cs101" ELSE "none"]
Teachers == [c \in {"cs101"} |-> "cs101_teacher"]
Assistants == [c \in {"cs101"} |-> "cs101_assistant"]

OneFile == {<<>>, <<notes>>}
Mode(o, g, x) == [owner |-> o, group |-> g, other |-> x]
RootMode == Mode({"r", "w", "x"}, {"r", "x"}, {"r", "x"})
Private == Mode({"r", "w"}, {}, {})
Open == Mode({"r", "w", "x"}, {"r", "w", "x"}, {"r", "x"})
BothModes == {Private, Open}
ManageOnly == {{"g"}}
FileOnly == {{<<notes>>}}

\* Two groups and a built-in one, below each other.
Grouping == [users |-> {"root", "usr3"}, groups |-> {"cs101_lab", "team", "cs101_assistant"},
             targets |-> {"usr3", "cs101_lab", "team"}, paths |-> {<<>>},
             modes |-> {}, scopes |-> {},
             ops |-> {"group create", "group delete", "group grant", "group revoke"}]

\* Every way to the rights on one file.
Sharing == [users |-> {"root", "usr3", "usr7"}, groups |-> {"cs101"}, targets |-> {"usr7"},
            paths |-> OneFile, modes |-> BothModes, scopes |-> {},
            ops |-> {"acl grant", "acl revoke", "chmod", "chown", "chgroup",
                     "create", "delete", "cp"}]

\* A user's group as subject of ACL entries and as the group of the root directory.
Lending == [users |-> {"root", "usr3", "usr7"}, groups |-> {"cs101_lab"},
            targets |-> {"usr7", "cs101_lab"}, paths |-> {<<>>},
            modes |-> {}, scopes |-> FileOnly,
            ops |-> {"group create", "group grant", "group revoke", "group delete",
                     "acl grant", "chgroup"}]

Workloads == {Grouping, Sharing, Lending}

=============================================================================
