---------------------------- MODULE AtomicVolume ----------------------------
(***************************************************************************)
(* What the journal promises: seen through a crash at any moment, a        *)
(* volume is the set of committed operations, and it changes by whole      *)
(* operations only.  Volume.tla is shown to implement this module with     *)
(* content read as "what the next mount would recover".                    *)
(***************************************************************************)
CONSTANTS
    Op,       \* the mutations users may ask for
    Formats   \* those of them that are a format

VARIABLE content

Init == content = {}

\* One mutation takes effect, all of it at once; nothing else is disturbed.
Commit(o) ==
    /\ o \notin content
    /\ content' = content \union {o}

\* format starts an empty volume; no other mutation ever takes anything away.
Format(o) == content' = {o}

Next ==
    \/ \E o \in Op \ Formats : Commit(o)
    \/ \E o \in Formats : Format(o)

Spec == Init /\ [][Next]_content
=============================================================================
