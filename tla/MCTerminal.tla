----------------------------- MODULE MCTerminal -----------------------------
(* What a terminal keeps to itself: the trace, the sessions and the line     *)
(* being typed, one of them in a behaviour; the others stay where they begin.*)
EXTENDS TraceSink, Sessions, LineEditor

VARIABLE part

vars == <<part, traceVars, sessionVars, editorVars>>

Init ==
  /\ part \in {"trace", "sessions", "editor"}
  /\ TraceInit /\ SessionInit /\ EditorInit
  /\ part # "trace" => Len(sink.ring) = 1 /\ nextTxid = 1

Next ==
  /\ UNCHANGED part
  /\ \/ part = "trace" /\ TraceNext /\ UNCHANGED <<sessionVars, editorVars>>
     \/ part = "sessions" /\ SessionNext /\ UNCHANGED <<traceVars, editorVars>>
     \/ part = "editor" /\ EditorNext /\ UNCHANGED <<traceVars, sessionVars>>

Spec == Init /\ [][Next]_vars

\* The ring keeps the last events and numbers them without a gap, working
\* directories are canonical paths, and the cursor stays within the line.
TypeOK == TraceTypeOK /\ SessionTypeOK /\ EditorTypeOK

TypedCommands == {"dir.mkdir", "file.read", "open.fd", "session.login"}
UntypedCommands == {"truncate"}
MutatingCommands == {"dir.mkdir", "open.fd", "truncate"}

\* Homes are directories of the root.
HomeOfUser == [u \in User |-> <<u>>]

\* Two words of which one begins like the other.
KnownWords == <<<<"a">>, <<"a", "a">>>>
=============================================================================
