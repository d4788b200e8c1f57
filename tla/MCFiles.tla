------------------------------ MODULE MCFiles ------------------------------
(* The three protocols on files, one of them in a behaviour: their states   *)
(* have nothing in common, and the others stay where they begin.            *)
EXTENDS VolumeFile, EpochReload, CrashSignal, TLC

VARIABLE part

vars == <<part, fileVars, epochVars, signalVars>>

Init ==
  /\ part \in {"volume", "epoch", "signal"}
  /\ FileInit /\ EpochInit /\ SignalInit

Next ==
  /\ UNCHANGED part
  /\ \/ part = "volume" /\ FileNext /\ UNCHANGED <<epochVars, signalVars>>
     \/ part = "epoch" /\ EpochNext /\ UNCHANGED <<fileVars, signalVars>>
     \/ part = "signal" /\ SignalNext /\ UNCHANGED <<fileVars, epochVars>>

Spec == Init /\ [][Next]_vars

\* Every protocol keeps its types and, with them, its bounds: a number in a file is
\* one that somebody has written, or 0 of a file that is empty.
TypeOK == FileTypeOK /\ EpochTypeOK /\ SignalTypeOK

AnySave == Saves
AnyCut == CutLines
Alike == Permutations(Terminal) \cup Permutations(Session)
=============================================================================
