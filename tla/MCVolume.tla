------------------------------ MODULE MCVolume ------------------------------
(* Instances of Volume for TLC. *)
EXTENDS Volume, TLC

Symmetry == Permutations(Op \ Formats) \union Permutations(Terminal)

\* From the commit record to the moment the other terminals are told of it.
CommitWindow == {"jcommit", "saved", "ckpt", "cleared", "dsaved"}

InjectOutsideWindow == CrashPoints \ CommitWindow
KillOutsideWindow == Points \ ({"off", "recCleared"} \union CommitWindow)

\* All processes may be killed together anywhere but between the two halves of
\* a recovery's last step.
AnywhereButRecovery == Points \ {"off", "recCleared"}
=============================================================================
