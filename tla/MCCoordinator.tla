--------------------------- MODULE MCCoordinator ---------------------------
(* Instances of Coordinator for TLC. *)
EXTENDS Coordinator, TLC

Sessions == Permutations(Session)

\* Anywhere but inside the mutex.
KillOutsideMutex == {"idle", "wait", "polling", "writing", "reading",
                     "rmTxDir", "retryTx"}

\* Inside the mutex, but not between creating tx.lock (or emptying it) and the
\* step that finishes it.
KillInsideMutex == {"scanTx", "readHolder", "dropHolder", "scanRest", "check", "mkdir",
                    "writeRead", "granted", "refused", "writing", "reading"}
=============================================================================
