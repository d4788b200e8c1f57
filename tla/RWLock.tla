------------------------------- MODULE RWLock -------------------------------
(***************************************************************************)
(* What the volume coordinator promises the kernel: a shared/exclusive     *)
(* lock on the volume.  Many sessions may read it together, one may write  *)
(* it, and nobody reads while somebody writes.  A session that dies simply *)
(* stops being a holder: there is no separate "break the lock" step.       *)
(*                                                                         *)
(* Coordinator.tla is shown to implement this module; Volume.tla runs its  *)
(* transactions on top of it.                                              *)
(***************************************************************************)
CONSTANT Session

VARIABLES writers,  \* the sessions that hold the transaction lock
          readers   \* the sessions that hold a read lock

lockVars == <<writers, readers>>

Init ==
    /\ writers = {}
    /\ readers = {}

AcquireWrite(s) ==
    /\ writers = {}
    /\ readers = {}
    /\ writers' = {s}
    /\ UNCHANGED readers

AcquireRead(s) ==
    /\ writers = {}
    /\ s \notin readers
    /\ readers' = readers \union {s}
    /\ UNCHANGED writers

\* The holder is done, or has died.
LeaveWrite(s) ==
    /\ s \in writers
    /\ writers' = writers \ {s}
    /\ UNCHANGED readers

LeaveRead(s) ==
    /\ s \in readers
    /\ readers' = readers \ {s}
    /\ UNCHANGED writers

Next == \E s \in Session :
    \/ AcquireWrite(s)
    \/ AcquireRead(s)
    \/ LeaveWrite(s)
    \/ LeaveRead(s)

Spec == Init /\ [][Next]_lockVars

-----------------------------------------------------------------------------
\* Only sessions hold locks.
TypeOK ==
    /\ writers \subseteq Session
    /\ readers \subseteq Session

\* Two transactions never run at once (acquireTxLock).
SingleWriter == \A s, t \in writers : s = t

\* No command reads the volume while another writes it (acquireReadLock).
NoReaderBesideWriter == writers = {} \/ readers = {}

\* The two halves of mutual exclusion between commands of different terminals.
Exclusion == SingleWriter /\ NoReaderBesideWriter
=============================================================================
