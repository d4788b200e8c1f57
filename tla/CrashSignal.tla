---------------------------- MODULE CrashSignal ----------------------------
(***************************************************************************)
(* The crash signal (VolumeCoordinator::broadcastCrash, startSession and   *)
(* hasPendingCrashSignal): one file with one line, numbered.  A terminal   *)
(* that crashes reads the number, truncates the file and writes the next;  *)
(* the others crash when they find a number above the last one they saw.   *)
(* Volume has the signal delivered at once and never lost.                 *)
(***************************************************************************)
EXTENDS Naturals

CONSTANTS
  Session,
  MaxSignal    \* bound: the highest number of a signal

ASSUME SignalAssumption == MaxSignal \in Nat

VARIABLES
  signal,   \* the number in the file; 0 when it is missing or empty
  sender,   \* the session named in it
  doing,
  number,   \* the number it is going to write
  seen,     \* observedSignalEpoch_
  owed,     \* ghost: the running terminals in whose time a signal was written
  raced     \* ghost: two were sending at the same time, or one was killed at it

signalVars == <<signal, sender, doing, number, seen, owed, raced>>

SignalPoints == {"off", "idle", "reading", "truncated"}

SignalInit ==
  /\ signal = 0
  /\ sender \in Session
  /\ doing = [t \in Session |-> "off"]
  /\ number = [t \in Session |-> 0]
  /\ seen = [t \in Session |-> 0]
  /\ owed = {}
  /\ raced = FALSE

Turns(t, from, to) == doing[t] = from /\ doing' = [doing EXCEPT ![t] = to]

Sending == {t \in Session : doing[t] \in {"reading", "truncated"}}

\* Mutant: a new session has seen nothing.
StartUnseen(t) ==
  /\ Turns(t, "off", "idle")
  /\ seen' = [seen EXCEPT ![t] = 0]
  /\ UNCHANGED <<signal, sender, number, owed, raced>>

\* startSession: what is in the file is not for the new session.
StartListening(t) ==
  /\ Turns(t, "off", "idle")
  /\ seen' = [seen EXCEPT ![t] = signal]
  /\ UNCHANGED <<signal, sender, number, owed, raced>>

\* hasPendingCrashSignal.
Pending(t) == signal > seen[t] /\ sender # t

Gone(t) == owed' = owed \ {t}

\* checkExternalCrashSignal, before a command, at the prompt and in sleep: the
\* process ends with a CrashException.  A poll that finds nothing changes nothing.
Poll(t) ==
  /\ Turns(t, "idle", "off")
  /\ Pending(t)
  /\ seen' = [seen EXCEPT ![t] = signal]
  /\ Gone(t)
  /\ UNCHANGED <<signal, sender, number, raced>>

\* Mutant: a sender counts from the last signal it has seen itself.
CountFromSeen(t) ==
  /\ seen[t] < MaxSignal
  /\ Turns(t, "idle", "reading")
  /\ number' = [number EXCEPT ![t] = seen[t] + 1]
  /\ raced' = (raced \/ Sending # {})
  /\ UNCHANGED <<signal, sender, seen, owed>>

\* maybeCrashNow: broadcastCrash reads the number in the file ...  A crash point
\* of a transaction is reached with the transaction lock, so that two of them
\* never race; "crash now" and the crash point of the dispatcher are not.
ReadSignal(t) ==
  /\ signal < MaxSignal
  /\ Turns(t, "idle", "reading")
  /\ number' = [number EXCEPT ![t] = signal + 1]
  /\ raced' = (raced \/ Sending # {})
  /\ UNCHANGED <<signal, sender, seen, owed>>

\* ... truncates it ...
TruncateSignal(t) ==
  /\ Turns(t, "reading", "truncated")
  /\ signal' = 0
  /\ UNCHANGED <<sender, number, seen, owed, raced>>

\* ... and writes the next; the CrashException ends the process.
WriteSignal(t) ==
  /\ Turns(t, "truncated", "off")
  /\ signal' = number[t]
  /\ sender' = t
  /\ owed' = {u \in Session : doing'[u] # "off"}
  /\ UNCHANGED <<number, seen, raced>>

\* exit, or a kill while no signal is being written.
Quit(t) ==
  /\ Turns(t, "idle", "off")
  /\ Gone(t)
  /\ UNCHANGED <<signal, sender, number, seen, raced>>

\* A kill before the signal is written.
KillSending(t) ==
  /\ t \in Sending
  /\ doing' = [doing EXCEPT ![t] = "off"]
  /\ Gone(t)
  /\ raced' = TRUE
  /\ UNCHANGED <<signal, sender, number, seen>>

SignalNext == \E t \in Session :
  \/ StartListening(t) \/ Poll(t) \/ Quit(t)
  \/ ReadSignal(t) \/ TruncateSignal(t) \/ WriteSignal(t) \/ KillSending(t)

SignalSpec == SignalInit /\ [][SignalNext]_signalVars

-----------------------------------------------------------------------------
(* Properties.                                                             *)

SignalTypeOK ==
  /\ signal \in 0 .. MaxSignal /\ sender \in Session
  /\ doing \in [Session -> SignalPoints]
  /\ number \in [Session -> 0 .. MaxSignal]
  /\ seen \in [Session -> 0 .. MaxSignal]
  /\ owed \subseteq Session /\ raced \in BOOLEAN

\* A crash reaches every terminal that was running when its signal was written:
\* whatever was sent since, the terminal finds it at its next look, unless it is
\* just looking at a file being rewritten ("broadcast crash did not terminate
\* all terminals", qa/concurrent_locks.ps1:222).  It holds until two terminals
\* crash at the same time, or one is killed before it has written its signal.
CrashReachesAll ==
  Sending = {} /\ ~raced => \A t \in owed : doing[t] = "idle" => Pending(t)

\* A terminal never ends by a crash signal that was written before it started
\* (startSession; qa/concurrent_locks.ps1:215 works on after the crash).
OldSignalsIgnored == \A t \in Session : doing[t] = "idle" /\ Pending(t) => t \in owed
=============================================================================
