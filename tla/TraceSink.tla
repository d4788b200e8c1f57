----------------------------- MODULE TraceSink -----------------------------
(***************************************************************************)
(* The trace sink (trace.cpp): a ring of the last events and the stack of  *)
(* the open spans, and the kernel commands that fill it.  A command opens  *)
(* a root span, path lookups and permission checks open nested ones, and a *)
(* transaction opens one that carries its txid.  Spans are C++ objects, so *)
(* they close where their scope ends: a vector of path spans front to      *)
(* back, a transaction's span also when an exception unwinds it.           *)
(*                                                                         *)
(* Object, before, after, reason, session, user and time of an event are   *)
(* left out: nothing below depends on them.                                *)
(***************************************************************************)
EXTENDS Naturals, SequencesExt

CONSTANTS
  Typed,        \* commands with a trace type: the type is named as the command
  Untyped,      \* commands without one (close, truncate, whoami, ls ...)
  Mutating,     \* those that run a transaction
  RingSize,     \* config::kTraceRing
  MaxPath,      \* bound: components of a path looked up
  MaxSeq,       \* bound: commands start only below this sequence number
  MaxWork,      \* bound: lookups, checks and events of its own of a command
  MaxTx         \* bound: transactions

NoCommand == "none"
Commands == Typed \cup Untyped

\* A login runs no transaction, and no command is traced as one of the events
\* that the system emits by itself.
ASSUME CommandsAssumption ==
  /\ Mutating \subseteq Commands
  /\ Typed \cap Untyped = {}
  /\ NoCommand \notin Commands
  /\ "session.login" \notin Mutating
  /\ Typed \cap {"trace.on", "trace.off", "journal.begin",
                  "recovery.redo", "recovery.ignore"} = {}
\* 10000 in the code; a login ends with two events of its own context.
ASSUME RingAssumption == RingSize \in Nat /\ RingSize > 2
ASSUME BoundsAssumption ==
  MaxPath \in Nat /\ MaxSeq \in Nat /\ MaxWork \in Nat /\ MaxTx \in Nat

VARIABLES
  sink,      \* TraceSink's fields
  pc,        \* "idle", "run", or "leave" once the result is known
  frame,     \* the running execute(): its command and the spans it holds
  nextTxid,  \* state_.super.nextTxid
  wrapper,   \* the cmdTrace() around it: NoCommand, or what it traces
  shown      \* the events the last `trace <command>` rendered

traceVars == <<sink, pc, frame, nextTxid, wrapper, shown>>

Contexts == {"run", "trace", "login"} \X (Commands \cup {NoCommand})
TraceTypes == {"trace.on", "trace.off"}

\* What boot says of the transactions it finds in the journal.
RecoveryTypes == {"recovery.redo", "recovery.ignore"}

\* The types of the events: a command's own, and what the system emits by itself.
EventTypes == Typed \cup TraceTypes \cup RecoveryTypes \cup {"mount.open"} \cup
  {"coord.lock.acquire", "coord.lock.release", "coord.epoch.bump", "path.lookup",
   "auth.check", "detail", "block.write", "super.mount_state", "session.login",
   "journal.begin", "journal.record", "journal.commit", "journal.checkpoint",
   "journal.clear", "command.error"}

-----------------------------------------------------------------------------
(* The sink.  Every operator takes a sink and returns the sink after it.   *)

Filtered(s, type) == ~s.enabled /\ type \notin TraceTypes

Tracked(s, seq) == \E i \in DOMAIN s.ring : s.ring[i].seq = seq

Top(s) == IF s.stack = <<>> THEN 0 ELSE Last(s.stack)

\* Mutant: one event too many is kept.
PushedAbove(s, txid, type, status) ==
  LET all == Append(s.ring,
               [seq |-> s.seq, txid |-> txid, parent |-> Top(s),
                depth |-> Len(s.stack), command |-> s.command,
                type |-> type, status |-> status])
  IN [s EXCEPT !.seq = @ + 1,
               !.ring = IF Len(all) > RingSize + 1 THEN Tail(all) ELSE all]

\* The ring after one more event: the oldest are dropped above RingSize.
Pushed(s, txid, type, status) ==
  LET all == Append(s.ring,
               [seq |-> s.seq, txid |-> txid, parent |-> Top(s),
                depth |-> Len(s.stack), command |-> s.command,
                type |-> type, status |-> status])
  IN [s EXCEPT !.seq = @ + 1,
               !.ring = IF Len(all) > RingSize THEN Tail(all) ELSE all]

BeginSpan(s, txid, type) ==
  IF Filtered(s, type) THEN s
  ELSE [Pushed(s, txid, type, "start") EXCEPT !.stack = Append(@, s.seq)]

\* The sequence number BeginSpan hands out; 0 is a span that is not active.
SpanOf(s, type) == IF Filtered(s, type) THEN 0 ELSE s.seq

\* An update without a status leaves it as it is.
Same == ""

UpdateSpan(s, seq, status) ==
  [s EXCEPT !.ring = [i \in DOMAIN @ |->
     IF @[i].seq = seq /\ status # Same THEN [@[i] EXCEPT !.status = status]
                                      ELSE @[i]]]

\* The stack without the last entry of a span, if it has one.
Without(stack, seq) ==
  LET entries == {i \in DOMAIN stack : stack[i] = seq}
  IN IF entries = {} THEN stack
     ELSE RemoveAt(stack, CHOOSE i \in entries : \A j \in entries : j <= i)

\* Mutant: the ring is searched first, and the search gives up when the event
\* is gone.
FinishTracked(s, seq, status) ==
  [UpdateSpan(s, seq, status) EXCEPT
     !.stack = IF Tracked(s, seq) THEN Without(@, seq) ELSE @]

\* finishSpan: the span leaves the stack wherever it stands in it, whether or
\* not its event is still in the ring.
FinishSpan(s, seq, status) ==
  [UpdateSpan(s, seq, status) EXCEPT !.stack = Without(@, seq)]

SetSpanTxid(s, seq, txid) ==
  [s EXCEPT !.ring = [i \in DOMAIN @ |->
     IF @[i].seq = seq THEN [@[i] EXCEPT !.txid = txid] ELSE @[i]]]

\* Mutant: any open span of this type is completed.
CompletesAnyOpen(s, e, type) ==
  e.seq \in ToSet(s.stack) /\ e.type = type /\ e.status = "start"

\* The event that emit() completes instead of adding one: that of the innermost
\* open span, when it is of this type and still at "start".
Completes(s, e, type) == e.seq = Top(s) /\ e.type = type /\ e.status = "start"

Emit(s, txid, type, status) ==
  IF Filtered(s, type) THEN s
  ELSE IF \E i \in DOMAIN s.ring : Completes(s, s.ring[i], type)
  THEN [s EXCEPT !.ring = [i \in DOMAIN @ |->
         IF Completes(s, @[i], type)
         THEN [@[i] EXCEPT !.txid = txid, !.status = status] ELSE @[i]]]
  ELSE Pushed(s, txid, type, status)

\* What sinceForCommand selects, or since() when nothing was selected.
SinceForCommand(s, first, command) ==
  LET since == {e \in ToSet(s.ring) : e.seq >= first}
      mine  == {e \in since : e.command = command}
  IN IF mine = {} THEN since ELSE mine

Clear(s) == [s EXCEPT !.ring = <<>>, !.stack = <<>>]

\* Several emits with status "ok" in a row, each a pair <<txid, type>>.
EmitAll(s, events) ==
  LET after[n \in 0 .. Len(events)] ==
        IF n = 0 THEN s ELSE Emit(after[n - 1], events[n][1], events[n][2], "ok")
  IN after[Len(events)]

\* Spans close one after the other.
FinishAll(s, spans) ==
  LET after[n \in 0 .. Len(spans)] ==
        IF n = 0 THEN s ELSE FinishSpan(after[n - 1], spans[n], Same)
  IN after[Len(spans)]

-----------------------------------------------------------------------------
(* The kernel.                                                             *)

NoFrame == [command |-> NoCommand, root |-> 0, tx |-> 0, txid |-> 0,
            paths |-> <<>>, auth |-> 0, done |-> FALSE,
            work |-> 0]

Room == sink.seq < MaxSeq
Busy == frame.work < MaxWork
Worked == [frame EXCEPT !.work = @ + 1]

\* What recoveryFromJournal() emits of the journal's transactions: the committed
\* ones that were not checkpointed, then those without a COMMIT record, each in
\* the order of their txids.
RecoveryEvents ==
  {events \in UNION {[1 .. n -> (1 .. MaxTx) \X RecoveryTypes] : n \in 0 .. MaxTx} :
     \A i, j \in DOMAIN events : i < j =>
       /\ events[i][1] # events[j][1]
       /\ events[i][2] = events[j][2] => events[i][1] < events[j][1]
       /\ events[i][2] = "recovery.ignore" => events[j][2] = "recovery.ignore"}

\* The sink before boot: no context was set, and no span is open.
NewSink == [enabled |-> TRUE, seq |-> 1, ring |-> <<>>, stack |-> <<>>,
            command |-> <<"run", NoCommand>>]

\* The first command comes after boot, whose events have no span around them.
\* Those without a txid (the locks, reloads and mount states, fsck.light, the
\* recovery's begin and end) are the one that ends boot, mount.open.  An image
\* that was redone has counted its transaction; one that was ignored may have
\* left its txid to the next.
TraceInit ==
  /\ \E recovered \in RecoveryEvents :
       /\ sink = EmitAll(NewSink, Append(recovered, <<0, "mount.open">>))
       /\ nextTxid \in {t \in 1 .. MaxTx :
            \A i \in DOMAIN recovered :
              recovered[i][2] = "recovery.redo" => recovered[i][1] < t}
  /\ pc = "idle"
  /\ frame = NoFrame
  /\ wrapper = [command |-> NoCommand, first |-> 0]
  /\ shown = {}

\* execute(): the context, the root span of a command with a trace type, and
\* the events of the lock it takes.
Execute(s, c) ==
  LET in   == [s EXCEPT !.command = <<"run", c>>]
      open == IF c \in Typed THEN BeginSpan(in, 0, c) ELSE in
  IN /\ sink' = EmitAll(open, <<<<0, "coord.lock.acquire">>>>)
     /\ frame' = [NoFrame EXCEPT !.command = c,
                    !.root = IF c \in Typed THEN SpanOf(in, c) ELSE 0]
     /\ pc' = "run"

Enter(c) ==
  /\ pc = "idle" /\ Room
  /\ Execute(sink, c)
  /\ UNCHANGED <<nextTxid, wrapper>>
  /\ shown' = {}

\* cmdTrace() around a command: the outer execute has no root span and no lock.
EnterTraced(c) ==
  /\ pc = "idle" /\ Room
  /\ wrapper' = [command |-> c, first |-> sink.seq]
  /\ Execute([sink EXCEPT !.command = <<"trace", c>>], c)
  /\ UNCHANGED <<nextTxid>>
  /\ shown' = {}

\* trace on | off | clear.
Switch(on) ==
  /\ pc = "idle" /\ Room
  /\ LET in == [sink EXCEPT !.command = <<"trace", NoCommand>>]
     IN sink' = IF on THEN Emit([in EXCEPT !.enabled = TRUE], 0, "trace.on", "ok")
                ELSE [Emit(in, 0, "trace.off", "ok") EXCEPT !.enabled = FALSE]
  /\ UNCHANGED <<pc, frame, nextTxid, wrapper>>
  /\ shown' = {}

TraceClear ==
  /\ pc = "idle"
  /\ sink' = Clear([sink EXCEPT !.command = <<"trace", NoCommand>>])
  /\ UNCHANGED <<pc, frame, nextTxid, wrapper>>
  /\ shown' = {}

\* resolve(): one span per component, all open until the lookup returns.
Lookup ==
  /\ pc = "run" /\ frame.auth = 0 /\ Len(frame.paths) < MaxPath /\ Busy
  /\ sink' = UpdateSpan(BeginSpan(sink, 0, "path.lookup"),
                        SpanOf(sink, "path.lookup"), "ok")
  /\ frame' = [Worked EXCEPT !.paths = Append(@, SpanOf(sink, "path.lookup"))]
  /\ UNCHANGED <<pc, nextTxid, wrapper, shown>>

\* Its vector of spans is destroyed front to back.
LookupDone ==
  /\ frame.paths # <<>>
  /\ sink' = FinishAll(sink, frame.paths)
  /\ frame' = [frame EXCEPT !.paths = <<>>]
  /\ UNCHANGED <<pc, nextTxid, wrapper, shown>>

\* authCheck(): the commands ask before they begin their transaction.
Auth ==
  /\ pc = "run" /\ frame.paths = <<>> /\ frame.txid = 0 /\ frame.auth = 0
  /\ sink.enabled /\ Busy
  /\ sink' = BeginSpan(sink, 0, "auth.check")
  /\ frame' = [Worked EXCEPT !.auth = SpanOf(sink, "auth.check")]
  /\ UNCHANGED <<pc, nextTxid, wrapper, shown>>

AuthDone ==
  /\ frame.auth # 0
  /\ sink' = FinishSpan(sink, frame.auth, "ok")
  /\ frame' = [frame EXCEPT !.auth = 0]
  /\ UNCHANGED <<pc, nextTxid, wrapper, shown>>

Working == pc = "run" /\ frame.paths = <<>> /\ frame.auth = 0

\* beginTx(): the span gets its txid only once the counter was taken; what
\* setMountState and saveState emit in between has none.
BeginTx ==
  /\ Working /\ frame.command \in Mutating /\ frame.txid = 0
  /\ ~frame.done /\ nextTxid <= MaxTx
  /\ LET span   == SpanOf(sink, "journal.begin")
         open   == SetSpanTxid(BeginSpan(sink, 0, "journal.begin"), span, nextTxid)
     IN /\ sink' = EmitAll(open, <<<<0, "super.mount_state">>, <<0, "block.write">>,
                             <<nextTxid, "journal.begin">>,
                             <<nextTxid, "journal.record">>>>)
        /\ frame' = [frame EXCEPT !.tx = span, !.txid = nextTxid]
  /\ nextTxid' = nextTxid + 1
  /\ UNCHANGED <<pc, wrapper, shown>>

\* The command's own event: with its txid inside the transaction, without one
\* outside (file.read, session.chdir, fsck.full).  `open ... truncate` emits
\* its own after the transaction that truncated the file.
EmitOwn ==
  /\ Working /\ frame.command \in Typed /\ Busy
  /\ IF frame.command = "open.fd" THEN frame.txid = 0
     ELSE frame.command \in Mutating => frame.txid # 0
  /\ sink' = Emit(sink, frame.txid, frame.command, "ok")
  /\ frame' = Worked
  /\ UNCHANGED <<pc, nextTxid, wrapper, shown>>

\* An event that is no span's: inode and block counts (without a txid) and
\* inode.write_map, cow.break, inode.clone (with it).
EmitDetail(txid) ==
  /\ Working /\ Busy
  /\ txid \in {0, frame.txid}
  /\ sink' = Emit(sink, txid, "detail", "ok")
  /\ frame' = Worked
  /\ UNCHANGED <<pc, nextTxid, wrapper, shown>>

\* cmdLogin() renames the context before its own event.
Login ==
  /\ Working /\ frame.command = "session.login"
  /\ sink' = Emit([sink EXCEPT !.command = <<"login", NoCommand>>],
                  0, "session.login", "ok")
  /\ pc' = "leave"
  /\ UNCHANGED <<frame, nextTxid, wrapper, shown>>

\* commitTx(); its span closes after the epoch was bumped.
CommitTx ==
  /\ Working /\ frame.txid # 0
  /\ sink' = FinishSpan(EmitAll(sink,
       <<<<frame.txid, "journal.record">>, <<frame.txid, "journal.commit">>,
         <<0, "block.write">>, <<frame.txid, "journal.checkpoint">>,
         <<0, "journal.clear">>, <<0, "coord.epoch.bump">>>>), frame.tx, "ok")
  /\ frame' = [frame EXCEPT !.tx = 0, !.txid = 0, !.done = TRUE]
  /\ pc' = IF frame.command = "open.fd" THEN "run" ELSE "leave"
  /\ UNCHANGED <<nextTxid, wrapper, shown>>

\* The handler returns, with or without an error, outside a transaction.
Return(error) ==
  /\ Working /\ frame.txid = 0
  /\ sink' = IF error THEN FinishSpan(sink, frame.root, "error") ELSE sink
  /\ frame' = IF error THEN [frame EXCEPT !.root = 0] ELSE frame
  /\ pc' = "leave"
  /\ UNCHANGED <<nextTxid, wrapper, shown>>

\* An exception: the open lookup's spans and the transaction's close as the
\* stack unwinds, the lock is released, and the handler closes the root span
\* before it emits command.error.
Throw ==
  /\ pc = "run" /\ frame.auth = 0
  /\ LET unwound  == FinishSpan(FinishAll(sink, frame.paths), frame.tx, Same)
         released == Emit(unwound, 0, "coord.lock.release", "ok")
     IN sink' = Emit(FinishSpan(released, frame.root, "error"),
                     0, "command.error", "error")
  /\ frame' = [NoFrame EXCEPT !.command = frame.command]
  /\ pc' = "thrown"
  /\ UNCHANGED <<nextTxid, wrapper, shown>>

\* Mutant: the outer command's context is asked for.
RenderOuter(s) ==
  {e \in ToSet(s.ring) : e.seq >= wrapper.first /\ e.command = <<"trace", wrapper.command>>}

\* What cmdTrace() renders once the inner execute has returned; the context
\* becomes the outer command's first.
Render(s) ==
  SinceForCommand([s EXCEPT !.command = <<"trace", wrapper.command>>],
                  wrapper.first, <<"run", wrapper.command>>)
\* The end of execute(): the lock is released before the root span closes.
Leave ==
  /\ pc \in {"leave", "thrown"}
  /\ LET released == IF pc = "leave" THEN Emit(sink, 0, "coord.lock.release", "ok")
                                     ELSE sink
         done     == FinishSpan(released, frame.root, Same)
         traced   == wrapper.command # NoCommand
     IN /\ sink' = IF traced
                   THEN [done EXCEPT !.command = <<"trace", wrapper.command>>] ELSE done
        /\ shown' = IF traced THEN Render(done) ELSE {}
  /\ frame' = NoFrame
  /\ wrapper' = [command |-> NoCommand, first |-> 0]
  /\ pc' = "idle"
  /\ UNCHANGED nextTxid

TraceNext ==
  \/ \E c \in Commands : Enter(c) \/ EnterTraced(c)
  \/ \E on \in BOOLEAN : Switch(on)
  \/ TraceClear
  \/ Lookup \/ LookupDone \/ Auth \/ AuthDone
  \/ BeginTx \/ EmitOwn \/ CommitTx \/ Login
  \/ \E txid \in 0 .. MaxTx : EmitDetail(txid)
  \/ \E error \in BOOLEAN : Return(error)
  \/ Throw \/ Leave

TraceSpec == TraceInit /\ [][TraceNext]_traceVars

-----------------------------------------------------------------------------
(* Properties.                                                             *)

Events == [seq : Nat \ {0}, txid : Nat, parent : Nat, depth : Nat,
           command : Contexts, type : EventTypes, status : {"start", "ok", "error"}]

\* The sink, the frame and the ring have their types; the ring holds the last
\* events, numbered without a gap, and never more than kTraceRing of them.
TraceTypeOK ==
  /\ sink.enabled \in BOOLEAN /\ sink.seq \in Nat \ {0}
  /\ sink.command \in Contexts
  /\ \A i \in DOMAIN sink.ring :
       /\ sink.ring[i] \in Events
       /\ sink.ring[i].seq = sink.seq - Len(sink.ring) + i - 1
  /\ Len(sink.ring) <= RingSize
  /\ pc \in {"idle", "run", "leave", "thrown"}
  /\ frame.command \in Commands \cup {NoCommand}
  /\ nextTxid \in 1 .. MaxTx + 1

\* The spans the running command holds.
HeldSpans == ({frame.root, frame.tx, frame.auth} \cup ToSet(frame.paths)) \ {0}

Increasing(s) == \A i, j \in DOMAIN s : i < j => s[i] < s[j]

\* The stack is exactly the spans that the running command still holds, in the
\* order they were opened, whatever the order they close in and whether or not
\* their events were dropped from the ring meanwhile; between two commands it
\* is empty.  Otherwise every later event would hang under a span long closed.
StackIsOpenSpans == ToSet(sink.stack) = HeldSpans /\ Increasing(sink.stack)

Ring == ToSet(sink.ring)
ParentsOf(e) == {f \in Ring : f.seq = e.parent}

\* An event with a txid is the span of that transaction, or hangs under it, or is
\* boot's word on a transaction of an earlier process, outside every span and
\* every command: a command's txid never reaches an event outside its transaction.
\* So the root event of a command stays without one, and the event of the same
\* type that the transaction emits is another one (qa/trace_command_tx.ps1,
\* Assert-CommandRootOutsideTx).
TxEventsInTx ==
  \A e \in Ring : e.txid # 0 =>
    \/ e.type = "journal.begin"
    \/ /\ e.parent # 0
       /\ \A f \in ParentsOf(e) : f.type = "journal.begin" /\ f.txid = e.txid
    \/ /\ e.type \in RecoveryTypes
       /\ e.parent = 0 /\ e.command = <<"run", NoCommand>>

\* `trace <command>` renders the events of that command, all of them and none
\* of another's (docs/design.md:60); a login changes the context half way, and
\* only what was recorded before that is rendered.
ShownIsTheCommand ==
  [][(wrapper.command # NoCommand /\ wrapper'.command = NoCommand) =>
       LET made == {e \in Ring' : e.seq >= wrapper.first}
       IN shown' = {e \in made : e.command[1] # "login"}]_traceVars
=============================================================================
