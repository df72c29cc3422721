------------------------------ MODULE BridgeRuns ------------------------------
(***************************************************************************)
(* The Bridge's half of managed Run delivery: the durable inbox and the    *)
(* cancellation tombstones (bridge/internal/delivery/inbox.go), the Run    *)
(* workers (handler.go, runtime_executor.go), and the connection's reader  *)
(* loop and reconnect (bridge/internal/connection/client.go).  Each Run    *)
(* has at most one worker goroutine; the reader and the workers interleave *)
(* at every durable write, every network write and every look at a         *)
(* tombstone or a context.  A process crash loses everything but the inbox *)
(* and the tombstones.                                                     *)
(*                                                                         *)
(* Here Central may request and cancel any Run at any time, any number of  *)
(* times.  RunDelivery composes this module with the real Central.         *)
(***************************************************************************)
EXTENDS RunIds, Naturals, Sequences

CONSTANTS NoRun,      \* no Run
          MaxEvents   \* bound on the events a Runtime emits for one Run

ASSUME BridgeAssumption == NoRun \notin Runs /\ MaxEvents \in Nat

VARIABLES link,     \* "up" or "down": the Bridge's view of its connection
          rec,      \* Record.State of the inbox; "none" when there is no record
          evs,      \* Record.Events; Record.LastSequence is 1 + Len(evs[r])
          tomb,     \* is there a cancellation tombstone?
          pc,       \* where the Run's worker, or the reader, is
          ctx,      \* the worker's context: "live", "explicit" (canceled by
                    \* ErrRunCancelRequested) or "lost" (connection over)
          fresh,    \* will the worker start the Runtime if all goes well?
          todo,     \* frames the worker is about to write
          reader,   \* the Run whose cancellation the reader replays, or NoRun
          started   \* how often an adapter was told to execute the Run

bridgeVars ==
  <<link, rec, evs, tomb, pc, ctx, fresh, todo, reader, started>>

isCancellationTerminalState(s) ==
  s \in {"completed", "failed", "canceled", "outcome_unknown"}

isTerminalState(s) == isCancellationTerminalState(s) \/ s = "input_required"

RecordStates ==
  {"none", "preparing", "accepted", "working", "input_required", "completed",
   "failed", "canceled", "outcome_unknown"}

EventKinds ==
  {"working", "output", "input_required", "completed", "failed", "canceled",
   "outcome_unknown"}

Places ==
  {"idle", "accept", "check", "preparing", "cancelBefore", "failing",
   "announce", "announceFailure", "admit", "waiting", "starting", "running",
   "emitting", "unknown", "lastWord", "cancelAfter", "report", "clear", "done",
   "error"}

Frame(r, s, k) == [run |-> r, seq |-> s, kind |-> k]

accepted(r) == Frame(r, 1, "delivered")

\* The stored envelopes of a record, as Replay sends them.
Envelopes(r, es) == [i \in 1..Len(es) |-> Frame(r, i + 1, es[i])]

BridgeInit ==
  /\ link = "down"
  /\ rec = [r \in Runs |-> "none"]
  /\ evs = [r \in Runs |-> <<>>]
  /\ tomb = [r \in Runs |-> FALSE]
  /\ pc = [r \in Runs |-> "idle"]
  /\ ctx = [r \in Runs |-> "live"]
  /\ fresh = [r \in Runs |-> FALSE]
  /\ todo = [r \in Runs |-> <<>>]
  /\ reader = NoRun
  /\ started = [r \in Runs |-> 0]

Goto(r, place) == pc' = [pc EXCEPT ![r] = place]

\* Inbox.AppendEvent: the next event and the state it brings, in one durable
\* write.  "output" keeps the state.
AppendEvent(r, k) ==
  /\ evs' = [evs EXCEPT ![r] = Append(@, k)]
  /\ rec' = [rec EXCEPT ![r] = IF k = "output" THEN @ ELSE k]

Stage(r, frames) == todo' = [todo EXCEPT ![r] = frames]

\* A canceled context fails a write, and so does a closed socket.
CanSend(r) == link = "up" /\ ctx[r] = "live"

-----------------------------------------------------------------------------
(***************************************************************************)
(* The reader loop (connectOnce).                                          *)
(***************************************************************************)
\* active[r]: registered before the worker starts, deleted when it is done.
isActive(r) == pc[r] # "idle"

\* case RunRequestedMessage: a duplicate of a Run in progress is dropped.
RunRequested(r) ==
  /\ link = "up"
  /\ reader = NoRun
  /\ \/ /\ ~isActive(r)
        /\ Goto(r, "accept")
        /\ ctx' = [ctx EXCEPT ![r] = "live"]
     \/ isActive(r) /\ UNCHANGED <<pc, ctx>>
  /\ UNCHANGED <<link, rec, evs, tomb, fresh, todo, reader, started>>

\* FenceCanceledRun, for a Run with a worker: StageCancellation, then the
\* worker's context is canceled; a tombstone beside a settled record is
\* removed at once.
FenceCanceledRun(r) ==
  /\ isActive(r)
  /\ tomb' = [tomb EXCEPT ![r] = ~isCancellationTerminalState(rec[r])]
  /\ ctx' = [ctx EXCEPT ![r] = IF @ = "live" THEN "explicit" ELSE @]
  /\ UNCHANGED <<link, rec, evs, pc, fresh, todo, reader, started>>

\* ReplayCanceledRun, inline in the reader: fence an unknown Run and report it
\* canceled at sequence 1, replay a settled one, cancel any other.
ReplayCanceledRun(r) ==
  /\ ~isActive(r)
  /\ reader' = r
  /\ \/ /\ rec[r] = "none"
        /\ tomb' = [tomb EXCEPT ![r] = TRUE]
        /\ Stage(r, <<Frame(r, 1, "canceled")>>)
        /\ Goto(r, "report")
     \/ /\ isCancellationTerminalState(rec[r])
        /\ Stage(r, Envelopes(r, evs[r]))
        /\ Goto(r, "report")
        /\ UNCHANGED tomb
     \/ /\ rec[r] # "none" /\ ~isCancellationTerminalState(rec[r])
        /\ tomb' = [tomb EXCEPT ![r] = TRUE]
        /\ Goto(r, "cancelBefore")
        /\ UNCHANGED todo
  /\ UNCHANGED <<link, rec, evs, ctx, fresh, started>>

\* case RunCancelRequestedMessage.
RunCancelRequested(r) ==
  /\ link = "up"
  /\ reader = NoRun
  /\ FenceCanceledRun(r) \/ ReplayCanceledRun(r)

-----------------------------------------------------------------------------
(***************************************************************************)
(* The worker, up to the Runtime (Handler.Handle and runNew).              *)
(***************************************************************************)
\* Mutant of Accept: every delivery is taken for the first.
AcceptForgetsDuplicates(r) ==
  /\ pc[r] = "accept"
  /\ rec' = [rec EXCEPT ![r] = IF @ = "none" THEN "accepted" ELSE @]
  /\ fresh' = [fresh EXCEPT ![r] = TRUE]
  /\ Goto(r, "check")
  /\ UNCHANGED <<link, evs, tomb, ctx, todo, reader, started>>

\* Inbox.Accept.  Only a new record, or one left in preparation, may run.
Accept(r) ==
  /\ pc[r] = "accept"
  /\ rec' = [rec EXCEPT ![r] = IF @ = "none" THEN "accepted" ELSE @]
  /\ fresh' = [fresh EXCEPT ![r] = rec[r] \in {"none", "preparing"}]
  /\ Goto(r, "check")
  /\ UNCHANGED <<link, evs, tomb, ctx, todo, reader, started>>

\* The first HasCancellation, and the move of a new record to preparing.
Check(r) ==
  /\ pc[r] = "check"
  /\ \/ tomb[r] /\ Goto(r, "cancelBefore") /\ UNCHANGED rec
     \/ /\ ~tomb[r]
        /\ rec' = [rec EXCEPT ![r] = IF fresh[r] THEN "preparing" ELSE @]
        /\ Goto(r, "preparing")
  /\ UNCHANGED <<link, evs, tomb, ctx, fresh, todo, reader, started>>

\* Prepare stages the Artifacts.  A success or a permanent failure ends the
\* preparation; the second HasCancellation follows.
Prepare(r) ==
  /\ pc[r] = "preparing"
  /\ rec' = [rec EXCEPT ![r] = IF @ = "preparing" THEN "accepted" ELSE @]
  /\ \/ /\ tomb[r] \/ ctx[r] = "explicit"
        /\ Goto(r, "cancelBefore")
     \/ /\ ~tomb[r] /\ ctx[r] # "explicit"
        /\ Goto(r, "announce") \/ Goto(r, "failing")
  /\ UNCHANGED <<link, evs, tomb, ctx, fresh, todo, reader, started>>

\* A retryable failure, as a canceled context is one: canceled explicitly, or
\* left in preparation for the next delivery.
PrepareRetryable(r) ==
  /\ pc[r] = "preparing"
  /\ Goto(r, IF ctx[r] = "explicit" THEN "cancelBefore" ELSE "error")
  /\ UNCHANGED <<link, rec, evs, tomb, ctx, fresh, todo, reader, started>>

\* FailMaterialization; its tombstone goes before the frames do.
FailPreparation(r) ==
  /\ pc[r] = "failing"
  /\ \/ /\ isTerminalState(rec[r])
        /\ Stage(r, <<accepted(r)>> \o Envelopes(r, evs[r]))
        /\ UNCHANGED <<rec, evs, tomb>>
     \/ /\ ~isTerminalState(rec[r])
        /\ AppendEvent(r, "failed")
        /\ Stage(r, <<accepted(r)>> \o Envelopes(r, Append(evs[r], "failed")))
        /\ tomb' = [tomb EXCEPT ![r] = FALSE]
  /\ Goto(r, "announceFailure")
  /\ UNCHANGED <<link, ctx, fresh, reader, started>>

AnnounceFailure(r) ==
  /\ pc[r] = "announceFailure"
  /\ CanSend(r)
  /\ Stage(r, <<>>)
  /\ Goto(r, "done")
  /\ UNCHANGED <<link, rec, evs, tomb, ctx, fresh, reader, started>>

\* run.accepted; a duplicate is replayed and left alone.
Announced(r) ==
  <<accepted(r)>> \o (IF fresh[r] THEN <<>> ELSE Envelopes(r, evs[r]))

Announce(r) ==
  /\ pc[r] = "announce"
  /\ CanSend(r)
  /\ Goto(r, IF fresh[r] THEN "admit" ELSE "done")
  /\ UNCHANGED <<link, rec, evs, tomb, ctx, fresh, todo, reader, started>>

Canceled(r) == tomb[r] \/ ctx[r] = "explicit"

\* runNew up to Gate.Acquire.
Admit(r) ==
  /\ pc[r] = "admit"
  /\ Goto(r, IF Canceled(r) THEN "cancelAfter" ELSE "waiting")
  /\ UNCHANGED <<link, rec, evs, tomb, ctx, fresh, todo, reader, started>>

\* The gate lets the worker pass (AgentExecutionGate); third look at the
\* tombstone.
Acquire(r) ==
  /\ pc[r] = "waiting"
  /\ Goto(r, IF Canceled(r) THEN "cancelAfter" ELSE "starting")
  /\ UNCHANGED <<link, rec, evs, tomb, ctx, fresh, todo, reader, started>>

\* Gate.Acquire fails: handleQueueExit.
QueueExit(r) ==
  /\ pc[r] = "waiting"
  /\ ctx[r] # "live"
  /\ Goto(r, IF ctx[r] = "explicit" THEN "cancelAfter" ELSE "done")
  /\ UNCHANGED <<link, rec, evs, tomb, ctx, fresh, todo, reader, started>>

-----------------------------------------------------------------------------
(***************************************************************************)
(* Cancellation before the Runtime starts.                                 *)
(***************************************************************************)
\* Mutant of CanceledEvents: a settled record gets another event.
CanceledEventsAlways(r) == Append(evs[r], "canceled")

\* The events after CancelQueued: a settled record keeps its own.
CanceledEvents(r) ==
  IF isCancellationTerminalState(rec[r]) THEN evs[r]
  ELSE Append(evs[r], "canceled")

CancelQueued(r) ==
  /\ evs' = [evs EXCEPT ![r] = CanceledEvents(r)]
  /\ rec' = [rec EXCEPT ![r] =
       IF isCancellationTerminalState(@) THEN @ ELSE "canceled"]

\* cancelBeforeAdmission, cancelDuringPreparation, cancelTombstonedRecord.
CancelBeforeAdmission(r) ==
  /\ pc[r] = "cancelBefore"
  /\ CancelQueued(r)
  /\ Stage(r, <<accepted(r)>> \o Envelopes(r, CanceledEvents(r)))
  /\ Goto(r, "report")
  /\ UNCHANGED <<link, tomb, ctx, fresh, reader, started>>

CancelAfterAcceptance(r) ==
  /\ pc[r] = "cancelAfter"
  /\ CancelQueued(r)
  /\ Stage(r, Envelopes(r, CanceledEvents(r)))
  /\ Goto(r, "report")
  /\ UNCHANGED <<link, tomb, ctx, fresh, reader, started>>

\* The report outlives the Run's context, not the socket.
Report(r) ==
  /\ pc[r] = "report"
  /\ link = "up"
  /\ Stage(r, <<>>)
  /\ Goto(r, "clear")
  /\ UNCHANGED <<link, rec, evs, tomb, ctx, fresh, reader, started>>

\* ClearCancellation, once the terminal status is written.
ClearCancellation(r) ==
  /\ pc[r] = "clear"
  /\ tomb' = [tomb EXCEPT ![r] = FALSE]
  /\ Goto(r, IF reader = r THEN "idle" ELSE "done")
  /\ reader' = IF reader = r THEN NoRun ELSE reader
  /\ UNCHANGED <<link, rec, evs, ctx, fresh, todo, started>>

-----------------------------------------------------------------------------
(***************************************************************************)
(* The Runtime (RuntimeExecutor.executeAdapter and the adapters).          *)
(***************************************************************************)
Start(r) ==
  /\ pc[r] = "starting"
  /\ started' = [started EXCEPT ![r] = @ + 1]
  /\ Goto(r, "running")
  /\ UNCHANGED <<link, rec, evs, tomb, ctx, fresh, todo, reader>>

\* What an adapter emits: working first, then output, then how it ended; a
\* canceled context makes it say so, a passed deadline fails it.
RuntimeEmits(r, k) ==
  \/ rec[r] = "accepted" /\ k \in {"working", "failed"}
  \/ rec[r] = "working" /\ k = "output" /\ Len(evs[r]) < MaxEvents - 1
  \/ rec[r] = "working" /\ k \in {"completed", "failed", "input_required"}
  \/ rec[r] = "working" /\ k = "canceled" /\ ctx[r] # "live"

\* Mutant of Emit: the event goes to the network, not to the inbox.
EmitVolatile(r, k) ==
  /\ pc[r] = "running"
  /\ RuntimeEmits(r, k)
  /\ rec' = [rec EXCEPT ![r] = IF k = "output" THEN @ ELSE k]
  /\ Stage(r, <<Frame(r, Len(evs[r]) + 2, k)>>)
  /\ Goto(r, "emitting")
  /\ UNCHANGED <<link, evs, tomb, ctx, fresh, reader, started>>

\* The emit callback: durable first.
Emit(r, k) ==
  /\ pc[r] = "running"
  /\ RuntimeEmits(r, k)
  /\ AppendEvent(r, k)
  /\ Stage(r, <<Frame(r, Len(evs[r]) + 2, k)>>)
  /\ Goto(r, "emitting")
  /\ UNCHANGED <<link, tomb, ctx, fresh, reader, started>>

\* ... then the network: a terminal event outlives the canceled context.  A
\* settled Run drops its tombstone, a Run waiting for input keeps it.
EmitSend(r) ==
  /\ pc[r] = "emitting"
  /\ CanSend(r) \/ (link = "up" /\ isTerminalState(rec[r]))
  /\ Stage(r, <<>>)
  /\ Goto(r, IF isCancellationTerminalState(rec[r]) THEN "clear"
             ELSE IF rec[r] = "input_required" THEN "done" ELSE "running")
  /\ UNCHANGED <<link, rec, evs, tomb, ctx, fresh, reader, started>>

\* The write fails: a durable terminal event stands; otherwise the adapter
\* gives up and the outcome is unknown.
EmitFails(r) ==
  /\ pc[r] = "emitting"
  /\ ~CanSend(r) /\ ~(link = "up" /\ isTerminalState(rec[r]))
  /\ Goto(r, IF isTerminalState(rec[r]) THEN "error" ELSE "unknown")
  /\ Stage(r, <<>>)
  /\ UNCHANGED <<link, rec, evs, tomb, ctx, fresh, reader, started>>

\* The adapter itself fails without a terminal event.
RuntimeError(r) ==
  /\ pc[r] = "running"
  /\ Goto(r, "unknown")
  /\ UNCHANGED <<link, rec, evs, tomb, ctx, fresh, todo, reader, started>>

emitUnknown(r) ==
  /\ pc[r] = "unknown"
  /\ AppendEvent(r, "outcome_unknown")
  /\ Stage(r, <<Frame(r, Len(evs[r]) + 2, "outcome_unknown")>>)
  /\ Goto(r, "lastWord")
  /\ UNCHANGED <<link, tomb, ctx, fresh, reader, started>>

LastWord(r) ==
  /\ pc[r] = "lastWord"
  /\ CanSend(r)
  /\ Stage(r, <<>>)
  /\ Goto(r, "clear")
  /\ UNCHANGED <<link, rec, evs, tomb, ctx, fresh, reader, started>>

\* A write fails and takes the handler with it.
SendFails(r) ==
  /\ \/ pc[r] \in {"announce", "announceFailure", "lastWord"} /\ ~CanSend(r)
     \/ pc[r] = "report" /\ link = "down"
  /\ Goto(r, "error")
  /\ Stage(r, <<>>)
  /\ UNCHANGED <<link, rec, evs, tomb, ctx, fresh, reader, started>>

\* HandleRun has returned; the Run leaves the active map.
Done(r) ==
  /\ pc[r] = "done"
  /\ Goto(r, "idle")
  /\ ctx' = [ctx EXCEPT ![r] = "live"]
  /\ fresh' = [fresh EXCEPT ![r] = FALSE]
  /\ UNCHANGED <<link, rec, evs, tomb, todo, reader, started>>

-----------------------------------------------------------------------------
(***************************************************************************)
(* The connection.                                                         *)
(***************************************************************************)
\* cancelConnection: every worker's context is canceled with the connection's,
\* unless it was canceled before.
LostContexts ==
  [r \in Runs |-> IF isActive(r) /\ r # reader /\ ctx[r] = "live"
                  THEN "lost" ELSE ctx[r]]

\* reportReadError: an error of one handler ends the connection of all.
Fail(r) ==
  /\ pc[r] = "error"
  /\ Goto(r, "idle")
  /\ reader' = IF reader = r THEN NoRun ELSE reader
  /\ link' = "down"
  /\ ctx' = [LostContexts EXCEPT ![r] = "live"]
  /\ fresh' = [fresh EXCEPT ![r] = FALSE]
  /\ UNCHANGED <<rec, evs, tomb, todo, started>>

Disconnect ==
  /\ link = "up"
  /\ link' = "down"
  /\ ctx' = LostContexts
  /\ UNCHANGED <<rec, evs, tomb, pc, fresh, todo, reader, started>>

BridgeCrash ==
  /\ link' = "down"
  /\ pc' = [r \in Runs |-> "idle"]
  /\ ctx' = [r \in Runs |-> "live"]
  /\ todo' = [r \in Runs |-> <<>>]
  /\ fresh' = [r \in Runs |-> FALSE]
  /\ reader' = NoRun
  /\ UNCHANGED <<rec, evs, tomb, started>>

\* RuntimeExecutor.recover, before the dial: a tombstone cancels its record,
\* unfinished execution becomes outcome_unknown, a record in preparation waits
\* for its next delivery.
RecoveredEvents(r) ==
  IF rec[r] = "none" THEN <<>>
  ELSE IF tomb[r] THEN CanceledEvents(r)
  ELSE IF rec[r] \in {"accepted", "working"}
       THEN Append(evs[r], "outcome_unknown") ELSE evs[r]

Recovered(r) ==
  IF rec[r] = "none" \/ isCancellationTerminalState(rec[r]) THEN rec[r]
  ELSE IF tomb[r] THEN "canceled"
  ELSE IF rec[r] \in {"accepted", "working"} THEN "outcome_unknown" ELSE rec[r]

\* The frames that recover leaves to be written after hello.
Replayed(r) ==
  IF rec[r] = "none" \/ (rec[r] = "preparing" /\ ~tomb[r]) THEN <<>>
  ELSE <<accepted(r)>> \o Envelopes(r, RecoveredEvents(r))

\* Mutant of Connect: an unfinished record is left as it is.
ConnectSkipsRecovery ==
  /\ link = "down"
  /\ reader = NoRun
  /\ \A r \in Runs : ~isActive(r)
  /\ link' = "up"
  /\ UNCHANGED <<rec, evs, tomb, pc, ctx, fresh, todo, reader, started>>

\* connectOnce: every worker of the old connection has been waited for.
Connect ==
  /\ link = "down"
  /\ reader = NoRun
  /\ \A r \in Runs : ~isActive(r)
  /\ link' = "up"
  /\ rec' = [r \in Runs |-> Recovered(r)]
  /\ evs' = [r \in Runs |-> RecoveredEvents(r)]
  /\ tomb' = [r \in Runs |-> tomb[r] /\ rec[r] = "none"]
  /\ UNCHANGED <<pc, ctx, fresh, todo, reader, started>>

\* The steps of a worker or of the reader that write nothing to the network.
LocalStep(r) ==
  \/ Accept(r)
  \/ Check(r)
  \/ Prepare(r)
  \/ FailPreparation(r)
  \/ Admit(r)
  \/ Acquire(r)
  \/ QueueExit(r)
  \/ CancelBeforeAdmission(r)
  \/ CancelAfterAcceptance(r)
  \/ ClearCancellation(r)
  \/ Start(r)
  \/ \E k \in EventKinds : Emit(r, k)
  \/ EmitFails(r)
  \/ RuntimeError(r)
  \/ emitUnknown(r)
  \/ SendFails(r)
  \/ Done(r)

\* The steps that write frames.
SendStep(r) ==
  AnnounceFailure(r) \/ Announce(r) \/ Report(r) \/ EmitSend(r) \/ LastWord(r)

BridgeNext ==
  \/ \E r \in Runs :
       \/ LocalStep(r)
       \/ SendStep(r)
       \/ PrepareRetryable(r)
       \/ Fail(r)
       \/ RunRequested(r)
       \/ RunCancelRequested(r)
  \/ Disconnect
  \/ BridgeCrash
  \/ Connect

BridgeSpec == BridgeInit /\ [][BridgeNext]_bridgeVars

-----------------------------------------------------------------------------
\* Types, and the record's state against its stored events: an unstarted
\* record has none, a settled one ends with the event that settled it
\* (validateRecoveryRecord, the checks of ReplayCanceledRun).
BridgeTypeOK ==
  /\ link \in {"up", "down"}
  /\ rec \in [Runs -> RecordStates]
  /\ evs \in [Runs -> Seq(EventKinds)]
  /\ tomb \in [Runs -> BOOLEAN]
  /\ pc \in [Runs -> Places]
  /\ ctx \in [Runs -> {"live", "explicit", "lost"}]
  /\ fresh \in [Runs -> BOOLEAN]
  /\ reader \in Runs \cup {NoRun}
  /\ started \in [Runs -> Nat]
  /\ \A r \in Runs :
       IF rec[r] \in {"none", "preparing", "accepted"} THEN evs[r] = <<>>
       ELSE evs[r] # <<>> /\
            (isTerminalState(rec[r]) => evs[r][Len(evs[r])] = rec[r])

\* However often a Run is delivered, whenever the connection or the process is
\* lost and whatever is canceled in between, its Runtime is started at most
\* once ("ACK loss and reconnect never execute a Run twice").
AtMostOnceStart == \A r \in Runs : started[r] <= 1

\* While the Bridge is connected, a record without a worker is never left
\* accepted or working: a lost worker's Run is settled before the Bridge is
\* back, so Central cannot show it working for ever (recover, handleQueueExit).
NothingLeftUnfinished ==
  link = "up" =>
    \A r \in Runs : ~isActive(r) => rec[r] \notin {"accepted", "working"}

\* Stored events are never rewritten, and a settled record, replayed to
\* Central, never gets another event (AppendEvent, Replay).
InboxIsAppendOnly ==
  [][\A r \in Runs :
       /\ Len(evs[r]) <= Len(evs'[r])
       /\ \A i \in 1..Len(evs[r]) : evs'[r][i] = evs[r][i]
       /\ isCancellationTerminalState(rec[r]) =>
            rec'[r] = rec[r] /\ evs'[r] = evs[r]]_bridgeVars

\* What docs/modules/bridge.md says of recovery: a Runtime that was working
\* and whose end was not recorded is reported outcome_unknown.  The code
\* reports it canceled when a cancellation tombstone is staged.
UnfinishedBecomesUnknown ==
  [][\A r \in Runs :
       /\ link = "down" /\ link' = "up"
       /\ rec[r] = "working"
       => rec'[r] = "outcome_unknown"]_bridgeVars
=============================================================================
