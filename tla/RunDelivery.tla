----------------------------- MODULE RunDelivery -----------------------------
(***************************************************************************)
(* Managed Run delivery end to end: Central and one Bridge joined by       *)
(* WebSocket connections with increasing epochs                            *)
(* (bridge/bridge-connection-registry.ts, http/bridge-socket-routes.ts,    *)
(* bridge/internal/connection/client.go).  A connection is FIFO both ways  *)
(* and may break at any time, losing what is in flight; Central may learn  *)
(* of it late, so frames of an old socket are still handled after its      *)
(* successor is registered.  Both processes may crash.                     *)
(***************************************************************************)
EXTENDS CentralRuns, BridgeRuns, SequencesExt

CONSTANTS MaxEpoch,  \* bound on connections; the last one is never lost
          MaxDown,   \* bound on frames in flight from Central to the Bridge
          MaxUp,     \* bound on frames in flight before the Bridge writes more
          Revocable  \* does a member ever revoke the Device?

ASSUME DeliveryAssumption ==
  /\ IsFiniteSet(Runs)
  /\ MaxEpoch \in Nat \ {0} /\ MaxDown \in Nat /\ MaxUp \in Nat
  /\ Revocable \in BOOLEAN

VARIABLES epoch,    \* the Bridge's persisted connection epoch; 0 before any
          conn,     \* the epoch the registry holds for the Device; 0 if none
          up,       \* up[e]: frames of connection e that Central has not read
          down,     \* frames of the current connection the Bridge has not read
          closing,  \* connections that Central has closed
          gone      \* connections whose server-side socket is gone

socketVars == <<epoch, conn, up, down, closing, gone>>

vars == <<centralVars, bridgeVars, socketVars>>

Epochs == 1..MaxEpoch

hello == [run |-> NoRun, seq |-> 0, kind |-> "hello"]

Init ==
  /\ CentralInit
  /\ BridgeInit
  /\ epoch = 0
  /\ conn = 0
  /\ up = [e \in Epochs |-> <<>>]
  /\ down = <<>>
  /\ closing = {}
  /\ gone = {}

\* The connection may still be lost: the last one is assumed to be stable.
MayBreak == epoch < MaxEpoch

\* One frame [kind, run] for every Run of a set, in some order.
FramesFor(kind, S) ==
  LET order == SetToSeq(S) IN
  [i \in 1..Len(order) |-> [kind |-> kind, run |-> order[i]]]

\* BridgeConnectionRegistry.send on the connection c: a socket whose peer has
\* left takes the frames and loses them.
Send(c, frames) ==
  IF c # 0 /\ c = epoch /\ link = "up"
  THEN /\ Len(down) + Len(frames) <= MaxDown
       /\ down' = down \o frames
  ELSE UNCHANGED down

\* The Bridge writes frames; a socket that Central has lost swallows them.
Write(frames) ==
  /\ epoch \in gone \/ Len(up[epoch]) <= MaxUp
  /\ up' = IF epoch \in gone THEN up ELSE [up EXCEPT ![epoch] = @ \o frames]

-----------------------------------------------------------------------------
(***************************************************************************)
(* Central's handlers and what they send.                                  *)
(***************************************************************************)
\* A member's requests and the timers: no frame, or frames to the registered
\* connection.
MemberStep(r) ==
  /\ \/ createRuns(r)
     \/ acknowledgeAmbiguity(r)
     \/ ReconcileClarification(r)
     \/ \E p \in Runs : createRetry(r, p) \/ AnswerClarification(r, p)
  /\ UNCHANGED <<bridgeVars, socketVars>>

Dispatch(r) ==
  /\ dispatch(r)
  /\ Send(conn, FramesFor("run.requested", Requested({r})))
  /\ UNCHANGED <<bridgeVars, epoch, conn, up, closing, gone>>

Cancel(r) ==
  /\ requestCancellation(r)
  /\ Send(conn, FramesFor("run.cancel_requested",
                          IF CancelsDirectly(r) \/ intent[r] = "late" THEN {}
                          ELSE {r}))
  /\ UNCHANGED <<bridgeVars, epoch, conn, up, closing, gone>>

Sweep ==
  /\ sweep
  /\ Send(conn, FramesFor("run.cancel_requested", Cancellable))
  /\ UNCHANGED <<bridgeVars, epoch, conn, up, closing, gone>>

\* The overdue Run that comes first is the oldest; it may be any of them.
ContactSends(c) ==
  \E first \in Runs :
    /\ Dispatchable \cap Overdue # {} => first \in Dispatchable \cap Overdue
    /\ Send(c, FramesFor("run.cancel_requested", Cancellable) \o
               FramesFor("run.requested", RequestedOnContact(first)))

\* bridge.heartbeat on the registered connection.
Heartbeat ==
  /\ conn # 0 /\ conn = epoch /\ link = "up"
  /\ Contact
  /\ ContactSends(conn)
  /\ UNCHANGED <<bridgeVars, epoch, conn, up, closing, gone>>

ListRuns ==
  /\ expireQueued
  /\ UNCHANGED <<bridgeVars, socketVars>>

\* revoke: best-effort cancels, then the socket is closed and forgotten.
Revoke ==
  /\ Revocable
  /\ revoke
  /\ Send(conn, FramesFor("run.cancel_requested",
                          {r \in Runs : Active(r) /\ AcceptedByBridge(r)}))
  /\ conn' = 0
  /\ closing' = closing \cup ({conn} \ {0})
  /\ UNCHANGED <<bridgeVars, epoch, up, gone>>

TimePasses(r) ==
  /\ DeadlinePasses(r) \/ AckDeadlinePasses(r)
  /\ UNCHANGED <<bridgeVars, socketVars>>

-----------------------------------------------------------------------------
(***************************************************************************)
(* Frames from the Bridge.                                                 *)
(***************************************************************************)
Readable(e) == server = "up" /\ e \notin gone /\ up[e] # <<>>

\* bridge.hello: a newer epoch supersedes the registered connection.
Hello(e) ==
  /\ Readable(e)
  /\ Head(up[e]) = hello
  /\ e > conn
  /\ conn' = e
  /\ closing' = closing \cup ({conn} \ {0})
  /\ up' = [up EXCEPT ![e] = Tail(@)]
  /\ Contact
  /\ ContactSends(e)
  /\ UNCHANGED <<bridgeVars, epoch, gone>>

\* bridge.hello of an older epoch: the socket is refused, and every later
\* frame on it with it.
StaleHello(e) ==
  /\ Readable(e)
  /\ Head(up[e]) = hello
  /\ e <= conn
  /\ gone' = gone \cup {e}
  /\ up' = [up EXCEPT ![e] = <<>>]
  /\ closing' = closing \ {e}
  /\ UNCHANGED <<centralVars, bridgeVars, epoch, conn, down>>

\* run.accepted, run.status, run.reply, run.activity, run.output_delta: not
\* checked against the registered epoch.
Receive(e) ==
  /\ Readable(e)
  /\ Head(up[e]) # hello
  /\ HandleFrame(Head(up[e]))
  /\ up' = [up EXCEPT ![e] = Tail(@)]
  /\ UNCHANGED <<bridgeVars, epoch, conn, down, closing, gone>>

\* A handler throws: the frame is dropped and the socket closed with 4008.
Reject(e) ==
  /\ Readable(e)
  /\ Head(up[e]) # hello
  /\ Rejected(Head(up[e]))
  /\ up' = [up EXCEPT ![e] = Tail(@)]
  /\ closing' = closing \cup {e}
  /\ UNCHANGED <<centralVars, bridgeVars, epoch, conn, down, gone>>

\* The socket's close event: what it had not handled is lost.
SocketClosed(e) ==
  /\ server = "up"
  /\ e <= epoch /\ e \notin gone
  /\ e < epoch \/ link = "down" \/ e \in closing
  /\ gone' = gone \cup {e}
  /\ up' = [up EXCEPT ![e] = <<>>]
  /\ conn' = IF conn = e THEN 0 ELSE conn
  /\ closing' = closing \ {e}
  /\ UNCHANGED <<centralVars, bridgeVars, epoch, down>>

CentralDies ==
  /\ conn' = 0
  /\ gone' = 1..epoch
  /\ up' = [e \in Epochs |-> <<>>]
  /\ closing' = {}
  /\ UNCHANGED <<bridgeVars, epoch, down>>

CentralCrash ==
  /\ MayBreak
  /\ \/ Crash
     \/ Revocable /\ CrashInRevoke
     \/ \E e \in Epochs : /\ Readable(e)
                          /\ Head(up[e]) # hello
                          /\ CrashInAccept(Head(up[e]))
  /\ CentralDies

CentralRestart ==
  /\ Restart
  /\ UNCHANGED <<bridgeVars, socketVars>>

-----------------------------------------------------------------------------
(***************************************************************************)
(* The Bridge's steps and what they write.                                 *)
(***************************************************************************)
Worker(r) ==
  /\ LocalStep(r)
  /\ UNCHANGED <<centralVars, socketVars>>

WorkerSends(r) ==
  /\ SendStep(r)
  /\ Write(IF pc[r] = "announce" THEN Announced(r) ELSE todo[r])
  /\ UNCHANGED <<centralVars, epoch, conn, down, closing, gone>>

\* The reader takes the next frame.
Read ==
  /\ down # <<>>
  /\ LET f == Head(down) IN
       \/ f.kind = "run.requested" /\ RunRequested(f.run)
       \/ f.kind = "run.cancel_requested" /\ RunCancelRequested(f.run)
  /\ down' = Tail(down)
  /\ UNCHANGED <<centralVars, epoch, conn, up, closing, gone>>

\* The Bridge leaves the connection; what it had not read is lost.
Leave == down' = <<>> /\ UNCHANGED <<centralVars, epoch, conn, up, closing, gone>>

BridgeFails ==
  /\ \E r \in Runs : Fail(r)
  /\ Leave

PreparationFails ==
  /\ MayBreak \/ \E r \in Runs : ctx[r] # "live"
  /\ \E r \in Runs : PrepareRetryable(r)
  /\ UNCHANGED <<centralVars, socketVars>>

BridgeDisconnects ==
  /\ MayBreak \/ epoch \in closing \cup gone
  /\ Disconnect
  /\ Leave

BridgeDies ==
  /\ MayBreak
  /\ BridgeCrash
  /\ Leave

\* Recovery, the next epoch, the dial, hello, publication, replay.
BridgeConnects ==
  /\ server = "up" /\ ~revoked
  /\ MayBreak
  /\ Connect
  /\ epoch' = epoch + 1
  /\ up' = [up EXCEPT ![epoch + 1] =
       <<hello>> \o FlattenSeq([i \in 1..Len(SetToSeq(Runs)) |->
                                  Replayed(SetToSeq(Runs)[i])])]
  /\ down' = <<>>
  /\ UNCHANGED <<centralVars, conn, closing, gone>>

Next ==
  \/ \E r \in Runs :
       \/ MemberStep(r)
       \/ Dispatch(r)
       \/ Cancel(r)
       \/ TimePasses(r)
       \/ Worker(r)
       \/ WorkerSends(r)
  \/ Sweep
  \/ Heartbeat
  \/ ListRuns
  \/ Revoke
  \/ \E e \in Epochs :
       Hello(e) \/ StaleHello(e) \/ Receive(e) \/ Reject(e) \/ SocketClosed(e)
  \/ CentralCrash
  \/ CentralRestart
  \/ Read
  \/ BridgeFails
  \/ PreparationFails
  \/ BridgeDisconnects
  \/ BridgeDies
  \/ BridgeConnects

Spec == Init /\ [][Next]_vars

\* The scheduler runs every worker and handler that can run; timers fire;
\* heartbeats are sent for ever; a supervisor restarts Central, and the Bridge
\* redials until it finds Central up (strong fairness: Central may crash
\* between two dials).  Nothing makes a connection break, a process crash or a
\* member act.
Fairness ==
  /\ \A r \in Runs :
       /\ WF_vars(Worker(r) \/ WorkerSends(r))
       /\ WF_vars(TimePasses(r))
  /\ \A e \in Epochs :
       WF_vars(Hello(e) \/ StaleHello(e) \/ Receive(e) \/ Reject(e) \/ SocketClosed(e))
  /\ WF_vars(Sweep)
  /\ WF_vars(Heartbeat)
  /\ WF_vars(CentralRestart)
  /\ WF_vars(Read)
  /\ WF_vars(BridgeFails \/ (BridgeDisconnects /\ epoch \in closing \cup gone))
  /\ SF_vars(BridgeConnects)

FairSpec == Spec /\ Fairness

-----------------------------------------------------------------------------
\* What ManagedRun sees of a Run.
Shown(r) ==
  IF state[r] \in terminalStates \cup {"none"} THEN state[r] ELSE "open"

Recorded(r) == IF isTerminalState(rec[r]) THEN rec[r] ELSE "none"

M(r) == INSTANCE ManagedRun WITH
          shown <- Shown(r), begun <- started[r] > 0, result <- Recorded(r)

\* Across lost connections, duplicates, timeouts and crashes of either side,
\* each Run behaves as ManagedRun promises: begun at most once and never after
\* it is shown canceled, and shown only what the Bridge recorded or a verdict
\* Central may give on its own (M!RunSpec for every Run, as steps of several
\* Runs coincide in a sweep, a restart or a recovery).
ImplementsManagedRun ==
  /\ \A r \in Runs : M(r)!RunInit
  /\ [][\A r \in Runs : [M(r)!RunNext]_(M(r)!runVars)]_vars

\* Every event that Central took from the Bridge is the event the Bridge's
\* inbox holds at that sequence, whichever connection brought it: replay,
\* stale sockets and Central's own events never fork the two histories.  The
\* one exception is the cancellation of a Run the Bridge never had.
Agreement ==
  \A r \in Runs : \A i \in 1..Len(log[r]) :
    log[r][i].by = "bridge" =>
      IF i > 1 THEN i - 1 <= Len(evs[r]) /\ log[r][i].kind = evs[r][i - 1]
      ELSE IF log[r][i].kind = "delivered" THEN rec[r] # "none"
      ELSE rec[r] = "none"

\* The modelled connections are used up.
OutOfConnections == epoch = MaxEpoch /\ link = "down"

\* Every Run is settled in the end, or waits for a person's answer: whatever
\* is lost, some retry, replay or deadline finishes it
\* (dispatchQueuedForDevice, resendForDevice, recover, sweep).  Left out is a
\* retry for a revoked Device, which is queued until its Room is listed.
EveryRunSettles ==
  \A r \in Runs :
    (Active(r) /\ state[r] # "input_required") ~>
      (\/ ~Active(r)
       \/ state[r] = "input_required"
       \/ OutOfConnections
       \/ revoked /\ retryOf[r] # r)

\* What docs/modules/run-orchestration.md says: a Runtime that may have
\* executed without a trustworthy outcome becomes outcome_unknown.  Without
\* any revocation, the code expires a Run that is running: the acceptance is
\* on its way when the deadline of the queued Run passes.
UntrustedOutcomeIsUnknown ==
  [][\A r \in Runs :
       /\ ~revoked'
       /\ rec[r] = "working"
       /\ Active(r) /\ state'[r] \in terminalStates
       => state'[r] = "outcome_unknown"]_vars

\* What docs/modules/run-orchestration.md says: a stale event is acknowledged
\* and alters nothing.  The code rejects the frame and closes the socket when
\* the acknowledgement of a cancellation arrives after Central has given up
\* on it.
StaleEventsAreAcknowledged ==
  \A e \in Epochs :
    (~revoked /\ Readable(e) /\ Head(up[e]) # hello) => ~Rejected(Head(up[e]))

\* What docs/modules/run-orchestration.md says: a queued Run that reaches its
\* deadline is never delivered on a later reconnect.  The code writes
\* run.requested for the second of two overdue Runs, in the very step that
\* expires it.
ExpiredIsNotDelivered ==
  [][\A i \in Len(down) + 1 .. Len(down') :
       down'[i].kind = "run.requested" => state'[down'[i].run] # "expired"]_vars
=============================================================================
