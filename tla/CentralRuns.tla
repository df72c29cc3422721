----------------------------- MODULE CentralRuns -----------------------------
(***************************************************************************)
(* Central's half of managed Run delivery: the durable Run, Delivery and   *)
(* cancellation-intent rows (apps/server/src/run/run-repository.ts,        *)
(* delivery-service.ts, cancellation-service.ts,                           *)
(* bridge-run-event-service.ts, registry/device-revocation-service.ts and  *)
(* task/task-clarification-service.ts).  Every handler of the server is    *)
(* synchronous JavaScript, so a handler is one step, except where a crash  *)
(* may fall between two of its transactions.  Every Run targets an Agent   *)
(* of one managed Device and lives in one Room.                            *)
(*                                                                         *)
(* Here the Device may send any frame at any time: what is shown of this   *)
(* module holds whatever the Bridge does.  RunDelivery composes it with    *)
(* the real Bridge.                                                        *)
(***************************************************************************)
EXTENDS RunIds, Naturals, Sequences

CONSTANT Seqs   \* event sequence numbers a frame may carry

ASSUME CentralAssumption == Seqs \subseteq Nat \ {0}

VARIABLES server,    \* "up" or "down": is the server process running?
          state,     \* runs.state; "none" before the row exists
          log,       \* run_events in order; its length is runs.last_sequence
          delivery,  \* run_deliveries.state; "none" when there is no row
          intent,    \* run_cancellation_intents; "late": pending, past its
                     \* acknowledgement deadline
          past,      \* has runs.deadline_at passed?
          acked,     \* is the Run's ambiguity acknowledged?
          retryOf,   \* runs.retry_of_run_id; the Run itself when it is no retry
          revoked    \* is the Device revoked?

centralVars ==
  <<server, state, log, delivery, intent, past, acked, retryOf, revoked>>

terminalStates ==
  {"completed", "failed", "canceled", "expired", "outcome_unknown"}

States ==
  {"none", "queued", "delivered", "working", "input_required"} \cup terminalStates

\* bridgeStatuses; run.output_delta, run.activity and run.reply are "output":
\* they advance the sequence and leave the state alone.
bridgeKinds ==
  {"working", "input_required", "completed", "failed", "canceled",
   "outcome_unknown", "output"}

Kinds == bridgeKinds \cup {"delivered", "expired"}

\* A frame of the Bridge: run.accepted is the kind "delivered", sequence 1.
Frames == [run : Runs, seq : Seqs, kind : bridgeKinds \cup {"delivered"}]

Entries == [kind : Kinds, by : {"bridge", "central"}]

pending == {"pending", "late"}   \* run_cancellation_intents.state = 'pending'

CentralInit ==
  /\ server = "up"
  /\ state = [r \in Runs |-> "none"]
  /\ log = [r \in Runs |-> <<>>]
  /\ delivery = [r \in Runs |-> "none"]
  /\ intent = [r \in Runs |-> "none"]
  /\ past = [r \in Runs |-> FALSE]
  /\ acked = [r \in Runs |-> FALSE]
  /\ retryOf = [r \in Runs |-> r]
  /\ revoked = FALSE

Active(r) == state[r] \notin terminalStates \cup {"none"}

-----------------------------------------------------------------------------
(***************************************************************************)
(* applyRuntimeEvent, for every Run of a set at once.  A Run that is       *)
(* already terminal ignores the event; the caller has checked the          *)
(* sequence.  A terminal event resolves a pending cancellation intent.     *)
(***************************************************************************)
\* Mutant of StatusAfter: output is taken for a status.
StatusAfterAny(r, kind) == kind

StatusAfter(r, kind) == IF kind = "output" THEN state[r] ELSE kind

\* Mutant: a terminal Run takes later events.
applyRuntimeEventAnytime(S, kind, by) ==
  LET hit == {r \in S : state[r] # "none"} IN
  /\ state' = [r \in Runs |->
       IF r \in hit THEN StatusAfter(r, kind[r]) ELSE state[r]]
  /\ log' = [r \in Runs |->
       IF r \in hit THEN Append(log[r], [kind |-> kind[r], by |-> by])
       ELSE log[r]]
  /\ intent' = [r \in Runs |->
       IF r \in hit /\ kind[r] \in terminalStates /\ intent[r] \in pending
       THEN "resolved" ELSE intent[r]]

\* Mutant: the intent of a Run that ends is not resolved.
applyRuntimeEventKeepsIntent(S, kind, by) ==
  LET hit == {r \in S : Active(r)} IN
  /\ state' = [r \in Runs |->
       IF r \in hit THEN StatusAfter(r, kind[r]) ELSE state[r]]
  /\ log' = [r \in Runs |->
       IF r \in hit THEN Append(log[r], [kind |-> kind[r], by |-> by])
       ELSE log[r]]
  /\ UNCHANGED intent

applyRuntimeEvent(S, kind, by) ==
  LET hit == {r \in S : Active(r)} IN
  /\ state' = [r \in Runs |->
       IF r \in hit THEN StatusAfter(r, kind[r]) ELSE state[r]]
  /\ log' = [r \in Runs |->
       IF r \in hit THEN Append(log[r], [kind |-> kind[r], by |-> by])
       ELSE log[r]]
  /\ intent' = [r \in Runs |->
       IF r \in hit /\ kind[r] \in terminalStates /\ intent[r] \in pending
       THEN "resolved" ELSE intent[r]]

\* The server ends every Run of S with its own event of this kind.
Settle(S, kind) == applyRuntimeEvent(S, [r \in Runs |-> kind], "central")

-----------------------------------------------------------------------------
(***************************************************************************)
(* Creation, retry and clarification.                                      *)
(***************************************************************************)
insertRunIdentity(r) == [state EXCEPT ![r] = "queued"]

\* A revoked Device's Agents are disabled and cannot be mentioned.
createRuns(r) ==
  /\ server = "up"
  /\ ~revoked
  /\ state[r] = "none"
  /\ state' = insertRunIdentity(r)
  /\ UNCHANGED <<server, log, delivery, intent, past, acked, retryOf, revoked>>

acknowledgeAmbiguity(r) ==
  /\ server = "up"
  /\ state[r] = "outcome_unknown"
  /\ ~acked[r]
  /\ acked' = [acked EXCEPT ![r] = TRUE]
  /\ UNCHANGED <<server, state, log, delivery, intent, past, retryOf, revoked>>

\* Mutant: an ambiguous outcome may be retried without acknowledgement.
createRetryUnacknowledged(r, p) ==
  /\ server = "up"
  /\ state[r] = "none"
  /\ state[p] \in terminalStates \ {"completed"}
  /\ state' = insertRunIdentity(r)
  /\ retryOf' = [retryOf EXCEPT ![r] = p]
  /\ UNCHANGED <<server, log, delivery, intent, past, acked, revoked>>

\* RunService.retry does not look at the Agent: a Run of a revoked Device may
\* be retried.
createRetry(r, p) ==
  /\ server = "up"
  /\ state[r] = "none"
  /\ state[p] \in terminalStates \ {"completed"}
  /\ state[p] = "outcome_unknown" => acked[p]
  /\ state' = insertRunIdentity(r)
  /\ retryOf' = [retryOf EXCEPT ![r] = p]
  /\ UNCHANGED <<server, log, delivery, intent, past, acked, revoked>>

\* TaskClarificationService.answer: the waiting Run p ends as outcome_unknown
\* and a continuation Run r is created, in one transaction.
AnswerClarification(r, p) ==
  /\ server = "up"
  /\ ~revoked
  /\ state[r] = "none"
  /\ state[p] = "input_required"
  /\ ~past[p]
  /\ state' = [insertRunIdentity(r) EXCEPT ![p] = "outcome_unknown"]
  /\ log' = [log EXCEPT
       ![p] = Append(@, [kind |-> "outcome_unknown", by |-> "central"])]
  /\ intent' = [intent EXCEPT ![p] = IF @ \in pending THEN "resolved" ELSE @]
  /\ UNCHANGED <<server, delivery, past, acked, retryOf, revoked>>

\* TaskClarificationService.reconcile: a question nobody can answer any more
\* closes its Run; one past its deadline expires it.
ReconcileClarification(p) ==
  /\ server = "up"
  /\ state[p] = "input_required"
  /\ \/ Settle({p}, "outcome_unknown")
     \/ past[p] /\ Settle({p}, "expired")
  /\ UNCHANGED <<server, delivery, past, acked, retryOf, revoked>>

-----------------------------------------------------------------------------
(***************************************************************************)
(* Delivery.                                                               *)
(***************************************************************************)
Overdue == {r \in Runs : state[r] = "queued" /\ past[r]}

expireQueued ==
  /\ server = "up"
  /\ Settle(Overdue, "expired")
  /\ UNCHANGED <<server, delivery, past, acked, retryOf, revoked>>

\* Mutant of Dispatchable: a Delivery row is taken for a delivery.
DispatchableOnce ==
  {r \in Runs : state[r] = "queued" /\ intent[r] \notin pending /\ delivery[r] = "none"}

\* The queued Runs that a pending intent does not hold back.
Dispatchable == {r \in Runs : state[r] = "queued" /\ intent[r] \notin pending}

\* dispatch of one Run, right after its creation.
dispatch(r) ==
  /\ server = "up"
  /\ r \in Dispatchable
  /\ \/ /\ past[r]
        /\ Settle(Overdue, "expired")
        /\ UNCHANGED delivery
     \/ /\ ~past[r]
        /\ delivery' = [delivery EXCEPT ![r] = IF @ = "none" THEN "pending" ELSE @]
        /\ UNCHANGED <<state, log, intent>>
  /\ UNCHANGED <<server, past, acked, retryOf, revoked>>

\* The Runs for which a dispatch of all of S writes run.requested.
Requested(S) == {r \in S : ~past[r] /\ delivery[r] # "accepted"}

\* dispatchQueuedForDevice reads its list once.  The first overdue Run expires
\* the others, which dispatch then no longer finds queued: one that has a
\* Delivery is written all the same.
RequestedOnContact(first) ==
  Requested(Dispatchable) \cup
  {r \in Dispatchable \ {first} : past[r] /\ delivery[r] = "pending"}

Late == {r \in Runs : intent[r] = "late"}

\* The cancellation intents that a resend or sweep writes again.
Cancellable == {r \in Runs : intent[r] = "pending" /\ Active(r)}

\* hello, publish or heartbeat: resendForDevice expires overdue intents and
\* resends the others, then dispatchQueuedForDevice dispatches the queued
\* Runs; the first of them past its deadline expires all of its Room.
Contact ==
  LET dead == Late \cup (IF Dispatchable \cap Overdue # {} THEN Overdue ELSE {})
  IN
  /\ server = "up"
  /\ applyRuntimeEvent(dead,
       [r \in Runs |-> IF r \in Late THEN "outcome_unknown" ELSE "expired"],
       "central")
  /\ delivery' = [r \in Runs |->
       IF r \in Requested(Dispatchable) /\ delivery[r] = "none" THEN "pending"
       ELSE delivery[r]]
  /\ UNCHANGED <<server, past, acked, retryOf, revoked>>

\* Mutant of sweep: only a queued Run is given up.
sweepQueuedOnly ==
  /\ server = "up"
  /\ Settle({r \in Late : state[r] = "queued"}, "outcome_unknown")
  /\ UNCHANGED <<server, delivery, past, acked, retryOf, revoked>>

\* CancellationService.sweep, each second.  The branch of
\* expireCancellationIntents for a Run that is terminal already is dead code:
\* see IntentMatchesRun.
sweep ==
  /\ server = "up"
  /\ Settle(Late, "outcome_unknown")
  /\ UNCHANGED <<server, delivery, past, acked, retryOf, revoked>>

-----------------------------------------------------------------------------
(***************************************************************************)
(* Cancellation and revocation.                                            *)
(***************************************************************************)
\* A Run whose cancellation needs no word from the Bridge.
CancelsDirectly(r) ==
  \/ state[r] = "input_required"
  \/ state[r] = "queued" /\ delivery[r] = "none" /\ intent[r] = "none"

\* Mutant: every queued Run is canceled on the spot.
requestCancellationOptimistic(r) ==
  /\ server = "up"
  /\ Active(r)
  /\ \/ /\ state[r] \in {"input_required", "queued"}
        /\ Settle({r}, "canceled")
     \/ /\ state[r] \notin {"input_required", "queued"}
        /\ intent' = [intent EXCEPT ![r] = IF @ = "none" THEN "pending" ELSE @]
        /\ UNCHANGED <<state, log>>
  /\ UNCHANGED <<server, delivery, past, acked, retryOf, revoked>>

\* A delivered or working Run without a Delivery row throws; it has none only
\* for other transports.
requestCancellation(r) ==
  /\ server = "up"
  /\ Active(r)
  /\ \/ /\ CancelsDirectly(r)
        /\ Settle({r}, "canceled")
     \/ /\ ~CancelsDirectly(r)
        /\ intent[r] = "none" => delivery[r] # "none"
        /\ intent' = [intent EXCEPT ![r] = IF @ = "none" THEN "pending" ELSE @]
        /\ UNCHANGED <<state, log>>
  /\ UNCHANGED <<server, delivery, past, acked, retryOf, revoked>>

\* listDeviceRevocationRuns: accepted_by_bridge.
AcceptedByBridge(r) == delivery[r] = "accepted" \/ state[r] # "queued"

reconcile ==
  applyRuntimeEvent(Runs,
    [r \in Runs |-> IF AcceptedByBridge(r) THEN "outcome_unknown" ELSE "failed"],
    "central")

\* DeviceRevocationService.revoke.
revoke ==
  /\ server = "up"
  /\ revoked' = TRUE
  /\ reconcile
  /\ UNCHANGED <<server, delivery, past, acked, retryOf>>

-----------------------------------------------------------------------------
(***************************************************************************)
(* Frames of the Bridge.                                                   *)
(***************************************************************************)
\* The canceled status of sequence 1 that a Bridge without the Run sends.
preAdmissionCancellationAck(f) ==
  /\ f.kind = "canceled"
  /\ f.seq = 1
  /\ \/ state[f.run] = "queued" /\ intent[f.run] \in pending
     \/ /\ state[f.run] = "canceled"
        /\ intent[f.run] = "resolved"

\* applyRuntimeEvent ignores a frame the Run is past, ...
Ignored(f) ==
  f.seq <= Len(log[f.run]) \/ state[f.run] \in terminalStates

\* Mutant: a gap in the sequence is accepted.
RejectedNoGapCheck(f) ==
  \/ state[f.run] = "none"
  \/ f.kind = "delivered" /\ (f.seq # 1 \/ delivery[f.run] = "none")
  \/ /\ f.kind # "delivered"
     /\ f.seq < 2
     /\ ~preAdmissionCancellationAck(f)

\* ... throws on a gap; and the services reject what they cannot attribute.
\* An accept must carry sequence 1, an event a later one.
Rejected(f) ==
  \/ state[f.run] = "none"
  \/ f.kind = "delivered" /\ (f.seq # 1 \/ delivery[f.run] = "none")
  \/ /\ f.kind # "delivered"
     /\ f.seq < 2
     /\ ~preAdmissionCancellationAck(f)
  \/ ~Ignored(f) /\ f.seq # Len(log[f.run]) + 1

\* UPDATE run_deliveries ... WHERE state = 'pending'.
Deliver(f) ==
  delivery' = IF f.kind = "delivered"
              THEN [delivery EXCEPT ![f.run] = "accepted"] ELSE delivery

\* accept, applyStatus, applyReply, applyActivity and applyOutput.
HandleFrame(f) ==
  /\ server = "up"
  /\ ~Rejected(f)
  /\ Deliver(f)
  /\ applyRuntimeEvent(IF Ignored(f) THEN {} ELSE {f.run},
                       [r \in Runs |-> f.kind], "bridge")
  /\ UNCHANGED <<server, past, acked, retryOf, revoked>>

-----------------------------------------------------------------------------
(***************************************************************************)
(* Time, crash and restart.                                                *)
(***************************************************************************)
\* Once a Run is settled nothing looks at its deadline.
DeadlinePasses(r) ==
  /\ Active(r)
  /\ ~past[r]
  /\ past' = [past EXCEPT ![r] = TRUE]
  /\ UNCHANGED <<server, state, log, delivery, intent, acked, retryOf, revoked>>

AckDeadlinePasses(r) ==
  /\ intent[r] = "pending"
  /\ intent' = [intent EXCEPT ![r] = "late"]
  /\ UNCHANGED <<server, state, log, delivery, past, acked, retryOf, revoked>>

Crash ==
  /\ server = "up"
  /\ server' = "down"
  /\ UNCHANGED <<state, log, delivery, intent, past, acked, retryOf, revoked>>

\* accept is an UPDATE of the Delivery and then a transaction of its own: the
\* process may die in between.
CrashInAccept(f) ==
  /\ server = "up"
  /\ f.kind = "delivered"
  /\ ~Rejected(f)
  /\ Deliver(f)
  /\ server' = "down"
  /\ UNCHANGED <<state, log, intent, past, acked, retryOf, revoked>>

\* The Device is disabled durably before its Runs are reconciled.
CrashInRevoke ==
  /\ server = "up"
  /\ ~revoked
  /\ revoked' = TRUE
  /\ server' = "down"
  /\ UNCHANGED <<state, log, delivery, intent, past, acked, retryOf>>

\* Start-up: deviceRevocation.recover, then cancellations.recover.
Restart ==
  /\ server = "down"
  /\ server' = "up"
  /\ \/ revoked /\ reconcile
     \/ ~revoked /\ Settle(Late, "outcome_unknown")
  /\ UNCHANGED <<delivery, past, acked, retryOf, revoked>>

CentralNext ==
  \/ \E r \in Runs :
       \/ createRuns(r)
       \/ acknowledgeAmbiguity(r)
       \/ ReconcileClarification(r)
       \/ dispatch(r)
       \/ requestCancellation(r)
       \/ DeadlinePasses(r)
       \/ AckDeadlinePasses(r)
       \/ \E p \in Runs : createRetry(r, p) \/ AnswerClarification(r, p)
  \/ \E f \in Frames : HandleFrame(f) \/ CrashInAccept(f)
  \/ expireQueued
  \/ Contact
  \/ sweep
  \/ revoke
  \/ CrashInRevoke
  \/ Crash
  \/ Restart

CentralSpec == CentralInit /\ [][CentralNext]_centralVars

\* Timers fire, and a supervisor restarts the server.
CentralFairness ==
  /\ WF_centralVars(sweep)
  /\ WF_centralVars(Restart)
  /\ \A r \in Runs : WF_centralVars(AckDeadlinePasses(r))

FairCentralSpec == CentralSpec /\ CentralFairness

-----------------------------------------------------------------------------
\* The rows have the shapes the schema gives them, and a Run without a row has
\* nothing else: no event, no Delivery, no intent.
CentralTypeOK ==
  /\ server \in {"up", "down"}
  /\ state \in [Runs -> States]
  /\ log \in [Runs -> Seq(Entries)]
  /\ delivery \in [Runs -> {"none", "pending", "accepted"}]
  /\ intent \in [Runs -> {"none", "pending", "late", "resolved"}]
  /\ past \in [Runs -> BOOLEAN]
  /\ acked \in [Runs -> BOOLEAN]
  /\ retryOf \in [Runs -> Runs]
  /\ revoked \in BOOLEAN
  /\ \A r \in Runs : state[r] = "none" =>
       log[r] = <<>> /\ delivery[r] = "none" /\ intent[r] = "none"

\* A cancellation intent is pending exactly as long as its Run can still end:
\* no terminal Run keeps a live command, no active Run a resolved one; and the
\* Device the command goes to was frozen by a Delivery
\* (requestCancellation, resolveCancellationIntent).
IntentMatchesRun ==
  \A r \in Runs :
    /\ intent[r] \in pending => Active(r) /\ delivery[r] # "none"
    /\ intent[r] = "resolved" => state[r] \in terminalStates

\* The first terminal event is the last event of a Run, and the Run is in a
\* terminal state exactly when there is one: replays, late results, timeouts
\* and revocation cannot add to a settled Run (applyRuntimeEvent).
TerminalEventIsLast ==
  \A r \in Runs :
    /\ \A i \in 1..Len(log[r]) :
         log[r][i].kind \in terminalStates => i = Len(log[r])
    /\ state[r] \in terminalStates <=>
         log[r] # <<>> /\ log[r][Len(log[r])].kind \in terminalStates

\* Whatever the Device sends, and however it is reordered or lost, a Run has
\* no second event unless the first one is its acceptance, and an accepted
\* Run has an accepted Delivery, so it is never dispatched again
\* (DeliveryService.accept, the sequence checks).
AcceptedBeforeProgress ==
  \A r \in Runs :
    /\ Len(log[r]) > 1 => log[r][1].kind = "delivered"
    /\ (log[r] # <<>> /\ log[r][1].kind = "delivered") => delivery[r] = "accepted"

\* The events of a Run read in order: an acceptance before any progress, nothing
\* after the first terminal event (applyRuntimeEvent, DeliveryService.accept).
EventsInOrder == AcceptedBeforeProgress /\ TerminalEventIsLast

\* A retry stems from an unsuccessful settled Run, an ambiguous one only once
\* a person has acknowledged it; both stay so (createRetry,
\* acknowledgeAmbiguity).
RetryIsJustified ==
  \A r \in Runs :
    LET p == retryOf[r] IN
    p # r => /\ state[p] \in terminalStates \ {"completed"}
             /\ state[p] = "outcome_unknown" => acked[p]

\* run_events is append-only, and a settled Run never changes again
\* (applyRuntimeEvent).
HistoryIsKept ==
  [][\A r \in Runs :
       /\ Len(log[r]) <= Len(log'[r])
       /\ \A i \in 1..Len(log[r]) : log'[r][i] = log[r][i]
       /\ state[r] \in terminalStates =>
            state'[r] = state[r] /\ log'[r] = log[r]]_centralVars

\* Every cancellation command is settled in the end, even if the Bridge never
\* answers and the server crashes again and again: the acknowledgement
\* deadline settles it (sweep, recover).
IntentsResolve ==
  \A r \in Runs : intent[r] \in pending ~> intent[r] = "resolved"
=============================================================================
