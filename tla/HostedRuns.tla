------------------------------ MODULE HostedRuns ------------------------------
(***************************************************************************)
(* Runs of Hosted Agents: the server itself sends one request to a model   *)
(* provider and streams the answer (run/hosted-run-scheduler.ts,           *)
(* hosted-invocation-repository.ts, runtime/in-process-run-executor.ts).   *)
(* An invocation row is the fence that keeps a request from being sent     *)
(* twice; the scheduler bounds how many Runs are active, one per Agent.    *)
(*                                                                         *)
(* JavaScript runs between awaits without interruption, so a step is what  *)
(* happens between two awaits; a crash may fall between two transactions   *)
(* of one step.  Runs are numbered in the order of runs.created_at.        *)
(***************************************************************************)
EXTENDS Naturals, FiniteSets

CONSTANTS N,           \* number of Runs
          Agents,      \* Hosted Agents
          AgentOf,     \* runs.target_agent_id
          MaxActive,   \* maximumConcurrency
          MaxCrashes   \* bound on crashes of the server

Runs == 1..N

ASSUME HostedAssumption ==
  /\ N \in Nat
  /\ AgentOf \in [Runs -> Agents]
  /\ MaxActive \in Nat \ {0}
  /\ MaxCrashes \in Nat

VARIABLES server,    \* "up", "stopping" (~accepting) or "down"
          run,       \* runs.state; "none" before the row exists
          inv,       \* hosted_invocation_intents.state; "none" without a row
          asked,     \* is cancellation_requested_at set?
          past,      \* has runs.deadline_at passed?
          phase,     \* where executeOne of the Run is; "idle": not in active
          aborted,   \* is the signal of its AbortController set?
          note,      \* its terminalNotification
          drain,     \* is a drain queued as a microtask?
          enabled,   \* agents.enabled
          busy,      \* Agents whose agents.presence is busy
          sent,      \* history: requests that went to the provider
          told,      \* history: onTerminal calls that succeeded
          missed,    \* history: Agents enabled since the last drain
          crashes    \* history: crashes so far

vars == <<server, run, inv, asked, past, phase, aborted, note, drain, enabled,
          busy, sent, told, missed, crashes>>

terminalStates ==
  {"completed", "failed", "canceled", "expired", "outcome_unknown"}
invocationTerminalStates ==
  {"completed", "failed", "canceled", "outcome_unknown"}
openInvocations == {"prepared", "dispatching", "streaming"}

Phases == {"idle", "started", "fetch", "stream", "settle", "notify", "renotify"}

Init ==
  /\ server = "up"
  /\ run = [r \in Runs |-> "none"]
  /\ inv = [r \in Runs |-> "none"]
  /\ asked = [r \in Runs |-> FALSE]
  /\ past = [r \in Runs |-> FALSE]
  /\ phase = [r \in Runs |-> "idle"]
  /\ aborted = [r \in Runs |-> FALSE]
  /\ note = [r \in Runs |-> "none"]
  /\ drain = FALSE
  /\ enabled = [a \in Agents |-> TRUE]
  /\ busy = {}
  /\ sent = [r \in Runs |-> 0]
  /\ told = [r \in Runs |-> 0]
  /\ missed = {}
  /\ crashes = 0

Open(r) == run[r] \notin terminalStates \cup {"none"}
active == {r \in Runs : phase[r] # "idle"}
activeAgents == {AgentOf[r] : r \in active}

-----------------------------------------------------------------------------
(* Invocation rows. *)

\* Mutant: the invocation takes whatever state the Run is in.
InvocationStateCopied(i, state) == state

\* invocationState, with the canceled exception of settleFromRun.
InvocationState(i, state) ==
  CASE state = "completed" -> "completed"
    [] state = "outcome_unknown" -> "outcome_unknown"
    [] state = "canceled" -> IF i = "prepared" THEN "canceled" ELSE "outcome_unknown"
    [] OTHER -> "failed"

\* The row's CHECK: a canceled invocation has a cancellation request, an
\* unknown one was dispatched.  An UPDATE that breaks it throws.
SettleThrows(i, state, a) ==
  \/ i = "prepared" /\ state = "canceled" /\ ~a
  \/ i = "prepared" /\ state = "outcome_unknown"

\* settleFromRun on a row i whose Run is in this state.
SettleFromRun(i, state) ==
  IF i \in openInvocations THEN InvocationState(i, state) ELSE i

\* Every path on which the Run ends in the scheduler sets the presence to ready
\* or degraded.
projectPresence(r) == busy' = busy \ {AgentOf[r]}

ListRunnable ==
  {r \in Runs : /\ run[r] = "queued"
                /\ enabled[AgentOf[r]]
                /\ inv[r] \in {"none", "prepared"}
                /\ ~asked[r]}

-----------------------------------------------------------------------------
(* Creation and the drain. *)

\* dispatchRun of a new Run, or of a retry, which does not look at the Agent.
enqueue(r) ==
  /\ server \in {"up", "stopping"}
  /\ run[r] = "none"
  /\ \A q \in 1..(r - 1) : run[q] # "none"
  /\ run' = [run EXCEPT ![r] = "queued"]
  /\ drain' = (drain \/ server = "up")
  /\ UNCHANGED <<server, inv, asked, past, phase, aborted, note, enabled,
                 busy, sent, told, missed, crashes>>

\* Mutant of Chosen: the limit is tested before the loop only.
ChosenUnlimited(S) ==
  {r \in S : /\ AgentOf[r] \notin activeAgents
             /\ \A q \in S : AgentOf[q] = AgentOf[r] => r <= q
             /\ Cardinality(active) < MaxActive}

\* Mutant of Chosen: an Agent that is active already is not passed over.
ChosenAnyAgent(S) ==
  {r \in S : Cardinality(active) + Cardinality({q \in S : q < r}) < MaxActive}

\* The Runs of S that one pass of drain starts, oldest first.
Chosen(S) ==
  LET first == {r \in S : /\ AgentOf[r] \notin activeAgents
                          /\ \A q \in S : AgentOf[q] = AgentOf[r] => r <= q}
  IN {r \in first :
        Cardinality(active) + Cardinality({q \in first : q < r}) < MaxActive}

Drain ==
  /\ drain
  /\ server \in {"up", "stopping"}
  /\ drain' = FALSE
  /\ missed' = {}
  /\ phase' = [r \in Runs |->
       IF server = "up" /\ r \in Chosen(ListRunnable \ active)
       THEN "started" ELSE phase[r]]
  /\ UNCHANGED <<server, run, inv, asked, past, aborted, note, enabled,
                 busy, sent, told, crashes>>

-----------------------------------------------------------------------------
(* notifyTerminal and the end of executeOne. *)

\* executeOne waits for the notification, which it starts if nobody did.
AwaitNotification(r) ==
  /\ phase' = [phase EXCEPT ![r] = "notify"]
  /\ note' = [note EXCEPT ![r] = IF @ = "none" THEN "running" ELSE @]

\* The finally clause of start.
Finally(r) ==
  /\ phase' = [phase EXCEPT ![r] = "idle"]
  /\ aborted' = [aborted EXCEPT ![r] = FALSE]
  /\ note' = [note EXCEPT ![r] = "none"]
  /\ drain' = TRUE

Notified(r) ==
  /\ server # "down"
  /\ note[r] = "running"
  /\ told' = [told EXCEPT ![r] = @ + 1]
  /\ \/ phase[r] \in {"notify", "renotify"} /\ Finally(r)
     \/ /\ phase[r] \notin {"notify", "renotify"}
        /\ note' = [note EXCEPT ![r] = IF phase[r] = "idle" THEN "none" ELSE "done"]
        /\ UNCHANGED <<phase, aborted, drain>>
  /\ UNCHANGED <<server, run, inv, asked, past, enabled, busy, sent, missed,
                 crashes>>

\* A notification that was joined after it had succeeded.
NotifiedBefore(r) ==
  /\ server # "down"
  /\ phase[r] \in {"notify", "renotify"}
  /\ note[r] = "done"
  /\ Finally(r)
  /\ UNCHANGED <<server, run, inv, asked, past, enabled, busy, sent, told,
                 missed, crashes>>

\* onTerminal rejects.  The first time, executeOne lands in its catch block
\* (the Run is terminal already) and tries once more.
NotificationFails(r) ==
  /\ server # "down"
  /\ note[r] = "running"
  /\ \/ /\ phase[r] = "notify"
        /\ phase' = [phase EXCEPT ![r] = "renotify"]
        /\ projectPresence(r)
        /\ UNCHANGED <<note, aborted, drain>>
     \/ /\ phase[r] = "renotify"
        /\ Finally(r)
        /\ UNCHANGED busy
     \/ /\ phase[r] \notin {"notify", "renotify"}
        /\ note' = [note EXCEPT ![r] = "none"]
        /\ UNCHANGED <<phase, aborted, drain, busy>>
  /\ UNCHANGED <<server, run, inv, asked, past, enabled, sent, told, missed,
                 crashes>>

-----------------------------------------------------------------------------
(* executeOne up to the request. *)

\* A Run that is past its deadline, out of its Room or badly configured ends
\* before the provider hears of it; its prepared invocation is settled.
failBeforeDispatch(r, state) ==
  /\ run' = [run EXCEPT ![r] = state]
  /\ inv' = [inv EXCEPT ![r] = SettleFromRun(@, state)]

ExecuteFails(r) ==
  /\ server # "down"
  /\ phase[r] = "started"
  /\ run[r] = "queued"
  /\ \E state \in {"expired", "failed"} :
       /\ past[r] <=> state = "expired"
       /\ failBeforeDispatch(r, state)
  /\ projectPresence(r)
  /\ AwaitNotification(r)
  /\ UNCHANGED <<server, asked, past, aborted, drain, enabled, sent, told, missed,
                 crashes>>

\* The Run ended between drain and executeOne: executor.prepare throws (or the
\* Room check does nothing), and the catch block settles what is left.
ExecuteTooLate(r) ==
  /\ server # "down"
  /\ phase[r] = "started"
  /\ run[r] \in terminalStates
  /\ IF SettleThrows(inv[r], run[r], asked[r])
     THEN Finally(r) /\ UNCHANGED <<inv, busy>>
     ELSE /\ projectPresence(r)
          /\ inv' = [inv EXCEPT ![r] = SettleFromRun(@, run[r])]
          /\ AwaitNotification(r)
          /\ UNCHANGED <<aborted, drain>>
  /\ UNCHANGED <<server, run, asked, past, enabled, sent, told, missed, crashes>>

\* markDispatching finds that the deadline has passed since executeOne looked.
ExpiresAtFence(r) ==
  /\ server # "down"
  /\ phase[r] = "started"
  /\ run[r] = "queued"
  /\ ~past[r]
  /\ past' = [past EXCEPT ![r] = TRUE]
  /\ run' = [run EXCEPT ![r] = "expired"]
  /\ inv' = [inv EXCEPT ![r] = "failed"]
  /\ AwaitNotification(r)
  /\ UNCHANGED <<server, asked, aborted, drain, enabled, busy, sent, told,
                 missed, crashes>>

\* Mutant: the fence is committed without the event delivered.
DispatchFenceOnly(r) ==
  /\ server # "down"
  /\ phase[r] = "started"
  /\ run[r] = "queued"
  /\ ~past[r]
  /\ inv[r] \in {"none", "prepared"}
  /\ inv' = [inv EXCEPT ![r] = "dispatching"]
  /\ sent' = [sent EXCEPT ![r] = @ + 1]
  /\ phase' = [phase EXCEPT ![r] = "fetch"]
  /\ busy' = busy \cup {AgentOf[r]}
  /\ UNCHANGED <<server, run, asked, past, aborted, note, drain, enabled, told,
                 missed, crashes>>

\* The fence and the event delivered are one transaction.
markDispatching(r) ==
  /\ run' = [run EXCEPT ![r] = "delivered"]
  /\ inv' = [inv EXCEPT ![r] = "dispatching"]

\* prepare, markDispatching with the event delivered, and the request.
Dispatch(r) ==
  /\ server # "down"
  /\ phase[r] = "started"
  /\ run[r] = "queued"
  /\ ~past[r]
  /\ inv[r] \in {"none", "prepared"}
  /\ markDispatching(r)
  /\ sent' = [sent EXCEPT ![r] = @ + 1]
  /\ phase' = [phase EXCEPT ![r] = "fetch"]
  /\ busy' = busy \cup {AgentOf[r]}
  /\ UNCHANGED <<server, asked, past, aborted, note, drain, enabled, told, missed,
                 crashes>>

-----------------------------------------------------------------------------
(* The stream, and what ends it. *)

markStreaming(r) ==
  inv' = [inv EXCEPT ![r] = IF @ = "dispatching" THEN "streaming" ELSE @]

\* The first event: markStreaming, then the status working.
Working(r) ==
  /\ server # "down"
  /\ phase[r] = "fetch"
  /\ ~aborted[r]
  /\ phase' = [phase EXCEPT ![r] = "stream"]
  /\ markStreaming(r)
  /\ run' = [run EXCEPT ![r] = IF Open(r) THEN "working" ELSE @]
  /\ UNCHANGED <<server, asked, past, aborted, note, drain, enabled, busy, sent,
                 told, missed, crashes>>

\* The statuses with which the adapter, or executePrepared for it, ends a stream.
Endings(r) ==
  {"failed", "outcome_unknown"}
    \cup (IF phase[r] = "stream" THEN {"completed"} ELSE {})
    \cup (IF aborted[r] THEN {"canceled"} ELSE {})

\* Mutant: a request that fails before the first event is sent again.
StreamEndsRetrying(r) ==
  /\ server # "down"
  /\ phase[r] = "fetch"
  /\ sent' = [sent EXCEPT ![r] = @ + 1]
  /\ UNCHANGED <<server, run, inv, asked, past, phase, aborted, note, drain,
                 enabled, busy, told, missed, crashes>>

StreamEnds(r) ==
  /\ server # "down"
  /\ phase[r] \in {"fetch", "stream"}
  /\ \E state \in Endings(r) :
       run' = [run EXCEPT ![r] = IF Open(r) THEN state ELSE @]
  /\ phase' = [phase EXCEPT ![r] = "settle"]
  /\ projectPresence(r)
  /\ UNCHANGED <<server, inv, asked, past, aborted, note, drain, enabled, sent,
                 told, missed, crashes>>

\* executeOne after executePrepared: settleFromRun and the presence.
Settle(r) ==
  /\ server # "down"
  /\ phase[r] = "settle"
  /\ inv' = [inv EXCEPT ![r] = SettleFromRun(@, run[r])]
  /\ projectPresence(r)
  /\ AwaitNotification(r)
  /\ UNCHANGED <<server, run, asked, past, aborted, drain, enabled, sent, told,
                 missed, crashes>>

-----------------------------------------------------------------------------
(* Cancellation, deadline, revocation, shutdown: they settle, then abort. *)

\* finishUnknown, settleFromRun and abort for the Runs of S that are past the
\* fence.
FinishUnknown(S) ==
  /\ run' = [r \in Runs |->
       IF r \in S /\ Open(r) THEN "outcome_unknown" ELSE run[r]]
  /\ inv' = [r \in Runs |->
       IF r \in S /\ Open(r) THEN SettleFromRun(inv[r], "outcome_unknown") ELSE inv[r]]
  /\ aborted' = [r \in Runs |-> aborted[r] \/ r \in S]

\* Mutant of cancel: past the fence it only aborts and waits for the adapter.
cancelByAbort(r) ==
  /\ server # "down"
  /\ Open(r)
  /\ \/ /\ inv[r] \in {"none", "prepared"}
        /\ run' = [run EXCEPT ![r] = "canceled"]
        /\ inv' = [inv EXCEPT ![r] = IF @ = "prepared" THEN "canceled" ELSE @]
        /\ asked' = [asked EXCEPT ![r] = inv[r] = "prepared"]
        /\ UNCHANGED aborted
     \/ /\ inv[r] \in {"dispatching", "streaming"}
        /\ asked' = [asked EXCEPT ![r] = TRUE]
        /\ aborted' = [aborted EXCEPT ![r] = TRUE]
        /\ UNCHANGED <<run, inv>>
  /\ note' = [note EXCEPT ![r] = IF @ = "none" THEN "running" ELSE @]
  /\ UNCHANGED <<server, past, phase, drain, enabled, busy, sent, told, missed,
                 crashes>>

\* Mutant of cancel: the notification is not shared with executeOne.
cancelNotifiesAlone(r) ==
  /\ server # "down"
  /\ Open(r)
  /\ \/ /\ inv[r] \in {"none", "prepared"}
        /\ run' = [run EXCEPT ![r] = "canceled"]
        /\ inv' = [inv EXCEPT ![r] = IF @ = "prepared" THEN "canceled" ELSE @]
        /\ asked' = [asked EXCEPT ![r] = inv[r] = "prepared"]
        /\ UNCHANGED aborted
     \/ /\ inv[r] \in {"dispatching", "streaming"}
        /\ asked' = [asked EXCEPT ![r] = TRUE]
        /\ FinishUnknown({r})
  /\ told' = [told EXCEPT ![r] = @ + 1]
  /\ UNCHANGED <<server, past, phase, note, drain, enabled, busy, sent, missed,
                 crashes>>

\* A Run that has not passed the fence ends as canceled, with its row.
cancelPrepared(r) ==
  /\ run' = [run EXCEPT ![r] = "canceled"]
  /\ inv' = [inv EXCEPT ![r] = IF @ = "prepared" THEN "canceled" ELSE @]
  /\ asked' = [asked EXCEPT ![r] = inv[r] = "prepared"]

requestCancellation(r) == asked' = [asked EXCEPT ![r] = TRUE]

cancel(r) ==
  /\ server # "down"
  /\ Open(r)
  /\ \/ /\ inv[r] \in {"none", "prepared"}
        /\ cancelPrepared(r)
        /\ UNCHANGED aborted
     \/ /\ inv[r] \in {"dispatching", "streaming"}
        /\ requestCancellation(r)
        /\ FinishUnknown({r})
  /\ note' = [note EXCEPT ![r] = IF @ = "none" THEN "running" ELSE @]
  /\ UNCHANGED <<server, past, phase, drain, enabled, busy, sent, told, missed,
                 crashes>>

\* The timer of a dispatched Run: its deadline or the profile's timeout.
deadlineTimer(r) ==
  /\ server # "down"
  /\ phase[r] \in {"fetch", "stream", "settle"}
  /\ ~aborted[r]
  /\ FinishUnknown({r})
  /\ UNCHANGED <<server, asked, past, phase, note, drain, enabled, busy, sent,
                 told, missed, crashes>>

\* A Run between drain and executeOne has no dispatched invocation:
\* revokeAgent and shutdown end it as outcome_unknown and then throw.
FinishUndispatched(r, S) ==
  /\ run' = [q \in Runs |->
       IF q \in S \cup {r} /\ Open(q) THEN "outcome_unknown" ELSE run[q]]
  /\ inv' = [q \in Runs |->
       IF q \in S /\ Open(q) THEN SettleFromRun(inv[q], "outcome_unknown") ELSE inv[q]]
  /\ aborted' = [q \in Runs |-> aborted[q] \/ q \in S]

Undispatched(r) == phase[r] = "started" /\ Open(r)

revokeAgent(a) ==
  /\ server # "down"
  /\ busy' = busy \ {a}
  /\ \E r \in active :
       /\ AgentOf[r] = a
       /\ \/ Undispatched(r) /\ FinishUndispatched(r, {})
          \/ ~Undispatched(r) /\ FinishUnknown({r})
  /\ UNCHANGED <<server, asked, past, phase, note, drain, enabled, sent, told,
                 missed, crashes>>

shutdown ==
  /\ server = "up"
  /\ server' = "stopping"
  /\ \/ /\ \A r \in active : ~Undispatched(r)
        /\ FinishUnknown(active)
     \/ \E r \in active, S \in SUBSET active :
          /\ Undispatched(r)
          /\ \A q \in S : ~Undispatched(q)
          /\ FinishUndispatched(r, S)
  /\ UNCHANGED <<asked, past, phase, note, drain, enabled, busy, sent, told,
                 missed, crashes>>

-----------------------------------------------------------------------------
(* What else reaches a hosted Run. *)

Deadline(r) ==
  /\ run[r] # "none" /\ ~past[r]
  /\ past' = [past EXCEPT ![r] = TRUE]
  /\ UNCHANGED <<server, run, inv, asked, phase, aborted, note, drain, enabled,
                 busy, sent, told, missed, crashes>>

\* expireQueued, which the dispatch of a managed Run of the Room calls.
expireQueued ==
  /\ server # "down"
  /\ \E r \in Runs : run[r] = "queued" /\ past[r]
  /\ run' = [r \in Runs |->
       IF run[r] = "queued" /\ past[r] THEN "expired" ELSE run[r]]
  /\ UNCHANGED <<server, inv, asked, past, phase, aborted, note, drain, enabled,
                 busy, sent, told, missed, crashes>>

\* closeCanceledWaves and expireDueWaves of a Discussion.
DiscussionEnds(r) ==
  /\ server # "down"
  /\ Open(r)
  /\ \E state \in IF run[r] = "queued" THEN {"canceled", "expired"}
                  ELSE {"outcome_unknown"} :
       run' = [run EXCEPT ![r] = state]
  /\ UNCHANGED <<server, inv, asked, past, phase, aborted, note, drain, enabled,
                 busy, sent, told, missed, crashes>>

\* setEnabled and refreshEnabledPresence.  Enabling asks for no drain.
setEnabled(a) ==
  /\ server # "down"
  /\ enabled' = [enabled EXCEPT ![a] = ~@]
  /\ busy' = busy \ {a}
  /\ \/ /\ enabled[a]
        /\ \A r \in Runs : AgentOf[r] = a => ~Open(r)
        /\ UNCHANGED missed
     \/ /\ ~enabled[a]
        /\ missed' = missed \cup {a}
  /\ UNCHANGED <<server, run, inv, asked, past, phase, aborted, note, drain, sent,
                 told, crashes>>

-----------------------------------------------------------------------------
(* Crash, the end of a shutdown, and recovery. *)

Volatile ==
  /\ server' = "down"
  /\ phase' = [r \in Runs |-> "idle"]
  /\ aborted' = [r \in Runs |-> FALSE]
  /\ note' = [r \in Runs |-> "none"]
  /\ drain' = FALSE
  /\ missed' = {}

\* The server dies between awaits, or inside a step after some of its
\* transactions: prepare without the fence, the fence without the request, a
\* Run that ended without its invocation.
Crash ==
  /\ server # "down"
  /\ crashes < MaxCrashes
  /\ crashes' = crashes + 1
  /\ Volatile
  /\ \/ UNCHANGED <<run, inv, asked>>
     \/ \E r \in active :
          /\ phase[r] = "started" /\ run[r] = "queued" /\ ~past[r]
          /\ \/ inv' = [inv EXCEPT ![r] = "prepared"] /\ UNCHANGED run
             \/ /\ inv' = [inv EXCEPT ![r] = "dispatching"]
                /\ run' = [run EXCEPT ![r] = "delivered"]
          /\ UNCHANGED asked
     \/ \E r \in active :
          /\ phase[r] \in {"fetch", "stream"}
          /\ Open(r)
          /\ run' = [run EXCEPT ![r] = "outcome_unknown"]
          /\ \E b \in BOOLEAN : asked' = [asked EXCEPT ![r] = b]
          /\ UNCHANGED inv
     \/ \E r \in active :
          /\ phase[r] = "started" /\ run[r] = "queued" /\ past[r]
          /\ run' = [run EXCEPT ![r] = "expired"]
          /\ UNCHANGED <<inv, asked>>
  /\ UNCHANGED <<past, enabled, busy, sent, told>>

\* shutdown has waited for every active Run.
Stop ==
  /\ server = "stopping"
  /\ active = {}
  /\ Volatile
  /\ UNCHANGED <<run, inv, asked, past, enabled, busy, sent, told, crashes>>

\* recover is one transaction; a row that cannot be settled makes it throw,
\* and the server does not come up.
RecoveryThrows == \E r \in Runs : SettleThrows(inv[r], run[r], asked[r])

\* Mutant: only what had begun to stream is taken for interrupted.
InterruptedStreaming == {r \in Runs : Open(r) /\ inv[r] = "streaming"}

\* The rows past the fence whose Run is open, and Runs that lost their row.
Interrupted ==
  {r \in Runs : /\ Open(r)
                /\ \/ inv[r] \in openInvocations /\ ~(inv[r] = "prepared" /\ run[r] = "queued")
                   \/ inv[r] = "none" /\ run[r] # "queued"}

\* recover's runnableRunIds is not empty.
Waiting ==
  \E r \in Runs : run[r] = "queued" /\ (enabled[AgentOf[r]] \/ inv[r] = "prepared")

\* Mutant of recover: Runs found queued are left for the next enqueue.
recoverWithoutDrain ==
  /\ server = "down"
  /\ ~RecoveryThrows
  /\ server' = "up"
  /\ run' = [r \in Runs |-> IF r \in Interrupted THEN "outcome_unknown" ELSE run[r]]
  /\ inv' = [r \in Runs |->
       IF r \in Interrupted THEN SettleFromRun(inv[r], "outcome_unknown")
       ELSE IF run[r] \in terminalStates THEN SettleFromRun(inv[r], run[r]) ELSE inv[r]]
  /\ drain' = FALSE
  /\ UNCHANGED <<asked, past, phase, aborted, note, enabled, busy, sent, told,
                 missed, crashes>>

recover ==
  /\ server = "down"
  /\ ~RecoveryThrows
  /\ server' = "up"
  /\ run' = [r \in Runs |-> IF r \in Interrupted THEN "outcome_unknown" ELSE run[r]]
  /\ inv' = [r \in Runs |->
       IF r \in Interrupted
       THEN IF inv[r] = "prepared" THEN "failed"
            ELSE SettleFromRun(inv[r], "outcome_unknown")
       ELSE IF run[r] \in terminalStates THEN SettleFromRun(inv[r], run[r])
       ELSE inv[r]]
  /\ drain' = Waiting
  /\ busy' = busy \ {AgentOf[r] : r \in Interrupted \cup
                        {q \in Runs : inv[q] \in openInvocations /\ ~Open(q)}}
  /\ UNCHANGED <<asked, past, phase, aborted, note, enabled, sent, told, missed,
                 crashes>>

RecoverFails ==
  /\ server = "down"
  /\ RecoveryThrows
  /\ UNCHANGED vars

-----------------------------------------------------------------------------
RunStep(r) ==
  \/ ExecuteFails(r) \/ ExecuteTooLate(r) \/ ExpiresAtFence(r) \/ Dispatch(r)
  \/ Working(r) \/ StreamEnds(r) \/ Settle(r)
  \/ Notified(r) \/ NotifiedBefore(r) \/ NotificationFails(r)

Next ==
  \/ \E r \in Runs : \/ enqueue(r) \/ RunStep(r) \/ cancel(r) \/ deadlineTimer(r)
                     \/ Deadline(r) \/ DiscussionEnds(r)
  \/ \E a \in Agents : revokeAgent(a) \/ setEnabled(a)
  \/ Drain \/ expireQueued \/ shutdown
  \/ Crash \/ Stop \/ recover \/ RecoverFails

Spec == Init /\ [][Next]_vars

\* Microtasks run; a provider that keeps silent is cut off by the timer, whose
\* abort ends the stream; a stopped server is started again.
Fairness ==
  /\ WF_vars(Drain) /\ WF_vars(Stop) /\ WF_vars(recover)
  /\ \A r \in Runs :
       /\ WF_vars(ExecuteFails(r) \/ ExecuteTooLate(r) \/ ExpiresAtFence(r) \/ Dispatch(r))
       /\ WF_vars(deadlineTimer(r))
       /\ WF_vars(aborted[r] /\ StreamEnds(r))
       /\ WF_vars(Settle(r))
       /\ WF_vars(Notified(r) \/ NotifiedBefore(r) \/ NotificationFails(r))

FairSpec == Spec /\ Fairness

-----------------------------------------------------------------------------
(***************************************************************************)
(* Properties.                                                             *)
(***************************************************************************)
\* Rows and in-memory entries have the values the columns and the scheduler's
\* map allow.
HostedTypeOK ==
  /\ server \in {"up", "stopping", "down"}
  /\ run \in [Runs -> {"none", "queued", "delivered", "working"} \cup terminalStates]
  /\ inv \in [Runs -> {"none"} \cup openInvocations \cup invocationTerminalStates]
  /\ asked \in [Runs -> BOOLEAN]
  /\ past \in [Runs -> BOOLEAN]
  /\ phase \in [Runs -> Phases]
  /\ aborted \in [Runs -> BOOLEAN]
  /\ note \in [Runs -> {"none", "running", "done"}]
  /\ drain \in BOOLEAN
  /\ enabled \in [Agents -> BOOLEAN]
  /\ busy \in SUBSET Agents
  /\ sent \in [Runs -> Nat]
  /\ told \in [Runs -> Nat]
  /\ missed \in SUBSET Agents
  /\ crashes \in Nat

\* Whatever crashes, at most one request for a Run goes to the provider: the
\* dispatching fence is committed before fetch and never opened again.
AtMostOneRequest == \A r \in Runs : sent[r] <= 1

\* A Run that is shown canceled or expired never reached the provider: past
\* the fence every path ends it as outcome_unknown before it aborts.
CanceledWasNeverSent ==
  \A r \in Runs : run[r] \in {"canceled", "expired"} => sent[r] = 0

\* An invocation is settled only with its Run, and says what the Run says; one
\* that is past the fence has left the queue.
InvocationFollowsRun ==
  \A r \in Runs :
    /\ inv[r] \in invocationTerminalStates => run[r] \in terminalStates
    /\ inv[r] = "completed" => run[r] = "completed"
    /\ inv[r] = "canceled" => run[r] = "canceled"
    /\ inv[r] \in {"dispatching", "streaming"} => run[r] \notin {"none", "queued"}

\* The scheduler's limits: never more active Runs than maximumConcurrency, and
\* one per Agent.
WithinLimits ==
  /\ Cardinality(active) <= MaxActive
  /\ \A q, r \in active : AgentOf[q] = AgentOf[r] => q = r

\* No wake-up is lost: a queued Run that could start is active already or a
\* drain is under way.  The one exception is a Run of an Agent that was
\* enabled while the Run waited.
NoDrainLost ==
  server = "up" /\ ~drain =>
    \A r \in ListRunnable :
      \/ r \in active
      \/ AgentOf[r] \in activeAgents \cup missed
      \/ Cardinality(active) = MaxActive

\* onTerminal succeeds at most once for a Run, although cancellation and
\* executeOne both ask for it and a failed call is repeated.
ToldAtMostOnce == \A r \in Runs : told[r] <= 1

\* A Run that was dispatched ends, with its invocation, unless a row that
\* cannot be settled keeps the server down.
DispatchedRunEnds ==
  \A r \in Runs :
    inv[r] \in {"dispatching", "streaming"} ~>
      (inv[r] \in invocationTerminalStates \/ RecoveryThrows)

\* docs/modules/agent-registry.md: busy means at least one accepted Hosted Run.
\* Violated by a crash between the settlement by a timer and the end of the
\* stream: nothing clears the presence afterwards.
BusyMeansAccepted ==
  \A a \in Agents :
    a \in busy /\ server = "up" =>
      \E r \in Runs : AgentOf[r] = a /\ (Open(r) \/ r \in active)

\* hosted_invocation_intents' CHECK: settling never asks for a row that the
\* table refuses.  Violated when a Discussion ends a queued Run whose
\* invocation a crash left prepared.
RowsCanBeSettled == ~RecoveryThrows
=============================================================================
