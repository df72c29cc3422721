# AgentRoom: verification project

TLA+ models of AgentRoom's coordination logic, the TLC runs that check them and
the TLAPS proofs about them. AgentRoom puts people and Agents in shared Rooms:
a Central server (TypeScript, SQLite, `src/apps/server`) records Teams, Rooms,
Tasks and Runs; a Bridge (Go, `src/bridge`) on a member's Device executes Runs
with local Runtimes and talks to Central over one WebSocket; a Web client
(`src/apps/web`) shows the Rooms.

1. Inventory · 2. Modules · 3. Runs · 4. Proofs · 5. Where documents and code
disagree · 6. What is abstracted and not modelled · 7. Plan

## 1. Inventory

The parts follow `src/docs/modules/README.md`; `PROJECT.json` lists them with
their sources, and the hazards of each at the line where they bite.

| Part | State | Operations | Hard behaviour |
|---|---|---|---|
| RUN ledger (`run/run-repository.ts`) | runs, run_events, run_deliveries, run_cancellation_intents | create, retry, acknowledge, apply event, expire, request cancellation | late, duplicate and reordered events; deadlines against acceptances; two transactions in `accept` |
| Delivery and cancellation services, Device revocation | the registered socket, devices.state | dispatch, resend, sweep each second; revoke, recover | stale list during dispatch; crash between disabling and reconciling |
| Bridge sockets (`http/bridge-socket-routes.ts`, `bridge/`) | Device -> (epoch, socket) | hello, heartbeat, Run frames, close | superseded sockets still deliver frames |
| Bridge inbox and workers (`bridge/internal/delivery`) | one record per Run, tombstones, slot and queue per Agent | accept, append event, stage and clear cancellation, recover | crash between durable write and send; cancellation at every stage; a release racing a canceled waiter |
| Hosted Runs (`run/hosted-*`, `runtime/`) | hosted_invocations, active set, streams | drain, dispatch fence, stream, cancel, recover | timers against streamed results; no second dispatch after a crash; text cut anywhere |
| Hosted configuration (`hosted/`) | credentials, Runtime Profiles, presence, probe slots | test, create, retest, update, enable | a probe's answer against changes made meanwhile |
| Discussions (`discussion/`) | discussions, waves, turns, budget leases, seals, reports | plan, settle and seal a wave, pause, cancel, evaluate, select, recover | crash between any two transactions; budgets; stale approvals |
| Execution plans (`execution/`) | plans, revisions, claims, node projections, intents, cursors | draft, approve, activate, admit, settle, retry, sweep | candidates read before the transaction; several servers; supersession |
| Governed evidence (`execution/materialization`, `workspace/isolated-*`, `remote/`) | isolated leases and operations, receipts, materializations, bindings | capture, verify, integrate, adopt, revoke | replay of lost answers; evidence of two orders; two sessions on one operation |
| Source leases, Artifacts (`workspace/`, `artifact/`) | snapshots, leases, uploads, files | observe, lease, prepare, append, seal, bind | crash between file and row; late requests |
| Tasks (`task/`) | tasks, results, blocks, memory entries, artifact revisions, cursors | update, control, propose, review, follow up, remember, acknowledge | acting on what was last read; fences |
| Room memory (`memory/`, `bridge/internal/runtime`) | lease, checkpoints, Session cursors, receipts | reduce, commit, plan, acknowledge | lease across an await; a Session's stale cursor |
| Workspace of a browser tab (`apps/web/src/App.tsx`) | session, selected Team, Room and Task, loaded lists, credentials shown once | sign in and out, select, link, Back, commands | answers to a former session or place; restoration under way |
| Rooms and Messages (`team-room/`, `apps/web`) | messages, in-memory change cursor, a browser's snapshot and outbox | post, notify, wait, refresh, retry | bounded history; overlapping refreshes; lost responses |
| Replies and handoffs (`run/`) | projections, routing intents, child Runs | project, route, repair | crash between the steps |
| Registry, provisioning (`registry/`) | devices, agents, presence, requests | publish, provision, converge, revoke | lost results, stale sockets |
| Pairing, Web access (`security/`) | pairing sessions, trust epochs, keys, invitations, sessions | claim, decide, complete, rotate, recover | races of decisions, claims and expiry |
| Contracts, storage, site, operations | - | - | none that a state model reaches |

How they interact: a member's Message creates Runs in Central; Central writes
`run.requested` to the Device's socket; the Bridge records the Run, announces
`run.accepted` (event 1), executes it and sends events 2, 3, ...; Central
appends them to `run_events`, where Discussions, Tasks, execution plans and
members read them. A cancellation is a durable intent that Central resends
until the Bridge's terminal event or its acknowledgement deadline resolves it.
Memory and evidence are planned into each delivery and acknowledged by the
Bridge's Session. Every change wakes the Team's change channel, on which
browsers and MCP clients sleep.

What makes each part correct: the gate hands one slot per Agent, first come
first served, and loses none; both ends of a delivery hold the same history, a
Run ends once, is started at most once, and a Run shown canceled is never
executed afterwards; a hosted Run is sent at most once; a Discussion stays within
its budget, is concluded from what was said last, and is never stranded; a plan
governs what was reviewed and its Runs stay within their limits; evidence names
what really happened and never changes; a Task ends justified; what a Run, a
browser or a waiter is given is exact up to its cursor; a Device is trusted as
its owner decided; and whatever should come, comes.

## 2. Modules

```
AgentExecutionGate                        RunIds <- CentralRuns, BridgeRuns
HostedRuns  HostedConfiguration           CentralRuns + BridgeRuns <- RunDelivery
HostedStream  SseParser                   ManagedRun (abstract) <- RunDelivery
WorkCommands                              TeamChanges <- TeamWait, RoomSync
Discussions (abstract) <- DiscussionProgress        RoomComposer  ReplyProjections
ExecutionScheduler  PlanSupersession      RoomContext  TaskContext  TaskWork
GovernedEvidence  RemoteEvidence          IsolatedWorkspace  WorkspaceLeases
ArtifactPublication  AgentRegistry        DevicePairing  WebAccess  WebWorkspace
```

One module models one component: its tables and fields are the variables, each
handler is an action, and the parameters and bounds are CONSTANTS. A handler of
the server is synchronous JavaScript over SQLite, hence one step, unless it
awaits, commits several transactions (then a crash may fall between them) or
runs in several servers on one database (then each transaction is a step).
Beside a definition stand its *mutated forms*, variants with one plausible bug
named for it (`ChangeUnfenced`, `appendTwice`); no specification uses them. They show
that a property says something: with the mutated form in the definition's
place, TLC finds the property violated.

### Runs of managed Agents

**AgentExecutionGate** - `delivery/agent_execution_gate.go`. `active` and
`queues` are the maps of the struct, `ready[w]` whether the worker's channel is
closed, `ctxDone[w]` whether its context is. `Acquire` is the first locked region,
`WakeReady`/`WakeDone` the two arms of the select (both possible when both
channels are ready), `Remove` the locked removal loop, `ReturnSlot` the release
of a slot that was handed to a canceled waiter, `Release` the returned closure.

**CentralRuns** - `run/run-repository.ts`, `delivery-service.ts`,
`cancellation-service.ts`, `bridge-run-event-service.ts`,
`registry/device-revocation-service.ts`, `task/task-clarification-service.ts`.
`state`, `log`, `delivery`, `intent`, `acked`, `retryOf` are columns and rows;
`Len(log[r])` is `last_sequence`. A crash may fall between two transactions
(`CrashInAccept`, `CrashInRevoke`). Time is two flags: `past` (the Run's
deadline) and the intent value `late` (the acknowledgement deadline). On its
own, the module lets the Device send any frame at any time.

**BridgeRuns** - `delivery/inbox.go`, `handler.go`, `runtime_executor.go`,
`connection/client.go`. `rec` and `evs` are the durable record, `tomb` the
tombstone file, `pc` the place of the Run's worker, or of the reader when it
replays a cancellation inline; `ctx` the worker's context and the cause of its
cancellation. A worker yields at every durable write, every network write and
every look at a tombstone or context, which is where the reader can interfere.
On its own, the module lets Central request and cancel anything at any time.

**RunDelivery** - both, joined by sockets with epochs. `up[e]` holds the frames
of connection `e` that Central has not read, `down` those the Bridge has not
read; `conn` is the registry's entry. A connection is FIFO and may break at any
time; Central may notice late, and then handles frames of an old socket
after the new one registered. Both processes crash and restart.

**ManagedRun** - what a member may rely on for one Run: begun at most
once and never after it was shown canceled; shown completed or canceled only on
the Bridge's word (or canceled before it began); otherwise Central gives up as
`expired`, `failed` or `outcome_unknown`. `ImplementsManagedRun` states that
RunDelivery refines it for each Run; it is written as the initial predicate and
`[RunNext]_runVars` for every Run, since one sweep, restart or recovery
moves several Runs in one step. TLC checks it on one Run, and
RunDelivery_proof proves it for any finite set of Runs.

**ReplyProjections** - `run/run-projection-reconciler.ts`, `handoff-service.ts`,
`run-message-projection`, the startup order in `app.ts`. A completed Run's reply,
its Room Message, its projection row and routing intent, the child Runs it
makes; the steps of the loop, of the start, and crashes between them.

### Hosted Runs

**HostedRuns** - `run/hosted-run-scheduler.ts`, `hosted-invocation-repository.ts`,
`runtime/in-process-run-executor.ts`. The Run row, the invocation row (the fence:
`prepared`, `dispatching`, settled), the scheduler's `active` set, aborts and
the stream's end are variables; `Drain`, `Dispatch`, the deadline timer, `cancel`,
revocation of the Agent, `Stop`, crash and `recover` are actions.
`sent` is a history variable: the requests that really went to the provider.

**HostedConfiguration** - `hosted/hosted-agent-configuration-service.ts` and the
repository. A probe of the provider is two steps around an await, with a bounded
number of slots; every writer of the stored presence is an action.

**SseParser, HostedStream** -
`security/redaction.ts`, `runtime/hosted-sse-parser.ts`,
`hosted-openai-responses-adapter.ts`, the executor. The redaction of a text by
one rule of the code's shape is a function; one stage of the streaming redactor
fed with deltas cut anywhere must equal it (`StreamedAsWhole`, in MCHosted), the parser fed
with chunks cut anywhere must equal the parse of the whole stream
(`EventsAsWhole`), and HostedStream puts both behind a provider that may stop,
fail or be aborted anywhere.

### Rooms

**TeamChanges, TeamWait** - `team-room/team-change-service.ts`,
`mcp/team-wait-service.ts`. The channel is a cursor and the last `HistoryLimit`
hints; a waiter reads Messages, compares, sleeps and is woken or times out;
restarts begin a new epoch.

**RoomSync** - `features/room/room-synchronization.ts`, `room-sync.ts`. A browser
follows the same channel: snapshot, listener, fallback timer, refreshes after
actions; each refresh is several reads and a commit, and they overlap.

**RoomComposer** - `useRoomComposer.ts`, `message-outbox.ts` and the server's
`MessageService`/`RunService`. Draft, outbox and tab storage per scope; a submission
is lost, answered late or retried; one Message and one batch of Runs per
`clientMessageId`.

**WebWorkspace** - `App.tsx` with `useWebSession`, `useWorkspaceNavigation` and
`useRoomSynchronization`: one browser tab, who is signed in, which Team, Room and
Task is on screen and what was loaded for them. `tab` is React's state and refs in one
record, `tab.calls` the requests under way, each with what it closed over: the
session's generation (`gen`), the place, whether the setup context was left
since (`here`). A step is one handler or one continuation of a request, with the
render and the effects it causes (`Render`: the effects whose dependencies changed
reset their state and send their requests). Answers come in any order or fail;
a session expires. `asked` is a history variable, the place the member asked for last.

**WorkCommands** - the commands of `apps/web/src/features/work`, with their receipts in
the tab's session storage (`recovery-receipt.ts`, `plan-review-receipt.ts`,
`evidence-command-receipt.ts`): a panel is opened, left and loaded, sends a command
with an operation id and an expected revision, and the answer is lost, late or a
refusal. `page` is the panel's state and refs, `stored` the storage of the tab (which
may be taken away), `calls` the requests under way, `central` the revision and the operations done.
What a panel does with each answer differs, and has an operator each
(`recoveryAnswered`, `reviewAnswered`, `revisionAnswered`, `evidenceAnswered`,
`supersessionAnswered`, `resultAnswered`). An operation that was done is known or still
held, and what is asked again is the very same command. `seen` is a history variable.

**RoomContext** - `memory/`, `context/context-planner.ts`, the Bridge's
`session_scope.go`. Reducers of several servers lease the Room's state row across
an await and commit checkpoints; a delivery carries a checkpoint and the
Messages after it; the Session leaves out what it has and reports a receipt.

### Tasks, Discussions and plans

**TaskWork** - the Task aggregate (`task/`): clients act on what they last read
(`view`), commands carry a revision, Runs count against the attempts, Results are
proposed, reviewed and followed up.

**TaskContext** - memory entries, candidates and artifact revisions of a Task,
the fence of each Run at creation, its plan at delivery, the Session's evidence cursor.

**Discussions** - `discussion/discussion-orchestrator.ts`, repository, recovery
and settlement services. Handlers are functions from database to database,
composed of transactions; `Crash` stops between any two of them, and `recover`
continues. What the evaluator concludes is a choice among what it can conclude.

**DiscussionProgress** - `progress-evaluator.ts`, `discussion-participant-selector.ts`,
the evidence services: the conclusion and the selection computed from replies and
assessments. It instantiates Discussions and shows its results among that
module's choices (`ConclusionsAllowed`, `SelectionsAllowed`). Agents are ordinals,
a reply is its normalized text. A seal may contain replies the evaluation did
not read; selection reads the reports of all completed turns; the evaluator keeps
50 hashes, after which an old reply counts as new.

**ExecutionScheduler** - `execution/execution-scheduler.ts`, readiness policy,
`governed-run-admission-service.ts`, settlement, scheduler commands. Several
servers sweep one database; a sweep lists candidates, evaluates them outside the
admission's transaction, and remembers fairness cursors.

**PlanSupersession** - drafts, approvals, Task claims, drift, candidates,
delegations, activation and the evidence carried to the next revision.

### Evidence, Devices and access

**GovernedEvidence** - isolated leases, frozen inputs, captures, checkpoints,
verification receipts, `verified-output-materializer.ts`,
`integrated-commit-materializer.ts`, and the inputs of dependent Runs.

**RemoteEvidence** - `remote/`: bindings and their revocation, the three observation
commands over the provider's lookup-or-create protocol, retention and adoption,
with two sessions on one operation, crashes, lost posts and timeouts.

**IsolatedWorkspace** - `workspace/isolated-workspace-lease-service.ts`: the journal
of operations with generation and revision, their replays, revocation, release,
runtime authority. **WorkspaceLeases** - the `read_source` lease around the
Bridge's `publisher.go`/`source.go`: observe, compare-and-set the snapshot, lease,
observe again, read and inspect, prepare. **ArtifactPublication** - the upload protocol and the files it
leaves; under a capture lease a rejection rolls back the row but not the file.

**AgentRegistry** - publication, connection epochs, presence, enablement,
revocation, grants and provisioning; frames of one socket are ordered, frames of
different sockets are not. **DevicePairing** - pairing sessions, legacy joins and
invitations, private CA rotation, access grants and tickets. **WebAccess** -
owner setup and recovery, replacement of the recovery key, invitations, member
recovery, Web sessions.

### Composing modules for TLC

An MC module (`MCRuns`, `MCHosted`, `MCRoom`, `MCWork`, `MCDevices`, `MCProgress`)
instantiates several of these with small constants. A behaviour is one part's:
`on` names the part, its variables start in its `Init` and move by its `Next`,
and those of the other parts rest. A run therefore explores exactly the union of
its parts' state graphs, and a property `on = "x" => P` is P of that part. The
parts of one run share no state in the code either, apart from the seams that
section 6 names; the parts that do share state are composed properly, in
RunDelivery (Central, sockets, Bridge), TeamWait and RoomSync (the channel),
DiscussionProgress (Discussions) and HostedStream (redactor).

## 3. Runs

| Run | Parts | What it shows |
|---|---|---|
| `runs` | central, bridge: 2 Runs each, arbitrary frames of the other side; chain, profiles, inputs, targets (GovernedEvidence); adoption, sessions, remote_inputs (RemoteEvidence) | an intent is live exactly as long as its Run; events are in order, append-only; ambiguous Runs are retried only knowingly; a Runtime is started once; nothing is left unfinished; evidence is proven and final |
| `delivery` | RunDelivery: 1 Run, 2 connections, 2 Runtime events, revocation | both ends agree on a Run (`Agreement`) and together implement ManagedRun |
| `settles` | RunDelivery under `FairSpec` | every Run ends |
| `hosted` | runs (2 Runs, no crash), crashes (1 Run, 2 crashes), configuration, stream, tail, redaction, events | one request per Run; canceled means never sent; limits; configurations proven; the text shown is the provider's, redacted |
| `room` | wait, snapshots, messages, composer, places and sessions (WebWorkspace), commands, reviews and evidence (WorkCommands), handoffs, restores, reducers, coverage, governed_reply | no sleep over news; no skipped Message but those a refresh after an action jumps over (`NoMessageSkipped`, section 5), no older snapshot; one Message per submission; what is on screen was read in this session and belongs to the place the member asked for; a command whose answer was lost is known or still held, and asked again exactly; replies accounted for; memory and Sessions cover their cursors |
| `tasks` | memory, artifacts (TaskContext); results, fences, follow_ups (TaskWork); budget, recovery, quorum (Discussions); progress, focus (DiscussionProgress) | exact memory; justified ends; Discussions bounded, moved on, concluded from what was said; decisions final, a quorum's seal excepted (`TerminalIsFinalStep`) |
| `execution` | servers, capacity, modes, commands, messages, rotation (ExecutionScheduler); governance, carry, delegation (PlanSupersession) | admissions bounded although evaluated outside the transaction; modes and pauses obeyed; plans govern what was reviewed. A member's Message and a late projection are excepted by name |
| `devices` | gate, isolated, pairing, uploads, resumed, capture, leases, registry, provision, owner, members | one holder per Agent, in order; generations never return, replays answer alike; pairings as approved, trust without a gap; published as made, an upload that fails its digest under a capture lease excepted; connections and access as granted |
| `devices_progress` | gate, leases, uploads, pairing, provision, hosted, probes, wait | what a Device or a member waits for comes, but for an Agent whose request was refused before it was configured |
| `rooms_progress` | browser, memory, replies, scheduler, evidence | changes, backlog, replies, eligible nodes and complete evidence arrive, but for the cases `NoStarvation`, `RunsHandedOver` and `VerifiedSetMaterializes` name |
| `governed_reply`, `provision_retries` | one part each | a documented claim that the code violates (section 5) |

**Bounds**, and why they are enough. They are CONSTANTS, set beside each INSTANCE
of an MC module or in a cfg, and each is chosen so that the hazard can happen:

* two of each actor that races (two Runs, Bridges, servers, reducers, probes,
  callers, publications): a retry and its parent, two overdue Runs, two sweeps
  of one list. Three workers on one Agent give a holder, a selected and a
  parked waiter at once, the most the release race involves. Three
  participants give a quorum of two and a late third;
* sequences 1 and 2 already give a duplicate, a gap and a successor; two events
  of a Runtime after the acceptance are its working and its end; `MaxEpoch = 2` gives an old and a new
  socket with frames of both in flight. The last connection is taken to be
  stable so that liveness can be asked at all, and a behaviour that uses it up
  with an error is set aside (`OutOfConnections`). `MaxDown` and `MaxUp` bound
  the frames in flight (the writer waits);
* one loss, one crash or two: a second crash in `crashes` hits the recovery from the first;
  the browser meets a failed read or a restart of the server beside a Message and a change;
* a browser tab makes two moves, one command and meets one failure in one session
  (`places`), or passes through three sessions with one move and one command (`sessions`):
  a request of the session before last, a place left while it is being
  restored, a command answered elsewhere. Answers come in any order;
* a panel of the Work page gives two commands (`commands`, `evidence`) or one (`reviews`), is
  opened twice, and one request is lost, refused or answered after its panel was left, while
  another member acts once: a repetition meets its own operation, and another's;
* histories, pages and limits are scaled down (256 -> 2 hints, 100 -> 1 or 2
  Messages a page, 50 -> 1 hash) and the number of Messages, changes or
  waves lies above them, so that the history overflows, a page is short and a hash is
  forgotten. Nine letters in deltas of up to three hold every place where a
  marker, a value and the end of the text may be cut; six bytes hold two events
  with mixed line ends;
* a property that names an exception is checked where the exception occurs: `messages` of
  `room` has more Messages than pages and an action, `quorum` a seal after a
  cancellation, `messages` and `commands` of `execution` a member's Message beside the
  scheduler, `servers` two sweeps of one node, `capture` an upload with a wrong digest,
  `provision` a refusal before an acceptance, `scheduler` two dependent nodes and
  `MaxEvaluations = 2` with Rooms that are archived, `evidence` either of the two
  differences between lists of proofs. Without its exception each of them is violated there;
* in `hosted`, two Runs without a crash and one Run over two crashes replace
  two Runs over two crashes, whose state graph is too large: a crash empties the
  scheduler, and recovery treats the rows one by one. The theorems of HostedRuns
  (section 4) need no such split;
* `Runs.cfg` takes Runs to be symmetric; the modules that are explored with it
  never compare two Runs' identities but for equality, and it checks no liveness.

Parts may use up their bounds, have nothing to do, or wait for a member for ever:
deadlock checking is off, and that something still happens is what the progress
properties say.

**Fairness**, and why the code justifies it.

* gate: a running goroutine proceeds and a Run ends; nobody is made to cancel.
* `settles`: weak fairness of each worker, each socket's reader on Central, the
  Bridge's reader, timers, sweep, heartbeat and restart, and of the Bridge
  leaving a closed connection; strong fairness of connecting, because Central
  may be down at some dials and the Bridge redials for ever.
* leases, uploads: the Bridge's calls go on and the server handles what has
  arrived; pairing: time passes, the client times out; provisioning: the
  Bridge connects again, answers, and frames of a socket are handled.
* hosted: drain, dispatch, timers and recovery run; a stream that was aborted
  ends. A provider is not made to answer; the deadline's timer is what ends
  the Run. probes: an aborted or running probe answers.
* wait: strong fairness of `Resume`, since a notification may be overtaken by
  the next, but a promise that is resolved again and again runs its continuation.
* browser: the listener, the fallback timer and each started refresh proceed.
  memory: a lease expires, a reducer drains and commits or fails. replies: the
  start-up and the loop proceed. scheduler: the sweep proceeds (weak) and a
  dispatched Run begins and ends whenever it can again and again (strong).
  evidence: reconciliation runs.

Nothing makes a crash, a lost connection or a member's action happen.

## 4. Proofs

The proof modules hold for every value of the constants: any number of Agents,
workers, Runs, clients, sessions, operations, crashes and restarts, under the
named ASSUME of the component only (`GateAssumption`, `CentralAssumption`,
`BridgeAssumption`, `DeliveryAssumption`, `IsolatedAssumption`, `PairingAssumption`,
`TeamChangesAssumption`, `TeamWaitAssumption`, `HostedAssumption`), which say of
what type the constants are and that a null value is none of the real ones.
TeamWait's proof adds `NoneAssumption` of TeamWait: the null of this model is no
cursor, change or call. `DeliveryAssumption` takes the Runs to be finitely many,
because a sweep writes one frame for each Run it expires or resends. The model's bounds are such constants too, so a bound does not
limit what is proved.

* **AgentExecutionGate_proof** - types, `MutualExclusion`, SlotHasOwner,
  WaiterIsQueued and `ServedInOrder`. Mutual exclusion is not inductive,
  because a selected waiter becomes a holder a step later. `GateInv` speaks of
  the *owners* of a slot: the holder, the selected waiter, the canceled waiter
  that must give the slot back. At most one owner per Agent, some owner while
  the slot is in use, queues of distinct parked workers of the right Agent, every
  parked worker queued. Served in order is an action property: lemma `ReleaseInOrder`
  says what a release does to the positions in the queue, `OrderStep` goes through the actions.
* **CentralRuns_proof** - types, `EventsInOrder`, `IntentMatchesRun`,
  `RetryIsJustified`, `HistoryIsKept`, for arbitrary frames of the Device. Each
  action does one of three things to each Run - it is born, takes one event, or
  keeps state and events (`Shape`); this is shown action by action, and the
  inductive `CentralInv` follows from the shape alone.
* **BridgeRuns_proof** - types, `AtMostOnceStart`, `NothingLeftUnfinished`, the
  append-only inbox, for arbitrary requests of Central. At-most-once needs to know
  what the record says at each place of the worker (`PlaceOK`: whoever
  is about to start has a record that is accepted and never started) and
  NothingLeftUnfinished which places may hold an unfinished record while the
  connection is up (`ConnectedOK`).
* **RunDelivery_proof** - the composition: `DeliveryAgrees` (what Central holds of a Run
  as the Bridge's word is the Bridge's history, for good) and `DeliveryRefines`
  (RunDelivery implements ManagedRun for each Run), for any finite set of Runs, any
  number of connections, crashes on both sides and frames of superseded sockets.
  `Agreement` is not inductive: it says nothing of what is still to arrive. `DeliveryInv`
  is the conjunction of `CentralInv`, `BridgeInv` (as `InboxInv`, with what a worker
  knows of its own record) and what relates the two sides:
  - every frame the Bridge has sent, to whichever epoch (`UpOK`), or still has to send
    (`TodoOK`) repeats its inbox (`Says`): the frame with number i+1 names event i, the
    frame with number 1 is the acceptance of a record, or the refusal of a Run that
    never gets one. The inbox only grows, so this survives reordering, duplicates and crashes;
  - a frame on its way to the Bridge (`DownOK`) requests a Run that has a delivery row,
    or cancels a Run that Central has doomed, and no request follows a cancellation of
    the same Run: otherwise a Run could begin after its cancellation was read;
  - an end is the last event of a record (`EventsOK`), a record is of a dispatched
    Run (`DispatchedOK`), Central's log repeats the inbox (`LogOK`), and a Run shown
    waiting or canceled waits, is canceled or is fenced off at the Bridge (`ShownOK`,
    `Fenced`: it has no record there, is doomed at Central, and no request for it is
    being accepted or on its way).

  Each side is moved on its own first: Central's rows and the frames it sends
  (`CentralSideInv`), a worker's step, the reader's, a failure of the Bridge and its
  reconnection (`WorkerInv`, `ReadInv`, `BridgeFailureInv`, `BridgeConnectsInv`), and the
  sockets (`SocketInv`); `DeliveryStep` puts them together. The refinement then needs
  `DeliveryInv` in both states: lemma `CentralPromises` for a step that changes what
  is shown, `BridgePromises` for a step that begins, ends or forgets a Run, each
  mapped to a step of ManagedRun or a stutter.
* **HostedRuns_proof** - types, `AtMostOneRequest`, `CanceledWasNeverSent`,
  `WithinLimits`, and that an invocation row never runs ahead of its Run, over any
  number of crashes. `RunOK` relates, for each Run, the Run row, the invocation
  row, the scheduler's entry and the requests sent: nothing was sent while the row is
  still before its fence or for a Run that is queued, canceled or expired, and a row
  past its fence belongs to a Run past its queue. `WithinLimits` needs counting: `Drain` chooses Runs one by one,
  and `ChosenFits` shows that what it chose has at most one Run per Agent and fits into the
  free slots, with the finite-set theorems; all chosen Runs are the youngest of them
  and older ones, and the youngest was counted to fit (`YoungestRun`, by well-foundedness).
* **TeamWait_proof** - `NoSleepOverNews` and `CursorNotAhead`, for any history
  limit, page size, number of clients and restarts. NoSleepOverNews is not inductive:
  a change that comes between two waits is told only by what the next wait
  reads. `WaitInv` therefore says of every cursor, held or in an open call, that
  what it has not seen it will be *told* (`Told`): by a hint the channel still has, or
  by the gap the channel answers when its history no longer reaches back that far.
* **IsolatedWorkspace_proof** - `GenerationsNeverReturn`, `ReplaysAnswerAlike`,
  closed leases are final, runtime authority only for a live Run in the untouched
  Workspace. `IsolatedInv` numbers the journal's revisions without a gap, lets only the last
  entry close the lease, and gives an operation one entry. Each step lets the journal
  grow by one accepted entry (`Grows`), repeats an answer (`Repeats`) or leaves it alone.
* **DevicePairing_proof** - `PairedAsApproved`, `TrustContinuity`, expiry, access.
  An approval may arrive late and twice, so `PairInv` says what the owner of each
  decision was shown and that it is still the session's claim (`RequestsKnown`), and
  that every approved session was approved by such a decision (`ApprovedFor`).

`PROJECT.json` lists the theorems; those with a `property` state a property that
a run also checks on a small instance, under the same name.

Only model-checked, and why:

* liveness (EveryRunSettles, DevicesProgress, RoomsProgress): temporal reasoning
  with fairness and ENABLED is out of this prover's reach;
* `SweepCloses` of Discussions is stated with the effect of a sweep rather than
  ENABLED, which keeps it a state predicate;
* what the parts with folds, CHOOSE over sequences or functions of texts compute
  (HostedStream, SseParser, DiscussionProgress, Discussions,
  RoomContext): that needs induction over data, which the library states with operator
  parameters that the installed provers cannot instantiate;
* the remaining composites of the MC modules. `Agreement` and `ImplementsManagedRun`
  are checked on one Run and two connections by `delivery`, where a broken variant of
  the code is found at once, and proved beyond these bounds.

## 5. Where the documents and the code disagree

Two are checked as runs that TLC must find violated. The others were found and
checked in the same way while modelling; their formulas are kept in the modules
where named. Paths are under `src/`.

Checked by a run:

* `governed_reply` (code bug, `apps/server/src/run/handoff-service.ts:81`): a reply
  that mentions an Agent of a governed Task makes the insert fail with an error
  that is rethrown; its routing is never completed, and each later start of the
  server awaits it and fails. `docs/modules/run-orchestration.md:401` says one
  rejected candidate cannot erase the reply.
* `provision_retries` (code bug, `registry/agent-provisioning-service.ts:226`): a
  delivered request is sent again, so the Bridge may answer one request with
  busy and then accepted; the first answer makes the row final and every
  later publication of the Agent closes the socket. ADR-0020:73 says exact
  retries converge. `ConfiguredRegisters` excepts such a request.

Runs, Central and Bridge:

* `UntrustedOutcomeIsUnknown` (`run-repository.ts:1036`): `expireQueued` ends a queued
  Run as `expired` while its Runtime is working and the acceptance is in
  flight; `docs/modules/run-orchestration.md:85` promises `outcome_unknown`.
* `StaleEventsAreAcknowledged` (`bridge-run-event-service.ts:121`): the late
  acknowledgement of a cancellation is rejected with close code 4008;
  `run-orchestration.md:314` says stale events are acknowledged.
* `ExpiredIsNotDelivered` (`delivery-service.ts:200`): a reconnect with two overdue
  Runs writes `run.requested` for the second after it was expired;
  `run-orchestration.md:141` says never. The Bridge accepts it, and Central ignores
  what it reports.
* `UnfinishedBecomesUnknown` (`bridge/internal/delivery/runtime_executor.go:809`):
  recovery reports a working Run with a tombstone as `canceled`;
  `docs/modules/bridge.md:895` says `outcome_unknown` if it cannot be determined.
* `StaleUpdatesRejected`, `RevokedCannotPublish` (code bugs,
  `bridge-socket-routes.ts:341`, `agent-service.ts:287`): a publication in flight on a
  superseded or revoked socket still takes effect;
  `docs/modules/agent-registry.md:84,161`. `WorkIsBusy` (`agent-service.ts:384`): each
  reconnection shows a working Agent as ready; `agent-registry.md:67`.

Hosted:

* `BusyMeansAccepted` (`hosted-run-scheduler.ts:81`): a timer or cancel settles a Run
  while its Agent is busy; if the server dies before the stream ends, the Agent
  stays busy without a Run (`agent-registry.md:72`).
* `RowsCanBeSettled` (code bug, `discussion-recovery-service.ts:45`): recovery of a
  canceled Discussion cancels a queued Run and leaves its prepared invocation without a
  cancellation request; the CHECK of `0052_hosted_agents.sql:370` then makes
  `recover()` throw.
* `OnlyObservationPromotes` (`hosted-agent-configuration-service.ts:589`): a PATCH of
  `enabled` makes a degraded Agent ready; `presence-service.ts:191` says only an observation does.

Discussions and Tasks:

* A quorum's seal closes a wave of a canceled Discussion and plans the next
  (code bug, `discussion-orchestrator.ts:545`; `discussion-orchestration.md:225`). A
  reply of a Run that ended just before a crash is sealed but not evaluated (`:553`; `:134`).
  `TerminalIsFinalStep` excepts the seal (`Seals`) and nothing else.
* PATCH reopens a completed Task and completes one whose Run is ambiguous
  (`agent-task-service.ts:366`); an older proposal is hidden by a newer rejected one
  (`task-repository.ts:685`); a draft becomes ready without criteria (`agent-task-service.ts:253`):
  ADR-0022:139, 136, 255, 125.
* A replaced Codex thread does not get the references its predecessor had
  (`codex_app_server.go:70`; `runtime-adapters.md:248`). A Run delivered without a
  bundle sets the Session's cursor although it held only recent Messages (`:142`; ADR-0014:122).

Plans and evidence:

* A member's Message to a second Task of an Agent starts a second Run, and starts one beside
  an older Run of the Task (`governed-run-admission-service.ts:134`; exec-008:43,
  exec-005:63). `AgentCapacity`, `PlanConcurrency` and `SettledBeforeNext` hold of every Run
  that the scheduler, an owner or a retry begins, and except the Message's.
* A sweep can regress a settled node's projection (`execution-scheduler.ts:75`;
  exec-004:102): `TerminalStays` excepts it as `ProjectsLate`. 256 blocked candidates
  starve the ones after them (`:69`; exec-008:28), and a candidate in an archived Room ends every
  sweep (code bug, `:96`; exec-008:36): `NoStarvation` excepts both, as `Crowded` and
  `ArchivedReady`. A sweep that throws returns none of the Runs it admitted (`app.ts:883`), and
  they wait for the server's next start: `RunsHandedOver` excepts it as `SweepThrows`. Rotation looks
  at the first candidate of each plan only (`:137`; exec-010:90).
* With two required profiles, the two lists of proofs may be sorted differently and a
  complete set is then never materialized, and no integration of it (code bugs,
  `execution-evidence-adoption-repository.ts:986`, `integrated-commit-materializer.ts:98`).
  `VerifiedSetMaterializes` and `IntegrationMaterializes` name these cases (`conflicts`,
  `PinnedOutOfOrder`) and are checked with both; the safety runs of GovernedEvidence
  in `runs` take the orders to agree (`Orders <- InOrder(...)`), because a plan whose
  orders differ stops early.
* A timed out input attestation that was carried out is marked failed for good
  (`remote-input-attestation-service.ts:189`; repo-005:104). Under a capture lease a failed
  digest check deletes acknowledged bytes but rolls back the row
  (`artifact-publication-service.ts:330` against its comment at 339): `AcknowledgedIsStored`
  excepts it as `FailsItsDigest`.

Rooms:

* A refresh after an action skips Messages when the browser is more than a page
  behind (`room-synchronization.ts:177`; `web-ui.md:718`): `NoMessageSkipped` excepts what was
  `jumped` over. A change that arrives while a
  refresh of its kind runs waits for the fallback (`room-sync.ts:164`; `web-ui.md:311`).
* Archiving a Room shows the Rooms of its Team even if the member has changed to another
  Team since (`apps/web/src/App.tsx:670`): the list is corrected by the next load, but the Task of the
  next link may be lost. `ShownBelongs` names this exception.
* A Room's snapshot that was read before a Task was made takes the selection of the new Task off
  again if it arrives later, also after a failed reconciliation in `createAgentTask`
  (`Lasting` and `LandsWhereAsked` leave these out).
* A repetition of a remote adoption that was done is refused with
  `REMOTE_EVIDENCE_OPERATION_CONFLICT` (`remote-evidence-adoption-service.ts:294`) although it has
  "exact replay identity" (`execution-coordination.md:99`); the panel then takes it as refused.
* A reload of `PlanSupersessionPanel` that was under way when a command was sent may be answered
  after the command was lost and unlocks the panel (`PlanSupersessionPanel.tsx:123`), though "no new
  command is accepted until absence is confirmed" (line 249). `OneUnresolved` leaves out what a
  read of the state gave up.
* A retried submission is refused when its Agent has meanwhile become unavailable, although
  the Message exists (`message-service.ts:132`; `team-room.md:110`).

## 6. What is abstracted and what is not modelled

Texts, ids, digests and paths are names; time is a flag per deadline or a small
clock; SQLite is taken at its word (an immediate transaction is one step);
authority of a caller is left out where a property is not about it. By module:

* **Run delivery**: one Device, one Room; artifact receipts are valid. The gate
  is a nondeterministic wait in BridgeRuns, justified by its own module. Revocation
  sends cancel frames as if every Agent could be interrupted. Resend intervals
  and batch limits are left out: a resend may happen at any contact or sweep.
  Recovery and the dial are one step (`Connect`): in between the Bridge
  has no worker and no socket, so only a crash could tell, after which recovery
  starts again from the same records. Retry's budget and Task-revision checks, the
  governed branches and manual Runs are left out; a Runtime's deadline shows as
  the adapter's `failed`; storage errors of the inbox are not modelled.
* **Hosted**: the provider's bytes are reduced to endings in HostedRuns (HostedStream has
  them); one redaction rule; one Agent in HostedConfiguration, where `Made` stands for an
  Agent an earlier request made. A cancellation after the terminal event leaves a gap
  in the sequence, which the property allows.
* **Discussions**: message anchors, plan proposals, versions, prompts, and the
  `agent_unavailable` branch of reconcile; who is eligible is chosen at each read. The
  single `evaluateProgress` is used by tests only.
* **ExecutionScheduler**: time and Task budgets, manifest and workspace
  reservation; no code sets the state `review`, plans are paused by drift only and never
  unpaused. **PlanSupersession**: new-Task blueprints, snapshots, lifecycle
  commands, local authority grants; one gate per node.
* **Evidence**: Git work, bytes, commits, evidence reuse; the provider is
  environment. `advanceForDevice` and `closeForDevice` of isolated leases, and
  `release` of a source lease, have no callers outside tests.
* **Artifacts**: commit bundles, the byte quota, relations, delivery of bound
  Artifacts, leftover temporary files. Bad bytes are those of a Device that declares a digest they lack.
* **Tasks, memory**: the limit of 16 entries, summary projections, texts, due
  dates. A reduction that outlasts its lease is one of the failures. Where a prompt is
  cut to its byte limit is a nondeterministic choice.
* **Rooms**: how names become mentions; memberships; Rooms and Teams as records.
  In WebWorkspace the dialogs of settings, members and lifecycle but for creating and
  archiving a Room, creating a Task, a preview and a credential; a Room is kept up to date by RoomSync.
  In WorkCommands a command is one of nine kinds with the revision it expects; its text, the member's
  role, confirmations, the revocation of a delegation (which is handled like its issue) and the
  preparation of a candidate are left out, and a plan, a Task and their revisions are one
  counter.
* **Access**: the rate limiter, MCP credentials, the loopback bootstrap; that the owner who
  decides a member-bound pairing session must be its issuer
  (`device-pairing-session-service.ts:731`), which permits more; requests are
  atomic on one server. A pairing session's expiry is written only when it is read.
* **Not modelled at all**: governed admission on the Bridge (process store, runtime
  fence), Runtime adapters beyond the order of their events, contracts, storage
  and migrations, the other panels of the Web client, the public site, operations.

Seams between parts that are modelled apart: a Discussion's turn ends as its Run
ends (`Endings` of Discussions are those of CentralRuns and HostedRuns); a
scheduler's Run likewise; a delivery's plan (RoomContext, TaskContext) is made
at any time after its Run; capture leases of GovernedEvidence are those under
which ArtifactPublication uploads.

## 7. Plan

1. Done: the modules of section 2, their runs, and the theorems of section 4.
2. Next proofs: ReplyProjections (a completed Run's reply is routed once, over any
   number of crashes) and ExecutionScheduler (`AdmissionsBounded`), whose modules
   use no recursion and fit the form of the proofs above.
3. Later: the governed half of the Bridge (process store, fence) and its
   composition with GovernedEvidence; Discussions over CentralRuns rather than over
   chosen endings.
