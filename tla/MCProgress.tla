----------------------------- MODULE MCProgress ------------------------------
(***************************************************************************)
(* What must happen in the end, part by part, under the fairness each part'*)
(* code justifies.  A behaviour is one part's: `on` names it, the others st*)
(* in their initial state and owe nothing.                                 *)
(***************************************************************************)
EXTENDS Naturals, Sequences, FiniteSets, TLC

CONSTANTS
  Explored, \* the parts this run explores
  NoValue

Node(agent, needs) == [agent |-> agent, needs |-> needs]
Order(ops, ids) == [ops |-> ops, ids |-> ids]

VARIABLE on   \* the part this behaviour is of
VARIABLES active, queues, ready, ctxDone, pc   \* the gate of an Agent
VARIABLES local, configured, agent, running, leases, published, call, net,
          losses, acts   \* source leases
VARIABLES row, content, artifacts, tmp, blob, due, pubActive, source, client,
          pubNet, pubLosses, crashes   \* publication of Artifacts
VARIABLES ses, legacy, late, made, revoked, grant, ticket, web, served, req,
          bridge, trust, acks   \* pairing
VARIABLES device, agents, requests, presence, connection, sockets, toServer,
          toBridge, regBridge, work, budget   \* registry and connections
VARIABLES server, run, inv, asked, past, phase, aborted, note, drain, enabled,
          busy, sent, told, missed, hostCrashes   \* Hosted Runs
VARIABLES confAgent, creds, profiles, tests, confWork, authority, confReq,
          slots, waiters, closed, proven, clock   \* probes of a provider
VARIABLES channel, epoch, latest, held, waitCall, unread   \* the wait for changes
VARIABLES syncLatest, part, syncChannel, page, job, listener, floor, jumped,
          spent   \* synchronization of a browser
VARIABLES last, state, cps, memJob, failures, memRun, session, shown   \* the memory of a Room
VARIABLES replyPhase, posted, replyRun, event, intent, message, projection,
          failure, delivery, loop, recovered, able, allow, runnable, now,
          replyCrashes, changes   \* replies and handoffs
VARIABLES plan, archived, intents, adopted, proj, cursor, available, sweep,
          command, receipts, messages, outages, schedCrashes   \* the scheduler
VARIABLES evidPlan, evidRun, check, result, mat, integ, lock, evidRevoked,
          faults   \* evidence of a plan

gateVars == <<active, queues, ready, ctxDone, pc>>
leaseVars == <<local, configured, agent, running, leases, published, call, net, losses,
  acts>>
pubVars == <<row, content, artifacts, tmp, blob, due, pubActive, source, client, pubNet,
  pubLosses, crashes>>
pairVars == <<ses, legacy, late, made, revoked, grant, ticket, web, served, req, bridge,
  trust, acks>>
regVars == <<device, agents, requests, presence, connection, sockets, toServer, toBridge,
  regBridge, work, budget>>
hostVars == <<server, run, inv, asked, past, phase, aborted, note, drain, enabled, busy,
  sent, told, missed, hostCrashes>>
confVars == <<confAgent, creds, profiles, tests, confWork, authority, confReq, slots,
  waiters, closed, proven, clock>>
waitVars == <<channel, epoch, latest, held, waitCall, unread>>
syncVars == <<syncLatest, part, syncChannel, page, job, listener, floor, jumped, spent>>
memVars == <<last, state, cps, memJob, failures, memRun, session, shown>>
replyVars == <<replyPhase, posted, replyRun, event, intent, message, projection, failure,
  delivery, loop, recovered, able, allow, runnable, now, replyCrashes, changes>>
schedVars == <<plan, archived, intents, adopted, proj, cursor, available, sweep, command,
  receipts, messages, outages, schedCrashes>>
evidVars == <<evidPlan, evidRun, check, result, mat, integ, lock, evidRevoked, faults>>


-----------------------------------------------------------------------------
\* The parts and their instances

\* three workers of one Agent
A == INSTANCE AgentExecutionGate WITH
  Agents <- {"a1"}, Workers <- {"w1", "w2", "w3"},
  AgentOf <- [w \in {"w1", "w2", "w3"} |-> "a1"]

\* one Artifact, published again after each loss
L == INSTANCE WorkspaceLeases WITH
  Artifacts <- {"x1"}, Roots <- {"d1", "d2"}, MaxChanges <- 1, MaxCalls <- 4,
  MaxLosses <- 1, MaxActs <- 1

\* one publication over losses and a crash
U == INSTANCE ArtifactPublication WITH
  Publications <- {"p1"}, Capture <- {}, Size <- 2, Bytes <- {"good"},
  MaximumUploads <- 1, Losses <- 1, Crashes <- 1, active <- pubActive,
  net <- pubNet, losses <- pubLosses

\* two Bridges that pair by a session or an invitation
P == INSTANCE DevicePairing WITH
  Sessions <- {"s1"}, Bound <- {}, Joins <- {}, Invites <- {"i1"},
  Bridges <- {"b1", "b2"}, Operations <- {"op1"}, Tickets <- {}, MaxEpoch <- 1

\* an Agent asked for twice
G == INSTANCE AgentRegistry WITH
  Requests <- {"r1"}, Template <- "template",
  Answers <- {"configuration_failed", "refused"}, Statuses <- {},
  MaxEpoch <- 3, MaxSends <- 2, MaxFaults <- 0, MaxActs <- 0,
  bridge <- regBridge

\* one Run over a crash
H == INSTANCE HostedRuns WITH
  N <- 1, Agents <- {"h1"}, AgentOf <- <<"h1">>, MaxActive <- 1,
  MaxCrashes <- 1, crashes <- hostCrashes

\* two requests for one probe slot
C == INSTANCE HostedConfiguration WITH
  Requests <- {"q1", "q2"}, Kinds <- {"create", "retest", "test"},
  Keys <- {"k1"}, Models <- {"m1"}, maximumConcurrency <- 1, MaxRevision <- 2,
  Made <- {}, None <- NoValue, agent <- confAgent, work <- confWork,
  req <- confReq

\* one caller that reads page by page
W == INSTANCE TeamWait WITH
  Rooms <- {"r1", "r2"}, Room <- "r1", Waiters <- {"w1"}, HistoryLimit <- 2,
  PageSize <- 1, MaxMessages <- 2, MaxChanges <- 3, MaxEpochs <- 2,
  None <- NoValue, call <- waitCall

\* a Message, a change, and a failed read or a restart
S == INSTANCE RoomSync WITH
  Room <- "r1", Rooms <- {"r1"}, None <- NoValue, HistoryLimit <- 2,
  Parts <- {"runs"}, PageSize <- 1, MaxPages <- 2, MaxMessages <- 1,
  MaxChanges <- 1, MaxActions <- 0, MaxTimers <- 0, MaxFailures <- 1,
  MaxRestarts <- 1, latest <- syncLatest, channel <- syncChannel

\* two servers reduce one Room
M == INSTANCE RoomContext WITH
  Reducers <- {"w1", "w2"}, Runs <- {}, MaxMessages <- 3, MaxCheckpoints <- 3,
  MaxFailures <- 1, IncrementalLimit <- 2, RebaseLimit <- 3, RawLimit <- 2,
  RecentLimit <- 1, ProjectionLimit <- 1, job <- memJob, run <- memRun

\* one Agent hands off to two others
R == INSTANCE ReplyProjections WITH
  NoAgent <- "nobody", Agents <- {"a1", "a2", "a3"}, Mentioned <- {"a1"},
  Contents <- {{"a2"}, {"a2", "a3"}}, Legacy <- FALSE, Governed <- FALSE,
  MaxDepth <- 1, MaxUnique <- 3, Lifetime <- 1, MaxTime <- 0, MaxReplies <- 1,
  MaxCrashes <- 1, MaxChanges <- 0, phase <- replyPhase, run <- replyRun,
  crashes <- replyCrashes

\* two plans share an Agent, nodes wait for another, the budget of a sweep is two
X == INSTANCE ExecutionScheduler WITH
  Servers <- {"s1"}, Agents <- {"a", "b"},
  Graph <- << <<Node("a", {}), Node("b", {1}), Node("b", {2})>>, <<Node("a", {})>> >>,
  MaxConcurrency <- 2, Endings <- {"completed"}, MaxRunAttempts <- 9,
  MaxEvaluations <- 2, Revisions <- 1, Operations <- {}, Kinds <- {},
  Drifting <- {}, Archivable <- {1, 2}, Attempts <- 1, Messages <- 0,
  Outages <- 0, Crashes <- 1, crashes <- schedCrashes

\* a node with two required checks, in any order, and an integration
E == INSTANCE GovernedEvidence WITH
  Nodes <- {"a"}, Edges <- {<<"a", "integrated_commit", "side">>},
  Profiles <- {1, 2}, Required <- [n \in {"a"} |-> {1, 2}],
  Target <- [n \in {"a"} |-> "main"], MaxGenerations <- 1, MaxUploads <- 1,
  MaxFaults <- 1,
  Orders <- {Order(<<1, 2>>, <<1, 2>>), Order(<<1, 2>>, <<2, 1>>), Order(<<2, 1>>, <<1, 2>>)},
  plan <- evidPlan, run <- evidRun, revoked <- evidRevoked

ASSUME PartsAssumption ==
  /\ L!LeaseAssumption /\ U!PublicationAssumption /\ G!RegistryAssumption
  /\ C!HostedConfigurationAssumption /\ S!RoomSyncAssumption
  /\ M!ContextBounds /\ R!ReplyAssumption /\ X!SchedulerAssumption
  /\ E!GovernedEvidenceBounds

-----------------------------------------------------------------------------
EachInit ==
  /\ on \in Explored
  /\ A!Init
  /\ L!Init
  /\ U!Init
  /\ P!PairingInit
  /\ G!Init
  /\ H!Init
  /\ C!Init
  /\ W!Init
  /\ S!Init
  /\ M!Init
  /\ R!Init
  /\ X!Init
  /\ E!Init

StepGate ==
  on = "gate" /\ A!Next
    /\ UNCHANGED <<on, leaseVars, pubVars, pairVars, regVars, hostVars,
                  confVars, waitVars, syncVars, memVars, replyVars, schedVars,
                  evidVars>>
StepLeases ==
  on = "leases" /\ L!Next
    /\ UNCHANGED <<on, gateVars, pubVars, pairVars, regVars, hostVars,
                  confVars, waitVars, syncVars, memVars, replyVars, schedVars,
                  evidVars>>
StepUploads ==
  on = "uploads" /\ U!Next
    /\ UNCHANGED <<on, gateVars, leaseVars, pairVars, regVars, hostVars,
                  confVars, waitVars, syncVars, memVars, replyVars, schedVars,
                  evidVars>>
StepPairing ==
  on = "pairing" /\ P!PairingNext
    /\ UNCHANGED <<on, gateVars, leaseVars, pubVars, regVars, hostVars,
                  confVars, waitVars, syncVars, memVars, replyVars, schedVars,
                  evidVars>>
StepProvision ==
  on = "provision" /\ G!Next
    /\ UNCHANGED <<on, gateVars, leaseVars, pubVars, pairVars, hostVars,
                  confVars, waitVars, syncVars, memVars, replyVars, schedVars,
                  evidVars>>
StepHosted ==
  on = "hosted" /\ H!Next
    /\ UNCHANGED <<on, gateVars, leaseVars, pubVars, pairVars, regVars,
                  confVars, waitVars, syncVars, memVars, replyVars, schedVars,
                  evidVars>>
StepProbes ==
  on = "probes" /\ C!Next
    /\ UNCHANGED <<on, gateVars, leaseVars, pubVars, pairVars, regVars,
                  hostVars, waitVars, syncVars, memVars, replyVars, schedVars,
                  evidVars>>
StepWait ==
  on = "wait" /\ W!Next
    /\ UNCHANGED <<on, gateVars, leaseVars, pubVars, pairVars, regVars,
                  hostVars, confVars, syncVars, memVars, replyVars, schedVars,
                  evidVars>>
StepBrowser ==
  on = "browser" /\ S!Next /\ spent'.failures + spent'.restarts <= 1
    /\ UNCHANGED <<on, gateVars, leaseVars, pubVars, pairVars, regVars,
                  hostVars, confVars, waitVars, memVars, replyVars, schedVars,
                  evidVars>>
StepMemory ==
  on = "memory" /\ M!Next
    /\ UNCHANGED <<on, gateVars, leaseVars, pubVars, pairVars, regVars,
                  hostVars, confVars, waitVars, syncVars, replyVars,
                  schedVars, evidVars>>
StepReplies ==
  on = "replies" /\ R!Next
    /\ UNCHANGED <<on, gateVars, leaseVars, pubVars, pairVars, regVars,
                  hostVars, confVars, waitVars, syncVars, memVars, schedVars,
                  evidVars>>
StepScheduler ==
  on = "scheduler" /\ X!Next
    /\ UNCHANGED <<on, gateVars, leaseVars, pubVars, pairVars, regVars,
                  hostVars, confVars, waitVars, syncVars, memVars, replyVars,
                  evidVars>>
StepEvidence ==
  on = "evidence" /\ E!Next
    /\ UNCHANGED <<on, gateVars, leaseVars, pubVars, pairVars, regVars,
                  hostVars, confVars, waitVars, syncVars, memVars, replyVars,
                  schedVars>>

EachNext ==
  \/ StepGate
  \/ StepLeases
  \/ StepUploads
  \/ StepPairing
  \/ StepProvision
  \/ StepHosted
  \/ StepProbes
  \/ StepWait
  \/ StepBrowser
  \/ StepMemory
  \/ StepReplies
  \/ StepScheduler
  \/ StepEvidence

eachVars == <<on, gateVars, leaseVars, pubVars, pairVars, regVars, hostVars, confVars,
  waitVars, syncVars, memVars, replyVars, schedVars, evidVars>>
EachSpec == EachInit /\ [][EachNext]_eachVars

\* The fairness of each part, for its own behaviours only.
DeviceFairness ==
  /\ \A w \in {"w1", "w2", "w3"} :
       /\ WF_gateVars(on = "gate" /\ (A!WakeReady(w) \/ A!WakeDone(w)))
       /\ WF_gateVars(on = "gate" /\ A!Remove(w))
       /\ WF_gateVars(on = "gate" /\ A!ReturnSlot(w))
       /\ WF_gateVars(on = "gate" /\ A!Release(w))
  /\ WF_leaseVars(on = "leases" /\ L!Publish("x1"))
  /\ WF_leaseVars(on = "leases" /\ L!Send("x1"))
  /\ WF_leaseVars(on = "leases" /\ L!Capture("x1"))
  /\ WF_leaseVars(on = "leases" /\ \E r \in net : r.artifact = "x1" /\ L!Handle(r))
  /\ WF_pubVars(on = "uploads" /\ U!Send("p1"))
  /\ WF_pubVars(on = "uploads" /\ \E r \in pubNet : r.p = "p1" /\ U!Handle(r))
  /\ \A d \in {"s1", "i1"} : WF_pairVars(on = "pairing" /\ P!TimePasses(d))
  /\ \A b \in {"b1", "b2"} : /\ WF_pairVars(on = "pairing" /\ P!GiveUp(b))
                             /\ WF_pairVars(on = "pairing" /\ P!ClaimRefused(b))
  /\ WF_regVars(on = "provision" /\ G!BridgeConnects)
  /\ WF_regVars(on = "provision" /\ G!BridgeAnswers)
  /\ \A e \in 1..3 : /\ WF_regVars(on = "provision" /\ G!Handle(e))
                     /\ WF_regVars(on = "provision" /\ G!SocketClosed(e))
HostedFairness ==
  /\ WF_hostVars(on = "hosted" /\ H!Drain) /\ WF_hostVars(on = "hosted" /\ H!Stop)
  /\ WF_hostVars(on = "hosted" /\ H!recover)
  /\ \A r \in 1..1 :
       /\ WF_hostVars(on = "hosted" /\ (\/ H!ExecuteFails(r) \/ H!ExecuteTooLate(r)
                                        \/ H!ExpiresAtFence(r) \/ H!Dispatch(r)))
       /\ WF_hostVars(on = "hosted" /\ H!deadlineTimer(r))
       /\ WF_hostVars(on = "hosted" /\ aborted[r] /\ H!StreamEnds(r))
       /\ WF_hostVars(on = "hosted" /\ H!Settle(r))
       /\ WF_hostVars(on = "hosted" /\ (\/ H!Notified(r) \/ H!NotifiedBefore(r)
                                        \/ H!NotificationFails(r)))
  /\ \A q \in {"q1", "q2"} : /\ WF_confVars(on = "probes" /\ C!Dispatch(q))
                             /\ WF_confVars(on = "probes" /\ C!abort(q))
                             /\ WF_confVars(on = "probes" /\ C!Answers(q))
WaitFairness ==
  /\ WF_waitVars(on = "wait" /\ W!Establish("w1")) /\ WF_waitVars(on = "wait" /\ W!wait("w1"))
  /\ WF_waitVars(on = "wait" /\ W!TimeOut("w1"))
  /\ SF_waitVars(on = "wait" /\ \E b \in BOOLEAN : W!Resume("w1", b))
RoomFairness ==
  /\ WF_syncVars(on = "browser" /\ S!start) /\ WF_syncVars(on = "browser" /\ S!Listen)
  /\ WF_syncVars(on = "browser" /\ S!fallback)
  /\ \A k \in S!Kinds : WF_syncVars(on = "browser" /\ S!JobStep(k))
  /\ WF_memVars(on = "memory" /\ M!LeaseExpires)
  /\ \A w \in {"w1", "w2"} : /\ WF_memVars(on = "memory" /\ M!Drain(w, "incremental"))
                             /\ WF_memVars(on = "memory" /\ M!Commit(w))
                             /\ WF_memVars(on = "memory" /\ M!Fail(w))
  /\ WF_replyVars(on = "replies" /\ R!StartStep) /\ WF_replyVars(on = "replies" /\ R!LoopStep)
WorkFairness ==
  /\ WF_schedVars(on = "scheduler" /\ X!SweepStep("s1"))
  /\ \A id \in X!Ids : SF_schedVars(on = "scheduler" /\ 1 \in DOMAIN intents[id]
                                      /\ (X!RunStarts(id, 1) \/ X!RunEnds(id, 1)))
  /\ WF_evidVars(on = "evidence" /\ E!Reconcile)

DevicesSpec == EachSpec /\ DeviceFairness /\ HostedFairness /\ WaitFairness
RoomsSpec == EachSpec /\ RoomFairness /\ WorkFairness

-----------------------------------------------------------------------------
\* What a Device or a member waits for comes: a slot of the gate, a publication, an
\* answer to a pairing, the registration of an Agent that was configured, the end
\* of a dispatched Run, the answer of a probe, the news of a Room (agent_execution_gate.go,
\* publisher.go, session.go, client.go, hosted-run-scheduler.ts,
\* hosted-agent-configuration-service.ts, team-wait-service.ts).  Excepted is the Agent
\* whose request was already answered with a refusal when it was configured.
DevicesProgress ==
  /\ on = "gate" => A!EveryWaiterServed
  /\ on = "leases" => L!PublishesInTheEnd
  /\ on = "uploads" => U!PublishingEnds
  /\ on = "pairing" => P!PairingEnds
  /\ on = "provision" => G!ConfiguredRegisters
  /\ on = "hosted" => H!DispatchedRunEnds
  /\ on = "probes" => C!ProbeAnswered
  /\ on = "wait" => W!NewsArrives

\* What happens in a Room or a plan arrives: a change on the screen, the backlog in
\* the memory, a reply at the Agents it names, an eligible node at its Agent, and complete evidence in its materialization
\* (useRoomSynchronization.ts, memory-reducer-scheduler.ts,
\* handoff-service.ts, execution-scheduler.ts, execution-materialization-service.ts).
\* Excepted, as the parts say: a node crowded out of the sweeps' budget, sweeps that
\* throw on a candidate of an archived Room or on a superseded revision, and proofs
\* that two lists name in different orders.
RoomsProgress ==
  /\ on = "browser" => S!CatchesUp
  /\ on = "memory" => M!CatchesUp
  /\ on = "replies" => R!RepliesRouted
  /\ on = "scheduler" => X!NoStarvation /\ X!RunsHandedOver
  /\ on = "evidence" => E!VerifiedSetMaterializes /\ E!IntegrationMaterializes
=============================================================================
