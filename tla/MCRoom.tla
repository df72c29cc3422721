------------------------------- MODULE MCRoom --------------------------------
(***************************************************************************)
(* The parts of the Team Room, which share no state: TeamWait, a browser's *)
(* workspace, synchronization, composer and commands, the replies of Agents*)
(* and the memory of the Room.  A behaviour is of one part: `on` names it, *)
(* is at rest.                                                             *)
(***************************************************************************)
EXTENDS TeamWait

CONSTANT Explored   \* the parts this run explores

VARIABLE on   \* the part this behaviour is of
VARIABLES syncLatest, part, syncChannel, page, job, listener, floor, jumped,
          spent   \* synchronization
VARIABLES tab, made, alive, asked, webSpent   \* workspace of a browser tab
VARIABLES panel, central, cmdPage, stored, calls, seen   \* commands of the Work page
VARIABLES scope, composer, persisted, busy, saved, expired, writable, flight,
          stray, payload, known, eligible, runnable, messages, batches,
          confirmed, excused, faults   \* composer and send
VARIABLES phase, posted, run, event, intent, message, projection, failure,
          delivery, loop, recovered, able, allow, replyRunnable, now, crashes,
          changes   \* replies and handoffs
VARIABLES last, state, cps, memJob, failures, memRun, session, shown   \* checkpoints and coverage

syncVars == <<syncLatest, part, syncChannel, page, job, listener, floor, jumped, spent>>
webVars == <<tab, made, alive, asked, webSpent>>
cmdVars == <<panel, central, cmdPage, stored, calls, seen>>
compVars == <<scope, composer, persisted, busy, saved, expired, writable, flight, stray,
  payload, known, eligible, runnable, messages, batches, confirmed, excused,
  faults>>
replyVars == <<phase, posted, run, event, intent, message, projection, failure, delivery,
  loop, recovered, able, allow, replyRunnable, now, crashes, changes>>
memVars == <<last, state, cps, memJob, failures, memRun, session, shown>>

\* A part that is not explored: its variables keep this value.
Rest == "at rest"
syncAtRest ==
  /\ syncLatest = Rest /\ part = Rest /\ syncChannel = Rest /\ page = Rest
  /\ job = Rest /\ listener = Rest /\ floor = Rest /\ jumped = Rest
  /\ spent = Rest
webAtRest ==
  /\ tab = Rest /\ made = Rest /\ alive = Rest /\ asked = Rest
  /\ webSpent = Rest
cmdAtRest ==
  /\ panel = Rest /\ central = Rest /\ cmdPage = Rest /\ stored = Rest
  /\ calls = Rest /\ seen = Rest
compAtRest ==
  /\ scope = Rest /\ composer = Rest /\ persisted = Rest /\ busy = Rest
  /\ saved = Rest /\ expired = Rest /\ writable = Rest /\ flight = Rest
  /\ stray = Rest /\ payload = Rest /\ known = Rest /\ eligible = Rest
  /\ runnable = Rest /\ messages = Rest /\ batches = Rest /\ confirmed = Rest
  /\ excused = Rest /\ faults = Rest
replyAtRest ==
  /\ phase = Rest /\ posted = Rest /\ run = Rest /\ event = Rest
  /\ intent = Rest /\ message = Rest /\ projection = Rest /\ failure = Rest
  /\ delivery = Rest /\ loop = Rest /\ recovered = Rest /\ able = Rest
  /\ allow = Rest /\ replyRunnable = Rest /\ now = Rest /\ crashes = Rest
  /\ changes = Rest
memAtRest ==
  /\ last = Rest /\ state = Rest /\ cps = Rest /\ memJob = Rest
  /\ failures = Rest /\ memRun = Rest /\ session = Rest /\ shown = Rest

-----------------------------------------------------------------------------
\* The parts and their instances

\* snapshots of a Room, an action and a failure between them
SS == INSTANCE RoomSync WITH
  Room <- "r1", Rooms <- {"r1"}, HistoryLimit <- 2, Parts <- {"runs"},
  PageSize <- 1, MaxPages <- 1, MaxMessages <- 0, MaxChanges <- 2,
  MaxActions <- 1, MaxTimers <- 0, MaxFailures <- 1, MaxRestarts <- 0,
  latest <- syncLatest, channel <- syncChannel

\* more messages than the pages of a refresh hold, and an action between them
SM == INSTANCE RoomSync WITH
  Room <- "r1", Rooms <- {"r1"}, HistoryLimit <- 2, Parts <- {},
  PageSize <- 1, MaxPages <- 2, MaxMessages <- 4, MaxChanges <- 4,
  MaxActions <- 1, MaxTimers <- 0, MaxFailures <- 0, MaxRestarts <- 0,
  latest <- syncLatest, channel <- syncChannel

\* one session in two Teams, two moves around a command and a failure
WP == INSTANCE WebWorkspace WITH
  Users <- {"u1"}, Teams <- {"t1", "t2"}, Rooms <- {"r1", "r2", "r3"},
  Tasks <- {"k1", "k2", "k3"},
  TeamOf <- [r \in {"r1", "r2", "r3"} |-> IF r = "r3" THEN "t2" ELSE "t1"],
  RoomOf <- [k \in {"k1", "k2", "k3"} |-> IF k = "k3" THEN "r1" ELSE "r2"],
  Access <- [u \in {"u1"} |-> {"t1", "t2"}], Made <- {"r1", "r2", "k1", "k2"},
  Commands <- {"createRoom", "archive", "createTask"}, MaxSessions <- 1,
  MaxMoves <- 2, MaxCommands <- 1, MaxFailures <- 1, spent <- webSpent

\* two sessions of a tab, answers of the first in the second
WS == INSTANCE WebWorkspace WITH
  Users <- {"u1", "u2"}, Teams <- {"t1", "t2"}, Rooms <- {"r1", "r2", "r3"},
  Tasks <- {"k1", "k2", "k3"},
  TeamOf <- [r \in {"r1", "r2", "r3"} |-> IF r = "r3" THEN "t2" ELSE "t1"],
  RoomOf <- [k \in {"k1", "k2", "k3"} |-> IF k = "k3" THEN "r1" ELSE "r2"],
  Access <- [u \in {"u1", "u2"} |-> IF u = "u1" THEN {"t1", "t2"} ELSE {"t2"}],
  Made <- {"r1", "r2", "k1", "k2"},
  Commands <- {"signOut", "secret", "preview", "archive"}, MaxSessions <- 3,
  MaxMoves <- 1, MaxCommands <- 1, MaxFailures <- 1, spent <- webSpent

\* recoveries, plan changes and verdicts, a fault, and others who act
WC == INSTANCE WorkCommands WITH
  MaxOps <- 2, MaxFaults <- 1,
  Panels <- {"recovery", "supersession", "result"}, MaxRev <- 2,
  MaxOpens <- 2, page <- cmdPage

\* the review or the revision of a plan, a fault, and others who act
WR == INSTANCE WorkCommands WITH
  MaxOps <- 1, MaxFaults <- 1, Panels <- {"plan"}, MaxRev <- 2, MaxOpens <- 2,
  page <- cmdPage

\* evidence of one node, a fault
WE == INSTANCE WorkCommands WITH
  MaxOps <- 2, MaxFaults <- 1, Panels <- {"evidence"}, MaxRev <- 1,
  MaxOpens <- 2, page <- cmdPage

\* two Rooms, two messages, two Agents, a fault
K == INSTANCE RoomComposer WITH
  Scopes <- {"s1", "s2"}, Agents <- {"a1", "a2"}, NoScope <- "none",
  MaxMessages <- 2, MaxTexts <- 1, MaxPending <- 1, MaxScopes <- 1,
  MaxFaults <- 1

\* one Agent hands off to two others
RH == INSTANCE ReplyProjections WITH
  NoAgent <- "nobody", Mentioned <- {"a1"}, Governed <- FALSE, MaxDepth <- 1,
  MaxUnique <- 3, Agents <- {"a1", "a2", "a3"},
  Contents <- {{"a2"}, {"a2", "a3"}}, Legacy <- FALSE, Lifetime <- 1,
  MaxTime <- 1, MaxReplies <- 2, MaxCrashes <- 1, MaxChanges <- 0,
  runnable <- replyRunnable

\* replies of a database older than projections
RR == INSTANCE ReplyProjections WITH
  NoAgent <- "nobody", Mentioned <- {"a1"}, Governed <- FALSE, MaxDepth <- 1,
  MaxUnique <- 3, Agents <- {"a1", "a2"}, Contents <- {{}, {"a2"}},
  Legacy <- TRUE, Lifetime <- 2, MaxTime <- 2, MaxReplies <- 2,
  MaxCrashes <- 1, MaxChanges <- 0, runnable <- replyRunnable

\* the Task of the replies is under an approved plan
RG == INSTANCE ReplyProjections WITH
  NoAgent <- "nobody", Mentioned <- {"a1"}, Governed <- TRUE, MaxDepth <- 1,
  MaxUnique <- 3, Agents <- {"a1", "a2", "a3"},
  Contents <- {{"a2"}, {"a1", "a3"}}, Legacy <- FALSE, Lifetime <- 1,
  MaxTime <- 1, MaxReplies <- 1, MaxCrashes <- 1, MaxChanges <- 0,
  runnable <- replyRunnable

\* two servers reduce one Room
MR == INSTANCE RoomContext WITH
  MaxMessages <- 4, IncrementalLimit <- 2, RebaseLimit <- 3, RawLimit <- 2,
  RecentLimit <- 1, ProjectionLimit <- 1, Reducers <- {"w1", "w2"},
  Runs <- {}, MaxCheckpoints <- 4, MaxFailures <- 2, job <- memJob,
  run <- memRun

\* two Runs of one Session
MV == INSTANCE RoomContext WITH
  MaxMessages <- 4, IncrementalLimit <- 2, RebaseLimit <- 3, RawLimit <- 2,
  RecentLimit <- 1, ProjectionLimit <- 1, Reducers <- {"w1"},
  Runs <- {"r1", "r2"}, MaxCheckpoints <- 2, MaxFailures <- 0, job <- memJob,
  run <- memRun

ASSUME PartsAssumption ==
  /\ SS!RoomSyncAssumption /\ SM!RoomSyncAssumption
  /\ WP!WebWorkspaceAssumption /\ WS!WebWorkspaceAssumption
  /\ WC!WorkCommandsAssumption /\ WR!WorkCommandsAssumption
  /\ WE!WorkCommandsAssumption /\ K!ComposerAssumption /\ RH!ReplyAssumption
  /\ RR!ReplyAssumption /\ RG!ReplyAssumption /\ MR!ContextBounds
  /\ MV!ContextBounds

-----------------------------------------------------------------------------
EachInit ==
  /\ on \in Explored
  /\ Init
  /\ \/ on = "snapshots" /\ SS!Init
     \/ on = "messages" /\ SM!Init
     \/ on \notin {"snapshots", "messages"} /\ syncAtRest
  /\ \/ on = "places" /\ WP!Init
     \/ on = "sessions" /\ WS!Init
     \/ on \notin {"places", "sessions"} /\ webAtRest
  /\ \/ on = "commands" /\ WC!Init
     \/ on = "reviews" /\ WR!Init
     \/ on = "evidence" /\ WE!Init
     \/ on \notin {"commands", "reviews", "evidence"} /\ cmdAtRest
  /\ \/ on = "composer" /\ K!Init
     \/ on # "composer" /\ compAtRest
  /\ \/ on = "handoffs" /\ RH!Init
     \/ on = "restores" /\ RR!Init
     \/ on = "governed_reply" /\ RG!Init
     \/ on \notin {"handoffs", "restores", "governed_reply"} /\ replyAtRest
  /\ \/ on = "reducers" /\ MR!Init
     \/ on = "coverage" /\ MV!Init
     \/ on \notin {"reducers", "coverage"} /\ memAtRest

StepWait ==
  on = "wait" /\ Next
    /\ UNCHANGED <<on, syncVars, webVars, cmdVars, compVars, replyVars, memVars>>
StepSnapshots ==
  on = "snapshots" /\ SS!Next
    /\ UNCHANGED <<on, vars, webVars, cmdVars, compVars, replyVars, memVars>>
StepMessages ==
  on = "messages" /\ SM!Next
    /\ UNCHANGED <<on, vars, webVars, cmdVars, compVars, replyVars, memVars>>
StepPlaces ==
  on = "places" /\ WP!Next
    /\ UNCHANGED <<on, vars, syncVars, cmdVars, compVars, replyVars, memVars>>
StepSessions ==
  on = "sessions" /\ WS!Next
    /\ UNCHANGED <<on, vars, syncVars, cmdVars, compVars, replyVars, memVars>>
StepCommands ==
  on = "commands" /\ WC!Next
    /\ UNCHANGED <<on, vars, syncVars, webVars, compVars, replyVars, memVars>>
StepReviews ==
  on = "reviews" /\ WR!Next
    /\ UNCHANGED <<on, vars, syncVars, webVars, compVars, replyVars, memVars>>
StepEvidence ==
  on = "evidence" /\ WE!Next
    /\ UNCHANGED <<on, vars, syncVars, webVars, compVars, replyVars, memVars>>
StepComposer ==
  on = "composer" /\ K!Next
    /\ UNCHANGED <<on, vars, syncVars, webVars, cmdVars, replyVars, memVars>>
StepHandoffs ==
  on = "handoffs" /\ RH!Next
    /\ UNCHANGED <<on, vars, syncVars, webVars, cmdVars, compVars, memVars>>
StepRestores ==
  on = "restores" /\ RR!Next
    /\ UNCHANGED <<on, vars, syncVars, webVars, cmdVars, compVars, memVars>>
StepGovernedReply ==
  on = "governed_reply" /\ RG!Next
    /\ UNCHANGED <<on, vars, syncVars, webVars, cmdVars, compVars, memVars>>
StepReducers ==
  on = "reducers" /\ MR!Next
    /\ UNCHANGED <<on, vars, syncVars, webVars, cmdVars, compVars, replyVars>>
StepCoverage ==
  on = "coverage" /\ MV!Next
    /\ UNCHANGED <<on, vars, syncVars, webVars, cmdVars, compVars, replyVars>>

EachNext ==
  \/ StepWait
  \/ StepSnapshots
  \/ StepMessages
  \/ StepPlaces
  \/ StepSessions
  \/ StepCommands
  \/ StepReviews
  \/ StepEvidence
  \/ StepComposer
  \/ StepHandoffs
  \/ StepRestores
  \/ StepGovernedReply
  \/ StepReducers
  \/ StepCoverage

eachVars == <<on, vars, syncVars, webVars, cmdVars, compVars, replyVars, memVars>>
EachSpec == EachInit /\ [][EachNext]_eachVars

-----------------------------------------------------------------------------
\* A member's browser tells the truth, whatever overtakes what: the screen is never
\* older than a refresh it shows and has no hole behind its cursor but for Messages that a
\* refresh after an action passed by (NoMessageSkipped), a submission
\* becomes one Message with one batch of Runs, kept in the outbox until then, a
\* command of unknown outcome is asked again and never given twice, and what is
\* shown is of the session and the place on screen, which is the one asked for last
\* (room-synchronization.ts commitSnapshot, commitMessages; useRoomComposer.ts,
\* appendWithResult, createRunsForMessageResult; recovery-receipt.ts and the panels of
\* features/work; App.tsx, useWorkspaceNavigation.ts).
BrowserShowsTruth ==
  /\ on = "snapshots" => SS!SnapshotNotOlder
  /\ on = "messages" => SM!NoMessageSkipped
  /\ on = "composer" => K!ComposerTypeOK /\ K!OneMessage /\ K!NothingLost /\ K!NoneStuck
  /\ on = "places" => WP!WorkspaceTypeOK /\ WP!ShownBelongs /\ WP!LandsWhereAsked
  /\ on = "sessions" => WS!ShownIsOwn /\ WS!SecretInItsPlace /\ WS!ShownBelongs
  /\ on = "commands" => WC!WorkCommandsTypeOK /\ WC!CommandsSettled
  /\ on = "reviews" => WR!WorkCommandsTypeOK /\ WR!CommandsSettled
  /\ on = "evidence" => WE!WorkCommandsTypeOK /\ WE!CommandsSettled

\* Nothing said in a Room is lost to its Agents: every reply is in the Room once or
\* recorded as failed, over crashes between the steps of its projection, its
\* handoffs form a bounded chain with none stranded, and each chain of checkpoints
\* and each Session covers every Message to its cursor (run-projection-reconciler.ts,
\* handoff-service.ts, commitCheckpoint, prepareRoomContextForSession).
RoomReachesAgents ==
  /\ on = "handoffs" => RH!ReplyTypeOK /\ RH!LineageBounded /\ RH!NoChildStranded
  /\ on = "restores" => RR!RepliesAccounted
  /\ on = "reducers" => MR!ChainCovers
  /\ on = "coverage" => MV!ContextTypeOK /\ MV!CoveredSessionSawAll /\ MV!ReceiptsAccepted

\* What a step may never do: clear a draft written since the one that was sent,
\* offer a Run after its lifetime, repeat a text by a restart, rob a reducer of a
\* lease that runs.
RoomStepsSafe ==
  [][/\ on = "composer" => K!NewerDraftKeptStep
     /\ on = "handoffs" => RH!NothingStartsLateStep
     /\ on = "restores" => RR!RestartRepeatsNothingStep /\ RR!NothingStartsLateStep
     /\ on = "reducers" => MR!HolderKeepsLeaseStep]_eachVars

-----------------------------------------------------------------------------
\* handoff-service.ts:87: "Invalid lineage, depth, or availability leaves the reply as
\* plain text": a rejected candidate never keeps the server from starting.
RejectedRepliesStayPlainText == on = "governed_reply" => RG!RejectedStaysPlainText
=============================================================================
