------------------------------- MODULE MCWork --------------------------------
(***************************************************************************)
(* The parts of governed work, which share no state: a Task with its memory*)
(* and results, its Discussion, the execution plan and its scheduler.  A   *)
(* behaviour is one part's: `on` names it, the others rest.                *)
(***************************************************************************)
EXTENDS Naturals, Sequences, FiniteSets, TLC

CONSTANTS
  Explored, \* the parts this run explores
  NoValue

AnyEnding == {"completed", "failed", "outcome_unknown"}
Node(agent, needs) == [agent |-> agent, needs |-> needs]

Def(tasks, nodes, edges, contract, budget) ==
  [nodes |-> nodes, edges |-> edges, contract |-> [x \in tasks |-> contract],
   budget |-> budget]
Wired == Def({"r", "t", "u"}, {"t", "u"}, {<<"t", "u">>}, 1, 1)

\* What a participant may report: nothing, a question, its answer, doubt, an approval,
\* evidence in a list that is not well formed.
Plain(questions) ==
  [goal |-> "none", conf |-> 0, resolved |-> {}, claimed |-> {},
   open |-> [q \in questions |-> 0], dis |-> 0, info |-> TRUE, approves |-> "none", bad |-> {}]
ProgressAssessments ==
  {[Plain({"q"}) EXCEPT !.open["q"] = 2, !.info = FALSE],
   [Plain({"q"}) EXCEPT !.resolved = {"q"}, !.conf = 1, !.claimed = {"m"}],
   [Plain({"q"}) EXCEPT !.goal = "yes", !.conf = 2, !.approves = "yes", !.info = FALSE],
   [Plain({"q"}) EXCEPT !.open["q"] = 3, !.resolved = {"q"}, !.bad = {"resolved", "conf"},
                        !.approves = "no"]}
FocusAssessments ==
  {[Plain({"q", "r"}) EXCEPT !.open["q"] = 2],
   [Plain({"q", "r"}) EXCEPT !.open["r"] = 3, !.resolved = {"q"}]}

VARIABLE on   \* the part this behaviour is of
VARIABLES revision, entry, events, cand, artifacts, consumed, posted,
          projection, run, session   \* the memory of a Task
VARIABLES task, taskRun, result, children, view, posts, patches, crashes   \* Tasks, Runs and Results
VARIABLES db, timeUp, pending, toCancel, up, crashed   \* the waves of a Discussion
VARIABLES prog, waves, supplements, reviewed   \* what its evaluator keeps
VARIABLES plan, archived, intents, adopted, proj, cursor, available, sweep,
          command, receipts, messages, outages, schedCrashes   \* the scheduler
VARIABLES plansPlan, claim, tasks, busy, plansCand, deleg, plansAdopted, sent,
          done, human, changes   \* plans and their revisions

memoVars == <<revision, entry, events, cand, artifacts, consumed, posted, projection, run,
  session>>
taskVars == <<task, taskRun, result, children, view, posts, patches, crashes>>
discVars == <<db, timeUp, pending, toCancel, up, crashed>>
progVars == <<prog, waves, supplements, reviewed>>
schedVars == <<plan, archived, intents, adopted, proj, cursor, available, sweep, command,
  receipts, messages, outages, schedCrashes>>
plansVars == <<plansPlan, claim, tasks, busy, plansCand, deleg, plansAdopted, sent, done,
  human, changes>>

\* A part that is not explored: its variables keep this value.
Rest == "at rest"
memoAtRest ==
  /\ revision = Rest /\ entry = Rest /\ events = Rest /\ cand = Rest
  /\ artifacts = Rest /\ consumed = Rest /\ posted = Rest /\ projection = Rest
  /\ run = Rest /\ session = Rest
taskAtRest ==
  /\ task = Rest /\ taskRun = Rest /\ result = Rest /\ children = Rest
  /\ view = Rest /\ posts = Rest /\ patches = Rest /\ crashes = Rest
discAtRest ==
  /\ db = Rest /\ timeUp = Rest /\ pending = Rest /\ toCancel = Rest
  /\ up = Rest /\ crashed = Rest
progAtRest ==
  /\ prog = Rest /\ waves = Rest /\ supplements = Rest /\ reviewed = Rest
schedAtRest ==
  /\ plan = Rest /\ archived = Rest /\ intents = Rest /\ adopted = Rest
  /\ proj = Rest /\ cursor = Rest /\ available = Rest /\ sweep = Rest
  /\ command = Rest /\ receipts = Rest /\ messages = Rest /\ outages = Rest
  /\ schedCrashes = Rest
plansAtRest ==
  /\ plansPlan = Rest /\ claim = Rest /\ tasks = Rest /\ busy = Rest
  /\ plansCand = Rest /\ deleg = Rest /\ plansAdopted = Rest /\ sent = Rest
  /\ done = Rest /\ human = Rest /\ changes = Rest

-----------------------------------------------------------------------------
\* The parts and their instances

\* three entries and two candidates of a Task memory
TM == INSTANCE TaskContext WITH
  PageLimit <- 2, Entries <- {"e1", "e2", "e3"}, Candidates <- {"c1", "c2"},
  Runs <- {"r1"}, MaxArtifacts <- 0

\* the Artifacts two Runs read, in pages of two
TA == INSTANCE TaskContext WITH
  PageLimit <- 2, Entries <- {}, Candidates <- {}, Runs <- {"r1", "r2"},
  MaxArtifacts <- 4

\* two Results of one Task
WR == INSTANCE TaskWork WITH
  Clients <- {"c1"}, None <- NoValue, MaxMentions <- 1, MaxRunAttempts <- 1,
  Tasks <- {"t1"}, Results <- {"x1", "x2"}, Runs <- {}, Criteria <- {},
  Operations <- {}, MaxRevision <- 5, MaxPatches <- 1, MaxCrashes <- 0,
  run <- taskRun

\* two Runs of one Task
WF == INSTANCE TaskWork WITH
  Clients <- {"c1"}, None <- NoValue, MaxMentions <- 1, MaxRunAttempts <- 1,
  Tasks <- {"t1"}, Results <- {"x1"}, Runs <- {"r1", "r2"}, Criteria <- {},
  Operations <- {}, MaxRevision <- 4, MaxPatches <- 1, MaxCrashes <- 0,
  run <- taskRun

\* a Task made from the Result of another
WU == INSTANCE TaskWork WITH
  Clients <- {"c1"}, None <- NoValue, MaxMentions <- 1, MaxRunAttempts <- 1,
  Tasks <- {"t1", "t2"}, Results <- {"x1"}, Runs <- {}, Criteria <- {},
  Operations <- {"op1"}, MaxRevision <- 3, MaxPatches <- 0, MaxCrashes <- 1,
  run <- taskRun

\* a focused Discussion with a reviewer
DB == INSTANCE Discussions WITH
  QuorumMinimum <- 2, InitialLease <- 1, HardMax <- 3, AutomaticMax <- 2,
  Reserve <- 1, PlateauWindow <- 1, Reviewer <- {2}, RequireReviewer <- TRUE,
  AutomaticFinish <- TRUE, Focused <- TRUE, Quorum <- FALSE, Crashes <- 0,
  Participants <- 1..2, Endings <- {"completed"}

\* a Discussion that finishes on request only, over a restart of the server
DR == INSTANCE Discussions WITH
  QuorumMinimum <- 2, InitialLease <- 1, HardMax <- 2, AutomaticMax <- 1,
  Reserve <- 1, PlateauWindow <- 1, Reviewer <- {}, RequireReviewer <- FALSE,
  AutomaticFinish <- FALSE, Focused <- FALSE, Quorum <- FALSE, Crashes <- 1,
  Participants <- 1..2, Endings <- {"completed"}

\* three participants, two are a quorum
DQ == INSTANCE Discussions WITH
  QuorumMinimum <- 2, InitialLease <- 1, HardMax <- 2, AutomaticMax <- 1,
  Reserve <- 1, PlateauWindow <- 1, Reviewer <- {}, RequireReviewer <- FALSE,
  AutomaticFinish <- TRUE, Focused <- FALSE, Quorum <- TRUE, Crashes <- 0,
  Participants <- 1..3, Endings <- {"completed", "asked"}

\* what two participants report over two waves
PP == INSTANCE DiscussionProgress WITH
  QuorumMinimum <- 2, Limit <- 2, MaxHashes <- 1, Compared <- 1,
  PlateauWindow <- 2, MaxWaves <- 2, Refs <- {"m"}, InScope <- {"m"},
  Agents <- {1, 2}, Reviewer <- {2}, Primary <- {}, Focused <- FALSE,
  Quorum <- FALSE, Questions <- {"q"}, Replies <- {"x", "y", "z"},
  Alike <- {<<"x", "y">>, <<"y", "x">>}, Assessments <- ProgressAssessments,
  RoleTerms <- [a \in {1, 2} |-> {}], QuestionTerms <- [q \in {"q"} |-> {}]

\* two of three participants are selected
PF == INSTANCE DiscussionProgress WITH
  QuorumMinimum <- 2, Limit <- 2, MaxHashes <- 1, Compared <- 1,
  PlateauWindow <- 2, MaxWaves <- 2, Refs <- {"m"}, InScope <- {"m"},
  Agents <- {1, 2, 3}, Reviewer <- {3}, Primary <- {2}, Focused <- TRUE,
  Quorum <- TRUE, Questions <- {"q", "r"}, Replies <- {"x"}, Alike <- {},
  Assessments <- FocusAssessments,
  RoleTerms <- [a \in 1..3 |-> IF a = 1 THEN {"storage"} ELSE {}],
  QuestionTerms <- [q \in {"q", "r"} |-> IF q = "r" THEN {"storage"} ELSE {}]

\* two servers, two plans of one Agent
XS == INSTANCE ExecutionScheduler WITH
  Endings <- {"completed", "failed"}, MaxRunAttempts <- 9,
  MaxEvaluations <- 9, MaxConcurrency <- 2, Revisions <- 1, Operations <- {},
  Kinds <- {}, Drifting <- {}, Archivable <- {}, Attempts <- 1, Messages <- 0,
  Outages <- 0, Crashes <- 0, Servers <- {"s1", "s2"}, Agents <- {"a"},
  Graph <- << <<Node("a", {})>>, <<Node("a", {})>> >>, crashes <- schedCrashes

\* two servers, a plan of two nodes, one Run at a time
XC == INSTANCE ExecutionScheduler WITH
  Endings <- {"completed"}, MaxRunAttempts <- 9, MaxEvaluations <- 9,
  MaxConcurrency <- 1, Revisions <- 1, Operations <- {}, Kinds <- {},
  Drifting <- {}, Archivable <- {}, Attempts <- 1, Messages <- 0,
  Outages <- 1, Crashes <- 0, Servers <- {"s1", "s2"}, Agents <- {"a", "b"},
  Graph <- << <<Node("a", {}), Node("b", {})>> >>, crashes <- schedCrashes

\* two servers, an owner who changes the mode, a Task that drifts
XD == INSTANCE ExecutionScheduler WITH
  Endings <- AnyEnding, MaxRunAttempts <- 9, MaxEvaluations <- 9,
  MaxConcurrency <- 2, Revisions <- 1, Operations <- {"o1"},
  Kinds <- {"mode"}, Drifting <- {1}, Archivable <- {}, Attempts <- 1,
  Messages <- 0, Outages <- 0, Crashes <- 0, Servers <- {"s1", "s2"},
  Agents <- {"a"}, Graph <- << <<Node("a", {})>> >>, crashes <- schedCrashes

\* an owner's command beside the sweeps
XO == INSTANCE ExecutionScheduler WITH
  Endings <- AnyEnding, MaxRunAttempts <- 9, MaxEvaluations <- 9,
  MaxConcurrency <- 2, Revisions <- 2, Operations <- {"o1"},
  Kinds <- {"mode", "manual", "advance", "retry"}, Drifting <- {},
  Archivable <- {}, Attempts <- 2, Messages <- 1, Outages <- 0, Crashes <- 1,
  Servers <- {"s1"}, Agents <- {"a"}, Graph <- << <<Node("a", {})>> >>,
  crashes <- schedCrashes

\* a member message to a governed Task
XM == INSTANCE ExecutionScheduler WITH
  Endings <- AnyEnding, MaxRunAttempts <- 9, MaxEvaluations <- 9,
  MaxConcurrency <- 2, Revisions <- 1, Operations <- {"o1"},
  Kinds <- {"retry"}, Drifting <- {1}, Archivable <- {1}, Attempts <- 2,
  Messages <- 1, Outages <- 0, Crashes <- 0, Servers <- {"s1"},
  Agents <- {"a"}, Graph <- << <<Node("a", {})>>, <<Node("a", {})>> >>,
  crashes <- schedCrashes

\* two plans take turns at one Agent
XR == INSTANCE ExecutionScheduler WITH
  Endings <- AnyEnding, MaxRunAttempts <- 9, MaxEvaluations <- 9,
  MaxConcurrency <- 2, Revisions <- 1, Operations <- {"o1"},
  Kinds <- {"retry"}, Drifting <- {}, Archivable <- {}, Attempts <- 2,
  Messages <- 0, Outages <- 0, Crashes <- 0, Servers <- {"s1"},
  Agents <- {"a"},
  Graph <- << <<Node("a", {}), Node("a", {})>>, <<Node("a", {})>> >>,
  crashes <- schedCrashes

\* two plans that want each other's Tasks
PG == INSTANCE PlanSupersession WITH
  Agents <- {}, Delegations <- 0, Changes <- 1, Plans <- {"p", "q"},
  Tasks <- {"r", "s", "t"},
  Root <- [x \in {"p", "q"} |-> IF x = "p" THEN "r" ELSE "s"],
  Definitions <- {Def({"r", "s", "t"}, {"t"}, {}, 1, 1), Def({"r", "s", "t"}, {"s"}, {}, 1, 1)},
  Commands <- 4, Kinds <- {"create", "revise", "approve"}, Approved <- {},
  First <- Def({"r", "s", "t"}, {"t"}, {}, 1, 1), MaxRevision <- 2,
  plan <- plansPlan, cand <- plansCand, adopted <- plansAdopted

\* a plan whose edge is kept, reversed or dropped
PC == INSTANCE PlanSupersession WITH
  Agents <- {}, Delegations <- 0, Changes <- 1, Plans <- {"p"},
  Tasks <- {"r", "t", "u"}, Root <- [x \in {"p"} |-> "r"],
  Definitions <- {Wired, Def({"r", "t", "u"}, {"t", "u"}, {<<"u", "t">>}, 1, 1), Def({"r", "t", "u"}, {"t", "u"}, {}, 1, 1)},
  Commands <- 4, Kinds <- {"propose", "activate"}, Approved <- {"p"},
  First <- Wired, MaxRevision <- 3, plan <- plansPlan, cand <- plansCand,
  adopted <- plansAdopted

\* an Agent revises a plan under two delegations
PD == INSTANCE PlanSupersession WITH
  Agents <- {"lead"}, Delegations <- 2, Changes <- 0, Plans <- {"p"},
  Tasks <- {"r", "t"}, Root <- [x \in {"p"} |-> "r"],
  Definitions <- {Def({"r", "t"}, {"t"}, {}, 1, 2), Def({"r", "t"}, {"t"}, {}, 1, 1), Def({"r", "t"}, {"t"}, {}, 2, 1)},
  Commands <- 4, Kinds <- {"propose", "activate", "issue", "revoke"},
  Approved <- {"p"}, First <- Def({"r", "t"}, {"t"}, {}, 1, 2),
  MaxRevision <- 3, plan <- plansPlan, cand <- plansCand,
  adopted <- plansAdopted

ASSUME PartsAssumption ==
  /\ TM!TaskContextBounds /\ TA!TaskContextBounds /\ WR!TaskWorkAssumption
  /\ WF!TaskWorkAssumption /\ WU!TaskWorkAssumption /\ DB!DiscussionAssumption
  /\ DR!DiscussionAssumption /\ DQ!DiscussionAssumption
  /\ PP!ProgressAssumption /\ PF!ProgressAssumption /\ XS!SchedulerAssumption
  /\ XC!SchedulerAssumption /\ XD!SchedulerAssumption
  /\ XO!SchedulerAssumption /\ XM!SchedulerAssumption
  /\ XR!SchedulerAssumption /\ PG!PlanAssumption /\ PC!PlanAssumption
  /\ PD!PlanAssumption

-----------------------------------------------------------------------------
EachInit ==
  /\ on \in Explored
  /\ \/ on = "memory" /\ TM!Init
     \/ on = "artifacts" /\ TA!Init
     \/ on \notin {"memory", "artifacts"} /\ memoAtRest
  /\ \/ on = "results" /\ WR!Init
     \/ on = "fences" /\ WF!Init
     \/ on = "follow_ups" /\ WU!Init
     \/ on \notin {"results", "fences", "follow_ups"} /\ taskAtRest
  /\ \/ on = "budget" /\ DB!Init
     \/ on = "recovery" /\ DR!Init
     \/ on = "quorum" /\ DQ!Init
     \/ on \notin {"budget", "recovery", "quorum"} /\ discAtRest
  /\ \/ on = "progress" /\ PP!Init
     \/ on = "focus" /\ PF!Init
     \/ on \notin {"progress", "focus"} /\ progAtRest
  /\ \/ on = "servers" /\ XS!Init
     \/ on = "capacity" /\ XC!Init
     \/ on = "modes" /\ XD!Init
     \/ on = "commands" /\ XO!Init
     \/ on = "messages" /\ XM!Init
     \/ on = "rotation" /\ XR!Init
     \/ on \notin {"servers", "capacity", "modes", "commands", "messages", "rotation"} /\ schedAtRest
  /\ \/ on = "governance" /\ PG!Init
     \/ on = "carry" /\ PC!Init
     \/ on = "delegation" /\ PD!Init
     \/ on \notin {"governance", "carry", "delegation"} /\ plansAtRest

StepMemory ==
  on = "memory" /\ TM!Next
    /\ UNCHANGED <<on, taskVars, discVars, progVars, schedVars, plansVars>>
StepArtifacts ==
  on = "artifacts" /\ TA!Next
    /\ UNCHANGED <<on, taskVars, discVars, progVars, schedVars, plansVars>>
StepResults ==
  on = "results" /\ WR!Next
    /\ UNCHANGED <<on, memoVars, discVars, progVars, schedVars, plansVars>>
StepFences ==
  on = "fences" /\ WF!Next
    /\ UNCHANGED <<on, memoVars, discVars, progVars, schedVars, plansVars>>
StepFollowUps ==
  on = "follow_ups" /\ WU!Next
    /\ UNCHANGED <<on, memoVars, discVars, progVars, schedVars, plansVars>>
StepBudget ==
  on = "budget" /\ DB!Next
    /\ UNCHANGED <<on, memoVars, taskVars, progVars, schedVars, plansVars>>
StepRecovery ==
  on = "recovery" /\ DR!Next
    /\ UNCHANGED <<on, memoVars, taskVars, progVars, schedVars, plansVars>>
StepQuorum ==
  on = "quorum" /\ DQ!Next
    /\ UNCHANGED <<on, memoVars, taskVars, progVars, schedVars, plansVars>>
StepProgress ==
  on = "progress" /\ PP!Next
    /\ UNCHANGED <<on, memoVars, taskVars, discVars, schedVars, plansVars>>
StepFocus ==
  on = "focus" /\ PF!Next
    /\ UNCHANGED <<on, memoVars, taskVars, discVars, schedVars, plansVars>>
StepServers ==
  on = "servers" /\ XS!Next
    /\ UNCHANGED <<on, memoVars, taskVars, discVars, progVars, plansVars>>
StepCapacity ==
  on = "capacity" /\ XC!Next
    /\ UNCHANGED <<on, memoVars, taskVars, discVars, progVars, plansVars>>
StepModes ==
  on = "modes" /\ XD!Next
    /\ UNCHANGED <<on, memoVars, taskVars, discVars, progVars, plansVars>>
StepCommands ==
  on = "commands" /\ XO!Next
    /\ UNCHANGED <<on, memoVars, taskVars, discVars, progVars, plansVars>>
StepMessages ==
  on = "messages" /\ XM!Next
    /\ UNCHANGED <<on, memoVars, taskVars, discVars, progVars, plansVars>>
StepRotation ==
  on = "rotation" /\ XR!Next
    /\ UNCHANGED <<on, memoVars, taskVars, discVars, progVars, plansVars>>
StepGovernance ==
  on = "governance" /\ PG!Next
    /\ UNCHANGED <<on, memoVars, taskVars, discVars, progVars, schedVars>>
StepCarry ==
  on = "carry" /\ PC!Next
    /\ UNCHANGED <<on, memoVars, taskVars, discVars, progVars, schedVars>>
StepDelegation ==
  on = "delegation" /\ PD!Next
    /\ UNCHANGED <<on, memoVars, taskVars, discVars, progVars, schedVars>>

EachNext ==
  \/ StepMemory
  \/ StepArtifacts
  \/ StepResults
  \/ StepFences
  \/ StepFollowUps
  \/ StepBudget
  \/ StepRecovery
  \/ StepQuorum
  \/ StepProgress
  \/ StepFocus
  \/ StepServers
  \/ StepCapacity
  \/ StepModes
  \/ StepCommands
  \/ StepMessages
  \/ StepRotation
  \/ StepGovernance
  \/ StepCarry
  \/ StepDelegation

eachVars == <<on, memoVars, taskVars, discVars, progVars, schedVars, plansVars>>
EachSpec == EachInit /\ [][EachNext]_eachVars

-----------------------------------------------------------------------------
\* What a Run is given of its Task is exact although plans are made early and
\* delivered late: the entries active at its fence, every reference once, and a
\* cursor that rests only on pages the Session had (contextScopeAtRevision,
\* hasResultEvidenceCursorGap, validateAcknowledgement).
TaskMemoryExact ==
  /\ on = "memory" => TM!MemoryAsOfFence /\ TM!RevisionsNameEvents /\ TM!OneSuccessor
  /\ on = "artifacts" =>
       /\ TA!TaskContextTypeOK /\ TA!EvidenceWithoutGap
       /\ TA!AcknowledgedWasDelivered /\ TA!RevisionNamesProjection

\* A Task ends only with what its policy asks for and with nothing left open,
\* its reviewers decided on what they saw, and retried commands neither exceed
\* its attempts nor repeat its summaries (result-repository.ts, task-repository.ts,
\* agent-task-service.ts).
TaskEndsJustified ==
  /\ on = "results" => WR!TaskWorkTypeOK /\ WR!CompletionIsBacked /\ WR!DecisionWasInformed
  /\ on = "fences" => WF!TerminalHasNoWork /\ WF!FencesAreShown /\ WF!AttemptsWithinBudget
  /\ on = "follow_ups" => WU!SummaryOnce /\ WU!ChildrenOfAccepted

\* A Discussion spends no more turns than it was granted, asks one wave at a time
\* and an Agent once per wave, and always has somebody to move it on, also after a
\* restart (discussion-orchestrator.ts).
DiscussionWithinBounds ==
  /\ on = "budget" => DB!WithinBudget
  /\ on = "recovery" => DR!NeverStranded /\ DR!SweepCloses
  /\ on = "quorum" => DQ!NeverStranded /\ DQ!OneOpenWave /\ DQ!OneTurnPerAgent

\* What ends a Discussion is what its participants said last: an approval is of the
\* current proposal, all agreed to a goal called reached, and a participant the
\* focus selects was allowed and needed (progress-evaluator.ts).
ProgressIsOfReports ==
  /\ on = "progress" => PP!ApprovalIsCurrent /\ PP!SatisfiedByAll
  /\ on = "focus" => PF!SelectionNeverRejected /\ PF!SelectionsAllowed /\ PF!SupplementsAreLate

\* What a step may never do: review a candidate or decide a Result again, reopen a
\* Discussion (but for the seal of a canceled one, see TerminalIsFinalStep) or a
\* closed wave, end a Discussion on a conclusion its policy excludes, drop a
\* question nobody answered, change an instruction given.
DecidedStaysDecided ==
  [][/\ on = "memory" => TM!ReviewedOnceStep
     /\ on = "results" => WR!DecisionsAreFinalStep
     /\ on = "recovery" => DR!TerminalIsFinalStep
     /\ on = "quorum" => DQ!ClosedWavesAreFrozenStep /\ DQ!TerminalIsFinalStep
     /\ on = "progress" => PP!ConclusionsAllowedStep /\ PP!OpenQuestionsKeptStep
     /\ on = "focus" => PF!InstructionIsFrozenStep]_eachVars

\* Readiness is read before the admission's transaction, by several servers at
\* once: neither the scheduler nor a command or retry begins a Run beyond what an
\* Agent and a plan may have in progress, or attempts a node again while somebody can
\* still work on it.  Members' Messages, admitted without readiness, are the
\* exception their definitions name (execution-scheduler.ts,
\* governed-run-admission-service.ts).
AdmissionsBounded ==
  /\ on = "servers" => XS!SchedulerTypeOK /\ XS!AgentCapacity
  /\ on = "capacity" => XC!PlanConcurrency
  /\ on = "commands" => XO!SettledBeforeNext
  /\ on = "messages" => XM!SettledBeforeNext /\ XM!AgentCapacity /\ XM!PlanConcurrency

\* Whatever order drafts, reviews, activations and adoptions arrive in, an active
\* plan governs exactly the Tasks of the revision its author reviewed, an Agent's
\* delegation never broadens it, and supersession strands no adopted output
\* (execution-approval-repository.ts, execution-plan-supersession-service.ts).
PlansGovernAsReviewed ==
  /\ on = "governance" =>
       PG!PlanTypeOK /\ PG!ClaimsExclusive /\ PG!NoUngovernedWork /\ PG!ReviewedAsSeen
  /\ on = "carry" => PC!NeverStranded /\ PC!EvidenceClosed
  /\ on = "delegation" => PD!AgentNeverBroadens

=============================================================================
