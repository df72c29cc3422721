------------------------------ MODULE TaskWork ------------------------------
(***************************************************************************)
(* The Task aggregate of apps/server/src/task: definition, lifecycle,      *)
(* blocks, Runs counted against the budget, Result proposals, their review *)
(* and the follow-up Tasks made from an accepted Result.  Clients (the     *)
(* Task Owner, the Team Owner, an assigned Agent, the orchestrator) act on *)
(* what they last read; every command but the old PATCH carries the Task   *)
(* revision it was composed for.                                           *)
(***************************************************************************)
EXTENDS Integers, FiniteSets, FiniteSetsExt, TLC

CONSTANTS
  Tasks,          \* Task identities; the first one may be the Room's default
  Results,        \* Result identities
  Runs,           \* Run identities
  Clients,        \* those who read the Task and send commands
  Criteria,       \* criterion keys a definition may require
  Operations,     \* operation ids of follow-up commands
  MaxRunAttempts, \* the Task's attempt budget
  MaxMentions,    \* Agents one Message may route to
  MaxRevision,    \* bound on Task revisions explored
  MaxPatches,     \* bound on PATCH requests
  MaxCrashes,     \* bound on server stops between a commit and its Message
  None

TaskWorkAssumption ==
  /\ MaxRunAttempts \in Nat \ {0} /\ MaxMentions \in Nat \ {0}
  /\ MaxRevision \in Nat /\ MaxPatches \in Nat /\ MaxCrashes \in Nat
  /\ None \notin Tasks \union Results

VARIABLES task, run, result, children, view, posts, patches, crashes
vars == <<task, run, result, children, view, posts, patches, crashes>>

LifecycleStates == {"draft", "ready", "active", "review", "completed", "canceled"}
TaskStates == {"open", "working", "blocked", "review", "completed", "canceled"}
terminalLifecycleStates == {"completed", "canceled"}
policies == {"owner_confirmed", "accepted_result_required"}
outcomes == {"satisfied", "not_satisfied"}
Created(t) == task[t] # None

\* A Member who owns the Task, or an Agent, managed or manual, from a Run of its own.
Authors == {"member", "agent"}

\* What the services let through of a request's definition, proposal and review.
Definitions == [policy : policies, required : SUBSET Criteria]
Proposals ==
  [author : Authors, outcome : outcomes, claims : SUBSET Criteria,
   supersedes : Results \union {None}]
Reviews == [decision : {"accepted", "rejected"}, complete : BOOLEAN]

allowedLifecycleTransitions ==
  [l \in LifecycleStates |->
     CASE l = "draft" -> {"ready", "canceled"}
       [] l = "ready" -> {"draft", "active", "canceled"}
       [] l = "active" -> {"review", "completed", "canceled"}
       [] l = "review" -> {"active", "completed", "canceled"}
       [] OTHER -> {}]

legacyState(l) ==
  CASE l = "active" -> "working"
    [] l \in {"review", "completed", "canceled"} -> l
    [] OTHER -> "open"

lifecycleStateBlocked(s) ==
  CASE s = "working" -> "active"
    [] s \in {"blocked", "review", "completed", "canceled"} -> s
    [] OTHER -> "ready"

lifecycleState(s) ==
  CASE s \in {"working", "blocked"} -> "active"
    [] s \in {"review", "completed", "canceled"} -> s
    [] OTHER -> "ready"

NewTask(lifecycle, policy, required, parent) ==
  [lifecycle |-> lifecycle, state |-> "open", scheduling |-> "enabled",
   policy |-> policy, required |-> required, rev |-> 1, def |-> 1, crit |-> 1,
   blocks |-> 0, attempts |-> 0, completion |-> None, parent |-> parent]

Init ==
  /\ task = [t \in Tasks |-> None]
  /\ run = [r \in Runs |-> None]
  /\ result = [x \in Results |-> None]
  /\ children = {}
  /\ view = [c \in Clients |-> None]
  /\ posts = [x \in Results |-> [proposed |-> 0, reviewed |-> 0]]
  /\ patches = 0 /\ crashes = 0

-----------------------------------------------------------------------------
\* What a handler reads

RunsOf(t, S) == {r \in Runs : run[r] # None /\ run[r].task = t /\ run[r].state \in S}
hasActiveWork(t) == RunsOf(t, {"active", "input_required"}) # {}
hasUnacknowledgedAmbiguity(t) == RunsOf(t, {"outcome_unknown"}) # {}

\* What a client is shown of a Task; the revision stands for all of it.
Snapshot(t) ==
  [task |-> t, rev |-> task[t].rev, def |-> task[t].def, crit |-> task[t].crit,
   required |-> task[t].required, policy |-> task[t].policy,
   blocks |-> task[t].blocks, lifecycle |-> task[t].lifecycle]

ResultsOf(t) == {x \in Results : result[x] # None /\ result[x].task = t}
Pending(t) == {x \in ResultsOf(t) : result[x].state \in {"proposed", "rejected"}}
Newest(S) == CHOOSE x \in S : \A y \in S : result[y].version <= result[x].version
IsCurrent(x) ==
  LET t == result[x].task IN
    result[x].def = task[t].def /\ result[x].crit = task[t].crit

pendingAttention(t) ==
  IF Pending(t) = {} THEN {}
  ELSE LET x == Newest(Pending(t)) IN
    IF result[x].state = "rejected" THEN {"result_rejected"}
    ELSE IF IsCurrent(x) THEN {"needs_approval"} ELSE {"result_stale"}

attentionNoBlock(t) ==
  (IF RunsOf(t, {"input_required"}) # {} THEN {"needs_input"} ELSE {})
    \union (IF hasUnacknowledgedAmbiguity(t) THEN {"outcome_unknown"} ELSE {})
    \union pendingAttention(t)
    \union (IF task[t].scheduling = "paused" THEN {"paused"} ELSE {})
    \union (IF task[t].attempts >= MaxRunAttempts THEN {"budget_exhausted"} ELSE {})

attention(t) ==
  (IF RunsOf(t, {"input_required"}) # {} THEN {"needs_input"} ELSE {})
    \union (IF hasUnacknowledgedAmbiguity(t) THEN {"outcome_unknown"} ELSE {})
    \union pendingAttention(t)
    \union (IF task[t].blocks > 0 THEN {"blocked"} ELSE {})
    \union (IF task[t].scheduling = "paused" THEN {"paused"} ELSE {})
    \union (IF task[t].attempts >= MaxRunAttempts THEN {"budget_exhausted"} ELSE {})

attentionPriority ==
  <<"needs_input", "outcome_unknown", "needs_approval", "result_stale", "blocked",
    "paused", "budget_exhausted", "result_rejected">>

reasonMap ==
  [needs_input |-> "provide_input", outcome_unknown |-> "acknowledge_outcome",
   needs_approval |-> "review_result", result_stale |-> "review_result",
   blocked |-> "resolve_block", paused |-> "resume_scheduling",
   budget_exhausted |-> "increase_budget", result_rejected |-> "submit_result"]

nextAction(t) ==
  IF attention(t) # {}
  THEN reasonMap[attentionPriority[Min({i \in 1..8 : attentionPriority[i] \in attention(t)})]]
  ELSE CASE task[t].lifecycle = "ready" -> "start_work"
         [] task[t].lifecycle \in {"active", "review"} -> "submit_result"
         [] OTHER -> "none"

-----------------------------------------------------------------------------
\* Migration 0045: no write of these columns leaves a completion without its Result.

completionValidAny(rec) == TRUE
completionValid(rec) ==
  /\ rec.completion # None =>
       /\ result[rec.completion].state = "accepted"
       /\ result[rec.completion].def = rec.def /\ result[rec.completion].crit = rec.crit
  /\ (rec.lifecycle = "completed" /\ rec.policy = "accepted_result_required")
       => rec.completion # None
  /\ (rec.lifecycle = "completed" /\ rec.completion # None)
       => rec.required \subseteq result[rec.completion].claims

requireRevision(t, c) ==
  /\ Created(t) /\ view[c] # None /\ view[c].task = t
  /\ task[t].rev = view[c].rev /\ task[t].rev < MaxRevision

Advance(rec) == [rec EXCEPT !.rev = @ + 1]
Put(t, rec) == task' = [task EXCEPT ![t] = rec]

\* GET /api/tasks/:taskId
get(c, t) ==
  /\ Created(t) /\ view[c] # Snapshot(t)
  /\ view' = [view EXCEPT ![c] = Snapshot(t)]
  /\ UNCHANGED <<task, run, result, children, posts, patches, crashes>>

create(t, lifecycle, d) ==
  /\ ~Created(t)
  /\ Put(t, NewTask(lifecycle, d.policy, d.required, None))
  /\ UNCHANGED <<run, result, children, view, posts, patches, crashes>>

\* A changed title or goal starts a new definition, changed criteria start both.
Redefined(t, edited, d) ==
  LET criteriaChanged == d.required # task[t].required
      bump == IF edited \/ criteriaChanged THEN 1 ELSE 0
  IN [Advance(task[t]) EXCEPT !.policy = d.policy, !.required = d.required,
        !.def = @ + bump, !.crit = @ + (IF criteriaChanged THEN 1 ELSE 0)]

updateDefinition(c, t, edited, d) ==
  /\ requireRevision(t, c)
  /\ completionValid(Redefined(t, edited, d))
  /\ Put(t, Redefined(t, edited, d))
  /\ UNCHANGED <<run, result, children, view, posts, patches, crashes>>

ControlAllowed(t, lifecycle) ==
  /\ lifecycle \in allowedLifecycleTransitions[task[t].lifecycle]
  /\ lifecycle \in terminalLifecycleStates =>
       /\ ~hasActiveWork(t) /\ ~hasUnacknowledgedAmbiguity(t)
       /\ lifecycle = "completed" => task[t].policy # "accepted_result_required"

\* One command may move the lifecycle, the scheduling state, or both.
updateControl(c, t, lifecycle, scheduling) ==
  LET rec == [Advance(task[t]) EXCEPT !.lifecycle = lifecycle, !.scheduling = scheduling,
                !.state = legacyState(lifecycle)]
  IN /\ requireRevision(t, c)
     /\ <<lifecycle, scheduling>> # <<task[t].lifecycle, task[t].scheduling>>
     /\ lifecycle # task[t].lifecycle => ControlAllowed(t, lifecycle)
     /\ completionValid(rec)
     /\ Put(t, rec)
     /\ UNCHANGED <<run, result, children, view, posts, patches, crashes>>

addBlockSilent(c, t) ==
  /\ requireRevision(t, c) /\ task[t].blocks = 0
  /\ Put(t, [task[t] EXCEPT !.blocks = 1])
  /\ UNCHANGED <<run, result, children, view, posts, patches, crashes>>

\* One open block at a time is explored.
addBlock(c, t) ==
  /\ requireRevision(t, c) /\ task[t].blocks = 0
  /\ Put(t, [Advance(task[t]) EXCEPT !.blocks = 1])
  /\ UNCHANGED <<run, result, children, view, posts, patches, crashes>>

resolveBlock(c, t) ==
  /\ requireRevision(t, c)
  /\ task[t].blocks = 1
  /\ Put(t, [Advance(task[t]) EXCEPT !.blocks = 0])
  /\ UNCHANGED <<run, result, children, view, posts, patches, crashes>>

BlockCommand(c, t) ==
  \/ Created(t) /\ task[t].lifecycle \notin terminalLifecycleStates /\ addBlock(c, t)
  \/ resolveBlock(c, t)

\* The approval of an execution plan moves the Task revision and nothing else of it.
fenceRevision(c, t) ==
  /\ requireRevision(t, c)
  /\ Put(t, Advance(task[t]))
  /\ UNCHANGED <<run, result, children, view, posts, patches, crashes>>

recordExecutionApproval(c, t) ==
  Created(t) /\ task[t].lifecycle \notin terminalLifecycleStates /\ fenceRevision(c, t)

PatchAllowedAlways(t, state) == TRUE
PatchAllowed(t, state) ==
  /\ (state \in terminalLifecycleStates /\ task[t].state \notin terminalLifecycleStates)
       => ~hasActiveWork(t)
  /\ state = "completed" => task[t].policy # "accepted_result_required"

\* PATCH /api/tasks/:taskId carries no revision; state = None leaves it out.
update(t, state, edited) ==
  LET next == IF state = None THEN task[t].state ELSE state
      rec == [Advance(task[t]) EXCEPT !.state = next, !.lifecycle = lifecycleState(next),
                !.def = @ + (IF edited THEN 1 ELSE 0)]
  IN /\ Created(t) /\ task[t].rev < MaxRevision /\ patches < MaxPatches
     /\ state # None => PatchAllowed(t, state)
     /\ state # None \/ edited
     /\ completionValid(rec)
     /\ Put(t, rec)
     /\ patches' = patches + 1
     /\ UNCHANGED <<run, result, children, view, posts, crashes>>

-----------------------------------------------------------------------------
\* Runs, as far as the Task sees them

isRunTaskRunnableOver(t) ==
  /\ task[t].lifecycle \in {"ready", "active", "review"}
  /\ task[t].scheduling = "enabled"
  /\ task[t].attempts <= MaxRunAttempts

isRunTaskRunnable(t) ==
  /\ task[t].lifecycle \in {"ready", "active", "review"}
  /\ task[t].scheduling = "enabled"
  /\ task[t].attempts < MaxRunAttempts

InsertRuns(t, S) ==
  /\ run' = [r \in Runs |-> IF r \in S THEN [task |-> t, state |-> "active"] ELSE run[r]]
  /\ task' = [task EXCEPT ![t].attempts = @ + Cardinality(S)]

\* One Message routed to S Agents; the budget is read once for all of them.
createRunsForMessage(t, S) ==
  /\ Created(t) /\ S # {} /\ Cardinality(S) <= MaxMentions
  /\ \A r \in S : run[r] = None
  /\ isRunTaskRunnable(t)
  /\ InsertRuns(t, S)
  /\ UNCHANGED <<result, children, view, posts, patches, crashes>>

createRetry(c, r, new) ==
  /\ run[r] # None /\ run[r].state \in {"failed", "acknowledged"} /\ run[new] = None
  /\ requireRevision(run[r].task, c)
  /\ isRunTaskRunnable(run[r].task)
  /\ InsertRuns(run[r].task, {new})
  /\ UNCHANGED <<result, children, view, posts, patches, crashes>>

\* A Run asks its question, or ends; ending closes the question with it.
RunMoves(r, s) ==
  /\ run[r] # None /\ run[r].state \in {"active", "input_required"} /\ run[r].state # s
  /\ run' = [run EXCEPT ![r].state = s]
  /\ UNCHANGED <<task, result, children, view, posts, patches, crashes>>

acknowledgeAmbiguity(c, r) ==
  /\ run[r] # None /\ run[r].state = "outcome_unknown"
  /\ requireRevision(run[r].task, c)
  /\ run' = [run EXCEPT ![r].state = "acknowledged"]
  /\ Put(run[r].task, Advance(task[run[r].task]))
  /\ UNCHANGED <<result, children, view, posts, patches, crashes>>

-----------------------------------------------------------------------------
\* Results

\* An Agent proposes from a Run of its own in the Task; a Member needs none.
AuthorAllowed(t, author) == author = "agent" => RunsOf(t, {"active", "input_required",
  "done", "failed", "outcome_unknown", "acknowledged"}) # {}

supersedableDecided(t, old) ==
  old # None =>
    /\ old \in ResultsOf(t)
    /\ \A y \in ResultsOf(t) : result[y].supersedes # old

supersedable(t, old) ==
  old # None =>
    /\ old \in Pending(t)
    /\ \A y \in ResultsOf(t) : result[y].supersedes # old

\* The Message that links a Result into the Room is keyed by Result and event.
appendTwice(x, event) == [posts EXCEPT ![x][event] = @ + 1]
appendRoomSummary(x, event) ==
  [posts EXCEPT ![x][event] = IF @ = 0 THEN 1 ELSE @]

\* The server may stop after the commit and before the Message.
Linked(x, event, stops) ==
  /\ stops => crashes < MaxCrashes
  /\ crashes' = crashes + (IF stops THEN 1 ELSE 0)
  /\ posts' = IF stops THEN posts ELSE appendRoomSummary(x, event)

NewResult(t, p) ==
  [task |-> t, version |-> Cardinality(ResultsOf(t)) + 1, state |-> "proposed",
   def |-> task[t].def, crit |-> task[t].crit, outcome |-> p.outcome,
   claims |-> p.claims, supersedes |-> p.supersedes, review |-> None]

propose(c, t, x, p, stops) ==
  /\ result[x] = None /\ requireRevision(t, c)
  /\ task[t].lifecycle \in {"active", "review"}
  /\ view[c].def = task[t].def /\ view[c].crit = task[t].crit
  /\ p.claims \subseteq task[t].required
  /\ AuthorAllowed(t, p.author) /\ supersedable(t, p.supersedes)
  /\ result' =
       [y \in Results |->
          IF y = x THEN NewResult(t, p)
          ELSE IF y = p.supersedes THEN [result[y] EXCEPT !.state = "superseded"] ELSE result[y]]
  /\ Put(t, Advance(task[t]))
  /\ Linked(x, "proposed", stops)
  /\ UNCHANGED <<run, children, view, patches>>

requireCompletable(x) ==
  LET t == result[x].task IN
    /\ result[x].outcome = "satisfied"
    /\ task[t].lifecycle \in {"active", "review"}
    /\ ~hasActiveWork(t) /\ ~hasUnacknowledgedAmbiguity(t) /\ task[t].blocks = 0
    /\ task[t].required \subseteq result[x].claims

review(c, x, v, stops) ==
  LET t == result[x].task
      rec == IF v.complete
             THEN [Advance(task[t]) EXCEPT !.lifecycle = "completed", !.state = "completed",
                     !.completion = x]
             ELSE Advance(task[t])
  IN /\ result[x] # None /\ result[x].state = "proposed"
     /\ requireRevision(t, c)
     /\ v.complete => v.decision = "accepted"
     /\ v.decision = "accepted" => IsCurrent(x)
     /\ v.complete => requireCompletable(x)
     /\ result' = [result EXCEPT ![x].state = v.decision,
                     ![x].review = [decision |-> v.decision, complete |-> v.complete,
                                    seen |-> view[c], was |-> Snapshot(t)]]
     /\ Put(t, rec)
     /\ Linked(x, "reviewed", stops)
     /\ UNCHANGED <<run, children, view, patches>>

\* A response-loss retry returns what is stored and posts the Message again.
Replay(x, event) ==
  /\ result[x] # None
  /\ event = "reviewed" => result[x].review # None
  /\ posts' = appendRoomSummary(x, event)
  /\ posts' # posts
  /\ UNCHANGED <<task, run, result, children, view, patches, crashes>>

actionAnyResult(x) == result[x] # None
acceptedAction(x) == result[x] # None /\ result[x].state = "accepted"

createChildTask(op, x, t) ==
  /\ acceptedAction(x) /\ ~Created(t)
  /\ \A ch \in children : ch.op # op
  /\ Put(t, NewTask("draft", "owner_confirmed", {}, result[x].task))
  /\ children' = children \union {[op |-> op, source |-> x, task |-> t]}
  /\ UNCHANGED <<run, result, view, posts, patches, crashes>>

-----------------------------------------------------------------------------

DefinitionCommand(c, t) ==
  \E edited \in BOOLEAN, d \in Definitions : updateDefinition(c, t, edited, d)

TaskCommand(c, t) ==
  \/ DefinitionCommand(c, t)
  \/ \E l \in LifecycleStates, s \in {"enabled", "paused"} : updateControl(c, t, l, s)
  \/ BlockCommand(c, t)

ClientStep(c) ==
  \/ \E t \in Tasks :
       \/ get(c, t) \/ TaskCommand(c, t) \/ recordExecutionApproval(c, t)
       \/ \E x \in Results, p \in Proposals, stops \in BOOLEAN : propose(c, t, x, p, stops)
  \/ \E x \in Results, v \in Reviews, stops \in BOOLEAN : review(c, x, v, stops)
  \/ \E r \in Runs : acknowledgeAmbiguity(c, r) \/ \E new \in Runs : createRetry(c, r, new)

Next ==
  \/ \E c \in Clients : ClientStep(c)
  \/ \E t \in Tasks, l \in {"draft", "ready"}, d \in Definitions : create(t, l, d)
  \/ \E t \in Tasks, s \in TaskStates \union {None}, edited \in BOOLEAN : update(t, s, edited)
  \/ \E t \in Tasks, S \in SUBSET Runs : createRunsForMessage(t, S)
  \/ \E r \in Runs, s \in {"input_required", "done", "failed", "outcome_unknown"} : RunMoves(r, s)
  \/ \E x \in Results, e \in {"proposed", "reviewed"} : Replay(x, e)
  \/ \E op \in Operations, x \in Results, t \in Tasks : createChildTask(op, x, t)

Spec == Init /\ [][Next]_vars

-----------------------------------------------------------------------------
\* The values the tables of migrations 0043 to 0045 allow.
TaskWorkTypeOK ==
  /\ \A t \in Tasks : Created(t) =>
       /\ task[t].lifecycle \in LifecycleStates /\ task[t].state \in TaskStates
       /\ task[t].lifecycle = "draft" \/ task[t].lifecycle = lifecycleState(task[t].state)
       /\ task[t].crit <= task[t].def /\ task[t].def <= task[t].rev
       /\ task[t].completion \in Results \union {None}
  /\ \A x \in Results : result[x] # None =>
       result[x].state \in {"proposed", "accepted", "rejected", "superseded"}

\* A completed Task that requires an accepted Result names one that was
\* accepted for the definition and criteria still in force and that claims
\* every required criterion (result-repository.ts requireCompletable and the
\* trigger of migration 0045), whatever edits, reviews and PATCHes came after.
CompletionIsBacked ==
  \A t \in Tasks :
    (Created(t) /\ task[t].lifecycle = "completed"
       /\ task[t].policy = "accepted_result_required") =>
      LET x == task[t].completion IN
        /\ x # None /\ result[x].state = "accepted" /\ result[x].review.complete
        /\ IsCurrent(x) /\ task[t].required \subseteq result[x].claims

\* A reviewer decides on what he was shown: nobody changed the definition,
\* the criteria, the policy, the blocks or the lifecycle since he read the
\* Task.  It needs every command that writes one of them to advance the Task
\* revision (task-repository.ts requireRevision, result-repository.ts review).
DecisionWasInformed ==
  \A x \in Results :
    (result[x] # None /\ result[x].review # None) =>
      result[x].review.seen = result[x].review.was

\* No Run, Discussion or question is open in a completed or canceled Task
\* (agent-task-service.ts updateControl and update, isRunTaskRunnable).
TerminalHasNoWork ==
  \A t \in Tasks :
    (Created(t) /\ task[t].lifecycle \in terminalLifecycleStates) => ~hasActiveWork(t)

\* What would refuse a completing review is on the Task's attention list, and
\* the next action is about it, not about starting or submitting work
\* (task-repository.ts attention and nextAction against requireCompletable).
FencesAreShown ==
  \A x \in Results :
    (result[x] # None /\ result[x].state = "proposed" /\ result[x].outcome = "satisfied"
       /\ task[result[x].task].lifecycle \in {"active", "review"}
       /\ task[result[x].task].required \subseteq result[x].claims
       /\ ~requireCompletable(x)) =>
      LET t == result[x].task IN
        \/ RunsOf(t, {"active"}) # {}
        \/ /\ attention(t) \intersect {"needs_input", "outcome_unknown", "blocked"} # {}
           /\ nextAction(t) \notin {"start_work", "submit_result", "none"}

\* A Task never has more attempts than its budget, except that the Message
\* that uses up the budget starts all the Agents it mentions
\* (run-service.ts isRunTaskRunnable, run-repository.ts createRetry).
AttemptsWithinBudget ==
  \A t \in Tasks :
    Created(t) =>
      /\ task[t].attempts = Cardinality({r \in Runs : run[r] # None /\ run[r].task = t})
      /\ task[t].attempts <= MaxRunAttempts + MaxMentions - 1

\* The Room is told of a proposal and of a review at most once, however often
\* the command is retried (result-service.ts appendRoomSummary).
SummaryOnce ==
  \A x \in Results : posts[x].proposed <= 1 /\ posts[x].reviewed <= 1

\* A follow-up Task comes from a Result of its parent that is still accepted,
\* whatever became of the parent since (result-repository.ts createChildSource).
ChildrenOfAccepted ==
  \A ch \in children :
    result[ch.source].state = "accepted" /\ task[ch.task].parent = result[ch.source].task

\* A decided Result keeps its decision; it can only be superseded while it was
\* not accepted, and by one successor (migration 0045, result-repository.ts).
DecisionsAreFinalStep ==
  /\ \A x \in Results :
       result[x] # None =>
         /\ result'[x].review = result[x].review \/ result[x].review = None
         /\ result[x].state = "accepted" => result'[x].state = "accepted"
         /\ result[x].state = "superseded" => result'[x].state = "superseded"
  /\ \A x, y \in Results :
       (result'[x] # None /\ result'[y] # None /\ result'[x].supersedes # None
          /\ result'[x].supersedes = result'[y].supersedes) => x = y
DecisionsAreFinal == [][DecisionsAreFinalStep]_vars

-----------------------------------------------------------------------------
\* docs/adr/0022: "`completed` and `canceled` remain terminal."
TerminalIsFinal ==
  [][\A t \in Tasks :
       (Created(t) /\ task[t].lifecycle \in terminalLifecycleStates) =>
         task'[t].lifecycle = task[t].lifecycle]_vars

\* docs/adr/0022: completion and cancellation come "only after the active-work
\* and ambiguity fences pass".
AmbiguityIsFenced ==
  \A t \in Tasks :
    (Created(t) /\ task[t].lifecycle \in terminalLifecycleStates) =>
      ~hasUnacknowledgedAmbiguity(t)

\* docs/adr/0022: needs_approval stands for "one or more current-definition
\* proposed Results without decisions".
ProposalsAreShown ==
  \A x \in Results :
    (result[x] # None /\ result[x].state = "proposed" /\ IsCurrent(x)) =>
      "needs_approval" \in attention(result[x].task)

\* docs/adr/0022: "`draft -> ready` requires ... at least one required
\* criterion for `accepted_result_required`".
ReadyHasCriteria ==
  [][\A t \in Tasks :
       (Created(t) /\ task[t].lifecycle = "draft" /\ task'[t].lifecycle = "ready"
          /\ task'[t].policy = "accepted_result_required") => task'[t].required # {}]_vars
=============================================================================
