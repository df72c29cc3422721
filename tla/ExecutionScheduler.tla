--------------------------- MODULE ExecutionScheduler ---------------------------
(***************************************************************************)
(* The scheduler of approved execution plans (apps/server/src/execution):  *)
(* the periodic sweep, the readiness policy, governed admission, the       *)
(* settlement of node projections, the owner's scheduler commands, the     *)
(* retry of a node and the recovery of a restarted server.                 *)
(*                                                                         *)
(* Several servers share one SQLite database.  What a transaction does is  *)
(* one step; what a sweep does between two transactions is not protected.  *)
(* A plan is a sequence of nodes in topological order; the plans are       *)
(* numbered in the order of their approval.                                *)
(***************************************************************************)
EXTENDS Naturals, Sequences, FiniteSets

CONSTANTS Servers,         \* server processes on the database
          Agents,
          Graph,           \* a sequence of plans, each of nodes [agent, needs]
          MaxConcurrency,  \* policy.maxConcurrency
          MaxRunAttempts,  \* policy.budget.maxRunAttempts
          MaxEvaluations,  \* maxCandidateEvaluations (256)
          Endings,         \* bound on how a Run ends
          Revisions,       \* bound on the revisions of a plan
          Operations,      \* operation ids of owner commands
          Kinds,           \* the kinds of command owners send
          Archivable,      \* plans whose Room may be archived
          Drifting,        \* plans with a Task that members may change
          Attempts,        \* bound on the generations of a node
          Messages,        \* bound on member messages that dispatch a node
          Outages,         \* bound on Agents that go away
          Crashes          \* bound on crashes

Plans == 1..Len(Graph)
Nodes(p) == 1..Len(Graph[p])
Ids == UNION {{<<p, r, i>> : r \in 1..Revisions, i \in Nodes(p)} : p \in Plans}
NodeOf(id) == Graph[id[1]][id[3]]

SchedulerAssumption ==
  /\ IsFiniteSet(Servers) /\ IsFiniteSet(Agents) /\ IsFiniteSet(Operations)
  /\ \A p \in Plans : \A i \in Nodes(p) :
       Graph[p][i].agent \in Agents /\ Graph[p][i].needs \subseteq 1..(i - 1)
  /\ {MaxConcurrency, MaxRunAttempts, MaxEvaluations, Revisions, Attempts} \subseteq Nat \ {0}
  /\ {Messages, Outages, Crashes} \subseteq Nat
  /\ Endings \subseteq {"completed", "failed", "outcome_unknown"}
  /\ Kinds \subseteq {"mode", "manual", "advance", "retry"} /\ Archivable \cup Drifting \subseteq Plans

VARIABLES plan,       \* current revision, scheduler mode, mode revision, paused
          archived,   \* plans whose Room is archived
          intents,    \* execution_dispatch_intents with their Runs, by generation
          adopted,    \* nodes with an adopted materialization
          proj,       \* execution_node_states
          cursor,     \* the fairness cursor of each Agent
          available,  \* Agents with their capability and one exact grant
          sweep,      \* the sweep of each server
          command,    \* owner commands that were sent
          receipts,   \* operations that were completed
          messages, outages, crashes

ledger == <<plan, archived, intents, adopted, cursor>>
bounds == <<messages, outages, crashes>>
vars == <<ledger, proj, available, sweep, command, receipts, bounds>>

active == {"queued", "working"}
retryable == {"failed", "outcome_unknown"}
Latest(id) == intents[id][Len(intents[id])]
Current(id) == id[2] = plan[id[1]].rev
Runs(S) == UNION {{<<id, k>> : k \in DOMAIN intents[id]} : id \in S}
ActiveRuns(S) == {x \in Runs(S) : intents[x[1]][x[2]].state \in active}

-----------------------------------------------------------------------------
(* Readiness and admission. *)

\* Mutant: only the Runs of the plan itself count for the Agent.
activeAgentRunsOfPlan(id) ==
  ActiveRuns({x \in Ids : x[1] = id[1] /\ NodeOf(x).agent = NodeOf(id).agent})

activeAgentRuns(id) == ActiveRuns({x \in Ids : NodeOf(x).agent = NodeOf(id).agent})

activePlanRuns(id) == ActiveRuns({x \in Ids : x[1] = id[1] /\ x[2] = id[2]})
planAttempts(id) == Runs({x \in Ids : x[1] = id[1] /\ x[2] = id[2]})

\* An attempt of an earlier revision at the same Task that may still be going on.
priorAttempt(id) ==
  \E x \in Runs({y \in Ids : y[1] = id[1] /\ y[3] = id[3] /\ y[2] < id[2]}) :
    LET run == intents[x[1]][x[2]] IN
    run.state \in active \/ (run.state = "outcome_unknown" /\ ~run.acked)

\* Mutant: attempts of earlier revisions are not looked at.
existingAttemptCurrent(id, ignore) == ~ignore /\ (intents[id] # <<>> \/ id \in adopted)

existingAttempt(id, ignore) ==
  (~ignore /\ (intents[id] # <<>> \/ id \in adopted)) \/ priorAttempt(id)

\* resolve: every incoming edge has its adopted materialization.
dependencyReady(id) == \A j \in NodeOf(id).needs : <<id[1], id[2], j>> \in adopted

\* Enabled, connected, with the capability it registered and one exact grant.
capabilityAvailable(a) == a \in available

evaluateReadiness(id, ignore) ==
  /\ Current(id) /\ ~plan[id[1]].paused
  /\ ~existingAttempt(id, ignore)
  /\ dependencyReady(id)
  /\ Cardinality(planAttempts(id)) < MaxRunAttempts
  /\ Cardinality(activePlanRuns(id)) < MaxConcurrency
  /\ activeAgentRuns(id) = {}
  /\ capabilityAvailable(NodeOf(id).agent)

\* Mutant: the state of the plan is not looked at.
admissiblePaused(id) ==
  intents[id] = <<>> /\ dependencyReady(id) /\ capabilityAvailable(NodeOf(id).agent)

\* What admit itself checks.
admissible(id) ==
  /\ ~plan[id[1]].paused /\ intents[id] = <<>>
  /\ dependencyReady(id) /\ capabilityAvailable(NodeOf(id).agent)

\* The inserts of admit: intent, admission, Run; the triggers refuse an
\* archived Room.  Generation is the position in the sequence, nth the order of
\* the admissions (created_at).
NewRun(source, handed) ==
  [state |-> "queued", source |-> source, handed |-> handed, acked |-> FALSE,
   accepted |-> FALSE, nth |-> Cardinality(Runs(Ids)) + 1]

\* fairness.advance: every new admission, whoever asked for it.
advance(id) ==
  [cursor EXCEPT ![NodeOf(id).agent] = [plan |-> id[1], rev |-> id[2], n |-> @.n + 1]]

admit(id, source, handed) ==
  /\ id[1] \notin archived
  /\ intents' = [intents EXCEPT ![id] = Append(@, NewRun(source, handed))]
  /\ cursor' = advance(id)
  /\ UNCHANGED <<plan, archived, adopted>>

-----------------------------------------------------------------------------
(* Projections.  A write that changes a row raises its projection revision: a
   command that was sent with the earlier revision is not current any more. *)

Row(state, gen, last) == [state |-> state, gen |-> gen, last |-> last]
NoRow == Row("none", 0, "none")

ensureCurrent(pr) ==
  [id \in Ids |-> IF Current(id) /\ pr[id] = NoRow THEN Row("blocked", 0, "none")
                  ELSE pr[id]]

projectReadiness(pr, id, ready) ==
  [pr EXCEPT ![id] = Row(IF ready THEN "ready" ELSE "blocked", 0, "none")]

settleRun(state) ==
  CASE state = "queued"          -> "dispatched"
    [] state = "working"         -> "working"
    [] state = "completed"       -> "awaiting_result"
    [] state = "failed"          -> "failed"
    [] state = "outcome_unknown" -> "outcome_unknown"

\* Mutant: the projection names the generation to come.
reconcileNodeAhead(pr, id) ==
  IF intents[id] = <<>> THEN pr[id]
  ELSE Row(settleRun(Latest(id).state), Len(intents[id]) + 1, Latest(id).state)

reconcileNode(pr, id) ==
  IF intents[id] = <<>>
  THEN IF plan[id[1]].paused THEN Row("blocked", 0, "none") ELSE pr[id]
  ELSE Row(settleRun(Latest(id).state), Len(intents[id]), Latest(id).state)

\* reconcile: all nodes of current revisions, their materializations first.
reconciled(pr) ==
  [id \in Ids |-> IF Current(id) THEN reconcileNode(pr, id) ELSE pr[id]]
materialized(S) ==
  adopted \cup {id \in S : /\ Current(id) /\ intents[id] # <<>>
                           /\ Latest(id).state = "completed" /\ Latest(id).accepted}

\* Commands keep the projection revision they were sent with.
Projected(pr) ==
  /\ proj' = pr
  /\ command' = [o \in Operations |->
       [command[o] EXCEPT !.current = @ /\ pr[command[o].id] = proj[command[o].id]]]

-----------------------------------------------------------------------------
(* The sweep. *)

\* Mutant: nodes whose Run has ended are listed again.
CandidatesEnded(p, mode) ==
  LET listed == {i \in Nodes(p) :
        LET id == <<p, plan[p].rev, i>> IN
        ~plan[p].paused /\ plan[p].mode = mode /\ proj[id].last \notin active /\ id \notin adopted}
  IN SelectSeq([i \in Nodes(p) |-> i], LAMBDA i : i \in listed)

Candidates(p, mode) ==
  LET listed == {i \in Nodes(p) :
        LET id == <<p, plan[p].rev, i>> IN
        /\ ~plan[p].paused /\ plan[p].mode = mode
        /\ ensureCurrent(proj)[id].gen = 0 /\ id \notin adopted}
  IN SelectSeq([i \in Nodes(p) |-> i], LAMBDA i : i \in listed)

\* A sweep is synchronous: its server handles nothing else until it has returned.
Idle == [at |-> "idle"]
Free(s) == sweep[s].at \in {"idle", "dispatch"}
Served == \E s \in Servers : Free(s)
head(w) == LET p == w.order[1] IN <<p, w.pins[p].rev, w.queues[p][1]>>
headAgent(w, p) == Graph[p][w.queues[p][1]].agent

\* Mutant: the base order, whatever the cursor says.
rotateNot(w, S) == CHOOSE p \in S : \A q \in S : p <= q

\* matching[(previous + 1) % matching.length]
rotate(w, S) ==
  LET a == headAgent(w, CHOOSE p \in S : TRUE)
      previous == {q \in S : q = cursor[a].plan /\ w.pins[q].rev = cursor[a].rev}
      after == {q \in S : \E p \in previous : q > p}
      from == IF after # {} THEN after ELSE S
  IN CHOOSE p \in from : \A q \in from : p <= q

\* orderQueues: the first remaining queue names the Agent, the plans whose
\* next candidate is for that Agent rotate behind its cursor.
orderQueues(w) ==
  LET Q == {p \in Plans : w.queues[p] # <<>>}
      f[R \in SUBSET Q] ==
        IF R = {} THEN <<>>
        ELSE LET base == CHOOSE p \in R : \A q \in R : p <= q
                 p == rotate(w, {q \in R : headAgent(w, q) = headAgent(w, base)})
             IN <<p>> \o f[R \ {p}]
  IN f[Q]

\* Mutant: a round ends with its first queue.
OnwardOnce(w) ==
  IF w.evaluated = MaxEvaluations THEN [w EXCEPT !.at = "dispatch"]
  ELSE IF w.left > 0 THEN [w EXCEPT !.at = "evaluate"]
  ELSE IF w.progressed /\ \E p \in Plans : w.queues[p] # <<>>
  THEN [w EXCEPT !.at = "round"]
  ELSE [w EXCEPT !.at = "dispatch"]

\* Where the two loops of sweep go on.
Onward(w) ==
  IF w.evaluated = MaxEvaluations THEN [w EXCEPT !.at = "dispatch"]
  ELSE IF w.left > 0 THEN [w EXCEPT !.at = "evaluate"]
  ELSE IF Len(w.order) > 1
  THEN [w EXCEPT !.at = "evaluate", !.order = Tail(@), !.left = Len(w.queues[w.order[2]])]
  ELSE IF w.progressed /\ \E p \in Plans : w.queues[p] # <<>>
  THEN [w EXCEPT !.at = "round"]
  ELSE [w EXCEPT !.at = "dispatch"]

Dropped(w) == [w EXCEPT !.queues[w.order[1]] = Tail(@), !.left = @ - 1]
Requeued(w) ==
  [w EXCEPT !.queues[w.order[1]] = Append(Tail(@), Head(@)), !.left = @ - 1]

Goes(s, w) == sweep' = [sweep EXCEPT ![s] = w]

\* sweep, up to the list of candidates.
SweepStarts(s) ==
  /\ sweep[s].at = "idle"
  /\ Projected(ensureCurrent(proj))
  /\ Goes(s, [at |-> "round", order |-> <<>>, left |-> 0, evaluated |-> 0,
              progressed |-> FALSE, ready |-> FALSE, seen |-> 0, admitted |-> {},
              queues |-> [p \in Plans |-> Candidates(p, "automatic")],
              pins |-> [p \in Plans |-> [rev |-> plan[p].rev, modeRev |-> plan[p].modeRev]]])
  /\ UNCHANGED <<ledger, available, receipts, bounds>>

\* settlement.reconcile and the order of this round.
Round(s) ==
  LET w == sweep[s]
      order == orderQueues(w)
  IN /\ w.at = "round"
     /\ Projected(reconciled(ensureCurrent(proj)))
     /\ adopted' = materialized(Ids)
     /\ Goes(s, IF order = <<>> THEN [w EXCEPT !.at = "dispatch"]
                ELSE [w EXCEPT !.at = "evaluate", !.order = order, !.progressed = FALSE,
                               !.left = Len(w.queues[order[1]])])
     /\ UNCHANGED <<plan, archived, intents, cursor, available, receipts, bounds>>

\* admission.readiness: read outside a transaction.
Evaluate(s) ==
  LET w == sweep[s] IN
  /\ w.at = "evaluate"
  /\ Goes(s, [w EXCEPT !.at = "project", !.evaluated = @ + 1,
                       !.ready = evaluateReadiness(head(w), FALSE)])
  /\ UNCHANGED <<ledger, proj, available, command, receipts, bounds>>

\* projectReadiness, and for a ready node the revision of its Agent's cursor.
Project(s) ==
  LET w == sweep[s] IN
  /\ w.at = "project"
  /\ Projected(projectReadiness(proj, head(w), w.ready))
  /\ Goes(s, IF w.ready THEN [w EXCEPT !.at = "admit", !.seen = cursor[NodeOf(head(w)).agent].n]
             ELSE Onward(Requeued(w)))
  /\ UNCHANGED <<ledger, available, receipts, bounds>>

\* Mutant: the readiness the sweep read is not read again.
stillReadyAsRead(id) == intents[id] = <<>>

\* Mutant: the Runs in progress are not counted again.
stillReadyUncounted(id) == intents[id] = <<>> /\ ~plan[id[1]].paused

stillReady(id) == evaluateReadiness(id, FALSE)


\* schedulerControls.require
require(p, mode, modeRev) == plan[p].mode = mode /\ plan[p].modeRev = modeRev

\* admitScheduled created a Run.
Admits(s) ==
  LET w == sweep[s]
      id == head(w)
  IN /\ w.at = "admit"
     /\ intents[id] = <<>>
     /\ require(id[1], "automatic", w.pins[id[1]].modeRev)
     /\ stillReady(id) /\ w.seen = cursor[NodeOf(id).agent].n
     /\ admit(id, "scheduler", FALSE)
     /\ Goes(s, [w EXCEPT !.at = "settle", !.admitted = @ \cup {id}])
     /\ UNCHANGED <<proj, available, command, receipts, bounds>>

\* The node has an intent by now: it leaves the queue.
AdmittedElsewhere(s) ==
  LET w == sweep[s] IN
  /\ w.at = "admit" /\ intents[head(w)] # <<>>
  /\ Goes(s, Onward(Dropped(w)))
  /\ UNCHANGED <<ledger, proj, available, command, receipts, bounds>>

\* An ExecutionError: the blocker is projected, the candidate waits its turn.
AdmissionRefused(s) ==
  LET w == sweep[s]
      id == head(w)
  IN /\ w.at = "admit" /\ intents[id] = <<>>
     /\ \/ ~require(id[1], "automatic", w.pins[id[1]].modeRev)
        \/ ~stillReady(id)
        \/ id[1] \notin archived /\ w.seen # cursor[NodeOf(id).agent].n
     /\ Projected(projectReadiness(proj, id, FALSE))
     /\ Goes(s, Onward(Requeued(w)))
     /\ UNCHANGED <<ledger, available, receipts, bounds>>

\* A trigger of the database refuses the intent, which is no ExecutionError:
\* the sweep throws and returns no Run.
AdmissionThrows(s) ==
  LET w == sweep[s]
      id == head(w)
  IN /\ w.at = "admit" /\ intents[id] = <<>> /\ id[1] \in archived
     /\ require(id[1], "automatic", w.pins[id[1]].modeRev) /\ stillReady(id)
     /\ Goes(s, Idle)
     /\ UNCHANGED <<ledger, proj, available, command, receipts, bounds>>

\* settlement.reconcileOne and break; it throws for a superseded revision.
Settles(s) ==
  LET w == sweep[s]
      id == head(w)
      rows == ensureCurrent(proj)
  IN /\ w.at = "settle"
     /\ Projected(IF Current(id) THEN [rows EXCEPT ![id] = reconcileNode(rows, id)] ELSE proj)
     /\ adopted' = materialized({id})
     /\ Goes(s, IF ~Current(id) THEN Idle
                ELSE Onward([w EXCEPT !.queues[id[1]] = Tail(@), !.left = 0,
                                      !.progressed = TRUE]))
     /\ UNCHANGED <<plan, archived, intents, cursor, available, receipts, bounds>>

Handed(S) ==
  [id \in Ids |-> [k \in DOMAIN intents[id] |->
     IF <<id, k>> \in S THEN [intents[id][k] EXCEPT !.handed = TRUE] ELSE intents[id][k]]]

\* sweepExecution hands the Runs of the sweep to dispatchRun.
Dispatches(s) ==
  /\ sweep[s].at = "dispatch"
  /\ intents' = Handed({<<id, 1>> : id \in sweep[s].admitted})
  /\ Goes(s, Idle)
  /\ UNCHANGED <<plan, archived, adopted, cursor, proj, available, command, receipts, bounds>>

Crash(s) ==
  /\ crashes < Crashes /\ sweep[s].at # "down"
  /\ crashes' = crashes + 1
  /\ Goes(s, [at |-> "down"])
  /\ UNCHANGED <<ledger, proj, available, command, receipts, messages, outages>>

\* Mutant: the projections are settled, the Runs wait for a sweep.
RecoverSettlesOnly(s) ==
  /\ sweep[s].at = "down"
  /\ Projected(reconciled(ensureCurrent(proj)))
  /\ adopted' = materialized(Ids)
  /\ Goes(s, Idle)
  /\ UNCHANGED <<plan, archived, intents, cursor, available, receipts, bounds>>

\* recover: settlement first, then every Run without a delivery is handed over.
Recover(s) ==
  /\ sweep[s].at = "down"
  /\ Projected(reconciled(ensureCurrent(proj)))
  /\ adopted' = materialized(Ids)
  /\ intents' = Handed({x \in Runs(Ids) : intents[x[1]][x[2]].state = "queued"})
  /\ Goes(s, Idle)
  /\ UNCHANGED <<plan, archived, cursor, available, receipts, bounds>>

-----------------------------------------------------------------------------
(* Owner commands.  A command carries the pins its sender saw, arrives at any
   time and may arrive again; a completed operation only repeats its receipt. *)

NoCommand == [kind |-> "none", id |-> CHOOSE id \in Ids : TRUE, modeRev |-> 0,
              target |-> "none", paused |-> FALSE, current |-> FALSE]

Targets == {"manual", "supervised", "automatic"}

\* A node command names a node, a mode command its target.
Sends(o) ==
  \E id \in Ids, kind \in Kinds, target \in Targets :
    /\ command[o] = NoCommand /\ Current(id) /\ id[1] \notin archived
    /\ kind \in {"mode", "advance"} => id[3] = 1
    /\ kind \in {"manual", "retry"} => proj[id] # NoRow
    /\ kind = "retry" => proj[id].last \in retryable
    /\ kind # "mode" => target = "manual"
    /\ command' = [command EXCEPT ![o] =
         [kind |-> kind, id |-> id, modeRev |-> plan[id[1]].modeRev, target |-> target,
          paused |-> plan[id[1]].paused, current |-> TRUE]]
    /\ UNCHANGED <<ledger, proj, available, sweep, receipts, bounds>>

\* The server that handles a command dispatches the Run, unless it dies first.
Handles(o, s, kind) ==
  /\ command[o].kind = kind /\ o \notin receipts
  /\ Current(command[o].id) /\ plan[command[o].id[1]].paused = command[o].paused
  /\ Free(s)
Hands(s, handed) ==
  \/ /\ handed
     /\ UNCHANGED <<sweep, bounds>>
  \/ /\ ~handed /\ crashes < Crashes
     /\ crashes' = crashes + 1 /\ Goes(s, [at |-> "down"])
     /\ UNCHANGED <<messages, outages>>

\* setMode
SetMode(o, s) ==
  LET c == command[o]
      p == c.id[1]
  IN /\ Handles(o, s, "mode")
     /\ plan[p].modeRev = c.modeRev /\ plan[p].mode # c.target
     /\ plan' = [plan EXCEPT ![p].mode = c.target, ![p].modeRev = @ + 1]
     /\ Projected(ensureCurrent(proj))
     /\ receipts' = receipts \cup {o}
     /\ UNCHANGED <<archived, intents, adopted, cursor, available, sweep, bounds>>

\* manualDispatch
ManualDispatch(o, s) ==
  LET c == command[o]
      id == c.id
  IN /\ Handles(o, s, "manual")
     /\ require(id[1], "manual", c.modeRev)
     /\ c.current /\ proj[id].gen = 0
     /\ intents[id] = <<>> /\ stillReady(id)
     /\ \E handed \in BOOLEAN : admit(id, "scheduler", handed) /\ Hands(s, handed)
     /\ Projected(ensureCurrent(proj))
     /\ receipts' = receipts \cup {o}
     /\ UNCHANGED available

\* advance: one supervised sweep of the plan inside the transaction.
Advance(o, s) ==
  LET c == command[o]
      p == c.id[1]
      listed == Candidates(p, "supervised")
      idAt(k) == <<p, plan[p].rev, listed[k]>>
      ready == {k \in 1..Len(listed) : k <= MaxEvaluations /\ evaluateReadiness(idAt(k), FALSE)}
      first == IF ready = {} THEN Len(listed) + 1 ELSE CHOOSE k \in ready : \A j \in ready : k <= j
      rows == reconciled(ensureCurrent(proj))
      passed == [id \in Ids |-> IF \E k \in 1..Len(listed) : k < first /\ k <= MaxEvaluations /\ id = idAt(k)
                                THEN Row("blocked", 0, "none") ELSE rows[id]]
  IN /\ Handles(o, s, "advance")
     /\ require(p, "supervised", c.modeRev)
     /\ IF ready = {}
        THEN /\ Projected(passed)
             /\ adopted' = materialized(Ids)
             /\ UNCHANGED <<plan, archived, intents, cursor, sweep, bounds>>
        ELSE LET id == idAt(first) IN
             /\ p \notin archived
             /\ \E handed \in BOOLEAN :
                  /\ intents' = [intents EXCEPT ![id] = Append(@, NewRun("scheduler", handed))]
                  /\ Hands(s, handed)
             /\ cursor' = advance(id)
             /\ Projected([passed EXCEPT ![id] = Row("dispatched", 1, "queued")])
             /\ adopted' = materialized(Ids)
             /\ UNCHANGED <<plan, archived>>
     /\ receipts' = receipts \cup {o}
     /\ UNCHANGED available

\* Mutant: the retried Run is not read again.
mayRetryProjected(id) == proj[id].last \in retryable

mayRetry(id) ==
  /\ proj[id].gen = Len(intents[id]) /\ proj[id].last = Latest(id).state
  /\ Latest(id).state \in retryable /\ id \notin adopted
  /\ Latest(id).state = "outcome_unknown" => Latest(id).acked

\* retry: reconcileOne outside of the transaction, then one transaction.
RetrySettles(o, s) ==
  LET id == command[o].id
      rows == ensureCurrent(proj)
  IN /\ Handles(o, s, "retry")
     /\ Projected([rows EXCEPT ![id] = reconcileNode(rows, id)])
     /\ adopted' = materialized({id})
     /\ UNCHANGED <<plan, archived, intents, cursor, available, sweep, receipts, bounds>>

Retry(o, s) ==
  LET c == command[o]
      id == c.id
  IN /\ Handles(o, s, "retry")
     /\ c.current /\ intents[id] # <<>> /\ mayRetry(id)
     /\ Len(intents[id]) < Attempts
     /\ evaluateReadiness(id, TRUE)
     /\ \E handed \in BOOLEAN : admit(id, "retry", handed) /\ Hands(s, handed)
     /\ receipts' = receipts \cup {o}
     /\ UNCHANGED <<proj, available, command>>

-----------------------------------------------------------------------------
(* Members, Runs, Agents: what a free server learns of them. *)

\* createRunsForMessage of a governed Task: admission without readiness.
MemberMessage(s, p) ==
  \E i \in Nodes(p) :
    LET id == <<p, plan[p].rev, i>> IN
    /\ messages < Messages /\ messages' = messages + 1 /\ Free(s)
    /\ admissible(id)
    /\ admit(id, "message", TRUE)
    /\ UNCHANGED <<proj, available, sweep, command, receipts, outages, crashes>>

\* acknowledgeAmbiguity
Acknowledge(id, k) ==
  /\ Served /\ intents[id][k].state = "outcome_unknown" /\ ~intents[id][k].acked
  /\ intents' = [intents EXCEPT ![id][k].acked = TRUE]
  /\ UNCHANGED <<plan, archived, adopted, cursor, proj, available, sweep, command, receipts, bounds>>

\* A Run that was handed over starts; every Run ends, at its deadline if not before.
RunStarts(id, k) ==
  /\ Served /\ intents[id][k].state = "queued" /\ intents[id][k].handed
  /\ intents' = [intents EXCEPT ![id][k].state = "working"]
  /\ UNCHANGED <<plan, archived, adopted, cursor, proj, available, sweep, command, receipts, bounds>>

RunEnds(id, k) ==
  /\ Served /\ intents[id][k].state = "working"
  /\ \E state \in Endings :
       intents' = [intents EXCEPT ![id][k].state = state]
  /\ UNCHANGED <<plan, archived, adopted, cursor, proj, available, sweep, command, receipts, bounds>>

\* The Result of a completed Run is accepted; the next settlement adopts it.
AcceptResult(id, k) ==
  /\ Served /\ intents[id][k].state = "completed" /\ ~intents[id][k].accepted
  /\ intents' = [intents EXCEPT ![id][k].accepted = TRUE]
  /\ UNCHANGED <<plan, archived, adopted, cursor, proj, available, sweep, command, receipts, bounds>>

AgentLeaves(a) ==
  /\ Served /\ a \in available /\ outages < Outages
  /\ outages' = outages + 1 /\ available' = available \ {a}
  /\ UNCHANGED <<ledger, proj, sweep, command, receipts, messages, crashes>>

AgentReturns(a) ==
  /\ Served /\ a \notin available /\ available' = available \cup {a}
  /\ UNCHANGED <<ledger, proj, sweep, command, receipts, bounds>>

\* The activation of a next revision carries every adopted materialization.
Supersede(p) ==
  /\ Served /\ plan[p].rev < Revisions /\ p \notin archived
  /\ plan' = [plan EXCEPT ![p].rev = @ + 1]
  /\ adopted' = adopted \cup {<<p, plan[p].rev + 1, i>> : i \in
                  {j \in Nodes(p) : <<p, plan[p].rev, j>> \in adopted}}
  /\ UNCHANGED <<archived, intents, cursor, proj, available, sweep, command, receipts, bounds>>

\* The drift triggers: a change of a governed Task pauses its plan and raises
\* the control revision its owner's commands are pinned to.
Drift(p) ==
  /\ Served /\ p \in Drifting /\ ~plan[p].paused
  /\ plan' = [plan EXCEPT ![p].paused = TRUE]
  /\ UNCHANGED <<archived, intents, adopted, cursor, proj, available, sweep, command, receipts, bounds>>

\* updateRoom: a Room with Runs in progress is not archived.
ArchiveRoom(p) ==
  /\ Served /\ p \in Archivable \ archived
  /\ ActiveRuns({id \in Ids : id[1] = p}) = {}
  /\ archived' = archived \cup {p}
  /\ UNCHANGED <<plan, intents, adopted, cursor, proj, available, sweep, command, receipts, bounds>>

Init ==
  /\ plan = [p \in Plans |-> [rev |-> 1, mode |-> "automatic", modeRev |-> 1, paused |-> FALSE]]
  /\ archived = {} /\ adopted = {} /\ receipts = {}
  /\ intents = [id \in Ids |-> <<>>]
  /\ proj = [id \in Ids |-> NoRow]
  /\ cursor = [a \in Agents |-> [plan |-> 0, rev |-> 0, n |-> 0]]
  /\ available = Agents
  /\ sweep = [s \in Servers |-> Idle]
  /\ command = [o \in Operations |-> NoCommand]
  /\ messages = 0 /\ outages = 0 /\ crashes = 0

SweepStep(s) ==
  \/ SweepStarts(s) \/ Round(s) \/ Evaluate(s) \/ Project(s)
  \/ Admits(s) \/ AdmittedElsewhere(s) \/ AdmissionRefused(s) \/ AdmissionThrows(s)
  \/ Settles(s) \/ Dispatches(s) \/ Recover(s)

RunStep(id, k) ==
  RunStarts(id, k) \/ RunEnds(id, k) \/ AcceptResult(id, k) \/ Acknowledge(id, k)

CommandStep(o, s) ==
  SetMode(o, s) \/ ManualDispatch(o, s) \/ Advance(o, s) \/ RetrySettles(o, s) \/ Retry(o, s)

Next ==
  \/ \E s \in Servers : SweepStep(s) \/ Crash(s) \/ \E p \in Plans : MemberMessage(s, p)
  \/ \E o \in Operations : Sends(o) \/ \E s \in Servers : CommandStep(o, s)
  \/ \E id \in Ids : \E k \in DOMAIN intents[id] : RunStep(id, k)
  \/ \E a \in Agents : AgentLeaves(a) \/ AgentReturns(a)
  \/ \E p \in Plans : Supersede(p) \/ ArchiveRoom(p) \/ Drift(p)

Spec == Init /\ [][Next]_vars

\* The timer sweeps again and a server that died is started again; a Run ends
\* at its deadline at the latest, and its events wait for a free server: strong
\* fairness.  Agents, owners and reviewers owe nothing.
FairSpec ==
  /\ Spec
  /\ \A s \in Servers : WF_vars(SweepStep(s))
  /\ \A id \in Ids : \A k \in 1..Attempts :
       SF_vars(k \in DOMAIN intents[id] /\ (RunStarts(id, k) \/ RunEnds(id, k)))

-----------------------------------------------------------------------------
(* Properties. *)

runStates == active \cup retryable \cup {"completed"}

\* The shape of the state; a projection that names a Run names one that exists.
SchedulerTypeOK ==
  /\ \A p \in Plans : /\ plan[p].rev \in 1..Revisions /\ plan[p].modeRev \in Nat \ {0}
                      /\ plan[p].mode \in Targets
  /\ \A id \in Ids : \A k \in DOMAIN intents[id] : intents[id][k].state \in runStates
  /\ \A id \in Ids : proj[id].gen \in 0..Len(intents[id]) /\ (proj[id].gen = 0) = (proj[id].last = "none")
  /\ available \subseteq Agents /\ adopted \subseteq Ids /\ receipts \subseteq Operations

RunAt(x) == intents[x[1]][x[2]]
Asked == {x \in Runs(Ids) : RunAt(x).source # "message"}
Earlier(x, S) == {y \in S : RunAt(y).nth < RunAt(x).nth}

\* Readiness is read before the transaction of the admission, by several servers
\* at once: the scheduler, an owner's command or a retry still begins no governed
\* Run of an Agent beside another one in progress.  A member's Message is excepted:
\* it is admitted without readiness (createRunsForMessage,
\* governed-run-admission-service.ts:134), so its Run may come second, although
\* exec-008:43 allows an Agent one.
AgentCapacity ==
  \A a \in Agents :
    LET S == ActiveRuns({id \in Ids : NodeOf(id).agent = a}) IN
    \A x \in S \cap Asked : Earlier(x, S) = {}

\* maxConcurrency bounds the Runs in progress of a plan revision whenever the
\* scheduler, the owner or a retry begins one; only a member's Message, which is
\* admitted without readiness, may go beyond.
PlanConcurrency ==
  \A p \in Plans : \A r \in 1..Revisions :
    LET S == ActiveRuns({id \in Ids : id[1] = p /\ id[2] = r}) IN
    \A x \in S \cap Asked : Cardinality(Earlier(x, S)) < MaxConcurrency

\* A node is attempted again only when the attempt before failed or was
\* acknowledged as unknown, and in a new revision the scheduler, the owner or a
\* retry begins it only when no attempt of an earlier one can still be running.  A
\* member's Message is excepted: it may begin a Run of the new revision beside one
\* of the revision before (exec-005:63 promises that it waits).
SettledBeforeNext ==
  \A x, y \in Runs(Ids) :
    LET run == RunAt(x) IN
    /\ x[1] = y[1] /\ x[2] < y[2] =>
         run.state \in retryable /\ (run.state = "outcome_unknown" => run.acked)
    /\ x[1][1] = y[1][1] /\ x[1][3] = y[1][3] /\ x[1][2] < y[1][2] /\ y \in Asked =>
         run.state \notin active /\ (run.state = "outcome_unknown" => run.acked)

\* An owner who takes a plan out of automatic mode is obeyed by the sweeps that
\* listed its nodes before: a Run that no operation asked for is only created
\* while the plan is automatic.
AutomaticOnlyStep ==
  \A id \in Ids :
    Len(intents'[id]) > Len(intents[id]) /\ receipts' = receipts /\ messages' = messages
    => plan[id[1]].mode = "automatic"
AutomaticOnly == [][AutomaticOnlyStep]_vars

\* A change of a governed Task stops the admission of its plan at once: a sweep
\* that found the node ready before, or an owner's command on its way, creates
\* no Run any more.
PausedAdmitsNothingStep ==
  \A id \in Ids : plan[id[1]].paused => Len(intents'[id]) = Len(intents[id])
PausedAdmitsNothing == [][PausedAdmitsNothingStep]_vars

\* Plans that share an Agent take turns across sweeps: the plan the Agent's last
\* Run was for is not chosen again while the next candidate of another one waits
\* for that Agent and is ready.
PlansRotateStep ==
  \A s \in Servers : sweep[s].at = "admit" /\ sweep'[s].at = "settle" =>
    LET w == sweep[s]
        id == head(w)
        a == NodeOf(id).agent
    IN cursor[a].plan = id[1] /\ cursor[a].rev = id[2] =>
       \A p \in Plans \ {id[1]} :
         w.queues[p] # <<>> /\ headAgent(w, p) = a =>
         ~evaluateReadiness(<<p, w.pins[p].rev, w.queues[p][1]>>, FALSE)
PlansRotate == [][PlansRotateStep]_vars

\* Repeated wakeups do not regress the projection of a Run that has ended.  One
\* case is excepted: the sweep of a server that listed the node before another
\* server admitted it writes the readiness it found, and nobody asks whether a Run
\* has settled since (projectReadiness, execution-scheduler.ts:75; exec-004:102 has no
\* such exception).  The next settlement puts the projection right.
ProjectsLate(s, id) ==
  /\ sweep[s].at = "project" /\ head(sweep[s]) = id /\ sweep'[s] # sweep[s]
  /\ id \notin sweep[s].admitted /\ Servers # {s}
TerminalStaysStep ==
  \A id \in Ids :
    proj[id].last \in {"completed", "failed", "outcome_unknown"} =>
      \/ proj'[id].gen >= proj[id].gen
      \/ \E s \in Servers : ProjectsLate(s, id)
TerminalStays == [][TerminalStaysStep]_vars

\* What a node needs besides capacity.
Eligible(id) ==
  /\ Current(id) /\ id[1] \notin archived /\ ~plan[id[1]].paused
  /\ plan[id[1]].mode = "automatic"
  /\ dependencyReady(id) /\ ~priorAttempt(id) /\ id \notin adopted
  /\ Cardinality(planAttempts(id)) < MaxRunAttempts
  /\ NodeOf(id).agent \in available

\* The blocked candidates a sweep may come to before this one: those of the other
\* plans and the earlier ones of its own.
BlockedBefore(id) ==
  {x \in Ids : /\ x[1] # id[1] \/ x[3] < id[3]
              /\ Current(x) /\ ~plan[x[1]].paused /\ plan[x[1]].mode = "automatic"
              /\ ensureCurrent(proj)[x].gen = 0 /\ x \notin adopted
              /\ ~evaluateReadiness(x, FALSE)}
Crowded(id) == Cardinality(BlockedBefore(id)) >= MaxEvaluations

\* A candidate of an archived Room that is ready: the sweep that reaches it throws.
ArchivedReady ==
  \E x \in Ids : x[1] \in archived /\ plan[x[1]].mode = "automatic"
                /\ evaluateReadiness(x, FALSE)

\* A node that stays eligible is dispatched: the order of the queues, the turns of
\* the plans and the Runs of other nodes do not starve it.  Two cases are excepted.
\* Blocked candidates take from the budget of every sweep, so as many of them as it
\* has (256, execution-scheduler.ts:69) may keep a sweep from ever reaching the node,
\* although exec-008:28 keeps one plan from monopolizing a sweep; and a
\* ready candidate of an archived Room ends every sweep that reaches it (:96 has the
\* trigger's error thrown; by exec-008:36 it should be a projected blocker).
NoStarvation ==
  \A id \in Ids :
    []<>(intents[id] # <<>> \/ ~Eligible(id) \/ Crowded(id) \/ ArchivedReady)

\* The sweep is about to throw: at a ready candidate of an archived Room, or when
\* it settles a node whose plan revision was superseded since its admission.
SweepThrows ==
  \E s \in Servers :
    LET w == sweep[s] IN
    \/ /\ w.at = "admit" /\ head(w)[1] \in archived /\ intents[head(w)] = <<>>
       /\ require(head(w)[1], "automatic", w.pins[head(w)[1]].modeRev) /\ stillReady(head(w))
    \/ w.at = "settle" /\ ~Current(head(w))

\* A Run that was committed is handed to its delivery, by the sweep that admitted
\* it or by the recovery of the server that died before.  The Runs of a sweep that
\* throws are excepted: it returns none of them (app.ts:883), and they wait for the
\* next start of the server.
RunsHandedOver ==
  \A id \in Ids :
    (intents[id] # <<>> /\ ~intents[id][1].handed) ~>
      \/ intents[id] # <<>> /\ intents[id][1].handed
      \/ SweepThrows
=============================================================================
