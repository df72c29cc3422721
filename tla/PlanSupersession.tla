---------------------------- MODULE PlanSupersession ----------------------------
(***************************************************************************)
(* The authority of execution plans (apps/server/src/execution): drafts,   *)
(* their review, the claims an approved plan has on Tasks, the candidate   *)
(* for the next revision, its activation by an owner or by a delegated     *)
(* Agent, and the adopted evidence an activation carries forward.          *)
(*                                                                         *)
(* Every command is one transaction.  It carries what its sender saw, may  *)
(* arrive late or twice, and is refused or takes effect as a whole.        *)
(***************************************************************************)
EXTENDS Naturals, Sequences, FiniteSets

CONSTANTS Plans, Tasks,
          Root,         \* the root Task of each plan
          Definitions,  \* [nodes, edges, contract, budget]
          Agents,       \* Tech Lead Agents
          Commands,     \* bound on the commands that are sent
          Kinds,        \* their kinds
          Approved,     \* plans that start out approved
          First,        \* the definition an approved plan starts with
          MaxRevision, Changes, Delegations

PlanAssumption ==
  /\ Root \in [Plans -> Tasks] /\ IsFiniteSet(Tasks) /\ "member" \notin Agents
  /\ \A d \in Definitions :
       /\ d.nodes \subseteq Tasks /\ d.edges \subseteq d.nodes \X d.nodes
       /\ d.contract \in [Tasks -> Nat] /\ d.budget \in Nat
  /\ Approved \subseteq Plans /\ First \in Definitions
  /\ \A p, q \in Approved : p = q /\ Root[p] \notin First.nodes
  /\ {MaxRevision, Changes, Delegations, Commands} \subseteq Nat

VARIABLES plan,     \* execution_plans with their current proposal
          claim,    \* execution_plan_task_claims
          tasks,    \* task revision and definition revision
          busy,     \* Tasks with active or unknown work of their own
          cand,     \* the candidate for the next revision
          deleg,    \* execution_replan_delegations, by revision
          adopted,  \* adopted materializations, by plan revision
          sent,     \* commands with what their senders saw
          done,     \* operations with a receipt
          human,    \* the definition a human decided on last
          changes

vars == <<plan, claim, tasks, busy, cand, deleg, adopted, sent, done, human, changes>>
store == <<plan, claim, tasks, busy, cand, deleg, adopted, human, changes>>

Operations == 1..Commands  \* operation ids, in the order they are made
None == [kind |-> "none"]
Free == [plan |-> "none", rev |-> 0]
Active(p) == plan[p].state \in {"approved", "paused"}
RootOf(p) == tasks[Root[p]]

-----------------------------------------------------------------------------
(* Commands. *)

Pins(p, kind) ==
  [kind |-> kind, plan |-> p, rev |-> plan[p].rev, control |-> plan[p].control,
   root |-> RootOf(p).rev, seen |-> tasks]

With(c, def, author, k, carry) ==
  [x \in DOMAIN c \cup {"def", "author", "k", "carry"} |->
     IF x = "def" THEN def ELSE IF x = "author" THEN author
     ELSE IF x = "k" THEN k ELSE IF x = "carry" THEN carry ELSE c[x]]

Carried(p) == {a \in adopted[p] : a.rev = plan[p].rev}

\* A member or an Agent reads the plan and sends a command.  An activation names
\* the adoptions of the control view (activationTemplate).
Sends(o, p) ==
  /\ sent[o] = None /\ \A j \in 1..(o - 1) : sent[j] # None
  /\ \E kind \in Kinds, def \in Definitions, author \in Agents \cup {"member"},
        k \in 0..Len(deleg[p]) :
       /\ CASE kind = "create" -> plan[p].state = "none"
            [] kind \in {"revise", "approve", "reject"} -> plan[p].state = "draft"
            [] kind \in {"propose", "issue"} -> Active(p)
            [] kind = "activate" -> Active(p) /\ cand[p] # None
            [] kind = "revoke" -> k > 0
       /\ kind \notin {"create", "revise", "propose"} => def = First
       /\ kind \notin {"propose", "activate", "issue"} => author = "member"
       /\ kind = "issue" => author \in Agents
       /\ ((kind = "activate" /\ author \in Agents) \/ kind = "revoke") = (k > 0)
       /\ sent' = [sent EXCEPT ![o] =
            With(Pins(p, kind), def, author, k,
                 IF kind = "activate" THEN Carried(p) ELSE {})]
  /\ UNCHANGED <<store, done>>

Arrives(o, kind) == sent[o].kind = kind /\ o \notin done
Completes(o) == done' = done \cup {o} /\ UNCHANGED sent

-----------------------------------------------------------------------------
(* Drafts and their review. *)

\* Each Task of the definition is at the revision its author saw.
requireReferences(def, seen) == \A t \in def.nodes : tasks[t].rev = seen[t].rev

append(row, c) ==
  [row EXCEPT !.state = "draft", !.rev = @ + 1, !.def = c.def, !.seen = c.seen, !.reviewed = FALSE]

\* ExecutionPlanDraftWriter.write
WriteDraft(o) ==
  LET c == sent[o]
      p == c.plan
  IN /\ Arrives(o, "create") \/ Arrives(o, "revise")
     /\ RootOf(p).rev = c.root /\ Root[p] \notin c.def.nodes
     /\ IF c.kind = "create" THEN plan[p].state = "none"
        ELSE plan[p].state = "draft" /\ plan[p].rev = c.rev
     /\ plan[p].rev < MaxRevision
     /\ requireReferences(c.def, c.seen)
     /\ plan' = [plan EXCEPT ![p] = append(@, c)]
     /\ Completes(o)
     /\ UNCHANGED <<claim, tasks, busy, cand, deleg, adopted, human, changes>>

\* Mutant: the claims on the root are not looked at.
requireRootAvailableUnclaimed(p) ==
  \A q \in Plans \ {p} : Active(q) => Root[q] # Root[p]

requireRootAvailable(p) ==
  /\ \A q \in Plans \ {p} : Active(q) => Root[q] # Root[p]
  /\ claim[Root[p]] = Free

requireTaskAvailable(t) ==
  claim[t] = Free /\ \A q \in Plans : Active(q) => Root[q] # t

\* Mutant: a Task is compiled whatever works on it.
compileBusy(p) ==
  requireRootAvailable(p) /\ \A t \in plan[p].def.nodes : requireTaskAvailable(t)

compile(p) ==
  /\ requireRootAvailable(p)
  /\ \A t \in plan[p].def.nodes : requireTaskAvailable(t) /\ t \notin busy

\* The claims of a revision, kept with its approval.
persist(p, def, rev) ==
  [t \in Tasks |-> IF t \in def.nodes THEN [plan |-> p, rev |-> rev] ELSE claim[t]]

\* The root moves on, so that nothing pinned to it can be used again.
fenceRevision(t) == [tasks EXCEPT ![t].rev = @ + 1]

\* review
Reviews(o, decision) ==
  LET c == sent[o]
      p == c.plan
  IN /\ Arrives(o, decision)
     /\ plan[p].state = "draft" /\ plan[p].rev = c.rev /\ ~plan[p].reviewed
     /\ RootOf(p).rev = c.root
     /\ Completes(o)

Reject(o) ==
  /\ Reviews(o, "reject")
  /\ plan' = [plan EXCEPT ![sent[o].plan].reviewed = TRUE]
  /\ UNCHANGED <<claim, tasks, busy, cand, deleg, adopted, human, changes>>

\* The claims, the fence on the root and the state in one transaction.
Approve(o) ==
  LET p == sent[o].plan IN
  /\ Reviews(o, "approve")
  /\ requireReferences(plan[p].def, plan[p].seen)
  /\ compile(p)
  /\ claim' = persist(p, plan[p].def, plan[p].rev)
  /\ tasks' = fenceRevision(Root[p])
  /\ plan' = [plan EXCEPT ![p] = [@ EXCEPT !.state = "approved", !.control = @ + 1,
                                           !.reviewed = TRUE]]
  /\ human' = [human EXCEPT ![p] = plan[p].def]
  /\ UNCHANGED <<busy, cand, deleg, adopted, changes>>

-----------------------------------------------------------------------------
(* Candidates, delegations and activation. *)

requireCurrentPins(c) ==
  /\ plan[c.plan].rev = c.rev /\ plan[c.plan].control = c.control
  /\ RootOf(c.plan).rev = c.root

\* Every claimed Task exactly once, at the revision the candidate names.
compileFixedTaskSet(p, def, seen) ==
  /\ Active(p) /\ def.nodes = plan[p].def.nodes
  /\ \A t \in def.nodes : tasks[t].rev = seen[t].rev

\* The candidate is the proposal for the next revision: one at a time, kept with the
\* pins of the plan it is made for.
appendSupersessionCandidate(p, c) ==
  /\ cand[p] = None /\ c.rev = plan[p].rev
  /\ cand' = [cand EXCEPT ![p] = c]

\* proposeWithAuthor
Propose(o) ==
  LET c == sent[o]
      p == c.plan
  IN /\ Arrives(o, "propose") /\ requireCurrentPins(c)
     /\ compileFixedTaskSet(p, c.def, c.seen)
     /\ appendSupersessionCandidate(p, c)
     /\ Completes(o)
     /\ UNCHANGED <<plan, claim, tasks, busy, deleg, adopted, human, changes>>

\* A delegation is made for one state of the plan and its root.
retainDelegation(p, c) ==
  deleg' = [deleg EXCEPT ![p] = Append(@,
    [rev |-> c.rev, control |-> c.control, root |-> c.root, agent |-> c.author,
     expired |-> FALSE, revoked |-> FALSE, consumed |-> FALSE])]

\* A revocation is a row of its own: one for each delegation.
retainRevocation(p, k) == ~deleg[p][k].revoked /\ deleg' = [deleg EXCEPT ![p][k].revoked = TRUE]

\* issueDelegation: to the primary Agent of the root.
IssueDelegation(o) ==
  LET c == sent[o]
      p == c.plan
  IN /\ Arrives(o, "issue") /\ requireCurrentPins(c) /\ Len(deleg[p]) < Delegations
     /\ retainDelegation(p, c)
     /\ Completes(o)
     /\ UNCHANGED <<plan, claim, tasks, busy, cand, adopted, human, changes>>

RevokeDelegation(o) ==
  LET c == sent[o]
      p == c.plan
  IN /\ Arrives(o, "revoke") /\ retainRevocation(p, c.k)
     /\ Completes(o)
     /\ UNCHANGED <<plan, claim, tasks, busy, cand, adopted, human, changes>>

Expires(p, k) ==
  /\ ~deleg[p][k].expired
  /\ deleg' = [deleg EXCEPT ![p][k].expired = TRUE]
  /\ UNCHANGED <<plan, claim, tasks, busy, cand, adopted, sent, done, human, changes>>

isCurrentDelegation(p, k) ==
  \A j \in DOMAIN deleg[p] : deleg[p][j].agent = deleg[p][k].agent => j <= k

\* Mutant: budgets are compared, node contracts are not.
isLowRiskBudget(old, new) == new.budget <= old.budget

\* Nodes keep their contracts and no budget grows; edges may be rewired.
isLowRisk(old, new) ==
  new.budget <= old.budget /\ \A t \in old.nodes : new.contract[t] = old.contract[t]

\* Mutant: a revocation is not looked up.
delegationValidRevoked(d) == ~d.expired /\ ~d.consumed

delegationValid(d) == ~d.expired /\ ~d.revoked /\ ~d.consumed

requireDelegation(c, p) ==
  LET d == deleg[p][c.k] IN
  /\ d.agent = c.author /\ d.rev = plan[p].rev /\ d.control = plan[p].control
  /\ d.root = RootOf(p).rev
  /\ delegationValid(d) /\ isCurrentDelegation(p, c.k)
  /\ cand[p].author = c.author
  /\ isLowRisk(plan[p].def, cand[p].def)

\* Mutant: the selection need not be complete.
requireCarryCoverageSome(c, p) == c.carry \subseteq Carried(p)

\* Each adoption of the current revision is selected, and no other.
requireCarryCoverage(c, p) == c.carry = Carried(p)

\* Mutant: an input that comes from an adopted node needs no edge.
requireLogicalInputsUnwired(a, def, carry) == TRUE

\* The edge of each input is in the new definition and its producer is carried.
requireLogicalInputs(a, def, carry) ==
  \A i \in a.inputs :
    \E b \in carry : b.evidence = i /\ <<b.task, a.task>> \in def.edges

\* What a reuse contract compares: the node and the definition of its Task.
reuseContract(def, t) == <<def.contract[t], tasks[t].def>>

carriedAdoption(a, rev) == [a EXCEPT !.rev = rev]

\* retain, for every selection in topological order.
retain(c, p) ==
  \A a \in c.carry : /\ requireLogicalInputs(a, cand[p].def, c.carry)
                     /\ a.contract = reuseContract(cand[p].def, a.task)

\* The compilation of the candidate: each claim goes over from the current revision
\* to the next.
insertCompilation(p, x) ==
  /\ \A t \in x.def.nodes : claim[t] = [plan |-> p, rev |-> plan[p].rev]
  /\ claim' = [t \in Tasks |-> IF t \in x.def.nodes THEN [claim[t] EXCEPT !.rev = @ + 1] ELSE claim[t]]

\* The plan in the receipt of the activation (insertApproval).
nextPlan(row, x) ==
  [row EXCEPT !.rev = @ + 1, !.control = @ + 1, !.def = x.def, !.seen = x.seen]

\* activateWithActor
Activate(o) ==
  LET c == sent[o]
      p == c.plan
      x == cand[p]
      rev == plan[p].rev + 1
  IN /\ Arrives(o, "activate") /\ requireCurrentPins(c)
     /\ x # None /\ x.rev = plan[p].rev /\ x.control = plan[p].control /\ x.root = RootOf(p).rev
     /\ rev <= MaxRevision
     /\ compileFixedTaskSet(p, x.def, x.seen)
     /\ c.author \in Agents => requireDelegation(c, p)
     /\ requireCarryCoverage(c, p) /\ retain(c, p)
     /\ plan' = [plan EXCEPT ![p] = nextPlan(@, x)]
     /\ insertCompilation(p, x)
     /\ tasks' = fenceRevision(Root[p])
     /\ adopted' = [adopted EXCEPT ![p] = @ \cup {carriedAdoption(a, rev) : a \in c.carry}]
     /\ cand' = [cand EXCEPT ![p] = None]
     /\ deleg' = IF c.author \in Agents THEN [deleg EXCEPT ![p][c.k].consumed = TRUE] ELSE deleg
     /\ human' = IF c.author \in Agents THEN human ELSE [human EXCEPT ![p] = x.def]
     /\ Completes(o)
     /\ UNCHANGED <<busy, changes>>

-----------------------------------------------------------------------------
(* Tasks, their work and their evidence. *)

\* Mutant: only changes of the root pause a plan.
GovernsRoot(p, t) == plan[p].state = "approved" /\ Root[p] = t

Governs(p, t) == plan[p].state = "approved" /\ (Root[p] = t \/ claim[t].plan = p)

\* Mutant: a new definition without a new Task revision.
ChangeUnfenced(t) ==
  /\ changes < Changes /\ changes' = changes + 1
  /\ tasks' = [tasks EXCEPT ![t].def = @ + 1]
  /\ UNCHANGED <<plan, claim, busy, cand, deleg, adopted, sent, done, human>>

\* A definition, owner, assignment or budget changes: the drift triggers pause
\* every plan the Task belongs to.
Change(t) ==
  /\ changes < Changes /\ changes' = changes + 1
  /\ tasks' = [tasks EXCEPT ![t].rev = @ + 1, ![t].def = @ + 1]
  /\ plan' = [p \in Plans |-> IF Governs(p, t)
                              THEN [plan[p] EXCEPT !.state = "paused", !.control = @ + 1]
                              ELSE plan[p]]
  /\ UNCHANGED <<claim, busy, cand, deleg, adopted, sent, done, human>>

\* A Result or another step moves the Task revision alone.
Touch(t) ==
  /\ changes < Changes /\ changes' = changes + 1
  /\ tasks' = [tasks EXCEPT ![t].rev = @ + 1]
  /\ UNCHANGED <<plan, claim, busy, cand, deleg, adopted, sent, done, human>>

\* A Run or Discussion outside of any plan; a trigger refuses it for a claimed Task.
StartWork(t) ==
  /\ changes < Changes /\ changes' = changes + 1
  /\ t \notin busy /\ claim[t] = Free
  /\ busy' = busy \cup {t}
  /\ UNCHANGED <<plan, claim, tasks, cand, deleg, adopted, sent, done, human>>

EndWork(t) ==
  /\ t \in busy /\ busy' = busy \ {t}
  /\ UNCHANGED <<plan, claim, tasks, cand, deleg, adopted, sent, done, human, changes>>

\* The Result of a node's Run is adopted for the current revision; its inputs
\* are the adopted materializations of its predecessors.
Adopt(p, t) ==
  LET from == {a \in Carried(p) : <<a.task, t>> \in plan[p].def.edges} IN
  /\ Active(p) /\ t \in plan[p].def.nodes
  /\ \A a \in Carried(p) : a.task # t
  /\ \A u \in Tasks : <<u, t>> \in plan[p].def.edges => \E a \in from : a.task = u
  /\ adopted' = [adopted EXCEPT ![p] = @ \cup
       {[rev |-> plan[p].rev, task |-> t, evidence |-> <<plan[p].rev, t>>,
         inputs |-> {a.evidence : a \in from},
         contract |-> <<plan[p].def.contract[t], plan[p].seen[t].def>>]}]
  /\ UNCHANGED <<plan, claim, tasks, busy, cand, deleg, sent, done, human, changes>>

Fresh == [t \in Tasks |-> [rev |-> 1, def |-> 1]]

Init ==
  /\ tasks = Fresh /\ busy = {} /\ changes = 0
  /\ plan = [p \in Plans |->
       [state |-> IF p \in Approved THEN "approved" ELSE "none",
        rev |-> IF p \in Approved THEN 1 ELSE 0, control |-> IF p \in Approved THEN 1 ELSE 0,
        def |-> First, seen |-> Fresh, reviewed |-> p \in Approved]]
  /\ claim = [t \in Tasks |->
       IF \E p \in Approved : t \in First.nodes
       THEN [plan |-> CHOOSE p \in Approved : TRUE, rev |-> 1] ELSE Free]
  /\ cand = [p \in Plans |-> None]
  /\ deleg = [p \in Plans |-> <<>>]
  /\ adopted = [p \in Plans |-> {}]
  /\ sent = [o \in Operations |-> None]
  /\ done = {}
  /\ human = [p \in Plans |-> First]

Next ==
  \/ \E o \in Operations :
       \/ \E p \in Plans : Sends(o, p)
       \/ WriteDraft(o) \/ Reject(o) \/ Approve(o)
       \/ Propose(o) \/ Activate(o) \/ IssueDelegation(o) \/ RevokeDelegation(o)
  \/ \E p \in Plans : \E k \in DOMAIN deleg[p] : Expires(p, k)
  \/ \E t \in Tasks : Change(t) \/ Touch(t) \/ StartWork(t) \/ EndWork(t)
  \/ \E p \in Plans, t \in Tasks : Adopt(p, t)

Spec == Init /\ [][Next]_vars

-----------------------------------------------------------------------------
(* Properties. *)

PlanTypeOK ==
  /\ \A p \in Plans : /\ plan[p].state \in {"none", "draft", "approved", "paused"}
                      /\ plan[p].rev \in 0..MaxRevision /\ plan[p].control \in Nat
                      /\ plan[p].def \in Definitions
  /\ \A t \in Tasks : tasks[t].def <= tasks[t].rev
  /\ \A t \in Tasks : claim[t] = Free \/ claim[t].plan \in Plans
  /\ busy \subseteq Tasks /\ done \subseteq Operations

\* Whatever order drafts, reviews and activations arrive in, an active plan holds
\* exactly the Tasks of its current revision, roots of active plans are distinct
\* and none of them is a node of a plan.
ClaimsExclusive ==
  /\ \A p \in Plans :
       {t \in Tasks : claim[t].plan = p} = (IF Active(p) THEN plan[p].def.nodes ELSE {})
  /\ \A t \in Tasks : claim[t] # Free => claim[t].rev = plan[claim[t].plan].rev
  /\ \A p \in Plans : Active(p) =>
       claim[Root[p]] = Free /\ \A q \in Plans \ {p} : Active(q) => Root[q] # Root[p]

\* No Task that a plan governs has work that was not admitted by the plan: an
\* approval races a Run or Discussion that starts.
NoUngovernedWork == \A t \in busy : claim[t] = Free

\* What admits Runs is what was reviewed: while a plan is not paused, the Tasks of
\* its current revision still have the definitions its author saw.
ReviewedAsSeen ==
  \A p \in Plans : plan[p].state = "approved" =>
    \A t \in plan[p].def.nodes : tasks[t].def = plan[p].seen[t].def

\* However many revisions a delegated Agent activates, no node contract differs
\* from, and no budget exceeds, what a human decided on last.
AgentNeverBroadens ==
  \A p \in Plans : Active(p) =>
    /\ plan[p].def.budget <= human[p].budget
    /\ \A t \in plan[p].def.nodes : plan[p].def.contract[t] = human[p].contract[t]

\* A delegation that was revoked or ran out before the Agent's activation arrived
\* is not used any more.
RevocationWinsStep ==
  \A p \in Plans : \A k \in DOMAIN deleg[p] :
    deleg'[p][k].consumed /\ ~deleg[p][k].consumed =>
    ~deleg[p][k].revoked /\ ~deleg[p][k].expired
RevocationWins == [][RevocationWinsStep]_vars

\* Supersession strands no accepted Task: what was adopted in an earlier revision
\* is adopted, as the same evidence, in the current one, although adoptions go on
\* between the selection and the activation.
NeverStranded ==
  \A p \in Plans : \A a \in adopted[p] :
    \E b \in Carried(p) : b.task = a.task /\ b.evidence = a.evidence

\* In the current revision every adopted output stands on inputs that are adopted
\* in that revision too, over edges the revision has.
EvidenceClosed ==
  \A p \in Plans : \A a \in Carried(p) : \A i \in a.inputs :
    \E b \in Carried(p) : b.evidence = i /\ <<b.task, a.task>> \in plan[p].def.edges
=============================================================================
