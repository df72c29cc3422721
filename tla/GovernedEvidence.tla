--------------------------- MODULE GovernedEvidence ---------------------------
(***************************************************************************)
(* What a governed Run leaves behind and what the next Run may start from. *)
(*                                                                         *)
(* A Run of a plan node gets an isolated workspace lease and frozen        *)
(* inputs; its Device captures the outputs under the lease, seals them     *)
(* into a checkpoint, runs the required verification profiles on it and    *)
(* reports receipts; a Member may approve the verified candidate for       *)
(* integration into a target ref, one at a time for each ref.  The         *)
(* settlement turns this evidence into materializations, in one            *)
(* transaction for all nodes, and a dependent node is admitted on the      *)
(* materialization its edge names.                                         *)
(***************************************************************************)
EXTENDS Integers, FiniteSets, SequencesExt

CONSTANTS
  Nodes,           \* nodes of one plan revision
  Edges,           \* <<from, gate, to>>
  Profiles,        \* profile ids, in their order
  Required,        \* per node: the profiles its candidate must pass
  Target,          \* per node: the target ref of its integration
  MaxGenerations,  \* bound on dispatch generations of a node
  MaxUploads,      \* bound on outputs bound under one capture
  MaxFaults,       \* bound on expiries, revocations, stops and ended Runs
  Orders           \* the orders the operation and verification ids may come in

GovernedEvidenceBounds ==
  /\ Profiles \subseteq Nat /\ MaxGenerations \in Nat \ {0} /\ MaxUploads \in Nat \ {0} /\ MaxFaults \in Nat
  /\ Required \in [Nodes -> SUBSET Profiles]
  /\ \A o \in Orders : DOMAIN o.ops = Profiles /\ DOMAIN o.ids = Profiles

VARIABLES
  plan,     \* state of the plan, or "superseded" for its revision
  run,      \* per node and generation: the Run, its lease, capture and inputs
  check,    \* per Run and profile: the verification operation and its receipt
  result,   \* per Run: its Task result
  mat,      \* per node: what was materialized, by gate
  integ,    \* per node: the approved integration
  lock,     \* repository_integration_locks: per target, the node or none
  revoked,  \* nodes whose Device is revoked
  faults    \* faults so far

vars == <<plan, run, check, result, mat, integ, lock, revoked, faults>>

NodeRuns == Nodes \X (1 .. MaxGenerations)
Gates == {"accepted_result", "verified_output", "integrated_commit"}
Outcomes == {"passed", "failed", "outcome_unknown"}
NoNodeRun == [state |-> "none"]
NoCheck == [state |-> "none"]
gatesOf(n) == {e[2] : e \in {x \in Edges : x[1] = n}}

Init ==
  /\ plan = "running"
  /\ run = [r \in NodeRuns |-> NoNodeRun]
  /\ check = [r \in NodeRuns |-> [p \in Profiles |-> NoCheck]]
  /\ result = [r \in NodeRuns |-> [state |-> "none"]]
  /\ mat = [n \in Nodes |-> [g \in Gates |-> {}]]
  /\ integ = [n \in Nodes |-> [state |-> "none"]]
  /\ lock = [t \in {Target[n] : n \in Nodes} |-> {}]
  /\ revoked = {} /\ faults = 0

-----------------------------------------------------------------------------
(* Admission: the lease and the frozen inputs. *)

admitted(n) == {g \in 1 .. MaxGenerations : run[<<n, g>>].state # "none"}
newest(r) == \A g \in admitted(r[1]) : g <= r[2]
next(n) == Cardinality(admitted(n)) + 1

\* Mutant: the source of an input is looked up by the verified output alone.
materializedSourceAny(s, gate) == mat[s]["verified_output"] \cup mat[s][gate]

\* materializedSource: the materialization of exactly the edge's gate
materializedSource(s, gate) == mat[s][gate]

\* freezeAcceptedInputs: one binding for each edge into the node, or nothing
frozen(n) == {<<e[1], e[2], m>> : e \in {x \in Edges : x[3] = n}, m \in UNION {mat[s][g] : s \in Nodes, g \in Gates}}
inputs(n) == {b \in frozen(n) : b[3] \in materializedSource(b[1], b[2])}

\* Mutant: a Run is admitted before what it depends on.
dependenciesMetNot(n) == TRUE

\* ExecutionDependencyResolver: every edge into the node has its source.
dependenciesMet(n) == \A e \in Edges : e[3] = n => materializedSource(e[1], e[2]) # {}

\* reserveForRun and freezeForRun inside the admission of generation g: the
\* first, or a retry of a Run that ended without completing.
Admit(n, g, o) ==
  /\ plan = "running" /\ n \notin revoked
  /\ g = next(n) /\ g <= MaxGenerations
  /\ g > 1 => run[<<n, g - 1>>].state = "ended"
  /\ dependenciesMet(n)
  /\ run' = [run EXCEPT ![<<n, g>>] =
       [state |-> "active", late |-> FALSE, input |-> inputs(n), read |-> {},
        capture |-> "none", captureLate |-> FALSE, uploads |-> 0, pinned |-> 0, order |-> o]]
  /\ UNCHANGED <<plan, check, result, mat, integ, lock, revoked, faults>>

\* requireActiveForDevice: the lease as every later step must find it
leaseActive(r) ==
  /\ r[1] \notin revoked /\ plan \in {"running", "paused"}
  /\ run[r].state = "active" /\ ~run[r].late

\* readForDevice: the binding must still be what its source is
ReadInput(r) ==
  /\ leaseActive(r)
  /\ \E b \in run[r].input \ run[r].read :
       /\ b[3] \in materializedSource(b[1], b[2])
       /\ run' = [run EXCEPT ![r].read = @ \cup {b}]
  /\ UNCHANGED <<plan, check, result, mat, integ, lock, revoked, faults>>

-----------------------------------------------------------------------------
(* Capture. *)

\* RepositoryCaptureService.begin: one operation for the lease's generation;
\* a node nobody starts from has no output to capture.
BeginCapture(r) ==
  /\ run[r].state # "none" /\ leaseActive(r) /\ run[r].capture = "none" /\ gatesOf(r[1]) # {}
  /\ run' = [run EXCEPT ![r].capture = "begun"]
  /\ UNCHANGED <<plan, check, result, mat, integ, lock, revoked, faults>>

\* Mutant: a sealed capture still takes outputs.
captureActiveSealed(r) == leaseActive(r) /\ run[r].capture \in {"begun", "sealed"} /\ ~run[r].captureLate

\* requireActive of the capture
captureActive(r) == leaseActive(r) /\ run[r].capture = "begun" /\ ~run[r].captureLate

\* An output is published and bound under the capture lease.
BindOutput(r) ==
  /\ run[r].state # "none" /\ captureActive(r) /\ run[r].uploads < MaxUploads
  /\ run' = [run EXCEPT ![r].uploads = @ + 1]
  /\ UNCHANGED <<plan, check, result, mat, integ, lock, revoked, faults>>

\* Mutant: a required slot may stay empty.
requiredOutputsNone(r) == TRUE

\* requireOutputs: the first bound output fills the required slot.
requiredOutputs(r) == run[r].uploads > 0

\* seal: the checkpoint pins the outputs bound under the capture lease.
Seal(r) ==
  /\ run[r].state # "none" /\ captureActive(r) /\ run[r].capture = "begun"
  /\ requiredOutputs(r)
  /\ run' = [run EXCEPT ![r].capture = "sealed", ![r].pinned = run[r].uploads]
  /\ UNCHANGED <<plan, check, result, mat, integ, lock, revoked, faults>>

-----------------------------------------------------------------------------
(* Verification. *)

\* requireOwner: the Device is active, and the member's own
requireOwner(n) == n \notin revoked

\* matchRequest: a required profile on the sealed candidate of the plan in force
matchRequest(r, p) == run[r].capture = "sealed" /\ p \in Required[r[1]] /\ plan = "running"

\* begin: one operation for the checkpoint and profile; the Run need not be
\* active any more.
BeginVerification(r, p) ==
  /\ run[r].state # "none" /\ matchRequest(r, p)
  /\ requireOwner(r[1]) /\ ~run[r].late
  /\ check[r][p].state = "none"
  /\ check' = [check EXCEPT ![r][p] = [state |-> "admitted", outcome |-> "none", log |-> FALSE, late |-> FALSE]]
  /\ UNCHANGED <<plan, run, result, mat, integ, lock, revoked, faults>>

\* The Device runs the profile and has an outcome before the deadline.
RunProfile(r, p, outcome) ==
  /\ check[r][p].state = "admitted" /\ ~check[r][p].late
  /\ check' = [check EXCEPT ![r][p].state = "ran", ![r][p].outcome = outcome]
  /\ UNCHANGED <<plan, run, result, mat, integ, lock, revoked, faults>>

\* requireActiveLogSource: the log is bound under the capture lease.
BindLog(r, p) ==
  /\ check[r][p].state = "ran" /\ ~check[r][p].log
  /\ requireOwner(r[1]) /\ ~run[r].captureLate /\ ~check[r][p].late
  /\ check' = [check EXCEPT ![r][p].log = TRUE]
  /\ UNCHANGED <<plan, run, result, mat, integ, lock, revoked, faults>>

\* matchReceipt, requireLogArtifact: only an unknown outcome has no bound log.
matchReceipt(r, p) == check[r][p].log \/ check[r][p].outcome = "outcome_unknown"

\* retain: the receipt may come late, its times may not.
RetainVerification(r, p) ==
  /\ check[r][p].state = "ran" /\ requireOwner(r[1]) /\ matchReceipt(r, p)
  /\ check' = [check EXCEPT ![r][p].state = "retained"]
  /\ UNCHANGED <<plan, run, result, mat, integ, lock, revoked, faults>>

-----------------------------------------------------------------------------
(* Runs, results, the plan and the clocks. *)

\* The Run settles as completed, or fails, expires or is canceled.
SettleRun(r, state) ==
  /\ run[r].state = "active"
  /\ run' = [run EXCEPT ![r].state = state]
  /\ faults' = IF state = "ended" THEN faults + 1 ELSE faults
  /\ faults' <= MaxFaults
  /\ UNCHANGED <<plan, check, result, mat, integ, lock, revoked>>

\* A result of the Run is proposed, citing its checkpoint's outputs or not;
\* a new version takes the place of a proposed or rejected one.
Propose(r, cites) ==
  /\ run[r].state = "completed" /\ result[r].state # "accepted"
  /\ cites => run[r].capture = "sealed"
  /\ result' = [result EXCEPT ![r] = [state |-> "proposed", cites |-> cites]]
  /\ UNCHANGED <<plan, run, check, mat, integ, lock, revoked, faults>>

\* The Task owner reviews it; while the plan governs the Task an acceptance
\* needs an edge that asks for it, the newest generation and its outputs
\* (execution_results_require_materializable_review_insert).
Review(r, decision) ==
  /\ result[r].state = "proposed"
  /\ decision = "accepted" /\ plan \in {"running", "paused"} =>
       "accepted_result" \in gatesOf(r[1]) /\ result[r].cites /\ newest(r)
  /\ result' = [result EXCEPT ![r].state = decision]
  /\ UNCHANGED <<plan, run, check, mat, integ, lock, revoked, faults>>

\* The plan is paused by drift, or canceled, or its revision superseded.
StopPlan(state) ==
  /\ faults < MaxFaults /\ faults' = faults + 1
  /\ plan = "running" \/ (plan = "paused" /\ state # "paused")
  /\ plan' = state
  /\ UNCHANGED <<run, check, result, mat, integ, lock, revoked>>

RevokeDevice(n) ==
  /\ faults < MaxFaults /\ faults' = faults + 1
  /\ n \notin revoked /\ revoked' = revoked \cup {n}
  /\ UNCHANGED <<plan, run, check, result, mat, integ, lock>>

\* Deadlines pass: the lease's, and with it all of its operations'.
LeaseExpires(r) ==
  /\ faults < MaxFaults /\ faults' = faults + 1
  /\ run[r].state # "none" /\ ~run[r].late
  /\ run' = [run EXCEPT ![r].late = TRUE, ![r].captureLate = TRUE]
  /\ check' = [check EXCEPT ![r] = [p \in Profiles |->
       IF check[r][p].state = "none" THEN NoCheck ELSE [check[r][p] EXCEPT !.late = TRUE]]]
  /\ UNCHANGED <<plan, result, mat, integ, lock, revoked>>

CaptureExpires(r) ==
  /\ faults < MaxFaults /\ faults' = faults + 1
  /\ run[r].state # "none" /\ run[r].capture # "none" /\ ~run[r].captureLate
  /\ run' = [run EXCEPT ![r].captureLate = TRUE]
  /\ UNCHANGED <<plan, check, result, mat, integ, lock, revoked>>

-----------------------------------------------------------------------------
(* Settlement. *)

sortedBy(f, S) == SetToSortSeq(S, LAMBDA p, q : f[p] < f[q])

\* Mutant: a receipt counts whatever its outcome.
passedAny(r, p) == check[r][p].state = "retained"

\* The receipts the materializer joins: retained and passed
passed(r, p) == check[r][p].state = "retained" /\ check[r][p].outcome = "passed"

\* AcceptedResultMaterializer: the accepted result of the newest generation
acceptedSource(n) ==
  {[run |-> r, receipts |-> <<>>] :
     r \in {x \in NodeRuns : x[1] = n /\ run[x].state = "completed" /\ newest(x) /\ result[x].state = "accepted"}}

accepted(n) == IF acceptedSource(n) = {} THEN mat[n]["accepted_result"] ELSE acceptedSource(n)

\* VerifiedOutputMaterializer: every required profile passed on the
\* checkpoint of the newest generation's completed Run; the receipts are in
\* the order of their profiles.
verifiedSource(n) ==
  {[run |-> r, receipts |-> sortedBy([p \in Profiles |-> p], Required[n])] :
     r \in {x \in NodeRuns :
       /\ x[1] = n /\ run[x].state = "completed" /\ newest(x) /\ run[x].capture = "sealed"
       /\ result[x].state \in {"proposed", "accepted"} /\ result[x].cites
       /\ gatesOf(n) \cap {"verified_output", "integrated_commit"} # {}
       /\ Required[n] # {} /\ \A p \in Required[n] : passed(x, p)}}

\* Mutant: what was retained is worked out again.
verifiedAgain(n) == verifiedSource(n)

verified(n) ==
  IF mat[n]["verified_output"] # {} THEN mat[n]["verified_output"] ELSE verifiedSource(n)

\* The adoption's proofs of a candidate, in the order of their operation ids
proofs(m) == sortedBy(run[m.run].order.ops, Required[m.run[1]])

\* retainLegacy and assertShadowEqual: the proofs must be the receipts as they stand.
shadowEqual(m) == proofs(m) = m.receipts

\* The transaction throws for this node.
conflicts(n) == \E m \in verified(n) : ~shadowEqual(m)

\* Mutant: a receipt that did not succeed is taken.
integrationReceiptAny(n) == integ[n].state \notin {"none", "started"}

integrationReceipt(n) == integ[n].state = "succeeded"

\* IntegratedCommitMaterializer: the approval's receipts are compared one by
\* one with the verified materialization's.
integratedSource(n) ==
  {m \in verified(n) : integrationReceipt(n) /\ m = integ[n].candidate /\ integ[n].pins = m.receipts}

\* retainIntegrated: what was retained stays.
integrated(n) ==
  IF mat[n]["integrated_commit"] # {} THEN mat[n]["integrated_commit"] ELSE integratedSource(n)

materialized(n) ==
  [g \in Gates |-> CASE g = "accepted_result" -> accepted(n)
                     [] g = "verified_output" -> verified(n)
                     [] OTHER -> integrated(n)]

\* Mutant: a paused plan is not settled.
settlesRunning == plan = "running"

\* listAllCurrent: the nodes of plans in these states
settles == plan \in {"running", "paused"}

\* ExecutionSettlementService.reconcile: all nodes, or none when one throws
Reconcile ==
  /\ settles
  /\ \A n \in Nodes : ~conflicts(n)
  /\ mat' = [n \in Nodes |-> materialized(n)]
  /\ mat' # mat
  /\ UNCHANGED <<plan, run, check, result, integ, lock, revoked, faults>>

\* reconcileOne, before a node's control command or admission
ReconcileOne(n) ==
  /\ settles /\ ~conflicts(n)
  /\ mat' = [mat EXCEPT ![n] = materialized(n)]
  /\ mat' # mat
  /\ UNCHANGED <<plan, run, check, result, integ, lock, revoked, faults>>

-----------------------------------------------------------------------------
(* Integration. *)

\* Mutant: the target's lock is not looked at.
targetFreeAlways(n) == TRUE

targetFree(n) == lock[Target[n]] = {}

\* approve, up to the operation: the plan in force asks for an integration of
\* the node, its Device is active and no approval was stored before.
approvable(n) ==
  plan = "running" /\ requireOwner(n) /\ "integrated_commit" \in gatesOf(n) /\ integ[n].state = "none"

\* requireMaterialization: what may be approved is the verified candidate.
approvableCandidates(n) == mat[n]["verified_output"]

\* approve: a human approves exactly that candidate, under the target's lock;
\* one approval for the node and target is ever stored.
Approve(n) ==
  /\ approvable(n) /\ targetFree(n)
  /\ \E m \in approvableCandidates(n) :
       integ' = [integ EXCEPT ![n] =
         [state |-> "started", candidate |-> m,
          pins |-> sortedBy(run[m.run].order.ids, Required[n])]]
  /\ lock' = [lock EXCEPT ![Target[n]] = @ \cup {n}]
  /\ UNCHANGED <<plan, run, check, result, mat, revoked, faults>>

\* matchReceipt: how a receipt may say that the integration ended
IntegrationEnds == {"succeeded", "failed", "canceled", "outcome_unknown"}

\* retain: the Device's receipt ends the operation and frees the target.
RetainIntegration(n, state) ==
  /\ integ[n].state = "started" /\ requireOwner(n)
  /\ integ' = [integ EXCEPT ![n].state = state]
  /\ lock' = [lock EXCEPT ![Target[n]] = @ \ {n}]
  /\ UNCHANGED <<plan, run, check, result, mat, revoked, faults>>

Next ==
  \/ \E n \in Nodes, g \in 1 .. MaxGenerations, o \in Orders : Admit(n, g, o)
  \/ \E r \in NodeRuns : \/ run[r].state # "none" /\ ReadInput(r)
                     \/ BeginCapture(r) \/ BindOutput(r) \/ Seal(r)
                     \/ LeaseExpires(r) \/ CaptureExpires(r)
  \/ \E r \in NodeRuns, p \in Profiles :
       BeginVerification(r, p) \/ BindLog(r, p) \/ RetainVerification(r, p)
  \/ \E r \in NodeRuns, p \in Profiles, outcome \in Outcomes : RunProfile(r, p, outcome)
  \/ \E r \in NodeRuns, state \in {"completed", "ended"} : SettleRun(r, state)
  \/ \E r \in NodeRuns, cites \in BOOLEAN : Propose(r, cites)
  \/ \E r \in NodeRuns, decision \in {"accepted", "rejected"} : Review(r, decision)
  \/ \E state \in {"paused", "canceled", "superseded"} : StopPlan(state)
  \/ \E n \in Nodes : RevokeDevice(n) \/ ReconcileOne(n) \/ Approve(n)
  \/ \E n \in Nodes, state \in IntegrationEnds : RetainIntegration(n, state)
  \/ Reconcile

Spec == Init /\ [][Next]_vars

\* The scheduler's drain and the recovery call reconcile again and again.
FairSpec == Spec /\ WF_vars(Reconcile)

-----------------------------------------------------------------------------
(* Properties. *)

GovernedEvidenceTypeOK ==
  /\ plan \in {"running", "paused", "canceled", "superseded"}
  /\ \A r \in NodeRuns :
       /\ run[r].state \in {"none", "active", "completed", "ended"}
       /\ run[r].state # "none" => run[r].uploads \in 0 .. MaxUploads
       /\ run[r].state # "none" /\ run[r].capture = "sealed" => run[r].pinned \in 1 .. MaxUploads
       /\ \A p \in Profiles : check[r][p].state \in {"none", "admitted", "ran", "retained"}
       /\ result[r].state \in {"none", "proposed", "rejected", "accepted"}
  /\ \A n \in Nodes, g \in Gates : Cardinality(mat[n][g]) <= 1
  /\ \A t \in DOMAIN lock : lock[t] \subseteq Nodes

\* A verified output names a completed Run of the newest generation whose
\* sealed checkpoint passed every required profile, with its log, whatever
\* failed, expired or was retried before (verified-output-materializer.ts).
VerifiedMeansVerified ==
  \A n \in Nodes : \A m \in mat[n]["verified_output"] :
    /\ run[m.run].state = "completed" /\ newest(m.run) /\ run[m.run].capture = "sealed"
    /\ \A p \in Required[n] : check[m.run][p].state = "retained"
                              /\ check[m.run][p].outcome = "passed" /\ check[m.run][p].log

\* A Run starts only from proven inputs: the Run behind each of them is
\* completed and, by the gate of its edge, accepted, verified or integrated
\* into its target (materializedSource, freezeAcceptedInputs).
InputsAreProven ==
  \A r \in NodeRuns : run[r].state # "none" => \A b \in run[r].input :
    LET src == b[3].run
    IN /\ run[src].state = "completed" /\ src[1] = b[1]
       /\ b[2] = "accepted_result" => result[src].state = "accepted"
       /\ b[2] # "accepted_result" => \A p \in Required[b[1]] : check[src][p].outcome = "passed"
       /\ b[2] = "integrated_commit" => integ[b[1]].state = "succeeded"

\* Every attempt of a node starts from the same inputs, and a Device reads
\* only what its Run was given.
AttemptsShareInputs ==
  \A r, q \in NodeRuns :
    /\ run[r].state # "none" => run[r].read \subseteq run[r].input
    /\ run[r].state # "none" /\ run[q].state # "none" /\ r[1] = q[1] => run[r].input = run[q].input

\* An integrated commit is the verified one, approved and reported as a
\* success by the Device (integrated-commit-materializer.ts).
IntegratedIsVerified ==
  \A n \in Nodes : \A m \in mat[n]["integrated_commit"] :
    integ[n].state = "succeeded" /\ integ[n].candidate = m /\ m \in mat[n]["verified_output"]

\* The lock of a target is held by exactly its started operation: two are
\* never started on one ref at a time, and the last one's receipt frees it
\* (repository_integration_locks).
OneIntegrationPerTarget ==
  /\ \A t \in DOMAIN lock : lock[t] = {n \in Nodes : Target[n] = t /\ integ[n].state = "started"}
  /\ \A n, k \in Nodes : n # k /\ integ[n].state = "started" /\ integ[k].state = "started" => Target[n] # Target[k]

\* A checkpoint pins all that was bound under its capture: no output is bound
\* once it is sealed (requireActive: REPOSITORY_CAPTURE_ALREADY_SEALED).
SealedIsComplete ==
  \A r \in NodeRuns : run[r].state # "none" /\ run[r].capture = "sealed" => run[r].pinned = run[r].uploads

\* A materialization is final: no later result, receipt or generation
\* changes what dependent Runs started from.
MaterializationFinalStep ==
  \A n \in Nodes, g \in Gates : mat[n][g] # {} => mat'[n][g] = mat[n][g]
MaterializationFinal == [][MaterializationFinalStep]_vars

\* docs/modules/execution-coordination.md: verified_output is materialized by
\* the exact required VerificationReceipt set, so once the set is complete
\* the settlement materializes it.  It does not when the adoption lists the proofs
\* of some node by operation id in another order than its receipts, which are listed
\* by profile: the comparison throws (execution-evidence-adoption-repository.ts:986),
\* and with it the settlement of all nodes.
VerifiedSetMaterializes ==
  \A n \in Nodes : verifiedSource(n) # {} ~>
    \/ mat[n]["verified_output"] # {} \/ verifiedSource(n) = {} \/ plan \in {"canceled", "superseded"}
    \/ \E k \in Nodes : conflicts(k)

\* The approval lists its receipts by id in another order than the candidate does
\* by profile.
PinnedOutOfOrder(n) ==
  integ[n].state = "succeeded" /\ integ[n].pins # integ[n].candidate.receipts

\* docs/modules/execution-coordination.md: integrated_commit requires a
\* successful exact-candidate integration receipt, and nothing else.  It does not
\* come when the approval lists the receipts in another order than the candidate
\* (integrated-commit-materializer.ts:98) or another node's proofs conflict as above.
IntegrationMaterializes ==
  \A n \in Nodes : integ[n].state = "succeeded" ~>
    \/ mat[n]["integrated_commit"] # {} \/ plan \in {"canceled", "superseded"}
    \/ PinnedOutOfOrder(n) \/ \E k \in Nodes \ {n} : conflicts(k)
=============================================================================
