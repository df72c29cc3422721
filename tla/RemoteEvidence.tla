--------------------------- MODULE RemoteEvidence ---------------------------
(***************************************************************************)
(* Remote evidence (apps/server/src/remote): an owner binds a provider,    *)
(* asks it to observe a commit, its checks and its inputs under operation  *)
(* ids chosen by the client, and adopts the retained observations for a    *)
(* node of an approved plan.  A provider call spans several requests; the  *)
(* server may die, the binding may be revoked and the plan may move while  *)
(* it runs, and two sessions may run the same operation.                   *)
(***************************************************************************)
EXTENDS Naturals, FiniteSets, TLC

CONSTANTS
  Ops,         \* operation ids
  Bindings,    \* provider bindings
  Callers,     \* requests being handled at once
  Nodes,       \* nodes of the plan, a subset of {"root", "leaf"}; leaf consumes root
  Commits, Profiles,   \* candidate commits, required verification profiles
  Kinds,       \* the commands clients send
  MaxFaults, MaxRevision, MaxControl,   \* bounds on failures and plan changes
  None

RemoteEvidenceAssumption ==
  /\ Nodes \subseteq {"root", "leaf"}
  /\ Kinds \subseteq {"commit", "ci", "input"}
  /\ {MaxFaults, MaxRevision, MaxControl} \subseteq Nat

VARIABLES
  binding,   \* "absent", "active" or "revoked"
  plan,      \* current revision, control revision and whether it is approved or running
  intents,   \* <<revision, node>> with a dispatch intent
  op,        \* the operation journal
  kept,      \* the observation retained for an operation
  adopted,   \* the evidence adopted for <<revision, node>>
  call,      \* the request each caller handles
  wire,      \* operations whose POST is on its way
  provider,  \* what the provider holds for an operation
  faults
vars == <<binding, plan, intents, op, kept, adopted, call, wire, provider, faults>>

Revs == 1..MaxRevision
Slots == Revs \X Nodes

Init ==
  /\ binding = [b \in Bindings |-> "absent"]
  /\ plan = [rev |-> 1, ctl |-> 1, live |-> TRUE]
  /\ intents = {}
  /\ op = [o \in Ops |-> None] /\ kept = [o \in Ops |-> None]
  /\ adopted = [s \in Slots |-> None]
  /\ call = [c \in Callers |-> None]
  /\ wire = {} /\ provider = [o \in Ops |-> None]
  /\ faults = 0

Fault == faults < MaxFaults /\ faults' = faults + 1

-----------------------------------------------------------------------------
\* Bindings, the plan and its scheduler

\* Rows of bindings and revocations; a revocation is never undone.
insertBinding(b) == [binding EXCEPT ![b] = "active"]
insertRevocation(b) == [binding EXCEPT ![b] = "revoked"]

create(b) ==
  /\ binding[b] = "absent"
  /\ binding' = insertBinding(b)
  /\ UNCHANGED <<plan, intents, op, kept, adopted, call, wire, provider, faults>>

revoke(b) ==
  /\ binding[b] = "active" /\ Fault
  /\ binding' = insertRevocation(b)
  /\ UNCHANGED <<plan, intents, op, kept, adopted, call, wire, provider>>

\* A control decision, a new revision of the plan, or its end.
PlanMoves ==
  /\ plan.live
  /\ \/ plan.ctl < MaxControl /\ plan' = [plan EXCEPT !.ctl = @ + 1]
     \/ /\ plan.rev < MaxRevision
        /\ plan' = [plan EXCEPT !.rev = @ + 1, !.ctl = @ + 1]
     \/ plan' = [plan EXCEPT !.live = FALSE]
  /\ UNCHANGED <<binding, intents, op, kept, adopted, call, wire, provider, faults>>

DispatchAdopted(n) ==
  LET s == <<plan.rev, n>> IN
  /\ plan.live /\ s \notin intents
  /\ intents' = intents \union {s}
  /\ UNCHANGED <<binding, plan, op, kept, adopted, call, wire, provider, faults>>

\* The scheduler admits a node that has no intent and no adopted evidence.
Dispatch(n) ==
  LET s == <<plan.rev, n>> IN
  /\ plan.live /\ s \notin intents /\ adopted[s] = None
  /\ n = "leaf" => "root" \in Nodes /\ adopted[<<plan.rev, "root">>] # None
  /\ intents' = intents \union {s}
  /\ UNCHANGED <<binding, plan, op, kept, adopted, call, wire, provider, faults>>

\* Its Run's own evidence passes the gate.
AdoptLocal(s) ==
  /\ s \in intents /\ adopted[s] = None
  /\ adopted' = [adopted EXCEPT ![s] = [via |-> None, source |-> None, proofs |-> {}, inputs |-> None]]
  /\ UNCHANGED <<binding, plan, intents, op, kept, call, wire, provider, faults>>

-----------------------------------------------------------------------------
\* Commands

\* requireContext: the command names the plan as it stands and a live binding.
requireContext(cmd) ==
  /\ plan.live /\ cmd.rev = plan.rev /\ cmd.ctl = plan.ctl
  /\ binding[cmd.binding] = "active"

remoteInputTopologySupported(n) == n = "leaf" => "root" \in Nodes

\* The source a command names was observed through its binding.
SourceOf(cmd) ==
  /\ kept[cmd.source] # None /\ op[cmd.source].cmd.kind = "commit"
  /\ op[cmd.source].cmd.binding = cmd.binding

\* The retained adoption the leaf's input resolves to.
PlannedInputs(rev) ==
  IF "root" \in Nodes THEN adopted[<<rev, "root">>] ELSE None

\* Well-formed commands that name the plan as it stands; any other is refused
\* by requireContext.
Commands ==
  LET Cmd(kind, sources, items) ==
        [kind : {kind} \intersect Kinds, binding : Bindings, rev : {plan.rev}, ctl : {plan.ctl},
         node : Nodes, source : sources, item : items]
  IN Cmd("commit", {None}, Commits) \union Cmd("ci", Ops, Profiles) \union Cmd("input", Ops, {None})

Undispatched(cmd) == <<cmd.rev, cmd.node>> \notin intents

\* planOperation keeps the first request of an id; a retry must repeat it.
planOperationBare(o, cmd, inputs) ==
  IF op[o] = None THEN [op EXCEPT ![o] = [cmd |-> cmd, inputs |-> inputs, state |-> "new"]] ELSE op
planOperation(o, cmd, inputs) ==
  IF op[o] = None THEN [op EXCEPT ![o] = [cmd |-> cmd, inputs |-> inputs, state |-> "planned"]] ELSE op

\* A replay of a settled operation answers from its row; a changed request is
\* refused.
Resumable(o, cmd, inputs) ==
  op[o] # None =>
    op[o].cmd = cmd /\ op[o].inputs = inputs /\ op[o].state \in {"planned", "outcome_unknown"}

\* The journal row is written and the first request goes out.
Begin(c, o, cmd, inputs) ==
  /\ call[c] = None /\ Resumable(o, cmd, inputs)
  /\ op' = planOperation(o, cmd, inputs)
  /\ call' = [call EXCEPT ![c] = [op |-> o, pc |-> "lookup"]]
  /\ UNCHANGED <<binding, plan, intents, kept, adopted, wire, provider, faults>>

observeCommit(c, o, cmd) ==
  /\ cmd.kind = "commit" /\ requireContext(cmd)
  /\ Undispatched(cmd) /\ remoteInputTopologySupported(cmd.node)
  /\ Begin(c, o, cmd, None)

observeCI(c, o, cmd) ==
  /\ cmd.kind = "ci" /\ requireContext(cmd) /\ SourceOf(cmd)
  /\ op[cmd.source].cmd.rev = cmd.rev /\ op[cmd.source].cmd.node = cmd.node
  /\ Begin(c, o, cmd, None)

\* observe of the attestation service joins every call of the operation.
observeInputs(c, o, cmd) ==
  /\ cmd.kind = "input" /\ requireContext(cmd) /\ SourceOf(cmd) /\ Undispatched(cmd)
  /\ cmd.node = "leaf" /\ PlannedInputs(cmd.rev) # None
  /\ \A d \in Callers : call[d] # None => call[d].op # o
  /\ Begin(c, o, cmd, PlannedInputs(cmd.rev))

-----------------------------------------------------------------------------
\* The provider client

\* An authenticated lookup; only its 404 permits the POST.
lookupOrCreate(c) ==
  /\ call[c] # None /\ call[c].pc = "lookup"
  /\ IF provider[call[c].op] # None
     THEN call' = [call EXCEPT ![c].pc = "answered"] /\ UNCHANGED wire
     ELSE /\ call' = [call EXCEPT ![c].pc = "posted"]
          /\ wire' = wire \union {call[c].op}
  /\ UNCHANGED <<binding, plan, intents, op, kept, adopted, provider, faults>>

\* The provider carries out a POST, perhaps for another commit than was asked or
\* with a bundle that does not check out; a repeated one finds the first.
ProviderCreates(o) ==
  /\ o \in wire
  /\ wire' = wire \ {o}
  /\ \E good \in BOOLEAN, outcome \in {"passed", "failed"} :
       /\ IF provider[o] = None
          THEN provider' = [provider EXCEPT ![o] = [good |-> good, outcome |-> outcome]]
          ELSE UNCHANGED provider
       /\ outcome = "passed" \/ op[o].cmd.kind = "ci"
       /\ IF good /\ outcome = "passed" THEN UNCHANGED faults ELSE Fault
  /\ UNCHANGED <<binding, plan, intents, op, kept, adopted, call>>

ProviderAnswers(c) ==
  /\ call[c] # None /\ call[c].pc = "posted" /\ provider[call[c].op] # None
  /\ call' = [call EXCEPT ![c].pc = "answered"]
  /\ UNCHANGED <<binding, plan, intents, op, kept, adopted, wire, provider, faults>>

markAny(o, state) == [op EXCEPT ![o].state = state]
mark(o, state) ==
  IF op[o].state \in {"planned", "outcome_unknown"} THEN [op EXCEPT ![o].state = state] ELSE op

providerFailureFails(c, how) ==
  mark(call[c].op, IF how = "reset" THEN "outcome_unknown" ELSE "failed")

\* providerFailure keeps the outcome open; the input attestation does so only
\* when the POST itself broke.
providerFailure(c, how) ==
  mark(call[c].op,
       IF op[call[c].op].cmd.kind # "input" \/ how = "reset" THEN "outcome_unknown" ELSE "failed")

\* A POST can be cut off, and a response be too large, not JSON or misencoded.
Breaks(c) ==
  {"timeout"} \union (IF call[c].pc = "posted" THEN {"reset"} ELSE {})
              \union (IF call[c].pc = "answered" THEN {"unreadable"} ELSE {})

\* The call ends without an answer; a timeout covers the lookup and the POST.
CallFails(c) ==
  /\ call[c] # None /\ Fault
  /\ \E how \in Breaks(c) : op' = providerFailure(c, how)
  /\ call' = [call EXCEPT ![c] = None]
  /\ UNCHANGED <<binding, plan, intents, kept, adopted, wire, provider>>

\* A POST on its way is lost with its connection.
PostLost(o) ==
  /\ o \in wire /\ Fault /\ wire' = wire \ {o}
  /\ UNCHANGED <<binding, plan, intents, op, kept, adopted, call, provider>>

\* The server dies: nobody handles the operation until a client asks again.
Crash ==
  /\ \E c \in Callers : call[c] # None
  /\ Fault
  /\ call' = [c \in Callers |-> None]
  /\ UNCHANGED <<binding, plan, intents, op, kept, adopted, wire, provider>>

-----------------------------------------------------------------------------
\* Retaining and adopting

Open(o) == op[o].state \in {"planned", "outcome_unknown"}

\* The insert triggers: of the imports and receipts, and of the attestations.
ScopeAnyBinding(o) == Open(o)
Scope(o) == Open(o) /\ binding[op[o].cmd.binding] = "active"
InputScope(o) ==
  LET cmd == op[o].cmd IN
  /\ Open(o) /\ PlannedInputs(cmd.rev) = op[o].inputs
  /\ \A p \in Ops : kept[p] # None /\ op[p].cmd.kind = "input" =>
       <<op[p].cmd.rev, op[p].cmd.node, op[p].cmd.source>> # <<cmd.rev, cmd.node, cmd.source>>

\* The row and the journal in one transaction; an earlier row is the answer.
Row(o) == [outcome |-> provider[o].outcome, inputs |-> op[o].inputs]
retainCommit(o) == kept' = [kept EXCEPT ![o] = Row(o)] /\ op' = mark(o, "succeeded")
retainCI(o) == kept' = [kept EXCEPT ![o] = Row(o)] /\ op' = mark(o, "succeeded")
retainInputs(o) == kept' = [kept EXCEPT ![o] = Row(o)] /\ op' = mark(o, "succeeded")

\* What an answer must be: of the operation, repository and objects asked for,
\* and for a commit a bundle whose refs, tree and ancestry check out.
validateAnswer(o) == provider[o].good

Answered(c, kind) ==
  /\ call[c] # None /\ call[c].pc = "answered" /\ op[call[c].op].cmd.kind = kind
  /\ call' = [call EXCEPT ![c] = None]
  /\ UNCHANGED <<binding, plan, intents, adopted, wire, provider, faults>>

\* A refused insert fails a commit observation and leaves the others as they were.
settleCommit(c) ==
  LET o == call[c].op IN
  /\ Answered(c, "commit")
  /\ \/ validateAnswer(o) /\ kept[o] # None /\ UNCHANGED <<op, kept>>
     \/ validateAnswer(o) /\ kept[o] = None /\ Scope(o) /\ retainCommit(o)
     \/ /\ ~validateAnswer(o) \/ (kept[o] = None /\ ~Scope(o))
        /\ op' = mark(o, "failed") /\ UNCHANGED kept

settleCI(c) ==
  LET o == call[c].op IN
  /\ Answered(c, "ci")
  /\ \/ validateAnswer(o) /\ kept[o] = None /\ Scope(o) /\ retainCI(o)
     \/ validateAnswer(o) /\ (kept[o] # None \/ ~Scope(o)) /\ UNCHANGED <<op, kept>>
     \/ ~validateAnswer(o) /\ op' = mark(o, "failed") /\ UNCHANGED kept

settleInputs(c) ==
  LET o == call[c].op IN
  /\ Answered(c, "input")
  /\ \/ validateAnswer(o) /\ kept[o] = None /\ InputScope(o) /\ retainInputs(o)
     \/ validateAnswer(o) /\ (kept[o] # None \/ ~InputScope(o)) /\ UNCHANGED <<op, kept>>
     \/ ~validateAnswer(o) /\ op' = mark(o, "failed") /\ UNCHANGED kept

\* Passed receipts of a source through its binding.
proofRows(src, b) ==
  {p \in Ops : /\ kept[p] # None /\ kept[p].outcome = "passed"
               /\ op[p].cmd.kind = "ci" /\ op[p].cmd.source = src /\ op[p].cmd.binding = b}

\* Inputs of the node, attested for this source and still what the plan resolves.
reuseInputsUnchecked(n, src) == TRUE
reuseInputs(n, src) ==
  n = "leaf" => \E p \in Ops :
    /\ kept[p] # None /\ op[p].cmd.kind = "input" /\ op[p].cmd.source = src
    /\ op[p].cmd.rev = plan.rev /\ op[p].cmd.node = n
    /\ kept[p].inputs = PlannedInputs(plan.rev)

\* One proof per required profile, and no other row.
ProofSetAny(rows) == rows # {}
ProofSet(rows) ==
  /\ Cardinality(rows) = Cardinality(Profiles) /\ rows # {}
  /\ \A f \in Profiles : \E p \in rows : op[p].cmd.item = f

\* The adoption with its proofs and the inputs its reuse contract names.
retainAdoption(n, b, src) ==
  [adopted EXCEPT ![<<plan.rev, n>>] =
     [via |-> b, source |-> src, proofs |-> proofRows(src, b),
      inputs |-> IF n = "leaf" THEN PlannedInputs(plan.rev) ELSE None]]

\* adoptVerified, with the trigger of the adoptions table.
adoptVerified(n, b, src) ==
  LET s == <<plan.rev, n>>
      cmd == op[src].cmd
  IN /\ plan.live /\ binding[b] = "active"
     /\ kept[src] # None /\ cmd.kind = "commit" /\ cmd.binding = b
     /\ cmd.rev = plan.rev /\ cmd.node = n /\ cmd.ctl = plan.ctl
     /\ s \notin intents /\ adopted[s] = None
     /\ remoteInputTopologySupported(n) /\ reuseInputs(n, src)
     /\ ProofSet(proofRows(src, b))
     /\ adopted' = retainAdoption(n, b, src)
     /\ UNCHANGED <<binding, plan, intents, op, kept, call, wire, provider, faults>>

Next ==
  \/ \E b \in Bindings : create(b) \/ revoke(b)
  \/ PlanMoves
  \/ \E n \in Nodes : Dispatch(n)
  \/ \E s \in Slots : AdoptLocal(s)
  \/ \E c \in Callers : \/ \E o \in Ops, cmd \in Commands : 
                             observeCommit(c, o, cmd) \/ observeCI(c, o, cmd) \/ observeInputs(c, o, cmd)
                        \/ lookupOrCreate(c) \/ ProviderAnswers(c) \/ CallFails(c)
                        \/ settleCommit(c) \/ settleCI(c) \/ settleInputs(c)
  \/ \E o \in Ops : ProviderCreates(o) \/ PostLost(o)
  \/ Crash
  \/ \E n \in Nodes, b \in Bindings, src \in Ops : adoptVerified(n, b, src)

Spec == Init /\ [][Next]_vars

-----------------------------------------------------------------------------
RemoteTypeOK ==
  /\ \A o \in Ops : op[o] # None => op[o].state \in {"planned", "outcome_unknown", "succeeded", "failed"}
  /\ \A c \in Callers : call[c] # None => call[c].pc \in {"lookup", "posted", "answered"}
  /\ intents \subseteq Slots /\ faults \in 0..MaxFaults

\* The journal and the evidence agree although two sessions may run an operation
\* and end it differently: evidence is there exactly for a succeeded operation,
\* and it is what the provider holds under that id (remote-evidence-repository.ts
\* retainCommit, retainCI; remote-input-attestation-repository.ts retain).
JournalMatchesEvidence ==
  \A o \in Ops :
    /\ op[o] # None => (op[o].state = "succeeded" <=> kept[o] # None)
    /\ kept[o] # None => provider[o] # None /\ provider[o].good

\* Remote evidence stands for a node only with a source of that node and revision,
\* exactly one passed check per required profile of that source, and inputs equal
\* to the evidence adopted upstream (remote-evidence-adoption-service.ts
\* adoptVerified).
AdoptionProven ==
  \A s \in Slots : adopted[s] # None /\ adopted[s].via # None =>
    LET a == adopted[s] IN
    /\ <<op[a.source].cmd.rev, op[a.source].cmd.node>> = s
    /\ \A p \in a.proofs : op[p].cmd.source = a.source /\ kept[p].outcome = "passed"
    /\ \A f \in Profiles : Cardinality({p \in a.proofs : op[p].cmd.item = f}) = 1
    /\ s[2] = "leaf" => \E p \in Ops :
         kept[p] # None /\ op[p].cmd.kind = "input" /\ op[p].cmd.source = a.source
           /\ kept[p].inputs = adopted[<<s[1], "root">>]

\* A node is settled by its own Run or by remote evidence, never by both
\* (governed-run-admission-service.ts existingAttempt; adoptVerified).
OneAuthority == \A s \in Slots : s \in intents => adopted[s] = None \/ adopted[s].via = None

\* A revoked binding lets no observation of a commit or a check in and no
\* adoption, not even for a call that was under way when it was revoked.
RevokedBindingSilentStep ==
  /\ \A o \in Ops : kept'[o] # kept[o] /\ op[o].cmd.kind # "input" =>
       binding[op[o].cmd.binding] = "active"
  /\ \A s \in Slots : adopted'[s] # adopted[s] /\ adopted'[s].via # None =>
       binding[adopted'[s].via] = "active"
RevokedBindingSilent == [][RevokedBindingSilentStep]_vars

\* An operation the provider carried out as asked is never given up while its
\* binding lives: a timeout, a reset or an unreadable response leaves it open to a
\* retry that finds it ("Timeout, reset, malformed response or uncertain POST
\* outcome is retained as outcome_unknown"; providerFailure, observeCommand).
CarriedOutStaysOpen ==
  \A o \in Ops :
    /\ op[o] # None /\ op[o].state = "failed"
    /\ provider[o] # None /\ provider[o].good
    => binding[op[o].cmd.binding] = "revoked"
=============================================================================
