---------------------------- MODULE WorkspaceLeases ----------------------------
(***************************************************************************)
(* The read_source lease under which a Bridge publishes a file of its       *)
(* Workspace (workspace/workspace-lease-service.ts and its repository,      *)
(* http/artifact-routes.ts; bridge/internal/artifact/publisher.go and       *)
(* source.go): observe the file, bring the Agent's snapshot up to date by   *)
(* compare-and-set, take a lease, read the bytes, prepare the publication.  *)
(*                                                                         *)
(* The Workspace changes under the Bridge's hands, answers are lost and     *)
(* requests the Bridge gave up on arrive later; the Run ends, the Agent is  *)
(* disabled or published again from another root, leases expire.           *)
(***************************************************************************)
EXTENDS Naturals, Sequences, FiniteSets

CONSTANTS Artifacts,    \* what a Run publishes: a path with its description
          Roots,        \* Workspace roots the owner may configure
          MaxChanges,   \* bound on changes of a root's metadata
          MaxCalls,     \* bound on calls of Publish, per Artifact
          MaxLosses,    \* bound on answers that do not arrive
          MaxActs       \* bound on what owners and Runs do meanwhile

LeaseAssumption ==
  /\ IsFiniteSet(Artifacts) /\ IsFiniteSet(Roots) /\ Roots # {}
  /\ MaxChanges \in Nat /\ MaxCalls \in Nat /\ MaxLosses \in Nat /\ MaxActs \in Nat

VARIABLES local,       \* the generation workspace.Inspect derives from each root
          configured,  \* the root the owner configured for the Agent
          agent,       \* the Agent's row: its snapshot, and is it enabled?
          running,     \* Artifacts whose Run is delivered or working, its Task open
          leases,      \* workspace_leases, in the order they were issued
          published,   \* the publications prepared
          call,        \* Publish, per Artifact
          net,         \* requests the server has not handled yet
          losses, acts

vars == <<local, configured, agent, running, leases, published, call, net, losses, acts>>

LeaseGenerations == 0..MaxChanges
Snapshots == [ref : Roots, gen : LeaseGenerations]
Inspect(root) == [ref |-> root, gen |-> local[root]]

-----------------------------------------------------------------------------
(* The server. *)

\* requireCurrentAssignment: the Run is active, its Task open, its Agent enabled.
requireCurrentAssignmentRun(a) == agent.enabled
requireCurrentAssignment(a) == a \in running /\ agent.enabled

requireCurrentScope(a, snapshot) == requireCurrentAssignment(a) /\ agent.snapshot = snapshot

\* effectiveLease
Active(l) == ~l.expired

\* getByIdempotency: the key names the Run, the observation and the description.
getByIdempotencyActive(a, snapshot) ==
  {i \in DOMAIN leases : leases[i].artifact = a /\ leases[i].snapshot = snapshot /\ Active(leases[i])}
getByIdempotency(a, snapshot) ==
  {i \in DOMAIN leases : leases[i].artifact = a /\ leases[i].snapshot = snapshot}

\* What a handler leaves and answers.
Answer(ok, view) == [ok |-> ok, view |-> view, agent |-> agent, leases |-> leases,
                     published |-> published]
Refused == Answer(FALSE, 0)

getSourceSnapshot(a) ==
  IF requireCurrentAssignment(a) THEN Answer(TRUE, agent.snapshot) ELSE Refused

\* The UPDATE finds the row as the Bridge saw it.
compareAndSetAgentWorkspaceGeneration(ref, expected) ==
  agent.snapshot = [ref |-> ref, gen |-> expected]

\* refreshSourceSnapshot: a request already carried out is confirmed; else the
\* snapshot must be the one the Bridge saw.
refreshSourceSnapshotBlind(a, expected, snapshot) ==
  IF requireCurrentAssignment(a) /\ agent.snapshot.ref = snapshot.ref
  THEN [Answer(TRUE, snapshot) EXCEPT !.agent.snapshot = snapshot]
  ELSE Refused
refreshSourceSnapshot(a, expected, snapshot) ==
  IF ~requireCurrentAssignment(a) \/ agent.snapshot.ref # snapshot.ref THEN Refused
  ELSE IF agent.snapshot = snapshot THEN Answer(TRUE, snapshot)
  ELSE IF compareAndSetAgentWorkspaceGeneration(snapshot.ref, expected)
  THEN [Answer(TRUE, snapshot) EXCEPT !.agent.snapshot = snapshot]
  ELSE Refused

\* issueReadSource: the same key returns the lease it made, expired or not.
issueReadSource(a, snapshot) ==
  LET known == getByIdempotency(a, snapshot)
      lease == [artifact |-> a, snapshot |-> snapshot, expired |-> FALSE]
  IN IF ~requireCurrentScope(a, snapshot) THEN Refused
     ELSE IF known # {} THEN Answer(TRUE, CHOOSE i \in known : TRUE)
     ELSE [Answer(TRUE, Len(leases) + 1) EXCEPT !.leases = Append(@, lease)]

\* requireActiveReadSource
requireActiveReadSourceStale(a, i, snapshot) ==
  leases[i].artifact = a /\ leases[i].snapshot = snapshot /\ requireCurrentScope(a, snapshot)
requireActiveReadSource(a, i, snapshot) ==
  /\ Active(leases[i]) /\ leases[i].artifact = a /\ leases[i].snapshot = snapshot
  /\ requireCurrentScope(a, snapshot)

\* prepare: a publication already prepared for the same bytes is returned.
prepare(a, i, snapshot, bytes) ==
  LET record == [artifact |-> a, lease |-> i, snapshot |-> snapshot, bytes |-> bytes] IN
  IF record \in published THEN Answer(TRUE, 0)
  ELSE IF requireActiveReadSource(a, i, snapshot)
  THEN [Answer(TRUE, 0) EXCEPT !.published = @ \cup {record}]
  ELSE Refused

Handled(r) ==
  CASE r.op = "get"     -> getSourceSnapshot(r.artifact)
    [] r.op = "post"    -> refreshSourceSnapshot(r.artifact, r.seen, r.plan)
    [] r.op = "lease"   -> issueReadSource(r.artifact, r.plan)
    [] r.op = "prepare" -> prepare(r.artifact, r.lease, r.plan, r.bytes)

-----------------------------------------------------------------------------
(* Publish on the Bridge. *)

Requests == {"get", "get2", "post", "status", "post2", "lease", "lease2", "prepare", "prepare2"}
Operation(step) ==
  CASE step \in {"get", "get2", "status"} -> "get"
    [] step \in {"post", "post2"}         -> "post"
    [] step \in {"lease", "lease2"}       -> "lease"
    [] step \in {"prepare", "prepare2"}   -> "prepare"

\* retrySameRequest, and the lost answer of a refresh, which is looked up first.
UnknownGranted(step) == IF step = "lease" THEN "capture" ELSE "failed"
Unknown(step) ==
  CASE step = "get"     -> "get2"
    [] step = "post"    -> "status"
    [] step = "lease"   -> "lease2"
    [] step = "prepare" -> "prepare2"
    [] OTHER            -> "failed"

\* refreshSourceSnapshot on the Bridge, then the lease and the publication.
After(c, view) ==
  CASE c.step \in {"get", "get2"} ->
         IF view.ref # c.plan.ref THEN [c EXCEPT !.step = "failed"]
         ELSE [c EXCEPT !.step = IF view.gen = c.plan.gen THEN "lease" ELSE "post",
                        !.seen = view.gen]
    [] c.step = "status" ->
         [c EXCEPT !.step = IF view = c.plan THEN "lease"
                            ELSE IF view.gen = c.seen THEN "post2" ELSE "failed"]
    [] c.step \in {"post", "post2"} -> [c EXCEPT !.step = "lease"]
    [] c.step \in {"lease", "lease2"} ->
         [c EXCEPT !.step = IF Active(leases'[view]) THEN "capture" ELSE "failed", !.lease = view]
    [] c.step \in {"prepare", "prepare2"} -> [c EXCEPT !.step = "done"]

Request(a) ==
  [artifact |-> a, op |-> Operation(call[a].step), plan |-> call[a].plan, seen |-> call[a].seen,
   lease |-> call[a].lease, bytes |-> call[a].bytes]

\* Plan and Publish: the file is observed, not yet opened.
PublishOldPlan(a) ==
  /\ call[a].step \in {"idle", "failed"} /\ call[a].calls < MaxCalls
  /\ call' = [call EXCEPT ![a] = [@ EXCEPT !.step = "get", !.waiting = FALSE, !.calls = @ + 1]]
  /\ UNCHANGED <<local, configured, agent, running, leases, published, net, losses, acts>>
Publish(a) ==
  /\ call[a].step \in {"idle", "failed"} /\ call[a].calls < MaxCalls
  /\ call' = [call EXCEPT ![a] =
       [step |-> "get", waiting |-> FALSE, plan |-> Inspect(configured), seen |-> 0, lease |-> 0,
        bytes |-> Inspect(configured), calls |-> @.calls + 1]]
  /\ UNCHANGED <<local, configured, agent, running, leases, published, net, losses, acts>>

Send(a) ==
  /\ call[a].step \in Requests /\ ~call[a].waiting
  /\ net' = net \cup {Request(a)}
  /\ call' = [call EXCEPT ![a].waiting = TRUE]
  /\ UNCHANGED <<local, configured, agent, running, leases, published, losses, acts>>

\* The server handles a request; Publish gets the answer if it still waits for it.
Handle(r) ==
  LET h == Handled(r)
      c == call[r.artifact]
  IN /\ r \in net
     /\ net' = net \ {r}
     /\ agent' = h.agent /\ leases' = h.leases /\ published' = h.published
     /\ call' = IF c.waiting /\ r = Request(r.artifact)
                THEN [call EXCEPT ![r.artifact] =
                        IF h.ok THEN [After(c, h.view) EXCEPT !.waiting = FALSE]
                        ELSE [c EXCEPT !.step = "failed", !.waiting = FALSE]]
                ELSE call
     /\ UNCHANGED <<local, configured, running, losses, acts>>

\* The connection breaks; the request may still arrive.
Lose(a) ==
  /\ call[a].waiting /\ losses < MaxLosses
  /\ losses' = losses + 1
  /\ call' = [call EXCEPT ![a].step = Unknown(@), ![a].waiting = FALSE]
  /\ net' \in {net, net \ {Request(a)}}
  /\ UNCHANGED <<local, configured, agent, running, leases, published, acts>>

\* Capture: the source is observed as it was planned; what is read then counts
\* only if a second read and a second inspection find nothing changed.
observeSourcePlanRef(plan) == plan.ref \in Roots
observeSourcePlan(plan) == Inspect(plan.ref) = plan

Captures(a, c) ==
  /\ call' = [call EXCEPT ![a] = c]
  /\ UNCHANGED <<local, configured, agent, running, leases, published, net, losses, acts>>

Observe(a) ==
  LET c == call[a] IN
  /\ c.step = "capture"
  /\ Captures(a, [c EXCEPT !.step = IF observeSourcePlan(c.plan) THEN "read" ELSE "failed",
                           !.bytes = Inspect(c.plan.ref)])

\* Mutant: nothing is inspected again.
unchangedAlways(c) == TRUE

unchanged(c) == Inspect(c.plan.ref) = c.bytes

Read(a) ==
  LET c == call[a] IN
  /\ c.step = "read"
  /\ Captures(a, [c EXCEPT !.step = IF unchanged(c) THEN "prepare" ELSE "failed",
                           !.bytes = Inspect(c.plan.ref)])

Capture(a) == Observe(a) \/ Read(a)

-----------------------------------------------------------------------------
(* Around the two. *)

\* Files of the root, its .git, HEAD or index change.
Change(root) ==
  /\ local[root] < MaxChanges
  /\ local' = [local EXCEPT ![root] = @ + 1]
  /\ UNCHANGED <<configured, agent, running, leases, published, call, net, losses, acts>>

Act == acts < MaxActs /\ acts' = acts + 1

\* The owner saves another root; the Bridge publishes the Agent when it connects.
Configure(root) ==
  /\ Act /\ root # configured
  /\ configured' = root
  /\ UNCHANGED <<local, agent, running, leases, published, call, net, losses>>

Republish ==
  /\ agent.snapshot # Inspect(configured)
  /\ Act
  /\ agent' = [agent EXCEPT !.snapshot = Inspect(configured)]
  /\ UNCHANGED <<local, configured, running, leases, published, call, net, losses>>

Enable(on) ==
  /\ Act /\ agent.enabled # on
  /\ agent' = [agent EXCEPT !.enabled = on]
  /\ UNCHANGED <<local, configured, running, leases, published, call, net, losses>>

\* The Run ends, or its Task is completed or canceled.
RunEnds(a) ==
  /\ Act /\ a \in running
  /\ running' = running \ {a}
  /\ UNCHANGED <<local, configured, agent, leases, published, call, net, losses>>

\* All leases last as long, so they expire in the order they were issued.
Expire(i) ==
  /\ Act /\ i \in DOMAIN leases /\ ~leases[i].expired
  /\ \A j \in 1..(i - 1) : leases[j].expired
  /\ leases' = [leases EXCEPT ![i].expired = TRUE]
  /\ UNCHANGED <<local, configured, agent, running, published, call, net, losses>>

Init ==
  /\ local = [root \in Roots |-> 0]
  /\ configured \in Roots
  /\ agent = [snapshot |-> Inspect(configured), enabled |-> TRUE]
  /\ running = Artifacts
  /\ leases = <<>>
  /\ published = {}
  /\ call = [a \in Artifacts |-> [step |-> "idle", waiting |-> FALSE, plan |-> Inspect(configured),
                                  seen |-> 0, lease |-> 0, bytes |-> Inspect(configured), calls |-> 0]]
  /\ net = {}
  /\ losses = 0
  /\ acts = 0

Next ==
  \/ \E a \in Artifacts : Publish(a) \/ Send(a) \/ Lose(a) \/ Capture(a) \/ RunEnds(a)
  \/ \E r \in net : Handle(r)
  \/ \E root \in Roots : Change(root) \/ Configure(root)
  \/ Republish
  \/ \E on \in BOOLEAN : Enable(on)
  \/ \E i \in DOMAIN leases : Expire(i)

Spec == Init /\ [][Next]_vars

\* Publish goes on while its process lives, and the server handles what arrives.
FairSpec ==
  /\ Spec
  /\ \A a \in Artifacts :
       /\ WF_vars(Publish(a)) /\ WF_vars(Send(a)) /\ WF_vars(Capture(a))
       /\ WF_vars(\E r \in net : r.artifact = a /\ Handle(r))

-----------------------------------------------------------------------------
(***************************************************************************)
(* Properties.                                                             *)
(***************************************************************************)

\* The state of the leases and of the calls of Publish has its shape.
LeaseTypeOK ==
  /\ local \in [Roots -> LeaseGenerations] /\ configured \in Roots
  /\ agent \in [snapshot : Snapshots, enabled : BOOLEAN]
  /\ \A i \in DOMAIN leases :
       leases[i] \in [artifact : Artifacts, snapshot : Snapshots, expired : BOOLEAN]
  /\ \A a \in Artifacts :
       /\ call[a].step \in Requests \cup {"idle", "capture", "read", "done", "failed"}
       /\ call[a].step \in {"capture", "read", "prepare", "prepare2", "done"} =>
            call[a].lease \in DOMAIN leases
  /\ losses <= MaxLosses /\ acts <= MaxActs

\* However often a lease is asked for, by a retry, by a request that arrives
\* after Publish was started again, or after expiry, one attempt has one lease
\* (issueReadSource, WorkspaceLeaseRepository.create).
OneLeasePerAttempt ==
  \A i, j \in DOMAIN leases :
    (leases[i].artifact = leases[j].artifact /\ leases[i].snapshot = leases[j].snapshot) => i = j

\* The bytes of a publication were read from the Workspace at the snapshot its
\* lease names, though the Workspace changed while the requests were under way
\* (Publish: observe, refresh, lease, capture, prepare).
PublishedAsLeased ==
  \A p \in published : p.bytes = p.snapshot /\ leases[p.lease].snapshot = p.snapshot

\* A request that arrives late gets nothing: no lease and no publication is made
\* for a Run that is over, a disabled Agent or an expired lease
\* (requireCurrentAssignment, requireActiveReadSource).
LateRequestsFencedStep ==
  /\ \A i \in DOMAIN leases' \ DOMAIN leases :
        leases'[i].artifact \in running /\ agent.enabled
   /\ \A p \in published' \ published :
        p.artifact \in running /\ agent.enabled /\ ~leases[p.lease].expired 
LateRequestsFenced == [][LateRequestsFencedStep]_vars

\* A refresh never undoes one its sender had not seen: when a request changes
\* the Agent's snapshot, Publish had read the snapshot that is replaced, so a
\* publication of the Agent or another refresh in between wins
\* (compareAndSetAgentWorkspaceGeneration, Publish's lookup after a lost answer).
RefreshReplacesWhatWasSeenStep ==
  \A r \in net \ net' :
     agent'.snapshot # agent.snapshot =>
       agent.snapshot = [ref |-> r.plan.ref, gen |-> r.seen] 
RefreshReplacesWhatWasSeen == [][RefreshReplacesWhatWasSeenStep]_vars

\* An Artifact published again and again gets through once the Workspace, the
\* Agent and the connection are quiet; only the end of its Run, another root, a
\* disabled Agent, or the expiry of the lease of this very observation prevent
\* it (Publish, refreshSourceSnapshot, leaseIdempotencyKey).
Prevented(a) ==
  \/ a \notin running \/ ~agent.enabled \/ agent.snapshot.ref # configured
  \/ \E i \in DOMAIN leases : leases[i].expired /\ leases[i].artifact = a
PublishesInTheEnd ==
  \A a \in Artifacts : <>[](call[a].step = "done" \/ Prevented(a))
=============================================================================
