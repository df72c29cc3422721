------------------------------ MODULE MCDevices ------------------------------
(***************************************************************************)
(* The parts around a Device, which share no state: the gate of its Agents,*)
(* the isolated Workspaces, the pairing, the leases and publications of    *)
(* Artifacts, the registry of its Agents, and the access of its members.  A*)
(* behaviour is one part's: `on` names it, the others rest.                *)
(***************************************************************************)
EXTENDS AgentExecutionGate, IsolatedWorkspace, DevicePairing, TLC

CONSTANTS
  Explored, \* the parts this run explores
  a1, a2, w1, w2, w3, w4

\* Three workers compete for the first Agent, one has the second to itself.
OneContended == (w1 :> a1) @@ (w2 :> a1) @@ (w3 :> a1) @@ (w4 :> a2)

\* A new installation, one with a user alone, one with an owner, one with two.
OwnerOnly == {[users |-> {"u1"}, owns |-> {<<"u1", "t1">>}]}
AnyInstall ==
  OwnerOnly \cup {[users |-> {}, owns |-> {}], [users |-> {"u1"}, owns |-> {}],
                  [users |-> {"u1", "u2"}, owns |-> {<<"u1", "t1">>, <<"u2", "t2">>}]}

VARIABLE on   \* the part this behaviour is of
VARIABLES row, content, artifacts, tmp, blob, due, pubActive, source, client,
          net, losses, crashes   \* publication of Artifacts
VARIABLES local, configured, agent, leaseRunning, leases, published, call,
          leaseNet, leaseLosses, acts   \* source leases
VARIABLES device, agents, requests, presence, connection, sockets, toServer,
          toBridge, regBridge, work, budget   \* registry and connections
VARIABLES users, members, owner, key, session, invite, recovery, sent, accLate   \* access of members

pubVars == <<row, content, artifacts, tmp, blob, due, pubActive, source, client, net,
  losses, crashes>>
leaseVars == <<local, configured, agent, leaseRunning, leases, published, call, leaseNet,
  leaseLosses, acts>>
regVars == <<device, agents, requests, presence, connection, sockets, toServer, toBridge,
  regBridge, work, budget>>
accVars == <<users, members, owner, key, session, invite, recovery, sent, accLate>>

\* A part that is not explored: its variables keep this value.
Rest == "at rest"
pubAtRest ==
  /\ row = Rest /\ content = Rest /\ artifacts = Rest /\ tmp = Rest
  /\ blob = Rest /\ due = Rest /\ pubActive = Rest /\ source = Rest
  /\ client = Rest /\ net = Rest /\ losses = Rest /\ crashes = Rest
leaseAtRest ==
  /\ local = Rest /\ configured = Rest /\ agent = Rest /\ leaseRunning = Rest
  /\ leases = Rest /\ published = Rest /\ call = Rest /\ leaseNet = Rest
  /\ leaseLosses = Rest /\ acts = Rest
regAtRest ==
  /\ device = Rest /\ agents = Rest /\ requests = Rest /\ presence = Rest
  /\ connection = Rest /\ sockets = Rest /\ toServer = Rest /\ toBridge = Rest
  /\ regBridge = Rest /\ work = Rest /\ budget = Rest
accAtRest ==
  /\ users = Rest /\ members = Rest /\ owner = Rest /\ key = Rest
  /\ session = Rest /\ invite = Rest /\ recovery = Rest /\ sent = Rest
  /\ accLate = Rest

-----------------------------------------------------------------------------
\* The parts and their instances

\* two publications of the same content
PU == INSTANCE ArtifactPublication WITH
  Losses <- 1, Crashes <- 0, Publications <- {"p1", "p2"}, Capture <- {},
  Size <- 1, Bytes <- {"good"}, MaximumUploads <- 2, active <- pubActive

\* one publication over a loss and a crash
PR == INSTANCE ArtifactPublication WITH
  Losses <- 1, Crashes <- 1, Publications <- {"p1"}, Capture <- {}, Size <- 2,
  Bytes <- {"good"}, MaximumUploads <- 1, active <- pubActive

\* a capture beside a publication, bytes that may not be the declared ones
PC == INSTANCE ArtifactPublication WITH
  Losses <- 0, Crashes <- 1, Publications <- {"p1", "p2"}, Capture <- {"p1"},
  Size <- 1, Bytes <- {"good", "bad"}, MaximumUploads <- 1,
  active <- pubActive

\* two Artifacts of one Workspace that changes
L == INSTANCE WorkspaceLeases WITH
  Artifacts <- {"x1", "x2"}, Roots <- {"w1"}, MaxChanges <- 2, MaxCalls <- 1,
  MaxLosses <- 1, MaxActs <- 1, running <- leaseRunning, net <- leaseNet,
  losses <- leaseLosses

\* three connections and one Agent to be made
G == INSTANCE AgentRegistry WITH
  Requests <- {"r1"}, Template <- "template",
  Answers <- {"configuration_failed", "refused"}, Statuses <- {"degraded"},
  MaxEpoch <- 2, MaxSends <- 2, MaxFaults <- 1, MaxActs <- 1,
  bridge <- regBridge

\* one request for an Agent, sent twice
GP == INSTANCE AgentRegistry WITH
  Requests <- {"r1"}, Template <- "template",
  Answers <- {"configuration_failed", "refused"}, Statuses <- {},
  MaxEpoch <- 3, MaxSends <- 2, MaxFaults <- 0, MaxActs <- 1,
  bridge <- regBridge

\* an owner who replaces the access key twice
AO == INSTANCE WebAccess WITH
  Teams <- {"t1", "t2"}, FirstKey <- "k1", Users <- {"u1", "u2"},
  Sessions <- {"x1", "x2", "x3"}, Invitations <- {}, Recoveries <- {},
  Keys <- {"k1", "k2"}, MaxRevision <- 2, Installs <- AnyInstall,
  late <- accLate

\* members who are invited and recover
AM == INSTANCE WebAccess WITH
  Teams <- {"t1", "t2"}, FirstKey <- "k1", Users <- {"u1", "u2", "u3"},
  Sessions <- {"x1", "x2", "x3"}, Invitations <- {"i1"},
  Recoveries <- {"c1", "c2"}, Keys <- {"k1"}, MaxRevision <- 0,
  Installs <- OwnerOnly, late <- accLate

ASSUME PartsAssumption ==
  /\ PU!PublicationAssumption /\ PR!PublicationAssumption
  /\ PC!PublicationAssumption /\ L!LeaseAssumption /\ G!RegistryAssumption
  /\ GP!RegistryAssumption /\ AO!AccessAssumption /\ AM!AccessAssumption

-----------------------------------------------------------------------------
EachInit ==
  /\ on \in Explored
  /\ Init
  /\ IsolatedInit
  /\ PairingInit
  /\ \/ on = "uploads" /\ PU!Init
     \/ on = "resumed" /\ PR!Init
     \/ on = "capture" /\ PC!Init
     \/ on \notin {"uploads", "resumed", "capture"} /\ pubAtRest
  /\ \/ on = "leases" /\ L!Init
     \/ on # "leases" /\ leaseAtRest
  /\ \/ on = "registry" /\ G!Init
     \/ on = "provision" /\ GP!Init
     \/ on \notin {"registry", "provision"} /\ regAtRest
  /\ \/ on = "owner" /\ AO!Init
     \/ on = "members" /\ AM!Init
     \/ on \notin {"owner", "members"} /\ accAtRest

StepGate ==
  on = "gate" /\ Next
    /\ UNCHANGED <<on, isolatedVars, pairingVars, pubVars, leaseVars, regVars,
                  accVars>>
StepIsolated ==
  on = "isolated" /\ IsolatedNext
    /\ UNCHANGED <<on, vars, pairingVars, pubVars, leaseVars, regVars, accVars>>
StepPairing ==
  on = "pairing" /\ PairingNext
    /\ UNCHANGED <<on, vars, isolatedVars, pubVars, leaseVars, regVars, accVars>>
StepUploads ==
  on = "uploads" /\ PU!Next
    /\ UNCHANGED <<on, vars, isolatedVars, pairingVars, leaseVars, regVars,
                  accVars>>
StepResumed ==
  on = "resumed" /\ PR!Next
    /\ UNCHANGED <<on, vars, isolatedVars, pairingVars, leaseVars, regVars,
                  accVars>>
StepCapture ==
  on = "capture" /\ PC!Next
    /\ UNCHANGED <<on, vars, isolatedVars, pairingVars, leaseVars, regVars,
                  accVars>>
StepLeases ==
  on = "leases" /\ L!Next
    /\ UNCHANGED <<on, vars, isolatedVars, pairingVars, pubVars, regVars,
                  accVars>>
StepRegistry ==
  on = "registry" /\ G!Next
    /\ UNCHANGED <<on, vars, isolatedVars, pairingVars, pubVars, leaseVars,
                  accVars>>
StepProvision ==
  on = "provision" /\ GP!Next
    /\ UNCHANGED <<on, vars, isolatedVars, pairingVars, pubVars, leaseVars,
                  accVars>>
StepOwner ==
  on = "owner" /\ AO!Next
    /\ UNCHANGED <<on, vars, isolatedVars, pairingVars, pubVars, leaseVars,
                  regVars>>
StepMembers ==
  on = "members" /\ AM!Next
    /\ UNCHANGED <<on, vars, isolatedVars, pairingVars, pubVars, leaseVars,
                  regVars>>

EachNext ==
  \/ StepGate
  \/ StepIsolated
  \/ StepPairing
  \/ StepUploads
  \/ StepResumed
  \/ StepCapture
  \/ StepLeases
  \/ StepRegistry
  \/ StepProvision
  \/ StepOwner
  \/ StepMembers

eachVars == <<on, vars, isolatedVars, pairingVars, pubVars, leaseVars, regVars, accVars>>
EachSpec == EachInit /\ [][EachNext]_eachVars

-----------------------------------------------------------------------------
\* What was sealed can be read and was bound once, an upload that goes on has every
\* byte that was acknowledged (but for a capture that failed its digest check, see
\* AcknowledgedIsStored), and what is published was read at the snapshot its one
\* lease names, whatever was lost or died meanwhile
\* (artifact-publication-repository.ts, workspace-lease-service.ts, publisher.go).
PublishedAsMade ==
  /\ on = "uploads" => PU!PublicationTypeOK /\ PU!SealedIsReadable /\ PU!OneArtifact
  /\ on = "resumed" => PR!SealedIsReadable /\ PR!AcknowledgedIsStored
  /\ on = "capture" => PC!SealedIsReadable /\ PC!UploadsBounded /\ PC!AcknowledgedIsStored
  /\ on = "leases" => L!LeaseTypeOK /\ L!OneLeasePerAttempt /\ L!PublishedAsLeased

\* The server's picture of a Device is of its live connection: one socket, grants
\* published over that one, and an Agent registered exactly when its request is
\* ready and its Bridge has it; and members enter as they were let in: a key that
\* was replaced opens nothing, a user has one recovery code, an invitation makes one
\* member (bridge-connection-registry.ts, agent-device-repository.ts,
\* agent-provisioning-service.ts, trusted-web-access-service.ts).
ConnectedAsGranted ==
  /\ on = "registry" =>
       /\ G!TypeOK /\ G!ReadyMeansRegistered /\ G!AcceptedMeansConfigured
       /\ G!GrantsAreOfThisConnection /\ G!OneLiveConnection
  /\ on = "owner" => AO!AccessTypeOK /\ AO!OldKeyOpensNothing
  /\ on = "members" => AM!OneRecoveryCode /\ AM!OneMemberPerInvitation

\* What a step may never do: take an upload back, act for a request that came too
\* late, undo a refresh its sender had not seen, enable an Agent its owner
\* disabled, sign out by a repeated request, recover into a second Team.
DeviceStepsSafe ==
  [][/\ on = "uploads" => PU!UploadsAdvanceStep
     /\ on = "leases" => L!LateRequestsFencedStep /\ L!RefreshReplacesWhatWasSeenStep
     /\ on = "registry" => G!OwnerDecidesStep
     /\ on = "owner" => AO!RetryKeepsSessionsStep
     /\ on = "members" => AM!RecoveryStaysInTeamStep]_eachVars

-----------------------------------------------------------------------------
\* ADR-0020: "Exact request retries converge on the same request and Agent", so an
\* Agent the Bridge created never belongs to a request that was turned down.
ProvisionRetriesConverge == on = "provision" => GP!RetriesConverge
=============================================================================
