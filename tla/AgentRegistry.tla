--------------------------- MODULE AgentRegistry ---------------------------
(***************************************************************************)
(* The Agent registry and Presence of one Device, and the creation of new  *)
(* Agents from the Web: registry/agent-service.ts, agent-provisioning-     *)
(* service.ts, presence-service.ts, data/agent-device-repository.ts, the   *)
(* routes of http/registry-routes.ts, the hello, heartbeat, agent.status,  *)
(* agent.publish and agent.provision.result frames of                      *)
(* http/bridge-socket-routes.ts, and bridge/bridge-connection-registry.ts. *)
(*                                                                         *)
(* A socket is named by the connection epoch its Bridge took for it, and a *)
(* reserved Agent by the request that reserved it.  Frames of one socket   *)
(* are delivered in order, frames of different sockets in any order; a     *)
(* socket the server closes still delivers what was in flight until it is  *)
(* really closed.                                                          *)
(***************************************************************************)
EXTENDS Naturals, Sequences, SequencesExt

CONSTANTS
  Requests,    \* the provisioning requests a member makes
  Template,    \* the Agent the Bridge was paired with, the clones' template
  Answers,     \* how a Bridge may turn a request down
  Statuses,    \* the statuses an agent.status frame may carry
  MaxEpoch,    \* bound: connections the Bridge opens
  MaxSends,    \* bound: submissions of the provisioning form
  MaxFaults,   \* bound: cut connections and server restarts
  MaxActs      \* bound: acts of the owner, of Runs and of expiring clocks

AllAgents == {Template} \union Requests
Epochs == 1 .. MaxEpoch

\* "configuration_failed" is the rejection a Bridge may be asked about again;
\* "refused" stands for every other reason.
Rejections == {"configuration_failed", "refused"}

RegistryAssumption ==
  /\ Template \notin Requests
  /\ Answers \subseteq Rejections
  /\ Statuses \subseteq {"ready", "busy", "degraded"}
  /\ {MaxEpoch, MaxSends, MaxFaults, MaxActs} \subseteq Nat

VARIABLES
  device,       \* the status of the Device row
  agents,       \* the agents rows and their Room participation
  requests,     \* the status of each agent_provision_requests row
  presence,     \* device_presence: epoch, and whether the heartbeat is recent
  connection,   \* the Device's entry in the in-memory connection registry
  sockets,      \* the server's end of every connection
  toServer,     \* frames in flight from the Bridge, per connection
  toBridge,     \* provisioning requests in flight to the Bridge
  bridge,       \* the Bridge: epoch file, live connection, configured Agents
  work,         \* the Agents with an accepted Run that has not ended
  budget        \* what is left of the bounds

server == <<device, agents, requests, presence, connection, sockets>>
vars == <<device, agents, requests, presence, connection, sockets,
          toServer, toBridge, bridge, work, budget>>

\* An Agent the server has no row for.
Unregistered ==
  [registered |-> FALSE, enabled |-> FALSE, presence |-> "offline",
   inRooms |-> FALSE, published |-> 0]

\* No entry for the Device in the connection registry.
Disconnected ==
  [epoch |-> 0, governed |-> FALSE, grants |-> [a \in AllAgents |-> 0]]

\* agent_provision_requests.status, a rejection carrying its reason.
RequestStatus ==
  {"none", "pending", "delivered", "accepted", "ready"} \union Rejections

Frame ==
  [type : {"hello"}, governed : BOOLEAN]
    \union [type : {"heartbeat"}]
    \union [type : {"status"}, agent : AllAgents, status : Statuses]
    \union [type : {"publish"}, agent : AllAgents, governed : BOOLEAN]
    \union [type : {"result"}, request : Requests,
            status : {"accepted"} \union Rejections]

TypeOK ==
  /\ device \in {"active", "revoked"}
  /\ agents \in [AllAgents ->
       [registered : BOOLEAN, enabled : BOOLEAN,
        presence : {"ready", "busy", "degraded", "offline"},
        inRooms : BOOLEAN, published : 0 .. MaxEpoch]]
  /\ requests \in [Requests -> RequestStatus]
  /\ presence \in [epoch : 0 .. MaxEpoch, fresh : BOOLEAN]
  /\ connection \in [epoch : 0 .. MaxEpoch, governed : BOOLEAN,
                     grants : [AllAgents -> 0 .. MaxEpoch]]
  /\ sockets \in [Epochs ->
       [state : {"new", "open", "closing", "closed"}, hello : BOOLEAN]]
  /\ toServer \in [Epochs -> Seq(Frame)]
  /\ toBridge \in [Epochs -> Seq(Requests)]
  /\ bridge \in [epoch : 0 .. MaxEpoch, live : 0 .. MaxEpoch,
                 configured : Seq(AllAgents)]
  /\ work \subseteq AllAgents
  /\ budget \in [sends : 0 .. MaxSends, faults : 0 .. MaxFaults,
                 acts : 0 .. MaxActs]

Init ==
  /\ device = "active"
  /\ agents = [a \in AllAgents |-> Unregistered]
  /\ requests = [r \in Requests |-> "none"]
  /\ presence = [epoch |-> 0, fresh |-> FALSE]
  /\ connection = Disconnected
  /\ sockets = [e \in Epochs |-> [state |-> "new", hello |-> FALSE]]
  /\ toServer = [e \in Epochs |-> <<>>]
  /\ toBridge = [e \in Epochs |-> <<>>]
  /\ bridge = [epoch |-> 0, live |-> 0, configured |-> <<Template>>]
  /\ work = {}
  /\ budget = [sends |-> MaxSends, faults |-> MaxFaults, acts |-> MaxActs]

Spend(kind) ==
  /\ budget[kind] > 0
  /\ budget' = [budget EXCEPT ![kind] = @ - 1]

-----------------------------------------------------------------------------
(* The Bridge.                                                             *)

\* nextEpoch, the hello and one publication per configured Agent, in order.
\* A revoked credential is refused before the socket opens.
BridgeConnects ==
  \E governed \in SUBSET ToSet(bridge.configured) :
    LET e == bridge.epoch + 1
        Publication(a) ==
          [type |-> "publish", agent |-> a, governed |-> a \in governed]
    IN /\ bridge.live = 0 /\ bridge.epoch < MaxEpoch
       /\ device = "active"
       /\ bridge' = [bridge EXCEPT !.epoch = e, !.live = e]
       /\ sockets' = [sockets EXCEPT ![e].state = "open"]
       /\ toServer' = [toServer EXCEPT ![e] =
            <<[type |-> "hello", governed |-> governed # {}]>>
              \o [i \in 1 .. Len(bridge.configured) |->
                    Publication(bridge.configured[i])]]
       /\ UNCHANGED <<device, agents, requests, presence, connection,
                      toBridge, work, budget>>

BridgeSends(frame) ==
  toServer' = [toServer EXCEPT ![bridge.live] = Append(@, frame)]

\* The heartbeat ticker, and a status observation of one Agent.
BridgeReports ==
  /\ bridge.live # 0 /\ toServer[bridge.live] = <<>>
  /\ \/ BridgeSends([type |-> "heartbeat"])
     \/ \E a \in ToSet(bridge.configured), s \in Statuses :
          BridgeSends([type |-> "status", agent |-> a, status |-> s])
  /\ Spend("acts")
  /\ UNCHANGED <<server, toBridge, bridge, work>>

\* An agent.provision.requested frame: a wrong code, active work or a failed
\* write turns it down; an accepted clone is in the local configuration when
\* the answer is written, and ends the connection so that the next one
\* publishes it.
BridgeAnswers ==
  LET e == bridge.live
      r == Head(toBridge[e])
      Answer(s) == BridgeSends([type |-> "result", request |-> r, status |-> s])
  IN /\ e # 0 /\ toBridge[e] # <<>>
     /\ \/ /\ \E s \in Answers : Answer(s)
           /\ toBridge' = [toBridge EXCEPT ![e] = Tail(@)]
           /\ UNCHANGED bridge
        \/ /\ Answer("accepted")
           /\ toBridge' = [toBridge EXCEPT ![e] = <<>>]
           /\ bridge' = [bridge EXCEPT !.live = 0,
                !.configured = IF r \in ToSet(@) THEN @ ELSE Append(@, r)]
     /\ UNCHANGED <<server, work, budget>>

\* The Bridge loses its connection before the server notices.
BridgeLosesConnection ==
  /\ bridge.live # 0
  /\ Spend("faults")
  /\ bridge' = [bridge EXCEPT !.live = 0]
  /\ toBridge' = [toBridge EXCEPT ![bridge.live] = <<>>]
  /\ UNCHANGED <<server, toServer, work>>

-----------------------------------------------------------------------------
(* The server's sockets.                                                   *)

Closing(s, e) == [s EXCEPT ![e].state = "closing"]

\* BridgeConnectionRegistry.remove: only the socket that is registered.
RemoveAnyEntry(e) == Disconnected
RemoveEntry(e) == IF connection.epoch = e THEN Disconnected ELSE connection

\* The close event.  Frames the socket had not delivered are lost.
SocketClosed(e) ==
  /\ sockets[e].state = "closing" \/ (sockets[e].state = "open" /\ bridge.live # e)
  /\ sockets' = [sockets EXCEPT ![e].state = "closed"]
  /\ connection' = RemoveEntry(e)
  /\ toServer' = [toServer EXCEPT ![e] = <<>>]
  /\ toBridge' = [toBridge EXCEPT ![e] = <<>>]
  /\ bridge' = IF bridge.live = e THEN [bridge EXCEPT !.live = 0] ELSE bridge
  /\ UNCHANGED <<device, agents, requests, presence, work, budget>>

\* The server restarts: every socket and the connection registry are gone.
Restart ==
  /\ Spend("faults")
  /\ sockets' = [e \in Epochs |->
       IF sockets[e].state = "new" THEN sockets[e]
       ELSE [sockets[e] EXCEPT !.state = "closed"]]
  /\ connection' = Disconnected
  /\ toServer' = [e \in Epochs |-> <<>>]
  /\ toBridge' = [e \in Epochs |-> <<>>]
  /\ bridge' = [bridge EXCEPT !.live = 0]
  /\ UNCHANGED <<device, agents, requests, presence, work>>

\* Takes the next frame of socket e.
Receive(e, type) ==
  /\ sockets[e].state \in {"open", "closing"}
  /\ toServer[e] # <<>> /\ Head(toServer[e]).type = type
  /\ toServer' = [toServer EXCEPT ![e] = Tail(@)]
  /\ UNCHANGED <<device, toBridge, bridge, work, budget>>

\* rejectMessage and failMessage: the frame changes nothing, the socket goes.
Reject(e) ==
  /\ sockets' = Closing(sockets, e)
  /\ UNCHANGED <<agents, requests, presence, connection>>

\* projectAgentPresence: the enabled Agents of the Device are ready, and what
\* was busy stays busy.
ProjectAgentPresence(rows) ==
  [a \in AllAgents |->
    IF rows[a].registered /\ rows[a].enabled /\ rows[a].presence # "busy"
    THEN [rows[a] EXCEPT !.presence = "ready"] ELSE rows[a]]

\* recordPresence refuses an epoch below the stored one.
StaleEpoch(e) == e < presence.epoch

\* BridgeConnectionRegistry.register: an older entry is superseded, an equal
\* or newer one refuses.
Registers(e) == connection.epoch < e

\* recordHello writes the Presence and the observed build in one transaction,
\* for the epoch of the connection.
RecordHello(e) == [epoch |-> e, fresh |-> TRUE]

\* bridge.hello.  The entry is registered before the rows are written, and
\* stays when they refuse.
HandleHello(e) ==
  LET frame == Head(toServer[e])
      old == connection.epoch
      superseded == IF old # 0 THEN Closing(sockets, old) ELSE sockets
  IN /\ Receive(e, "hello")
     /\ \/ /\ ~Registers(e)
           /\ Reject(e)
        \/ /\ Registers(e)
           /\ connection' = [Disconnected EXCEPT !.epoch = e,
                                                 !.governed = frame.governed]
           /\ \/ /\ ~StaleEpoch(e)
                 /\ sockets' = [superseded EXCEPT ![e].hello = TRUE]
                 /\ presence' = RecordHello(e)
                 /\ agents' = ProjectAgentPresence(agents)
              \/ /\ StaleEpoch(e)
                 /\ sockets' =
                      [Closing(superseded, e) EXCEPT ![e].hello = TRUE]
                 /\ UNCHANGED <<agents, presence>>
           /\ UNCHANGED requests

\* bridge.heartbeat of a registered socket.
HandleHeartbeat(e) ==
  /\ Receive(e, "heartbeat")
  /\ \/ /\ ~sockets[e].hello \/ StaleEpoch(e)
        /\ Reject(e)
     \/ /\ sockets[e].hello /\ ~StaleEpoch(e)
        /\ presence' = [epoch |-> e, fresh |-> TRUE]
        /\ agents' = ProjectAgentPresence(agents)
        /\ UNCHANGED <<requests, connection, sockets>>

\* PresenceService.recordAgentStatus wants the current epoch and an enabled
\* Agent.
RecordsStatus(a, e) ==
  presence.epoch = e /\ agents[a].registered /\ agents[a].enabled

\* agent.status of a registered socket.
HandleStatus(e) ==
  LET frame == Head(toServer[e])
      known == sockets[e].hello /\ RecordsStatus(frame.agent, e)
  IN /\ Receive(e, "status")
     /\ \/ ~known /\ Reject(e)
        \/ /\ known
           /\ agents' = [agents EXCEPT ![frame.agent].presence = frame.status]
           /\ UNCHANGED <<requests, presence, connection, sockets>>

\* convergePublishedAgent: only a request that may still become an Agent lets
\* its reserved Agent be published.
MayConvergeUnrejected(a) ==
  a \in Requests => requests[a] \notin Rejections
MayConverge(a) ==
  a \in Requests => requests[a] # "refused"

ConvergeWithoutPending(a) ==
  IF a \in Requests /\ requests[a] \in {"accepted", "configuration_failed"}
  THEN [requests EXCEPT ![a] = "ready"] ELSE requests
Converge(a) ==
  IF a \in Requests THEN [requests EXCEPT ![a] = "ready"] ELSE requests

\* publishDeviceAgent: a new Agent is enabled and joins the Rooms; a known one
\* keeps what the owner decided.
CreateAgent(e) ==
  [registered |-> TRUE, enabled |-> TRUE, presence |-> "ready",
   inRooms |-> TRUE, published |-> e]
UpdateAgentPublication(a, e) ==
  [agents[a] EXCEPT !.published = e,
     !.presence = IF agents[a].enabled THEN "ready" ELSE "offline"]

PublishAnew(a, e) == CreateAgent(e)
PublishDeviceAgent(a, e) ==
  IF agents[a].registered THEN UpdateAgentPublication(a, e) ELSE CreateAgent(e)

\* supportsGovernedAgentCapability reads the Device's current entry, whichever
\* socket that is.
SupportsGoverned == connection.epoch # 0 /\ connection.governed

\* recordGovernedAgentCapability: only for the socket that is registered.
RecordsAnyGrant(e) == connection.epoch # 0
RecordsGrant(e) == connection.epoch = e

\* What the handler of agent.publish asks of the frame and the request.
PublicationValid(e, frame) ==
  /\ sockets[e].hello
  /\ frame.governed => SupportsGoverned
  /\ MayConverge(frame.agent)

\* agent.publish.  The Agent and its request are written in one transaction;
\* the connection is compared only afterwards.
HandlePublish(e) ==
  LET frame == Head(toServer[e])
      a == frame.agent
      valid == PublicationValid(e, frame)
  IN /\ Receive(e, "publish")
     /\ \/ ~valid /\ Reject(e)
        \/ /\ valid
           /\ agents' = [agents EXCEPT ![a] = PublishDeviceAgent(a, e)]
           /\ requests' = Converge(a)
           /\ \/ /\ RecordsGrant(e)
                 /\ connection' = [connection EXCEPT
                      !.grants[a] = IF frame.governed THEN e ELSE 0]
                 /\ UNCHANGED sockets
              \/ /\ ~RecordsGrant(e)
                 /\ sockets' = Closing(sockets, e)
                 /\ UNCHANGED connection
           /\ UNCHANGED presence

\* agent.provision.result: AgentProvisioningService.applyResult.
AppliesResult(r) == requests[r] \in {"pending", "delivered"}

HandleResult(e) ==
  LET frame == Head(toServer[e])
      r == frame.request
      known == requests[r] \in {"ready", frame.status}
  IN /\ Receive(e, "result")
     /\ \/ /\ ~sockets[e].hello \/ (~known /\ ~AppliesResult(r))
           /\ Reject(e)
        \/ /\ sockets[e].hello /\ known
           /\ UNCHANGED <<agents, requests, presence, connection, sockets>>
        \/ /\ sockets[e].hello /\ ~known /\ AppliesResult(r)
           /\ requests' = [requests EXCEPT ![r] = frame.status]
           /\ UNCHANGED <<agents, presence, connection, sockets>>

-----------------------------------------------------------------------------
(* The Web.                                                                *)

\* requireEligibleTarget
EligibleTarget ==
  /\ device = "active"
  /\ agents[Template].registered /\ agents[Template].enabled

\* markDelivered
MarkAccepted(status) ==
  IF status \in {"pending", "configuration_failed"} THEN "accepted" ELSE status
MarkDelivered(status) ==
  IF status \in {"pending", "configuration_failed"} THEN "delivered" ELSE status

\* createRequest: a new row reserves the Agent; the row of a known request id is returned as it is.
CreateUnlisted(r) == IF requests[r] = "none" THEN "created" ELSE requests[r]
CreateRequest(r) == IF requests[r] = "none" THEN "pending" ELSE requests[r]

\* POST agent-provision-requests, first or repeated with the same request id.
\* An answered request is returned; while the Bridge is offline the row stays
\* and the member is told to retry.
SubmitRequest(r) ==
  LET status == CreateRequest(r)
      answered == status \in {"accepted", "ready", "refused"}
      sent == ~answered /\ connection.epoch # 0
  IN /\ EligibleTarget
     /\ Spend("sends")
     /\ requests' = [requests EXCEPT
          ![r] = IF sent THEN MarkDelivered(status) ELSE status]
     /\ toBridge' = IF sent /\ sockets[connection.epoch].state = "open"
                      THEN [toBridge EXCEPT ![connection.epoch] = Append(@, r)]
                      ELSE toBridge
     /\ UNCHANGED <<device, agents, presence, connection, sockets, toServer,
                    bridge, work>>

\* hasActiveWork
HasActiveWork(a) == a \in work

\* setAgentEnabled: a managed Agent is offline until its Bridge reports again.
SetAgentEnabled(a, enabled) ==
  [agents EXCEPT ![a].enabled = enabled, ![a].presence = "offline"]

\* PATCH agents/:agentId: setEnabled, refused for an Agent with active work.
SetEnabled(a, enabled) ==
  /\ agents[a].registered
  /\ enabled \/ ~HasActiveWork(a)
  /\ Spend("acts")
  /\ agents' = SetAgentEnabled(a, enabled)
  /\ UNCHANGED <<device, requests, presence, connection, sockets, toServer,
                 toBridge, bridge, work>>

\* validateRoomParticipants: every Agent of the new list, the ones that were
\* there before too, is registered and enabled.
ValidParticipants(list) ==
  \A a \in list : agents[a].registered /\ agents[a].enabled

Participants == {a \in AllAgents : agents[a].inRooms}

\* The owner of a Room changes its Agents.
SetRooms(a, member) ==
  /\ agents[a].registered /\ agents[a].inRooms # member
  /\ ValidParticipants(IF member THEN Participants \union {a}
                       ELSE Participants \ {a})
  /\ Spend("acts")
  /\ agents' = [agents EXCEPT ![a].inRooms = member]
  /\ UNCHANGED <<device, requests, presence, connection, sockets, toServer,
                 toBridge, bridge, work>>

\* What listAgents derives for a managed Agent, enabled or not.
DerivedPresence(a) ==
  IF device # "active" \/ ~presence.fresh THEN "offline"
  ELSE IF agents[a].presence = "busy" THEN "busy" ELSE "ready"

\* GET agents: PresenceService.listAgents stores what it derives.
ListAgents ==
  /\ agents' = [a \in AllAgents |->
       IF agents[a].registered
       THEN [agents[a] EXCEPT !.presence = DerivedPresence(a)] ELSE agents[a]]
  /\ agents' # agents
  /\ UNCHANGED <<device, requests, presence, connection, sockets, toServer,
                 toBridge, bridge, work, budget>>

\* The heartbeat outlives its TTL.
HeartbeatExpires ==
  /\ presence.fresh
  /\ Spend("acts")
  /\ presence' = [presence EXCEPT !.fresh = FALSE]
  /\ UNCHANGED <<device, agents, requests, connection, sockets, toServer,
                 toBridge, bridge, work>>

\* AgentDeviceRepository.revokeDevice: the Agents are disabled with the Device.
RevokedAgents ==
  [a \in AllAgents |->
    IF agents[a].registered
    THEN [agents[a] EXCEPT !.enabled = FALSE, !.presence = "offline"]
    ELSE agents[a]]

\* DELETE devices/:deviceId: the row, its Agents, its Runs, its connection.
RevokeDevice ==
  LET e == connection.epoch
  IN /\ device = "active"
     /\ Spend("acts")
     /\ device' = "revoked"
     /\ agents' = RevokedAgents
     /\ work' = {}
     /\ connection' = Disconnected
     /\ sockets' = IF e # 0 THEN Closing(sockets, e) ELSE sockets
     /\ UNCHANGED <<requests, presence, toServer, toBridge, bridge>>

\* A run.status frame of the Bridge: a Run that works makes its Agent busy, one
\* that ended makes it ready.
RunReports(a, working) ==
  /\ \E e \in Epochs : sockets[e].state = "open" /\ sockets[e].hello
  /\ agents[a].registered
  /\ IF working THEN a \notin work /\ agents[a].enabled ELSE a \in work
  /\ Spend("acts")
  /\ work' = IF working THEN work \union {a} ELSE work \ {a}
  /\ agents' = [agents EXCEPT ![a].presence = IF working THEN "busy" ELSE "ready"]
  /\ UNCHANGED <<device, requests, presence, connection, sockets, toServer,
                 toBridge, bridge>>

-----------------------------------------------------------------------------
Handle(e) ==
  \/ HandleHello(e) \/ HandleHeartbeat(e) \/ HandleStatus(e)
  \/ HandlePublish(e) \/ HandleResult(e)

Next ==
  \/ BridgeConnects \/ BridgeReports \/ BridgeAnswers \/ BridgeLosesConnection
  \/ \E e \in Epochs : Handle(e) \/ SocketClosed(e)
  \/ Restart
  \/ \E r \in Requests : SubmitRequest(r)
  \/ \E a \in AllAgents, b \in BOOLEAN :
       SetEnabled(a, b) \/ SetRooms(a, b) \/ RunReports(a, b)
  \/ ListAgents \/ HeartbeatExpires \/ RevokeDevice

Spec == Init /\ [][Next]_vars

\* The Bridge reconnects and answers, and the server reads its sockets.
FairSpec ==
  /\ Spec
  /\ WF_vars(BridgeConnects) /\ WF_vars(BridgeAnswers)
  /\ \A e \in Epochs : WF_vars(Handle(e)) /\ WF_vars(SocketClosed(e))

-----------------------------------------------------------------------------
(* Properties.                                                             *)

\* convergePublishedAgent writes the Agent and its request in one transaction:
\* a reserved Agent is registered exactly when its request is ready, even when
\* the acceptance was lost or arrives late.
ReadyMeansRegistered ==
  \A r \in Requests : agents[r].registered <=> requests[r] = "ready"

\* applyResult and markDelivered never report an Agent as created that the
\* Bridge does not have in its configuration.
AcceptedMeansConfigured ==
  \A r \in Requests :
    requests[r] \in {"accepted", "ready"} => r \in ToSet(bridge.configured)

\* recordGovernedAgentCapability: what authorises governed work was published
\* on the very connection it would be sent over.
GrantsAreOfThisConnection ==
  \A a \in AllAgents : connection.grants[a] \in {0, connection.epoch}

\* register, recordHello and remove: a Device has at most one live registered
\* socket, the server sends over that one, and its epoch is the stored one.
OneLiveConnection ==
  \A e \in Epochs :
    sockets[e].hello /\ sockets[e].state = "open" =>
      connection.epoch = e /\ presence.epoch = e

\* publishDeviceAgent and projectAgentPresence: nothing a Bridge sends enables
\* a disabled Agent or brings a removed one back into the Rooms.
OwnerDecidesStep ==
  \A a \in AllAgents :
    agents[a].registered =>
      /\ agents'[a].enabled /\ ~agents[a].enabled => SetEnabled(a, TRUE)
      /\ agents'[a].inRooms /\ ~agents[a].inRooms => SetRooms(a, TRUE)
OwnerDecides == [][OwnerDecidesStep]_vars

\* convergePublishedAgent, nextEpoch: an Agent the Bridge has put into its
\* configuration is registered in the end, unless the Device is revoked or the
\* request was answered with a refusal.  That one comes first when a second
\* submission is accepted after the first was refused: the acceptance and every
\* later publication of the Agent are turned down (agent-provisioning-service.ts:226).
ConfiguredRegisters ==
  \A r \in Requests :
    r \in ToSet(bridge.configured)
      ~> agents[r].registered \/ device = "revoked" \/ requests[r] = "refused"

\* ADR-0020: repeated submissions of one request converge on one answer, so an
\* Agent the Bridge created never belongs to a request that was turned down.
RetriesConverge ==
  \A r \in Requests :
    r \in ToSet(bridge.configured) => requests[r] # "refused"

\* agent-registry.md: a stale Bridge update is rejected by its epoch, so the
\* published facts of an Agent never come from an older connection.
StaleUpdatesRejected ==
  [][\A a \in AllAgents : agents'[a].published >= agents[a].published]_vars

\* agent-registry.md: a revoked Device cannot publish.
RevokedCannotPublish ==
  [][device = "revoked" =>
       \A a \in AllAgents : agents'[a].published = agents[a].published]_vars

\* agent-registry.md: an Agent with an accepted active Run on a live Bridge is
\* busy, never ready.
WorkIsBusy ==
  \A a \in work : presence.fresh => agents[a].presence # "ready"

=============================================================================
