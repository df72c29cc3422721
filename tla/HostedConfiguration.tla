------------------------ MODULE HostedConfiguration ------------------------
(***************************************************************************)
(* Configuration of a Hosted Agent (hosted/hosted-agent-configuration-     *)
(* service.ts, data/hosted-agent-repository.ts): provider credentials and  *)
(* Runtime Profiles are versioned, every change is preceded by a probe of  *)
(* the provider, probes share a bounded number of slots, and the Agent's   *)
(* stored presence is written by many hands.                               *)
(***************************************************************************)
EXTENDS Naturals, Sequences, FiniteSets, SequencesExt

CONSTANTS
  Requests,       \* owner requests that probe the provider, each sent once
  Kinds,          \* the kinds of them: "test", "create", "retest", "update"
  Keys, Models,   \* API keys and model names the validators let through
  maximumConcurrency,   \* probe slots
  MaxRevision,    \* bound on Runtime Profile revisions
  Made,           \* <<key, model>> of an Agent that an earlier request may have made
  None

HostedConfigurationAssumption ==
  /\ maximumConcurrency \in Nat \ {0} /\ MaxRevision \in Nat
  /\ Kinds \subseteq {"test", "create", "retest", "update"}
  /\ Made # {} => MaxRevision > 0

VARIABLES
  agent,      \* the hosted Agent's row, with whether it is in an open Room
  creds,      \* hosted_provider_credentials, by version
  profiles,   \* hosted_runtime_profiles, by revision; the last one is current
  tests,      \* the latest test observation of a revision
  work,       \* an accepted Hosted Run is executing
  authority,  \* the stored keyring can be opened by this process
  req,        \* the probing requests
  slots,      \* requests whose provider call holds a probe slot
  waiters,    \* requests queued for a slot
  closed,     \* the server is shutting down
  proven,     \* (history) key and model pairs the provider accepted
  clock       \* number of requests begun: their arrival time
vars == <<agent, creds, profiles, tests, work, authority, req, slots, waiters, closed, proven, clock>>
store == <<agent, creds, profiles, tests, work, authority>>

NoTests == [v \in 1..MaxRevision |-> None]

Init ==
  /\ \/ /\ agent = None /\ creds = <<>> /\ profiles = <<>> /\ tests = NoTests
        /\ proven = {} /\ clock = 0
     \/ \E made \in Made :
          /\ agent = [enabled |-> TRUE, presence |-> "ready", room |-> TRUE]
          /\ creds = <<[key |-> made[1], revoked |-> FALSE]>>
          /\ profiles = <<[model |-> made[2], cred |-> 1]>>
          /\ tests = [NoTests EXCEPT ![1] = [at |-> 1, ok |-> TRUE]]
          /\ proven = {made} /\ clock = 1
  /\ work = FALSE /\ authority = TRUE
  /\ req = [r \in Requests |-> None]
  /\ slots = {} /\ waiters = <<>> /\ closed = FALSE

-----------------------------------------------------------------------------
\* Rows

getCurrentProfile == Last(profiles)
Revoked == creds[getCurrentProfile.cred].revoked

\* The newest credential replaces the active one.
createCredentialBeside(key) == Append(creds, [key |-> key, revoked |-> FALSE])
createCredential(key) ==
  Append([v \in DOMAIN creds |-> [creds[v] EXCEPT !.revoked = TRUE]], [key |-> key, revoked |-> FALSE])

createProfile(model, cred) == Append(profiles, [model |-> model, cred |-> cred])

\* The latest observation is the one of the request that arrived last.
recordTestObservation(rev, at, ok) ==
  IF tests[rev] # None /\ tests[rev].at > at THEN tests
  ELSE [tests EXCEPT ![rev] = [at |-> at, ok |-> ok]]

getAvailability(ag, cs, ps, ts) ==
  LET rev == Len(ps) IN
  /\ authority /\ ag.enabled /\ ag.room
  /\ ~cs[ps[rev].cred].revoked /\ ts[rev] # None /\ ts[rev].ok
Available == getAvailability(agent, creds, profiles, tests)

ReadyOr(ready) == IF ready THEN "ready" ELSE "degraded"

-----------------------------------------------------------------------------
\* The probe coordinator

\* A released slot goes to the first waiter.
drainNothing(free, queue) == [slots |-> free, waiters |-> queue, woken |-> {}]
drain(free, queue) ==
  LET n == IF maximumConcurrency - Cardinality(free) < Len(queue)
           THEN maximumConcurrency - Cardinality(free) ELSE Len(queue)
      woken == {queue[i] : i \in 1..n}
  IN [slots |-> free \union woken, waiters |-> SubSeq(queue, n + 1, Len(queue)), woken |-> woken]

releaseSlot(r, after) ==
  LET d == drain(slots \ {r}, waiters) IN
  /\ slots' = d.slots /\ waiters' = d.waiters
  /\ req' = [q \in Requests |-> IF q \in d.woken THEN [req[q] EXCEPT !.pc = "granted"]
                                ELSE IF q = r THEN after ELSE req[q]]

acquireUnplaced(r, new) ==
  /\ req' = [req EXCEPT ![r] = new] /\ clock' = clock + 1
  /\ UNCHANGED <<store, slots, waiters, closed, proven>>

\* A request takes a slot, queues for one, or fails while the server shuts down.
acquire(r, new) ==
  LET asked == [new EXCEPT !.pc = IF closed THEN "failed"
                                  ELSE IF Cardinality(slots) < maximumConcurrency THEN "granted" ELSE "waiting"]
  IN /\ req' = [req EXCEPT ![r] = asked]
     /\ slots' = IF asked.pc = "granted" THEN slots \union {r} ELSE slots
     /\ waiters' = IF asked.pc = "waiting" THEN Append(waiters, r) ELSE waiters
     /\ clock' = clock + 1
     /\ UNCHANGED <<store, closed, proven>>

requireCurrentProbeProfileSkipped(q) == TRUE

\* beforeDispatch of a probe for a configured Agent.
requireCurrentProbeProfile(q) ==
  q.kind \in {"retest", "update"} =>
    authority /\ Len(profiles) = q.rev /\ Revoked = q.revoked

\* The granted probe starts its provider call, or gives its slot back.
Dispatch(r) ==
  /\ req[r] # None /\ req[r].pc = "granted"
  /\ IF req[r].aborted
     THEN releaseSlot(r, [req[r] EXCEPT !.pc = "failed"])
     ELSE IF requireCurrentProbeProfile(req[r])
     THEN req' = [req EXCEPT ![r].pc = "probing"] /\ UNCHANGED <<slots, waiters>>
     ELSE releaseSlot(r, [req[r] EXCEPT !.pc = "refused"])
  /\ UNCHANGED <<store, closed, proven, clock>>

\* The transport settles; a request that was not aborted takes its result.
ProbeSettles(r, ok) ==
  /\ r \in slots /\ req[r].pc # "granted"
  /\ ok => req[r].pc = "probing"
  /\ releaseSlot(r, IF req[r].pc = "probing"
                    THEN [req[r] EXCEPT !.pc = IF ok THEN "ready" ELSE "failed"] ELSE req[r])
  /\ proven' = IF ok THEN proven \union {<<req[r].key, req[r].model>>} ELSE proven
  /\ UNCHANGED <<store, closed, clock>>

aborted(q) ==
  [q EXCEPT !.aborted = TRUE, !.pc = IF q.pc \in {"waiting", "probing"} THEN "failed" ELSE q.pc]

\* The deadline passes or the client goes away.  A provider call under way keeps
\* its slot until it settles.
abortWaiterStays(r) ==
  /\ req[r] # None /\ req[r].pc \in {"waiting", "granted", "probing"} /\ ~req[r].aborted
  /\ req' = [req EXCEPT ![r] = IF @.pc = "waiting" THEN [@ EXCEPT !.aborted = TRUE] ELSE aborted(@)]
  /\ waiters' = SelectSeq(waiters, LAMBDA q : q # r)
  /\ UNCHANGED <<store, slots, closed, proven, clock>>
abort(r) ==
  /\ req[r] # None /\ req[r].pc \in {"waiting", "granted", "probing"} /\ ~req[r].aborted
  /\ req' = [req EXCEPT ![r] = aborted(@)]
  /\ waiters' = SelectSeq(waiters, LAMBDA q : q # r)
  /\ UNCHANGED <<store, slots, closed, proven, clock>>

\* close aborts every operation; later ones fail at once.
shutdown ==
  /\ ~closed /\ closed' = TRUE
  /\ req' = [r \in Requests |->
               IF req[r] # None /\ req[r].pc \in {"waiting", "granted", "probing"} THEN aborted(req[r]) ELSE req[r]]
  /\ waiters' = <<>>
  /\ UNCHANGED <<store, slots, proven, clock>>

\* The next process may hold another credential root.
Restart ==
  /\ closed
  /\ closed' = FALSE /\ slots' = {} /\ waiters' = <<>>
  /\ req' = [r \in Requests |-> IF req[r] = None THEN None ELSE [req[r] EXCEPT !.pc = "done"]]
  /\ authority' \in BOOLEAN
  /\ UNCHANGED <<agent, creds, profiles, tests, work, proven, clock>>

-----------------------------------------------------------------------------
\* Requests of the Team owner

Request(kind, key, model, rev, revoked, stored) ==
  [kind |-> kind, pc |-> "new", aborted |-> FALSE, key |-> key, model |-> model,
   rev |-> rev, revoked |-> revoked, stored |-> stored, at |-> clock + 1]

Fresh(r, kind) == kind \in Kinds /\ req[r] = None

\* A new key is tried without any Agent, or for the Agent to be created.
testConnection(r) ==
  /\ Fresh(r, "test") /\ authority
  /\ \E key \in Keys, model \in Models : acquire(r, Request("test", key, model, 0, FALSE, FALSE))

create(r) ==
  /\ Fresh(r, "create") /\ authority /\ agent = None
  /\ \E key \in Keys, model \in Models : acquire(r, Request("create", key, model, 0, FALSE, FALSE))

\* The stored key of the current profile, if it is not revoked.
resolveExecutionProfile == authority /\ ~Revoked

testConfigured(r) ==
  /\ Fresh(r, "retest") /\ agent # None /\ resolveExecutionProfile
  /\ acquire(r, Request("retest", creds[getCurrentProfile.cred].key, getCurrentProfile.model,
                        Len(profiles), FALSE, TRUE))

\* A new model with the stored key, or a new key.
updateProfile(r) ==
  /\ Fresh(r, "update") /\ agent # None /\ authority /\ ~work /\ Len(profiles) < MaxRevision
  /\ \E model \in Models :
       \/ /\ resolveExecutionProfile
          /\ acquire(r, Request("update", creds[getCurrentProfile.cred].key, model, Len(profiles), Revoked, TRUE))
       \/ \E key \in Keys : acquire(r, Request("update", key, model, Len(profiles), Revoked, FALSE))

\* The probe is over; a failed or refused request changes nothing.
Reply(r) ==
  /\ req' = [req EXCEPT ![r].pc = "done"]
  /\ UNCHANGED <<work, authority, slots, waiters, closed, proven, clock>>

ReplyUnchanged(r) ==
  /\ req[r] # None
  /\ \/ req[r].pc = "refused"
     \/ req[r].pc = "failed" /\ req[r].kind # "retest"
     \/ req[r].pc = "ready" /\ req[r].kind = "test"
  /\ Reply(r) /\ UNCHANGED <<agent, creds, profiles, tests>>

\* Agent, credential, profile and observation in one transaction.
commitCreate(r) ==
  LET q == req[r] IN
  /\ q # None /\ q.kind = "create" /\ q.pc = "ready" /\ agent = None /\ Reply(r)
  /\ \E room \in BOOLEAN : agent' = [enabled |-> TRUE, presence |-> ReadyOr(room), room |-> room]
  /\ creds' = createCredential(q.key)
  /\ profiles' = createProfile(q.model, Len(creds) + 1)
  /\ tests' = recordTestObservation(1, q.at, TRUE)

\* Another owner's creation came first: that makes a second Agent, not followed here.
otherAgent(r) ==
  /\ req[r] # None /\ req[r].kind = "create" /\ req[r].pc = "ready" /\ agent # None
  /\ Reply(r) /\ UNCHANGED <<agent, creds, profiles, tests>>

observeConfiguredTrusting(r) ==
  LET q == req[r] IN
  /\ q # None /\ q.kind = "retest" /\ q.pc \in {"ready", "failed"} /\ Reply(r)
  /\ tests' = recordTestObservation(q.rev, q.at, q.pc = "ready")
  /\ agent' = IF agent.presence # "busy" /\ Len(profiles) = q.rev
              THEN [agent EXCEPT !.presence = IF ~agent.enabled THEN "offline" ELSE ReadyOr(q.pc = "ready")]
              ELSE agent
  /\ UNCHANGED <<creds, profiles>>

\* The observation is kept for the revision that was tested; presence follows
\* only if that is still the current one.
observeConfigured(r) ==
  LET q == req[r] IN
  /\ q # None /\ q.kind = "retest" /\ q.pc \in {"ready", "failed"} /\ Reply(r)
  /\ tests' = recordTestObservation(q.rev, q.at, q.pc = "ready")
  /\ agent' = IF agent.presence # "busy" /\ Len(profiles) = q.rev
              THEN [agent EXCEPT !.presence =
                      IF ~agent.enabled THEN "offline"
                      ELSE ReadyOr(q.pc = "ready" /\ getAvailability(agent, creds, profiles, tests'))]
              ELSE agent
  /\ UNCHANGED <<creds, profiles>>

\* What was checked before the probe is checked again in the transaction.
stillCurrentUnchecked(q) == Len(profiles) < MaxRevision
stillCurrent(q) == Len(profiles) = q.rev /\ ~work /\ Revoked = q.revoked

commitUpdate(r) ==
  LET q == req[r] IN
  /\ q # None /\ q.kind = "update" /\ q.pc = "ready" /\ Reply(r)
  /\ \/ /\ stillCurrent(q)
        /\ creds' = IF q.stored THEN creds ELSE createCredential(q.key)
        /\ profiles' = createProfile(q.model, IF q.stored THEN getCurrentProfile.cred ELSE Len(creds'))
        /\ tests' = recordTestObservation(Len(profiles'), q.at, TRUE)
        /\ agent' = [agent EXCEPT !.presence = ReadyOr(getAvailability(agent, creds', profiles', tests'))]
     \/ ~stillCurrent(q) /\ UNCHANGED <<agent, creds, profiles, tests>>

revokeCredential ==
  /\ agent # None /\ ~Revoked
  /\ creds' = [creds EXCEPT ![getCurrentProfile.cred].revoked = TRUE]
  /\ agent' = [agent EXCEPT !.presence = "degraded"]
  /\ UNCHANGED <<profiles, tests, work, authority, req, slots, waiters, closed, proven, clock>>

-----------------------------------------------------------------------------
\* Other writers of presence

SetAgent(next) ==
  /\ agent' = next
  /\ UNCHANGED <<creds, profiles, tests, authority, req, slots, waiters, closed, proven, clock>>

\* setEnabled and refreshEnabledPresence.
refreshEnabledPresence(enabled) ==
  /\ agent # None /\ (~enabled => ~work)
  /\ LET next == [agent EXCEPT !.enabled = enabled] IN
     SetAgent([next EXCEPT !.presence =
                 IF ~enabled THEN "offline" ELSE ReadyOr(getAvailability(next, creds, profiles, tests))])
  /\ UNCHANGED work

\* The Agent's last open Room is taken away, or a Room is opened to it.
projectHostedAvailability ==
  /\ agent # None
  /\ LET next == [agent EXCEPT !.room = ~@]
         now == getAvailability(next, creds, profiles, tests)
     IN SetAgent(IF ~agent.enabled THEN next
                 ELSE IF ~now THEN [next EXCEPT !.presence = "degraded"]
                 ELSE IF ~Available /\ agent.presence # "busy" THEN [next EXCEPT !.presence = "ready"] ELSE next)
  /\ UNCHANGED work

\* The Hosted Run scheduler (HostedRuns) dispatches and settles.
RunStarts ==
  /\ agent # None /\ ~work /\ Available
  /\ SetAgent([agent EXCEPT !.presence = "busy"]) /\ work' = TRUE

projectHostedPresence(ok) ==
  /\ work /\ work' = FALSE
  /\ SetAgent([agent EXCEPT !.presence = ReadyOr(ok /\ Available)])

\* Listing the Agents writes back what it shows.
listAgents ==
  /\ agent # None
  /\ SetAgent([agent EXCEPT !.presence =
                 IF ~agent.enabled THEN "offline"
                 ELSE IF @ = "busy" THEN "busy" ELSE ReadyOr(Available /\ @ = "ready")])
  /\ UNCHANGED work

Next ==
  \/ \E r \in Requests :
       \/ testConnection(r) \/ create(r) \/ testConfigured(r) \/ updateProfile(r)
       \/ Dispatch(r) \/ (\E ok \in BOOLEAN : ProbeSettles(r, ok)) \/ abort(r)
       \/ ReplyUnchanged(r) \/ commitCreate(r) \/ otherAgent(r) \/ observeConfigured(r) \/ commitUpdate(r)
  \/ shutdown \/ Restart
  \/ revokeCredential \/ (\E enabled \in BOOLEAN : refreshEnabledPresence(enabled))
  \/ projectHostedAvailability \/ RunStarts \/ (\E ok \in BOOLEAN : projectHostedPresence(ok)) \/ listAgents

Spec == Init /\ [][Next]_vars

\* The deadline timer fires and the server's own steps are taken; the provider
\* may never answer.
Answers(r) == ReplyUnchanged(r) \/ commitCreate(r) \/ otherAgent(r) \/ observeConfigured(r) \/ commitUpdate(r)
FairSpec ==
  Spec /\ \A r \in Requests : WF_vars(Dispatch(r)) /\ WF_vars(abort(r)) /\ WF_vars(Answers(r))

-----------------------------------------------------------------------------
HostedConfigurationTypeOK ==
  /\ agent # None => agent.presence \in {"ready", "busy", "degraded", "offline"}
  /\ Len(profiles) \in 0..MaxRevision /\ Len(creds) \in 0..MaxRevision
  /\ \A r \in Requests : req[r] # None =>
       req[r].pc \in {"waiting", "granted", "probing", "ready", "failed", "refused", "done"}

\* No slot is lost and no waiter forgotten, however probes are aborted: nobody
\* queues while a slot is free, at most maximumConcurrency calls are under way,
\* and a request waits exactly while it is queued (acquire, releaseSlot, drain).
ProbeSlots ==
  /\ Cardinality(slots) <= maximumConcurrency
  /\ waiters # <<>> => Cardinality(slots) = maximumConcurrency
  /\ \A r \in Requests : req[r] # None =>
       /\ req[r].pc = "waiting" <=> \E i \in DOMAIN waiters : waiters[i] = r
       /\ req[r].pc \in {"granted", "probing"} => r \in slots

\* A profile comes into force only with a key and a model the provider accepted
\* together, although the profile may change while the probe runs, and only its
\* credential is live (updateProfile, create, createCredential).
ProfileProven ==
  /\ \A v \in DOMAIN profiles : <<creds[profiles[v].cred].key, profiles[v].model>> \in proven
  /\ \A c \in DOMAIN creds : ~creds[c].revoked => c = getCurrentProfile.cred

\* A stored key is sent only while it is the current profile's live credential,
\* however long the probe queued (requireCurrentProbeProfile).
StoredKeyCurrentStep ==
  \A r \in Requests :
    req[r] # None /\ req'[r].pc = "probing" /\ req[r].pc # "probing" /\ req[r].stored =>
      ~Revoked /\ creds[getCurrentProfile.cred].key = req[r].key
StoredKeyCurrent == [][StoredKeyCurrentStep]_vars

\* An Agent shown ready can be used: enabled, in an open Room, with a live
\* credential whose latest test passed (every writer of agents.presence).
ReadyIsAvailable == agent # None /\ authority /\ agent.presence = "ready" => Available

\* Every request gets its answer even if the provider never does.
ProbeAnswered ==
  \A r \in Requests : (req[r] # None) ~> (req[r] # None /\ req[r].pc = "done")

\* "Only an explicit later successful observation promotes it back to ready"
\* (presence-service.ts listAgents).
OnlyObservationPromotes ==
  [][agent # None /\ agent.presence = "degraded" /\ agent'.presence = "ready"
       => tests' # tests \/ work' # work]_vars
=============================================================================
