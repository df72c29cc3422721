----------------------------- MODULE DevicePairing -----------------------------
(***************************************************************************)
(* How a Device comes to be trusted (apps/server/src/security): pairing    *)
(* sessions with their claim, decision and poll; legacy join requests and  *)
(* invitations; private CA rotation; and the browser sessions that a       *)
(* paired Device opens for its member.                                     *)
(*                                                                         *)
(* A Device is named after the session, join request or invitation it was  *)
(* made from.  Every request may be repeated and its response lost.        *)
(***************************************************************************)
EXTENDS Naturals, FiniteSets

CONSTANTS Sessions, Bound,   \* pairing sessions; those with a member binding
          Joins, Invites,    \* legacy join requests and invitations
          Bridges,
          Operations,        \* decisions an owner makes
          Tickets,           \* browser entry tickets
          MaxEpoch           \* bound on deployment trust epochs

Devices == Sessions \cup Joins \cup Invites
None == "none"

ASSUME PairingAssumption ==
  /\ Bound \subseteq Sessions /\ MaxEpoch \in Nat \ {0}
  /\ Sessions \cap Joins = {} /\ (Sessions \cup Joins) \cap Invites = {}
  /\ None \notin Bridges \cup Devices

VARIABLES ses,     \* device_pairing_sessions
          legacy,  \* bridge_join_requests and bridge_pairing_invites
          late,    \* pairings and tickets whose time is up
          made,    \* Devices created from each pairing
          revoked, \* revoked Devices
          grant,   \* client_access_grants, by Device
          ticket,  \* client_entry_tickets
          web,     \* browser sessions created from each ticket
          served,  \* requests served for them
          req,     \* decisions sent by owners, with what was on the screen
          bridge,  \* the Bridge's pairing client
          trust,   \* deployment trust: epoch and offer
          acks     \* device_private_ca_rotation_acknowledgements

pairingVars == <<ses, legacy, late, made, revoked, grant, ticket, web, served, req, bridge, trust, acks>>
access == <<grant, ticket, web, served>>
rotation == <<trust, acks>>

NewSession == [state |-> None, trust |-> 0, claim |-> None, op |-> None]

-----------------------------------------------------------------------------
(* Pairing sessions. *)

isPreDecision(state) == state \in {"issued", "claimed"}

\* What the row is taken for; get and poll also keep it, a refusal rolls it back.
expire(s) == IF isPreDecision(ses[s].state) /\ s \in late THEN "expired" ELSE ses[s].state

\* create; a repeated create returns the session.
Create(s) ==
  /\ ses[s].state = None
  /\ ses' = [ses EXCEPT ![s].state = "issued", ![s].trust = trust.epoch]
  /\ UNCHANGED <<legacy, late, made, revoked, access, req, bridge, rotation>>

\* The owner looks at the session and decides; the request keeps what was shown.
Decides(op, s, action) ==
  /\ req[op].session = None /\ ses[s].state # None
  /\ LET shown == expire(s) IN
     /\ ses' = [ses EXCEPT ![s].state = shown]
     /\ isPreDecision(shown) /\ (action # "cancel" => shown = "claimed")
     /\ req' = [req EXCEPT ![op] = [session |-> s, action |-> action, expected |-> shown,
                                    saw |-> ses[s].claim]]
  /\ UNCHANGED <<legacy, late, made, revoked, access, bridge, rotation>>

\* A Bridge is given the link or code of a session.
Starts(b, s) ==
  /\ bridge[b].step = "idle" /\ ses[s].state # None
  /\ bridge' = [bridge EXCEPT ![b] = [session |-> s, step |-> "claiming"]]
  /\ UNCHANGED <<ses, legacy, late, made, revoked, access, req, rotation>>

isExactClaim(s, b) == ses[s].claim = b

\* Mutant: a later claim replaces an earlier one.
claimableAgain(s, b) ==
  expire(s) \in {"issued", "claimed"} \/ (isExactClaim(s, b) /\ expire(s) # "expired")

\* The first claim, or that claim again.
claimable(s, b) ==
  expire(s) = "issued" \/ (isExactClaim(s, b) /\ expire(s) # "expired")

\* claim
Claim(b) ==
  LET s == bridge[b].session IN
  /\ bridge[b].step = "claiming"
  /\ claimable(s, b)
  /\ ses' = IF isExactClaim(s, b) THEN ses
            ELSE [ses EXCEPT ![s].state = "claimed", ![s].claim = b]
  /\ \/ bridge' = [bridge EXCEPT ![b].step = "polling"]
     \/ UNCHANGED bridge
  /\ UNCHANGED <<legacy, late, made, revoked, access, req, rotation>>

ClaimRefused(b) ==
  LET s == bridge[b].session IN
  /\ bridge[b].step = "claiming" /\ ~claimable(s, b)
  /\ bridge' = [bridge EXCEPT ![b].step = "failed"]
  /\ UNCHANGED <<ses, legacy, late, made, revoked, access, req, rotation>>

\* Mutant: the answer for a session that is not approved is kept as its state.
PollUnknown(b) ==
  LET s == bridge[b].session IN
  /\ bridge[b].step = "polling" /\ ses[s].claim = b
  /\ ses' = [ses EXCEPT ![s].state = "pending"]
  /\ UNCHANGED <<bridge, legacy, late, made, revoked, access, req, rotation>>

\* poll: an approved session is consumed; polling again returns the same Device.
Poll(b) ==
  LET s == bridge[b].session
      state == IF expire(s) = "approved" THEN "consumed" ELSE expire(s)
  IN /\ bridge[b].step = "polling" /\ ses[s].claim = b
     /\ ses' = [ses EXCEPT ![s].state = state]
     /\ \/ bridge' = [bridge EXCEPT ![b].step =
             CASE state = "consumed" -> "paired" [] state = "claimed" -> "polling"
               [] OTHER -> "failed"]
        \/ UNCHANGED bridge
     /\ UNCHANGED <<legacy, late, made, revoked, access, req, rotation>>

\* Mutant: a Bridge that waits for the decision keeps waiting.
GiveUpClaiming(b) ==
  /\ bridge[b].step = "claiming" /\ bridge[b].session \in late
  /\ bridge' = [bridge EXCEPT ![b].step = "failed"]
  /\ UNCHANGED <<ses, legacy, late, made, revoked, access, req, rotation>>

\* The Bridge stops when the session's time is up.
GiveUp(b) ==
  /\ bridge[b].step \in {"claiming", "polling"} /\ bridge[b].session \in late
  /\ bridge' = [bridge EXCEPT ![b].step = "failed"]
  /\ UNCHANGED <<ses, legacy, late, made, revoked, access, req, rotation>>

\* Mutant: the decision trusts the stored state, which a refusal never expires.
decidableStored(op) == ses[req[op].session].state = req[op].expected

decidable(op) == expire(req[op].session) = req[op].expected

\* approveRow: the Device, its credential and, for a member, the grant.
approveRow(s) ==
  /\ made' = [made EXCEPT ![s] = @ + 1]
  /\ grant' = IF s \in Bound THEN grant \cup {s} ELSE grant

\* decide; the same operation again returns the session.
Decide(op) ==
  LET s == req[op].session
      action == req[op].action
  IN /\ s # None /\ ses[s].op # op /\ decidable(op)
     /\ ses' = [ses EXCEPT ![s].op = op, ![s].state =
          CASE action = "approve" -> "approved" [] action = "reject" -> "rejected"
            [] OTHER -> "canceled"]
     /\ IF action = "approve" THEN approveRow(s) ELSE UNCHANGED <<made, grant>>
     /\ UNCHANGED <<legacy, late, revoked, ticket, web, served, req, bridge, rotation>>

-----------------------------------------------------------------------------
(* Legacy join requests and invitations. *)

\* createJoinRequest, createInvite
CreateLegacy(d) ==
  /\ legacy[d] = None
  /\ legacy' = [legacy EXCEPT ![d] = IF d \in Joins THEN "pending" ELSE "approved"]
  /\ UNCHANGED <<ses, late, made, revoked, access, req, bridge, rotation>>

ApproveJoin(d) ==
  /\ legacy[d] = "pending" /\ d \notin late
  /\ legacy' = [legacy EXCEPT ![d] = "approved"]
  /\ UNCHANGED <<ses, late, made, revoked, access, req, bridge, rotation>>

\* Mutant: the Device is made again for a claim whose response was lost.
claimedBeforeNever(d) == FALSE

claimedBefore(d) == legacy[d] = "claimed"

\* claimJoinRequest: repeated, it returns the Device it made.
ClaimJoin(d) ==
  /\ legacy[d] \in {"approved", "claimed"} /\ d \in Joins \ late
  /\ legacy' = [legacy EXCEPT ![d] = "claimed"]
  /\ made' = IF claimedBefore(d) THEN made ELSE [made EXCEPT ![d] = @ + 1]
  /\ UNCHANGED <<ses, late, revoked, access, req, bridge, rotation>>

\* exchange: once.
Exchange(d) ==
  /\ legacy[d] = "approved" /\ d \in Invites \ late
  /\ legacy' = [legacy EXCEPT ![d] = "claimed"]
  /\ made' = [made EXCEPT ![d] = @ + 1]
  /\ UNCHANGED <<ses, late, revoked, access, req, bridge, rotation>>

TimePasses(x) ==
  /\ x \notin late
  /\ \/ x \in Sessions /\ ses[x].state # None
     \/ x \in Joins \cup Invites /\ legacy[x] # None
     \/ x \in Tickets /\ ticket[x].device # None
  /\ late' = late \cup {x}
  /\ UNCHANGED <<ses, legacy, made, revoked, access, req, bridge, rotation>>

-----------------------------------------------------------------------------
(* Private CA rotation. *)

\* The operator offers the next epoch, withdraws the offer or completes it.
Offers ==
  /\ trust.epoch < MaxEpoch /\ trust' = [trust EXCEPT !.offer = ~@]
  /\ UNCHANGED <<ses, legacy, late, made, revoked, access, req, bridge, acks>>

Rotates ==
  /\ trust.offer /\ trust' = [epoch |-> trust.epoch + 1, offer |-> FALSE]
  /\ UNCHANGED <<ses, legacy, late, made, revoked, access, req, bridge, acks>>

authenticateDevice(d) == made[d] > 0 /\ d \notin revoked

\* Mutant: any Device paired in an earlier epoch.
requireEligibleDeviceAny(d) == ses[d].state = "consumed" /\ ses[d].trust <= trust.epoch

\* Paired in this epoch, or it acknowledged the step to this epoch.
requireEligibleDevice(d) ==
  /\ ses[d].state = "consumed" /\ ses[d].trust <= trust.epoch
  /\ ses[d].trust = trust.epoch \/ <<d, trust.epoch>> \in acks

getOffer(d) == trust.offer /\ requireEligibleDevice(d)

\* acknowledge; the same acknowledgement again changes nothing.
Acknowledge(d) ==
  /\ authenticateDevice(d) /\ getOffer(d)
  /\ acks' = acks \cup {<<d, trust.epoch + 1>>}
  /\ UNCHANGED <<ses, legacy, late, made, revoked, access, req, bridge, trust>>

-----------------------------------------------------------------------------
(* Browser sessions of a paired Device. *)

RevokeDevice(d) ==
  /\ made[d] > 0 /\ d \notin revoked
  /\ revoked' = revoked \cup {d}
  /\ UNCHANGED <<ses, legacy, late, made, access, req, bridge, rotation>>

\* revoke
RevokeAccess(d) ==
  /\ d \in grant /\ grant' = grant \ {d}
  /\ UNCHANGED <<ses, legacy, late, made, revoked, ticket, web, served, req, bridge, rotation>>

clientAccessAuthority(d) == d \in grant /\ authenticateDevice(d)

\* issue
Issue(t, b) ==
  LET d == bridge[b].session IN
  /\ ticket[t].device = None /\ bridge[b].step = "paired"
  /\ clientAccessAuthority(d)
  /\ ticket' = [ticket EXCEPT ![t] = [device |-> d, consumed |-> FALSE]]
  /\ UNCHANGED <<ses, legacy, late, made, revoked, grant, web, served, req, bridge, rotation>>

redeemable(t) ==
  ~ticket[t].consumed /\ t \notin late /\ clientAccessAuthority(ticket[t].device)

\* consume
Consume(t) ==
  /\ ticket[t].device # None /\ redeemable(t) /\ web[t] < 2
  /\ ticket' = [ticket EXCEPT ![t].consumed = TRUE]
  /\ web' = [web EXCEPT ![t] = @ + 1]
  /\ UNCHANGED <<ses, legacy, late, made, revoked, grant, served, req, bridge, rotation>>

\* Mutant: the grant is looked up when the session is made, not for each request.
authenticateWebSessionOnce(t) == web[t] > 0

\* Authority is read again for each request.
authenticateWebSession(t) == web[t] > 0 /\ clientAccessAuthority(ticket[t].device)

Serve(t) ==
  /\ authenticateWebSession(t) /\ served' = [served EXCEPT ![t] = ~@]
  /\ UNCHANGED <<ses, legacy, late, made, revoked, grant, ticket, web, req, bridge, rotation>>

PairingInit ==
  /\ ses = [s \in Sessions |-> NewSession]
  /\ legacy = [d \in Joins \cup Invites |-> None]
  /\ late = {} /\ revoked = {} /\ grant = {} /\ acks = {}
  /\ made = [d \in Devices |-> 0]
  /\ ticket = [t \in Tickets |-> [device |-> None, consumed |-> FALSE]]
  /\ web = [t \in Tickets |-> 0]
  /\ served = [t \in Tickets |-> FALSE]
  /\ req = [op \in Operations |-> [session |-> None, action |-> None, expected |-> None,
                                   saw |-> None]]
  /\ bridge = [b \in Bridges |-> [session |-> None, step |-> "idle"]]
  /\ trust = [epoch |-> 1, offer |-> FALSE]

PairingNext ==
  \/ \E s \in Sessions : Create(s) \/ Acknowledge(s) \/ RevokeAccess(s)
  \/ \E op \in Operations :
       Decide(op) \/ \E s \in Sessions, a \in {"approve", "reject", "cancel"} : Decides(op, s, a)
  \/ \E b \in Bridges :
       \/ \E s \in Sessions : Starts(b, s)
       \/ Claim(b) \/ ClaimRefused(b) \/ Poll(b) \/ GiveUp(b)
       \/ \E t \in Tickets : Issue(t, b)
  \/ \E d \in Joins \cup Invites : CreateLegacy(d) \/ ApproveJoin(d) \/ ClaimJoin(d) \/ Exchange(d)
  \/ \E d \in Devices : RevokeDevice(d)
  \/ \E x \in Devices \cup Tickets : TimePasses(x)
  \/ Offers \/ Rotates
  \/ \E t \in Tickets : Consume(t) \/ Serve(t)

\* Clocks run and a Bridge goes on polling until it has an answer.
PairingFairness ==
  /\ \A x \in Devices : WF_pairingVars(TimePasses(x))
  /\ \A b \in Bridges : WF_pairingVars(GiveUp(b)) /\ WF_pairingVars(ClaimRefused(b))

PairingSpec == PairingInit /\ [][PairingNext]_pairingVars
FairPairingSpec == PairingSpec /\ PairingFairness

-----------------------------------------------------------------------------
(* Properties. *)

PairingTypeOK ==
  /\ \A s \in Sessions :
       /\ ses[s].state \in {None, "issued", "claimed", "approved", "consumed", "rejected",
                            "canceled", "expired"}
       /\ ses[s].claim \in Bridges \cup {None}
  /\ made \in [Devices -> Nat] /\ revoked \subseteq Devices /\ grant \subseteq Bound
  /\ late \subseteq Devices \cup Tickets

\* One pairing trusts one Device: however often claims, decisions and polls are
\* repeated, a session, join request or invitation makes at most one, and a session
\* exactly when it was approved.
OneDevicePerPairing ==
  /\ \A d \in Devices : made[d] <= 1
  /\ \A s \in Sessions : (made[s] = 1) = (ses[s].state \in {"approved", "consumed"})

\* An approval is for the claim the owner was shown, although it may arrive after
\* other Bridges used the same link.
ApprovedAsSeen ==
  \A s \in Sessions : made[s] > 0 =>
    \E op \in Operations : ses[s].op = op /\ req[op].saw = ses[s].claim

\* A pairing makes one Device, for the claim that was approved (approve, poll).
PairedAsApproved == OneDevicePerPairing /\ ApprovedAsSeen

\* No Device comes out of a session whose ten minutes are over, although the row
\* still says claimed until somebody reads it.
NothingFromExpired ==
  [][\A s \in Sessions : made'[s] # made[s] => s \notin late]_pairingVars

\* A Device acknowledges trust epochs without a gap from the one it was paired in.
TrustContinuity ==
  \A a \in acks : \A e \in (ses[a[1]].trust + 1)..a[2] : <<a[1], e>> \in acks

\* After a Device or its access is revoked no browser session that came from it
\* is served, and no ticket opens two.
AccessEnds ==
  [][\A t \in Tickets :
       (served'[t] # served[t] \/ web'[t] # web[t]) =>
       ticket[t].device \in grant \ revoked /\ web'[t] <= 1]_pairingVars

\* A Bridge that started to pair ends paired or refused.
PairingEnds ==
  \A b \in Bridges : bridge[b].step # "idle" ~> bridge[b].step \in {"paired", "failed"}
=============================================================================
