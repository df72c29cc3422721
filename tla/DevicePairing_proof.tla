--------------------------- MODULE DevicePairing_proof ---------------------------
(***************************************************************************)
(* Proofs about DevicePairing, for any sessions, legacy pairings, Bridges, *)
(* decisions, tickets and epochs.  What an owner was shown stays true of a  *)
(* session until the decision arrives, because a claim is final: that is    *)
(* RequestsKnown, the heart of the invariant.                               *)
(***************************************************************************)
EXTENDS DevicePairing, TLAPS

SessionStates == {None, "issued", "claimed", "approved", "consumed", "rejected",
                  "canceled", "expired"}
Approved == {"approved", "consumed"}

SessionRows == [state : SessionStates, trust : Nat, claim : Bridges \cup {None},
                op : Operations \cup {None}]
BridgeSteps == {"idle", "claiming", "polling", "paired", "failed"}
BridgeRows == [session : Sessions \cup {None}, step : BridgeSteps]
TicketRows == [device : Devices \cup {None}, consumed : BOOLEAN]

PairTypes ==
  /\ ses \in [Sessions -> SessionRows]
  /\ legacy \in [Joins \cup Invites -> {None, "pending", "approved", "claimed"}]
  /\ made \in [Devices -> Nat]
  /\ req \in [Operations -> [session : Sessions \cup {None},
                             action : {None, "approve", "reject", "cancel"},
                             expected : {None, "issued", "claimed"},
                             saw : Bridges \cup {None}]]
  /\ bridge \in [Bridges -> BridgeRows]
  /\ trust \in [epoch : Nat, offer : BOOLEAN]
  /\ acks \subseteq Sessions \X Nat
  /\ ticket \in [Tickets -> TicketRows]
  /\ web \in [Tickets -> Nat]
  /\ served \in [Tickets -> BOOLEAN]

OneDevice ==
  /\ \A s \in Sessions : made[s] = IF ses[s].state \in Approved THEN 1 ELSE 0
  /\ \A d \in Joins \cup Invites : made[d] = IF legacy[d] = "claimed" THEN 1 ELSE 0

\* What a decision says it saw is still so: once claimed, a session keeps its claim.
RequestsKnown ==
  \A op \in Operations : req[op].session # None =>
    /\ req[op].expected \in {"issued", "claimed"}
    /\ req[op].action # "cancel" => req[op].expected = "claimed"
    /\ req[op].expected = "claimed" =>
         /\ ses[req[op].session].state \notin {None, "issued"}
         /\ req[op].saw = ses[req[op].session].claim

ApprovedFor ==
  \A s \in Sessions : ses[s].state \in Approved =>
    \E op \in Operations :
      ses[s].op = op /\ req[op].session = s /\ req[op].saw = ses[s].claim

BridgesKnown == \A b \in Bridges : bridge[b].step # "idle" => bridge[b].session \in Sessions

AcksKnown == \A a \in acks : ses[a[1]].state # None

TicketsOnce ==
  \A t \in Tickets :
    /\ web[t] = IF ticket[t].consumed THEN 1 ELSE 0
    /\ ticket[t].device = None => ~ticket[t].consumed

PairInv ==
  /\ PairTypes /\ OneDevice /\ RequestsKnown /\ ApprovedFor /\ BridgesKnown
  /\ AcksKnown /\ TrustContinuity /\ TicketsOnce

-----------------------------------------------------------------------------
LEMMA PairInvInit == PairingInit => PairInv
BY PairingAssumption
   DEF PairingInit, PairInv, PairTypes, OneDevice, RequestsKnown, ApprovedFor, BridgesKnown,
       AcksKnown, TrustContinuity, TicketsOnce, NewSession, SessionStates, SessionRows,
       BridgeSteps, BridgeRows, TicketRows, Approved, None, Devices

\* Rows keep their shape when fields of one of them are replaced.
LEMMA SessionRow ==
  ASSUME PairTypes, NEW s \in Sessions, NEW state \in SessionStates, NEW e \in Nat,
         NEW claim \in Bridges \cup {None}, NEW op \in Operations \cup {None}
  PROVE  /\ [ses EXCEPT ![s].state = state] \in [Sessions -> SessionRows]
         /\ [ses EXCEPT ![s].state = state, ![s].trust = e] \in [Sessions -> SessionRows]
         /\ [ses EXCEPT ![s].state = state, ![s].claim = claim] \in [Sessions -> SessionRows]
         /\ [ses EXCEPT ![s].op = op, ![s].state = state] \in [Sessions -> SessionRows]
<1>1. \A x \in Sessions : ses[x] \in SessionRows  BY DEF PairTypes
<1>2. /\ [ses[s] EXCEPT !.state = state] \in SessionRows
      /\ [ses[s] EXCEPT !.state = state, !.trust = e] \in SessionRows
      /\ [ses[s] EXCEPT !.state = state, !.claim = claim] \in SessionRows
      /\ [ses[s] EXCEPT !.op = op, !.state = state] \in SessionRows
  BY <1>1 DEF SessionRows
<1> QED  BY <1>1, <1>2 DEF PairTypes

LEMMA BridgeRow ==
  ASSUME PairTypes, BridgesKnown, NEW b \in Bridges, NEW step \in BridgeSteps,
         bridge[b].session \in Sessions,
         bridge' = [bridge EXCEPT ![b].step = step]
  PROVE  bridge' \in [Bridges -> BridgeRows] /\ BridgesKnown'
<1>1. bridge[b] \in BridgeRows /\ [bridge[b] EXCEPT !.step = step] \in BridgeRows
  BY DEF PairTypes, BridgeRows
<1>2. bridge' \in [Bridges -> BridgeRows]  BY <1>1 DEF PairTypes
<1>3. [bridge[b] EXCEPT !.step = step].session = bridge[b].session  BY <1>1 DEF BridgeRows
<1>4. \A x \in Bridges : bridge'[x] = IF x = b THEN [bridge[b] EXCEPT !.step = step] ELSE bridge[x]
  BY DEF PairTypes
<1> QED  BY <1>2, <1>3, <1>4 DEF BridgesKnown

\* A step that leaves sessions, decisions, Devices and acknowledgements alone.
LEMMA CoreKept ==
  ASSUME PairInv, UNCHANGED <<ses, legacy, made, req, acks>>
  PROVE  OneDevice' /\ RequestsKnown' /\ ApprovedFor' /\ AcksKnown' /\ TrustContinuity'
BY DEF PairInv, OneDevice, RequestsKnown, ApprovedFor, AcksKnown, TrustContinuity

\* A session only moves forward: what it may become, and what it keeps.
Forward(s) ==
  /\ ses'[s].state = None => ses[s].state = None
  /\ ses'[s].state = "issued" => ses[s].state \in {None, "issued"}
  /\ ses[s].state \notin {None, "issued"} => ses'[s].claim = ses[s].claim
  /\ ses[s].state # None => ses'[s].trust = ses[s].trust

\* Everything but OneDevice and ApprovedFor needs only that sessions move forward.
LEMMA ForwardKeeps ==
  ASSUME PairInv, PairTypes', \A s \in Sessions : Forward(s), req' = req, acks' = acks
  PROVE  RequestsKnown' /\ AcksKnown' /\ TrustContinuity'
<1> USE DEF PairInv
<1>1. RequestsKnown'
  <2> SUFFICES ASSUME NEW op \in Operations, req[op].session # None
               PROVE  /\ req[op].expected \in {"issued", "claimed"}
                      /\ req[op].action # "cancel" => req[op].expected = "claimed"
                      /\ req[op].expected = "claimed" =>
                           /\ ses'[req[op].session].state \notin {None, "issued"}
                           /\ req[op].saw = ses'[req[op].session].claim
    BY DEF RequestsKnown
  <2>1. req[op].session \in Sessions  BY DEF PairTypes
  <2> QED  BY <2>1 DEF RequestsKnown, Forward
<1>2. ASSUME NEW a \in acks
      PROVE  ses'[a[1]].state # None /\ ses'[a[1]].trust = ses[a[1]].trust
  <2>1. a[1] \in Sessions  BY DEF PairTypes
  <2> QED  BY <2>1 DEF AcksKnown, Forward
<1> QED  BY <1>1, <1>2 DEF AcksKnown, TrustContinuity

-----------------------------------------------------------------------------
(* One lemma per action that changes sessions, Devices or decisions. *)

LEMMA CreateKeeps ==
  ASSUME PairInv, NEW s \in Sessions, Create(s)
  PROVE  PairInv'
<1> USE DEF PairInv
<1>1. PairTypes'
  <2>1. ses' \in [Sessions -> SessionRows]
    <3>1. trust.epoch \in Nat /\ "issued" \in SessionStates  BY DEF PairTypes, SessionStates
    <3>2. ses' = [ses EXCEPT ![s].state = "issued", ![s].trust = trust.epoch]  BY DEF Create
    <3> QED  BY <3>1, <3>2, SessionRow
  <2> QED  BY <2>1 DEF Create, PairTypes, access, rotation
<1>2. \A x \in Sessions : Forward(x)  BY DEF Create, PairTypes, Forward, None
<1>3. OneDevice'  BY DEF Create, PairTypes, OneDevice, Approved, None
<1>4. ApprovedFor'  BY DEF Create, PairTypes, ApprovedFor, Approved, None
<1>5. BridgesKnown' /\ TicketsOnce'  BY DEF Create, access, BridgesKnown, TicketsOnce
<1> QED  BY <1>1, <1>2, <1>3, <1>4, <1>5, ForwardKeeps DEF Create, rotation

LEMMA DecidesKeeps ==
  ASSUME PairInv, NEW op \in Operations, NEW s \in Sessions,
         NEW action \in {"approve", "reject", "cancel"}, Decides(op, s, action)
  PROVE  PairInv'
<1> USE DEF PairInv
<1> DEFINE shown == expire(s)
<1>0. /\ shown \in {"issued", "claimed"} /\ ses[s].state = shown
      /\ action # "cancel" => shown = "claimed"
  BY DEF Decides, expire, isPreDecision
<1>1. ses' = ses
  BY <1>0 DEF Decides, PairTypes, SessionRows
<1>2. /\ req[op].session = None
      /\ req' = [req EXCEPT ![op] = [session |-> s, action |-> action, expected |-> shown,
                                     saw |-> ses[s].claim]]
  BY DEF Decides
<1>3. UNCHANGED <<legacy, made, bridge, trust, acks, ticket, web, served>>
  BY DEF Decides, access, rotation
<1> HIDE DEF shown
<1>4. PairTypes'  BY <1>0, <1>1, <1>2, <1>3 DEF PairTypes, SessionRows
<1>5. RequestsKnown'
  BY <1>0, <1>1, <1>2 DEF PairTypes, RequestsKnown, None
<1>6. ApprovedFor'
  <2> SUFFICES ASSUME NEW x \in Sessions, ses[x].state \in Approved
               PROVE  \E o \in Operations :
                        ses[x].op = o /\ req'[o].session = x /\ req'[o].saw = ses[x].claim
    BY <1>1 DEF ApprovedFor
  <2>1. PICK o \in Operations :
          ses[x].op = o /\ req[o].session = x /\ req[o].saw = ses[x].claim
    BY DEF ApprovedFor
  <2>2. o # op  BY <2>1, <1>2, PairingAssumption DEF Devices
  <2>3. req'[o] = req[o]  BY <1>2, <2>2 DEF PairTypes
  <2> QED  BY <2>1, <2>3
<1> QED  BY <1>1, <1>3, <1>4, <1>5, <1>6
            DEF OneDevice, BridgesKnown, AcksKnown, TrustContinuity, TicketsOnce

LEMMA ClaimKeeps ==
  ASSUME PairInv, NEW b \in Bridges, Claim(b)
  PROVE  PairInv'
<1> USE DEF PairInv
<1> DEFINE s == bridge[b].session
<1>0. s \in Sessions  BY DEF Claim, BridgesKnown
<1>1. UNCHANGED <<legacy, made, req, trust, acks, ticket, web, served>>
  BY DEF Claim, access, rotation
<1>2. bridge' \in [Bridges -> BridgeRows] /\ BridgesKnown'
  <2>1. CASE bridge' = bridge  BY <2>1 DEF PairTypes, BridgesKnown
  <2>2. CASE bridge' = [bridge EXCEPT ![b].step = "polling"]
    BY <2>2, <1>0, BridgeRow DEF BridgeSteps
  <2> QED  BY <2>1, <2>2 DEF Claim
<1>3. CASE isExactClaim(s, b)
  <2>1. ses' = ses  BY <1>3 DEF Claim
  <2>2. PairTypes' /\ BridgesKnown'
    BY <2>1, <1>1, <1>2 DEF PairTypes
  <2> QED  BY <2>1, <2>2, <1>1, CoreKept DEF TicketsOnce
<1>4. CASE ~isExactClaim(s, b)
  <2>1. ses[s].state = "issued"
    BY <1>4 DEF Claim, claimable, expire, isPreDecision
  <2>2. ses' = [ses EXCEPT ![s].state = "claimed", ![s].claim = b]
    BY <1>4 DEF Claim
  <2> HIDE DEF s
  <2>3. PairTypes' /\ BridgesKnown'
    <3>1. ses' \in [Sessions -> SessionRows]
      BY <2>2, <1>0, SessionRow, ZenonT(60) DEF SessionStates
    <3> QED  BY <3>1, <1>1, <1>2 DEF PairTypes
  <2>4. \A x \in Sessions : Forward(x)
    BY <2>1, <2>2, <1>0 DEF PairTypes, Forward, None
  <2>5. OneDevice'  BY <2>1, <2>2, <1>0, <1>1 DEF PairTypes, OneDevice, Approved
  <2>6. ApprovedFor'  BY <2>1, <2>2, <1>0, <1>1 DEF PairTypes, ApprovedFor, Approved
  <2> QED  BY <2>3, <2>4, <2>5, <2>6, <1>1, ForwardKeeps DEF TicketsOnce
<1> QED  BY <1>3, <1>4

LEMMA PollKeeps ==
  ASSUME PairInv, NEW b \in Bridges, Poll(b)
  PROVE  PairInv'
<1> USE DEF PairInv
<1> DEFINE s == bridge[b].session
           state == IF expire(s) = "approved" THEN "consumed" ELSE expire(s)
<1>0. s \in Sessions  BY DEF Poll, BridgesKnown
<1>1. UNCHANGED <<legacy, made, req, trust, acks, ticket, web, served>>
  BY DEF Poll, access, rotation
<1>2. bridge' \in [Bridges -> BridgeRows] /\ BridgesKnown'
  <2>1. CASE bridge' = bridge  BY <2>1 DEF PairTypes, BridgesKnown
  <2>2. ASSUME NEW step \in {"paired", "polling", "failed"},
               bridge' = [bridge EXCEPT ![b].step = step]
        PROVE  bridge' \in [Bridges -> BridgeRows] /\ BridgesKnown'
    BY <2>2, <1>0, BridgeRow DEF BridgeSteps
  <2> QED  BY <2>1, <2>2 DEF Poll
<1>3. ses' = [ses EXCEPT ![s].state = state]  BY DEF Poll
<1>4. /\ state \in SessionStates
      /\ state = None => ses[s].state = None
      /\ state = "issued" => ses[s].state = "issued"
      /\ state \in Approved <=> ses[s].state \in Approved
  BY <1>0 DEF expire, isPreDecision, PairTypes, SessionRows, SessionStates, Approved, None
<1> HIDE DEF s, state
<1>5. PairTypes' /\ BridgesKnown'
  <2>1. ses' \in [Sessions -> SessionRows]
    BY <1>0, <1>3, <1>4, SessionRow
  <2> QED  BY <2>1, <1>1, <1>2 DEF PairTypes
<1>6. \A x \in Sessions : Forward(x)  BY <1>0, <1>3, <1>4 DEF PairTypes, Forward
<1>7. OneDevice'  BY <1>0, <1>1, <1>3, <1>4 DEF PairTypes, OneDevice
<1>8. ApprovedFor'  BY <1>0, <1>1, <1>3, <1>4 DEF PairTypes, ApprovedFor
<1> QED  BY <1>1, <1>5, <1>6, <1>7, <1>8, ForwardKeeps DEF TicketsOnce

LEMMA DecideKeeps ==
  ASSUME PairInv, NEW op \in Operations, Decide(op)
  PROVE  /\ PairInv'
         /\ \A x \in Sessions : made'[x] # made[x] => x \notin late
<1> USE DEF PairInv
<1> DEFINE s == req[op].session
           state == CASE req[op].action = "approve" -> "approved"
                      [] req[op].action = "reject" -> "rejected"
                      [] OTHER -> "canceled"
<1>0. s \in Sessions  BY DEF Decide, PairTypes
<1>1. UNCHANGED <<legacy, req, bridge, trust, acks, ticket, web, served>>
  BY DEF Decide, rotation
<1>2. /\ req[op].expected \in {"issued", "claimed"}
      /\ req[op].action # "cancel" => req[op].expected = "claimed" /\ req[op].saw = ses[s].claim
  BY DEF Decide, RequestsKnown
<1>3. ses[s].state \in {"issued", "claimed"} /\ s \notin late
  BY <1>2 DEF Decide, decidable, expire, isPreDecision
<1>4. ses' = [ses EXCEPT ![s].op = op, ![s].state = state]  BY DEF Decide
<1>5. /\ state \in {"approved", "rejected", "canceled"}
      /\ state = "approved" <=> req[op].action = "approve"
  OBVIOUS
<1>6. made' = IF state = "approved" THEN [made EXCEPT ![s] = @ + 1] ELSE made
  BY <1>5 DEF Decide, approveRow
<1>7. s \in Devices /\ s \notin Joins \cup Invites  BY <1>0, PairingAssumption DEF Devices
<1> HIDE DEF s, state
<1>8. PairTypes'
  <2>1. ses' \in [Sessions -> SessionRows]
    BY <1>0, <1>4, <1>5, SessionRow, ZenonT(60) DEF SessionStates
  <2>2. made' \in [Devices -> Nat]  BY <1>6, <1>7 DEF PairTypes
  <2> QED  BY <2>1, <2>2, <1>1 DEF PairTypes
<1>9. \A x \in Sessions : Forward(x)
  BY <1>0, <1>3, <1>4, <1>5 DEF PairTypes, Forward, None
<1>10. OneDevice'
  <2>1. made[s] = 0 /\ ses[s].state \notin Approved  BY <1>0, <1>3 DEF OneDevice, Approved
  <2>2. ses'[s].state = state /\ (state \in Approved <=> state = "approved")
    BY <1>0, <1>4, <1>5 DEF PairTypes, Approved
  <2>3. \A x \in Sessions : x # s => ses'[x] = ses[x]  BY <1>0, <1>4 DEF PairTypes
  <2>4. /\ made'[s] = IF state = "approved" THEN 1 ELSE 0
        /\ \A x \in Devices : x # s => made'[x] = made[x]
    BY <1>6, <1>7, <2>1 DEF PairTypes
  <2> QED  BY <1>0, <1>1, <1>7, <2>2, <2>3, <2>4 DEF OneDevice, Devices
<1>11. ApprovedFor'
  <2> SUFFICES ASSUME NEW x \in Sessions, ses'[x].state \in Approved
               PROVE  \E o \in Operations :
                        ses'[x].op = o /\ req[o].session = x /\ req[o].saw = ses'[x].claim
    BY <1>1 DEF ApprovedFor
  <2>1. CASE x = s
    <3>1. ses'[x].op = op /\ ses'[x].claim = ses[s].claim /\ ses'[x].state = state
      BY <2>1, <1>0, <1>4 DEF PairTypes
    <3>2. req[op].action = "approve"  BY <3>1, <1>5 DEF Approved
    <3> QED  BY <2>1, <3>1, <3>2, <1>2 DEF s
  <2>2. CASE x # s
    <3>1. ses'[x] = ses[x]  BY <2>2, <1>0, <1>4 DEF PairTypes
    <3> QED  BY <3>1 DEF ApprovedFor
  <2> QED  BY <2>1, <2>2
<1>12. \A x \in Sessions : made'[x] # made[x] => x \notin late
  BY <1>3, <1>6, <1>7 DEF PairTypes, Devices
<1> QED  BY <1>1, <1>8, <1>9, <1>10, <1>11, <1>12, ForwardKeeps DEF BridgesKnown, TicketsOnce

\* The legacy pairings touch no session.
LEMMA LegacyKeeps ==
  ASSUME PairInv, NEW d \in Joins \cup Invites,
         CreateLegacy(d) \/ ApproveJoin(d) \/ ClaimJoin(d) \/ Exchange(d)
  PROVE  /\ PairInv'
         /\ \A x \in Sessions : made'[x] = made[x]
<1> USE DEF PairInv
<1>1. UNCHANGED <<ses, req, bridge, trust, acks, ticket, web, served>>
  BY DEF CreateLegacy, ApproveJoin, ClaimJoin, Exchange, access, rotation
<1>2. d \in Devices /\ d \notin Sessions  BY PairingAssumption DEF Devices
<1>3. PICK v \in {"pending", "approved", "claimed"} : legacy' = [legacy EXCEPT ![d] = v]
  BY DEF CreateLegacy, ApproveJoin, ClaimJoin, Exchange
<1>4. \/ /\ v # "claimed" /\ legacy[d] # "claimed" /\ made' = made
      \/ /\ v = "claimed" /\ legacy[d] = "claimed" /\ made' = made
      \/ /\ v = "claimed" /\ legacy[d] # "claimed" /\ made' = [made EXCEPT ![d] = @ + 1]
  <2>1. legacy'[d] = v  BY <1>3 DEF PairTypes
  <2>2. CASE CreateLegacy(d)  BY <2>1, <2>2 DEF CreateLegacy, PairTypes, None
  <2>3. CASE ApproveJoin(d)  BY <2>1, <2>3 DEF ApproveJoin, PairTypes
  <2>4. CASE ClaimJoin(d)  BY <2>1, <2>4 DEF ClaimJoin, claimedBefore, PairTypes
  <2>5. CASE Exchange(d)  BY <2>1, <2>5 DEF Exchange, PairTypes
  <2> QED  BY <2>2, <2>3, <2>4, <2>5
<1>5. PairTypes'
  <2>1. legacy' \in [Joins \cup Invites -> {None, "pending", "approved", "claimed"}]
    BY <1>3 DEF PairTypes
  <2>2. made' \in [Devices -> Nat]  BY <1>2, <1>4 DEF PairTypes
  <2> QED  BY <1>1, <2>1, <2>2 DEF PairTypes
<1>6. OneDevice' /\ \A x \in Sessions : made'[x] = made[x]
  <2>1. made[d] = IF legacy[d] = "claimed" THEN 1 ELSE 0  BY DEF OneDevice
  <2>2. /\ made'[d] = IF v = "claimed" THEN 1 ELSE 0
        /\ \A x \in Devices : x # d => made'[x] = made[x]
    BY <1>2, <1>4, <2>1 DEF PairTypes
  <2>3. legacy'[d] = v /\ \A x \in Joins \cup Invites : x # d => legacy'[x] = legacy[x]
    BY <1>3 DEF PairTypes
  <2> QED  BY <1>1, <1>2, <2>2, <2>3 DEF OneDevice, Devices
<1> QED  BY <1>1, <1>5, <1>6
            DEF RequestsKnown, ApprovedFor, BridgesKnown, AcksKnown, TrustContinuity, TicketsOnce

LEMMA AcknowledgeKeeps ==
  ASSUME PairInv, NEW d \in Sessions, Acknowledge(d)
  PROVE  PairInv'
<1> USE DEF PairInv
<1>1. UNCHANGED <<ses, legacy, made, req, bridge, trust, ticket, web, served>>
  BY DEF Acknowledge, access
<1>2. acks' = acks \cup {<<d, trust.epoch + 1>>}  BY DEF Acknowledge
<1>3. /\ ses[d].state = "consumed"
      /\ ses[d].trust = trust.epoch \/ <<d, trust.epoch>> \in acks
  BY DEF Acknowledge, getOffer, requireEligibleDevice
<1>4. ses[d].trust \in Nat /\ trust.epoch \in Nat  BY DEF PairTypes, SessionRows
<1>5. PairTypes'  BY <1>1, <1>2, <1>4 DEF PairTypes
<1>6. AcksKnown'  BY <1>1, <1>2, <1>3 DEF AcksKnown, None
<1>7. TrustContinuity'
  <2> SUFFICES ASSUME NEW a \in acks', NEW e \in (ses[a[1]].trust + 1)..a[2]
               PROVE  <<a[1], e>> \in acks'
    BY <1>1 DEF TrustContinuity
  <2>1. CASE a \in acks  BY <2>1, <1>2 DEF TrustContinuity
  <2>2. CASE a = <<d, trust.epoch + 1>>
    <3>1. e \in (ses[d].trust + 1)..(trust.epoch + 1)  BY <2>2
    <3>2. CASE e = trust.epoch + 1  BY <3>2, <2>2, <1>2
    <3>3. CASE e # trust.epoch + 1
      <4>1. e \in (ses[d].trust + 1)..trust.epoch  BY <3>1, <3>3, <1>4
      <4>2. <<d, trust.epoch>> \in acks  BY <4>1, <1>3, <1>4
      <4>3. <<d, e>> \in acks  BY <4>1, <4>2 DEF TrustContinuity
      <4> QED  BY <4>3, <2>2, <1>2
    <3> QED  BY <3>2, <3>3
  <2> QED  BY <2>1, <2>2, <1>2
<1> QED  BY <1>1, <1>5, <1>6, <1>7
            DEF OneDevice, RequestsKnown, ApprovedFor, BridgesKnown, TicketsOnce

\* The steps of Bridges, tickets, clocks and operators.
Outer ==
  \/ \E b \in Bridges :
       \/ \E s \in Sessions : Starts(b, s)
       \/ ClaimRefused(b) \/ GiveUp(b)
       \/ \E t \in Tickets : Issue(t, b)
  \/ \E s \in Sessions : RevokeAccess(s)
  \/ \E d \in Devices : RevokeDevice(d)
  \/ \E x \in Devices \cup Tickets : TimePasses(x)
  \/ Offers \/ Rotates
  \/ \E t \in Tickets : Consume(t) \/ Serve(t)

LEMMA OuterKeeps ==
  ASSUME PairInv, Outer
  PROVE  PairInv' /\ made' = made
<1> USE DEF PairInv
<1>1. UNCHANGED <<ses, legacy, made, req, acks>>
  BY DEF Outer, Starts, ClaimRefused, GiveUp, Issue, RevokeAccess, RevokeDevice, TimePasses,
         Offers, Rotates, Consume, Serve, access, rotation
<1>2. ASSUME NEW b \in Bridges, NEW s \in Sessions, Starts(b, s)
      PROVE  PairTypes' /\ BridgesKnown' /\ TicketsOnce'
  <2>1. /\ bridge' = [bridge EXCEPT ![b] = [session |-> s, step |-> "claiming"]]
        /\ UNCHANGED <<ticket, web, served, trust>>
    BY <1>2 DEF Starts, access, rotation
  <2>2. bridge' \in [Bridges -> BridgeRows] /\ BridgesKnown'
    BY <2>1 DEF PairTypes, BridgeRows, BridgeSteps, BridgesKnown
  <2> QED  BY <1>1, <2>1, <2>2 DEF PairTypes, TicketsOnce
<1>3. ASSUME NEW b \in Bridges, ClaimRefused(b) \/ GiveUp(b)
      PROVE  PairTypes' /\ BridgesKnown' /\ TicketsOnce'
  <2>1. bridge' = [bridge EXCEPT ![b].step = "failed"] /\ bridge[b].step # "idle"
    BY <1>3 DEF ClaimRefused, GiveUp
  <2>2. UNCHANGED <<ticket, web, served, trust>>
    BY <1>3 DEF ClaimRefused, GiveUp, access, rotation
  <2>3. bridge' \in [Bridges -> BridgeRows] /\ BridgesKnown'
    BY <2>1, BridgeRow DEF BridgesKnown, BridgeSteps
  <2> QED  BY <1>1, <2>2, <2>3 DEF PairTypes, TicketsOnce
<1>4. ASSUME NEW b \in Bridges, NEW t \in Tickets, Issue(t, b)
      PROVE  PairTypes' /\ BridgesKnown' /\ TicketsOnce'
  <2> DEFINE d == bridge[b].session
  <2>1. /\ d \in Sessions /\ d # None /\ ticket[t].device = None
        /\ ticket' = [ticket EXCEPT ![t] = [device |-> d, consumed |-> FALSE]]
        /\ UNCHANGED <<web, served, bridge, trust>>
    BY <1>4, PairingAssumption DEF Issue, BridgesKnown, rotation, Devices
  <2> HIDE DEF d
  <2>2. PairTypes'  BY <1>1, <2>1 DEF PairTypes, TicketRows, Devices
  <2> QED  BY <2>1, <2>2 DEF PairTypes, BridgesKnown, TicketsOnce
<1>5. ASSUME NEW t \in Tickets, Consume(t)
      PROVE  PairTypes' /\ BridgesKnown' /\ TicketsOnce'
  <2>1. /\ ~ticket[t].consumed /\ ticket[t].device # None
        /\ ticket' = [ticket EXCEPT ![t].consumed = TRUE]
        /\ web' = [web EXCEPT ![t] = @ + 1]
        /\ UNCHANGED <<served, bridge, trust>>
    BY <1>5 DEF Consume, redeemable, rotation
  <2>2. ticket[t] \in TicketRows /\ [ticket[t] EXCEPT !.consumed = TRUE] \in TicketRows
    <3>1. ticket[t] \in TicketRows  BY DEF PairTypes
    <3>2. [ticket[t] EXCEPT !.consumed = TRUE] \in TicketRows  BY <3>1, Zenon DEF TicketRows
    <3> QED  BY <3>1, <3>2
  <2>3. ticket' \in [Tickets -> TicketRows] /\ web' \in [Tickets -> Nat]
    BY <2>1, <2>2 DEF PairTypes
  <2>4. TicketsOnce'
    <3>0. web[t] = 0  BY <2>1 DEF TicketsOnce
    <3>1. ticket'[t].consumed /\ ticket'[t].device # None /\ web'[t] = 1
      <4>1. ticket'[t] = [ticket[t] EXCEPT !.consumed = TRUE]  BY <2>1 DEF PairTypes
      <4>2. ticket'[t].consumed /\ ticket'[t].device = ticket[t].device
        BY <4>1, <2>2 DEF TicketRows
      <4>3. web'[t] = 1  BY <2>1, <3>0 DEF PairTypes
      <4> QED  BY <4>2, <4>3, <2>1
    <3>2. \A x \in Tickets : x # t => ticket'[x] = ticket[x] /\ web'[x] = web[x]
      BY <2>1 DEF PairTypes
    <3> QED  BY <3>1, <3>2 DEF TicketsOnce
  <2> QED  BY <1>1, <2>1, <2>3, <2>4 DEF PairTypes, BridgesKnown
<1>6. ASSUME NEW t \in Tickets, Serve(t)
      PROVE  PairTypes' /\ BridgesKnown' /\ TicketsOnce'
  BY <1>1, <1>6 DEF Serve, PairTypes, BridgesKnown, TicketsOnce, rotation
<1>7. ASSUME Offers \/ Rotates
      PROVE  PairTypes' /\ BridgesKnown' /\ TicketsOnce'
  <2>1. UNCHANGED <<bridge, ticket, web, served>>  BY <1>7 DEF Offers, Rotates, access
  <2>2. trust' \in [epoch : Nat, offer : BOOLEAN]  
    <3>1. CASE Offers
      <4>1. trust' = [trust EXCEPT !.offer = ~@]  BY <3>1 DEF Offers
      <4>2. trust \in [epoch : Nat, offer : BOOLEAN]  BY DEF PairTypes
      <4> QED  BY <4>1, <4>2, Zenon
    <3>2. CASE Rotates  BY <3>2 DEF Rotates, PairTypes
    <3> QED  BY <1>7, <3>1, <3>2
  <2> QED  BY <1>1, <2>1, <2>2 DEF PairTypes, BridgesKnown, TicketsOnce
<1>8. ASSUME \/ \E s \in Sessions : RevokeAccess(s)
             \/ \E d \in Devices : RevokeDevice(d)
             \/ \E x \in Devices \cup Tickets : TimePasses(x)
      PROVE  PairTypes' /\ BridgesKnown' /\ TicketsOnce'
  BY <1>1, <1>8 DEF RevokeAccess, RevokeDevice, TimePasses, PairTypes, BridgesKnown, TicketsOnce,
                    access, rotation
<1>9. PairTypes' /\ BridgesKnown' /\ TicketsOnce'
  BY <1>2, <1>3, <1>4, <1>5, <1>6, <1>7, <1>8 DEF Outer
<1> QED  BY <1>1, <1>9, CoreKept

LEMMA PairInvNext == PairInv /\ [PairingNext]_pairingVars => PairInv'
<1> SUFFICES ASSUME PairInv, [PairingNext]_pairingVars  PROVE PairInv'
  OBVIOUS
<1>1. CASE UNCHANGED pairingVars
  BY <1>1, CoreKept
     DEF pairingVars, access, rotation, PairInv, PairTypes, BridgesKnown, TicketsOnce
<1>2. CASE Outer  BY <1>2, OuterKeeps
<1>3. CASE \E s \in Sessions : Create(s) \/ Acknowledge(s)
  BY <1>3, CreateKeeps, AcknowledgeKeeps
<1>4. CASE \E op \in Operations :
             Decide(op) \/ \E s \in Sessions, a \in {"approve", "reject", "cancel"} : Decides(op, s, a)
  BY <1>4, DecideKeeps, DecidesKeeps
<1>5. CASE \E b \in Bridges : Claim(b) \/ Poll(b)
  BY <1>5, ClaimKeeps, PollKeeps
<1>6. CASE \E d \in Joins \cup Invites :
             CreateLegacy(d) \/ ApproveJoin(d) \/ ClaimJoin(d) \/ Exchange(d)
  BY <1>6, LegacyKeeps
<1> QED  BY <1>1, <1>2, <1>3, <1>4, <1>5, <1>6 DEF PairingNext, Outer

\* The inductive invariant holds in every reachable state.
THEOREM PairInvHolds == PairingSpec => []PairInv
BY PairInvInit, PairInvNext, PTL DEF PairingSpec

-----------------------------------------------------------------------------
\* However often claims, decisions and polls are repeated, lost or delayed, a
\* pairing makes at most one Device, and a session makes it exactly when it was
\* approved, for the claim the owner was shown (claim, decide, poll).
THEOREM PairingApproved == PairingSpec => []PairedAsApproved
<1>1. ASSUME PairInv  PROVE PairedAsApproved
  <2> USE <1>1 DEF PairInv
  <2>1. OneDevicePerPairing
    BY DEF OneDevicePerPairing, OneDevice, Approved, Devices
  <2>2. ApprovedAsSeen
    BY DEF ApprovedAsSeen, ApprovedFor, OneDevice
  <2> QED  BY <2>1, <2>2 DEF PairedAsApproved
<1> QED  BY <1>1, PairInvHolds, PTL

\* A Device acknowledges trust epochs without a gap, whatever the operator offers
\* and withdraws in between (private CA rotation).
THEOREM PairingTrust == PairingSpec => []TrustContinuity
<1>1. PairInv => TrustContinuity  BY DEF PairInv
<1> QED  BY <1>1, PairInvHolds, PTL

\* No Device comes out of a session whose time is up, although its row still
\* says claimed (decide reads the expiry itself).
THEOREM PairingExpiry == PairingSpec => NothingFromExpired
<1>1. ASSUME PairInv, [PairingNext]_pairingVars, NEW s \in Sessions, made'[s] # made[s]
      PROVE  s \notin late
  <2>1. ~Outer /\ ~UNCHANGED pairingVars  BY <1>1, OuterKeeps DEF pairingVars
  <2>2. ~\E x \in Sessions : Create(x) \/ Acknowledge(x)  BY <1>1 DEF Create, Acknowledge
  <2>3. ~\E b \in Bridges : Claim(b) \/ Poll(b)  BY <1>1 DEF Claim, Poll
  <2>4. ~\E d \in Joins \cup Invites :
           CreateLegacy(d) \/ ApproveJoin(d) \/ ClaimJoin(d) \/ Exchange(d)
    BY <1>1, LegacyKeeps
  <2>5. ~\E op \in Operations, x \in Sessions, a \in {"approve", "reject", "cancel"} :
           Decides(op, x, a)
    BY <1>1 DEF Decides
  <2>6. \E op \in Operations : Decide(op)
    BY <1>1, <2>1, <2>2, <2>3, <2>4, <2>5 DEF PairingNext, Outer
  <2> QED  BY <1>1, <2>6, DecideKeeps
<1>2. PairInv /\ [PairingNext]_pairingVars =>
        [\A s \in Sessions : made'[s] # made[s] => s \notin late]_pairingVars
  BY <1>1
<1> QED  BY <1>2, PairInvHolds, PTL DEF PairingSpec, NothingFromExpired

\* After a Device or its access was revoked nothing is served for it, and a
\* ticket opens one browser session (consume, authenticateWebSession).
THEOREM PairingAccess == PairingSpec => AccessEnds
<1>1. ASSUME PairInv, [PairingNext]_pairingVars, NEW t \in Tickets,
             served'[t] # served[t] \/ web'[t] # web[t]
      PROVE  ticket[t].device \in grant \ revoked /\ web'[t] <= 1
  <2> USE <1>1 DEF PairInv
  <2>1. \E x \in Tickets : Consume(x) \/ Serve(x)
    <3>1. ~UNCHANGED <<web, served>>  OBVIOUS
    <3> QED
      BY <3>1 DEF PairingNext, pairingVars, access, Create, Acknowledge, RevokeAccess, Decide, Decides,
                  Starts, Claim, ClaimRefused, Poll, GiveUp, Issue, CreateLegacy, ApproveJoin, ClaimJoin,
                  Exchange, RevokeDevice, TimePasses, Offers, Rotates
  <2>2. PICK x \in Tickets : Consume(x) \/ Serve(x)  BY <2>1
  <2>3. web[t] \in {0, 1} /\ (web[t] = 0 <=> ~ticket[t].consumed)
    BY DEF TicketsOnce, PairTypes
  <2>4. CASE Consume(x)
    <3>1. /\ web' = [web EXCEPT ![x] = @ + 1] /\ served' = served
          /\ ~ticket[x].consumed /\ clientAccessAuthority(ticket[x].device)
      BY <2>4 DEF Consume, redeemable
    <3>2. x = t  BY <3>1 DEF PairTypes
    <3>3. web'[t] = 1  BY <3>1, <3>2, <2>3 DEF PairTypes
    <3> QED  BY <3>1, <3>2, <3>3 DEF clientAccessAuthority, authenticateDevice
  <2>5. CASE Serve(x)
    <3>1. /\ served' = [served EXCEPT ![x] = ~@] /\ web' = web
          /\ clientAccessAuthority(ticket[x].device)
      BY <2>5 DEF Serve, authenticateWebSession
    <3>2. x = t  BY <3>1 DEF PairTypes
    <3> QED  BY <3>1, <3>2, <2>3 DEF clientAccessAuthority, authenticateDevice
  <2> QED  BY <2>2, <2>4, <2>5
<1>2. PairInv /\ [PairingNext]_pairingVars =>
        [\A t \in Tickets :
           (served'[t] # served[t] \/ web'[t] # web[t]) =>
           ticket[t].device \in grant \ revoked /\ web'[t] <= 1]_pairingVars
  BY <1>1
<1> QED  BY <1>2, PairInvHolds, PTL DEF PairingSpec, AccessEnds
=============================================================================
