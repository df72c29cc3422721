-------------------------- MODULE CentralRuns_proof --------------------------
(***************************************************************************)
(* Proofs about CentralRuns, for any set of Runs and any frames of the     *)
(* Device.  Every step of Central does one of three things to a Run: it is *)
(* born, takes one event, or keeps its state and its events.  StepShape    *)
(* says so once, action by action; the invariants follow from the shape.   *)
(***************************************************************************)
EXTENDS CentralRuns, TLAPS

\* The entry e is appended, with what applyRuntimeEvent does besides.
Takes(r, e) ==
  /\ Active(r)
  /\ state'[r] = (IF e.kind = "output" THEN state[r] ELSE e.kind)
  /\ log'[r] = Append(log[r], e)
  /\ intent'[r] = (IF e.kind \in terminalStates /\ intent[r] \in pending
                   THEN "resolved" ELSE intent[r])

\* Of a Run without events, only an acceptance or an end may be the first.
TakesFirst(r, e) ==
  /\ log[r] = <<>> => e.kind \in terminalStates \cup {"delivered"}
  /\ e.kind = "delivered" => delivery'[r] = "accepted"

Born(r) ==
  /\ state[r] = "none"
  /\ state'[r] = "queued"
  /\ log'[r] = log[r]
  /\ intent'[r] = intent[r]

Quiet(r) ==
  /\ state'[r] = state[r]
  /\ log'[r] = log[r]
  /\ \/ intent'[r] = intent[r]
     \/ intent[r] = "pending" /\ intent'[r] = "late"
     \/ /\ intent'[r] = "pending"
        /\ Active(r) /\ delivery[r] # "none"

\* What a step does to one Run.
Shape(r) ==
  /\ Quiet(r) \/ Born(r) \/ \E e \in Entries : Takes(r, e) /\ TakesFirst(r, e)
  /\ delivery'[r] \in {delivery[r], "accepted"} \/ delivery'[r] = "pending"
  /\ delivery[r] = "accepted" => delivery'[r] = "accepted"
  /\ delivery[r] # "none" => delivery'[r] # "none"
  /\ state[r] = "none" => delivery'[r] = delivery[r]
  /\ acked[r] => acked'[r]
  /\ \/ retryOf'[r] = retryOf[r]
     \/ /\ state[retryOf'[r]] \in terminalStates \ {"completed"}
        /\ state[retryOf'[r]] = "outcome_unknown" => acked[retryOf'[r]]

\* The types alone, without the last conjunct of CentralTypeOK.
RowTypes ==
  /\ server \in {"up", "down"}
  /\ state \in [Runs -> States]
  /\ log \in [Runs -> Seq(Entries)]
  /\ delivery \in [Runs -> {"none", "pending", "accepted"}]
  /\ intent \in [Runs -> {"none", "pending", "late", "resolved"}]
  /\ past \in [Runs -> BOOLEAN]
  /\ acked \in [Runs -> BOOLEAN]
  /\ retryOf \in [Runs -> Runs]
  /\ revoked \in BOOLEAN

\* The first event accepts the Run or ends it.
FirstEvent ==
  \A r \in Runs :
    log[r] # <<>> => log[r][1].kind \in terminalStates \cup {"delivered"}

\* Frames of any sequence number, and what Central may do on one.
AnyFrames == [run : Runs, seq : Nat \ {0}, kind : bridgeKinds \cup {"delivered"}]

CentralStep ==
  CentralNext \/ \E f \in AnyFrames : HandleFrame(f) \/ CrashInAccept(f)

CentralInv ==
  /\ CentralTypeOK
  /\ IntentMatchesRun
  /\ TerminalEventIsLast
  /\ FirstEvent
  /\ AcceptedBeforeProgress
  /\ RetryIsJustified

-----------------------------------------------------------------------------
\* applyRuntimeEvent keeps the types and gives each Run of S that is active
\* one event, each other Run none.
LEMMA ApplyShape ==
  ASSUME RowTypes, NEW S, NEW kind \in [Runs -> Kinds],
         NEW by \in {"bridge", "central"}, applyRuntimeEvent(S, kind, by)
  PROVE  /\ state' \in [Runs -> States]
         /\ log' \in [Runs -> Seq(Entries)]
         /\ intent' \in [Runs -> {"none", "pending", "late", "resolved"}]
         /\ \A r \in Runs :
              \/ /\ state'[r] = state[r]
                 /\ log'[r] = log[r]
                 /\ intent'[r] = intent[r]
              \/ r \in S /\ Takes(r, [kind |-> kind[r], by |-> by])
<1>1. \A r \in Runs : [kind |-> kind[r], by |-> by] \in Entries
  BY DEF Entries
<1>2. \A r \in Runs : kind[r] \in Kinds /\ StatusAfter(r, kind[r]) \in States
  BY DEF RowTypes, StatusAfter, Kinds, States, bridgeKinds, terminalStates
<1>3. state' \in [Runs -> States]
  BY <1>2 DEF applyRuntimeEvent, RowTypes
<1>4. log' \in [Runs -> Seq(Entries)]
  BY <1>1 DEF applyRuntimeEvent, RowTypes
<1>5. intent' \in [Runs -> {"none", "pending", "late", "resolved"}]
  BY DEF applyRuntimeEvent, RowTypes
<1>6. ASSUME NEW r \in Runs
      PROVE  \/ /\ state'[r] = state[r]
                /\ log'[r] = log[r]
                /\ intent'[r] = intent[r]
             \/ r \in S /\ Takes(r, [kind |-> kind[r], by |-> by])
  <2>1. CASE r \in S /\ Active(r)
    BY <2>1, <1>2 DEF applyRuntimeEvent, Takes, StatusAfter
  <2>2. CASE ~(r \in S /\ Active(r))
    BY <2>2 DEF applyRuntimeEvent
  <2> QED BY <2>1, <2>2
<1> QED BY <1>3, <1>4, <1>5, <1>6

\* When every event of the step ends its Run, the step has the wanted shape.
LEMMA SettleShape ==
  ASSUME RowTypes, NEW S, NEW kind \in [Runs -> terminalStates],
         applyRuntimeEvent(S, kind, "central")
  PROVE  /\ state' \in [Runs -> States]
         /\ log' \in [Runs -> Seq(Entries)]
         /\ intent' \in [Runs -> {"none", "pending", "late", "resolved"}]
         /\ \A r \in Runs :
              Quiet(r) \/ \E e \in Entries : Takes(r, e) /\ TakesFirst(r, e)
<1>0. terminalStates \subseteq Kinds /\ "delivered" \notin terminalStates
  BY DEF terminalStates, Kinds, bridgeKinds
<1>1. kind \in [Runs -> Kinds]
  BY <1>0
<1>2. /\ state' \in [Runs -> States]
      /\ log' \in [Runs -> Seq(Entries)]
      /\ intent' \in [Runs -> {"none", "pending", "late", "resolved"}]
      /\ \A r \in Runs :
           \/ /\ state'[r] = state[r]
              /\ log'[r] = log[r]
              /\ intent'[r] = intent[r]
           \/ r \in S /\ Takes(r, [kind |-> kind[r], by |-> "central"])
  BY <1>1, ApplyShape
<1>3. ASSUME NEW r \in Runs
      PROVE  Quiet(r) \/ \E e \in Entries : Takes(r, e) /\ TakesFirst(r, e)
  <2> DEFINE e == [kind |-> kind[r], by |-> "central"]
  <2>1. e \in Entries /\ e.kind \in terminalStates
    BY <1>1 DEF Entries
  <2>2. TakesFirst(r, e)
    BY <2>1, <1>0 DEF TakesFirst
  <2>3. CASE state'[r] = state[r] /\ log'[r] = log[r] /\ intent'[r] = intent[r]
    BY <2>3 DEF Quiet
  <2>4. CASE Takes(r, e)
    BY <2>4, <2>1, <2>2
  <2> QED BY <1>2, <2>3, <2>4
<1> QED BY <1>2, <1>3

\* Whatever step Central takes, the types are kept and every Run sees one of
\* the steps of Shape.
LEMMA StepShape ==
  ASSUME CentralTypeOK, CentralStep
  PROVE  RowTypes' /\ \A r \in Runs : Shape(r)
<1> USE DEF Shape
<1>0. RowTypes
  BY DEF CentralTypeOK, RowTypes
<1>1. ASSUME NEW q \in Runs, createRuns(q)
      PROVE  RowTypes' /\ \A r \in Runs : Shape(r)
  <2>1. RowTypes'
    BY <1>0, <1>1 DEF createRuns, insertRunIdentity, RowTypes, States
  <2>2. ASSUME NEW r \in Runs PROVE Quiet(r) \/ Born(r)
    BY <1>0, <1>1, <2>2 DEF createRuns, insertRunIdentity, RowTypes, Quiet, Born
  <2> QED BY <1>1, <2>1, <2>2 DEF createRuns
<1>2. ASSUME NEW q \in Runs, acknowledgeAmbiguity(q)
      PROVE  RowTypes' /\ \A r \in Runs : Shape(r)
  BY <1>0, <1>2 DEF acknowledgeAmbiguity, RowTypes, Quiet
<1>3. ASSUME NEW q \in Runs, ReconcileClarification(q)
      PROVE  RowTypes' /\ \A r \in Runs : Shape(r)
  <2>1. PICK k \in terminalStates : Settle({q}, k)
    BY <1>3 DEF ReconcileClarification, terminalStates
  <2>2. /\ state' \in [Runs -> States]
        /\ log' \in [Runs -> Seq(Entries)]
        /\ intent' \in [Runs -> {"none", "pending", "late", "resolved"}]
        /\ \A r \in Runs :
             Quiet(r) \/ \E e \in Entries : Takes(r, e) /\ TakesFirst(r, e)
    BY <1>0, <2>1, SettleShape DEF Settle
  <2> QED BY <1>0, <1>3, <2>2 DEF ReconcileClarification, RowTypes
<1>4. ASSUME NEW q \in Runs, dispatch(q)
      PROVE  RowTypes' /\ \A r \in Runs : Shape(r)
  <2>1. CASE Settle(Overdue, "expired") /\ UNCHANGED delivery
    <3>1. /\ state' \in [Runs -> States]
          /\ log' \in [Runs -> Seq(Entries)]
          /\ intent' \in [Runs -> {"none", "pending", "late", "resolved"}]
          /\ \A r \in Runs :
               Quiet(r) \/ \E e \in Entries : Takes(r, e) /\ TakesFirst(r, e)
      <4>1. "expired" \in terminalStates
        BY DEF terminalStates
      <4> QED BY <1>0, <2>1, <4>1, SettleShape DEF Settle
    <3> QED BY <1>0, <1>4, <2>1, <3>1 DEF dispatch, RowTypes
  <2>2. CASE /\ delivery' = [delivery EXCEPT
                               ![q] = IF @ = "none" THEN "pending" ELSE @]
             /\ UNCHANGED <<state, log, intent>>
    <3>1. RowTypes' /\ \A r \in Runs : Quiet(r)
      BY <1>0, <1>4, <2>2 DEF dispatch, RowTypes, Quiet
    <3>2. state[q] # "none"
      BY <1>4 DEF dispatch, Dispatchable
    <3> QED BY <1>0, <1>4, <2>2, <3>1, <3>2 DEF dispatch, RowTypes
  <2> QED BY <1>4, <2>1, <2>2 DEF dispatch
<1>5. ASSUME NEW q \in Runs, requestCancellation(q)
      PROVE  RowTypes' /\ \A r \in Runs : Shape(r)
  <2>1. CASE Settle({q}, "canceled")
    <3>1. "canceled" \in terminalStates
      BY DEF terminalStates
    <3>2. /\ state' \in [Runs -> States]
          /\ log' \in [Runs -> Seq(Entries)]
          /\ intent' \in [Runs -> {"none", "pending", "late", "resolved"}]
          /\ \A r \in Runs :
               Quiet(r) \/ \E e \in Entries : Takes(r, e) /\ TakesFirst(r, e)
      BY <1>0, <2>1, <3>1, SettleShape DEF Settle
    <3> QED BY <1>0, <1>5, <3>2 DEF requestCancellation, RowTypes
  <2>2. CASE /\ intent[q] = "none" => delivery[q] # "none"
             /\ intent' = [intent EXCEPT
                             ![q] = IF @ = "none" THEN "pending" ELSE @]
             /\ UNCHANGED <<state, log>>
    <3>1. RowTypes'
      BY <1>0, <1>5, <2>2 DEF requestCancellation, RowTypes
    <3>2. \A r \in Runs : Quiet(r)
      BY <1>0, <1>5, <2>2 DEF requestCancellation, RowTypes, Quiet
    <3> QED BY <1>5, <3>1, <3>2 DEF requestCancellation
  <2> QED BY <1>5, <2>1, <2>2 DEF requestCancellation
<1>6. ASSUME NEW q \in Runs, DeadlinePasses(q) \/ AckDeadlinePasses(q)
      PROVE  RowTypes' /\ \A r \in Runs : Shape(r)
  BY <1>0, <1>6 DEF DeadlinePasses, AckDeadlinePasses, RowTypes, Quiet
<1>7. ASSUME NEW q \in Runs, NEW p \in Runs, createRetry(q, p)
      PROVE  RowTypes' /\ \A r \in Runs : Shape(r)
  <2>1. RowTypes'
    BY <1>0, <1>7 DEF createRetry, insertRunIdentity, RowTypes, States
  <2>2. ASSUME NEW r \in Runs PROVE Quiet(r) \/ Born(r)
    BY <1>0, <1>7, <2>2 DEF createRetry, insertRunIdentity, RowTypes, Quiet, Born
  <2> QED BY <1>0, <1>7, <2>1, <2>2 DEF createRetry, RowTypes
<1>8. ASSUME NEW q \in Runs, NEW p \in Runs, AnswerClarification(q, p)
      PROVE  RowTypes' /\ \A r \in Runs : Shape(r)
  <2> DEFINE e == [kind |-> "outcome_unknown", by |-> "central"]
  <2>1. e \in Entries /\ e.kind \in terminalStates /\ e.kind # "delivered"
    BY DEF Entries, Kinds, bridgeKinds, terminalStates
  <2>2. log' = [log EXCEPT ![p] = Append(log[p], e)]
    BY <1>0, <1>8 DEF AnswerClarification, RowTypes
  <2>3. log' \in [Runs -> Seq(Entries)]
    <3> HIDE DEF e
    <3> QED BY <1>0, <2>1, <2>2 DEF RowTypes
  <2>4. RowTypes'
    BY <1>0, <1>8, <2>3
    DEF AnswerClarification, insertRunIdentity, RowTypes, States, terminalStates
  <2>5. ASSUME NEW r \in Runs
        PROVE  Quiet(r) \/ Born(r) \/ (Takes(r, e) /\ TakesFirst(r, e))
    <3>1. CASE r = q
      <4>1. r # p
        BY <1>8, <3>1 DEF AnswerClarification
      <4> QED BY <1>0, <1>8, <2>2, <3>1, <4>1
              DEF AnswerClarification, insertRunIdentity, RowTypes, Born
    <3>2. CASE r = p
      <4>1. Active(r)
        BY <1>8, <3>2 DEF AnswerClarification, Active, terminalStates
      <4>2. state'[r] = "outcome_unknown"
        BY <1>0, <1>8, <3>2
        DEF AnswerClarification, insertRunIdentity, RowTypes
      <4>3. log'[r] = Append(log[r], e)
        <5> HIDE DEF e
        <5> QED BY <1>0, <2>2, <3>2 DEF RowTypes
      <4>4. intent'[r] = IF intent[r] \in pending THEN "resolved" ELSE intent[r]
        BY <1>0, <1>8, <3>2 DEF AnswerClarification, RowTypes
      <4> QED BY <2>1, <4>1, <4>2, <4>3, <4>4 DEF Takes, TakesFirst
    <3>3. CASE r # p /\ r # q
      BY <1>0, <1>8, <2>2, <3>3
      DEF AnswerClarification, insertRunIdentity, RowTypes, Quiet
    <3> QED BY <3>1, <3>2, <3>3
  <2> QED BY <1>8, <2>1, <2>4, <2>5 DEF AnswerClarification
<1>9. ASSUME NEW f \in AnyFrames, HandleFrame(f)
      PROVE  RowTypes' /\ \A r \in Runs : Shape(r)
  <2> DEFINE kind == [r \in Runs |-> f.kind]
             S == IF Ignored(f) THEN {} ELSE {f.run}
             e == [kind |-> f.kind, by |-> "bridge"]
  <2>0. /\ f.run \in Runs /\ f.seq \in Nat \ {0}
        /\ f.kind \in bridgeKinds \cup {"delivered"}
    BY DEF AnyFrames
  <2>1. kind \in [Runs -> Kinds] /\ e \in Entries
    BY <2>0 DEF Kinds, Entries
  <2>2. applyRuntimeEvent(S, kind, "bridge")
    BY <1>9 DEF HandleFrame
  <2>3. /\ state' \in [Runs -> States]
        /\ log' \in [Runs -> Seq(Entries)]
        /\ intent' \in [Runs -> {"none", "pending", "late", "resolved"}]
        /\ \A r \in Runs :
             \/ /\ state'[r] = state[r]
                /\ log'[r] = log[r]
                /\ intent'[r] = intent[r]
             \/ r \in S /\ Takes(r, [kind |-> kind[r], by |-> "bridge"])
    <3> HIDE DEF kind, S
    <3> QED BY <1>0, <2>1, <2>2, ApplyShape
  <2>4. \A r \in Runs : delivery'[r] = IF r = f.run /\ f.kind = "delivered"
                                       THEN "accepted" ELSE delivery[r]
    BY <1>0, <1>9, <2>0 DEF HandleFrame, Deliver, RowTypes
  <2>5. RowTypes'
    BY <1>0, <1>9, <2>0, <2>3 DEF HandleFrame, Deliver, RowTypes
  <2>6. ASSUME NEW r \in Runs
        PROVE  Quiet(r) \/ \E x \in Entries : Takes(r, x) /\ TakesFirst(r, x)
    <3>1. CASE state'[r] = state[r] /\ log'[r] = log[r] /\ intent'[r] = intent[r]
      BY <3>1 DEF Quiet
    <3>2. CASE r \in S /\ Takes(r, [kind |-> kind[r], by |-> "bridge"])
      <4>1. r = f.run /\ ~Ignored(f) /\ Takes(r, e)
        BY <3>2
      <4>2. ~Rejected(f) /\ f.seq = Len(log[r]) + 1
        BY <1>9, <4>1 DEF HandleFrame, Rejected
      <4>3. ASSUME log[r] = <<>>, f.kind # "delivered"
            PROVE  f.kind \in terminalStates
        <5>1. f.seq < 2
          BY <4>2, <4>3
        <5>2. preAdmissionCancellationAck(f)
          BY <4>2, <4>3, <5>1 DEF Rejected
        <5> QED BY <5>2 DEF preAdmissionCancellationAck, terminalStates
      <4>4. f.kind = "delivered" => delivery'[r] = "accepted"
        BY <2>4, <4>1
      <4>5. TakesFirst(r, e)
        BY <4>3, <4>4 DEF TakesFirst
      <4> QED BY <2>1, <4>1, <4>5
    <3> QED BY <2>3, <3>1, <3>2
  <2>7. state[f.run] # "none"
    BY <1>9 DEF HandleFrame, Rejected
  <2>8. UNCHANGED <<acked, retryOf>>
    BY <1>9 DEF HandleFrame
  <2> QED BY <1>0, <2>4, <2>5, <2>6, <2>7, <2>8 DEF RowTypes
<1>10. ASSUME NEW f \in AnyFrames, CrashInAccept(f)
       PROVE  RowTypes' /\ \A r \in Runs : Shape(r)
  <2>1. f.run \in Runs
    BY DEF AnyFrames
  <2>2. RowTypes' /\ \A r \in Runs : Quiet(r)
    BY <1>0, <1>10, <2>1 DEF CrashInAccept, Deliver, RowTypes, Quiet
  <2>3. state[f.run] # "none"
    BY <1>10 DEF CrashInAccept, Rejected
  <2> QED BY <1>0, <1>10, <2>1, <2>2, <2>3 DEF CrashInAccept, Deliver, RowTypes
<1>11. ASSUME expireQueued \/ sweep
       PROVE  RowTypes' /\ \A r \in Runs : Shape(r)
  <2>1. \E k \in terminalStates : Settle(Overdue, k) \/ Settle(Late, k)
    BY <1>11 DEF expireQueued, sweep, terminalStates
  <2>2. /\ state' \in [Runs -> States]
        /\ log' \in [Runs -> Seq(Entries)]
        /\ intent' \in [Runs -> {"none", "pending", "late", "resolved"}]
        /\ \A r \in Runs :
             Quiet(r) \/ \E e \in Entries : Takes(r, e) /\ TakesFirst(r, e)
    BY <1>0, <2>1, SettleShape DEF Settle
  <2> QED BY <1>0, <1>11, <2>2 DEF expireQueued, sweep, RowTypes
<1>12. ASSUME Contact
       PROVE  RowTypes' /\ \A r \in Runs : Shape(r)
  <2> DEFINE kind == [r \in Runs |->
                        IF r \in Late THEN "outcome_unknown" ELSE "expired"]
  <2>1. kind \in [Runs -> terminalStates]
    BY DEF terminalStates
  <2>2. PICK S : applyRuntimeEvent(S, kind, "central")
    BY <1>12 DEF Contact
  <2>3. /\ state' \in [Runs -> States]
        /\ log' \in [Runs -> Seq(Entries)]
        /\ intent' \in [Runs -> {"none", "pending", "late", "resolved"}]
        /\ \A r \in Runs :
             Quiet(r) \/ \E e \in Entries : Takes(r, e) /\ TakesFirst(r, e)
    <3> HIDE DEF kind
    <3> QED BY <1>0, <2>1, <2>2, SettleShape
  <2>4. \A r \in Runs :
          \/ delivery'[r] = delivery[r]
          \/ delivery[r] = "none" /\ delivery'[r] = "pending" /\ state[r] # "none"
    BY <1>0, <1>12 DEF Contact, Requested, Dispatchable, RowTypes
  <2>5. RowTypes'
    BY <1>0, <1>12, <2>3 DEF Contact, RowTypes
  <2>6. UNCHANGED <<acked, retryOf>>
    BY <1>12 DEF Contact
  <2> QED BY <2>3, <2>4, <2>5, <2>6
<1>13. ASSUME revoke
       PROVE  RowTypes' /\ \A r \in Runs : Shape(r)
  <2> DEFINE kind == [r \in Runs |->
                 IF AcceptedByBridge(r) THEN "outcome_unknown" ELSE "failed"]
  <2>1. kind \in [Runs -> terminalStates]
    BY DEF terminalStates
  <2>2. applyRuntimeEvent(Runs, kind, "central")
    BY <1>13 DEF revoke, reconcile
  <2>3. /\ state' \in [Runs -> States]
        /\ log' \in [Runs -> Seq(Entries)]
        /\ intent' \in [Runs -> {"none", "pending", "late", "resolved"}]
        /\ \A r \in Runs :
             Quiet(r) \/ \E e \in Entries : Takes(r, e) /\ TakesFirst(r, e)
    <3> HIDE DEF kind
    <3> QED BY <1>0, <2>1, <2>2, SettleShape
  <2> QED BY <1>0, <1>13, <2>3 DEF revoke, RowTypes
<1>14. ASSUME Crash \/ CrashInRevoke
       PROVE  RowTypes' /\ \A r \in Runs : Shape(r)
  BY <1>0, <1>14 DEF Crash, CrashInRevoke, RowTypes, Quiet
<1>15. ASSUME Restart
       PROVE  RowTypes' /\ \A r \in Runs : Shape(r)
  <2> DEFINE kind == [r \in Runs |->
                 IF AcceptedByBridge(r) THEN "outcome_unknown" ELSE "failed"]
  <2>1. CASE reconcile
    <3>1. kind \in [Runs -> terminalStates]
      BY DEF terminalStates
    <3>2. applyRuntimeEvent(Runs, kind, "central")
      BY <2>1 DEF reconcile
    <3>3. /\ state' \in [Runs -> States]
          /\ log' \in [Runs -> Seq(Entries)]
          /\ intent' \in [Runs -> {"none", "pending", "late", "resolved"}]
          /\ \A r \in Runs :
               Quiet(r) \/ \E e \in Entries : Takes(r, e) /\ TakesFirst(r, e)
      <4> HIDE DEF kind
      <4> QED BY <1>0, <3>1, <3>2, SettleShape
    <3> QED BY <1>0, <1>15, <3>3 DEF Restart, RowTypes
  <2>2. CASE Settle(Late, "outcome_unknown")
    <3>1. "outcome_unknown" \in terminalStates
      BY DEF terminalStates
    <3>2. /\ state' \in [Runs -> States]
          /\ log' \in [Runs -> Seq(Entries)]
          /\ intent' \in [Runs -> {"none", "pending", "late", "resolved"}]
          /\ \A r \in Runs :
               Quiet(r) \/ \E e \in Entries : Takes(r, e) /\ TakesFirst(r, e)
      BY <1>0, <2>2, <3>1, SettleShape DEF Settle
    <3> QED BY <1>0, <1>15, <3>2 DEF Restart, RowTypes
  <2> QED BY <1>15, <2>1, <2>2 DEF Restart
<1>16. \A f \in Frames : f \in AnyFrames
  BY CentralAssumption DEF Frames, AnyFrames
<1> QED
  BY <1>1, <1>2, <1>3, <1>4, <1>5, <1>6, <1>7, <1>8, <1>9, <1>10, <1>11, <1>12,
     <1>13, <1>14, <1>15, <1>16 DEF CentralNext, CentralStep

-----------------------------------------------------------------------------
LEMMA InitInv == ASSUME CentralInit PROVE CentralInv
<1>0. \A r \in Runs : /\ state[r] = "none" /\ log[r] = <<>>
                      /\ delivery[r] = "none" /\ intent[r] = "none"
  BY DEF CentralInit
<1>1. CentralTypeOK
  <2>1. "none" \in States /\ <<>> \in Seq(Entries)
    BY DEF States
  <2> QED BY <1>0, <2>1 DEF CentralInit, CentralTypeOK
<1>2. IntentMatchesRun
  BY DEF CentralInit, IntentMatchesRun, pending
<1>3. TerminalEventIsLast
  <2>1. "none" \notin terminalStates
    BY DEF terminalStates
  <2>2. \A i \in 1..Len(<<>>) : FALSE
    OBVIOUS
  <2>3. ASSUME NEW r \in Runs
        PROVE  /\ \A i \in 1..Len(log[r]) :
                    log[r][i].kind \in terminalStates => i = Len(log[r])
               /\ state[r] \in terminalStates <=>
                    log[r] # <<>> /\ log[r][Len(log[r])].kind \in terminalStates
    BY <1>0, <2>1, <2>2, Zenon
  <2> QED BY <2>3 DEF TerminalEventIsLast
<1>4. FirstEvent /\ AcceptedBeforeProgress
  BY DEF CentralInit, FirstEvent, AcceptedBeforeProgress
<1>5. RetryIsJustified
  BY DEF CentralInit, RetryIsJustified
<1> QED BY <1>1, <1>2, <1>3, <1>4, <1>5 DEF CentralInv

LEMMA StutterInv ==
  ASSUME CentralInv, UNCHANGED centralVars PROVE CentralInv'
BY DEF CentralInv, centralVars, CentralTypeOK, IntentMatchesRun,
       TerminalEventIsLast, FirstEvent, AcceptedBeforeProgress,
       RetryIsJustified, Active

\* A settled Run takes no event, changes no more and is not born again.
LEMMA SettledIsQuiet ==
  ASSUME NEW r \in Runs, Shape(r), state[r] \in terminalStates
  PROVE  state'[r] = state[r] /\ log'[r] = log[r]
BY DEF Shape, Quiet, Born, Takes, Active, terminalStates

LEMMA StepInv == ASSUME CentralInv, CentralStep PROVE CentralInv'
<1>1. RowTypes' /\ \A r \in Runs : Shape(r)
  BY StepShape DEF CentralInv
<1>2. RowTypes
  BY DEF CentralInv, CentralTypeOK, RowTypes
<1>3. \A e \in Entries : e.kind \in Kinds
  BY DEF Entries
<1>4. CentralTypeOK'
  <2>1. ASSUME NEW r \in Runs, state'[r] = "none"
        PROVE  log'[r] = <<>> /\ delivery'[r] = "none" /\ intent'[r] = "none"
    <3>1. state[r] = "none" /\ Quiet(r)
      BY <1>1, <1>3, <2>1
      DEF Shape, Quiet, Born, Takes, Active, Kinds, bridgeKinds, terminalStates
    <3> QED BY <1>1, <3>1 DEF Shape, Quiet, Active, CentralInv, CentralTypeOK
  <2> QED BY <1>1, <2>1 DEF RowTypes, CentralTypeOK
<1>5. IntentMatchesRun'
  <2>1. ASSUME NEW r \in Runs
        PROVE  /\ intent'[r] \in pending =>
                    /\ state'[r] \notin terminalStates \cup {"none"}
                    /\ delivery'[r] # "none"
               /\ intent'[r] = "resolved" => state'[r] \in terminalStates
    <3>0. /\ intent[r] \in pending => Active(r) /\ delivery[r] # "none"
          /\ intent[r] = "resolved" => state[r] \in terminalStates
          /\ state[r] = "none" => intent[r] = "none"
          /\ delivery[r] # "none" => delivery'[r] # "none"
      BY <1>1 DEF CentralInv, IntentMatchesRun, CentralTypeOK, Shape
    <3>1. CASE Quiet(r)
      BY <3>0, <3>1 DEF Quiet, Active, pending
    <3>2. CASE Born(r)
      BY <3>0, <3>2 DEF Born, pending
    <3>3. ASSUME NEW e \in Entries, Takes(r, e)
          PROVE  /\ intent'[r] \in pending =>
                      /\ state'[r] \notin terminalStates \cup {"none"}
                      /\ delivery'[r] # "none"
                 /\ intent'[r] = "resolved" => state'[r] \in terminalStates
      BY <1>3, <3>0, <3>3
      DEF Takes, Active, Kinds, bridgeKinds, terminalStates, pending
    <3> QED BY <1>1, <3>1, <3>2, <3>3 DEF Shape
  <2> QED BY <2>1 DEF IntentMatchesRun, Active
<1>6. TerminalEventIsLast'
  <2>1. ASSUME NEW r \in Runs
        PROVE  /\ \A i \in 1..Len(log'[r]) :
                    log'[r][i].kind \in terminalStates => i = Len(log'[r])
               /\ state'[r] \in terminalStates <=>
                    log'[r] # <<>> /\ log'[r][Len(log'[r])].kind \in terminalStates
    <3>0. /\ \A i \in 1..Len(log[r]) :
               log[r][i].kind \in terminalStates => i = Len(log[r])
          /\ state[r] \in terminalStates <=>
               log[r] # <<>> /\ log[r][Len(log[r])].kind \in terminalStates
          /\ log[r] \in Seq(Entries)
      BY <1>2 DEF CentralInv, TerminalEventIsLast, RowTypes
    <3>1. CASE Quiet(r)
      BY <3>0, <3>1 DEF Quiet
    <3>2. CASE Born(r)
      <4>1. state[r] \notin terminalStates /\ state'[r] \notin terminalStates
        BY <3>2 DEF Born, terminalStates
      <4> QED BY <3>0, <3>2, <4>1 DEF Born
    <3>3. ASSUME NEW e \in Entries, Takes(r, e)
          PROVE  /\ \A i \in 1..Len(log'[r]) :
                      log'[r][i].kind \in terminalStates => i = Len(log'[r])
                 /\ state'[r] \in terminalStates <=>
                      log'[r] # <<>> /\ log'[r][Len(log'[r])].kind \in terminalStates
      <4>1. state[r] \notin terminalStates
        BY <3>3 DEF Takes, Active
      <4>2. \A i \in 1..Len(log[r]) : log[r][i].kind \notin terminalStates
        BY <3>0, <4>1
      <4>3. /\ Len(log'[r]) = Len(log[r]) + 1
            /\ log'[r][Len(log[r]) + 1] = e
            /\ \A i \in 1..Len(log[r]) : log'[r][i] = log[r][i]
            /\ log'[r] # <<>>
            /\ Len(log[r]) \in Nat
        BY <3>0, <3>3 DEF Takes
      <4>4. state'[r] \in terminalStates <=> e.kind \in terminalStates
        BY <3>3, <4>1 DEF Takes, terminalStates
      <4> QED BY <4>2, <4>3, <4>4
    <3> QED BY <1>1, <3>1, <3>2, <3>3 DEF Shape
  <2> QED BY <2>1 DEF TerminalEventIsLast
<1>7. FirstEvent'
  <2>1. ASSUME NEW r \in Runs, log'[r] # <<>>
        PROVE  log'[r][1].kind \in terminalStates \cup {"delivered"}
    <3>0. /\ log[r] # <<>> => log[r][1].kind \in terminalStates \cup {"delivered"}
          /\ log[r] \in Seq(Entries)
      BY <1>2 DEF CentralInv, FirstEvent, RowTypes
    <3>1. CASE Quiet(r) \/ Born(r)
      BY <2>1, <3>0, <3>1 DEF Quiet, Born
    <3>2. ASSUME NEW e \in Entries, Takes(r, e), TakesFirst(r, e)
          PROVE  log'[r][1].kind \in terminalStates \cup {"delivered"}
      <4>1. log'[r][1] = IF log[r] = <<>> THEN e ELSE log[r][1]
        BY <3>0, <3>2 DEF Takes
      <4> QED BY <3>0, <3>2, <4>1 DEF TakesFirst
    <3> QED BY <1>1, <3>1, <3>2 DEF Shape
  <2> QED BY <2>1 DEF FirstEvent
<1>8. AcceptedBeforeProgress'
  <2>1. ASSUME NEW r \in Runs
        PROVE  /\ Len(log'[r]) > 1 => log'[r][1].kind = "delivered"
               /\ (log'[r] # <<>> /\ log'[r][1].kind = "delivered") =>
                    delivery'[r] = "accepted"
    <3>0. /\ Len(log[r]) > 1 => log[r][1].kind = "delivered"
          /\ (log[r] # <<>> /\ log[r][1].kind = "delivered") =>
               delivery[r] = "accepted"
          /\ delivery[r] = "accepted" => delivery'[r] = "accepted"
          /\ log[r] \in Seq(Entries)
      BY <1>1, <1>2 DEF CentralInv, AcceptedBeforeProgress, RowTypes, Shape
    <3>1. CASE Quiet(r) \/ Born(r)
      BY <3>0, <3>1 DEF Quiet, Born
    <3>2. ASSUME NEW e \in Entries, Takes(r, e), TakesFirst(r, e)
          PROVE  /\ Len(log'[r]) > 1 => log'[r][1].kind = "delivered"
                 /\ (log'[r] # <<>> /\ log'[r][1].kind = "delivered") =>
                      delivery'[r] = "accepted"
      <4>1. CASE log[r] = <<>>
        <5>1. log'[r][1] = e /\ Len(log'[r]) = 1
          BY <3>2, <4>1 DEF Takes
        <5> QED BY <3>2, <4>1, <5>1 DEF TakesFirst
      <4>2. CASE log[r] # <<>>
        <5>1. log'[r][1] = log[r][1] /\ 1 \in 1..Len(log[r]) /\ Len(log[r]) \in Nat
          BY <3>0, <3>2, <4>2 DEF Takes
        <5>2. state[r] \notin terminalStates
          BY <3>2 DEF Takes, Active
        <5>3. log[r][Len(log[r])].kind \notin terminalStates
          BY <4>2, <5>2 DEF CentralInv, TerminalEventIsLast
        <5>4. log[r][1].kind = "delivered"
          BY <3>0, <4>2, <5>1, <5>3 DEF CentralInv, FirstEvent
        <5> QED BY <3>0, <4>2, <5>1, <5>4
      <4> QED BY <4>1, <4>2
    <3> QED BY <1>1, <3>1, <3>2 DEF Shape
  <2> QED BY <2>1 DEF AcceptedBeforeProgress
<1>9. RetryIsJustified'
  <2>1. ASSUME NEW r \in Runs, retryOf'[r] # r
        PROVE  /\ state'[retryOf'[r]] \in terminalStates \ {"completed"}
               /\ state'[retryOf'[r]] = "outcome_unknown" => acked'[retryOf'[r]]
    <3> DEFINE p == retryOf'[r]
    <3>1. p \in Runs
      BY <1>1 DEF RowTypes
    <3>2. /\ state[p] \in terminalStates \ {"completed"}
          /\ state[p] = "outcome_unknown" => acked[p]
      <4>1. CASE retryOf'[r] = retryOf[r]
        BY <2>1, <4>1 DEF CentralInv, RetryIsJustified
      <4>2. CASE retryOf'[r] # retryOf[r]
        BY <1>1, <4>2 DEF Shape
      <4> QED BY <4>1, <4>2
    <3>3. state'[p] = state[p] /\ (acked[p] => acked'[p])
      BY <1>1, <3>1, <3>2, SettledIsQuiet DEF Shape
    <3> QED BY <3>2, <3>3
  <2> QED BY <2>1 DEF RetryIsJustified
<1> QED BY <1>4, <1>5, <1>6, <1>7, <1>8, <1>9 DEF CentralInv

\* CentralInv is an inductive invariant of Central.
LEMMA CentralInductive == CentralSpec => []CentralInv
<1>1. CentralInit => CentralInv
  BY InitInv
<1>2. CentralInv /\ [CentralNext]_centralVars => CentralInv'
  BY StepInv, StutterInv DEF CentralStep
<1> QED BY <1>1, <1>2, PTL DEF CentralSpec

-----------------------------------------------------------------------------
\* The rows keep their shapes, and a Run without a row has nothing else.
THEOREM CentralTypes == CentralSpec => []CentralTypeOK
<1>1. CentralInv => CentralTypeOK
  BY DEF CentralInv
<1> QED BY <1>1, CentralInductive, PTL

\* A cancellation intent is pending exactly as long as its Run can still end.
THEOREM CentralIntents == CentralSpec => []IntentMatchesRun
<1>1. CentralInv => IntentMatchesRun
  BY DEF CentralInv
<1> QED BY <1>1, CentralInductive, PTL

\* Whatever the Device sends, progress follows an acceptance and a Run ends once:
\* its first terminal event is its last event.
THEOREM CentralOrder == CentralSpec => []EventsInOrder
<1>1. CentralInv => EventsInOrder
  BY DEF CentralInv, EventsInOrder
<1> QED BY <1>1, CentralInductive, PTL

\* No ambiguous Run is retried before a person acknowledges it.
THEOREM CentralRetries == CentralSpec => []RetryIsJustified
<1>1. CentralInv => RetryIsJustified
  BY DEF CentralInv
<1> QED BY <1>1, CentralInductive, PTL

\* Run events are append-only, and a settled Run never changes.
THEOREM CentralHistory == CentralSpec => HistoryIsKept
<1> DEFINE Kept ==
      \A r \in Runs :
        /\ Len(log[r]) <= Len(log'[r])
        /\ \A i \in 1..Len(log[r]) : log'[r][i] = log[r][i]
        /\ state[r] \in terminalStates =>
             state'[r] = state[r] /\ log'[r] = log[r]
<1>1. CentralInv /\ [CentralNext]_centralVars => [Kept]_centralVars
  <2> SUFFICES ASSUME CentralInv, CentralNext, NEW r \in Runs
               PROVE  /\ Len(log[r]) <= Len(log'[r])
                      /\ \A i \in 1..Len(log[r]) : log'[r][i] = log[r][i]
                      /\ state[r] \in terminalStates =>
                           state'[r] = state[r] /\ log'[r] = log[r]
    OBVIOUS
  <2>1. Shape(r) /\ log[r] \in Seq(Entries)
    BY StepShape DEF CentralInv, CentralTypeOK, CentralStep
  <2>2. \/ log'[r] = log[r]
        \/ \E e \in Entries : log'[r] = Append(log[r], e)
    BY <2>1 DEF Shape, Quiet, Born, Takes
  <2>3. /\ Len(log[r]) <= Len(log'[r])
        /\ \A i \in 1..Len(log[r]) : log'[r][i] = log[r][i]
    BY <2>1, <2>2
  <2> QED BY <2>1, <2>3, SettledIsQuiet
<1> QED BY <1>1, CentralInductive, PTL DEF CentralSpec, HistoryIsKept
=============================================================================
