--------------------------- MODULE HostedRuns_proof ---------------------------
(***************************************************************************)
(* Proofs about HostedRuns, for every number of Runs, every assignment of  *)
(* them to Agents, every concurrency limit and any number of crashes.      *)
(* That a request is sent once needs more than the fence: RunOK says what  *)
(* the Run's row, its invocation row and the scheduler's entry know about  *)
(* each other, which every path of settlement has to keep.                 *)
(***************************************************************************)
EXTENDS HostedRuns, FiniteSetTheorems, WellFoundedInduction, TLAPS

RunStates == {"none", "queued", "delivered", "working"} \cup terminalStates
InvStates == {"none"} \cup openInvocations \cup invocationTerminalStates

\* What is known of one Run: nothing was sent while it is queued or while its
\* invocation is not past the fence; who was aborted has ended; an entry of the
\* scheduler has a Run; an invocation never runs ahead of its Run.
RunOK(r) ==
  /\ sent[r] <= 1
  /\ run[r] \in {"none", "queued", "canceled", "expired"} => sent[r] = 0
  /\ inv[r] \in {"none", "prepared"} => sent[r] = 0
  /\ aborted[r] => run[r] \in terminalStates
  /\ phase[r] # "idle" => run[r] # "none"
  /\ phase[r] = "settle" => run[r] \in terminalStates
  /\ inv[r] \in invocationTerminalStates => run[r] \in terminalStates
  /\ inv[r] = "completed" => run[r] = "completed"
  /\ inv[r] = "canceled" => run[r] = "canceled"
  /\ inv[r] \in {"dispatching", "streaming"} => run[r] \notin {"none", "queued"}

HostedInv ==
  /\ HostedTypeOK
  /\ \A r \in Runs : RunOK(r)
  /\ WithinLimits

-----------------------------------------------------------------------------
(* Sets of Runs. *)

\* A set of Runs is finite, and so is what a drain selects from it.
LEMMA RunsFinite ==
  ASSUME NEW S \in SUBSET Runs
  PROVE  IsFiniteSet(S) /\ Cardinality(S) \in Nat
<1>1. IsFiniteSet(Runs)
  BY FS_Interval, HostedAssumption DEF Runs
<1> QED
  BY <1>1, FS_Subset, FS_CardinalityType

\* A set of Runs that is not empty has a youngest member.
LEMMA YoungestRun ==
  ASSUME NEW S \in SUBSET Runs, S # {}
  PROVE  \E m \in S : \A q \in S : q <= m
<1> DEFINE T == {N - q : q \in S}
<1>1. N \in Nat /\ Runs = 1..N
  BY HostedAssumption DEF Runs
<1>2. T \in SUBSET Nat /\ T # {}
  <2>1. \A q \in S : q \in Nat /\ N - q \in Nat
    BY <1>1
  <2>2. PICK q \in S : TRUE
    OBVIOUS
  <2>3. N - q \in T
    OBVIOUS
  <2> QED
    BY <2>1, <2>3
<1>3. PICK t \in T : \A u \in T : ~(<<u, t>> \in OpToRel(<, Nat))
  <2> HIDE DEF T
  <2> QED
    BY <1>2, NatLessThanWellFounded, WFMin
<1>4. \A u \in T : ~(u < t)
  BY <1>2, <1>3 DEF OpToRel
<1>5. PICK m \in S : t = N - m
  OBVIOUS
<1>6. ASSUME NEW q \in S PROVE q <= m
  <2>1. N - q \in T
    OBVIOUS
  <2>2. ~(N - q < N - m)
    BY <1>4, <1>5, <2>1
  <2> QED
    BY <1>1, <2>2
<1> QED
  BY <1>6

\* One pass of the drain fills the free places and no more.
LEMMA ChosenFits ==
  ASSUME HostedTypeOK, Cardinality(active) <= MaxActive, NEW S \in SUBSET (Runs \ active)
  PROVE  Cardinality(active \cup Chosen(S)) <= MaxActive
<1> DEFINE first == {r \in S : /\ AgentOf[r] \notin activeAgents
                               /\ \A q \in S : AgentOf[q] = AgentOf[r] => r <= q}
           older(r) == {q \in first : q < r}
           C == Chosen(S)
<1>1. MaxActive \in Nat \ {0} /\ N \in Nat /\ Runs \subseteq Nat
  BY HostedAssumption DEF Runs
<1>2. C = {r \in first : Cardinality(active) + Cardinality(older(r)) < MaxActive}
  BY DEF Chosen
<1>3. active \in SUBSET Runs /\ first \in SUBSET Runs /\ C \in SUBSET first
  BY <1>2 DEF active
<1> SUFFICES Cardinality(active \cup C) <= MaxActive
  OBVIOUS
<1> HIDE DEF first, C
<1>4. /\ IsFiniteSet(active) /\ Cardinality(active) \in Nat
      /\ IsFiniteSet(C) /\ Cardinality(C) \in Nat
  BY <1>3, RunsFinite
<1>5. active \cap C = {}
  BY <1>2 DEF first
<1>6. Cardinality(active \cup C) = Cardinality(active) + Cardinality(C)
  <2>1. Cardinality(active \cap C) = 0
    BY <1>5, FS_EmptySet
  <2>2. Cardinality(active \cup C)
          = Cardinality(active) + Cardinality(C) - Cardinality(active \cap C)
    BY <1>4, FS_Union
  <2> QED
    BY <1>4, <2>1, <2>2
<1>7. CASE C = {}
  <2>1. active \cup C = active
    BY <1>7
  <2> QED
    BY <2>1
<1>8. CASE C # {}
  <2>1. PICK m \in C : \A q \in C : q <= m
    BY <1>3, <1>8, YoungestRun
  <2>2. /\ m \in first
        /\ Cardinality(active) + Cardinality(older(m)) < MaxActive
    BY <1>2, <2>1
  <2>3. older(m) \in SUBSET Runs
    BY <1>3
  <2>4. IsFiniteSet(older(m)) /\ Cardinality(older(m)) \in Nat
    BY <2>3, RunsFinite
  <2>5. C \subseteq older(m) \cup {m}
    <3> SUFFICES ASSUME NEW q \in C, q # m PROVE q \in older(m)
      OBVIOUS
    <3>1. q <= m /\ q \in Nat /\ m \in Nat
      BY <2>1, <1>1, <1>3
    <3>2. q < m
      BY <3>1
    <3> QED
      BY <3>2, <1>3
  <2> HIDE DEF older
  <2>6. /\ IsFiniteSet(older(m) \cup {m})
        /\ Cardinality(older(m) \cup {m}) <= Cardinality(older(m)) + 1
    BY <2>4, FS_AddElement
  <2>7. Cardinality(C) <= Cardinality(older(m) \cup {m})
    BY <2>5, <2>6, FS_Subset
  <2>8. Cardinality(older(m) \cup {m}) \in Nat
    BY <2>6, FS_CardinalityType
  <2> QED
    BY <1>1, <1>4, <1>6, <2>2, <2>4, <2>6, <2>7, <2>8
<1> QED
  BY <1>7, <1>8

\* A step that starts no Run keeps the limits.
LEMMA LimitsKept ==
  ASSUME WithinLimits, active' \subseteq active
  PROVE  WithinLimits'
<1>1. active \in SUBSET Runs /\ MaxActive \in Nat
  BY HostedAssumption DEF active
<1>2. IsFiniteSet(active) /\ Cardinality(active) \in Nat
  BY <1>1, RunsFinite
<1>3. Cardinality(active') \in Nat /\ Cardinality(active') <= Cardinality(active)
  <2>1. active' \in SUBSET Runs
    BY <1>1
  <2> QED
    BY <1>2, <2>1, FS_Subset, RunsFinite
<1> QED
  BY <1>1, <1>2, <1>3 DEF WithinLimits

-----------------------------------------------------------------------------
(* The steps. *)

\* Settling an invocation leaves a legal row, which is settled if it was open
\* and says completed or canceled only with its Run.
LEMMA SettledRow ==
  ASSUME NEW i \in InvStates, NEW state
  PROVE  /\ SettleFromRun(i, state) \in InvStates
         /\ SettleFromRun(i, state) \notin openInvocations
         /\ i \in {"none"} \cup invocationTerminalStates => SettleFromRun(i, state) = i
         /\ i \in openInvocations =>
              /\ SettleFromRun(i, state) \in invocationTerminalStates
              /\ SettleFromRun(i, state) = "completed" => state = "completed"
              /\ SettleFromRun(i, state) = "canceled" => state = "canceled"
  BY DEF SettleFromRun, InvocationState, InvStates, openInvocations,
         invocationTerminalStates

\* The types survive every step.
LEMMA HostedTypesStep == HostedTypeOK /\ [Next]_vars => HostedTypeOK'
<1> SUFFICES ASSUME HostedTypeOK, [Next]_vars PROVE HostedTypeOK'
  OBVIOUS
<1> USE HostedAssumption DEF HostedTypeOK, Phases
<1>0. \A i \in InvStates, state \in RunStates : SettleFromRun(i, state) \in InvStates
  BY SettledRow
<1>1. ASSUME NEW r \in Runs, enqueue(r) PROVE HostedTypeOK'
  BY <1>1 DEF enqueue
<1>2. ASSUME NEW r \in Runs, RunStep(r) PROVE HostedTypeOK'
  <2>1. CASE ExecuteFails(r)
    <3>1. /\ phase' \in [Runs -> Phases]
          /\ note' \in [Runs -> {"none", "running", "done"}]
          /\ busy' \in SUBSET Agents
      BY <2>1 DEF ExecuteFails, projectPresence, AwaitNotification
    <3>2. /\ run' \in [Runs -> RunStates]
          /\ inv' \in [Runs -> InvStates]
      <4>1. PICK state \in {"expired", "failed"} : failBeforeDispatch(r, state)
        BY <2>1 DEF ExecuteFails
      <4>2. SettleFromRun(inv[r], state) \in InvStates
        BY <1>0 DEF InvStates, RunStates, terminalStates
      <4> QED
        BY <4>1, <4>2 DEF failBeforeDispatch, RunStates, InvStates, terminalStates
    <3> QED
      BY <2>1, <3>1, <3>2 DEF ExecuteFails, RunStates, InvStates
  <2>2. CASE ExecuteTooLate(r)
    <3>1. /\ phase' \in [Runs -> Phases]
          /\ aborted' \in [Runs -> BOOLEAN]
          /\ note' \in [Runs -> {"none", "running", "done"}]
          /\ drain' \in BOOLEAN
          /\ busy' \in SUBSET Agents
      BY <2>2 DEF ExecuteTooLate, projectPresence, AwaitNotification, Finally
    <3>2. inv' \in [Runs -> InvStates]
      <4>1. SettleFromRun(inv[r], run[r]) \in InvStates
        BY <1>0 DEF InvStates, RunStates
      <4> QED
        BY <2>2, <4>1 DEF ExecuteTooLate, InvStates
    <3> QED
      BY <2>2, <3>1, <3>2 DEF ExecuteTooLate, InvStates
  <2>3. CASE ExpiresAtFence(r)
    BY <2>3 DEF ExpiresAtFence, AwaitNotification, terminalStates, invocationTerminalStates
  <2>4. CASE Dispatch(r)
    BY <2>4 DEF Dispatch, markDispatching, openInvocations
  <2>5. CASE Working(r)
    BY <2>5 DEF Working, markStreaming, openInvocations
  <2>6. CASE StreamEnds(r)
    BY <2>6 DEF StreamEnds, Endings, projectPresence, terminalStates
  <2>7. CASE Settle(r)
    BY <2>7, <1>0 DEF Settle, projectPresence, AwaitNotification, RunStates, InvStates
  <2>8. CASE Notified(r)
    <3>1. /\ phase' \in [Runs -> Phases]
          /\ aborted' \in [Runs -> BOOLEAN]
          /\ note' \in [Runs -> {"none", "running", "done"}]
          /\ drain' \in BOOLEAN
      BY <2>8 DEF Notified, Finally
    <3>2. told' \in [Runs -> Nat]
      BY <2>8 DEF Notified
    <3> QED
      BY <2>8, <3>1, <3>2 DEF Notified
  <2>9. CASE NotifiedBefore(r)
    BY <2>9 DEF NotifiedBefore, Finally
  <2>10. CASE NotificationFails(r)
    BY <2>10 DEF NotificationFails, Finally, projectPresence
  <2> QED
    BY <1>2, <2>1, <2>2, <2>3, <2>4, <2>5, <2>6, <2>7, <2>8, <2>9, <2>10 DEF RunStep
<1>3. ASSUME NEW S \in SUBSET Runs, FinishUnknown(S)
      PROVE  /\ run' \in [Runs -> RunStates]
             /\ inv' \in [Runs -> InvStates]
             /\ aborted' \in [Runs -> BOOLEAN]
  BY <1>0, <1>3 DEF FinishUnknown, RunStates, InvStates, terminalStates
<1>4. ASSUME NEW r \in Runs, NEW S \in SUBSET Runs, FinishUndispatched(r, S)
      PROVE  /\ run' \in [Runs -> RunStates]
             /\ inv' \in [Runs -> InvStates]
             /\ aborted' \in [Runs -> BOOLEAN]
  BY <1>0, <1>4 DEF FinishUndispatched, RunStates, InvStates, terminalStates
<1>5. ASSUME NEW r \in Runs, cancel(r) PROVE HostedTypeOK'
  <2>1. /\ run' \in [Runs -> RunStates]
        /\ inv' \in [Runs -> InvStates]
        /\ aborted' \in [Runs -> BOOLEAN]
        /\ asked' \in [Runs -> BOOLEAN]
    <3>1. CASE cancelPrepared(r) /\ UNCHANGED aborted
      BY <3>1 DEF cancelPrepared, RunStates, InvStates, terminalStates,
                  invocationTerminalStates
    <3>2. CASE requestCancellation(r) /\ FinishUnknown({r})
      <4>1. asked' \in [Runs -> BOOLEAN]
        BY <3>2 DEF requestCancellation
      <4> QED
        BY <3>2, <4>1, <1>3
    <3> QED
      BY <1>5, <3>1, <3>2 DEF cancel
  <2> QED
    BY <1>5, <2>1 DEF cancel, RunStates, InvStates
<1>6. ASSUME NEW r \in Runs, deadlineTimer(r) PROVE HostedTypeOK'
  <2>1. FinishUnknown({r})
    BY <1>6 DEF deadlineTimer
  <2> QED
    BY <1>3, <1>6, <2>1 DEF deadlineTimer, RunStates, InvStates
<1>7. ASSUME NEW r \in Runs, Deadline(r) PROVE HostedTypeOK'
  BY <1>7 DEF Deadline
<1>8. ASSUME NEW r \in Runs, DiscussionEnds(r) PROVE HostedTypeOK'
  BY <1>8 DEF DiscussionEnds, terminalStates
<1>9. ASSUME NEW a \in Agents, revokeAgent(a) PROVE HostedTypeOK'
  <2>1. PICK r \in active : FinishUndispatched(r, {}) \/ FinishUnknown({r})
    BY <1>9 DEF revokeAgent
  <2>2. r \in Runs
    BY DEF active
  <2>3. /\ run' \in [Runs -> RunStates]
        /\ inv' \in [Runs -> InvStates]
        /\ aborted' \in [Runs -> BOOLEAN]
    BY <1>3, <1>4, <2>1, <2>2
  <2> QED
    BY <1>9, <2>3 DEF revokeAgent, RunStates, InvStates
<1>10. ASSUME NEW a \in Agents, setEnabled(a) PROVE HostedTypeOK'
  BY <1>10 DEF setEnabled
<1>11. CASE Drain
  BY <1>11 DEF Drain
<1>12. CASE expireQueued
  BY <1>12 DEF expireQueued, terminalStates
<1>13. CASE shutdown
  <2>1. /\ run' \in [Runs -> RunStates]
        /\ inv' \in [Runs -> InvStates]
        /\ aborted' \in [Runs -> BOOLEAN]
    <3>1. active \in SUBSET Runs
      BY DEF active
    <3>2. CASE FinishUnknown(active)
      BY <3>1, <3>2, <1>3
    <3>3. CASE \E r \in active, S \in SUBSET active : FinishUndispatched(r, S)
      <4>1. PICK r \in active, S \in SUBSET active : FinishUndispatched(r, S)
        BY <3>3
      <4>2. r \in Runs /\ S \in SUBSET Runs
        BY <3>1
      <4> QED
        BY <4>1, <4>2, <1>4
    <3> QED
      BY <1>13, <3>2, <3>3 DEF shutdown
  <2> QED
    BY <1>13, <2>1 DEF shutdown, RunStates, InvStates
<1>14. CASE Crash
  <2>1. active \in SUBSET Runs
    BY DEF active
  <2>2. /\ run' \in [Runs -> RunStates]
        /\ inv' \in [Runs -> InvStates]
        /\ asked' \in [Runs -> BOOLEAN]
    BY <1>14, <2>1 DEF Crash, RunStates, InvStates, terminalStates, openInvocations
  <2>3. crashes' \in Nat /\ server' = "down" /\ drain' = FALSE /\ missed' = {}
    BY <1>14 DEF Crash, Volatile
  <2>4. /\ phase' \in [Runs -> Phases]
        /\ aborted' \in [Runs -> BOOLEAN]
        /\ note' \in [Runs -> {"none", "running", "done"}]
    BY <1>14 DEF Crash, Volatile
  <2> QED
    BY <1>14, <2>2, <2>3, <2>4 DEF Crash, RunStates, InvStates
<1>15. CASE Stop
  BY <1>15 DEF Stop, Volatile
<1>16. CASE recover
  <2>1. /\ run' \in [Runs -> RunStates]
        /\ inv' \in [Runs -> InvStates]
    BY <1>0, <1>16 DEF recover, RunStates, InvStates, terminalStates,
                       invocationTerminalStates
  <2>2. drain' \in BOOLEAN /\ busy' \in SUBSET Agents /\ server' = "up"
    BY <1>16 DEF recover, Waiting
  <2> QED
    BY <1>16, <2>1, <2>2 DEF recover, RunStates, InvStates
<1>17. CASE RecoverFails \/ UNCHANGED vars
  BY <1>17 DEF RecoverFails, vars
<1> QED
  BY <1>1, <1>2, <1>5, <1>6, <1>7, <1>8, <1>9, <1>10, <1>11, <1>12, <1>13, <1>14,
     <1>15, <1>16, <1>17 DEF Next

\* A step that opens no new entry keeps the limits.
LEMMA NoNewEntry ==
  ASSUME HostedTypeOK, WithinLimits,
         \A r \in Runs : phase'[r] # "idle" => phase[r] # "idle"
  PROVE  WithinLimits'
<1>1. active' \subseteq active
  BY DEF active
<1> QED
  BY <1>1, LimitsKept

\* Ending Runs that are past the fence as outcome_unknown keeps what is known
\* of every Run.
LEMMA FinishedOK ==
  ASSUME HostedTypeOK, \A q \in Runs : RunOK(q),
         NEW S \in SUBSET active, FinishUnknown(S),
         UNCHANGED <<sent, phase>>
  PROVE  \A q \in Runs : RunOK(q)'
<1> SUFFICES ASSUME NEW q \in Runs PROVE RunOK(q)'
  OBVIOUS
<1>1. RunOK(q)
  OBVIOUS
<1>2. inv[q] \in InvStates /\ run[q] \in RunStates
  BY DEF HostedTypeOK, InvStates, RunStates
<1>3. /\ run'[q] = IF q \in S /\ Open(q) THEN "outcome_unknown" ELSE run[q]
      /\ inv'[q] = IF q \in S /\ Open(q) THEN SettleFromRun(inv[q], "outcome_unknown")
                   ELSE inv[q]
      /\ aborted'[q] = (aborted[q] \/ q \in S)
  BY DEF FinishUnknown
<1>4. q \in S => phase[q] # "idle"
  BY DEF active
<1>5. CASE q \in S /\ Open(q)
  <2>1. run[q] \notin terminalStates \cup {"none"}
    BY <1>5 DEF Open
  <2>2. run'[q] = "outcome_unknown"
    BY <1>3, <1>5
  <2>3. inv'[q] = SettleFromRun(inv[q], "outcome_unknown")
    BY <1>3, <1>5
  <2>4. /\ inv'[q] \notin {"prepared", "completed", "canceled", "dispatching", "streaming"}
        /\ inv'[q] = "none" => inv[q] = "none"
    BY <1>1, <1>2, <2>1, <2>3 DEF RunOK, SettleFromRun, InvocationState, InvStates,
       openInvocations, invocationTerminalStates, terminalStates
  <2> QED
    BY <1>1, <2>1, <2>2, <2>4 DEF RunOK, terminalStates
<1>6. CASE ~(q \in S /\ Open(q))
  <2>1. run'[q] = run[q] /\ inv'[q] = inv[q]
    BY <1>3, <1>6
  <2>2. aborted'[q] => run[q] \in terminalStates
    BY <1>1, <1>3, <1>4, <1>6 DEF RunOK, Open
  <2> QED
    BY <1>1, <2>1, <2>2 DEF RunOK
<1> QED
  BY <1>5, <1>6

\* The same for a Run that had not passed the fence and that ends without its
\* invocation, together with a set of Runs that had.
LEMMA UndispatchedOK ==
  ASSUME HostedTypeOK, \A q \in Runs : RunOK(q),
         NEW r \in active, NEW S \in SUBSET active, FinishUndispatched(r, S),
         UNCHANGED <<sent, phase>>
  PROVE  \A q \in Runs : RunOK(q)'
<1> SUFFICES ASSUME NEW q \in Runs PROVE RunOK(q)'
  OBVIOUS
<1>1. RunOK(q)
  OBVIOUS
<1>2. inv[q] \in InvStates /\ run[q] \in RunStates
  BY DEF HostedTypeOK, InvStates, RunStates
<1>3. /\ run'[q] = IF q \in S \cup {r} /\ Open(q) THEN "outcome_unknown" ELSE run[q]
      /\ inv'[q] = IF q \in S /\ Open(q) THEN SettleFromRun(inv[q], "outcome_unknown")
                   ELSE inv[q]
      /\ aborted'[q] = (aborted[q] \/ q \in S)
  BY DEF FinishUndispatched
<1>4. q \in S => phase[q] # "idle"
  BY DEF active
<1>5. CASE q \in S \cup {r} /\ Open(q)
  <2>1. run[q] \notin terminalStates \cup {"none"}
    BY <1>5 DEF Open
  <2>2. run'[q] = "outcome_unknown"
    BY <1>3, <1>5
  <2>3. inv'[q] \in {SettleFromRun(inv[q], "outcome_unknown"), inv[q]}
    BY <1>3, <1>5
  <2>4. /\ inv'[q] \notin {"completed", "canceled"}
        /\ inv'[q] \in {"none", "prepared"} => inv[q] \in {"none", "prepared"}
    BY <1>1, <1>2, <2>1, <2>3 DEF RunOK, SettleFromRun, InvocationState, InvStates,
       openInvocations, invocationTerminalStates, terminalStates
  <2> QED
    BY <1>1, <2>1, <2>2, <2>4 DEF RunOK, terminalStates
<1>6. CASE ~(q \in S \cup {r} /\ Open(q))
  <2>1. run'[q] = run[q] /\ inv'[q] = inv[q]
    BY <1>3, <1>6
  <2>2. aborted'[q] => run[q] \in terminalStates
    BY <1>1, <1>3, <1>4, <1>6 DEF RunOK, Open
  <2> QED
    BY <1>1, <2>1, <2>2 DEF RunOK
<1> QED
  BY <1>5, <1>6

\* Every step of one executeOne keeps what is known of every Run and opens no
\* new entry.
LEMMA RunStepOK ==
  ASSUME HostedTypeOK, \A q \in Runs : RunOK(q), NEW r \in Runs, RunStep(r)
  PROVE  \A q \in Runs : RunOK(q)' /\ (phase'[q] # "idle" => phase[q] # "idle")
<1> SUFFICES ASSUME NEW q \in Runs
             PROVE  RunOK(q)' /\ (phase'[q] # "idle" => phase[q] # "idle")
  OBVIOUS
<1>0. RunOK(q) /\ RunOK(r)
  OBVIOUS
<1> USE DEF HostedTypeOK
<1>1. inv[r] \in InvStates /\ run[r] \in RunStates
  BY DEF InvStates, RunStates
<1>2. CASE ExecuteFails(r)
  <2>1. PICK state \in {"expired", "failed"} : failBeforeDispatch(r, state)
    BY <1>2 DEF ExecuteFails
  <2>2. /\ phase' = [phase EXCEPT ![r] = "notify"]
        /\ phase[r] = "started" /\ run[r] = "queued"
        /\ UNCHANGED <<aborted, sent>>
    BY <1>2 DEF ExecuteFails, AwaitNotification
  <2>3. run' = [run EXCEPT ![r] = state]
        /\ inv' = [inv EXCEPT ![r] = SettleFromRun(inv[r], state)]
    BY <2>1 DEF failBeforeDispatch
  <2>4. /\ SettleFromRun(inv[r], state) \notin openInvocations
        /\ SettleFromRun(inv[r], state) = "none" => inv[r] = "none"
        /\ SettleFromRun(inv[r], state) \notin {"completed", "canceled"}
    BY <1>0, <1>1, <2>2, SettledRow DEF RunOK, InvStates, openInvocations,
       invocationTerminalStates, terminalStates
  <2>5. CASE q = r
    BY <2>2, <2>3, <2>4, <2>5, <1>0 DEF RunOK, openInvocations, terminalStates
  <2>6. CASE q # r
    BY <2>2, <2>3, <2>6, <1>0 DEF RunOK
  <2> QED
    BY <2>5, <2>6
<1>3. CASE ExecuteTooLate(r)
  <2>1. /\ phase[r] = "started" /\ run[r] \in terminalStates
        /\ phase' \in {[phase EXCEPT ![r] = "notify"], [phase EXCEPT ![r] = "idle"]}
        /\ inv' \in {inv, [inv EXCEPT ![r] = SettleFromRun(inv[r], run[r])]}
        /\ aborted' \in {aborted, [aborted EXCEPT ![r] = FALSE]}
        /\ UNCHANGED <<run, sent>>
    BY <1>3 DEF ExecuteTooLate, AwaitNotification, Finally
  <2>2. /\ SettleFromRun(inv[r], run[r]) \notin openInvocations
        /\ SettleFromRun(inv[r], run[r]) = "none" => inv[r] = "none"
        /\ SettleFromRun(inv[r], run[r]) \in {"completed", "canceled"} =>
             run[r] = SettleFromRun(inv[r], run[r])
    BY <1>0, <1>1, SettledRow DEF RunOK, InvStates, openInvocations,
       invocationTerminalStates
  <2>3. CASE q = r
    <3>1. inv'[r] \in {inv[r], SettleFromRun(inv[r], run[r])}
      BY <2>1
    <3>2. aborted'[r] => aborted[r]
      BY <2>1
    <3>3. phase'[r] \in {"notify", "idle"}
      BY <2>1
    <3> QED
      BY <2>1, <2>2, <2>3, <3>1, <3>2, <3>3, <1>0 DEF RunOK, openInvocations, terminalStates
  <2>4. CASE q # r
    <3>1. /\ inv'[q] = inv[q] /\ run'[q] = run[q] /\ sent'[q] = sent[q]
          /\ aborted'[q] = aborted[q] /\ phase'[q] = phase[q]
      BY <2>1, <2>4
    <3> QED
      BY <3>1, <1>0 DEF RunOK
  <2> QED
    BY <2>3, <2>4
<1>4. CASE ExpiresAtFence(r)
  BY <1>4, <1>0 DEF ExpiresAtFence, AwaitNotification, RunOK, terminalStates,
     invocationTerminalStates
<1>5. CASE Dispatch(r)
  BY <1>5, <1>0 DEF Dispatch, markDispatching, RunOK, terminalStates,
     invocationTerminalStates
<1>6. CASE Working(r)
  BY <1>6, <1>0 DEF Working, markStreaming, Open, RunOK, terminalStates,
     invocationTerminalStates
<1>7. CASE StreamEnds(r)
  BY <1>7, <1>0 DEF StreamEnds, Endings, Open, RunOK, terminalStates,
     invocationTerminalStates
<1>8. CASE Settle(r)
  <2>1. /\ phase[r] = "settle"
        /\ phase' = [phase EXCEPT ![r] = "notify"]
        /\ inv' = [inv EXCEPT ![r] = SettleFromRun(inv[r], run[r])]
        /\ UNCHANGED <<run, sent, aborted>>
    BY <1>8 DEF Settle, AwaitNotification
  <2>2. /\ SettleFromRun(inv[r], run[r]) \notin openInvocations
        /\ SettleFromRun(inv[r], run[r]) = "none" => inv[r] = "none"
        /\ SettleFromRun(inv[r], run[r]) \in {"completed", "canceled"} =>
             run[r] = SettleFromRun(inv[r], run[r])
    BY <1>0, <1>1, SettledRow DEF RunOK, InvStates, openInvocations,
       invocationTerminalStates
  <2>3. run[r] \in terminalStates
    BY <2>1, <1>0 DEF RunOK
  <2>4. CASE q = r
    BY <2>1, <2>2, <2>3, <2>4, <1>0 DEF RunOK, openInvocations, terminalStates
  <2>5. CASE q # r
    BY <2>1, <2>5, <1>0 DEF RunOK
  <2> QED
    BY <2>4, <2>5
<1>9. CASE Notified(r) \/ NotifiedBefore(r) \/ NotificationFails(r)
  <2>1. UNCHANGED <<run, inv, sent>>
    BY <1>9 DEF Notified, NotifiedBefore, NotificationFails
  <2>2. \/ UNCHANGED <<phase, aborted>>
        \/ /\ phase' = [phase EXCEPT ![r] = "idle"]
           /\ aborted' = [aborted EXCEPT ![r] = FALSE]
        \/ /\ phase[r] = "notify" /\ UNCHANGED aborted
           /\ phase' = [phase EXCEPT ![r] = "renotify"]
    BY <1>9 DEF Notified, NotifiedBefore, NotificationFails, Finally
  <2>3. CASE UNCHANGED <<phase, aborted>>
    BY <2>1, <2>3, <1>0 DEF RunOK
  <2>4. CASE phase' = [phase EXCEPT ![r] = "idle"]
             /\ aborted' = [aborted EXCEPT ![r] = FALSE]
    BY <2>1, <2>4, <1>0 DEF RunOK
  <2>5. CASE /\ phase[r] = "notify" /\ UNCHANGED aborted
             /\ phase' = [phase EXCEPT ![r] = "renotify"]
    BY <2>1, <2>5, <1>0 DEF RunOK
  <2> QED
    BY <2>2, <2>3, <2>4, <2>5
<1> QED
  BY <1>2, <1>3, <1>4, <1>5, <1>6, <1>7, <1>8, <1>9 DEF RunStep

\* A crash leaves no entry, and rows that one transaction of a step reached.
LEMMA CrashOK ==
  ASSUME HostedTypeOK, \A q \in Runs : RunOK(q), Crash
  PROVE  \A q \in Runs : RunOK(q)'
<1> SUFFICES ASSUME NEW q \in Runs PROVE RunOK(q)'
  OBVIOUS
<1>0. RunOK(q)
  OBVIOUS
<1> USE DEF HostedTypeOK
<1>1. phase'[q] = "idle" /\ aborted'[q] = FALSE /\ sent' = sent
  BY DEF Crash, Volatile
<1>2. CASE UNCHANGED <<run, inv>>
  BY <1>0, <1>1, <1>2 DEF RunOK
<1>3. ASSUME NEW r \in active, run[r] = "queued",
             \/ inv' = [inv EXCEPT ![r] = "prepared"] /\ UNCHANGED run
             \/ /\ inv' = [inv EXCEPT ![r] = "dispatching"]
                /\ run' = [run EXCEPT ![r] = "delivered"]
      PROVE  RunOK(q)'
  <2>1. r \in Runs
    BY DEF active
  <2>2. CASE q = r
    BY <1>0, <1>1, <1>3, <2>1, <2>2 DEF RunOK, terminalStates, invocationTerminalStates
  <2>3. CASE q # r
    <3>1. run'[q] = run[q] /\ inv'[q] = inv[q]
      BY <1>3, <2>1, <2>3
    <3> QED
      BY <1>0, <1>1, <3>1 DEF RunOK
  <2> QED
    BY <2>2, <2>3
<1>4. ASSUME NEW r \in active, Open(r), UNCHANGED inv,
             run' = [run EXCEPT ![r] = "outcome_unknown"]
      PROVE  RunOK(q)'
  <2>1. r \in Runs
    BY DEF active
  <2> QED
    BY <1>0, <1>1, <1>4, <2>1 DEF RunOK, Open, terminalStates, invocationTerminalStates
<1>5. ASSUME NEW r \in active, run[r] = "queued", UNCHANGED inv,
             run' = [run EXCEPT ![r] = "expired"]
      PROVE  RunOK(q)'
  <2>1. r \in Runs
    BY DEF active
  <2> QED
    BY <1>0, <1>1, <1>5, <2>1 DEF RunOK, terminalStates, invocationTerminalStates
<1>6. \/ UNCHANGED <<run, inv>>
      \/ \E r \in active :
           /\ run[r] = "queued"
           /\ \/ inv' = [inv EXCEPT ![r] = "prepared"] /\ UNCHANGED run
              \/ /\ inv' = [inv EXCEPT ![r] = "dispatching"]
                 /\ run' = [run EXCEPT ![r] = "delivered"]
      \/ \E r \in active :
           Open(r) /\ UNCHANGED inv /\ run' = [run EXCEPT ![r] = "outcome_unknown"]
      \/ \E r \in active :
           run[r] = "queued" /\ UNCHANGED inv /\ run' = [run EXCEPT ![r] = "expired"]
  BY DEF Crash
<1> QED
  BY <1>2, <1>3, <1>4, <1>5, <1>6

\* Recovery ends what it finds interrupted and settles the rows of what had
\* ended.
LEMMA RecoverOK ==
  ASSUME HostedTypeOK, \A q \in Runs : RunOK(q), recover
  PROVE  \A q \in Runs : RunOK(q)'
<1> SUFFICES ASSUME NEW q \in Runs PROVE RunOK(q)'
  OBVIOUS
<1>0. RunOK(q)
  OBVIOUS
<1>1. inv[q] \in InvStates /\ run[q] \in RunStates
  BY DEF HostedTypeOK, InvStates, RunStates
<1>2. UNCHANGED <<sent, aborted, phase>>
  BY DEF recover
<1>3. CASE q \in Interrupted
  <2>1. run'[q] = "outcome_unknown"
    BY <1>3 DEF recover
  <2>2. inv'[q] = IF inv[q] = "prepared" THEN "failed"
                  ELSE SettleFromRun(inv[q], "outcome_unknown")
    BY <1>3 DEF recover
  <2>3. run[q] \notin terminalStates \cup {"none"}
    BY <1>3 DEF Interrupted, Open
  <2>4. /\ inv'[q] \notin {"prepared", "completed", "canceled", "dispatching", "streaming"}
        /\ inv'[q] = "none" => inv[q] = "none"
    BY <1>0, <1>1, <2>2, <2>3 DEF RunOK, SettleFromRun, InvocationState, InvStates,
       openInvocations, invocationTerminalStates, terminalStates
  <2> QED
    BY <1>0, <1>2, <2>1, <2>3, <2>4 DEF RunOK, terminalStates
<1>4. CASE q \notin Interrupted /\ run[q] \in terminalStates
  <2>1. run'[q] = run[q] /\ inv'[q] = SettleFromRun(inv[q], run[q])
    BY <1>4 DEF recover
  <2>2. /\ inv'[q] \notin openInvocations
        /\ inv'[q] = "none" => inv[q] = "none"
        /\ inv'[q] \in {"completed", "canceled"} => inv'[q] = run[q]
    BY <1>0, <1>1, <2>1, SettledRow DEF RunOK, InvStates, openInvocations,
       invocationTerminalStates
  <2>3. run[q] # "none"
    BY <1>4 DEF terminalStates
  <2> QED
    BY <1>0, <1>2, <1>4, <2>1, <2>2, <2>3 DEF RunOK, openInvocations
<1>5. CASE q \notin Interrupted /\ run[q] \notin terminalStates
  <2>1. run'[q] = run[q] /\ inv'[q] = inv[q]
    BY <1>5 DEF recover
  <2> QED
    BY <1>0, <1>2, <2>1 DEF RunOK
<1> QED
  BY <1>3, <1>4, <1>5

\* A cancellation before the fence ends the Run and its row; after it, the Run
\* ends as outcome_unknown.
LEMMA CancelOK ==
  ASSUME HostedTypeOK, \A q \in Runs : RunOK(q), NEW r \in Runs, cancel(r)
  PROVE  \A q \in Runs : RunOK(q)'
<1>1. UNCHANGED <<sent, phase>>
  BY DEF cancel
<1>2. CASE /\ inv[r] \in {"none", "prepared"}
           /\ cancelPrepared(r)
           /\ UNCHANGED aborted
  BY <1>1, <1>2 DEF HostedTypeOK, cancelPrepared, RunOK, terminalStates,
     invocationTerminalStates
<1>3. CASE FinishUnknown({r})
  <2> SUFFICES ASSUME NEW q \in Runs PROVE RunOK(q)'
    OBVIOUS
  <2>0. RunOK(q) /\ Open(r)
    BY DEF cancel
  <2>1. inv[q] \in InvStates /\ run[q] \in RunStates
    BY DEF HostedTypeOK, InvStates, RunStates
  <2>2. CASE q = r
    <3>1. /\ run'[q] = "outcome_unknown"
          /\ inv'[q] = SettleFromRun(inv[q], "outcome_unknown")
      BY <1>3, <2>0, <2>2 DEF FinishUnknown
    <3>2. run[q] \notin terminalStates \cup {"none"}
      BY <2>0, <2>2 DEF Open
    <3>3. /\ inv'[q] \notin {"prepared", "completed", "canceled", "dispatching", "streaming"}
          /\ inv'[q] = "none" => inv[q] = "none"
      BY <2>0, <2>1, <3>1, <3>2 DEF RunOK, SettleFromRun, InvocationState, InvStates,
         openInvocations, invocationTerminalStates, terminalStates
    <3> QED
      BY <1>1, <2>0, <3>1, <3>2, <3>3 DEF RunOK, terminalStates
  <2>3. CASE q # r
    <3>1. run'[q] = run[q] /\ inv'[q] = inv[q] /\ aborted'[q] = aborted[q]
      BY <1>3, <2>3 DEF FinishUnknown, HostedTypeOK
    <3> QED
      BY <1>1, <2>0, <3>1 DEF RunOK
  <2> QED
    BY <2>2, <2>3
<1> QED
  BY <1>2, <1>3 DEF cancel

\* A drain starts Runs that are queued, within the limits.
LEMMA DrainOK ==
  ASSUME HostedTypeOK, \A q \in Runs : RunOK(q), WithinLimits, Drain
  PROVE  (\A q \in Runs : RunOK(q)') /\ WithinLimits'
<1> DEFINE S == ListRunnable \ active
           C == Chosen(S)
<1>1. /\ UNCHANGED <<sent, run, inv, aborted>>
      /\ \A q \in Runs : phase'[q] = IF server = "up" /\ q \in C THEN "started"
                                     ELSE phase[q]
  BY DEF Drain
<1>2. S \in SUBSET (Runs \ active)
  BY DEF ListRunnable
<1>3. C \subseteq S /\ \A q \in C : run[q] = "queued"
  BY DEF Chosen, ListRunnable
<1>4. \A q \in Runs : RunOK(q)'
  BY <1>1, <1>3 DEF RunOK
<1>5. CASE server # "up"
  <2>1. \A q \in Runs : phase'[q] = phase[q]
    BY <1>1, <1>5
  <2> QED
    BY <1>4, <2>1, NoNewEntry
<1>6. CASE server = "up"
  <2>1. active' = active \cup C
    <3> HIDE DEF C
    <3>1. C \subseteq Runs
      BY <1>2, <1>3
    <3> QED
      BY <1>1, <1>6, <3>1 DEF active
  <2>2. Cardinality(active') <= MaxActive
    <3> HIDE DEF S
    <3> QED
      BY <1>2, <2>1, ChosenFits DEF WithinLimits
  <2>3. ASSUME NEW q \in active', NEW r \in active', AgentOf[q] = AgentOf[r]
        PROVE  q = r
    <3>1. \A p \in C : /\ AgentOf[p] \notin activeAgents
                       /\ \A o \in S : AgentOf[o] = AgentOf[p] => p <= o
      BY DEF Chosen
    <3>2. \A p \in active : AgentOf[p] \in activeAgents
      BY DEF activeAgents
    <3>3. CASE q \in active /\ r \in active
      BY <2>3, <3>3 DEF WithinLimits
    <3>4. CASE q \in C /\ r \in C
      <4>1. q <= r /\ r <= q
        BY <1>3, <2>3, <3>1, <3>4
      <4>2. q \in Nat /\ r \in Nat
        BY <1>2, <1>3, <3>4, HostedAssumption DEF Runs
      <4> QED
        BY <4>1, <4>2
    <3> HIDE DEF C
    <3> QED
      BY <2>1, <2>3, <3>1, <3>2, <3>3, <3>4
  <2>4. WithinLimits'
    BY <2>2, <2>3 DEF WithinLimits
  <2> QED
    BY <1>4, <2>4
<1> QED
  BY <1>5, <1>6

\* Every step of the scheduler, its callers and its crashes preserves the
\* invariant.
LEMMA HostedInvStep == HostedInv /\ [Next]_vars => HostedInv'
<1> SUFFICES ASSUME HostedInv, [Next]_vars PROVE HostedInv'
  OBVIOUS
<1> USE DEF HostedInv
<1>0. HostedTypeOK'
  BY HostedTypesStep
<1>1. ASSUME \A q \in Runs : RunOK(q)', UNCHANGED phase PROVE HostedInv'
  BY <1>0, <1>1, NoNewEntry
<1>2. ASSUME UNCHANGED <<run, inv, sent, aborted, phase>> PROVE HostedInv'
  BY <1>0, <1>2, NoNewEntry DEF RunOK
<1>3. ASSUME NEW r \in Runs, enqueue(r) PROVE HostedInv'
  <2>1. \A q \in Runs : RunOK(q)'
    BY <1>3 DEF enqueue, RunOK, HostedTypeOK, terminalStates, invocationTerminalStates
  <2> QED
    BY <1>1, <1>3, <2>1 DEF enqueue
<1>4. ASSUME NEW r \in Runs, RunStep(r) PROVE HostedInv'
  BY <1>0, <1>4, RunStepOK, NoNewEntry
<1>5. ASSUME NEW r \in Runs, cancel(r) PROVE HostedInv'
  <2>1. UNCHANGED phase
    BY <1>5 DEF cancel
  <2> QED
    BY <1>1, <1>5, <2>1, CancelOK
<1>6. ASSUME NEW r \in Runs, deadlineTimer(r) PROVE HostedInv'
  <2>1. r \in active /\ FinishUnknown({r}) /\ UNCHANGED <<sent, phase>>
    BY <1>6 DEF deadlineTimer, active
  <2>2. {r} \in SUBSET active
    BY <2>1
  <2>3. \A q \in Runs : RunOK(q)'
    BY <2>1, <2>2, FinishedOK
  <2> QED
    BY <1>1, <2>1, <2>3
<1>7. ASSUME NEW r \in Runs, DiscussionEnds(r) PROVE HostedInv'
  <2>1. \A q \in Runs : RunOK(q)'
    BY <1>7 DEF DiscussionEnds, Open, RunOK, HostedTypeOK, terminalStates,
       invocationTerminalStates
  <2> QED
    BY <1>1, <1>7, <2>1 DEF DiscussionEnds
<1>8. ASSUME NEW a \in Agents, revokeAgent(a) PROVE HostedInv'
  <2>1. PICK r \in active : FinishUndispatched(r, {}) \/ FinishUnknown({r})
    BY <1>8 DEF revokeAgent
  <2>2. UNCHANGED <<sent, phase>>
    BY <1>8 DEF revokeAgent
  <2>3. {} \in SUBSET active /\ {r} \in SUBSET active
    OBVIOUS
  <2>4. \A q \in Runs : RunOK(q)'
    BY <2>1, <2>2, <2>3, FinishedOK, UndispatchedOK
  <2> QED
    BY <1>1, <2>2, <2>4
<1>9. CASE Drain
  BY <1>0, <1>9, DrainOK
<1>10. CASE expireQueued
  <2>1. \A q \in Runs : RunOK(q)'
    BY <1>10 DEF expireQueued, RunOK, HostedTypeOK, terminalStates,
       invocationTerminalStates
  <2> QED
    BY <1>1, <1>10, <2>1 DEF expireQueued
<1>11. CASE shutdown
  <2>1. UNCHANGED <<sent, phase>>
    BY <1>11 DEF shutdown
  <2>2. CASE FinishUnknown(active)
    <3>1. active \in SUBSET active
      OBVIOUS
    <3> QED
      BY <1>1, <2>1, <2>2, <3>1, FinishedOK
  <2>3. CASE \E r \in active, S \in SUBSET active : FinishUndispatched(r, S)
    BY <1>1, <2>1, <2>3, UndispatchedOK
  <2> QED
    BY <1>11, <2>2, <2>3 DEF shutdown
<1>12. CASE Crash
  <2>1. \A q \in Runs : phase'[q] = "idle"
    BY <1>12 DEF Crash, Volatile
  <2> QED
    BY <1>0, <1>12, <2>1, CrashOK, NoNewEntry
<1>13. CASE Stop
  <2>1. \A q \in Runs : phase'[q] = "idle" /\ aborted'[q] = FALSE
    BY <1>13 DEF Stop, Volatile
  <2>2. UNCHANGED <<run, inv, sent>>
    BY <1>13 DEF Stop
  <2>3. \A q \in Runs : RunOK(q)'
    BY <2>1, <2>2 DEF RunOK
  <2> QED
    BY <1>0, <2>1, <2>3, NoNewEntry
<1>14. CASE recover
  <2>1. UNCHANGED phase
    BY <1>14 DEF recover
  <2> QED
    BY <1>1, <1>14, <2>1, RecoverOK
<1>15. CASE RecoverFails \/ UNCHANGED vars
  BY <1>2, <1>15 DEF RecoverFails, vars
<1>16. ASSUME NEW r \in Runs, Deadline(r) PROVE HostedInv'
  BY <1>2, <1>16 DEF Deadline
<1>17. ASSUME NEW a \in Agents, setEnabled(a) PROVE HostedInv'
  BY <1>2, <1>17 DEF setEnabled
<1> QED
  BY <1>3, <1>4, <1>5, <1>6, <1>7, <1>8, <1>9, <1>10, <1>11, <1>12, <1>13, <1>14,
     <1>15, <1>16, <1>17 DEF Next

\* HostedInv holds in every reachable state.
LEMMA HostedInvHolds == Spec => []HostedInv
<1>1. Init => HostedInv
  <2> SUFFICES ASSUME Init PROVE HostedInv
    OBVIOUS
  <2>1. HostedTypeOK
    BY DEF Init, HostedTypeOK, Phases
  <2>2. \A r \in Runs : RunOK(r)
    BY DEF Init, RunOK, terminalStates, invocationTerminalStates
  <2>3. active = {} /\ Cardinality(active) = 0
    <3>1. active = {}
      BY DEF Init, active
    <3> QED
      BY <3>1, FS_EmptySet
  <2>4. WithinLimits
    BY <2>3, HostedAssumption DEF WithinLimits
  <2> QED
    BY <2>1, <2>2, <2>4 DEF HostedInv
<1>2. HostedInv /\ [Next]_vars => HostedInv'
  BY HostedInvStep
<1> QED
  BY <1>1, <1>2, PTL DEF Spec

-----------------------------------------------------------------------------
\* The rows and the scheduler's map have the values their columns and the code
\* allow, in every reachable state.
THEOREM HostedTypes == Spec => []HostedTypeOK
<1>1. HostedInv => HostedTypeOK
  BY DEF HostedInv
<1> QED
  BY <1>1, HostedInvHolds, PTL

\* However often the server crashes, at most one request for a Run goes to the
\* model provider.
THEOREM HostedOneRequest == Spec => []AtMostOneRequest
<1>1. HostedInv => AtMostOneRequest
  BY DEF HostedInv, RunOK, AtMostOneRequest
<1> QED
  BY <1>1, HostedInvHolds, PTL

\* A Run that a member sees canceled or expired never reached the provider.
THEOREM HostedCanceledUnsent == Spec => []CanceledWasNeverSent
<1>1. HostedInv => CanceledWasNeverSent
  BY DEF HostedInv, RunOK, CanceledWasNeverSent
<1> QED
  BY <1>1, HostedInvHolds, PTL

\* The scheduler never exceeds maximumConcurrency and never runs two Runs of
\* one Agent, for any number of Runs.
THEOREM HostedLimits == Spec => []WithinLimits
<1>1. HostedInv => WithinLimits
  BY DEF HostedInv
<1> QED
  BY <1>1, HostedInvHolds, PTL

\* The invocation row never runs ahead of its Run, whatever path settles it.
THEOREM HostedInvocations == Spec => []InvocationFollowsRun
<1>1. HostedInv => InvocationFollowsRun
  BY DEF HostedInv, RunOK, InvocationFollowsRun
<1> QED
  BY <1>1, HostedInvHolds, PTL
=============================================================================
