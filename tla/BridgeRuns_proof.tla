-------------------------- MODULE BridgeRuns_proof ---------------------------
(***************************************************************************)
(* Proofs about BridgeRuns, for any set of Runs and any requests and       *)
(* cancellations of Central.  A Run's record is written by one worker (or  *)
(* by the reader in its place), so where the worker is says what the       *)
(* record holds: that is the strengthening the safety properties need.     *)
(***************************************************************************)
EXTENDS BridgeRuns, TLAPS

Unfinished == {"accepted", "working"}

\* The types alone.
InboxTypes ==
  /\ link \in {"up", "down"}
  /\ rec \in [Runs -> RecordStates]
  /\ evs \in [Runs -> Seq(EventKinds)]
  /\ tomb \in [Runs -> BOOLEAN]
  /\ pc \in [Runs -> Places]
  /\ ctx \in [Runs -> {"live", "explicit", "lost"}]
  /\ fresh \in [Runs -> BOOLEAN]
  /\ reader \in Runs \cup {NoRun}
  /\ started \in [Runs -> Nat]

\* The record's state against its events.
RecordOK(r) ==
  IF rec[r] \in {"none", "preparing", "accepted"} THEN evs[r] = <<>>
  ELSE evs[r] # <<>> /\
       (isTerminalState(rec[r]) => evs[r][Len(evs[r])] = rec[r])

\* Where the worker is, against what the record says.
PlaceOK(r) ==
  /\ started[r] <= 1
  /\ rec[r] \in {"none", "preparing"} => started[r] = 0
  /\ (pc[r] = "check" /\ fresh[r]) =>
       rec[r] \in {"accepted", "preparing"} /\ started[r] = 0
  /\ (pc[r] = "preparing" /\ fresh[r]) => rec[r] = "preparing" /\ started[r] = 0
  /\ (pc[r] = "announce" /\ fresh[r]) => rec[r] = "accepted" /\ started[r] = 0
  /\ (pc[r] \in {"check", "preparing"} /\ ~fresh[r]) =>
       rec[r] \notin {"none", "preparing"}
  /\ pc[r] \in {"admit", "waiting", "starting"} =>
       rec[r] = "accepted" /\ started[r] = 0
  /\ pc[r] \in {"running", "unknown"} => rec[r] \in Unfinished
  /\ pc[r] = "emitting" =>
       rec[r] \in {"working", "completed", "failed", "input_required", "canceled"}

\* While connected, only a worker on its way to the Runtime, or in it, leaves a
\* record unfinished; and no context is lost.
ConnectedOK(r) ==
  /\ link = "up" =>
       /\ pc[r] \in {"idle", "accept", "announceFailure", "report", "clear",
                     "done", "lastWord"} => rec[r] \notin Unfinished
       /\ (pc[r] \in {"check", "preparing", "announce"} /\ ~fresh[r]) =>
            rec[r] \notin Unfinished
       /\ ctx[r] # "lost"
  /\ (pc[r] = "idle" \/ r = reader) => ctx[r] = "live"

BridgeInv ==
  /\ InboxTypes
  /\ \A r \in Runs : RecordOK(r) /\ PlaceOK(r) /\ ConnectedOK(r)

-----------------------------------------------------------------------------
\* What AppendEvent does to a sequence of events.
LEMMA AppendFacts ==
  ASSUME NEW es \in Seq(EventKinds), NEW k \in EventKinds
  PROVE  /\ Append(es, k) \in Seq(EventKinds)
         /\ Append(es, k) # <<>>
         /\ Append(es, k)[Len(Append(es, k))] = k
         /\ Len(es) <= Len(Append(es, k))
         /\ \A i \in 1..Len(es) : Append(es, k)[i] = es[i]
OBVIOUS

LEMMA BridgeInitInv == ASSUME BridgeInit PROVE BridgeInv
<1>1. \A r \in Runs : /\ rec[r] = "none" /\ evs[r] = <<>> /\ pc[r] = "idle"
                      /\ ctx[r] = "live" /\ started[r] = 0 /\ fresh[r] = FALSE
  BY DEF BridgeInit
<1>2. InboxTypes
  <2>1. <<>> \in Seq(EventKinds)
    OBVIOUS
  <2> QED BY <1>1, <2>1 DEF BridgeInit, InboxTypes, RecordStates, Places
<1>3. \A r \in Runs : RecordOK(r)
  BY <1>1 DEF RecordOK
<1>4. ASSUME NEW r \in Runs PROVE PlaceOK(r)
  <2>1. started[r] = 0 /\ pc[r] = "idle"
    BY <1>1
  <2> QED BY <2>1 DEF PlaceOK
<1>5. \A r \in Runs : ConnectedOK(r)
  BY <1>1 DEF ConnectedOK, Unfinished
<1> QED BY <1>2, <1>3, <1>4, <1>5 DEF BridgeInv

LEMMA BridgeStutterInv ==
  ASSUME BridgeInv, UNCHANGED bridgeVars PROVE BridgeInv'
BY DEF BridgeInv, bridgeVars, InboxTypes, RecordOK, PlaceOK, ConnectedOK

\* The records stand still: the steps that only move the worker.
LEMMA RecordStands ==
  ASSUME BridgeInv, UNCHANGED <<rec, evs>>
  PROVE  \A r \in Runs : RecordOK(r)'
BY DEF BridgeInv, RecordOK

\* A Run whose worker, record and context stand still is not disturbed by the
\* steps of the others.
LEMMA OtherRun ==
  ASSUME BridgeInv, NEW r \in Runs,
         pc'[r] = pc[r], rec'[r] = rec[r], fresh'[r] = fresh[r],
         started'[r] = started[r], ctx'[r] = ctx[r],
         UNCHANGED <<link, reader>>
  PROVE  PlaceOK(r)' /\ ConnectedOK(r)'
BY DEF BridgeInv, PlaceOK, ConnectedOK, Unfinished

\* The reader's steps.
LEMMA ReaderInv ==
  ASSUME BridgeInv, NEW q \in Runs, RunRequested(q) \/ RunCancelRequested(q)
  PROVE  BridgeInv'
<1> USE DEF BridgeInv
<1>0. UNCHANGED <<rec, evs, link, fresh, started>>
  BY DEF RunRequested, RunCancelRequested, FenceCanceledRun, ReplayCanceledRun
<1>1. \A r \in Runs : RecordOK(r)'
  BY <1>0, RecordStands
<1>2. CASE RunRequested(q)
  <2>1. InboxTypes'
    BY <1>2 DEF RunRequested, Goto, InboxTypes, Places
  <2>2. \A r \in Runs : PlaceOK(r)' /\ ConnectedOK(r)'
    BY <1>0, <1>2
    DEF RunRequested, Goto, isActive, InboxTypes, PlaceOK, ConnectedOK, Unfinished
  <2> QED BY <1>1, <2>1, <2>2
<1>3. CASE reader = NoRun /\ FenceCanceledRun(q)
  <2>1. InboxTypes'
    BY <1>3 DEF FenceCanceledRun, InboxTypes, isCancellationTerminalState
  <2>2. \A r \in Runs : PlaceOK(r)' /\ ConnectedOK(r)'
    BY <1>3, BridgeAssumption
    DEF FenceCanceledRun, isActive, InboxTypes, PlaceOK, ConnectedOK, Unfinished
  <2> QED BY <1>1, <2>1, <2>2
<1>4. CASE reader = NoRun /\ ReplayCanceledRun(q)
  <2>1. InboxTypes'
    BY <1>4 DEF ReplayCanceledRun, Goto, InboxTypes, Places
  <2>2. \A r \in Runs : PlaceOK(r)' /\ ConnectedOK(r)'
    BY <1>4, <1>0
    DEF ReplayCanceledRun, Goto, isActive, isCancellationTerminalState, InboxTypes,
        PlaceOK, ConnectedOK, Unfinished
  <2> QED BY <1>1, <2>1, <2>2
<1> QED BY <1>2, <1>3, <1>4 DEF RunCancelRequested

\* The worker's steps that write the inbox no event.
LEMMA QuietWorkerInv ==
  ASSUME BridgeInv, NEW q \in Runs,
         \/ Accept(q) \/ Check(q) \/ Prepare(q) \/ PrepareRetryable(q)
         \/ AnnounceFailure(q) \/ Announce(q) \/ Admit(q) \/ Acquire(q)
         \/ QueueExit(q) \/ Report(q) \/ ClearCancellation(q) \/ Start(q)
         \/ EmitSend(q) \/ EmitFails(q) \/ RuntimeError(q) \/ LastWord(q)
         \/ SendFails(q) \/ Done(q) \/ Fail(q)
  PROVE  BridgeInv'
<1> USE DEF BridgeInv, Goto, Stage
<1>1. CASE Accept(q)
  <2>1. InboxTypes'
    BY <1>1 DEF Accept, InboxTypes, Places, RecordStates
  <2>2. \A r \in Runs : RecordOK(r)'
    BY <1>1 DEF Accept, InboxTypes, RecordOK, PlaceOK, isTerminalState,
                isCancellationTerminalState
  <2>3. \A r \in Runs : PlaceOK(r)' /\ ConnectedOK(r)'
    <3>1. ASSUME NEW r \in Runs, r # q PROVE PlaceOK(r)' /\ ConnectedOK(r)'
      BY <1>1, <3>1, OtherRun DEF Accept, InboxTypes
    <3>2. PlaceOK(q)'
      BY <1>1 DEF Accept, InboxTypes, PlaceOK, Unfinished
    <3>3. ConnectedOK(q)'
      BY <1>1 DEF Accept, InboxTypes, PlaceOK, ConnectedOK, Unfinished
    <3> QED BY <3>1, <3>2, <3>3
  <2> QED BY <2>1, <2>2, <2>3
<1>2. CASE Check(q)
  <2>1. InboxTypes'
    BY <1>2 DEF Check, InboxTypes, Places, RecordStates
  <2>2. \A r \in Runs : RecordOK(r)'
    BY <1>2 DEF Check, InboxTypes, RecordOK, PlaceOK, isTerminalState,
                isCancellationTerminalState
  <2>3. \A r \in Runs : PlaceOK(r)' /\ ConnectedOK(r)'
    <3>1. ASSUME NEW r \in Runs, r # q PROVE PlaceOK(r)' /\ ConnectedOK(r)'
      BY <1>2, <3>1, OtherRun DEF Check, InboxTypes
    <3>2. PlaceOK(q)'
      BY <1>2 DEF Check, InboxTypes, PlaceOK, Unfinished
    <3>3. ConnectedOK(q)'
      BY <1>2 DEF Check, InboxTypes, PlaceOK, ConnectedOK, Unfinished
    <3> QED BY <3>1, <3>2, <3>3
  <2> QED BY <2>1, <2>2, <2>3
<1>3. CASE Prepare(q)
  <2>1. InboxTypes'
    BY <1>3 DEF Prepare, InboxTypes, Places, RecordStates
  <2>2. \A r \in Runs : RecordOK(r)'
    BY <1>3 DEF Prepare, InboxTypes, RecordOK, PlaceOK, isTerminalState,
                isCancellationTerminalState
  <2>3. \A r \in Runs : PlaceOK(r)' /\ ConnectedOK(r)'
    <3>1. ASSUME NEW r \in Runs, r # q PROVE PlaceOK(r)' /\ ConnectedOK(r)'
      BY <1>3, <3>1, OtherRun DEF Prepare, InboxTypes
    <3>2. PlaceOK(q)'
      BY <1>3 DEF Prepare, InboxTypes, PlaceOK, Unfinished
    <3>3. ConnectedOK(q)'
      BY <1>3 DEF Prepare, InboxTypes, PlaceOK, ConnectedOK, Unfinished
    <3> QED BY <3>1, <3>2, <3>3
  <2> QED BY <2>1, <2>2, <2>3
<1>4. CASE PrepareRetryable(q)
  <2>1. InboxTypes'
    BY <1>4 DEF PrepareRetryable, InboxTypes, Places, RecordStates
  <2>2. \A r \in Runs : RecordOK(r)'
    BY <1>4, RecordStands DEF PrepareRetryable
  <2>3. \A r \in Runs : PlaceOK(r)' /\ ConnectedOK(r)'
    BY <1>4 DEF PrepareRetryable, InboxTypes, PlaceOK, ConnectedOK, Unfinished
  <2> QED BY <2>1, <2>2, <2>3
<1>5. CASE AnnounceFailure(q)
  <2>1. InboxTypes'
    BY <1>5 DEF AnnounceFailure, InboxTypes, Places, RecordStates
  <2>2. \A r \in Runs : RecordOK(r)'
    BY <1>5, RecordStands DEF AnnounceFailure
  <2>3. \A r \in Runs : PlaceOK(r)' /\ ConnectedOK(r)'
    BY <1>5 DEF AnnounceFailure, InboxTypes, PlaceOK, ConnectedOK, Unfinished
  <2> QED BY <2>1, <2>2, <2>3
<1>6. CASE Announce(q)
  <2>1. InboxTypes'
    BY <1>6 DEF Announce, InboxTypes, Places, RecordStates, CanSend
  <2>2. \A r \in Runs : RecordOK(r)'
    BY <1>6, RecordStands DEF Announce
  <2>3. \A r \in Runs : PlaceOK(r)' /\ ConnectedOK(r)'
    BY <1>6 DEF Announce, InboxTypes, PlaceOK, ConnectedOK, Unfinished, CanSend
  <2> QED BY <2>1, <2>2, <2>3
<1>7. CASE Admit(q)
  <2>1. InboxTypes'
    BY <1>7 DEF Admit, InboxTypes, Places, RecordStates
  <2>2. \A r \in Runs : RecordOK(r)'
    BY <1>7, RecordStands DEF Admit
  <2>3. \A r \in Runs : PlaceOK(r)' /\ ConnectedOK(r)'
    BY <1>7 DEF Admit, InboxTypes, PlaceOK, ConnectedOK, Unfinished
  <2> QED BY <2>1, <2>2, <2>3
<1>8. CASE Acquire(q)
  <2>1. InboxTypes'
    BY <1>8 DEF Acquire, InboxTypes, Places, RecordStates
  <2>2. \A r \in Runs : RecordOK(r)'
    BY <1>8, RecordStands DEF Acquire
  <2>3. \A r \in Runs : PlaceOK(r)' /\ ConnectedOK(r)'
    BY <1>8 DEF Acquire, InboxTypes, PlaceOK, ConnectedOK, Unfinished
  <2> QED BY <2>1, <2>2, <2>3
<1>9. CASE QueueExit(q)
  <2>1. InboxTypes'
    BY <1>9 DEF QueueExit, InboxTypes, Places, RecordStates
  <2>2. \A r \in Runs : RecordOK(r)'
    BY <1>9, RecordStands DEF QueueExit
  <2>3. \A r \in Runs : PlaceOK(r)' /\ ConnectedOK(r)'
    BY <1>9 DEF QueueExit, InboxTypes, PlaceOK, ConnectedOK, Unfinished
  <2> QED BY <2>1, <2>2, <2>3
<1>10. CASE Report(q)
  <2>1. InboxTypes'
    BY <1>10 DEF Report, InboxTypes, Places, RecordStates
  <2>2. \A r \in Runs : RecordOK(r)'
    BY <1>10, RecordStands DEF Report
  <2>3. \A r \in Runs : PlaceOK(r)' /\ ConnectedOK(r)'
    BY <1>10 DEF Report, InboxTypes, PlaceOK, ConnectedOK, Unfinished
  <2> QED BY <2>1, <2>2, <2>3
<1>11. CASE ClearCancellation(q)
  <2>1. InboxTypes'
    BY <1>11 DEF ClearCancellation, InboxTypes, Places, RecordStates
  <2>2. \A r \in Runs : RecordOK(r)'
    BY <1>11, RecordStands DEF ClearCancellation
  <2>3. \A r \in Runs : PlaceOK(r)' /\ ConnectedOK(r)'
    BY <1>11, BridgeAssumption
    DEF ClearCancellation, InboxTypes, PlaceOK, ConnectedOK, Unfinished
  <2> QED BY <2>1, <2>2, <2>3
<1>12. CASE Start(q)
  <2>1. InboxTypes'
    BY <1>12 DEF Start, InboxTypes, Places, RecordStates
  <2>2. \A r \in Runs : RecordOK(r)'
    BY <1>12, RecordStands DEF Start
  <2>3. \A r \in Runs : PlaceOK(r)' /\ ConnectedOK(r)'
    BY <1>12 DEF Start, InboxTypes, PlaceOK, ConnectedOK, Unfinished
  <2> QED BY <2>1, <2>2, <2>3
<1>13. CASE EmitSend(q)
  <2>1. InboxTypes'
    BY <1>13 DEF EmitSend, InboxTypes, Places, RecordStates, isTerminalState, isCancellationTerminalState
  <2>2. \A r \in Runs : RecordOK(r)'
    BY <1>13, RecordStands DEF EmitSend
  <2>3. \A r \in Runs : PlaceOK(r)' /\ ConnectedOK(r)'
    BY <1>13 DEF EmitSend, InboxTypes, PlaceOK, ConnectedOK, Unfinished, isTerminalState, isCancellationTerminalState
  <2> QED BY <2>1, <2>2, <2>3
<1>14. CASE EmitFails(q)
  <2>1. InboxTypes'
    BY <1>14 DEF EmitFails, InboxTypes, Places, RecordStates, isTerminalState, isCancellationTerminalState
  <2>2. \A r \in Runs : RecordOK(r)'
    BY <1>14, RecordStands DEF EmitFails
  <2>3. \A r \in Runs : PlaceOK(r)' /\ ConnectedOK(r)'
    BY <1>14 DEF EmitFails, InboxTypes, PlaceOK, ConnectedOK, Unfinished, isTerminalState, isCancellationTerminalState
  <2> QED BY <2>1, <2>2, <2>3
<1>15. CASE RuntimeError(q)
  <2>1. InboxTypes'
    BY <1>15 DEF RuntimeError, InboxTypes, Places, RecordStates
  <2>2. \A r \in Runs : RecordOK(r)'
    BY <1>15, RecordStands DEF RuntimeError
  <2>3. \A r \in Runs : PlaceOK(r)' /\ ConnectedOK(r)'
    BY <1>15 DEF RuntimeError, InboxTypes, PlaceOK, ConnectedOK, Unfinished
  <2> QED BY <2>1, <2>2, <2>3
<1>16. CASE LastWord(q)
  <2>1. InboxTypes'
    BY <1>16 DEF LastWord, InboxTypes, Places, RecordStates
  <2>2. \A r \in Runs : RecordOK(r)'
    BY <1>16, RecordStands DEF LastWord
  <2>3. \A r \in Runs : PlaceOK(r)' /\ ConnectedOK(r)'
    BY <1>16 DEF LastWord, InboxTypes, PlaceOK, ConnectedOK, Unfinished
  <2> QED BY <2>1, <2>2, <2>3
<1>17. CASE SendFails(q)
  <2>1. InboxTypes'
    BY <1>17 DEF SendFails, InboxTypes, Places, RecordStates
  <2>2. \A r \in Runs : RecordOK(r)'
    BY <1>17, RecordStands DEF SendFails
  <2>3. \A r \in Runs : PlaceOK(r)' /\ ConnectedOK(r)'
    BY <1>17 DEF SendFails, InboxTypes, PlaceOK, ConnectedOK, Unfinished
  <2> QED BY <2>1, <2>2, <2>3
<1>18. CASE Done(q)
  <2>1. InboxTypes'
    BY <1>18 DEF Done, InboxTypes, Places, RecordStates
  <2>2. \A r \in Runs : RecordOK(r)'
    BY <1>18, RecordStands DEF Done
  <2>3. \A r \in Runs : PlaceOK(r)' /\ ConnectedOK(r)'
    BY <1>18 DEF Done, InboxTypes, PlaceOK, ConnectedOK, Unfinished
  <2> QED BY <2>1, <2>2, <2>3
<1>19. CASE Fail(q)
  <2>1. InboxTypes'
    BY <1>19 DEF Fail, InboxTypes, Places, RecordStates, LostContexts, isActive
  <2>2. \A r \in Runs : RecordOK(r)'
    BY <1>19, RecordStands DEF Fail
  <2>3. \A r \in Runs : PlaceOK(r)'
    BY <1>19 DEF Fail, InboxTypes, PlaceOK, Unfinished
  <2>4. \A r \in Runs : ctx'[r] = IF r = q THEN "live" ELSE LostContexts[r]
    BY <1>19 DEF Fail, InboxTypes, LostContexts
  <2>5. \A r \in Runs : (pc'[r] = "idle" \/ r = reader') => ctx'[r] = "live"
    BY <1>19, <2>4, BridgeAssumption
    DEF Fail, InboxTypes, ConnectedOK, LostContexts, isActive
  <2>6. \A r \in Runs : ConnectedOK(r)'
    BY <1>19, <2>5 DEF Fail, ConnectedOK
  <2> QED BY <2>1, <2>2, <2>3, <2>6
<1> QED
  BY <1>1, <1>2, <1>3, <1>4, <1>5, <1>6, <1>7, <1>8, <1>9, <1>10, <1>11, <1>12,
     <1>13, <1>14, <1>15, <1>16, <1>17, <1>18, <1>19

\* An event of any kind but output that is appended settles or advances the
\* record; output leaves a working record working.
LEMMA AppendRecord ==
  ASSUME BridgeInv, NEW q \in Runs, NEW k \in EventKinds, AppendEvent(q, k),
         k = "output" => rec[q] = "working"
  PROVE  /\ rec' \in [Runs -> RecordStates]
         /\ evs' \in [Runs -> Seq(EventKinds)]
         /\ \A r \in Runs : RecordOK(r)'
         /\ rec'[q] = (IF k = "output" THEN "working" ELSE k)
         /\ \A r \in Runs \ {q} : rec'[r] = rec[r]
<1> DEFINE es == Append(evs[q], k)
<1>0. rec \in [Runs -> RecordStates] /\ evs \in [Runs -> Seq(EventKinds)]
  BY DEF BridgeInv, InboxTypes
<1>1. es \in Seq(EventKinds) /\ es # <<>> /\ es[Len(es)] = k
  BY <1>0, AppendFacts
<1>2. evs' = [evs EXCEPT ![q] = es]
  BY <1>0 DEF AppendEvent
<1> HIDE DEF es
<1>3. rec'[q] = (IF k = "output" THEN "working" ELSE k)
  BY <1>0 DEF AppendEvent
<1>4. rec'[q] \in RecordStates \ {"none", "preparing", "accepted"}
  BY <1>3 DEF EventKinds, RecordStates
<1>5. \A r \in Runs \ {q} : rec'[r] = rec[r] /\ evs'[r] = evs[r]
  BY <1>0, <1>2 DEF AppendEvent
<1>6. rec' \in [Runs -> RecordStates] /\ evs' \in [Runs -> Seq(EventKinds)]
  BY <1>0, <1>1, <1>2, <1>4, <1>5 DEF AppendEvent
<1>7. ASSUME NEW r \in Runs PROVE RecordOK(r)'
  <2>1. CASE r = q
    <3>1. evs'[r] = es
      BY <1>0, <1>2, <2>1
    <3>2. isTerminalState(rec'[r]) => k = rec'[r]
      BY <1>3, <2>1 DEF isTerminalState, isCancellationTerminalState
    <3> QED BY <1>1, <1>4, <2>1, <3>1, <3>2 DEF RecordOK
  <2>2. CASE r # q
    BY <1>5, <2>2 DEF BridgeInv, RecordOK
  <2> QED BY <2>1, <2>2
<1> QED BY <1>3, <1>5, <1>6, <1>7

\* CancelQueued is an append of canceled or nothing.
LEMMA CancelIsAppend ==
  ASSUME InboxTypes, NEW q \in Runs, CancelQueued(q)
  PROVE  \/ isCancellationTerminalState(rec[q]) /\ UNCHANGED <<rec, evs>>
         \/ ~isCancellationTerminalState(rec[q]) /\ AppendEvent(q, "canceled")
BY DEF InboxTypes, CancelQueued, CanceledEvents, AppendEvent

\* The worker's steps that write an event.
LEMMA EventWorkerInv ==
  ASSUME BridgeInv, NEW q \in Runs,
         \/ FailPreparation(q)
         \/ CancelBeforeAdmission(q) \/ CancelAfterAcceptance(q)
         \/ \E k \in EventKinds : Emit(q, k)
         \/ emitUnknown(q)
  PROVE  BridgeInv'
<1> USE DEF Goto, Stage
<1>0. InboxTypes /\ \A r \in Runs : PlaceOK(r) /\ ConnectedOK(r)
  BY DEF BridgeInv
<1>k. {"failed", "canceled", "outcome_unknown"} \subseteq EventKinds
  BY DEF EventKinds
<1>1. CASE FailPreparation(q)
  <2>1. \/ isTerminalState(rec[q]) /\ UNCHANGED <<rec, evs, tomb>>
        \/ /\ AppendEvent(q, "failed")
           /\ tomb' = [tomb EXCEPT ![q] = FALSE]
    BY <1>1 DEF FailPreparation
  <2>2. /\ rec' \in [Runs -> RecordStates]
        /\ evs' \in [Runs -> Seq(EventKinds)]
        /\ \A r \in Runs : RecordOK(r)'
        /\ rec'[q] \notin {"none", "preparing"} \cup Unfinished
        /\ \A r \in Runs \ {q} : rec'[r] = rec[r]
    <3>1. CASE isTerminalState(rec[q]) /\ UNCHANGED <<rec, evs>>
      BY <1>0, <3>1, RecordStands
      DEF InboxTypes, isTerminalState, isCancellationTerminalState, Unfinished
    <3>2. CASE AppendEvent(q, "failed")
      BY <1>k, <3>2, AppendRecord DEF Unfinished
    <3> QED BY <2>1, <3>1, <3>2
  <2>3. InboxTypes'
    BY <1>0, <1>1, <2>1, <2>2 DEF FailPreparation, InboxTypes, Places
  <2>4. \A r \in Runs : PlaceOK(r)' /\ ConnectedOK(r)'
    BY <1>0, <1>1, <2>2 DEF FailPreparation, InboxTypes, PlaceOK, ConnectedOK
  <2> QED BY <2>2, <2>3, <2>4 DEF BridgeInv
<1>2. CASE CancelBeforeAdmission(q) \/ CancelAfterAcceptance(q)
  <2>1. \/ isCancellationTerminalState(rec[q]) /\ UNCHANGED <<rec, evs>>
        \/ AppendEvent(q, "canceled")
    BY <1>0, <1>2, CancelIsAppend DEF CancelBeforeAdmission, CancelAfterAcceptance
  <2>2. /\ rec' \in [Runs -> RecordStates]
        /\ evs' \in [Runs -> Seq(EventKinds)]
        /\ \A r \in Runs : RecordOK(r)'
        /\ rec'[q] \notin {"none", "preparing"} \cup Unfinished
        /\ \A r \in Runs \ {q} : rec'[r] = rec[r]
    <3>1. CASE isCancellationTerminalState(rec[q]) /\ UNCHANGED <<rec, evs>>
      BY <1>0, <3>1, RecordStands
      DEF InboxTypes, isCancellationTerminalState, Unfinished
    <3>2. CASE AppendEvent(q, "canceled")
      BY <1>k, <3>2, AppendRecord DEF Unfinished
    <3> QED BY <2>1, <3>1, <3>2
  <2>3. /\ pc' = [pc EXCEPT ![q] = "report"]
        /\ UNCHANGED <<link, tomb, ctx, fresh, reader, started>>
        /\ pc[q] # "idle"
    BY <1>2 DEF CancelBeforeAdmission, CancelAfterAcceptance
  <2>4. InboxTypes'
    BY <1>0, <2>2, <2>3 DEF InboxTypes, Places
  <2>5. \A r \in Runs : PlaceOK(r)' /\ ConnectedOK(r)'
    BY <1>0, <2>2, <2>3 DEF InboxTypes, PlaceOK, ConnectedOK
  <2> QED BY <2>2, <2>4, <2>5 DEF BridgeInv
<1>3. ASSUME NEW k \in EventKinds, Emit(q, k)
      PROVE  BridgeInv'
  <2>1. /\ AppendEvent(q, k)
        /\ k \in {"working", "output", "completed", "failed", "input_required",
                  "canceled"}
        /\ k = "output" => rec[q] = "working"
    BY <1>3 DEF Emit, RuntimeEmits
  <2>2. /\ rec' \in [Runs -> RecordStates]
        /\ evs' \in [Runs -> Seq(EventKinds)]
        /\ \A r \in Runs : RecordOK(r)'
        /\ rec'[q] \in {"working", "completed", "failed", "input_required",
                        "canceled"}
        /\ \A r \in Runs \ {q} : rec'[r] = rec[r]
    BY <2>1, AppendRecord
  <2>3. InboxTypes'
    BY <1>0, <1>3, <2>2 DEF Emit, InboxTypes, Places
  <2>4. \A r \in Runs : PlaceOK(r)' /\ ConnectedOK(r)'
    BY <1>0, <1>3, <2>2 DEF Emit, InboxTypes, PlaceOK, ConnectedOK
  <2> QED BY <2>2, <2>3, <2>4 DEF BridgeInv
<1>4. CASE emitUnknown(q)
  <2>1. AppendEvent(q, "outcome_unknown")
    BY <1>4 DEF emitUnknown
  <2>2. /\ rec' \in [Runs -> RecordStates]
        /\ evs' \in [Runs -> Seq(EventKinds)]
        /\ \A r \in Runs : RecordOK(r)'
        /\ rec'[q] = "outcome_unknown"
        /\ \A r \in Runs \ {q} : rec'[r] = rec[r]
    BY <1>k, <2>1, AppendRecord
  <2>3. InboxTypes'
    BY <1>0, <1>4, <2>2 DEF emitUnknown, InboxTypes, Places
  <2>4. \A r \in Runs : PlaceOK(r)' /\ ConnectedOK(r)'
    BY <1>0, <1>4, <2>2
    DEF emitUnknown, InboxTypes, PlaceOK, ConnectedOK, Unfinished
  <2> QED BY <2>2, <2>3, <2>4 DEF BridgeInv
<1> QED BY <1>1, <1>2, <1>3, <1>4

\* What recovery makes of one record.
LEMMA RecoveredRecord ==
  ASSUME BridgeInv, NEW r \in Runs
  PROVE  /\ Recovered(r) \in RecordStates
         /\ RecoveredEvents(r) \in Seq(EventKinds)
         /\ Recovered(r) \notin Unfinished
         /\ Recovered(r) \in {"none", "preparing"} => Recovered(r) = rec[r]
         /\ isCancellationTerminalState(rec[r]) =>
              Recovered(r) = rec[r] /\ RecoveredEvents(r) = evs[r]
         /\ Len(evs[r]) <= Len(RecoveredEvents(r))
         /\ \A i \in 1..Len(evs[r]) : RecoveredEvents(r)[i] = evs[r][i]
         /\ IF Recovered(r) \in {"none", "preparing", "accepted"}
            THEN RecoveredEvents(r) = <<>>
            ELSE RecoveredEvents(r) # <<>> /\
                 (isTerminalState(Recovered(r)) =>
                    RecoveredEvents(r)[Len(RecoveredEvents(r))] = Recovered(r))
<1>0. /\ rec[r] \in RecordStates /\ evs[r] \in Seq(EventKinds) /\ RecordOK(r)
      /\ tomb[r] \in BOOLEAN
  BY DEF BridgeInv, InboxTypes
<1> DEFINE c == Append(evs[r], "canceled")
           u == Append(evs[r], "outcome_unknown")
<1>1. /\ c \in Seq(EventKinds) /\ c # <<>> /\ c[Len(c)] = "canceled"
      /\ Len(evs[r]) <= Len(c) /\ \A i \in 1..Len(evs[r]) : c[i] = evs[r][i]
  <2>1. "canceled" \in EventKinds
    BY DEF EventKinds
  <2> QED BY <1>0, <2>1, AppendFacts
<1>2. /\ u \in Seq(EventKinds) /\ u # <<>> /\ u[Len(u)] = "outcome_unknown"
      /\ Len(evs[r]) <= Len(u) /\ \A i \in 1..Len(evs[r]) : u[i] = evs[r][i]
  <2>1. "outcome_unknown" \in EventKinds
    BY DEF EventKinds
  <2> QED BY <1>0, <2>1, AppendFacts
<1>3. \/ /\ Recovered(r) = rec[r] /\ RecoveredEvents(r) = evs[r]
         /\ rec[r] \notin Unfinished
      \/ /\ Recovered(r) = "canceled" /\ RecoveredEvents(r) = c
         /\ ~isCancellationTerminalState(rec[r])
      \/ /\ Recovered(r) = "outcome_unknown" /\ RecoveredEvents(r) = u
         /\ ~isCancellationTerminalState(rec[r])
  <2>1. CASE rec[r] = "none"
    BY <1>0, <2>1 DEF Recovered, RecoveredEvents, RecordOK, Unfinished
  <2>2. CASE isCancellationTerminalState(rec[r])
    BY <1>0, <2>2
    DEF Recovered, RecoveredEvents, CanceledEvents, Unfinished,
        isCancellationTerminalState
  <2>3. CASE rec[r] # "none" /\ ~isCancellationTerminalState(rec[r]) /\ tomb[r]
    BY <2>3 DEF Recovered, RecoveredEvents, CanceledEvents
  <2>4. CASE rec[r] # "none" /\ ~isCancellationTerminalState(rec[r]) /\ ~tomb[r]
    BY <2>4 DEF Recovered, RecoveredEvents, Unfinished
  <2> QED BY <1>0, <2>1, <2>2, <2>3, <2>4
<1> HIDE DEF c, u
<1>4. {"canceled", "outcome_unknown"} \subseteq RecordStates
  BY DEF RecordStates
<1>5. CASE Recovered(r) = rec[r] /\ RecoveredEvents(r) = evs[r] /\ rec[r] \notin Unfinished
  <2>1. Len(evs[r]) <= Len(evs[r])
    BY <1>0
  <2> QED BY <1>0, <1>5, <2>1 DEF RecordOK
<1>6. CASE Recovered(r) = "canceled" /\ RecoveredEvents(r) = c /\ ~isCancellationTerminalState(rec[r])
  BY <1>1, <1>4, <1>6 DEF Unfinished
<1>7. CASE Recovered(r) = "outcome_unknown" /\ RecoveredEvents(r) = u /\ ~isCancellationTerminalState(rec[r])
  BY <1>2, <1>4, <1>7 DEF Unfinished
<1> QED BY <1>3, <1>5, <1>6, <1>7

\* The connection's steps.
LEMMA ConnectionInv ==
  ASSUME BridgeInv, Disconnect \/ BridgeCrash \/ Connect
  PROVE  BridgeInv'
<1>0. InboxTypes /\ \A r \in Runs : PlaceOK(r) /\ ConnectedOK(r)
  BY DEF BridgeInv
<1>1. CASE Disconnect
  <2>1. InboxTypes'
    BY <1>0, <1>1 DEF Disconnect, LostContexts, InboxTypes
  <2>2. \A r \in Runs : RecordOK(r)'
    BY <1>1, RecordStands DEF Disconnect
  <2>3. \A r \in Runs : PlaceOK(r)' /\ ConnectedOK(r)'
    BY <1>0, <1>1
    DEF Disconnect, LostContexts, isActive, InboxTypes, PlaceOK, ConnectedOK
  <2> QED BY <2>1, <2>2, <2>3 DEF BridgeInv
<1>2. CASE BridgeCrash
  <2>1. InboxTypes'
    BY <1>0, <1>2 DEF BridgeCrash, InboxTypes, Places
  <2>2. \A r \in Runs : RecordOK(r)'
    BY <1>2, RecordStands DEF BridgeCrash
  <2>3. \A r \in Runs : PlaceOK(r)' /\ ConnectedOK(r)'
    BY <1>0, <1>2 DEF BridgeCrash, InboxTypes, PlaceOK, ConnectedOK
  <2> QED BY <2>1, <2>2, <2>3 DEF BridgeInv
<1>3. CASE Connect
  <2>1. /\ rec' = [r \in Runs |-> Recovered(r)]
        /\ evs' = [r \in Runs |-> RecoveredEvents(r)]
        /\ \A r \in Runs : pc[r] = "idle"
        /\ UNCHANGED <<pc, ctx, fresh, reader, started>>
        /\ link' = "up"
    BY <1>3 DEF Connect, isActive
  <2>2. /\ rec' \in [Runs -> RecordStates]
        /\ evs' \in [Runs -> Seq(EventKinds)]
        /\ \A r \in Runs : RecordOK(r)'
    BY <2>1, RecoveredRecord DEF RecordOK
  <2>3. InboxTypes'
    BY <1>0, <1>3, <2>1, <2>2 DEF Connect, InboxTypes
  <2>4. ASSUME NEW r \in Runs PROVE PlaceOK(r)' /\ ConnectedOK(r)'
    <3>1. /\ rec'[r] \notin Unfinished
          /\ rec'[r] \in {"none", "preparing"} => rec'[r] = rec[r]
      BY <2>1, RecoveredRecord
    <3> QED BY <1>0, <2>1, <3>1 DEF PlaceOK, ConnectedOK
  <2> QED BY <2>2, <2>3, <2>4 DEF BridgeInv
<1> QED BY <1>1, <1>2, <1>3

\* BridgeInv is an inductive invariant of the Bridge.
LEMMA BridgeInductive == BridgeSpec => []BridgeInv
<1>1. BridgeInit => BridgeInv
  BY BridgeInitInv
<1>2. BridgeInv /\ [BridgeNext]_bridgeVars => BridgeInv'
  <2>1. ASSUME BridgeInv, BridgeNext PROVE BridgeInv'
    BY <2>1, ReaderInv, QuietWorkerInv, EventWorkerInv, ConnectionInv
    DEF BridgeNext, LocalStep, SendStep
  <2> QED BY <2>1, BridgeStutterInv
<1> QED BY <1>1, <1>2, PTL DEF BridgeSpec

-----------------------------------------------------------------------------
\* The inbox record's state always agrees with its stored events.
THEOREM BridgeTypes == BridgeSpec => []BridgeTypeOK
<1>1. BridgeInv => BridgeTypeOK
  BY DEF BridgeInv, InboxTypes, RecordOK, BridgeTypeOK
<1> QED BY <1>1, BridgeInductive, PTL

\* No Run's Runtime is ever started twice, whatever Central sends and whenever
\* the connection or the process is lost.
THEOREM BridgeAtMostOnce == BridgeSpec => []AtMostOnceStart
<1>1. BridgeInv => AtMostOnceStart
  BY DEF BridgeInv, PlaceOK, AtMostOnceStart
<1> QED BY <1>1, BridgeInductive, PTL

\* A connected Bridge leaves no record unfinished without a worker.
THEOREM BridgeNothingLeft == BridgeSpec => []NothingLeftUnfinished
<1>1. BridgeInv => NothingLeftUnfinished
  BY DEF BridgeInv, ConnectedOK, NothingLeftUnfinished, isActive, Unfinished
<1> QED BY <1>1, BridgeInductive, PTL

\* What a step may do to a record: nothing, a new state without an event for
\* a record that is not settled, or one more event for such a record.
Grows(r) ==
  /\ Len(evs[r]) <= Len(evs'[r])
  /\ \A i \in 1..Len(evs[r]) : evs'[r][i] = evs[r][i]
  /\ isCancellationTerminalState(rec[r]) =>
       rec'[r] = rec[r] /\ evs'[r] = evs[r]

LEMMA SameGrows ==
  ASSUME BridgeInv, NEW r \in Runs, evs'[r] = evs[r],
         isCancellationTerminalState(rec[r]) => rec'[r] = rec[r]
  PROVE  Grows(r)
<1>1. Len(evs[r]) \in Nat
  BY DEF BridgeInv, InboxTypes
<1> QED BY <1>1 DEF Grows

LEMMA AppendGrows ==
  ASSUME BridgeInv, NEW q \in Runs, NEW k \in EventKinds, AppendEvent(q, k),
         ~isCancellationTerminalState(rec[q]), NEW r \in Runs
  PROVE  Grows(r)
<1>0. rec \in [Runs -> RecordStates] /\ evs \in [Runs -> Seq(EventKinds)]
  BY DEF BridgeInv, InboxTypes
<1>1. CASE r = q
  <2>1. evs'[q] = Append(evs[q], k)
    BY <1>0 DEF AppendEvent
  <2>2. /\ Len(evs[q]) <= Len(Append(evs[q], k))
        /\ \A i \in 1..Len(evs[q]) : Append(evs[q], k)[i] = evs[q][i]
    BY <1>0, AppendFacts
  <2> QED BY <1>1, <2>1, <2>2 DEF Grows
<1>2. CASE r # q
  <2>1. evs'[r] = evs[r] /\ rec'[r] = rec[r]
    BY <1>0, <1>2 DEF AppendEvent
  <2> QED BY <2>1, SameGrows
<1> QED BY <1>1, <1>2

LEMMA StepGrows ==
  ASSUME BridgeInv, BridgeNext, NEW r \in Runs
  PROVE  Grows(r)
<1>0. InboxTypes /\ \A q \in Runs : PlaceOK(q)
  BY DEF BridgeInv
<1>k. {"failed", "canceled", "outcome_unknown"} \subseteq EventKinds
  BY DEF EventKinds
<1>1. CASE UNCHANGED <<rec, evs>>
  BY <1>1, SameGrows
<1>2. ASSUME NEW q \in Runs, Accept(q) \/ Check(q) \/ Prepare(q)
      PROVE  Grows(r)
  <2>1. evs'[r] = evs[r]
    BY <1>2 DEF Accept, Check, Prepare
  <2>2. isCancellationTerminalState(rec[r]) => rec'[r] = rec[r]
    BY <1>0, <1>2
    DEF InboxTypes, Accept, Check, Prepare, PlaceOK, isCancellationTerminalState
  <2> QED BY <2>1, <2>2, SameGrows
<1>3. ASSUME NEW q \in Runs, FailPreparation(q)
      PROVE  Grows(r)
  <2>1. \/ UNCHANGED <<rec, evs>>
        \/ AppendEvent(q, "failed") /\ ~isCancellationTerminalState(rec[q])
    BY <1>3 DEF FailPreparation, isTerminalState
  <2> QED BY <1>1, <1>k, <2>1, AppendGrows
<1>4. ASSUME NEW q \in Runs, CancelBeforeAdmission(q) \/ CancelAfterAcceptance(q)
      PROVE  Grows(r)
  <2>1. \/ UNCHANGED <<rec, evs>>
        \/ AppendEvent(q, "canceled") /\ ~isCancellationTerminalState(rec[q])
    BY <1>0, <1>4, CancelIsAppend DEF CancelBeforeAdmission, CancelAfterAcceptance
  <2> QED BY <1>1, <1>k, <2>1, AppendGrows
<1>5. ASSUME NEW q \in Runs, NEW k \in EventKinds, Emit(q, k)
      PROVE  Grows(r)
  <2>1. AppendEvent(q, k) /\ ~isCancellationTerminalState(rec[q])
    BY <1>5 DEF Emit, RuntimeEmits, isCancellationTerminalState
  <2> QED BY <2>1, AppendGrows
<1>6. ASSUME NEW q \in Runs, emitUnknown(q)
      PROVE  Grows(r)
  <2>1. AppendEvent(q, "outcome_unknown") /\ ~isCancellationTerminalState(rec[q])
    BY <1>0, <1>6
    DEF emitUnknown, PlaceOK, Unfinished, isCancellationTerminalState
  <2> QED BY <1>k, <2>1, AppendGrows
<1>7. CASE Connect
  <2>1. rec'[r] = Recovered(r) /\ evs'[r] = RecoveredEvents(r)
    BY <1>7 DEF Connect
  <2> QED BY <2>1, RecoveredRecord DEF Grows
<1>8. \/ UNCHANGED <<rec, evs>>
      \/ \E q \in Runs :
           \/ Accept(q) \/ Check(q) \/ Prepare(q)
           \/ FailPreparation(q)
           \/ CancelBeforeAdmission(q) \/ CancelAfterAcceptance(q)
           \/ \E k \in EventKinds : Emit(q, k)
           \/ emitUnknown(q)
      \/ Connect
  <2>1. ASSUME NEW q \in Runs,
               RunRequested(q) \/ RunCancelRequested(q) \/ PrepareRetryable(q)
                 \/ Fail(q) \/ SendStep(q)
        PROVE  UNCHANGED <<rec, evs>>
    BY <2>1 DEF RunRequested, RunCancelRequested, FenceCanceledRun,
       ReplayCanceledRun, PrepareRetryable, Fail, SendStep, AnnounceFailure,
       Announce, Report, EmitSend, LastWord
  <2>2. ASSUME NEW q \in Runs,
               Admit(q) \/ Acquire(q) \/ QueueExit(q) \/ ClearCancellation(q)
                 \/ Start(q) \/ EmitFails(q) \/ RuntimeError(q) \/ SendFails(q)
                 \/ Done(q)
        PROVE  UNCHANGED <<rec, evs>>
    BY <2>2 DEF Admit, Acquire, QueueExit, ClearCancellation, Start, EmitFails,
       RuntimeError, SendFails, Done
  <2>3. Disconnect \/ BridgeCrash => UNCHANGED <<rec, evs>>
    BY DEF Disconnect, BridgeCrash
  <2> QED BY <2>1, <2>2, <2>3 DEF BridgeNext, LocalStep
<1> QED BY <1>1, <1>2, <1>3, <1>4, <1>5, <1>6, <1>7, <1>8

\* Stored events are never rewritten, and a settled record never changes.
THEOREM BridgeInbox == BridgeSpec => InboxIsAppendOnly
<1> DEFINE Kept ==
      \A r \in Runs :
        /\ Len(evs[r]) <= Len(evs'[r])
        /\ \A i \in 1..Len(evs[r]) : evs'[r][i] = evs[r][i]
        /\ isCancellationTerminalState(rec[r]) =>
             rec'[r] = rec[r] /\ evs'[r] = evs[r]
<1>1. BridgeInv /\ [BridgeNext]_bridgeVars => [Kept]_bridgeVars
  BY StepGrows DEF Grows
<1> QED BY <1>1, BridgeInductive, PTL DEF BridgeSpec, InboxIsAppendOnly
=============================================================================
