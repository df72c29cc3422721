-------------------------- MODULE RunDelivery_proof ---------------------------
(***************************************************************************)
(* Proofs about RunDelivery, for any finite set of Runs and any number of  *)
(* connections: the two histories of a Run agree, and its delivery is what *)
(* ManagedRun promises.  What is known of the two sides alone is taken     *)
(* from CentralRuns_proof and BridgeRuns_proof; here is what relates them: *)
(* what a frame in flight still says of the inbox, and what a              *)
(* cancellation in flight says of the Run's row.                           *)
(***************************************************************************)
EXTENDS RunDelivery, CentralRuns_proof, BridgeRuns_proof, FiniteSetTheorems

-----------------------------------------------------------------------------
(* Sequences. *)

LEMMA SeqGrows ==
  ASSUME NEW S, NEW T, S \subseteq T, NEW s \in Seq(S)
  PROVE  s \in Seq(T)
<1>1. Len(s) \in Nat /\ DOMAIN s = 1..Len(s) /\ s = [i \in 1..Len(s) |-> s[i]]
  OBVIOUS
<1>2. \A i \in 1..Len(s) : s[i] \in T
  OBVIOUS
<1> QED BY <1>1, <1>2

\* SetToSeq lists a finite set.
LEMMA SetToSeqFacts ==
  ASSUME NEW S, IsFiniteSet(S)
  PROVE  /\ Cardinality(S) \in Nat
         /\ SetToSeq(S) \in [1..Cardinality(S) -> S]
         /\ SetToSeq(S) \in Seq(S)
         /\ Len(SetToSeq(S)) = Cardinality(S)
<1> DEFINE n == Cardinality(S)
<1>1. n \in Nat /\ ExistsBijection(1..n, S)
  BY FS_CardinalityType
<1>2. \E f \in [1..n -> S] : IsInjective(f)
  BY <1>1 DEF ExistsBijection, Bijection, Injection
<1>3. SetToSeq(S) \in [1..n -> S]
  BY <1>2 DEF SetToSeq
<1>4. SetToSeq(S) \in Seq(S) /\ Len(SetToSeq(S)) = n
  BY <1>1, <1>3
<1> QED BY <1>1, <1>3, <1>4

\* A set of numbers has a least one.
LEMMA LeastNumber ==
  ASSUME NEW T, T \subseteq Nat, T # {}
  PROVE  \E m \in T : \A k \in Nat : k < m => k \notin T
<1>1. PICK m \in T : \A k \in T : ~(<<k, m>> \in OpToRel(<, Nat))
  BY NatLessThanWellFounded, WFMin
<1> QED BY <1>1 DEF OpToRel

\* What FlattenSeq computes, up to the m-th sequence.
Flattened(ss, m, g) ==
  \A i \in 1..m : g[i] = IF i = 1 THEN ss[i] ELSE g[i - 1] \o ss[i]

LEMMA FlattenedExists ==
  ASSUME NEW S, NEW n \in Nat, NEW ss \in [1..n -> Seq(S)], NEW k \in 0..n
  PROVE  \E g \in [1..k -> Seq(S)] : Flattened(ss, k, g)
<1> DEFINE Has(j) == \E g \in [1..j -> Seq(S)] : Flattened(ss, j, g)
           Without == {j \in 0..n : ~Has(j)}
<1>1. SUFFICES ASSUME Without # {} PROVE FALSE
  OBVIOUS
<1>2. PICK m \in Without : \A j \in Nat : j < m => j \notin Without
  <2>1. Without \subseteq Nat
    OBVIOUS
  <2> HIDE DEF Without
  <2> QED BY <1>1, <2>1, LeastNumber
<1>3. m \in 0..n /\ ~Has(m)
  BY <1>2
<1>4. Has(0)
  <2> DEFINE g == [i \in 1..0 |-> ss[i]]
  <2>1. g \in [1..0 -> Seq(S)] /\ Flattened(ss, 0, g)
    BY DEF Flattened
  <2> QED BY <2>1
<1>5. m # 0 /\ m \in 1..n /\ m - 1 \in Nat
  <2> HIDE DEF Has
  <2>1. m # 0
    BY <1>3, <1>4, Zenon
  <2> QED BY <1>3, <2>1
<1>6. Has(m - 1)
  BY <1>2, <1>5
<1>7. PICK g \in [1..(m - 1) -> Seq(S)] : Flattened(ss, m - 1, g)
  BY <1>6
<1> DEFINE last == IF m = 1 THEN ss[m] ELSE g[m - 1] \o ss[m]
           h == [i \in 1..m |-> IF i < m THEN g[i] ELSE last]
<1>8. last \in Seq(S)
  <2>1. ss[m] \in Seq(S)
    BY <1>5
  <2>2. m # 1 => g[m - 1] \in Seq(S)
    BY <1>5
  <2> QED BY <2>1, <2>2
<1>9. h \in [1..m -> Seq(S)]
  <2> HIDE DEF last
  <2>1. \A i \in 1..m : i < m => i \in 1..(m - 1)
    BY <1>5
  <2> QED BY <1>8, <2>1
<1>10. Flattened(ss, m, h)
  <2>1. ASSUME NEW i \in 1..m PROVE h[i] = IF i = 1 THEN ss[i] ELSE h[i - 1] \o ss[i]
    <3>1. CASE i < m
      <4>1. i \in 1..(m - 1) /\ h[i] = g[i] /\ (i # 1 => h[i - 1] = g[i - 1])
        BY <1>5, <3>1
      <4> QED BY <1>7, <4>1 DEF Flattened
    <3>2. CASE i = m
      <4>1. h[m] = last /\ (m # 1 => h[m - 1] = g[m - 1])
        BY <1>5
      <4> QED BY <3>2, <4>1
    <3> QED BY <1>5, <3>1, <3>2
  <2> QED BY <2>1 DEF Flattened
<1> QED BY <1>3, <1>9, <1>10

\* FlattenSeq of sequences over S is a sequence over S.
LEMMA FlattenType ==
  ASSUME NEW S, NEW n \in Nat, NEW ss \in [1..n -> Seq(S)]
  PROVE  FlattenSeq(ss) \in Seq(S)
<1>1. Len(ss) = n /\ ss \in Seq(Seq(S))
  OBVIOUS
<1>2. CASE n = 0
  BY <1>1, <1>2 DEF FlattenSeq
<1>3. CASE n > 0
  <2> DEFINE IsFlat(f) == f = [i \in 1..n |-> IF i = 1 THEN ss[i] ELSE f[i - 1] \o ss[i]]
             f0 == CHOOSE f : IsFlat(f)
             g0(g) == [i \in 1..n |-> IF i = 1 THEN ss[i] ELSE g[i - 1] \o ss[i]]
  <2>1. PICK g \in [1..n -> Seq(S)] : Flattened(ss, n, g)
    <3>1. n \in 0..n
      OBVIOUS
    <3> QED BY <3>1, FlattenedExists, Zenon
  <2>2. IsFlat(g)
    <3>1. \A i \in 1..n : g[i] = g0(g)[i]
      BY <2>1 DEF Flattened
    <3>2. g = g0(g)
      BY <3>1
    <3> QED BY <3>2
  <2>3. IsFlat(f0)
    BY <2>2
  <2>4. FlattenSeq(ss) = f0[n]
    BY <1>1, <1>3 DEF FlattenSeq
  <2> HIDE DEF f0
  <2>5. \A i \in 1..n : f0[i] = IF i = 1 THEN ss[i] ELSE f0[i - 1] \o ss[i]
    BY <2>3
  <2> DEFINE Bad == {i \in 1..n : f0[i] \notin Seq(S)}
  <2>6. Bad = {}
    <3> SUFFICES ASSUME Bad # {} PROVE FALSE
      OBVIOUS
    <3>1. PICK i \in Bad : \A k \in Nat : k < i => k \notin Bad
      <4>1. Bad \subseteq Nat
        OBVIOUS
      <4> HIDE DEF Bad
      <4> QED BY <4>1, LeastNumber
    <3>2. i \in 1..n /\ f0[i] \notin Seq(S)
      BY <3>1
    <3>3. i # 1 => f0[i - 1] \in Seq(S)
      BY <3>1, <3>2
    <3>4. ss[i] \in Seq(S)
      BY <3>2
    <3>5. i # 1 => f0[i - 1] \o ss[i] \in Seq(S)
      BY <3>3, <3>4
    <3> QED BY <2>5, <3>2, <3>4, <3>5
  <2>7. \A i \in 1..n : f0[i] \in Seq(S)
    BY <2>6
  <2> QED BY <1>3, <2>4, <2>7
<1> QED BY <1>2, <1>3
-----------------------------------------------------------------------------
(***************************************************************************)
(* The Bridge alone: what a step does to one record.                       *)
(***************************************************************************)
Keeps(r) == rec'[r] = rec[r] /\ evs'[r] = evs[r]

\* A record is made by the worker that accepts, and prepared.
Moves(r) ==
  /\ rec[r] \in {"none", "preparing", "accepted"}
  /\ rec'[r] \in {"preparing", "accepted"}
  /\ evs'[r] = evs[r]
  /\ rec[r] = "none" => pc[r] = "accept"

\* A record that is not settled gets the event k.
Gets(r, k) ==
  /\ evs'[r] = Append(evs[r], k)
  /\ rec'[r] = (IF k = "output" THEN rec[r] ELSE k)
  /\ rec[r] # "none" /\ ~isCancellationTerminalState(rec[r])
  /\ rec[r] = "input_required" => k = "canceled"
  /\ k = "output" => rec[r] = "working"
  /\ k \in {"completed", "input_required"} => started[r] > 0

InboxStep(r) ==
  /\ Keeps(r) \/ Moves(r) \/ \E k \in EventKinds : Gets(r, k)
  /\ \/ started'[r] = started[r]
     \/ Keeps(r) /\ rec[r] = "accepted" /\ started[r] = 0 /\ started'[r] = 1

\* Where the worker of a Run without a record is, and that of a Runtime.
WorkerOK(r) ==
  /\ rec[r] = "none" =>
       pc[r] \in {"idle", "accept", "report", "clear", "done", "error"}
  /\ pc[r] \in {"running", "emitting"} => started[r] > 0

InboxInv == BridgeInv /\ \A r \in Runs : WorkerOK(r)

\* A worker that stands still, with its record.
LEMMA OtherWorker ==
  ASSUME InboxInv, NEW r \in Runs, pc'[r] = pc[r], rec'[r] = rec[r],
         evs'[r] = evs[r], started'[r] = started[r]
  PROVE  InboxStep(r) /\ WorkerOK(r)'
BY DEF InboxInv, InboxStep, Keeps, WorkerOK

\* The steps that write no record.
LEMMA IdleInbox ==
  ASSUME InboxInv, NEW q \in Runs,
         \/ RunRequested(q) \/ RunCancelRequested(q) \/ PrepareRetryable(q)
         \/ Fail(q) \/ SendStep(q) \/ Admit(q) \/ Acquire(q) \/ QueueExit(q)
         \/ ClearCancellation(q) \/ EmitFails(q) \/ RuntimeError(q)
         \/ SendFails(q) \/ Done(q)
  PROVE  \A r \in Runs : InboxStep(r) /\ WorkerOK(r)'
<1>0. /\ pc \in [Runs -> Places] /\ rec \in [Runs -> RecordStates]
      /\ \A r \in Runs : WorkerOK(r) /\ PlaceOK(r)
  BY DEF InboxInv, BridgeInv, InboxTypes
<1>1. UNCHANGED <<rec, evs, started>>
  <2>1. CASE RunRequested(q) \/ RunCancelRequested(q)
    BY <2>1 DEF RunRequested, RunCancelRequested, FenceCanceledRun, ReplayCanceledRun
  <2>2. CASE PrepareRetryable(q) \/ Fail(q) \/ SendStep(q)
    BY <2>2 DEF PrepareRetryable, Fail, SendStep, AnnounceFailure, Announce, Report,
                EmitSend, LastWord
  <2>3. CASE \/ Admit(q) \/ Acquire(q) \/ QueueExit(q) \/ ClearCancellation(q)
             \/ EmitFails(q) \/ RuntimeError(q) \/ SendFails(q) \/ Done(q)
    BY <2>3 DEF Admit, Acquire, QueueExit, ClearCancellation, EmitFails,
                RuntimeError, SendFails, Done
  <2> QED BY <2>1, <2>2, <2>3
<1>2. \A r \in Runs : InboxStep(r)
  BY <1>1 DEF InboxStep, Keeps
<1>3. \/ UNCHANGED pc
      \/ \E p \in Places :
           /\ pc' = [pc EXCEPT ![q] = p]
           /\ rec[q] = "none" =>
                p \in {"idle", "accept", "report", "clear", "done", "error"}
           /\ p \in {"running", "emitting"} => started[q] > 0
  <2>1. CASE RunRequested(q) \/ RunCancelRequested(q)
    BY <2>1 DEF RunRequested, RunCancelRequested, FenceCanceledRun,
                ReplayCanceledRun, Goto, Places
  <2>2. CASE PrepareRetryable(q) \/ Fail(q) \/ Done(q) \/ ClearCancellation(q)
    BY <1>0, <2>2 DEF PrepareRetryable, Fail, Done, ClearCancellation, Goto, Places,
                      PlaceOK, WorkerOK
  <2>3. CASE SendStep(q)
    BY <1>0, <2>3 DEF SendStep, AnnounceFailure, Announce, Report, EmitSend, LastWord,
                      Goto, Places, PlaceOK, WorkerOK
  <2>4. CASE Admit(q) \/ Acquire(q) \/ QueueExit(q)
    BY <1>0, <2>4 DEF Admit, Acquire, QueueExit, Goto, Places, PlaceOK
  <2>5. CASE EmitFails(q) \/ RuntimeError(q) \/ SendFails(q)
    BY <1>0, <2>5 DEF EmitFails, RuntimeError, SendFails, Goto, Places, PlaceOK,
                      WorkerOK, Unfinished
  <2> QED BY <2>1, <2>2, <2>3, <2>4, <2>5
<1>4. \A r \in Runs : WorkerOK(r)'
  BY <1>0, <1>1, <1>3 DEF WorkerOK
<1> QED BY <1>2, <1>4

\* The steps up to the preparation, and the start.
LEMMA PreparingInbox ==
  ASSUME InboxInv, NEW q \in Runs, Accept(q) \/ Check(q) \/ Prepare(q) \/ Start(q)
  PROVE  \A r \in Runs : InboxStep(r) /\ WorkerOK(r)'
<1>0. /\ InboxTypes
      /\ \A r \in Runs : WorkerOK(r) /\ PlaceOK(r)
  BY DEF InboxInv, BridgeInv
<1>1. ASSUME NEW r \in Runs, r # q
      PROVE  InboxStep(r) /\ WorkerOK(r)'
  <2>1. /\ pc'[r] = pc[r] /\ rec'[r] = rec[r]
        /\ evs'[r] = evs[r] /\ started'[r] = started[r]
    BY <1>0, <1>1 DEF InboxTypes, Accept, Check, Prepare, Start, Goto
  <2> QED BY <2>1, OtherWorker
<1>2. InboxStep(q)
  <2>1. CASE Accept(q)
    BY <1>0, <2>1 DEF InboxTypes, Accept, InboxStep, Keeps, Moves
  <2>2. CASE Check(q)
    BY <1>0, <2>2 DEF InboxTypes, Check, PlaceOK, InboxStep, Keeps, Moves
  <2>3. CASE Prepare(q)
    BY <1>0, <2>3 DEF InboxTypes, Prepare, InboxStep, Keeps, Moves
  <2>4. CASE Start(q)
    BY <1>0, <2>4 DEF InboxTypes, Start, PlaceOK, InboxStep, Keeps
  <2> QED BY <2>1, <2>2, <2>3, <2>4
<1>3. WorkerOK(q)'
  BY <1>0 DEF InboxTypes, Accept, Check, Prepare, Start, Goto, PlaceOK, WorkerOK
<1> QED BY <1>1, <1>2, <1>3

\* An event is appended to a record that may take it.
LEMMA AppendedInbox ==
  ASSUME InboxInv, NEW q \in Runs, NEW k \in EventKinds, AppendEvent(q, k),
         UNCHANGED started,
         rec[q] # "none" /\ ~isCancellationTerminalState(rec[q]),
         rec[q] = "input_required" => k = "canceled",
         k = "output" => rec[q] = "working",
         k \in {"completed", "input_required"} => started[q] > 0
  PROVE  \A r \in Runs : InboxStep(r) /\ rec'[q] # "none"
<1>0. InboxTypes
  BY DEF InboxInv, BridgeInv
<1>1. Gets(q, k)
  BY <1>0 DEF InboxTypes, AppendEvent, Gets
<1>2. ASSUME NEW r \in Runs, r # q PROVE Keeps(r)
  BY <1>0, <1>2 DEF InboxTypes, AppendEvent, Keeps
<1>3. rec'[q] # "none"
  BY <1>0 DEF InboxTypes, AppendEvent, EventKinds
<1> QED BY <1>1, <1>2, <1>3 DEF InboxStep

\* The steps that append an event.
LEMMA AppendingInbox ==
  ASSUME InboxInv, NEW q \in Runs,
         \/ FailPreparation(q) \/ CancelBeforeAdmission(q)
         \/ CancelAfterAcceptance(q) \/ emitUnknown(q)
         \/ \E k \in EventKinds : Emit(q, k)
  PROVE  \A r \in Runs : InboxStep(r) /\ WorkerOK(r)'
<1>0. /\ InboxTypes
      /\ \A r \in Runs : WorkerOK(r) /\ PlaceOK(r)
  BY DEF InboxInv, BridgeInv
<1>k. {"failed", "canceled", "outcome_unknown"} \subseteq EventKinds
  BY DEF EventKinds
<1>s. UNCHANGED started
  BY DEF FailPreparation, CancelBeforeAdmission, CancelAfterAcceptance, emitUnknown,
         Emit
<1>1. rec[q] # "none"
  BY <1>0 DEF WorkerOK, PlaceOK, FailPreparation, CancelBeforeAdmission,
              CancelAfterAcceptance, emitUnknown, Emit, RuntimeEmits
<1>2. /\ \A r \in Runs : InboxStep(r)
      /\ rec'[q] # "none"
  <2>1. CASE UNCHANGED <<rec, evs>>
    BY <1>1, <1>s, <2>1 DEF InboxStep, Keeps
  <2>2. CASE FailPreparation(q) /\ ~UNCHANGED <<rec, evs>>
    <3>1. AppendEvent(q, "failed") /\ ~isTerminalState(rec[q])
      BY <2>2 DEF FailPreparation
    <3> QED BY <1>1, <1>k, <1>s, <3>1, AppendedInbox DEF isTerminalState
  <2>3. CASE /\ CancelBeforeAdmission(q) \/ CancelAfterAcceptance(q)
             /\ ~UNCHANGED <<rec, evs>>
    <3>1. AppendEvent(q, "canceled") /\ ~isCancellationTerminalState(rec[q])
      BY <1>0, <2>3, CancelIsAppend DEF CancelBeforeAdmission, CancelAfterAcceptance
    <3> QED BY <1>1, <1>k, <1>s, <3>1, AppendedInbox
  <2>4. CASE emitUnknown(q)
    <3>1. AppendEvent(q, "outcome_unknown") /\ rec[q] \in Unfinished
      BY <1>0, <2>4 DEF emitUnknown, PlaceOK
    <3>2. ~isCancellationTerminalState(rec[q]) /\ rec[q] # "input_required"
      BY <3>1 DEF Unfinished, isCancellationTerminalState
    <3> QED BY <1>1, <1>k, <1>s, <3>1, <3>2, AppendedInbox
  <2>5. ASSUME NEW k \in EventKinds, Emit(q, k)
        PROVE  (\A r \in Runs : InboxStep(r)) /\ rec'[q] # "none"
    <3>1. /\ AppendEvent(q, k) /\ rec[q] \in Unfinished /\ started[q] > 0
          /\ k = "output" => rec[q] = "working"
      BY <1>0, <2>5 DEF Emit, RuntimeEmits, WorkerOK, Unfinished
    <3>2. ~isCancellationTerminalState(rec[q]) /\ rec[q] # "input_required"
      BY <3>1 DEF Unfinished, isCancellationTerminalState
    <3> QED BY <1>1, <1>s, <3>1, <3>2, AppendedInbox
  <2> QED BY <2>1, <2>2, <2>3, <2>4, <2>5
<1>3. ASSUME NEW r \in Runs, r # q PROVE WorkerOK(r)'
  <2>1. pc'[r] = pc[r] /\ rec'[r] = rec[r] /\ started'[r] = started[r]
    BY <1>0, <1>3 DEF InboxTypes, FailPreparation, CancelBeforeAdmission,
       CancelAfterAcceptance, emitUnknown, Emit, AppendEvent, CancelQueued, Goto
  <2> QED BY <1>0, <2>1 DEF WorkerOK
<1>4. WorkerOK(q)'
  <2>1. pc'[q] \in {"announceFailure", "report", "lastWord", "emitting"}
    BY <1>0 DEF InboxTypes, FailPreparation, CancelBeforeAdmission,
       CancelAfterAcceptance, emitUnknown, Emit, Goto
  <2>2. pc'[q] = "emitting" => started'[q] > 0
    BY <1>0, <1>s DEF InboxTypes, FailPreparation, CancelBeforeAdmission,
       CancelAfterAcceptance, emitUnknown, Emit, Goto, WorkerOK
  <2> QED BY <1>2, <2>1, <2>2 DEF WorkerOK
<1> QED BY <1>2, <1>3, <1>4

\* The connection's steps.
LEMMA ConnectionInbox ==
  ASSUME InboxInv, Disconnect \/ BridgeCrash \/ Connect
  PROVE  \A r \in Runs : InboxStep(r) /\ WorkerOK(r)'
<1>0. /\ InboxTypes
      /\ \A r \in Runs : WorkerOK(r) /\ PlaceOK(r) /\ RecordOK(r)
  BY DEF InboxInv, BridgeInv
<1> SUFFICES ASSUME NEW r \in Runs PROVE InboxStep(r) /\ WorkerOK(r)'
  OBVIOUS
<1>1. CASE Disconnect \/ BridgeCrash
  <2>1. /\ UNCHANGED <<rec, evs, started>>
        /\ pc'[r] \in {pc[r], "idle"}
    BY <1>1 DEF Disconnect, BridgeCrash
  <2> QED BY <1>0, <2>1 DEF InboxStep, Keeps, WorkerOK
<1>2. CASE Connect
  <2>1. /\ rec'[r] = Recovered(r) /\ evs'[r] = RecoveredEvents(r)
        /\ pc'[r] = "idle"
        /\ UNCHANGED started
    BY <1>2 DEF Connect, isActive
  <2>2. Keeps(r) \/ Gets(r, "canceled") \/ Gets(r, "outcome_unknown")
    <3>1. CASE rec[r] = "none"
      BY <1>0, <2>1, <3>1 DEF Recovered, RecoveredEvents, RecordOK, Keeps
    <3>2. CASE isCancellationTerminalState(rec[r])
      BY <2>1, <3>2 DEF Recovered, RecoveredEvents, CanceledEvents, Keeps,
                        isCancellationTerminalState
    <3>3. CASE rec[r] # "none" /\ ~isCancellationTerminalState(rec[r])
      BY <2>1, <3>3 DEF Recovered, RecoveredEvents, CanceledEvents, Keeps, Gets
    <3> QED BY <3>1, <3>2, <3>3
  <2>3. {"canceled", "outcome_unknown"} \subseteq EventKinds
    BY DEF EventKinds
  <2> QED BY <2>1, <2>2, <2>3 DEF InboxStep, WorkerOK
<1> QED BY <1>1, <1>2

\* Every step of the Bridge.
LEMMA InboxShape ==
  ASSUME InboxInv, BridgeNext
  PROVE  InboxInv' /\ \A r \in Runs : InboxStep(r)
<1>1. BridgeInv'
  BY ReaderInv, QuietWorkerInv, EventWorkerInv, ConnectionInv
  DEF InboxInv, BridgeNext, LocalStep, SendStep
<1>2. \A r \in Runs : InboxStep(r) /\ WorkerOK(r)'
  BY IdleInbox, PreparingInbox, AppendingInbox, ConnectionInbox
  DEF BridgeNext, LocalStep
<1> QED BY <1>1, <1>2 DEF InboxInv

-----------------------------------------------------------------------------
(***************************************************************************)
(* Central alone: who ends a Run, and how.                                 *)
(***************************************************************************)
Rests(r) == state'[r] = state[r] /\ log'[r] = log[r]

\* What Central may say of a Run on its own.
Verdict(r, e) ==
  /\ e.by = "central"
  /\ \/ e.kind \in {"expired", "failed", "outcome_unknown"}
     \/ e.kind = "canceled" /\ CancelsDirectly(r) /\ delivery'[r] = delivery[r]

Judged(r) ==
  Rests(r) \/ Born(r) \/ \E e \in Entries : Takes(r, e) /\ Verdict(r, e)

\* What a frame says of a Run.
Heard(r, f) ==
  /\ f.run = r /\ f.seq = Len(log[r]) + 1
  /\ Takes(r, [kind |-> f.kind, by |-> "bridge"])

LEMMA GiveUpVerdict ==
  ASSUME RowTypes, NEW S,
         NEW kind \in [Runs -> {"expired", "failed", "outcome_unknown"}],
         applyRuntimeEvent(S, kind, "central")
  PROVE  \A r \in Runs : Judged(r)
<1>1. kind \in [Runs -> Kinds]
  BY DEF Kinds, bridgeKinds
<1>2. ASSUME NEW r \in Runs PROVE Judged(r)
  <2> DEFINE e == [kind |-> kind[r], by |-> "central"]
  <2>1. e \in Entries /\ Verdict(r, e)
    BY <1>1 DEF Entries, Verdict
  <2>2. Rests(r) \/ Takes(r, e)
    BY <1>1, ApplyShape DEF Rests
  <2> QED BY <2>1, <2>2 DEF Judged
<1> QED BY <1>2

LEMMA SettleVerdict ==
  ASSUME RowTypes, NEW S, NEW k \in {"expired", "failed", "outcome_unknown"},
         Settle(S, k)
  PROVE  \A r \in Runs : Judged(r)
<1> DEFINE kind == [r \in Runs |-> k]
<1>1. kind \in [Runs -> {"expired", "failed", "outcome_unknown"}]
  OBVIOUS
<1>2. applyRuntimeEvent(S, kind, "central")
  BY DEF Settle
<1> HIDE DEF kind
<1> QED BY <1>1, <1>2, GiveUpVerdict

\* A step of Central that no frame causes.
OwnStep ==
  \/ \E r \in Runs :
       \/ createRuns(r) \/ acknowledgeAmbiguity(r) \/ ReconcileClarification(r)
       \/ dispatch(r) \/ requestCancellation(r)
       \/ DeadlinePasses(r) \/ AckDeadlinePasses(r)
       \/ \E p \in Runs : createRetry(r, p) \/ AnswerClarification(r, p)
  \/ expireQueued \/ Contact \/ sweep \/ revoke \/ CrashInRevoke \/ Crash \/ Restart
  \/ \E f \in AnyFrames : CrashInAccept(f)

LEMMA OwnStepJudges ==
  ASSUME CentralInv, OwnStep
  PROVE  \A r \in Runs : Judged(r)
<1>0. RowTypes
  BY DEF CentralInv, CentralTypeOK, RowTypes
<1>1. ASSUME NEW q \in Runs,
             \/ createRuns(q) \/ acknowledgeAmbiguity(q)
             \/ DeadlinePasses(q) \/ AckDeadlinePasses(q)
             \/ \E p \in Runs : createRetry(q, p)
      PROVE  \A r \in Runs : Judged(r)
  BY <1>0, <1>1 DEF RowTypes, createRuns, acknowledgeAmbiguity, DeadlinePasses,
     AckDeadlinePasses, createRetry, insertRunIdentity, Judged, Rests, Born
<1>2. ASSUME NEW q \in Runs, ReconcileClarification(q)
      PROVE  \A r \in Runs : Judged(r)
  BY <1>0, <1>2, SettleVerdict DEF ReconcileClarification
<1>3. ASSUME NEW q \in Runs, dispatch(q)
      PROVE  \A r \in Runs : Judged(r)
  <2>1. CASE Settle(Overdue, "expired")
    BY <1>0, <2>1, SettleVerdict
  <2>2. CASE UNCHANGED <<state, log, intent>>
    BY <2>2 DEF Judged, Rests
  <2> QED BY <1>3, <2>1, <2>2 DEF dispatch
<1>4. ASSUME NEW q \in Runs, requestCancellation(q)
      PROVE  \A r \in Runs : Judged(r)
  <2>1. CASE CancelsDirectly(q) /\ Settle({q}, "canceled")
    <3> DEFINE kind == [r \in Runs |-> "canceled"]
               e == [kind |-> "canceled", by |-> "central"]
    <3>1. kind \in [Runs -> Kinds] /\ e \in Entries
      BY DEF Kinds, bridgeKinds, Entries
    <3>2. applyRuntimeEvent({q}, kind, "central")
      BY <2>1 DEF Settle
    <3>3. \A r \in Runs : kind[r] = "canceled"
      OBVIOUS
    <3> HIDE DEF kind
    <3>4. \A r \in Runs : Rests(r) \/ (r = q /\ Takes(r, e))
      <4>1. \A r \in Runs : \/ Rests(r)
                            \/ /\ r \in {q}
                               /\ Takes(r, [kind |-> kind[r], by |-> "central"])
        BY <1>0, <3>1, <3>2, ApplyShape DEF Rests
      <4>2. \A r \in Runs : [kind |-> kind[r], by |-> "central"] = e
        BY <3>3
      <4> QED BY <4>1, <4>2
    <3>5. UNCHANGED delivery
      BY <1>4 DEF requestCancellation
    <3> QED BY <2>1, <3>1, <3>4, <3>5 DEF Judged, Verdict
  <2>2. CASE UNCHANGED <<state, log>>
    BY <2>2 DEF Judged, Rests
  <2> QED BY <1>4, <2>1, <2>2 DEF requestCancellation
<1>5. ASSUME NEW q \in Runs, NEW p \in Runs, AnswerClarification(q, p)
      PROVE  \A r \in Runs : Judged(r)
  <2> DEFINE e == [kind |-> "outcome_unknown", by |-> "central"]
  <2>1. e \in Entries /\ Verdict(p, e) /\ q # p /\ Active(p) /\ state[q] = "none"
    BY <1>5 DEF Entries, Kinds, bridgeKinds, Verdict, AnswerClarification, Active,
                terminalStates
  <2>2. \A r \in Runs : r # p /\ r # q => Rests(r)
    BY <1>0, <1>5 DEF RowTypes, AnswerClarification, insertRunIdentity, Rests
  <2>3. Born(q)
    BY <1>0, <1>5, <2>1 DEF RowTypes, AnswerClarification, insertRunIdentity, Born
  <2>4. Takes(p, e)
    BY <1>0, <1>5, <2>1
    DEF RowTypes, AnswerClarification, insertRunIdentity, Takes, terminalStates
  <2> QED BY <2>1, <2>2, <2>3, <2>4 DEF Judged
<1>6. ASSUME expireQueued \/ sweep
      PROVE  \A r \in Runs : Judged(r)
  BY <1>0, <1>6, SettleVerdict DEF expireQueued, sweep
<1>7. ASSUME Contact PROVE \A r \in Runs : Judged(r)
  <2> DEFINE kind == [r \in Runs |->
                        IF r \in Late THEN "outcome_unknown" ELSE "expired"]
  <2>1. kind \in [Runs -> {"expired", "failed", "outcome_unknown"}]
    OBVIOUS
  <2>2. PICK S : applyRuntimeEvent(S, kind, "central")
    BY <1>7 DEF Contact
  <2> HIDE DEF kind
  <2> QED BY <1>0, <2>1, <2>2, GiveUpVerdict
<1>8. ASSUME reconcile PROVE \A r \in Runs : Judged(r)
  <2> DEFINE kind == [r \in Runs |->
                 IF AcceptedByBridge(r) THEN "outcome_unknown" ELSE "failed"]
  <2>1. kind \in [Runs -> {"expired", "failed", "outcome_unknown"}]
    OBVIOUS
  <2>2. applyRuntimeEvent(Runs, kind, "central")
    BY <1>8 DEF reconcile
  <2> HIDE DEF kind
  <2> QED BY <1>0, <2>1, <2>2, GiveUpVerdict
<1>9. ASSUME revoke \/ Restart
      PROVE  \A r \in Runs : Judged(r)
  BY <1>0, <1>8, <1>9, SettleVerdict DEF revoke, Restart
<1>10. ASSUME CrashInRevoke \/ Crash \/ \E f \in AnyFrames : CrashInAccept(f)
       PROVE  \A r \in Runs : Judged(r)
  BY <1>10 DEF CrashInRevoke, Crash, CrashInAccept, Judged, Rests
<1> QED
  BY <1>1, <1>2, <1>3, <1>4, <1>5, <1>6, <1>7, <1>9, <1>10 DEF OwnStep

\* A frame gives its own Run one event, in sequence, and leaves the others.
LEMMA FrameIsHeard ==
  ASSUME CentralInv, NEW f \in AnyFrames, HandleFrame(f)
  PROVE  \A r \in Runs : Rests(r) \/ Heard(r, f)
<1>0. RowTypes
  BY DEF CentralInv, CentralTypeOK, RowTypes
<1> DEFINE S == IF Ignored(f) THEN {} ELSE {f.run}
           kind == [r \in Runs |-> f.kind]
<1>1. kind \in [Runs -> Kinds]
  BY DEF AnyFrames, Kinds
<1>2. applyRuntimeEvent(S, kind, "bridge")
  BY DEF HandleFrame
<1>3. \A r \in Runs : kind[r] = f.kind
  OBVIOUS
<1>4. \A r \in Runs : r \in S => r = f.run /\ f.seq = Len(log[r]) + 1
  BY DEF HandleFrame, Rejected
<1> HIDE DEF S, kind
<1>5. \A r \in Runs :
        Rests(r) \/ (r \in S /\ Takes(r, [kind |-> f.kind, by |-> "bridge"]))
  BY <1>0, <1>1, <1>2, <1>3, ApplyShape DEF Rests
<1> QED BY <1>4, <1>5 DEF Heard

\* A Run that is cancelled, or past its queue, is never queued and free again.
Doomed(r) == state[r] \notin {"none", "queued"} \/ intent[r] \in pending

LEMMA DoomStays ==
  ASSUME NEW r \in Runs, Shape(r), Doomed(r)
  PROVE  Doomed(r)'
<1>1. CASE Quiet(r)
  BY <1>1 DEF Quiet, Doomed, pending
<1>2. CASE Born(r)
  BY <1>2 DEF Born, Doomed, pending
<1>3. ASSUME NEW e \in Entries, Takes(r, e) PROVE Doomed(r)'
  <2>1. e.kind \in Kinds
    BY DEF Entries
  <2> QED BY <1>3, <2>1
      DEF Takes, Doomed, pending, Kinds, bridgeKinds, terminalStates
<1> QED BY <1>1, <1>2, <1>3 DEF Shape

-----------------------------------------------------------------------------
(***************************************************************************)
(* What relates the two sides.                                             *)
(***************************************************************************)
Order(kind, r) == [kind |-> kind, run |-> r]

Orders(kind, S) == {Order(kind, r) : r \in S}

DownFrames ==
  Orders("run.requested", Runs) \cup Orders("run.cancel_requested", Runs)

\* A Run the Bridge never had and never will: it has no record and no worker
\* about to make one, Central will not request it again, and no request of it
\* is under way.
Fenced(r) ==
  /\ rec[r] = "none" /\ pc[r] # "accept"
  /\ Doomed(r)
  /\ \A i \in 1..Len(down) : down[i] # Order("run.requested", r)

\* The inbox says that the event of sequence i of the Run is k; or the Bridge
\* has declined the Run for good.
Says(r, i, k) ==
  IF i > 1 THEN i - 1 <= Len(evs[r]) /\ k = evs[r][i - 1]
  ELSE IF k = "delivered" THEN rec[r] # "none"
  ELSE k = "canceled" /\ Fenced(r)

GoodFrames == {f \in AnyFrames : Says(f.run, f.seq, f.kind)}

\* Whatever is on its way to Central, or about to be, repeats the inbox.
UpOK == up \in [Epochs -> Seq(GoodFrames \cup {hello})]

TodoOK == todo \in [Runs -> Seq(GoodFrames)]

\* What is on its way to the Bridge: requests of Runs that have a Delivery,
\* cancellations of Runs that are doomed, and never a request behind a
\* cancellation of the same Run.
DownOK ==
  /\ down \in Seq(DownFrames)
  /\ \A i \in 1..Len(down) :
       IF down[i].kind = "run.requested" THEN delivery[down[i].run] # "none"
       ELSE Doomed(down[i].run)
  /\ \A i, j \in 1..Len(down) :
       (/\ i < j
        /\ down[i].kind = "run.cancel_requested"
        /\ down[j].kind = "run.requested") => down[i].run # down[j].run

\* An end is the last of a record's events, but a question may be cancelled.
EventsOK(r) ==
  \A i \in 1..Len(evs[r]) :
    /\ isCancellationTerminalState(evs[r][i]) =>
         i = Len(evs[r]) /\ rec[r] = evs[r][i]
    /\ evs[r][i] = "input_required" => rec[r] \in {"input_required", "canceled"}

\* Only what was dispatched is accepted.
DispatchedOK(r) == (pc[r] = "accept" \/ rec[r] # "none") => delivery[r] # "none"

\* Central's events that came from the Bridge are those of the inbox.
LogOK(r) ==
  \A i \in 1..Len(log[r]) :
    log[r][i].by = "bridge" => Says(r, i, log[r][i].kind)

\* A Run that waits or is cancelled at Central does so at the Bridge too.
ShownOK(r) ==
  /\ state[r] = "input_required" => rec[r] \in {"input_required", "canceled"}
  /\ state[r] = "canceled" =>
       rec[r] \in {"input_required", "canceled"} \/ Fenced(r)

DeliveryInv ==
  /\ CentralInv
  /\ InboxInv
  /\ UpOK /\ TodoOK /\ DownOK
  /\ \A r \in Runs : EventsOK(r) /\ DispatchedOK(r) /\ LogOK(r) /\ ShownOK(r)

\* The types DeliveryInv implies.
LEMMA Typed ==
  ASSUME DeliveryInv
  PROVE  RowTypes /\ InboxTypes
BY DEF DeliveryInv, CentralInv, CentralTypeOK, RowTypes, InboxInv, BridgeInv

\* What every step of the two sides keeps of a Run.
Kept(r) ==
  /\ Fenced(r) => Fenced(r)'
  /\ rec[r] # "none" => rec'[r] # "none"
  /\ Len(evs[r]) <= Len(evs'[r])
  /\ \A i \in 1..Len(evs[r]) : evs'[r][i] = evs[r][i]

LEMMA WordStays ==
  ASSUME InboxTypes, InboxTypes', NEW r \in Runs, Kept(r),
         NEW i \in Nat \ {0}, NEW k, Says(r, i, k)
  PROVE  Says(r, i, k)'
<1>1. Len(evs[r]) \in Nat /\ Len(evs'[r]) \in Nat
  BY DEF InboxTypes
<1>2. CASE i > 1
  <2>1. i - 1 \in 1..Len(evs[r]) /\ k = evs[r][i - 1]
    BY <1>1, <1>2 DEF Says
  <2>2. i - 1 <= Len(evs'[r]) /\ k = evs'[r][i - 1]
    BY <1>1, <2>1 DEF Kept
  <2> QED BY <1>2, <2>2 DEF Says
<1>3. CASE ~(i > 1)
  BY <1>3 DEF Says, Kept
<1> QED BY <1>2, <1>3

LEMMA FramesStay ==
  ASSUME InboxTypes, InboxTypes', \A r \in Runs : Kept(r)
  PROVE  GoodFrames \subseteq GoodFrames'
<1> SUFFICES ASSUME NEW f \in AnyFrames, Says(f.run, f.seq, f.kind)
             PROVE  Says(f.run, f.seq, f.kind)'
  BY DEF GoodFrames
<1>1. f.run \in Runs /\ f.seq \in Nat \ {0}
  BY DEF AnyFrames
<1> QED BY <1>1, WordStays

LEMMA LogStays ==
  ASSUME DeliveryInv, InboxTypes', NEW r \in Runs, Kept(r), log'[r] = log[r]
  PROVE  LogOK(r)'
<1>1. LogOK(r) /\ Len(log[r]) \in Nat /\ InboxTypes
  BY Typed DEF DeliveryInv, RowTypes
<1> SUFFICES ASSUME NEW i \in 1..Len(log[r]), log[r][i].by = "bridge"
             PROVE  Says(r, i, log[r][i].kind)'
  BY DEF LogOK
<1>2. Says(r, i, log[r][i].kind) /\ i \in Nat \ {0}
  BY <1>1 DEF LogOK
<1> QED BY <1>1, <1>2, WordStays

-----------------------------------------------------------------------------
(***************************************************************************)
(* The steps of Central.                                                   *)
(***************************************************************************)
LEMMA Concatenated ==
  ASSUME NEW S, NEW s \in Seq(S), NEW t \in Seq(S)
  PROVE  /\ s \o t \in Seq(S)
         /\ Len(s) \in Nat /\ Len(t) \in Nat /\ Len(s \o t) = Len(s) + Len(t)
         /\ \A i \in 1..Len(s) : (s \o t)[i] = s[i]
         /\ \A i \in 1..Len(s \o t) : i \notin 1..Len(s) =>
              \E j \in 1..Len(t) : (s \o t)[i] = t[j]
<1>1. /\ s \o t \in Seq(S)
      /\ Len(s) \in Nat /\ Len(t) \in Nat /\ Len(s \o t) = Len(s) + Len(t)
      /\ \A i \in 1..Len(s) : (s \o t)[i] = s[i]
  OBVIOUS
<1>2. ASSUME NEW i \in 1..Len(s \o t), i \notin 1..Len(s)
      PROVE  \E j \in 1..Len(t) : (s \o t)[i] = t[j]
  <2>1. i - Len(s) \in 1..Len(t) /\ (s \o t)[i] = t[i - Len(s)]
    BY <1>1, <1>2
  <2> QED BY <2>1
<1> QED BY <1>1, <1>2

LEMMA OrderFacts ==
  ASSUME NEW kind, NEW r
  PROVE  Order(kind, r).kind = kind /\ Order(kind, r).run = r
BY DEF Order

\* Cancellations of the Runs of C and requests of the Runs of R are sent.
Sends(C, R) ==
  /\ \E fs \in Seq(Orders("run.cancel_requested", C) \cup Orders("run.requested", R)) :
       down' = down \o fs
  /\ C \cap R = {}
  /\ \A r \in C : Doomed(r)'
  /\ \A r \in R : r \in Dispatchable /\ delivery'[r] # "none"

\* A step of Central beside a Bridge that stands still.
CentralSide ==
  /\ CentralStep
  /\ UNCHANGED bridgeVars
  /\ \A r \in Runs : Judged(r) \/ \E f \in GoodFrames : Heard(r, f)
  /\ \E C, R \in SUBSET Runs : Sends(C, R)
  /\ up' \in [Epochs -> Seq(GoodFrames \cup {hello})]

LEMMA SentFrames ==
  ASSUME DeliveryInv, NEW C \in SUBSET Runs, NEW R \in SUBSET Runs, Sends(C, R)
  PROVE  /\ down' \in Seq(DownFrames)
         /\ Len(down) \in Nat /\ Len(down') \in Nat
         /\ \A i \in 1..Len(down) : down'[i] = down[i]
         /\ \A i \in 1..Len(down') : i \notin 1..Len(down) =>
              \/ \E r \in C : down'[i] = Order("run.cancel_requested", r)
              \/ \E r \in R : down'[i] = Order("run.requested", r)
<1> DEFINE Sent == Orders("run.cancel_requested", C) \cup Orders("run.requested", R)
<1>1. PICK fs \in Seq(Sent) : down' = down \o fs
  BY DEF Sends
<1>2. Sent \subseteq DownFrames
  BY DEF Orders, DownFrames
<1>3. \A j \in 1..Len(fs) : fs[j] \in Sent
  BY <1>1
<1>4. down \in Seq(DownFrames) /\ fs \in Seq(DownFrames)
  <2> HIDE DEF Sent
  <2>1. fs \in Seq(DownFrames)
    BY <1>2, SeqGrows
  <2> QED BY <2>1 DEF DeliveryInv, DownOK
<1>5. /\ down' \in Seq(DownFrames)
      /\ Len(down) \in Nat /\ Len(down') \in Nat
      /\ \A i \in 1..Len(down) : down'[i] = down[i]
      /\ \A i \in 1..Len(down') : i \notin 1..Len(down) =>
           \E j \in 1..Len(fs) : down'[i] = fs[j]
  <2> DEFINE both == down \o fs
  <2>1. /\ both \in Seq(DownFrames)
        /\ Len(down) \in Nat /\ Len(fs) \in Nat /\ Len(both) = Len(down) + Len(fs)
        /\ \A i \in 1..Len(down) : both[i] = down[i]
        /\ \A i \in 1..Len(both) : i \notin 1..Len(down) =>
             \E j \in 1..Len(fs) : both[i] = fs[j]
    BY <1>4, Concatenated
  <2>2. down' = both
    BY <1>1
  <2> HIDE DEF both
  <2>3. Len(both) \in Nat
    BY <2>1
  <2> QED BY <2>1, <2>2, <2>3
<1>6. \A i \in 1..Len(down') : i \notin 1..Len(down) => down'[i] \in Sent
  <2> HIDE DEF Sent
  <2> QED BY <1>3, <1>5
<1>7. ASSUME NEW f \in Sent
      PROVE  \/ \E r \in C : f = Order("run.cancel_requested", r)
             \/ \E r \in R : f = Order("run.requested", r)
  BY DEF Orders
<1> HIDE DEF Sent
<1> QED BY <1>5, <1>6, <1>7

LEMMA CentralKeeps ==
  ASSUME DeliveryInv, CentralSide
  PROVE  \A r \in Runs : Kept(r)
<1>1. PICK C \in SUBSET Runs, R \in SUBSET Runs : Sends(C, R)
  BY DEF CentralSide
<1>2. UNCHANGED <<rec, evs, pc>>
  BY DEF CentralSide, bridgeVars
<1>3. ASSUME NEW r \in Runs, Fenced(r) PROVE Fenced(r)'
  <2>1. Doomed(r)'
    BY <1>3, DoomStays, StepShape DEF CentralSide, DeliveryInv, CentralInv, Fenced
  <2>2. r \notin R
    BY <1>1, <1>3 DEF Sends, Fenced, Doomed, Dispatchable
  <2>3. ASSUME NEW i \in 1..Len(down'), down'[i] = Order("run.requested", r)
        PROVE  FALSE
    <3>1. CASE i \in 1..Len(down)
      BY <1>1, <1>3, <2>3, <3>1, SentFrames DEF Fenced
    <3>2. CASE i \notin 1..Len(down)
      <4>1. CASE \E c \in C : down'[i] = Order("run.cancel_requested", c)
        BY <2>3, <4>1, OrderFacts
      <4>2. CASE \E c \in R : down'[i] = Order("run.requested", c)
        BY <2>2, <2>3, <4>2, OrderFacts
      <4> QED BY <1>1, <3>2, <4>1, <4>2, SentFrames
    <3> QED BY <3>1, <3>2
  <2> QED BY <1>2, <1>3, <2>1, <2>3 DEF Fenced
<1>4. \A r \in Runs : Len(evs[r]) \in Nat
  BY Typed DEF InboxTypes
<1> QED BY <1>2, <1>3, <1>4 DEF Kept

\* Doomed after the step.
DoomedThen(r) == state'[r] \notin {"none", "queued"} \/ intent'[r] \in pending

LEMMA CentralDown ==
  ASSUME DeliveryInv, CentralSide
  PROVE  DownOK'
<1>1. PICK C \in SUBSET Runs, R \in SUBSET Runs : Sends(C, R)
  BY DEF CentralSide
<1>2. /\ down' \in Seq(DownFrames)
      /\ Len(down) \in Nat /\ Len(down') \in Nat
      /\ \A i \in 1..Len(down) : down'[i] = down[i] /\ down[i].run \in Runs
      /\ \A i \in 1..Len(down') : i \notin 1..Len(down) =>
           \/ \E r \in C : down'[i] = Order("run.cancel_requested", r)
           \/ \E r \in R : down'[i] = Order("run.requested", r)
  <2>1. \A i \in 1..Len(down) : down[i].run \in Runs
    BY DEF DeliveryInv, DownOK, DownFrames, Orders, Order
  <2> QED BY <1>1, <2>1, SentFrames
<1>3. \A r \in Runs : Shape(r)
  BY StepShape DEF CentralSide, DeliveryInv, CentralInv
<1>4. ASSUME NEW i \in 1..Len(down')
      PROVE  IF down'[i].kind = "run.requested" THEN delivery'[down'[i].run] # "none"
             ELSE DoomedThen(down'[i].run)
  <2>1. CASE i \in 1..Len(down)
    <3>1. CASE down[i].kind = "run.requested"
      BY <1>2, <1>3, <2>1, <3>1 DEF DeliveryInv, DownOK, Shape
    <3>2. CASE down[i].kind # "run.requested"
      <4>1. Doomed(down[i].run) /\ down[i].run \in Runs
        BY <1>2, <2>1, <3>2 DEF DeliveryInv, DownOK
      <4>2. DoomedThen(down'[i].run)
        <5> DEFINE r == down[i].run
        <5> HIDE DEF r
        <5>1. Doomed(r) /\ r \in Runs
          BY <4>1 DEF r
        <5>2. DoomedThen(r)
          BY <1>3, <5>1, DoomStays DEF Doomed, DoomedThen
        <5> QED BY <1>2, <2>1, <5>2 DEF r
      <4> QED BY <1>2, <2>1, <3>2, <4>2
    <3> QED BY <3>1, <3>2
  <2>2. CASE i \notin 1..Len(down)
    <3>1. ASSUME NEW r \in C, down'[i] = Order("run.cancel_requested", r)
          PROVE  down'[i].kind # "run.requested" /\ DoomedThen(down'[i].run)
      <4>1. DoomedThen(r) /\ down'[i].run = r /\ down'[i].kind # "run.requested"
        BY <1>1, <3>1, OrderFacts DEF Sends, Doomed, DoomedThen
      <4> QED BY <4>1
    <3>2. ASSUME NEW r \in R, down'[i] = Order("run.requested", r)
          PROVE  down'[i].kind = "run.requested" /\ delivery'[down'[i].run] # "none"
      BY <1>1, <3>2, OrderFacts DEF Sends
    <3> QED BY <1>2, <2>2, <3>1, <3>2
  <2> QED BY <2>1, <2>2
<1>5. ASSUME NEW i \in 1..Len(down'), NEW j \in 1..Len(down'), i < j,
             down'[i].kind = "run.cancel_requested", down'[j].kind = "run.requested"
      PROVE  down'[i].run # down'[j].run
  <2>1. CASE j \in 1..Len(down)
    <3>1. i \in 1..Len(down)
      BY <1>2, <1>5, <2>1
    <3> QED BY <1>2, <1>5, <2>1, <3>1 DEF DeliveryInv, DownOK
  <2>2. CASE j \notin 1..Len(down)
    <3>1. PICK r \in R : down'[j] = Order("run.requested", r)
      BY <1>2, <1>5, <2>2, OrderFacts
    <3>2. r \in Dispatchable /\ down'[j].run = r /\ r \in Runs
      BY <1>1, <3>1, OrderFacts DEF Sends
    <3>3. CASE i \in 1..Len(down)
      <4>1. Doomed(down'[i].run)
        <5>1. down[i].kind # "run.requested" /\ down'[i] = down[i]
          BY <1>2, <1>5, <3>3
        <5>2. Doomed(down[i].run)
          BY <3>3, <5>1 DEF DeliveryInv, DownOK
        <5> QED BY <5>1, <5>2
      <4>2. ~Doomed(r)
        BY <3>2 DEF Doomed, Dispatchable
      <4> QED BY <3>2, <4>1, <4>2
    <3>4. CASE i \notin 1..Len(down)
      <4>1. PICK c \in C : down'[i] = Order("run.cancel_requested", c)
        BY <1>2, <1>5, <3>4, OrderFacts
      <4>2. down'[i].run = c /\ c \in C
        BY <4>1, OrderFacts
      <4> QED BY <1>1, <3>2, <4>2, <3>1 DEF Sends
    <3> QED BY <3>3, <3>4
  <2> QED BY <2>1, <2>2
<1> QED BY <1>2, <1>4, <1>5 DEF DownOK, Doomed, DoomedThen

\* An event that is appended to Central's history, as the inbox has it or by
\* Central itself.
LEMMA LogGrows ==
  ASSUME DeliveryInv, InboxTypes', NEW r \in Runs, Kept(r), NEW e \in Entries,
         log'[r] = Append(log[r], e),
         e.by = "bridge" => Says(r, Len(log[r]) + 1, e.kind)
  PROVE  LogOK(r)'
<1>1. LogOK(r) /\ log[r] \in Seq(Entries) /\ Len(log[r]) \in Nat /\ InboxTypes
  BY Typed DEF DeliveryInv, RowTypes
<1>2. /\ Len(log'[r]) = Len(log[r]) + 1
      /\ log'[r][Len(log[r]) + 1] = e
      /\ \A i \in 1..Len(log[r]) : log'[r][i] = log[r][i]
  BY <1>1
<1> SUFFICES ASSUME NEW i \in 1..Len(log'[r]), log'[r][i].by = "bridge",
                    NEW k, k = log'[r][i].kind
             PROVE  Says(r, i, k)'
  BY DEF LogOK, Says
<1>3. i \in Nat \ {0} /\ Says(r, i, k)
  <2>1. CASE i \in 1..Len(log[r])
    BY <1>1, <1>2, <2>1 DEF LogOK
  <2>2. CASE i = Len(log[r]) + 1
    <3>1. e.by = "bridge" /\ k = e.kind /\ Says(r, Len(log[r]) + 1, e.kind)
      BY <1>2, <2>2
    <3> QED BY <2>2, <3>1
  <2> QED BY <1>1, <1>2, <2>1, <2>2
<1> QED BY <1>1, <1>3, WordStays

\* What a frame about the end of a Run, or a question, says of the record.
LEMMA FrameMeans ==
  ASSUME DeliveryInv, NEW f \in GoodFrames
  PROVE  LET r == f.run IN
         /\ f.kind = "input_required" => rec[r] \in {"input_required", "canceled"}
         /\ f.kind = "canceled" => rec[r] = "canceled" \/ Fenced(r)
         /\ f.kind \in {"completed", "failed", "outcome_unknown"} => rec[r] = f.kind
         /\ f.kind = "delivered" \/ f.kind \in bridgeKinds
<1> DEFINE r == f.run
<1>1. f \in AnyFrames /\ Says(r, f.seq, f.kind)
  BY DEF GoodFrames
<1>2. r \in Runs /\ f.seq \in Nat \ {0} /\ f.kind \in bridgeKinds \cup {"delivered"}
  BY <1>1 DEF AnyFrames
<1>3. EventsOK(r) /\ evs[r] \in Seq(EventKinds)
  BY <1>2, Typed DEF DeliveryInv, InboxTypes
<1>4. CASE f.seq > 1
  <2>1. f.seq - 1 \in 1..Len(evs[r]) /\ f.kind = evs[r][f.seq - 1]
    BY <1>1, <1>2, <1>3, <1>4 DEF Says
  <2>2. /\ isCancellationTerminalState(f.kind) => rec[r] = f.kind
        /\ f.kind = "input_required" => rec[r] \in {"input_required", "canceled"}
    BY <1>3, <2>1 DEF EventsOK
  <2> QED BY <1>2, <2>2 DEF isCancellationTerminalState
<1>5. CASE ~(f.seq > 1)
  BY <1>1, <1>2, <1>5 DEF Says
<1> QED BY <1>4, <1>5

LEMMA CentralRows ==
  ASSUME DeliveryInv, CentralSide, NEW r \in Runs
  PROVE  EventsOK(r)' /\ DispatchedOK(r)' /\ LogOK(r)' /\ ShownOK(r)'
<1>0. /\ UNCHANGED <<rec, evs, pc, started>> /\ InboxTypes'
      /\ Kept(r) /\ DownOK' /\ Shape(r)
  <2>1. UNCHANGED bridgeVars /\ InboxTypes
    BY Typed DEF CentralSide
  <2>2. InboxTypes'
    BY <2>1 DEF bridgeVars, InboxTypes
  <2>3. Shape(r)
    BY StepShape DEF CentralSide, DeliveryInv, CentralInv
  <2> QED BY <2>1, <2>2, <2>3, CentralKeeps, CentralDown DEF bridgeVars
<1>1. EventsOK(r) /\ DispatchedOK(r) /\ LogOK(r) /\ ShownOK(r)
  BY DEF DeliveryInv
<1>2. EventsOK(r)'
  BY <1>0, <1>1 DEF EventsOK
<1>3. DispatchedOK(r)'
  BY <1>0, <1>1 DEF DispatchedOK, Shape
<1>4. CASE Rests(r)
  <2>1. LogOK(r)'
    BY <1>0, <1>4, LogStays DEF Rests
  <2>2. ShownOK(r)'
    BY <1>0, <1>1, <1>4 DEF Rests, ShownOK, Kept
  <2> QED BY <1>2, <1>3, <2>1, <2>2
<1>5. CASE Born(r)
  <2>1. LogOK(r)'
    BY <1>0, <1>5, LogStays DEF Born
  <2>2. ShownOK(r)'
    BY <1>5 DEF Born, ShownOK
  <2> QED BY <1>2, <1>3, <2>1, <2>2
<1>6. ASSUME NEW e \in Entries, Takes(r, e), Verdict(r, e)
      PROVE  LogOK(r)' /\ ShownOK(r)'
  <2>1. LogOK(r)'
    BY <1>0, <1>6, LogGrows DEF Takes, Verdict
  <2>2. state'[r] = e.kind
    BY <1>6 DEF Takes, Verdict
  <2>3. CASE e.kind # "canceled"
    BY <1>6, <2>1, <2>2, <2>3 DEF Verdict, ShownOK
  <2>4. CASE e.kind = "canceled" /\ state[r] = "input_required"
    BY <1>0, <1>1, <2>1, <2>2, <2>4 DEF ShownOK
  <2>5. CASE e.kind = "canceled" /\ state[r] # "input_required"
    <3>1. delivery[r] = "none" /\ delivery'[r] = "none"
      BY <1>6, <2>5 DEF Verdict, CancelsDirectly
    <3>2. rec'[r] = "none" /\ pc'[r] # "accept"
      BY <1>0, <1>1, <3>1 DEF DispatchedOK
    <3>3. Doomed(r)'
      BY <2>2, <2>5 DEF Doomed
    <3>4. \A i \in 1..Len(down') : down'[i] # Order("run.requested", r)
      BY <1>0, <3>1, OrderFacts DEF DownOK
    <3>5. Fenced(r)'
      BY <3>2, <3>3, <3>4 DEF Fenced
    <3> QED BY <2>1, <2>2, <2>5, <3>5 DEF ShownOK
  <2> QED BY <2>3, <2>4, <2>5
<1>7. ASSUME NEW f \in GoodFrames, Heard(r, f)
      PROVE  LogOK(r)' /\ ShownOK(r)'
  <2> DEFINE e == [kind |-> f.kind, by |-> "bridge"]
  <2>1. e \in Entries /\ Says(r, Len(log[r]) + 1, e.kind)
    BY <1>7 DEF GoodFrames, AnyFrames, Heard, Entries, Kinds
  <2>2. e.kind = f.kind /\ log'[r] = Append(log[r], e) /\ f.run = r
    BY <1>7 DEF Heard, Takes
  <2>3. state'[r] = (IF f.kind = "output" THEN state[r] ELSE f.kind)
    BY <1>7 DEF Heard, Takes
  <2> HIDE DEF e
  <2>4. LogOK(r)'
    BY <1>0, <2>1, <2>2, LogGrows
  <2>5. ShownOK(r)'
    <3>1. /\ f.kind = "input_required" => rec[r] \in {"input_required", "canceled"}
          /\ f.kind = "canceled" => rec[r] = "canceled" \/ Fenced(r)
      BY <1>7, <2>2, FrameMeans
    <3> QED BY <1>0, <1>1, <2>3, <3>1 DEF ShownOK, Kept
  <2> QED BY <2>4, <2>5
<1>8. Judged(r) \/ \E f \in GoodFrames : Heard(r, f)
  BY DEF CentralSide
<1> QED BY <1>2, <1>3, <1>4, <1>5, <1>6, <1>7, <1>8 DEF Judged

\* A step of Central keeps the invariant.
LEMMA CentralSideInv ==
  ASSUME DeliveryInv, CentralSide
  PROVE  DeliveryInv'
<1>1. CentralInv'
  BY StepInv DEF DeliveryInv, CentralSide
<1>2. InboxInv' /\ InboxTypes /\ InboxTypes'
  <2>1. BridgeInv' /\ UNCHANGED bridgeVars
    BY BridgeStutterInv DEF DeliveryInv, InboxInv, CentralSide
  <2> QED BY <2>1, Typed DEF DeliveryInv, InboxInv, WorkerOK, bridgeVars, BridgeInv
<1>3. GoodFrames \subseteq GoodFrames'
  BY <1>2, CentralKeeps, FramesStay
<1>4. UpOK'
  <2>1. \A e \in Epochs : up'[e] \in Seq(GoodFrames' \cup {hello})
    <3>1. GoodFrames \cup {hello} \subseteq GoodFrames' \cup {hello}
      BY <1>3
    <3>2. \A e \in Epochs : up'[e] \in Seq(GoodFrames \cup {hello})
      BY DEF CentralSide
    <3> QED BY <3>1, <3>2, SeqGrows
  <2>2. up' = [e \in Epochs |-> up'[e]]
    BY DEF CentralSide
  <2> QED BY <2>1, <2>2 DEF UpOK, Epochs, hello
<1>5. TodoOK'
  <2>1. \A r \in Runs : todo[r] \in Seq(GoodFrames')
    BY <1>3, SeqGrows DEF DeliveryInv, TodoOK
  <2>2. todo' = todo
    BY DEF CentralSide, bridgeVars
  <2>3. todo = [r \in Runs |-> todo[r]]
    BY DEF DeliveryInv, TodoOK
  <2> QED BY <2>1, <2>2, <2>3 DEF TodoOK
<1> QED BY <1>1, <1>2, <1>4, <1>5, CentralDown, CentralRows DEF DeliveryInv

-----------------------------------------------------------------------------
(* Every step of Central is one of these, with what it sends. *)

LEMMA FramesForType ==
  ASSUME NEW kind, NEW S \in SUBSET Runs
  PROVE  FramesFor(kind, S) \in Seq(Orders(kind, S))
<1>1. IsFiniteSet(S)
  BY FS_Subset, DeliveryAssumption
<1> DEFINE order == SetToSeq(S)
<1>2. order \in Seq(S) /\ Len(order) \in Nat
  BY <1>1, SetToSeqFacts
<1>3. FramesFor(kind, S) = [i \in 1..Len(order) |-> Order(kind, order[i])]
  BY DEF FramesFor, Order
<1> HIDE DEF order
<1>4. \A i \in 1..Len(order) : Order(kind, order[i]) \in Orders(kind, S)
  BY <1>2 DEF Orders
<1> HIDE DEF Orders
<1> QED BY <1>2, <1>3, <1>4

LEMMA SendSends ==
  ASSUME DeliveryInv, NEW C \in SUBSET Runs, NEW R \in SUBSET Runs, NEW c,
         NEW fs \in Seq(Orders("run.cancel_requested", C) \cup Orders("run.requested", R)),
         Send(c, fs),
         C \cap R = {},
         \A r \in C : Doomed(r)',
         \A r \in R : r \in Dispatchable /\ delivery'[r] # "none"
  PROVE  \E C1, R1 \in SUBSET Runs : Sends(C1, R1)
<1>1. CASE down' = down \o fs
  BY <1>1 DEF Sends
<1>2. CASE UNCHANGED down
  <2>1. down \in Seq(DownFrames)
    BY DEF DeliveryInv, DownOK
  <2>2. down' = down \o <<>>
    BY <1>2, <2>1
  <2>3. <<>> \in Seq(Orders("run.cancel_requested", {}) \cup Orders("run.requested", {}))
    OBVIOUS
  <2>4. Sends({}, {})
    BY <2>2, <2>3 DEF Sends
  <2> QED BY <2>4
<1> QED BY <1>1, <1>2 DEF Send

\* Nothing is sent.
LEMMA SilentSends ==
  ASSUME DeliveryInv, UNCHANGED down
  PROVE  \E C, R \in SUBSET Runs : Sends(C, R)
<1>1. down \in Seq(DownFrames)
  BY DEF DeliveryInv, DownOK
<1>2. down' = down \o <<>>
  BY <1>1
<1>3. <<>> \in Seq(Orders("run.cancel_requested", {}) \cup Orders("run.requested", {}))
  OBVIOUS
<1>4. Sends({}, {})
  BY <1>2, <1>3 DEF Sends
<1> QED BY <1>4

\* Cancellations of doomed Runs are sent.
LEMMA CancelSends ==
  ASSUME DeliveryInv, NEW C \in SUBSET Runs, NEW c,
         Send(c, FramesFor("run.cancel_requested", C)),
         \A r \in C : Doomed(r)'
  PROVE  \E C1, R1 \in SUBSET Runs : Sends(C1, R1)
<1> DEFINE fs == FramesFor("run.cancel_requested", C)
<1>1. fs \in Seq(Orders("run.cancel_requested", C) \cup Orders("run.requested", {}))
  BY FramesForType, SeqGrows
<1> HIDE DEF fs
<1>2. Send(c, fs)
  BY DEF fs
<1> DEFINE R == {}
<1>3. /\ fs \in Seq(Orders("run.cancel_requested", C) \cup Orders("run.requested", R))
      /\ R \in SUBSET Runs /\ C \cap R = {}
      /\ \A r \in R : r \in Dispatchable /\ delivery'[r] # "none"
  BY <1>1
<1> HIDE DEF R
<1> QED BY <1>2, <1>3, SendSends

\* What may be left of the frames on their way to Central.
LEMMA UpShrinks ==
  ASSUME DeliveryInv,
         \/ UNCHANGED up
         \/ \E e \in Epochs : up[e] # <<>> /\ up' = [up EXCEPT ![e] = Tail(@)]
         \/ \E e \in Epochs : up' = [up EXCEPT ![e] = <<>>]
         \/ up' = [e \in Epochs |-> <<>>]
  PROVE  up' \in [Epochs -> Seq(GoodFrames \cup {hello})]
<1> DEFINE F == GoodFrames \cup {hello}
<1>1. up \in [Epochs -> Seq(F)]
  BY DEF DeliveryInv, UpOK
<1> HIDE DEF F
<1>2. up' \in [Epochs -> Seq(F)]
  <2>1. <<>> \in Seq(F) /\ \A s \in Seq(F) : s # <<>> => Tail(s) \in Seq(F)
    OBVIOUS
  <2> HIDE DEF Epochs
  <2> QED BY <1>1, <2>1
<1> QED BY <1>2 DEF F

LEMMA OwnSide ==
  ASSUME DeliveryInv, OwnStep, UNCHANGED bridgeVars,
         \E C, R \in SUBSET Runs : Sends(C, R),
         up' \in [Epochs -> Seq(GoodFrames \cup {hello})]
  PROVE  CentralSide
<1>1. CentralStep
  BY DEF OwnStep, CentralStep, CentralNext
<1>2. \A r \in Runs : Judged(r)
  BY OwnStepJudges DEF DeliveryInv
<1> QED BY <1>1, <1>2 DEF CentralSide

LEMMA DoomedInRuns ==
  ASSUME DeliveryInv, OwnStep, NEW r \in Runs, Doomed(r)
  PROVE  Doomed(r)'
<1>1. CentralStep
  BY DEF OwnStep, CentralStep, CentralNext
<1> QED BY <1>1, StepShape, DoomStays DEF DeliveryInv, CentralInv

LEMMA DispatchSide ==
  ASSUME DeliveryInv, NEW r \in Runs, Dispatch(r)
  PROVE  CentralSide
<1> DEFINE R == Requested({r})
           fs == FramesFor("run.requested", R)
<1>1. OwnStep /\ UNCHANGED bridgeVars /\ UNCHANGED up
  BY DEF Dispatch, OwnStep
<1>2. \A q \in R : q \in Dispatchable /\ delivery'[q] # "none"
  <2>1. delivery \in [Runs -> {"none", "pending", "accepted"}]
    BY Typed DEF RowTypes
  <2> QED BY <2>1 DEF Dispatch, dispatch, Requested
<1>3. fs \in Seq(Orders("run.cancel_requested", {}) \cup Orders("run.requested", R))
  <2>1. R \in SUBSET Runs
    BY DEF Requested
  <2> DEFINE S == Orders("run.requested", R)
             T == Orders("run.cancel_requested", {}) \cup S
  <2>2. fs \in Seq(S)
    BY <2>1, FramesForType
  <2> HIDE DEF R, fs
  <2>3. S \subseteq T
    OBVIOUS
  <2> HIDE DEF S, T
  <2>4. fs \in Seq(T)
    BY <2>2, <2>3, SeqGrows
  <2> QED BY <2>4 DEF S, T
<1>4. Send(conn, fs) /\ R \in SUBSET Runs
  BY DEF Dispatch, Requested
<1> HIDE DEF R, fs
<1> DEFINE C == {}
<1>5. /\ fs \in Seq(Orders("run.cancel_requested", C) \cup Orders("run.requested", R))
      /\ C \in SUBSET Runs /\ C \cap R = {} /\ \A q \in C : Doomed(q)'
  BY <1>3
<1> HIDE DEF C
<1>6. \E C1, R1 \in SUBSET Runs : Sends(C1, R1)
  BY <1>2, <1>4, <1>5, SendSends
<1> QED BY <1>1, <1>6, OwnSide, UpShrinks

LEMMA CancelSide ==
  ASSUME DeliveryInv, NEW r \in Runs, Cancel(r)
  PROVE  CentralSide
<1> DEFINE C == IF CancelsDirectly(r) \/ intent[r] = "late" THEN {} ELSE {r}
<1>1. OwnStep /\ UNCHANGED bridgeVars /\ UNCHANGED up
  BY DEF Cancel, OwnStep
<1>2. \A q \in C : Doomed(q)'
  <2>1. /\ intent \in [Runs -> {"none", "pending", "late", "resolved"}]
        /\ intent[r] = "resolved" => state[r] \in terminalStates
    BY Typed DEF RowTypes, DeliveryInv, CentralInv, IntentMatchesRun
  <2> QED BY <2>1
      DEF Cancel, requestCancellation, Active, Doomed, pending
<1>3. C \in SUBSET Runs /\ Send(conn, FramesFor("run.cancel_requested", C))
  BY DEF Cancel
<1> HIDE DEF C
<1> QED BY <1>1, <1>2, <1>3, CancelSends, OwnSide, UpShrinks

LEMMA SweepSide ==
  ASSUME DeliveryInv, Sweep
  PROVE  CentralSide
<1>1. OwnStep /\ UNCHANGED bridgeVars /\ UNCHANGED up
  BY DEF Sweep, OwnStep
<1>2. Cancellable \in SUBSET Runs
  BY DEF Cancellable
<1>3. \A r \in Cancellable : Doomed(r)'
  <2>1. \A r \in Cancellable : r \in Runs /\ Doomed(r)
    BY DEF Cancellable, Doomed, pending
  <2> QED BY <1>1, <2>1, DoomedInRuns
<1>4. Send(conn, FramesFor("run.cancel_requested", Cancellable))
  BY DEF Sweep
<1> QED BY <1>1, <1>2, <1>3, <1>4, CancelSends, OwnSide, UpShrinks

LEMMA RevokeSide ==
  ASSUME DeliveryInv, Revoke
  PROVE  CentralSide
<1> DEFINE C == {r \in Runs : Active(r) /\ AcceptedByBridge(r)}
<1>1. OwnStep /\ UNCHANGED bridgeVars /\ UNCHANGED up
  BY DEF Revoke, OwnStep
<1>2. \A r \in C : Doomed(r)'
  BY DEF Revoke, revoke, reconcile, applyRuntimeEvent, StatusAfter, Doomed
<1>3. C \in SUBSET Runs /\ Send(conn, FramesFor("run.cancel_requested", C))
  BY DEF Revoke
<1> HIDE DEF C
<1> QED BY <1>1, <1>2, <1>3, CancelSends, OwnSide, UpShrinks

\* hello and heartbeat: the cancellations first, then the requests.
LEMMA ContactSide ==
  ASSUME DeliveryInv, Contact, NEW c, ContactSends(c), UNCHANGED bridgeVars,
         up' \in [Epochs -> Seq(GoodFrames \cup {hello})]
  PROVE  CentralSide
<1>1. OwnStep
  BY DEF OwnStep
<1>2. PICK first \in Runs :
        Send(c, FramesFor("run.cancel_requested", Cancellable) \o
                FramesFor("run.requested", RequestedOnContact(first)))
  BY DEF ContactSends
<1> DEFINE C == Cancellable
           R == RequestedOnContact(first)
           fc == FramesFor("run.cancel_requested", C)
           fr == FramesFor("run.requested", R)
           Both == Orders("run.cancel_requested", C) \cup Orders("run.requested", R)
<1>3. C \in SUBSET Runs /\ R \in SUBSET Runs /\ R \subseteq Dispatchable
  BY DEF Cancellable, RequestedOnContact, Requested, Dispatchable
<1>4. C \cap R = {}
  BY <1>3 DEF Cancellable, Dispatchable, pending
<1>5. \A r \in C : Doomed(r)'
  <2>1. \A r \in Cancellable : r \in Runs /\ Doomed(r)
    BY DEF Cancellable, Doomed, pending
  <2> QED BY <1>1, <2>1, DoomedInRuns
<1>6. \A r \in R : r \in Dispatchable /\ delivery'[r] # "none"
  <2>1. delivery \in [Runs -> {"none", "pending", "accepted"}]
    BY Typed DEF RowTypes
  <2>2. delivery' = [r \in Runs |->
           IF r \in Requested(Dispatchable) /\ delivery[r] = "none" THEN "pending"
           ELSE delivery[r]]
    BY DEF Contact
  <2> QED BY <1>3, <2>1, <2>2 DEF RequestedOnContact
<1>7. fc \o fr \in Seq(Both)
  <2>1. fc \in Seq(Orders("run.cancel_requested", C)) /\ fr \in Seq(Orders("run.requested", R))
    BY <1>3, FramesForType
  <2> HIDE DEF fc, fr, C, R
  <2>2. fc \in Seq(Both) /\ fr \in Seq(Both)
    BY <2>1, SeqGrows
  <2> HIDE DEF Both
  <2> QED BY <2>2
<1>8. Send(c, fc \o fr)
  BY <1>2
<1> HIDE DEF C, R, fc, fr
<1>9. \E C1, R1 \in SUBSET Runs : Sends(C1, R1)
  BY <1>3, <1>4, <1>5, <1>6, <1>7, <1>8, SendSends
<1> QED BY <1>1, <1>9, OwnSide

\* A frame that is read.
LEMMA HeadFrame ==
  ASSUME DeliveryInv, NEW e \in Epochs, up[e] # <<>>, Head(up[e]) # hello
  PROVE  Head(up[e]) \in GoodFrames
<1>1. up[e] \in Seq(GoodFrames \cup {hello})
  BY DEF DeliveryInv, UpOK
<1> DEFINE F == GoodFrames \cup {hello}
<1>2. Head(up[e]) \in F
  <2> HIDE DEF F
  <2>1. up[e] \in Seq(F)
    BY <1>1 DEF F
  <2> QED BY <2>1
<1> QED BY <1>2

LEMMA ReceiveSide ==
  ASSUME DeliveryInv, NEW e \in Epochs, Receive(e)
  PROVE  CentralSide
<1> DEFINE f == Head(up[e])
<1>1. f \in GoodFrames /\ HandleFrame(f)
  BY HeadFrame DEF Receive, Readable
<1> HIDE DEF f
<1>2. f \in AnyFrames /\ CentralStep
  BY <1>1 DEF GoodFrames, CentralStep
<1>3. \A r \in Runs : Rests(r) \/ Heard(r, f)
  BY <1>1, <1>2, FrameIsHeard DEF DeliveryInv
<1>4. UNCHANGED bridgeVars /\ UNCHANGED down /\ up' = [up EXCEPT ![e] = Tail(@)] /\ up[e] # <<>>
  BY DEF Receive, Readable
<1> QED BY <1>1, <1>2, <1>3, <1>4, SilentSends, UpShrinks DEF CentralSide, Judged

LEMMA CrashSide ==
  ASSUME DeliveryInv, CentralCrash
  PROVE  CentralSide
<1>1. OwnStep
  <2>1. ASSUME NEW e \in Epochs, Readable(e), Head(up[e]) # hello,
               CrashInAccept(Head(up[e]))
        PROVE  OwnStep
    <3>1. Head(up[e]) \in AnyFrames
      BY <2>1, HeadFrame DEF Readable, GoodFrames
    <3> QED BY <2>1, <3>1 DEF OwnStep
  <2> QED BY <2>1 DEF CentralCrash, OwnStep
<1>2. UNCHANGED bridgeVars /\ UNCHANGED down /\ up' = [e \in Epochs |-> <<>>]
  BY DEF CentralCrash, CentralDies
<1> QED BY <1>1, <1>2, SilentSends, UpShrinks, OwnSide

-----------------------------------------------------------------------------
(***************************************************************************)
(* The steps of the Bridge.                                                *)
(***************************************************************************)
\* A step of the Bridge beside a Central that stands still: it reads one
\* frame, loses them all or none, and accepts a Run only for its request.
BridgeSide ==
  /\ BridgeNext
  /\ UNCHANGED centralVars
  /\ \/ UNCHANGED down
     \/ down' = <<>>
     \/ down # <<>> /\ down' = Tail(down)
  /\ \A r \in Runs : pc'[r] = "accept" =>
       \/ pc[r] = "accept"
       \/ down # <<>> /\ down[1] = Order("run.requested", r)

\* What is left of the frames on their way to the Bridge.
LEMMA DownShrinks ==
  ASSUME DeliveryInv, BridgeSide
  PROVE  /\ down' \in Seq(DownFrames)
         /\ \E d \in {0, 1} : \A i \in 1..Len(down') :
              i + d \in 1..Len(down) /\ down'[i] = down[i + d]
         /\ Len(down) \in Nat /\ Len(down') \in Nat
<1>1. down \in Seq(DownFrames)
  BY DEF DeliveryInv, DownOK
<1> HIDE DEF DownFrames
<1>2. CASE UNCHANGED down
  <2>1. \A i \in 1..Len(down') : i + 0 \in 1..Len(down) /\ down'[i] = down[i + 0]
    BY <1>1, <1>2
  <2> QED BY <1>1, <1>2, <2>1
<1>3. CASE down' = <<>>
  BY <1>1, <1>3
<1>4. CASE down # <<>> /\ down' = Tail(down)
  <2>1. /\ down' \in Seq(DownFrames) /\ Len(down) \in Nat /\ Len(down') \in Nat
        /\ \A i \in 1..Len(down') : i + 1 \in 1..Len(down) /\ down'[i] = down[i + 1]
    BY <1>1, <1>4
  <2> QED BY <2>1
<1> QED BY <1>2, <1>3, <1>4 DEF BridgeSide

LEMMA BridgeFacts ==
  ASSUME DeliveryInv, BridgeSide
  PROVE  /\ InboxInv' /\ InboxTypes /\ InboxTypes'
         /\ \A r \in Runs : InboxStep(r) /\ evs[r] \in Seq(EventKinds)
         /\ UNCHANGED <<state, log, delivery, intent>>
<1>1. InboxInv' /\ \A r \in Runs : InboxStep(r)
  BY InboxShape DEF DeliveryInv, BridgeSide
<1>2. InboxTypes' /\ InboxTypes
  BY <1>1, Typed DEF InboxInv, BridgeInv
<1> QED BY <1>1, <1>2 DEF InboxTypes, BridgeSide, centralVars

LEMMA BridgeKeeps ==
  ASSUME DeliveryInv, BridgeSide
  PROVE  \A r \in Runs : Kept(r)
<1> SUFFICES ASSUME NEW r \in Runs PROVE Kept(r)
  OBVIOUS
<1>0. InboxStep(r) /\ evs[r] \in Seq(EventKinds)
  BY BridgeFacts
<1>1. rec[r] # "none" => rec'[r] # "none"
  BY <1>0 DEF InboxStep, Keeps, Moves, Gets, EventKinds
<1>2. /\ Len(evs[r]) <= Len(evs'[r])
      /\ \A i \in 1..Len(evs[r]) : evs'[r][i] = evs[r][i]
  BY StepGrows DEF BridgeSide, DeliveryInv, InboxInv, Grows
<1>3. ASSUME Fenced(r) PROVE Fenced(r)'
  <2>1. Doomed(r)'
    BY <1>3, BridgeFacts DEF Fenced, Doomed
  <2>2. rec'[r] = "none"
    BY <1>0, <1>3 DEF InboxStep, Keeps, Moves, Gets, Fenced
  <2>3. ASSUME NEW i \in 1..Len(down') PROVE down'[i] # Order("run.requested", r)
    <3>1. PICK j \in 1..Len(down) : down'[i] = down[j]
      BY DownShrinks
    <3> QED BY <1>3, <3>1 DEF Fenced
  <2>4. pc'[r] # "accept"
    <3>1. down # <<>> => 1 \in 1..Len(down)
      BY DEF DeliveryInv, DownOK
    <3> QED BY <1>3, <3>1 DEF BridgeSide, Fenced
  <2> QED BY <2>1, <2>2, <2>3, <2>4 DEF Fenced
<1> QED BY <1>1, <1>2, <1>3 DEF Kept

LEMMA BridgeDown ==
  ASSUME DeliveryInv, BridgeSide
  PROVE  DownOK'
<1>1. PICK d \in {0, 1} : \A i \in 1..Len(down') :
         i + d \in 1..Len(down) /\ down'[i] = down[i + d]
  BY DownShrinks
<1>2. down' \in Seq(DownFrames) /\ Len(down') \in Nat
  BY DownShrinks
<1>3. UNCHANGED <<delivery, state, intent>>
  BY BridgeFacts
<1>4. \A i \in 1..Len(down') :
        IF down'[i].kind = "run.requested" THEN delivery[down'[i].run] # "none"
        ELSE Doomed(down'[i].run)
  BY <1>1 DEF DeliveryInv, DownOK
<1>5. \A i, j \in 1..Len(down') :
        (/\ i < j
         /\ down'[i].kind = "run.cancel_requested"
         /\ down'[j].kind = "run.requested") => down'[i].run # down'[j].run
  <2> SUFFICES ASSUME NEW i \in 1..Len(down'), NEW j \in 1..Len(down'), i < j,
                      down'[i].kind = "run.cancel_requested",
                      down'[j].kind = "run.requested"
               PROVE  down'[i].run # down'[j].run
    OBVIOUS
  <2>1. i + d \in 1..Len(down) /\ j + d \in 1..Len(down) /\ i + d < j + d
    BY <1>1
  <2>2. down'[i] = down[i + d] /\ down'[j] = down[j + d]
    BY <1>1
  <2> QED BY <2>1, <2>2 DEF DeliveryInv, DownOK
<1> QED BY <1>2, <1>3, <1>4, <1>5 DEF DownOK, Doomed

LEMMA BridgeRows ==
  ASSUME DeliveryInv, BridgeSide, NEW r \in Runs
  PROVE  EventsOK(r)' /\ DispatchedOK(r)' /\ LogOK(r)' /\ ShownOK(r)'
<1>0. /\ InboxStep(r) /\ evs[r] \in Seq(EventKinds)
      /\ UNCHANGED <<state, log, delivery, intent>> /\ InboxTypes'
      /\ Kept(r)
  BY BridgeFacts, BridgeKeeps
<1>1. EventsOK(r) /\ DispatchedOK(r) /\ ShownOK(r) /\ RecordOK(r)
  BY DEF DeliveryInv, InboxInv, BridgeInv
<1>2. EventsOK(r)'
  <2>1. CASE Keeps(r)
    BY <1>1, <2>1 DEF Keeps, EventsOK
  <2>2. CASE Moves(r)
    BY <1>1, <2>2 DEF Moves, RecordOK, EventsOK
  <2>3. ASSUME NEW k \in EventKinds, Gets(r, k) PROVE EventsOK(r)'
    <3>1. /\ Len(evs'[r]) = Len(evs[r]) + 1 /\ evs'[r][Len(evs[r]) + 1] = k
          /\ \A i \in 1..Len(evs[r]) : evs'[r][i] = evs[r][i]
          /\ Len(evs[r]) \in Nat
      BY <1>0, <2>3 DEF Gets
    <3>2. ASSUME NEW i \in 1..Len(evs[r])
          PROVE  /\ ~isCancellationTerminalState(evs[r][i])
                 /\ evs[r][i] = "input_required" => rec'[r] = "canceled"
      <4>1. ~isCancellationTerminalState(evs[r][i])
        BY <1>1, <2>3 DEF EventsOK, Gets
      <4>2. evs[r][i] = "input_required" => rec[r] = "input_required"
        BY <1>1, <2>3 DEF EventsOK, Gets, isCancellationTerminalState
      <4> QED BY <2>3, <4>1, <4>2 DEF Gets
    <3>3. /\ isCancellationTerminalState(k) => rec'[r] = k
          /\ k = "input_required" => rec'[r] = k
      BY <2>3 DEF Gets, isCancellationTerminalState
    <3>4. ASSUME NEW i \in 1..Len(evs'[r])
          PROVE  /\ isCancellationTerminalState(evs'[r][i]) =>
                      i = Len(evs'[r]) /\ rec'[r] = evs'[r][i]
                 /\ evs'[r][i] = "input_required" =>
                      rec'[r] \in {"input_required", "canceled"}
      <4>1. CASE i \in 1..Len(evs[r])
        BY <3>1, <3>2, <4>1
      <4>2. CASE i = Len(evs[r]) + 1
        BY <3>1, <3>3, <4>2
      <4> QED BY <3>1, <4>1, <4>2
    <3> QED BY <3>4 DEF EventsOK, isCancellationTerminalState
  <2> QED BY <1>0, <2>1, <2>2, <2>3 DEF InboxStep
<1>3. DispatchedOK(r)'
  <2>1. rec'[r] # "none" => rec[r] # "none" \/ pc[r] = "accept"
    BY <1>0 DEF InboxStep, Keeps, Moves, Gets
  <2>2. pc'[r] = "accept" => pc[r] = "accept" \/ delivery[r] # "none"
    <3>1. ASSUME down # <<>>, down[1] = Order("run.requested", r)
          PROVE  delivery[r] # "none"
      <4>1. 1 \in 1..Len(down)
        BY <3>1 DEF DeliveryInv, DownOK
      <4> QED BY <3>1, <4>1, OrderFacts DEF DeliveryInv, DownOK
    <3> QED BY <3>1 DEF BridgeSide
  <2> QED BY <1>0, <1>1, <2>1, <2>2 DEF DispatchedOK
<1>4. LogOK(r)'
  BY <1>0, LogStays
<1>5. ShownOK(r)'
  <2>1. rec[r] \in {"input_required", "canceled"} =>
          rec'[r] \in {"input_required", "canceled"}
    BY <1>0 DEF InboxStep, Keeps, Moves, Gets, isCancellationTerminalState
  <2> QED BY <1>0, <1>1, <2>1 DEF ShownOK, Kept
<1> QED BY <1>2, <1>3, <1>4, <1>5

\* A step of the Bridge keeps the invariant when the frames it writes, or is
\* about to, repeat the inbox.
LEMMA BridgeSideInv ==
  ASSUME DeliveryInv, BridgeSide, UpOK', TodoOK'
  PROVE  DeliveryInv'
<1>1. CentralInv'
  BY StutterInv DEF DeliveryInv, BridgeSide
<1> QED BY <1>1, BridgeFacts, BridgeDown, BridgeRows DEF DeliveryInv

LEMMA BridgeFrames ==
  ASSUME DeliveryInv, BridgeSide
  PROVE  GoodFrames \subseteq GoodFrames'
BY BridgeFacts, BridgeKeeps, FramesStay

-----------------------------------------------------------------------------
(* The frames the Bridge stages and writes. *)

LEMMA UpStays ==
  ASSUME DeliveryInv, BridgeSide, UNCHANGED up
  PROVE  UpOK'
<1>1. GoodFrames \cup {hello} \subseteq GoodFrames' \cup {hello}
  BY BridgeFrames
<1>2. up \in [Epochs -> Seq(GoodFrames \cup {hello})]
  BY DEF DeliveryInv, UpOK
<1>3. \A e \in Epochs : up'[e] \in Seq(GoodFrames' \cup {hello})
  BY <1>1, <1>2, SeqGrows
<1>4. up' = [e \in Epochs |-> up'[e]]
  BY <1>2
<1> QED BY <1>3, <1>4 DEF UpOK, Epochs, hello

LEMMA TodoStays ==
  ASSUME DeliveryInv, BridgeSide, UNCHANGED todo
  PROVE  TodoOK'
<1>1. \A r \in Runs : todo'[r] \in Seq(GoodFrames')
  BY BridgeFrames, SeqGrows DEF DeliveryInv, TodoOK
<1>2. todo' = [r \in Runs |-> todo'[r]]
  BY DEF DeliveryInv, TodoOK
<1> QED BY <1>1, <1>2 DEF TodoOK

LEMMA TodoStaged ==
  ASSUME DeliveryInv, BridgeSide, NEW q \in Runs, NEW frames \in Seq(GoodFrames'),
         Stage(q, frames)
  PROVE  TodoOK'
<1>1. \A r \in Runs : todo[r] \in Seq(GoodFrames')
  BY BridgeFrames, SeqGrows DEF DeliveryInv, TodoOK
<1>2. todo' = [todo EXCEPT ![q] = frames] /\ todo = [r \in Runs |-> todo[r]]
  BY DEF Stage, DeliveryInv, TodoOK
<1>3. \A r \in Runs : todo'[r] \in Seq(GoodFrames')
  BY <1>1, <1>2
<1>4. todo' = [r \in Runs |-> todo'[r]]
  BY <1>2
<1> QED BY <1>3, <1>4 DEF TodoOK

\* The i-th stored event, as a frame.
LEMMA StoredFrame ==
  ASSUME InboxTypes', NEW r \in Runs, NEW i \in 1..Len(evs'[r]), NEW f,
         f = Frame(r, i + 1, evs'[r][i])
  PROVE  f \in GoodFrames'
<1>1. evs'[r] \in Seq(EventKinds) /\ Len(evs'[r]) \in Nat
  BY DEF InboxTypes
<1>2. evs'[r][i] \in EventKinds
  BY <1>1
<1>3. f.run = r /\ f.seq = i + 1 /\ f.kind = evs'[r][i]
  BY DEF Frame
<1>4. f \in AnyFrames
  BY <1>1, <1>2 DEF Frame, AnyFrames, EventKinds, bridgeKinds
<1>5. Says(f.run, f.seq, f.kind)'
  BY <1>1, <1>3 DEF Says
<1> QED BY <1>4, <1>5 DEF GoodFrames

LEMMA StoredFrames ==
  ASSUME InboxTypes', NEW r \in Runs, NEW es, es = evs'[r]
  PROVE  Envelopes(r, es) \in Seq(GoodFrames')
<1>1. Len(es) \in Nat
  BY DEF InboxTypes
<1>2. \A i \in 1..Len(es) : Frame(r, i + 1, es[i]) \in GoodFrames'
  BY StoredFrame
<1>3. Envelopes(r, es) = [i \in 1..Len(es) |-> Frame(r, i + 1, es[i])]
  BY DEF Envelopes
<1> HIDE DEF GoodFrames
<1> QED BY <1>1, <1>2, <1>3

LEMMA AcceptedFrame ==
  ASSUME NEW r \in Runs, rec'[r] # "none"
  PROVE  <<accepted(r)>> \in Seq(GoodFrames')
<1> DEFINE f == accepted(r)
<1>1. f.run = r /\ f.seq = 1 /\ f.kind = "delivered"
  BY DEF accepted, Frame
<1>2. f \in AnyFrames
  BY DEF accepted, Frame, AnyFrames
<1>3. Says(f.run, f.seq, f.kind)'
  BY <1>1 DEF Says
<1>4. f \in GoodFrames'
  BY <1>2, <1>3 DEF GoodFrames
<1> HIDE DEF f
<1>5. <<f>> \in Seq(GoodFrames')
  BY <1>4
<1> QED BY <1>5 DEF f

\* The acceptance and the stored events: what a replay sends.
LEMMA ReplayFrames ==
  ASSUME InboxTypes', NEW r \in Runs, rec'[r] # "none", NEW es, es = evs'[r]
  PROVE  <<accepted(r)>> \o Envelopes(r, es) \in Seq(GoodFrames')
<1> DEFINE a == <<accepted(r)>>
           b == Envelopes(r, es)
<1>1. a \in Seq(GoodFrames') /\ b \in Seq(GoodFrames')
  BY AcceptedFrame, StoredFrames
<1> HIDE DEF a, b
<1>2. a \o b \in Seq(GoodFrames')
  BY <1>1
<1> QED BY <1>2 DEF a, b

\* An event that was just appended, as a frame.
LEMMA NewFrame ==
  ASSUME InboxTypes, InboxTypes', NEW r \in Runs, NEW k,
         evs'[r] = Append(evs[r], k)
  PROVE  <<Frame(r, Len(evs[r]) + 2, k)>> \in Seq(GoodFrames')
<1>1. /\ evs[r] \in Seq(EventKinds) /\ Len(evs[r]) \in Nat
      /\ Len(evs'[r]) = Len(evs[r]) + 1 /\ evs'[r][Len(evs[r]) + 1] = k
  BY DEF InboxTypes
<1> DEFINE i == Len(evs[r]) + 1
           f == Frame(r, i + 1, evs'[r][i])
<1>2. i \in 1..Len(evs'[r]) /\ i + 1 = Len(evs[r]) + 2 /\ evs'[r][i] = k
  BY <1>1
<1> HIDE DEF i
<1>3. f \in GoodFrames'
  BY <1>2, StoredFrame
<1>4. f = Frame(r, Len(evs[r]) + 2, k)
  BY <1>2
<1> HIDE DEF f
<1>5. <<f>> \in Seq(GoodFrames')
  BY <1>3
<1> QED BY <1>4, <1>5

-----------------------------------------------------------------------------
(* Every step of the Bridge is one of these, with the frames it stages. *)

LEMMA WorkerInv ==
  ASSUME DeliveryInv, NEW q \in Runs, Worker(q)
  PROVE  DeliveryInv'
<1>0. /\ InboxTypes /\ LocalStep(q)
      /\ \A r \in Runs : WorkerOK(r) /\ PlaceOK(r)
  BY Typed DEF Worker, DeliveryInv, InboxInv, BridgeInv
<1>1. BridgeSide
  <2>1. \A r \in Runs : pc'[r] = "accept" => pc[r] = "accept"
    BY <1>0 DEF InboxTypes, LocalStep, Accept, Check, Prepare, FailPreparation, Admit,
       Acquire, QueueExit, CancelBeforeAdmission, CancelAfterAcceptance,
       ClearCancellation, Start, Emit, EmitFails, RuntimeError, emitUnknown,
       SendFails, Done, Goto
  <2> QED BY <1>0, <2>1 DEF Worker, BridgeSide, BridgeNext, socketVars
<1>2. /\ InboxTypes'
      /\ rec[q] # "none" => rec'[q] # "none"
  BY <1>1, BridgeFacts, BridgeKeeps DEF Kept
<1>3. TodoOK'
  <2>1. CASE UNCHANGED todo
    BY <1>1, <2>1, TodoStays
  <2>2. CASE Stage(q, <<>>)
    <3>1. <<>> \in Seq(GoodFrames')
      OBVIOUS
    <3> QED BY <1>1, <2>2, <3>1, TodoStaged
  <2>3. CASE FailPreparation(q)
    <3>1. rec'[q] # "none"
      BY <1>0, <1>2, <2>3 DEF FailPreparation, WorkerOK
    <3>2. \E es : es = evs'[q] /\ Stage(q, <<accepted(q)>> \o Envelopes(q, es))
      <4>1. CASE UNCHANGED evs /\ Stage(q, <<accepted(q)>> \o Envelopes(q, evs[q]))
        BY <4>1
      <4>2. CASE /\ AppendEvent(q, "failed")
                 /\ Stage(q, <<accepted(q)>> \o Envelopes(q, Append(evs[q], "failed")))
        <5>1. evs'[q] = Append(evs[q], "failed")
          BY <1>0, <4>2 DEF AppendEvent, InboxTypes
        <5> QED BY <4>2, <5>1
      <4> QED BY <2>3, <4>1, <4>2 DEF FailPreparation
    <3> QED BY <1>1, <1>2, <3>1, <3>2, ReplayFrames, TodoStaged
  <2>4. CASE CancelBeforeAdmission(q) \/ CancelAfterAcceptance(q)
    <3>1. rec'[q] # "none"
      BY <1>0, <1>2, <2>4
      DEF CancelBeforeAdmission, CancelAfterAcceptance, WorkerOK
    <3>2. evs'[q] = CanceledEvents(q)
      BY <1>0, <2>4
      DEF CancelBeforeAdmission, CancelAfterAcceptance, CancelQueued, InboxTypes
    <3>3. \E es : /\ es = evs'[q]
                  /\ \/ Stage(q, <<accepted(q)>> \o Envelopes(q, es))
                     \/ Stage(q, Envelopes(q, es))
      BY <2>4, <3>2 DEF CancelBeforeAdmission, CancelAfterAcceptance
    <3> QED BY <1>1, <1>2, <3>1, <3>3, ReplayFrames, StoredFrames, TodoStaged
  <2>5. ASSUME NEW k \in EventKinds, AppendEvent(q, k),
               Stage(q, <<Frame(q, Len(evs[q]) + 2, k)>>)
        PROVE  TodoOK'
    <3>1. evs'[q] = Append(evs[q], k)
      BY <1>0, <2>5 DEF AppendEvent, InboxTypes
    <3>2. <<Frame(q, Len(evs[q]) + 2, k)>> \in Seq(GoodFrames')
      BY <1>0, <1>2, <3>1, NewFrame
    <3> QED BY <1>1, <2>5, <3>2, TodoStaged
  <2>6. "outcome_unknown" \in EventKinds
    BY DEF EventKinds
  <2>7. CASE \/ Accept(q) \/ Check(q) \/ Prepare(q) \/ Admit(q) \/ Acquire(q)
             \/ QueueExit(q) \/ ClearCancellation(q) \/ Start(q) \/ RuntimeError(q)
             \/ Done(q)
    BY <2>1, <2>7 DEF Accept, Check, Prepare, Admit, Acquire, QueueExit,
       ClearCancellation, Start, RuntimeError, Done
  <2>8. CASE EmitFails(q) \/ SendFails(q)
    BY <2>2, <2>8 DEF EmitFails, SendFails
  <2>9. CASE emitUnknown(q) \/ \E k \in EventKinds : Emit(q, k)
    BY <2>5, <2>6, <2>9 DEF emitUnknown, Emit
  <2> QED BY <1>0, <2>3, <2>4, <2>7, <2>8, <2>9 DEF LocalStep
<1>4. UpOK'
  BY <1>1, UpStays DEF Worker, socketVars
<1> QED BY <1>1, <1>3, <1>4, BridgeSideInv

\* Frames written to a connection.
LEMMA Written ==
  ASSUME DeliveryInv, BridgeSide, NEW frames \in Seq(GoodFrames'), Write(frames)
  PROVE  UpOK'
<1> DEFINE F == GoodFrames' \cup {hello}
<1>1. GoodFrames \cup {hello} \subseteq F /\ GoodFrames' \subseteq F
  BY BridgeFrames
<1>2. up \in [Epochs -> Seq(GoodFrames \cup {hello})]
  BY DEF DeliveryInv, UpOK
<1> HIDE DEF F
<1>3. \A e \in Epochs : up[e] \in Seq(F)
  BY <1>1, <1>2, SeqGrows
<1>4. frames \in Seq(F)
  BY <1>1, SeqGrows
<1>5. /\ up = [e \in Epochs |-> up[e]]
      /\ up' = up \/ up' = [up EXCEPT ![epoch] = up[epoch] \o frames]
  BY <1>2 DEF Write
<1>6. \A e \in Epochs : up'[e] \in Seq(F)
  <2> SUFFICES ASSUME NEW e \in Epochs PROVE up'[e] \in Seq(F)
    OBVIOUS
  <2>1. up[e] \o frames \in Seq(F)
    BY <1>3, <1>4
  <2> QED BY <1>3, <1>5, <2>1
<1>7. up' = [e \in Epochs |-> up'[e]]
  BY <1>5
<1> QED BY <1>6, <1>7 DEF UpOK, F, Epochs, hello

LEMMA WorkerSendsInv ==
  ASSUME DeliveryInv, NEW q \in Runs, WorkerSends(q)
  PROVE  DeliveryInv'
<1>0. /\ InboxTypes /\ SendStep(q)
      /\ \A r \in Runs : WorkerOK(r) /\ PlaceOK(r)
  BY Typed DEF WorkerSends, DeliveryInv, InboxInv, BridgeInv
<1>1. BridgeSide
  <2>1. \A r \in Runs : pc'[r] = "accept" => pc[r] = "accept"
    BY <1>0 DEF InboxTypes, SendStep, AnnounceFailure, Announce, Report, EmitSend,
                LastWord, Goto
  <2> QED BY <1>0, <2>1 DEF WorkerSends, BridgeSide, BridgeNext
<1>2. InboxTypes' /\ UNCHANGED <<rec, evs>>
  BY <1>0, <1>1, BridgeFacts
  DEF SendStep, AnnounceFailure, Announce, Report, EmitSend, LastWord
<1>3. TodoOK'
  <2>1. <<>> \in Seq(GoodFrames')
    OBVIOUS
  <2>2. UNCHANGED todo \/ Stage(q, <<>>)
    BY <1>0 DEF SendStep, AnnounceFailure, Announce, Report, EmitSend, LastWord
  <2> QED BY <1>1, <2>1, <2>2, TodoStays, TodoStaged
<1>4. todo[q] \in Seq(GoodFrames')
  BY <1>1, BridgeFrames, SeqGrows DEF DeliveryInv, TodoOK
<1>5. pc[q] = "announce" => Announced(q) \in Seq(GoodFrames')
  <2> SUFFICES ASSUME pc[q] = "announce" PROVE Announced(q) \in Seq(GoodFrames')
    OBVIOUS
  <2>1. rec'[q] # "none" /\ evs[q] = evs'[q]
    BY <1>0, <1>2 DEF WorkerOK
  <2>2. <<accepted(q)>> \in Seq(GoodFrames')
    BY <2>1, AcceptedFrame
  <2>3. <<accepted(q)>> \o Envelopes(q, evs[q]) \in Seq(GoodFrames')
    BY <1>2, <2>1, ReplayFrames
  <2>4. <<accepted(q)>> \o <<>> = <<accepted(q)>>
    OBVIOUS
  <2> QED BY <2>2, <2>3, <2>4 DEF Announced
<1>6. UpOK'
  BY <1>1, <1>4, <1>5, Written DEF WorkerSends
<1> QED BY <1>1, <1>3, <1>6, BridgeSideInv

\* The reader: a request makes a worker, a cancellation a tombstone.
LEMMA ReadInv ==
  ASSUME DeliveryInv, Read
  PROVE  DeliveryInv'
<1>t. /\ down \in Seq(DownFrames) /\ down # <<>> /\ Len(down) \in Nat
      /\ 1 \in 1..Len(down) /\ Head(down) = down[1] /\ InboxTypes
  BY Typed DEF Read, DeliveryInv, DownOK
<1>f. PICK f \in DownFrames : f = Head(down)
  BY <1>t
<1>0. /\ down \in Seq(DownFrames) /\ down # <<>> /\ Len(down) \in Nat
      /\ 1 \in 1..Len(down) /\ f = down[1] /\ InboxTypes
  BY <1>t, <1>f
<1>1. PICK r \in Runs : r = f.run /\ f = Order(f.kind, r)
  BY DEF DownFrames, Orders, Order
<1>2. \/ f.kind = "run.requested" /\ RunRequested(r)
      \/ f.kind = "run.cancel_requested" /\ RunCancelRequested(r)
  BY <1>f, <1>1 DEF Read
<1>3. BridgeSide
  <2>1. CASE f.kind = "run.requested" /\ RunRequested(r)
    <3>1. \A q \in Runs : pc'[q] = "accept" => pc[q] = "accept" \/ q = r
      BY <1>0, <2>1 DEF InboxTypes, RunRequested, Goto
    <3> QED BY <1>0, <1>1, <2>1, <3>1 DEF Read, BridgeSide, BridgeNext
  <2>2. CASE f.kind = "run.cancel_requested" /\ RunCancelRequested(r)
    <3>1. \A q \in Runs : pc'[q] = "accept" => pc[q] = "accept"
      BY <1>0, <2>2 DEF InboxTypes, RunCancelRequested, FenceCanceledRun,
                        ReplayCanceledRun, Goto
    <3> QED BY <1>1, <2>2, <3>1 DEF Read, BridgeSide, BridgeNext
  <2> QED BY <1>2, <2>1, <2>2
<1>4. UpOK'
  BY <1>3, UpStays DEF Read
<1>5. CASE f.kind = "run.cancel_requested" /\ RunCancelRequested(r)
  <2>1. CASE UNCHANGED todo
    BY <1>3, <1>4, <2>1, TodoStays, BridgeSideInv
  <2>2. CASE Stage(r, Envelopes(r, evs[r])) /\ UNCHANGED evs
    BY <1>1, <1>3, <1>4, <2>2, BridgeFacts, StoredFrames, TodoStaged, BridgeSideInv
  <2>3. CASE /\ pc[r] = "idle" /\ rec[r] = "none" /\ rec'[r] = "none"
             /\ pc'[r] = "report"
             /\ Stage(r, <<Frame(r, 1, "canceled")>>)
    <3> DEFINE g == Frame(r, 1, "canceled")
    <3>1. g.run = r /\ g.seq = 1 /\ g.kind = "canceled"
      BY DEF Frame
    <3>2. g \in AnyFrames
      BY <1>1 DEF Frame, AnyFrames, bridgeKinds
    <3>3. Doomed(r)'
      <4>1. Doomed(r)
        BY <1>0, <1>1, <1>5 DEF DeliveryInv, DownOK
      <4> QED BY <4>1 DEF Read, centralVars, Doomed
    <3>4. \A i \in 1..Len(down') : down'[i] # Order("run.requested", r)
      <4>1. down' = Tail(down)
        BY DEF Read
      <4>2. ASSUME NEW i \in 1..Len(down'), down'[i] = Order("run.requested", r)
            PROVE  FALSE
        <5>1. i + 1 \in 1..Len(down) /\ down'[i] = down[i + 1] /\ 1 < i + 1
          BY <1>0, <4>1
        <5>2. down[i + 1].kind = "run.requested" /\ down[i + 1].run = r
          BY <4>2, <5>1, OrderFacts
        <5> QED BY <1>0, <1>1, <1>5, <5>1, <5>2 DEF DeliveryInv, DownOK
      <4> QED BY <4>2
    <3>5. Fenced(r)'
      BY <2>3, <3>3, <3>4 DEF Fenced
    <3>6. Says(g.run, g.seq, g.kind)'
      BY <3>1, <3>5 DEF Says
    <3>7. g \in GoodFrames'
      BY <3>2, <3>6 DEF GoodFrames
    <3> HIDE DEF g
    <3>8. <<g>> \in Seq(GoodFrames')
      BY <3>7
    <3>9. Stage(r, <<g>>)
      BY <2>3 DEF g
    <3>10. TodoOK'
      BY <1>1, <1>3, <3>8, <3>9, TodoStaged
    <3> QED BY <1>3, <1>4, <3>10, BridgeSideInv
  <2> QED BY <1>0, <1>1, <1>5, <2>1, <2>2, <2>3
      DEF RunCancelRequested, FenceCanceledRun, ReplayCanceledRun, Goto, isActive,
          InboxTypes
<1>6. CASE f.kind = "run.requested" /\ RunRequested(r)
  <2>1. UNCHANGED todo
    BY <1>6 DEF RunRequested
  <2> QED BY <1>3, <1>4, <2>1, TodoStays, BridgeSideInv
<1> QED BY <1>2, <1>5, <1>6

\* A worker or the connection fails: nothing is staged, and what was on its
\* way to the Bridge is kept or lost.
LEMMA BridgeFailureInv ==
  ASSUME DeliveryInv,
         BridgeFails \/ PreparationFails \/ BridgeDisconnects \/ BridgeDies
  PROVE  DeliveryInv'
<1>0. InboxTypes
  BY Typed
<1>1. BridgeSide
  <2>1. \A r \in Runs : pc'[r] = "accept" => pc[r] = "accept"
    BY <1>0 DEF InboxTypes, BridgeFails, PreparationFails, BridgeDisconnects,
       BridgeDies, Fail, PrepareRetryable, Disconnect, BridgeCrash, Goto
  <2>2. BridgeNext /\ UNCHANGED centralVars
    BY DEF BridgeFails, PreparationFails, BridgeDisconnects, BridgeDies, BridgeNext,
           Leave
  <2>3. UNCHANGED down \/ down' = <<>>
    BY DEF BridgeFails, PreparationFails, BridgeDisconnects, BridgeDies, Leave,
           socketVars
  <2> QED BY <2>1, <2>2, <2>3 DEF BridgeSide
<1>2. UpOK'
  BY <1>1, UpStays
  DEF BridgeFails, PreparationFails, BridgeDisconnects, BridgeDies, Leave, socketVars
<1>3. TodoOK'
  <2>1. UNCHANGED todo \/ todo' = [r \in Runs |-> <<>>]
    BY DEF BridgeFails, PreparationFails, BridgeDisconnects, BridgeDies,
       Fail, PrepareRetryable, Disconnect, BridgeCrash
  <2>2. CASE todo' = [r \in Runs |-> <<>>]
    <3>1. <<>> \in Seq(GoodFrames')
      OBVIOUS
    <3> QED BY <2>2, <3>1 DEF TodoOK
  <2> QED BY <1>1, <2>1, <2>2, TodoStays
<1> QED BY <1>1, <1>2, <1>3, BridgeSideInv

\* Recovery and the replay after hello.
LEMMA BridgeConnectsInv ==
  ASSUME DeliveryInv, BridgeConnects
  PROVE  DeliveryInv'
<1>0. InboxTypes
  BY Typed
<1>1. BridgeSide
  BY <1>0 DEF BridgeConnects, Connect, BridgeSide, BridgeNext
<1>2. InboxTypes' /\ \A r \in Runs : rec[r] # "none" => rec'[r] # "none"
  BY <1>1, BridgeFacts, BridgeKeeps DEF Kept
<1>3. TodoOK'
  BY <1>1, TodoStays DEF BridgeConnects, Connect
<1>4. ASSUME NEW r \in Runs PROVE Replayed(r) \in Seq(GoodFrames')
  <2>1. evs'[r] = RecoveredEvents(r)
    BY DEF BridgeConnects, Connect
  <2>2. <<>> \in Seq(GoodFrames')
    OBVIOUS
  <2>3. CASE rec[r] = "none"
    BY <2>2, <2>3 DEF Replayed
  <2>4. CASE rec[r] # "none"
    <3>1. <<accepted(r)>> \o Envelopes(r, RecoveredEvents(r)) \in Seq(GoodFrames')
      BY <1>2, <2>1, <2>4, ReplayFrames
    <3> QED BY <2>2, <3>1 DEF Replayed
  <2> QED BY <2>3, <2>4
<1> DEFINE order == SetToSeq(Runs)
           n == Len(order)
           ss == [i \in 1..n |-> Replayed(order[i])]
           F == GoodFrames' \cup {hello}
<1>5. order \in Seq(Runs) /\ n \in Nat
  BY SetToSeqFacts, DeliveryAssumption
<1>6. FlattenSeq(ss) \in Seq(GoodFrames')
  <2> HIDE DEF order
  <2>1. \A i \in 1..n : order[i] \in Runs
    BY <1>5
  <2>2. ss \in [1..n -> Seq(GoodFrames')]
    BY <1>4, <2>1
  <2> HIDE DEF n, ss
  <2> QED BY <1>5, <2>2, FlattenType
<1>7. up' = [up EXCEPT ![epoch + 1] = <<hello>> \o FlattenSeq(ss)]
  BY DEF BridgeConnects
<1> HIDE DEF ss
<1>8. <<hello>> \o FlattenSeq(ss) \in Seq(F)
  <2>1. FlattenSeq(ss) \in Seq(F)
    BY <1>6, SeqGrows
  <2>2. hello \in F
    OBVIOUS
  <2> HIDE DEF F, hello
  <2> QED BY <2>1, <2>2
<1>9. UpOK'
  <2>1. GoodFrames \cup {hello} \subseteq F
    BY <1>1, BridgeFrames
  <2>2. up \in [Epochs -> Seq(GoodFrames \cup {hello})]
    BY DEF DeliveryInv, UpOK
  <2> HIDE DEF F
  <2>3. \A e \in Epochs : up[e] \in Seq(F)
    BY <2>1, <2>2, SeqGrows
  <2>4. up = [e \in Epochs |-> up[e]]
    BY <2>2
  <2>5. \A e \in Epochs : up'[e] \in Seq(F)
    BY <1>7, <1>8, <2>3, <2>4
  <2>6. up' = [e \in Epochs |-> up'[e]]
    BY <1>7, <2>4
  <2> QED BY <2>5, <2>6 DEF UpOK, F, Epochs, hello
<1> QED BY <1>1, <1>3, <1>9, BridgeSideInv

-----------------------------------------------------------------------------
(***************************************************************************)
(* All steps.                                                              *)
(***************************************************************************)
LEMMA SocketInv ==
  ASSUME DeliveryInv, UNCHANGED <<centralVars, bridgeVars, down>>,
         up' \in [Epochs -> Seq(GoodFrames \cup {hello})]
  PROVE  DeliveryInv'
<1>1. CentralInv' /\ BridgeInv'
  BY StutterInv, BridgeStutterInv DEF DeliveryInv, InboxInv
<1>2. UNCHANGED <<state, log, delivery, intent, rec, evs, pc, todo, started, down>>
  BY DEF centralVars, bridgeVars
<1>3. \A r \in Runs : WorkerOK(r)'
  BY <1>2 DEF DeliveryInv, InboxInv, WorkerOK
<1>4. \A r \in Runs : Kept(r)
  <2>1. \A r \in Runs : Len(evs[r]) \in Nat
    BY Typed DEF InboxTypes
  <2> QED BY <1>2, <2>1 DEF Kept, Fenced, Doomed
<1>5. InboxTypes /\ InboxTypes'
  BY <1>1, Typed DEF BridgeInv
<1>6. GoodFrames \subseteq GoodFrames'
  BY <1>4, <1>5, FramesStay
<1>7. UpOK'
  <2>1. \A e \in Epochs : up'[e] \in Seq(GoodFrames' \cup {hello})
    <3>1. GoodFrames \cup {hello} \subseteq GoodFrames' \cup {hello}
      BY <1>6
    <3> QED BY <3>1, SeqGrows
  <2>2. up' = [e \in Epochs |-> up'[e]]
    OBVIOUS
  <2> QED BY <2>1, <2>2 DEF UpOK, Epochs, hello
<1>8. TodoOK'
  <2>1. \A r \in Runs : todo[r] \in Seq(GoodFrames')
    BY <1>6, SeqGrows DEF DeliveryInv, TodoOK
  <2>2. todo = [r \in Runs |-> todo[r]]
    BY DEF DeliveryInv, TodoOK
  <2> QED BY <1>2, <2>1, <2>2 DEF TodoOK
<1>9. DownOK'
  BY <1>2 DEF DeliveryInv, DownOK, Doomed
<1>10. \A r \in Runs : LogOK(r)'
  BY <1>2, <1>4, <1>5, LogStays
<1>11. \A r \in Runs : EventsOK(r)' /\ DispatchedOK(r)' /\ ShownOK(r)'
  BY <1>2, <1>4 DEF DeliveryInv, EventsOK, DispatchedOK, ShownOK, Kept
<1> QED BY <1>1, <1>3, <1>7, <1>8, <1>9, <1>10, <1>11 DEF DeliveryInv, InboxInv

\* Central's steps.
CentralMoves ==
  \/ \E r \in Runs : MemberStep(r) \/ Dispatch(r) \/ Cancel(r) \/ TimePasses(r)
  \/ Sweep \/ Heartbeat \/ ListRuns \/ Revoke
  \/ \E e \in Epochs : Hello(e) \/ Receive(e)
  \/ CentralCrash \/ CentralRestart

LEMMA CentralMovesSide ==
  ASSUME DeliveryInv, CentralMoves
  PROVE  CentralSide
<1>1. CASE \E r \in Runs : MemberStep(r) \/ TimePasses(r)
  <2>1. OwnStep /\ UNCHANGED <<bridgeVars, up, down>>
    BY <1>1 DEF MemberStep, TimePasses, OwnStep, socketVars
  <2> QED BY <2>1, SilentSends, UpShrinks, OwnSide
<1>2. CASE ListRuns \/ CentralRestart
  <2>1. OwnStep /\ UNCHANGED <<bridgeVars, up, down>>
    BY <1>2 DEF ListRuns, CentralRestart, OwnStep, socketVars
  <2> QED BY <2>1, SilentSends, UpShrinks, OwnSide
<1>3. CASE Heartbeat
  <2>1. UNCHANGED up
    BY <1>3 DEF Heartbeat
  <2> QED BY <1>3, <2>1, ContactSide, UpShrinks DEF Heartbeat
<1>4. ASSUME NEW e \in Epochs, Hello(e) PROVE CentralSide
  <2>1. up[e] # <<>> /\ up' = [up EXCEPT ![e] = Tail(@)]
    BY <1>4 DEF Hello, Readable
  <2> QED BY <1>4, <2>1, ContactSide, UpShrinks DEF Hello
<1> QED BY <1>1, <1>2, <1>3, <1>4, DispatchSide, CancelSide, SweepSide, RevokeSide,
           ReceiveSide, CrashSide DEF CentralMoves

\* The Bridge's steps.
BridgeMoves ==
  \/ \E r \in Runs : Worker(r) \/ WorkerSends(r)
  \/ Read \/ BridgeFails \/ PreparationFails \/ BridgeDisconnects \/ BridgeDies
  \/ BridgeConnects

\* The steps of the sockets alone.
SocketMoves == \E e \in Epochs : StaleHello(e) \/ Reject(e) \/ SocketClosed(e)

LEMMA Moving == Next <=> CentralMoves \/ BridgeMoves \/ SocketMoves
BY DEF Next, CentralMoves, BridgeMoves, SocketMoves

LEMMA DeliveryStep ==
  ASSUME DeliveryInv, [Next]_vars
  PROVE  DeliveryInv'
<1>1. CASE CentralMoves
  BY <1>1, CentralMovesSide, CentralSideInv
<1>2. CASE BridgeMoves
  BY <1>2, WorkerInv, WorkerSendsInv, ReadInv, BridgeFailureInv, BridgeConnectsInv
  DEF BridgeMoves
<1>3. CASE SocketMoves
  <2>1. /\ UNCHANGED <<centralVars, bridgeVars, down>>
        /\ \/ \E e \in Epochs : up[e] # <<>> /\ up' = [up EXCEPT ![e] = Tail(@)]
           \/ \E e \in Epochs : up' = [up EXCEPT ![e] = <<>>]
    BY <1>3 DEF SocketMoves, StaleHello, Reject, SocketClosed, Readable
  <2> QED BY <2>1, UpShrinks, SocketInv
<1>4. CASE UNCHANGED vars
  <2>1. UNCHANGED <<centralVars, bridgeVars, down>> /\ UNCHANGED up
    BY <1>4 DEF vars, socketVars
  <2> QED BY <2>1, UpShrinks, SocketInv
<1> QED BY <1>1, <1>2, <1>3, <1>4, Moving

LEMMA DeliveryInit ==
  ASSUME Init
  PROVE  DeliveryInv
<1>1. CentralInv /\ BridgeInv
  BY InitInv, BridgeInitInv DEF Init
<1>2. /\ down = <<>> /\ up = [e \in Epochs |-> <<>>]
      /\ todo = [r \in Runs |-> <<>>]
      /\ \A r \in Runs : /\ rec[r] = "none" /\ evs[r] = <<>> /\ pc[r] = "idle"
                         /\ log[r] = <<>> /\ state[r] = "none"
  BY DEF Init, CentralInit, BridgeInit
<1>3. \A S : <<>> \in Seq(S)
  OBVIOUS
<1>4. UpOK /\ TodoOK /\ DownOK
  BY <1>2, <1>3 DEF UpOK, TodoOK, DownOK
<1>5. ASSUME NEW r \in Runs
      PROVE  WorkerOK(r) /\ EventsOK(r) /\ DispatchedOK(r) /\ LogOK(r) /\ ShownOK(r)
  <2>1. WorkerOK(r) /\ DispatchedOK(r) /\ ShownOK(r)
    BY <1>2 DEF WorkerOK, DispatchedOK, ShownOK
  <2>2. EventsOK(r) /\ LogOK(r)
    BY <1>2 DEF EventsOK, LogOK
  <2> QED BY <2>1, <2>2
<1> QED BY <1>1, <1>4, <1>5 DEF DeliveryInv, InboxInv

\* DeliveryInv is an inductive invariant of the whole.
LEMMA DeliveryInductive == Spec => []DeliveryInv
<1>1. Init => DeliveryInv
  BY DeliveryInit
<1>2. DeliveryInv /\ [Next]_vars => DeliveryInv'
  BY DeliveryStep
<1> QED BY <1>1, <1>2, PTL DEF Spec

\* Whatever is lost, replayed or late, every event that Central took from the
\* Bridge is the one the inbox holds at that sequence.
THEOREM DeliveryAgrees == Spec => []Agreement
<1>1. DeliveryInv => Agreement
  BY DEF DeliveryInv, LogOK, Says, Fenced, Agreement
<1> QED BY <1>1, DeliveryInductive, PTL

-----------------------------------------------------------------------------
(***************************************************************************)
(* Delivery implements ManagedRun, Run by Run.                             *)
(***************************************************************************)
\* What ManagedRun sees of a step of the Run r.
Promised(r) == [M(r)!RunNext]_(M(r)!runVars)

\* The Bridge's part of it does not move while its record and its Runtime
\* count stand still, nor Central's while the Run's state does.
LEMMA SeenStill ==
  ASSUME NEW r \in Runs
  PROVE  /\ state'[r] = state[r] => Shown(r)' = Shown(r)
         /\ rec'[r] = rec[r] => Recorded(r)' = Recorded(r)
BY DEF Shown, Recorded

\* Central moves what is shown as ManagedRun lets it.
LEMMA ShownMoves ==
  ASSUME NEW r \in Runs, UNCHANGED <<rec, started>>,
         \/ Shown(r)' = Shown(r)
         \/ Shown(r) = "none" /\ Shown(r)' = "open"
         \/ /\ Shown(r) = "open"
            /\ \/ Shown(r)' \in {"expired", "failed", "outcome_unknown"}
               \/ /\ Shown(r)' = "completed" /\ Recorded(r) = "completed"
               \/ /\ Shown(r)' = "canceled"
                  /\ ~(started[r] > 0) \/ Recorded(r) \in {"input_required", "canceled"}
  PROVE  Promised(r)
<1>1. Recorded(r)' = Recorded(r) /\ (started[r] > 0)' = (started[r] > 0)
  BY DEF Recorded
<1>2. CASE Shown(r)' = Shown(r)
  BY <1>1, <1>2 DEF Promised, M!runVars
<1>3. CASE Shown(r) = "none" /\ Shown(r)' = "open"
  BY <1>1, <1>3 DEF Promised, M!RunNext, M!Submit
<1>4. CASE Shown(r) = "open" /\ Shown(r)' \in {"expired", "failed", "outcome_unknown"}
  BY <1>1, <1>4 DEF Promised, M!RunNext, M!GiveUp
<1>5. CASE Shown(r) = "open" /\ Shown(r)' = "completed" /\ Recorded(r) = "completed"
  BY <1>1, <1>5 DEF Promised, M!RunNext, M!Learn, M!Outcomes
<1>6. CASE /\ Shown(r) = "open" /\ Shown(r)' = "canceled"
           /\ ~(started[r] > 0) \/ Recorded(r) \in {"input_required", "canceled"}
  BY <1>1, <1>6 DEF Promised, M!RunNext, M!Cancel
<1> QED BY <1>2, <1>3, <1>4, <1>5, <1>6

\* A Run without a record, or whose record waits or is cancelled, may be shown
\* canceled.
LEMMA MayShowCanceled ==
  ASSUME DeliveryInv, NEW r \in Runs,
         rec[r] \in {"none", "input_required", "canceled"}
  PROVE  ~(started[r] > 0) \/ Recorded(r) \in {"input_required", "canceled"}
<1>1. started[r] \in Nat /\ PlaceOK(r)
  BY Typed DEF DeliveryInv, InboxInv, BridgeInv, InboxTypes
<1> QED BY <1>1 DEF PlaceOK, Recorded, isTerminalState, isCancellationTerminalState

\* A step of Central is one of ManagedRun, or a stutter.
LEMMA CentralPromises ==
  ASSUME DeliveryInv, CentralSide, NEW r \in Runs
  PROVE  Promised(r)
<1>0. UNCHANGED <<rec, started>> /\ state[r] \in States
  BY Typed DEF CentralSide, bridgeVars, RowTypes
<1>1. ShownOK(r) /\ DispatchedOK(r)
  BY DEF DeliveryInv
<1>2. CASE Rests(r)
  <2>1. Shown(r)' = Shown(r)
    BY <1>2, SeenStill DEF Rests
  <2> QED BY <1>0, <2>1, ShownMoves
<1>3. CASE Born(r)
  <2>1. Shown(r) = "none" /\ Shown(r)' = "open"
    BY <1>3 DEF Born, Shown, terminalStates
  <2> QED BY <1>0, <2>1, ShownMoves
<1>4. ASSUME NEW e \in Entries, Takes(r, e), Verdict(r, e)
      PROVE  Promised(r)
  <2>1. Shown(r) = "open" /\ Shown(r)' = e.kind
    BY <1>4 DEF Takes, Verdict, Active, Shown, terminalStates
  <2>2. e.kind = "canceled" => rec[r] \in {"none", "input_required", "canceled"}
    BY <1>1, <1>4 DEF Verdict, CancelsDirectly, ShownOK, DispatchedOK
  <2>3. e.kind = "canceled" =>
          ~(started[r] > 0) \/ Recorded(r) \in {"input_required", "canceled"}
    BY <2>2, MayShowCanceled
  <2>4. e.kind \in {"expired", "failed", "outcome_unknown", "canceled"}
    BY <1>4 DEF Verdict
  <2> QED BY <1>0, <2>1, <2>3, <2>4, ShownMoves
<1>5. ASSUME NEW f \in GoodFrames, Heard(r, f)
      PROVE  Promised(r)
  <2>1. /\ f.run = r
        /\ Active(r)
        /\ state'[r] = (IF f.kind = "output" THEN state[r] ELSE f.kind)
    BY <1>5 DEF Heard, Takes
  <2>2. /\ f.kind = "canceled" => rec[r] = "canceled" \/ Fenced(r)
        /\ f.kind \in {"completed", "failed", "outcome_unknown"} => rec[r] = f.kind
        /\ f.kind = "delivered" \/ f.kind \in bridgeKinds
    BY <1>5, <2>1, FrameMeans
  <2>3. Shown(r) = "open"
    BY <2>1 DEF Active, Shown
  <2>4. CASE f.kind \notin terminalStates
    <3>1. Shown(r)' = "open"
      BY <1>0, <2>1, <2>2, <2>4 DEF Active, Shown, bridgeKinds, terminalStates
    <3> QED BY <1>0, <2>3, <3>1, ShownMoves
  <2>5. CASE f.kind \in terminalStates
    <3>1. Shown(r)' = f.kind
      BY <2>1, <2>5 DEF Shown, terminalStates
    <3>2. f.kind = "completed" => Recorded(r) = "completed"
      BY <2>2 DEF Recorded, isTerminalState, isCancellationTerminalState
    <3>3. f.kind = "canceled" =>
            ~(started[r] > 0) \/ Recorded(r) \in {"input_required", "canceled"}
      BY <2>2, MayShowCanceled DEF Fenced
    <3>4. f.kind \in {"completed", "canceled", "expired", "failed", "outcome_unknown"}
      BY <2>5 DEF terminalStates
    <3> QED BY <1>0, <2>3, <3>1, <3>2, <3>3, <3>4, ShownMoves
  <2> QED BY <2>4, <2>5
<1>6. Judged(r) \/ \E f \in GoodFrames : Heard(r, f)
  BY DEF CentralSide
<1> QED BY <1>2, <1>3, <1>4, <1>5, <1>6 DEF Judged

\* The Bridge's steps, with Central standing still.
LEMMA BridgeMovesAlone ==
  ASSUME DeliveryInv, BridgeMoves
  PROVE  BridgeNext /\ UNCHANGED centralVars
<1>1. CASE \E r \in Runs : Worker(r) \/ WorkerSends(r)
  BY <1>1 DEF Worker, WorkerSends, BridgeNext
<1>2. CASE Read
  <2>1. /\ down \in Seq(DownFrames) /\ down # <<>>
        /\ \/ RunRequested(Head(down).run)
           \/ RunCancelRequested(Head(down).run)
        /\ UNCHANGED centralVars
    BY <1>2 DEF Read, DeliveryInv, DownOK
  <2>2. Head(down) \in DownFrames
    BY <2>1
  <2>3. PICK r \in Runs : r = Head(down).run
    BY <2>2 DEF DownFrames, Orders, Order
  <2> QED BY <2>1, <2>3 DEF BridgeNext
<1>3. CASE BridgeFails \/ PreparationFails \/ BridgeDisconnects \/ BridgeDies
  BY <1>3 DEF BridgeFails, PreparationFails, BridgeDisconnects, BridgeDies, Leave,
              BridgeNext
<1>4. CASE BridgeConnects
  BY <1>4 DEF BridgeConnects, BridgeNext
<1> QED BY <1>1, <1>2, <1>3, <1>4 DEF BridgeMoves

\* A step of the Bridge is one of ManagedRun, or a stutter.
LEMMA BridgePromises ==
  ASSUME DeliveryInv, BridgeMoves, NEW r \in Runs
  PROVE  Promised(r)
<1>0. InboxStep(r) /\ state'[r] = state[r]
  BY BridgeMovesAlone, InboxShape DEF DeliveryInv, centralVars
<1>1. /\ started[r] \in Nat /\ PlaceOK(r) /\ DispatchedOK(r) /\ ShownOK(r)
      /\ state[r] \in States /\ Shown(r)' = Shown(r)
  BY <1>0, Typed, SeenStill
     DEF DeliveryInv, InboxInv, BridgeInv, InboxTypes, RowTypes
<1>2. CASE Keeps(r) /\ started'[r] = started[r]
  <2>1. Recorded(r)' = Recorded(r)
    BY <1>2, SeenStill DEF Keeps
  <2> QED BY <1>1, <1>2, <2>1 DEF Promised, M!runVars
<1>3. CASE Keeps(r) /\ rec[r] = "accepted" /\ started[r] = 0 /\ started'[r] = 1
  <2>1. Recorded(r)' = "none" /\ Recorded(r) = "none"
    BY <1>3 DEF Keeps, Recorded, isTerminalState, isCancellationTerminalState
  <2>2. Shown(r) \notin {"none", "canceled"}
    <3>1. state[r] # "canceled"
      BY <1>1, <1>3 DEF ShownOK, Fenced
    <3>2. state[r] # "none"
      <4>1. delivery[r] # "none"
        BY <1>1, <1>3 DEF DispatchedOK
      <4> QED BY <4>1 DEF DeliveryInv, CentralInv, CentralTypeOK
    <3> QED BY <3>1, <3>2 DEF Shown
  <2>3. ~(started[r] > 0) /\ (started[r] > 0)' = TRUE
    BY <1>3
  <2> QED BY <1>1, <2>1, <2>2, <2>3 DEF Promised, M!RunNext, M!Begin
<1>4. CASE Moves(r) /\ started'[r] = started[r]
  <2>1. Recorded(r)' = Recorded(r)
    BY <1>4 DEF Moves, Recorded, isTerminalState, isCancellationTerminalState
  <2> QED BY <1>1, <1>4, <2>1 DEF Promised, M!runVars
<1>5. ASSUME NEW k \in EventKinds, Gets(r, k), started'[r] = started[r]
      PROVE  Promised(r)
  <2>1. (started[r] > 0)' = (started[r] > 0)
    BY <1>5
  <2>2. CASE k \in {"output", "working"}
    <3>1. Recorded(r)' = Recorded(r)
      BY <1>5, <2>2
      DEF Gets, Recorded, isTerminalState, isCancellationTerminalState
    <3> QED BY <1>1, <2>1, <3>1 DEF Promised, M!runVars
  <2>3. CASE k \notin {"output", "working"}
    <3>1. Recorded(r)' = k /\ k \in M(r)!Outcomes
      BY <1>5, <2>3 DEF Gets, EventKinds, Recorded, isTerminalState,
                        isCancellationTerminalState, M!Outcomes
    <3>2. \/ Recorded(r) = "none"
          \/ Recorded(r) = "input_required" /\ k = "canceled"
      BY <1>5 DEF Gets, Recorded, isTerminalState
    <3>3. k \in {"completed", "input_required"} => started[r] > 0
      BY <1>5 DEF Gets
    <3> QED BY <1>1, <2>1, <3>1, <3>2, <3>3 DEF Promised, M!RunNext, M!Conclude
  <2> QED BY <2>2, <2>3
<1> QED BY <1>0, <1>2, <1>3, <1>4, <1>5 DEF InboxStep

\* Whatever is lost, duplicated, late or restarted, every Run behaves as
\* ManagedRun promises: its Runtime is begun at most once and never after the
\* Run is shown canceled, and a member is shown completed or canceled only as
\* the Bridge recorded it, or when the Runtime never begins.
THEOREM DeliveryRefines == Spec => ImplementsManagedRun
<1>1. Init => \A r \in Runs : M(r)!RunInit
  <2> SUFFICES ASSUME Init, NEW r \in Runs PROVE M(r)!RunInit
    OBVIOUS
  <2>1. state[r] = "none" /\ rec[r] = "none" /\ started[r] = 0
    BY DEF Init, CentralInit, BridgeInit
  <2>2. Shown(r) = "none" /\ Recorded(r) = "none" /\ (started[r] > 0) = FALSE
    BY <2>1 DEF Shown, Recorded, isTerminalState, isCancellationTerminalState
  <2> QED BY <2>2 DEF M!RunInit
<1>2. DeliveryInv /\ [Next]_vars =>
        [\A r \in Runs : [M(r)!RunNext]_(M(r)!runVars)]_vars
  <2> SUFFICES ASSUME DeliveryInv, Next, NEW r \in Runs PROVE Promised(r)
    BY DEF Promised
  <2>1. CASE CentralMoves
    BY <2>1, CentralMovesSide, CentralPromises
  <2>2. CASE BridgeMoves
    BY <2>2, BridgePromises
  <2>3. CASE SocketMoves
    <3>1. state'[r] = state[r] /\ rec'[r] = rec[r] /\ started'[r] = started[r]
      BY <2>3 DEF SocketMoves, StaleHello, Reject, SocketClosed, centralVars,
                  bridgeVars
    <3>2. Shown(r)' = Shown(r) /\ Recorded(r)' = Recorded(r)
      BY <3>1, SeenStill
    <3> QED BY <3>1, <3>2 DEF Promised, M!runVars
  <2> QED BY <2>1, <2>2, <2>3, Moving
<1> QED BY <1>1, <1>2, DeliveryInductive, PTL DEF Spec, ImplementsManagedRun
===============================================================================
