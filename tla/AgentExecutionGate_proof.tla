---------------------- MODULE AgentExecutionGate_proof ----------------------
(***************************************************************************)
(* Proofs about AgentExecutionGate, for every set of Agents and workers.   *)
(* Mutual exclusion is not inductive: a selected waiter becomes a holder   *)
(* one step later.  GateInv speaks of the owners of a slot, a notion the   *)
(* release/cancellation race preserves.                                    *)
(***************************************************************************)
EXTENDS AgentExecutionGate, TLAPS

\* The types alone, without the queues' connection to their Agents.
GateTypes ==
  /\ active \in [Agents -> BOOLEAN]
  /\ queues \in [Agents -> Seq(Workers)]
  /\ ready \in [Workers -> BOOLEAN]
  /\ ctxDone \in [Workers -> BOOLEAN]
  /\ pc \in [Workers -> Places]

Parked(w) == pc[w] \in {"waiting", "removing"} /\ ~ready[w]

\* At most one worker answers for an Agent's slot.
OneOwner ==
  \A v, w \in Workers :
    Owns(v) /\ Owns(w) /\ AgentOf[v] = AgentOf[w] => v = w

\* A queue holds parked workers of its own Agent, each at most once.
QueueOK ==
  \A a \in Agents : \A i \in 1..Len(queues[a]) :
    /\ AgentOf[queues[a][i]] = a
    /\ Parked(queues[a][i])
    /\ \A j \in 1..Len(queues[a]) : queues[a][i] = queues[a][j] => i = j

\* A parked worker is in its Agent's queue and the slot is in use.
ParkedOK == \A w \in Workers : Parked(w) => Queued(w) /\ active[AgentOf[w]]

\* A worker between two Runs has a fresh, open channel.
IdleOK == \A w \in Workers : pc[w] = "idle" => ~ready[w]

GateInv ==
  /\ GateTypes
  /\ OneOwner
  /\ SlotHasOwner
  /\ QueueOK
  /\ ParkedOK
  /\ IdleOK

\* Taking one cell out of a queue of workers leaves a queue of workers.
LEMMA WithoutType ==
  ASSUME NEW q \in Seq(Workers), NEW i \in 1..Len(q)
  PROVE  /\ Without(q, i) \in Seq(Workers)
         /\ Len(Without(q, i)) = Len(q) - 1
         /\ \A j \in 1..(Len(q) - 1) :
              Without(q, i)[j] = IF j < i THEN q[j] ELSE q[j + 1]
<1> DEFINE n == Len(q) - 1
           r == [j \in 1..n |-> IF j < i THEN q[j] ELSE q[j + 1]]
<1>1. n \in Nat /\ Len(q) \in Nat
  OBVIOUS
<1>2. \A j \in 1..n : (IF j < i THEN q[j] ELSE q[j + 1]) \in Workers
  BY <1>1
<1>3. r \in [1..n -> Workers]
  BY <1>2
<1>4. r \in Seq(Workers) /\ Len(r) = n
  BY <1>1, <1>3
<1> QED
  BY <1>4 DEF Without

\* The plain types survive every step.
LEMMA GateTypesStep == GateTypes /\ [Next]_vars => GateTypes'
<1> SUFFICES ASSUME GateTypes, [Next]_vars PROVE GateTypes'
  OBVIOUS
<1> USE GateAssumption DEF GateTypes, Places
<1>0. ASSUME NEW a \in Agents, release(a)
      PROVE  /\ active' \in [Agents -> BOOLEAN]
             /\ queues' \in [Agents -> Seq(Workers)]
             /\ ready' \in [Workers -> BOOLEAN]
  <2>1. CASE queues[a] = <<>>
    BY <1>0, <2>1 DEF release
  <2>2. CASE queues[a] # <<>>
    <3>1. Head(queues[a]) \in Workers /\ Tail(queues[a]) \in Seq(Workers)
      BY <2>2
    <3> QED
      BY <1>0, <2>2, <3>1 DEF release
  <2> QED
    BY <2>1, <2>2
<1>1. ASSUME NEW w \in Workers, Acquire(w) PROVE GateTypes'
  <2>1. AgentOf[w] \in Agents /\ Append(queues[AgentOf[w]], w) \in Seq(Workers)
    OBVIOUS
  <2>2. CASE ~active[AgentOf[w]]
    BY <1>1, <2>1, <2>2 DEF Acquire
  <2>3. CASE active[AgentOf[w]]
    <3> DEFINE q == Append(queues[AgentOf[w]], w)
    <3>1. q \in Seq(Workers)
      BY <2>1
    <3>2. /\ queues' = [queues EXCEPT ![AgentOf[w]] = q]
          /\ pc' = [pc EXCEPT ![w] = "waiting"]
          /\ UNCHANGED <<active, ready, ctxDone>>
      BY <1>1, <2>3 DEF Acquire
    <3> HIDE DEF q
    <3> QED
      BY <2>1, <3>1, <3>2
  <2> QED
    BY <2>2, <2>3
<1>2. ASSUME NEW w \in Workers, WakeReady(w) PROVE GateTypes'
  BY <1>2 DEF WakeReady
<1>3. ASSUME NEW w \in Workers, WakeDone(w) PROVE GateTypes'
  BY <1>3 DEF WakeDone
<1>4. ASSUME NEW w \in Workers, Remove(w) PROVE GateTypes'
  <2> DEFINE a == AgentOf[w]
  <2>1. CASE \E i \in 1..Len(queues[a]) :
               /\ queues' = [queues EXCEPT ![a] = Without(@, i)]
               /\ pc' = [pc EXCEPT ![w] = "left"]
    <3>1. PICK i \in 1..Len(queues[a]) :
               /\ queues' = [queues EXCEPT ![a] = Without(@, i)]
               /\ pc' = [pc EXCEPT ![w] = "left"]
      BY <2>1
    <3>2. Without(queues[a], i) \in Seq(Workers)
      BY WithoutType
    <3> QED
      BY <1>4, <3>1, <3>2 DEF Remove
  <2>2. CASE pc' = [pc EXCEPT ![w] = "returning"] /\ UNCHANGED queues
    BY <1>4, <2>2 DEF Remove
  <2> QED
    BY <1>4, <2>1, <2>2 DEF Remove
<1>5. ASSUME NEW w \in Workers, ReturnSlot(w) PROVE GateTypes'
  BY <1>0, <1>5 DEF ReturnSlot
<1>6. ASSUME NEW w \in Workers, Release(w) PROVE GateTypes'
  BY <1>0, <1>6 DEF Release
<1>7. ASSUME NEW w \in Workers, Cancel(w) PROVE GateTypes'
  BY <1>7 DEF Cancel
<1>8. ASSUME NEW w \in Workers, NextRun(w) PROVE GateTypes'
  BY <1>8 DEF NextRun
<1>9. CASE UNCHANGED vars
  BY <1>9 DEF vars
<1> QED
  BY <1>1, <1>2, <1>3, <1>4, <1>5, <1>6, <1>7, <1>8, <1>9 DEF Next

\* What a release does to the invariant: the worker that owned the slot leaves
\* and the head of the queue, if there is one, becomes the owner.
LEMMA ReleaseStep ==
  ASSUME GateInv, GateTypes', NEW w \in Workers,
         pc[w] \in {"holding", "returning"},
         release(AgentOf[w]), pc' = [pc EXCEPT ![w] = "left"]
  PROVE  GateInv'
<1> DEFINE a == AgentOf[w]
           q == queues[a]
<1>0. a \in Agents /\ q \in Seq(Workers)
  BY GateAssumption DEF GateInv, GateTypes
<1>1. CASE q = <<>>
  <2>1. /\ active' = [active EXCEPT ![a] = FALSE]
        /\ UNCHANGED <<queues, ready>>
    BY <1>1 DEF release
  <2>2. \A v \in Workers : Owns(v)' <=> Owns(v) /\ v # w
    BY <2>1 DEF Owns, GateInv, GateTypes
  <2>3. \A v \in Workers : Parked(v)' <=> Parked(v)
    BY <2>1 DEF Parked, GateInv, GateTypes
  <2>4. Owns(w)
    BY DEF Owns
  <2>5. OneOwner'
    BY <2>2 DEF OneOwner, GateInv
  <2>6. SlotHasOwner'
    <3> SUFFICES ASSUME NEW b \in Agents
                 PROVE  active'[b] <=> \E v \in Workers : AgentOf[v] = b /\ Owns(v)'
      BY DEF SlotHasOwner
    <3>1. CASE b = a
      BY <3>1, <2>1, <2>2, <2>4, <1>0 DEF GateInv, GateTypes, OneOwner
    <3>2. CASE b # a
      BY <3>2, <2>1, <2>2, <1>0 DEF GateInv, GateTypes, SlotHasOwner
    <3> QED
      BY <3>1, <3>2
  <2>7. QueueOK'
    BY <2>1, <2>3 DEF GateInv, QueueOK, GateTypes
  <2>8. ParkedOK'
    <3> SUFFICES ASSUME NEW v \in Workers, Parked(v)
                 PROVE  Queued(v)' /\ active'[AgentOf[v]]
      BY <2>3 DEF ParkedOK
    <3>1. Queued(v) /\ active[AgentOf[v]]
      BY DEF GateInv, ParkedOK
    <3>2. AgentOf[v] # a
      BY <3>1, <1>1 DEF Queued
    <3> QED
      BY <3>1, <3>2, <2>1, <1>0, GateAssumption DEF Queued, GateInv, GateTypes
  <2>9. IdleOK'
    BY <2>1 DEF GateInv, IdleOK, GateTypes
  <2> QED
    BY <2>5, <2>6, <2>7, <2>8, <2>9 DEF GateInv
<1>2. CASE q # <<>>
  <2> DEFINE h == q[1]
  <2>1. /\ queues' = [queues EXCEPT ![a] = Tail(q)]
        /\ ready' = [ready EXCEPT ![h] = TRUE]
        /\ UNCHANGED active
    BY <1>0, <1>2 DEF release
  <2>2. /\ Len(q) \in Nat \ {0}
        /\ Len(Tail(q)) = Len(q) - 1
        /\ \A i \in 1..(Len(q) - 1) : Tail(q)[i] = q[i + 1]
        /\ \A i \in 1..Len(q) : q[i] \in Workers
        /\ 1 \in 1..Len(q)
    BY <1>0, <1>2
  <2>3. h \in Workers /\ AgentOf[h] = a /\ Parked(h) /\ h # w
    BY <1>0, <2>2 DEF GateInv, QueueOK, Parked
  <2>4. \A v \in Workers : Owns(v)' <=> (Owns(v) /\ v # w) \/ v = h
    BY <2>1, <2>3 DEF Owns, Parked, GateInv, GateTypes
  <2>5. \A v \in Workers : Parked(v)' <=> Parked(v) /\ v # h
    BY <2>1, <2>3 DEF Parked, GateInv, GateTypes
  <2>6. Owns(w)
    BY DEF Owns
  <2>7. OneOwner'
    BY <2>4, <2>6, <2>3 DEF OneOwner, GateInv
  <2>8. SlotHasOwner'
    <3> SUFFICES ASSUME NEW b \in Agents
                 PROVE  active[b] <=> \E v \in Workers : AgentOf[v] = b /\ Owns(v)'
      BY <2>1 DEF SlotHasOwner
    <3>1. CASE b = a
      <4>1. active[a]
        BY <1>0, <2>6 DEF GateInv, SlotHasOwner
      <4> QED
        BY <4>1, <3>1, <2>3, <2>4
    <3>2. CASE b # a
      BY <3>2, <2>3, <2>4 DEF GateInv, SlotHasOwner
    <3> QED
      BY <3>1, <3>2
  <2>9. QueueOK'
    <3> SUFFICES ASSUME NEW b \in Agents, NEW i \in 1..Len(queues'[b])
                 PROVE  /\ AgentOf[queues'[b][i]] = b
                        /\ pc'[queues'[b][i]] \in {"waiting", "removing"}
                        /\ ~ready'[queues'[b][i]]
                        /\ \A j \in 1..Len(queues'[b]) :
                             queues'[b][i] = queues'[b][j] => i = j
      BY DEF QueueOK, Parked
    <3>1. CASE b = a
      <4>1. queues'[b] = Tail(q)
        BY <3>1, <2>1, <1>0 DEF GateInv, GateTypes
      <4>2. i + 1 \in 1..Len(q) /\ queues'[b][i] = q[i + 1]
        BY <4>1, <2>2
      <4>3. /\ AgentOf[q[i + 1]] = a
            /\ Parked(q[i + 1])
            /\ \A k \in 1..Len(q) : q[i + 1] = q[k] => i + 1 = k
        BY <4>2, <1>0 DEF GateInv, QueueOK
      <4>4. q[i + 1] # h
        BY <4>3, <2>2
      <4>5. \A j \in 1..Len(queues'[b]) : queues'[b][i] = queues'[b][j] => i = j
        BY <4>1, <4>2, <4>3, <2>2
      <4>6. /\ pc'[queues'[b][i]] \in {"waiting", "removing"}
            /\ ~ready'[queues'[b][i]]
        BY <4>2, <4>3, <4>4, <2>2, <2>5 DEF Parked
      <4> QED
        BY <4>2, <4>3, <4>5, <4>6, <3>1
    <3>2. CASE b # a
      <4>1. queues'[b] = queues[b]
        BY <3>2, <2>1, <1>0 DEF GateInv, GateTypes
      <4>2. /\ AgentOf[queues[b][i]] = b
            /\ Parked(queues[b][i])
            /\ \A j \in 1..Len(queues[b]) : queues[b][i] = queues[b][j] => i = j
        BY <4>1 DEF GateInv, QueueOK
      <4>3. queues[b] \in Seq(Workers) /\ queues[b][i] \in Workers
        BY <4>1 DEF GateInv, GateTypes
      <4>4. queues[b][i] # h
        BY <4>2, <2>3, <3>2
      <4> QED
        BY <4>1, <4>2, <4>3, <4>4, <2>5 DEF Parked
    <3> QED
      BY <3>1, <3>2
  <2>10. ParkedOK'
    <3> SUFFICES ASSUME NEW v \in Workers, Parked(v), v # h
                 PROVE  Queued(v)' /\ active'[AgentOf[v]]
      BY <2>5 DEF ParkedOK
    <3>1. Queued(v) /\ active[AgentOf[v]]
      BY DEF GateInv, ParkedOK
    <3>2. CASE AgentOf[v] = a
      <4>1. PICK i \in 1..Len(q) : q[i] = v
        BY <3>1, <3>2 DEF Queued
      <4>2. i # 1
        BY <4>1
      <4>3. i - 1 \in 1..Len(Tail(q)) /\ Tail(q)[i - 1] = v
        BY <4>1, <4>2, <2>2
      <4>4. queues'[a] = Tail(q)
        BY <2>1, <1>0 DEF GateInv, GateTypes
      <4> QED
        BY <4>3, <4>4, <3>1, <3>2, <2>1 DEF Queued
    <3>3. CASE AgentOf[v] # a
      <4>1. queues'[AgentOf[v]] = queues[AgentOf[v]]
        BY <3>3, <2>1, <1>0, GateAssumption DEF GateInv, GateTypes
      <4> QED
        BY <4>1, <3>1, <2>1 DEF Queued
    <3> QED
      BY <3>2, <3>3
  <2>11. IdleOK'
    BY <2>1, <2>3 DEF GateInv, IdleOK, GateTypes, Parked
  <2> QED
    BY <2>7, <2>8, <2>9, <2>10, <2>11 DEF GateInv
<1> QED
  BY <1>1, <1>2

\* Every step of the gate preserves the invariant.
LEMMA GateInvStep == GateInv /\ [Next]_vars => GateInv'
<1> SUFFICES ASSUME GateInv, [Next]_vars PROVE GateInv'
  OBVIOUS
<1>0. GateTypes'
  BY GateTypesStep DEF GateInv
<1>1. ASSUME NEW w \in Workers, Acquire(w) PROVE GateInv'
  <2> DEFINE a == AgentOf[w]
             q == queues[a]
  <2>0. a \in Agents /\ q \in Seq(Workers) /\ pc[w] = "idle" /\ ~ready[w]
    BY <1>1, GateAssumption DEF GateInv, GateTypes, IdleOK, Acquire
  <2>1. CASE ~active[a]
    <3>1. /\ active' = [active EXCEPT ![a] = TRUE]
          /\ pc' = [pc EXCEPT ![w] = "holding"]
          /\ UNCHANGED <<queues, ready>>
      BY <1>1, <2>1 DEF Acquire
    <3>2. \A v \in Workers : Owns(v)' <=> Owns(v) \/ v = w
      BY <3>1 DEF Owns, GateInv, GateTypes
    <3>3. \A v \in Workers : Parked(v)' <=> Parked(v)
      BY <3>1, <2>0 DEF Parked, GateInv, GateTypes
    <3>4. \A v \in Workers : AgentOf[v] = a => ~Owns(v)
      BY <2>0, <2>1 DEF GateInv, SlotHasOwner
    <3>5. OneOwner'
      BY <3>2, <3>4 DEF OneOwner, GateInv
    <3>6. SlotHasOwner'
      <4> SUFFICES ASSUME NEW b \in Agents
                   PROVE  active'[b] <=> \E v \in Workers : AgentOf[v] = b /\ Owns(v)'
        BY DEF SlotHasOwner
      <4>1. CASE b = a
        BY <4>1, <3>1, <3>2, <2>0 DEF GateInv, GateTypes
      <4>2. CASE b # a
        BY <4>2, <3>1, <3>2, <2>0 DEF GateInv, GateTypes, SlotHasOwner
      <4> QED
        BY <4>1, <4>2
    <3>7. QueueOK'
      BY <3>1, <3>3 DEF GateInv, QueueOK, GateTypes
    <3>8. ParkedOK'
      BY <3>1, <3>3, <2>0, GateAssumption DEF GateInv, ParkedOK, Queued, GateTypes
    <3>9. IdleOK'
      BY <3>1 DEF GateInv, IdleOK, GateTypes
    <3> QED
      BY <1>0, <3>5, <3>6, <3>7, <3>8, <3>9 DEF GateInv
  <2>2. CASE active[a]
    <3> DEFINE r == Append(q, w)
    <3>1. /\ queues' = [queues EXCEPT ![a] = r]
          /\ pc' = [pc EXCEPT ![w] = "waiting"]
          /\ UNCHANGED <<active, ready>>
      BY <1>1, <2>2 DEF Acquire
    <3>2. /\ r \in Seq(Workers)
          /\ Len(q) \in Nat
          /\ Len(r) = Len(q) + 1
          /\ r[Len(q) + 1] = w
          /\ \A i \in 1..Len(q) : r[i] = q[i]
      BY <2>0
    <3> HIDE DEF r
    <3>3. \A v \in Workers : Owns(v)' <=> Owns(v)
      BY <3>1, <2>0 DEF Owns, GateInv, GateTypes
    <3>4. \A v \in Workers : Parked(v)' <=> Parked(v) \/ v = w
      BY <3>1, <2>0 DEF Parked, GateInv, GateTypes
    <3>5. OneOwner' /\ SlotHasOwner'
      BY <3>1, <3>3 DEF OneOwner, SlotHasOwner, GateInv
    <3>6. \A i \in 1..Len(q) : q[i] # w
      BY <2>0 DEF GateInv, QueueOK, Parked
    <3>7. QueueOK'
      <4> SUFFICES ASSUME NEW b \in Agents, NEW i \in 1..Len(queues'[b])
                   PROVE  /\ AgentOf[queues'[b][i]] = b
                          /\ pc'[queues'[b][i]] \in {"waiting", "removing"}
                          /\ ~ready'[queues'[b][i]]
                          /\ \A j \in 1..Len(queues'[b]) :
                               queues'[b][i] = queues'[b][j] => i = j
        BY DEF QueueOK, Parked
      <4>1. CASE b = a
        <5>1. queues'[b] = r
          BY <4>1, <3>1, <2>0 DEF GateInv, GateTypes
        <5>2. CASE i = Len(q) + 1
          <6>1. queues'[b][i] = w
            BY <5>1, <5>2, <3>2
          <6>2. pc'[w] = "waiting" /\ ~ready'[w]
            BY <3>1, <2>0 DEF GateInv, GateTypes
          <6>3. \A j \in 1..Len(r) : r[j] = w => j = i
            BY <5>2, <3>2, <3>6
          <6> QED
            BY <6>1, <6>2, <6>3, <5>1, <4>1
        <5>3. CASE i \in 1..Len(q)
          <6>1. /\ AgentOf[q[i]] = a
                /\ Parked(q[i])
                /\ \A j \in 1..Len(q) : q[i] = q[j] => i = j
            BY <5>3, <2>0 DEF GateInv, QueueOK
          <6>2. q[i] \in Workers /\ r[i] = q[i] /\ q[i] # w
            BY <5>3, <3>2, <3>6, <2>0
          <6>3. pc'[q[i]] \in {"waiting", "removing"} /\ ~ready'[q[i]]
            BY <6>1, <6>2, <3>1 DEF Parked, GateInv, GateTypes
          <6>4. queues'[b][i] = q[i]
            BY <6>2, <5>1
          <6>5. ASSUME NEW j \in 1..Len(r), q[i] = r[j]
                PROVE  i = j
            <7>1. j \in 1..Len(q) \/ j = Len(q) + 1
              BY <3>2
            <7>2. CASE j = Len(q) + 1
              BY <7>2, <6>2, <6>5, <3>2
            <7>3. CASE j \in 1..Len(q)
              BY <7>3, <6>1, <6>5, <3>2
            <7> QED
              BY <7>1, <7>2, <7>3
          <6> QED
            BY <6>1, <6>3, <6>4, <6>5, <5>1, <4>1
        <5> QED
          BY <5>1, <5>2, <5>3, <3>2
      <4>2. CASE b # a
        <5>1. queues'[b] = queues[b] /\ queues[b] \in Seq(Workers)
          BY <4>2, <3>1, <2>0 DEF GateInv, GateTypes
        <5>2. /\ AgentOf[queues[b][i]] = b
              /\ Parked(queues[b][i])
              /\ \A j \in 1..Len(queues[b]) : queues[b][i] = queues[b][j] => i = j
          BY <5>1 DEF GateInv, QueueOK
        <5>3. queues[b][i] \in Workers /\ queues[b][i] # w
          BY <5>1, <5>2, <2>0 DEF Parked
        <5>4. /\ pc'[queues[b][i]] \in {"waiting", "removing"}
              /\ ~ready'[queues[b][i]]
          BY <5>2, <5>3, <3>1 DEF Parked, GateInv, GateTypes
        <5> QED
          BY <5>1, <5>2, <5>4
      <4> QED
        BY <4>1, <4>2
    <3>8. ParkedOK'
      <4> SUFFICES ASSUME NEW v \in Workers, Parked(v) \/ v = w
                   PROVE  Queued(v)' /\ active'[AgentOf[v]]
        BY <3>4 DEF ParkedOK
      <4>0. queues'[a] = r /\ Len(q) + 1 \in 1..Len(r)
        BY <3>1, <3>2, <2>0 DEF GateInv, GateTypes
      <4>1. CASE v = w
        BY <4>0, <4>1, <3>1, <3>2, <2>2 DEF Queued
      <4>2. CASE v # w
        <5>1. Queued(v) /\ active[AgentOf[v]]
          BY <4>2 DEF GateInv, ParkedOK
        <5>2. CASE AgentOf[v] = a
          <6>1. PICK i \in 1..Len(q) : q[i] = v
            BY <5>1, <5>2 DEF Queued
          <6>2. i \in 1..Len(r) /\ r[i] = v
            BY <6>1, <3>2
          <6> QED
            BY <6>2, <5>1, <5>2, <4>0, <3>1 DEF Queued
        <5>3. CASE AgentOf[v] # a
          <6>1. queues'[AgentOf[v]] = queues[AgentOf[v]]
            BY <5>3, <3>1, <2>0, GateAssumption DEF GateInv, GateTypes
          <6> QED
            BY <6>1, <5>1, <3>1 DEF Queued
        <5> QED
          BY <5>2, <5>3
      <4> QED
        BY <4>1, <4>2
    <3>9. IdleOK'
      BY <3>1 DEF GateInv, IdleOK, GateTypes
    <3> QED
      BY <1>0, <3>5, <3>7, <3>8, <3>9 DEF GateInv
  <2> QED
    BY <2>1, <2>2
<1>2. ASSUME NEW w \in Workers,
             pc[w] \in {"waiting", "removing"}, ready[w],
             pc'[w] \in {"removing", "returning", "holding"},
             pc' = [pc EXCEPT ![w] = pc'[w]],
             UNCHANGED <<active, queues, ready>>
      PROVE  GateInv'
  \* A selected waiter moves on: it stays the owner, nobody else is touched.
  <2>1. \A v \in Workers : Owns(v)' <=> Owns(v)
    BY <1>2 DEF Owns, GateInv, GateTypes
  <2>2. \A v \in Workers : Parked(v)' <=> Parked(v)
    BY <1>2 DEF Parked, GateInv, GateTypes
  <2>3. OneOwner' /\ SlotHasOwner'
    BY <1>2, <2>1 DEF OneOwner, SlotHasOwner, GateInv
  <2>4. QueueOK'
    BY <1>2, <2>2 DEF GateInv, QueueOK, GateTypes
  <2>5. ParkedOK' /\ IdleOK'
    BY <1>2, <2>2 DEF GateInv, ParkedOK, IdleOK, Queued, GateTypes
  <2> QED
    BY <1>0, <2>3, <2>4, <2>5 DEF GateInv
<1>3. ASSUME NEW w \in Workers, WakeReady(w) PROVE GateInv'
  BY <1>2, <1>3 DEF WakeReady, GateInv, GateTypes
<1>4. ASSUME NEW w \in Workers, WakeDone(w) PROVE GateInv'
  <2>1. CASE ready[w]
    BY <1>2, <1>4, <2>1 DEF WakeDone, GateInv, GateTypes
  <2>2. CASE ~ready[w]
    <3>0. /\ pc[w] = "waiting"
          /\ pc' = [pc EXCEPT ![w] = "removing"]
          /\ UNCHANGED <<active, queues, ready>>
      BY <1>4 DEF WakeDone
    <3>1. \A v \in Workers : Owns(v)' <=> Owns(v)
      BY <3>0, <2>2 DEF Owns, GateInv, GateTypes
    <3>2. \A v \in Workers : Parked(v)' <=> Parked(v)
      BY <3>0 DEF Parked, GateInv, GateTypes
    <3>3. OneOwner' /\ SlotHasOwner'
      BY <3>0, <3>1 DEF OneOwner, SlotHasOwner, GateInv
    <3>4. QueueOK'
      BY <3>0, <3>2 DEF GateInv, QueueOK, GateTypes
    <3>5. ParkedOK' /\ IdleOK'
      BY <3>0, <3>2 DEF GateInv, ParkedOK, IdleOK, Queued, GateTypes
    <3> QED
      BY <1>0, <3>3, <3>4, <3>5 DEF GateInv
  <2> QED
    BY <2>1, <2>2
<1>5. ASSUME NEW w \in Workers, Remove(w) PROVE GateInv'
  <2> DEFINE a == AgentOf[w]
             q == queues[a]
  <2>0. a \in Agents /\ q \in Seq(Workers) /\ UNCHANGED <<active, ready>>
    BY <1>5, GateAssumption DEF GateInv, GateTypes, Remove
  <2>1. CASE \A i \in 1..Len(q) : q[i] # w
    <3>1. ready[w]
      BY <1>5, <2>1 DEF Remove, GateInv, ParkedOK, Parked, Queued
    <3>2. pc' = [pc EXCEPT ![w] = "returning"] /\ UNCHANGED queues
      BY <1>5, <2>1 DEF Remove
    <3> QED
      BY <1>2, <1>5, <2>0, <3>1, <3>2 DEF Remove, GateInv, GateTypes
  <2>2. CASE \E i \in 1..Len(q) : q[i] = w
    <3>1. PICK k \in 1..Len(q) :
             /\ q[k] = w
             /\ queues' = [queues EXCEPT ![a] = Without(q, k)]
             /\ pc' = [pc EXCEPT ![w] = "left"]
      BY <1>5, <2>2 DEF Remove
    <3> DEFINE r == Without(q, k)
    <3>2. /\ r \in Seq(Workers)
          /\ Len(q) \in Nat
          /\ Len(r) = Len(q) - 1
          /\ \A j \in 1..(Len(q) - 1) : r[j] = IF j < k THEN q[j] ELSE q[j + 1]
      <4>1. q \in Seq(Workers) /\ Len(q) \in Nat
        BY <2>0
      <4> HIDE DEF q
      <4> QED
        BY <4>1, WithoutType
    <3> HIDE DEF r
    <3>3. /\ Parked(w)
          /\ \A j \in 1..Len(q) : q[j] = w => j = k
      BY <2>0, <3>1 DEF GateInv, QueueOK
    <3>4. \A v \in Workers : Owns(v)' <=> Owns(v)
      BY <2>0, <3>1, <3>3 DEF Owns, Parked, GateInv, GateTypes
    <3>5. \A v \in Workers : Parked(v)' <=> Parked(v) /\ v # w
      BY <2>0, <3>1 DEF Parked, GateInv, GateTypes
    <3>6. OneOwner' /\ SlotHasOwner'
      BY <2>0, <3>4 DEF OneOwner, SlotHasOwner, GateInv
    <3>7. queues'[a] = r /\ \A b \in Agents : b # a => queues'[b] = queues[b]
      BY <2>0, <3>1 DEF GateInv, GateTypes, r
    <3>8. QueueOK'
      <4> SUFFICES ASSUME NEW b \in Agents, NEW i \in 1..Len(queues'[b])
                   PROVE  /\ AgentOf[queues'[b][i]] = b
                          /\ pc'[queues'[b][i]] \in {"waiting", "removing"}
                          /\ ~ready'[queues'[b][i]]
                          /\ \A j \in 1..Len(queues'[b]) :
                               queues'[b][i] = queues'[b][j] => i = j
        BY DEF QueueOK, Parked
      <4>1. CASE b = a
        <5> DEFINE m(j) == IF j < k THEN j ELSE j + 1
        <5>1. ASSUME NEW j \in 1..Len(r)
              PROVE  m(j) \in 1..Len(q) /\ m(j) # k /\ r[j] = q[m(j)]
          <6>1. j \in 1..(Len(q) - 1) /\ j \in Nat /\ k \in Nat
            BY <3>2
          <6>2. r[j] = IF j < k THEN q[j] ELSE q[j + 1]
            BY <6>1, <3>2
          <6>3. CASE j < k
            BY <6>1, <6>2, <6>3
          <6>4. CASE ~(j < k)
            BY <6>1, <6>2, <6>4
          <6> QED
            BY <6>3, <6>4
        <5>2. i \in 1..Len(r) /\ queues'[b] = r
          BY <4>1, <3>7
        <5>3. /\ AgentOf[q[m(i)]] = a
              /\ Parked(q[m(i)])
              /\ \A j \in 1..Len(q) : q[m(i)] = q[j] => m(i) = j
          BY <5>1, <5>2, <2>0 DEF GateInv, QueueOK
        <5>4. q[m(i)] \in Workers /\ q[m(i)] # w
          BY <5>1, <5>2, <3>3, <2>0
        <5>5. pc'[q[m(i)]] \in {"waiting", "removing"} /\ ~ready'[q[m(i)]]
          BY <5>3, <5>4, <3>1, <2>0 DEF Parked, GateInv, GateTypes
        <5>6. \A j \in 1..Len(r) : m(i) = m(j) => i = j
          BY <5>2, <3>2
        <5> QED
          BY <5>1, <5>2, <5>3, <5>5, <5>6, <4>1
      <4>2. CASE b # a
        <5>1. queues'[b] = queues[b] /\ queues[b] \in Seq(Workers)
          BY <4>2, <3>7 DEF GateInv, GateTypes
        <5>2. /\ AgentOf[queues[b][i]] = b
              /\ Parked(queues[b][i])
              /\ \A j \in 1..Len(queues[b]) : queues[b][i] = queues[b][j] => i = j
          BY <5>1 DEF GateInv, QueueOK
        <5>3. queues[b][i] \in Workers /\ queues[b][i] # w
          BY <5>1, <5>2, <4>2
        <5>4. /\ pc'[queues[b][i]] \in {"waiting", "removing"}
              /\ ~ready'[queues[b][i]]
          BY <5>2, <5>3, <3>1, <2>0 DEF Parked, GateInv, GateTypes
        <5> QED
          BY <5>1, <5>2, <5>4
      <4> QED
        BY <4>1, <4>2
    <3>9. ParkedOK'
      <4> SUFFICES ASSUME NEW v \in Workers, Parked(v), v # w
                   PROVE  Queued(v)' /\ active'[AgentOf[v]]
        BY <3>5 DEF ParkedOK
      <4>1. Queued(v) /\ active[AgentOf[v]]
        BY DEF GateInv, ParkedOK
      <4>2. CASE AgentOf[v] = a
        <5>1. PICK i \in 1..Len(q) : q[i] = v
          BY <4>1, <4>2 DEF Queued
        <5>2. i # k
          BY <5>1, <3>1
        <5>3. CASE i < k
          <6>1. i \in 1..Len(r) /\ r[i] = v
            BY <5>1, <5>3, <3>2
          <6> QED
            BY <6>1, <4>1, <4>2, <3>7, <2>0 DEF Queued
        <5>4. CASE i > k
          <6>1. i - 1 \in 1..Len(r) /\ r[i - 1] = v
            BY <5>1, <5>4, <3>2
          <6> QED
            BY <6>1, <4>1, <4>2, <3>7, <2>0 DEF Queued
        <5> QED
          BY <5>2, <5>3, <5>4
      <4>3. CASE AgentOf[v] # a
        BY <4>1, <4>3, <3>7, <2>0, GateAssumption DEF Queued
      <4> QED
        BY <4>2, <4>3
    <3>10. IdleOK'
      BY <2>0, <3>1 DEF GateInv, IdleOK, GateTypes
    <3> QED
      BY <1>0, <3>6, <3>8, <3>9, <3>10 DEF GateInv
  <2> QED
    BY <2>1, <2>2
<1>6. ASSUME NEW w \in Workers, ReturnSlot(w) PROVE GateInv'
  BY <1>0, <1>6, ReleaseStep DEF ReturnSlot
<1>7. ASSUME NEW w \in Workers, Release(w) PROVE GateInv'
  BY <1>0, <1>7, ReleaseStep DEF Release
<1>8. CASE UNCHANGED <<active, queues, ready, pc>>
  <2>1. \A v \in Workers : (Owns(v)' <=> Owns(v)) /\ (Parked(v)' <=> Parked(v))
    BY <1>8 DEF Owns, Parked
  <2>2. OneOwner' /\ SlotHasOwner'
    BY <1>8, <2>1 DEF OneOwner, SlotHasOwner, GateInv
  <2>3. QueueOK'
    BY <1>8, <2>1 DEF GateInv, QueueOK, GateTypes
  <2>4. ParkedOK' /\ IdleOK'
    BY <1>8, <2>1 DEF GateInv, ParkedOK, IdleOK, Queued
  <2> QED
    BY <1>0, <2>2, <2>3, <2>4 DEF GateInv
<1>9. ASSUME NEW w \in Workers, Cancel(w) PROVE GateInv'
  BY <1>8, <1>9 DEF Cancel
<1>10. ASSUME NEW w \in Workers, NextRun(w) PROVE GateInv'
  <2>0. /\ pc[w] = "left"
        /\ pc' = [pc EXCEPT ![w] = "idle"]
        /\ ready' = [ready EXCEPT ![w] = FALSE]
        /\ UNCHANGED <<active, queues>>
    BY <1>10 DEF NextRun
  <2>1. \A v \in Workers : Owns(v)' <=> Owns(v)
    BY <2>0 DEF Owns, GateInv, GateTypes
  <2>2. \A v \in Workers : Parked(v)' <=> Parked(v)
    BY <2>0 DEF Parked, GateInv, GateTypes
  <2>3. OneOwner' /\ SlotHasOwner'
    BY <2>0, <2>1 DEF OneOwner, SlotHasOwner, GateInv
  <2>4. QueueOK'
    BY <2>0, <2>2 DEF GateInv, QueueOK, GateTypes
  <2>5. ParkedOK' /\ IdleOK'
    BY <2>0, <2>2 DEF GateInv, ParkedOK, IdleOK, Queued, GateTypes
  <2> QED
    BY <1>0, <2>3, <2>4, <2>5 DEF GateInv
<1> QED
  BY <1>1, <1>3, <1>4, <1>5, <1>6, <1>7, <1>8, <1>9, <1>10 DEF Next, vars

\* GateInv holds in every reachable state.
LEMMA GateInvariant == Spec => []GateInv
<1>1. Init => GateInv
  <2> SUFFICES ASSUME Init PROVE GateInv
    OBVIOUS
  <2>1. GateTypes
    BY DEF Init, GateTypes, Places
  <2>2. \A a \in Agents : queues[a] = <<>> /\ Len(queues[a]) = 0
    BY DEF Init
  <2>3. \A w \in Workers : ~Owns(w) /\ ~Parked(w) /\ ~ready[w]
    BY DEF Init, Owns, Parked
  <2>4. OneOwner /\ SlotHasOwner
    BY <2>3 DEF Init, OneOwner, SlotHasOwner
  <2>5. QueueOK
    BY <2>2 DEF QueueOK
  <2> QED
    BY <2>1, <2>3, <2>4, <2>5 DEF GateInv, ParkedOK, IdleOK
<1>2. GateInv /\ [Next]_vars => GateInv'
  BY GateInvStep
<1> QED
  BY <1>1, <1>2, PTL DEF Spec

\* The gate's state has its declared types, and every Agent's queue holds
\* waiters of that Agent only, in every reachable state.
THEOREM GateTypeOK == Spec => []TypeOK
<1>1. GateInv => TypeOK
  BY DEF GateInv, GateTypes, QueueOK, TypeOK
<1> QED
  BY <1>1, GateInvariant, PTL

\* At most one Runtime invocation per Agent is active, for any number of
\* Agents and workers and whatever cancellations race with releases.
THEOREM GateMutualExclusion == Spec => []MutualExclusion
<1>1. GateInv => MutualExclusion
  BY DEF GateInv, OneOwner, Owns, MutualExclusion
<1> QED
  BY <1>1, GateInvariant, PTL

\* A slot that is in use always has exactly the owner that will release it.
THEOREM GateSlotHasOwner == Spec => []SlotHasOwner
<1>1. GateInv => SlotHasOwner
  BY DEF GateInv
<1> QED
  BY <1>1, GateInvariant, PTL

\* A parked worker is queued exactly once behind a slot in use: no wakeup can
\* be lost between a release and a cancellation.
THEOREM GateWaiterIsQueued == Spec => []WaiterIsQueued
<1>1. GateInv => WaiterIsQueued
  <2> SUFFICES ASSUME GateInv, NEW w \in Workers, pc[w] = "waiting", ~ready[w]
               PROVE  /\ active[AgentOf[w]]
                      /\ \E i \in 1..Len(queues[AgentOf[w]]) :
                           \A j \in 1..Len(queues[AgentOf[w]]) :
                             queues[AgentOf[w]][j] = w <=> j = i
    BY DEF WaiterIsQueued
  <2>1. Queued(w) /\ active[AgentOf[w]]
    BY DEF GateInv, ParkedOK, Parked
  <2>2. PICK i \in 1..Len(queues[AgentOf[w]]) : queues[AgentOf[w]][i] = w
    BY <2>1 DEF Queued
  <2>3. \A j \in 1..Len(queues[AgentOf[w]]) :
          queues[AgentOf[w]][j] = w => j = i
    BY <2>2, GateAssumption DEF GateInv, QueueOK
  <2> QED
    BY <2>1, <2>2, <2>3
<1> QED
  BY <1>1, GateInvariant, PTL
\* A release selects the head of the queue, so nobody who stands behind
\* another worker of the Agent.
LEMMA ReleaseInOrder ==
  ASSUME GateInv, NEW a \in Agents, release(a),
         NEW v \in Workers, NEW w \in Workers, Before(v, w)
  PROVE  /\ ~ready'[w]
         /\ Queued(v)' /\ Queued(w)' => Before(v, w)'
<1> DEFINE b == AgentOf[w]
           q == queues[b]
<1>0. b \in Agents /\ q \in Seq(Workers) /\ Len(q) \in Nat
  BY GateAssumption DEF GateInv, GateTypes
<1>1. PICK i \in 1..Len(q), j \in 1..Len(q) : i < j /\ q[i] = v /\ q[j] = w
  BY DEF Before
<1>2. AgentOf[v] = b
  BY DEF Before
<1>3. /\ Parked(w)
      /\ \A x, y \in 1..Len(q) : q[x] = q[y] => x = y
  BY <1>0, <1>1 DEF GateInv, QueueOK
<1>4. ~ready[w]
  BY <1>3 DEF Parked
<1>5. CASE a # b
  <2>1. queues'[b] = q
    BY <1>5, <1>0 DEF release, GateInv, GateTypes
  <2>2. CASE queues[a] = <<>>
    BY <1>1, <1>2, <1>4, <2>1, <2>2 DEF release, Before
  <2>3. CASE queues[a] # <<>>
    <3>1. /\ queues[a] \in Seq(Workers)
          /\ Head(queues[a]) = queues[a][1]
          /\ 1 \in 1..Len(queues[a])
      BY <2>3 DEF GateInv, GateTypes
    <3>2. AgentOf[Head(queues[a])] = a
      BY <3>1 DEF GateInv, QueueOK
    <3>3. ready' = [ready EXCEPT ![Head(queues[a])] = TRUE]
      BY <2>3 DEF release
    <3>4. Head(queues[a]) # w
      BY <3>2, <1>5
    <3>5. ~ready'[w]
      BY <3>3, <3>4, <1>4 DEF GateInv, GateTypes
    <3> QED
      BY <3>5, <1>1, <1>2, <2>1 DEF Before
  <2> QED
    BY <2>2, <2>3
<1>6. CASE a = b
  <2>1. q # <<>>
    BY <1>0, <1>1
  <2>2. /\ queues' = [queues EXCEPT ![b] = Tail(q)]
        /\ ready' = [ready EXCEPT ![Head(q)] = TRUE]
    BY <1>6, <2>1 DEF release
  <2>3. /\ Head(q) = q[1] /\ 1 \in 1..Len(q)
        /\ Tail(q) \in Seq(Workers)
        /\ Len(Tail(q)) = Len(q) - 1
        /\ \A x \in 1..(Len(q) - 1) : Tail(q)[x] = q[x + 1]
    BY <1>0, <2>1
  <2>4. j # 1
    BY <1>0, <1>1
  <2>5. Head(q) # w
    BY <1>1, <1>3, <2>3, <2>4
  <2>6. ~ready'[w]
    BY <2>2, <2>5, <1>4 DEF GateInv, GateTypes
  <2>7. queues'[b] = Tail(q)
    BY <2>2, <1>0 DEF GateInv, GateTypes
  <2>8. ASSUME Queued(v)', Queued(w)'
        PROVE  Before(v, w)'
    <3> DEFINE m == [x \in 1..Len(Tail(q)) |-> x + 1]
               r == Tail(q)
    <3>1. m \in [1..Len(r) -> 1..Len(q)]
      BY <1>0, <2>3
    <3>2. /\ \A x \in 1..Len(r) : r[x] = q[m[x]]
          /\ \A x, y \in 1..Len(r) : x < y => m[x] < m[y]
      BY <1>0, <2>3
    <3>3. /\ \E x \in 1..Len(r) : r[x] = q[i]
          /\ \E x \in 1..Len(r) : r[x] = q[j]
      BY <2>7, <2>8, <1>1, <1>2 DEF Queued
    <3>4. r \in Seq(Workers)
      BY <2>3
    <3> HIDE DEF m, r
    <3>5. PICK x \in 1..Len(r), y \in 1..Len(r) : r[x] = q[i] /\ r[y] = q[j]
      BY <3>3
    <3>6. Len(r) \in Nat
      BY <3>4
    <3> HIDE DEF q
    <3>7. /\ Len(q) \in Nat
          /\ i < j
          /\ \A s, t \in 1..Len(q) : q[s] = q[t] => s = t
      BY <1>0, <1>1, <1>3
    <3>8. m[x] = i /\ m[y] = j
      <4>1. m[x] \in 1..Len(q) /\ m[y] \in 1..Len(q)
        BY <3>1
      <4>2. q[m[x]] = q[i] /\ q[m[y]] = q[j]
        BY <3>2, <3>5
      <4> QED
        BY <4>1, <4>2, <3>7
    <3>9. (x = y => m[x] = m[y]) /\ (y < x => m[y] < m[x])
      BY <3>2
    <3>10. x < y
      BY <3>6, <3>7, <3>8, <3>9
    <3> QED
      BY <3>5, <3>10, <2>7, <1>1, <1>2 DEF Before, r, q
  <2> QED
    BY <2>6, <2>8
<1> QED
  BY <1>5, <1>6

\* No step overtakes: Acquire appends, Remove closes the gap, release takes the
\* head.
LEMMA OrderStep == GateInv /\ [Next]_vars => ServedStep \/ UNCHANGED vars
<1> SUFFICES ASSUME GateInv, Next, NEW v \in Workers, NEW w \in Workers, Before(v, w)
             PROVE  /\ ~ready'[w]
                    /\ Queued(v)' /\ Queued(w)' => Before(v, w)'
  BY DEF ServedStep
<1> DEFINE b == AgentOf[w]
           q == queues[b]
<1>0. b \in Agents /\ q \in Seq(Workers) /\ Len(q) \in Nat
  BY GateAssumption DEF GateInv, GateTypes
<1>1. PICK i \in 1..Len(q), j \in 1..Len(q) : i < j /\ q[i] = v /\ q[j] = w
  BY DEF Before
<1>2. AgentOf[v] = b
  BY DEF Before
<1>3. /\ Parked(w)
      /\ \A x, y \in 1..Len(q) : q[x] = q[y] => x = y
  BY <1>0, <1>1 DEF GateInv, QueueOK
<1>4. ~ready[w]
  BY <1>3 DEF Parked
<1>5. CASE UNCHANGED <<queues, ready>>
  BY <1>1, <1>2, <1>4, <1>5 DEF Before
<1>6. ASSUME NEW u \in Workers, Acquire(u)
      PROVE  /\ ~ready'[w]
             /\ Queued(v)' /\ Queued(w)' => Before(v, w)'
  <2>1. CASE UNCHANGED queues
    BY <1>5, <1>6, <2>1 DEF Acquire
  <2>2. CASE queues' = [queues EXCEPT ![AgentOf[u]] = Append(queues[AgentOf[u]], u)]
    <3>1. CASE AgentOf[u] # b
      <4>1. queues'[b] = q
        BY <2>2, <3>1, <1>0 DEF GateInv, GateTypes
      <4> QED
        BY <4>1, <1>1, <1>2, <1>4, <1>6 DEF Before, Acquire
    <3>2. CASE AgentOf[u] = b
      <4> DEFINE r == Append(q, u)
      <4>1. queues'[b] = r
        BY <2>2, <3>2, <1>0 DEF GateInv, GateTypes
      <4>2. /\ i \in 1..Len(r) /\ j \in 1..Len(r)
            /\ r[i] = v /\ r[j] = w
        BY <1>0, <1>1
      <4> HIDE DEF r
      <4> QED
        BY <4>1, <4>2, <1>1, <1>2, <1>4, <1>6 DEF Before, Acquire
    <3> QED
      BY <3>1, <3>2
  <2> QED
    BY <1>6, <2>1, <2>2 DEF Acquire
<1>7. ASSUME NEW u \in Workers, Remove(u)
      PROVE  /\ ~ready'[w]
             /\ Queued(v)' /\ Queued(w)' => Before(v, w)'
  <2>0. ready' = ready
    BY <1>7 DEF Remove
  <2>1. CASE UNCHANGED queues
    BY <1>5, <2>0, <2>1
  <2>2. CASE AgentOf[u] # b
    <3>1. queues'[b] = q
      BY <1>7, <2>2, <1>0 DEF Remove, GateInv, GateTypes
    <3> QED
      BY <3>1, <2>0, <1>1, <1>2, <1>4 DEF Before
  <2>3. CASE AgentOf[u] = b /\ queues' # queues
    <3>1. PICK k \in 1..Len(q) : queues' = [queues EXCEPT ![b] = Without(q, k)]
      BY <1>7, <2>3 DEF Remove
    <3> DEFINE r == Without(q, k)
               m == [x \in 1..Len(r) |-> IF x < k THEN x ELSE x + 1]
    <3>2. queues'[b] = r
      BY <3>1, <1>0 DEF GateInv, GateTypes
    <3>3. /\ r \in Seq(Workers)
          /\ Len(r) = Len(q) - 1
          /\ \A x \in 1..(Len(q) - 1) : r[x] = IF x < k THEN q[x] ELSE q[x + 1]
      <4>1. q \in Seq(Workers) /\ k \in 1..Len(q)
        BY <1>0
      <4> HIDE DEF q
      <4> QED
        BY <4>1, WithoutType
    <3> HIDE DEF r
    <3>4. m \in [1..Len(r) -> 1..Len(q)]
      <4> SUFFICES ASSUME NEW x \in 1..Len(r)
                   PROVE  (IF x < k THEN x ELSE x + 1) \in 1..Len(q)
        OBVIOUS
      <4> QED
        BY <1>0, <3>3
    <3>5. /\ \A x \in 1..Len(r) : r[x] = q[m[x]]
          /\ \A x, y \in 1..Len(r) : x < y => m[x] < m[y]
      <4>1. Len(q) \in Nat /\ Len(r) \in Nat /\ k \in Nat
        BY <1>0, <3>3
      <4>2. ASSUME NEW x \in 1..Len(r)
            PROVE  r[x] = q[m[x]]
        <5>1. x \in 1..(Len(q) - 1)
          BY <3>3
        <5>2. r[x] = IF x < k THEN q[x] ELSE q[x + 1]
          BY <5>1, <3>3
        <5>3. m[x] = IF x < k THEN x ELSE x + 1
          OBVIOUS
        <5> HIDE DEF m
        <5> QED
          BY <5>2, <5>3
      <4>3. ASSUME NEW x \in 1..Len(r), NEW y \in 1..Len(r), x < y
            PROVE  m[x] < m[y]
        BY <4>1, <4>3
      <4> HIDE DEF m
      <4> QED
        BY <4>2, <4>3
    <3>6. ASSUME Queued(v)', Queued(w)'
          PROVE  Before(v, w)'
      <4>1. /\ \E x \in 1..Len(r) : r[x] = q[i]
            /\ \E x \in 1..Len(r) : r[x] = q[j]
        BY <3>2, <3>6, <1>1, <1>2 DEF Queued
      <4> HIDE DEF m
      <4>2. PICK x \in 1..Len(r), y \in 1..Len(r) : r[x] = q[i] /\ r[y] = q[j]
        BY <4>1
      <4>3. Len(r) \in Nat
        BY <3>3
      <4> HIDE DEF q
      <4>4. /\ Len(q) \in Nat
            /\ i < j
            /\ \A s, t \in 1..Len(q) : q[s] = q[t] => s = t
        BY <1>0, <1>1, <1>3
      <4>5. m[x] = i /\ m[y] = j
        <5>1. m[x] \in 1..Len(q) /\ m[y] \in 1..Len(q)
          BY <3>4
        <5>2. q[m[x]] = q[i] /\ q[m[y]] = q[j]
          BY <3>5, <4>2
        <5> QED
          BY <5>1, <5>2, <4>4
      <4>6. (x = y => m[x] = m[y]) /\ (y < x => m[y] < m[x])
        BY <3>5
      <4>7. x < y
        BY <4>3, <4>4, <4>5, <4>6
      <4> QED
        BY <4>2, <4>7, <3>2, <1>1, <1>2 DEF Before, q
    <3> QED
      BY <3>6, <2>0, <1>4
  <2> QED
    BY <2>1, <2>2, <2>3
<1>8. ASSUME NEW u \in Workers, ReturnSlot(u) \/ Release(u)
      PROVE  /\ ~ready'[w]
             /\ Queued(v)' /\ Queued(w)' => Before(v, w)'
  BY <1>8, ReleaseInOrder, GateAssumption DEF ReturnSlot, Release
<1>9. ASSUME NEW u \in Workers, NextRun(u)
      PROVE  /\ ~ready'[w]
             /\ Queued(v)' /\ Queued(w)' => Before(v, w)'
  <2>1. queues' = queues /\ ~ready'[w]
    BY <1>9, <1>4 DEF NextRun, GateInv, GateTypes
  <2> QED
    BY <2>1, <1>1, <1>2 DEF Before
<1> QED
  BY <1>5, <1>6, <1>7, <1>8, <1>9 DEF Next, WakeReady, WakeDone, Cancel

\* The slot goes to the waiters in the order in which they queued up, for any
\* number of them, and a waiter that is canceled does not disturb the others.
THEOREM GateServedInOrder == Spec => ServedInOrder
<1>1. GateInv /\ [Next]_vars => [ServedStep]_vars
  BY OrderStep
<1> QED
  BY <1>1, GateInvariant, PTL DEF Spec, ServedInOrder
=============================================================================
