------------------------- MODULE AgentExecutionGate -------------------------
(***************************************************************************)
(* The Bridge's per-Agent execution gate                                   *)
(* (bridge/internal/delivery/agent_execution_gate.go).  Every Run worker   *)
(* goroutine calls Acquire before it may start a Runtime and the returned  *)
(* release function when the Runtime has stopped.  The mutex makes every   *)
(* locked section one step; the select between waiter.ready and ctx.Done   *)
(* and the second lock of the cancellation path are steps of their own, so *)
(* a release may choose a waiter that is leaving at the same time.         *)
(***************************************************************************)
EXTENDS Naturals, Sequences

CONSTANTS Agents,   \* Agent identities
          Workers,  \* Run worker goroutines
          AgentOf   \* the Agent whose gate a worker acquires

ASSUME GateAssumption == AgentOf \in [Workers -> Agents]

VARIABLES active,   \* g.active: is a slot handed out for this Agent?
          queues,   \* g.queues: the waiters of an Agent, oldest first
          ready,    \* has waiter.ready been closed for this worker?
          ctxDone,  \* is the worker's context canceled?
          pc        \* where the worker is

vars == <<active, queues, ready, ctxDone, pc>>

Places == {"idle", "waiting", "removing", "returning", "holding", "left"}

Init ==
  /\ active = [a \in Agents |-> FALSE]
  /\ queues = [a \in Agents |-> <<>>]
  /\ ready = [w \in Workers |-> FALSE]
  /\ ctxDone = [w \in Workers |-> FALSE]
  /\ pc = [w \in Workers |-> "idle"]

\* append(queue[:i], queue[i+1:]...): the i-th waiter leaves, the rest close up.
Without(q, i) ==
  [j \in 1..(Len(q) - 1) |-> IF j < i THEN q[j] ELSE q[j + 1]]

\* Mutant of release: the newest waiter is served first.
releaseNewest(a) ==
  IF queues[a] = <<>>
  THEN /\ active' = [active EXCEPT ![a] = FALSE]
       /\ UNCHANGED <<queues, ready>>
  ELSE /\ queues' = [queues EXCEPT ![a] = SubSeq(@, 1, Len(@) - 1)]
       /\ ready' = [ready EXCEPT ![queues[a][Len(queues[a])]] = TRUE]
       /\ UNCHANGED active

\* Mutant of release: the queue is deleted along with its head.
releaseDropsQueue(a) ==
  IF queues[a] = <<>>
  THEN /\ active' = [active EXCEPT ![a] = FALSE]
       /\ UNCHANGED <<queues, ready>>
  ELSE /\ queues' = [queues EXCEPT ![a] = <<>>]
       /\ ready' = [ready EXCEPT ![Head(queues[a])] = TRUE]
       /\ UNCHANGED active

\* g.release: hand the slot to the oldest waiter, or free it.
release(a) ==
  IF queues[a] = <<>>
  THEN /\ active' = [active EXCEPT ![a] = FALSE]
       /\ UNCHANGED <<queues, ready>>
  ELSE /\ queues' = [queues EXCEPT ![a] = Tail(@)]
       /\ ready' = [ready EXCEPT ![Head(queues[a])] = TRUE]
       /\ UNCHANGED active

\* Mutant of Acquire: the waiters of all Agents share one queue.
AcquireSharedQueue(w) ==
  LET a == AgentOf[w]
      shared == CHOOSE b \in Agents : b # a
  IN
  /\ pc[w] = "idle"
  /\ \/ /\ ~active[a]
        /\ active' = [active EXCEPT ![a] = TRUE]
        /\ pc' = [pc EXCEPT ![w] = "holding"]
        /\ UNCHANGED queues
     \/ /\ active[a]
        /\ queues' = [queues EXCEPT ![shared] = Append(@, w)]
        /\ pc' = [pc EXCEPT ![w] = "waiting"]
        /\ UNCHANGED active
  /\ UNCHANGED <<ready, ctxDone>>

\* Acquire, first locked section: take a free slot or queue up.  The context
\* is not looked at here.
Acquire(w) ==
  LET a == AgentOf[w] IN
  /\ pc[w] = "idle"
  /\ \/ /\ ~active[a]
        /\ active' = [active EXCEPT ![a] = TRUE]
        /\ pc' = [pc EXCEPT ![w] = "holding"]
        /\ UNCHANGED queues
     \/ /\ active[a]
        /\ queues' = [queues EXCEPT ![a] = Append(@, w)]
        /\ pc' = [pc EXCEPT ![w] = "waiting"]
        /\ UNCHANGED active
  /\ UNCHANGED <<ready, ctxDone>>

\* Mutant of WakeReady: a canceled waiter keeps quiet about its slot.
WakeReadyLeaksSlot(w) ==
  /\ pc[w] = "waiting"
  /\ ready[w]
  /\ pc' = [pc EXCEPT ![w] = IF ctxDone[w] THEN "left" ELSE "holding"]
  /\ UNCHANGED <<active, queues, ready, ctxDone>>

\* select takes <-waiter.ready: keep the slot unless the context is canceled.
WakeReady(w) ==
  /\ pc[w] = "waiting"
  /\ ready[w]
  /\ pc' = [pc EXCEPT ![w] = IF ctxDone[w] THEN "returning" ELSE "holding"]
  /\ UNCHANGED <<active, queues, ready, ctxDone>>

\* select takes <-ctx.Done(), possibly although ready is closed as well.
WakeDone(w) ==
  /\ pc[w] = "waiting"
  /\ ctxDone[w]
  /\ pc' = [pc EXCEPT ![w] = "removing"]
  /\ UNCHANGED <<active, queues, ready, ctxDone>>

\* Mutant of Remove: the "if !removed" guard is dropped.
RemoveAlwaysReleases(w) ==
  LET a == AgentOf[w] IN
  /\ pc[w] = "removing"
  /\ pc' = [pc EXCEPT ![w] = "returning"]
  /\ \/ \E i \in 1..Len(queues[a]) :
          /\ queues[a][i] = w
          /\ queues' = [queues EXCEPT ![a] = Without(@, i)]
     \/ /\ \A i \in 1..Len(queues[a]) : queues[a][i] # w
        /\ UNCHANGED queues
  /\ UNCHANGED <<active, ready, ctxDone>>

\* Mutant of Remove: a waiter that release selected leaves without releasing.
RemoveForgetsSlot(w) ==
  LET a == AgentOf[w] IN
  /\ pc[w] = "removing"
  /\ pc' = [pc EXCEPT ![w] = "left"]
  /\ \/ \E i \in 1..Len(queues[a]) :
          /\ queues[a][i] = w
          /\ queues' = [queues EXCEPT ![a] = Without(@, i)]
     \/ /\ \A i \in 1..Len(queues[a]) : queues[a][i] # w
        /\ UNCHANGED queues
  /\ UNCHANGED <<active, ready, ctxDone>>

\* The locked section of the cancellation path: leave the queue; a waiter that
\* is not in it any more was selected by a release and owes the slot back.
Remove(w) ==
  LET a == AgentOf[w] IN
  /\ pc[w] = "removing"
  /\ \/ \E i \in 1..Len(queues[a]) :
          /\ queues[a][i] = w
          /\ queues' = [queues EXCEPT ![a] = Without(@, i)]
          /\ pc' = [pc EXCEPT ![w] = "left"]
     \/ /\ \A i \in 1..Len(queues[a]) : queues[a][i] # w
        /\ pc' = [pc EXCEPT ![w] = "returning"]
        /\ UNCHANGED queues
  /\ UNCHANGED <<active, ready, ctxDone>>

\* g.release by a canceled waiter that had been selected.
ReturnSlot(w) ==
  /\ pc[w] = "returning"
  /\ release(AgentOf[w])
  /\ pc' = [pc EXCEPT ![w] = "left"]
  /\ UNCHANGED ctxDone

\* The release function handed to a worker, called once when its Run is over.
Release(w) ==
  /\ pc[w] = "holding"
  /\ release(AgentOf[w])
  /\ pc' = [pc EXCEPT ![w] = "left"]
  /\ UNCHANGED ctxDone

\* The worker's context ends: a cancel request or a lost connection.
Cancel(w) ==
  /\ ~ctxDone[w]
  /\ pc[w] # "left"
  /\ ctxDone' = [ctxDone EXCEPT ![w] = TRUE]
  /\ UNCHANGED <<active, queues, ready, pc>>

\* The next Run delivered to the Agent: a fresh context and a fresh waiter.
NextRun(w) ==
  /\ pc[w] = "left"
  /\ pc' = [pc EXCEPT ![w] = "idle"]
  /\ ready' = [ready EXCEPT ![w] = FALSE]
  /\ ctxDone' = [ctxDone EXCEPT ![w] = FALSE]
  /\ UNCHANGED <<active, queues>>

Next ==
  \E w \in Workers :
    \/ Acquire(w)
    \/ WakeReady(w)
    \/ WakeDone(w)
    \/ Remove(w)
    \/ ReturnSlot(w)
    \/ Release(w)
    \/ Cancel(w)
    \/ NextRun(w)

\* A goroutine that can run does run, and a Runtime invocation ends.
Fairness ==
  \A w \in Workers :
    /\ WF_vars(WakeReady(w) \/ WakeDone(w))
    /\ WF_vars(Remove(w))
    /\ WF_vars(ReturnSlot(w))
    /\ WF_vars(Release(w))

Spec == Init /\ [][Next]_vars

FairSpec == Spec /\ Fairness
-----------------------------------------------------------------------------
Queued(w) == \E i \in 1..Len(queues[AgentOf[w]]) : queues[AgentOf[w]][i] = w

\* v queued up before w for the same Agent and both still wait.
Before(v, w) ==
  /\ AgentOf[v] = AgentOf[w]
  /\ \E i, j \in 1..Len(queues[AgentOf[w]]) :
       /\ i < j
       /\ queues[AgentOf[w]][i] = v
       /\ queues[AgentOf[w]][j] = w

\* The worker answers for its Agent's slot: it runs, or it was selected.
Owns(w) ==
  \/ pc[w] \in {"holding", "returning"}
  \/ pc[w] \in {"waiting", "removing"} /\ ready[w]

\* Types of the gate's maps and of the workers' places; every Agent's queue
\* holds workers of that Agent only.
TypeOK ==
  /\ active \in [Agents -> BOOLEAN]
  /\ queues \in [Agents -> Seq(Workers)]
  /\ \A a \in Agents : \A i \in 1..Len(queues[a]) : AgentOf[queues[a][i]] = a
  /\ ready \in [Workers -> BOOLEAN]
  /\ ctxDone \in [Workers -> BOOLEAN]
  /\ pc \in [Workers -> Places]

\* "one active Runtime invocation per Agent": two workers of one Agent never
\* run at the same time, whatever cancellations race with releases.
MutualExclusion ==
  \A v, w \in Workers :
    /\ pc[v] = "holding" /\ pc[w] = "holding"
    /\ AgentOf[v] = AgentOf[w]
    => v = w

\* A slot marked active is never lost: some worker answers for it, so waiters
\* behind it cannot be stranded when the one selected for it is canceled.
SlotHasOwner ==
  \A a \in Agents :
    active[a] <=> \E w \in Workers : AgentOf[w] = a /\ Owns(w)

\* A worker parked on a channel that nobody closed is still in the queue of a
\* slot that is in use, exactly once: a release will find it.
WaiterIsQueued ==
  \A w \in Workers :
    pc[w] = "waiting" /\ ~ready[w] =>
      /\ active[AgentOf[w]]
      /\ \E i \in 1..Len(queues[AgentOf[w]]) :
           \A j \in 1..Len(queues[AgentOf[w]]) :
             queues[AgentOf[w]][j] = w <=> j = i

\* Waiters are served oldest first: a release never selects a worker while an
\* older one of the same Agent is still queued, and a waiter that gives up does
\* not disturb the order of the others.
ServedStep ==
  \A v, w \in Workers :
    Before(v, w) =>
      /\ ~ready'[w]
      /\ Queued(v)' /\ Queued(w)' => Before(v, w)'

\* ServedStep holds of every step.
ServedInOrder == [][ServedStep]_vars

\* A queued worker always gets an answer: the slot, or its cancellation.
EveryWaiterServed ==
  \A w \in Workers : pc[w] = "waiting" ~> pc[w] \in {"holding", "left"}
=============================================================================
