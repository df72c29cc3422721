-------------------------- MODULE ReplyProjections --------------------------
(***************************************************************************)
(* What one Message makes of Agents' replies: the Runs of its mentions,    *)
(* the Room Message of every reply (RunRepository.applyReply), the child   *)
(* Runs its text asks for (HandoffService, routeAgentReplyMentions in      *)
(* app.ts), and what a restart repairs (RunProjectionReconciler and the    *)
(* startup sequence of app.ts).                                            *)
(*                                                                         *)
(* A Run is named by its Agent: all Runs of one trigger share the Message, *)
(* and (trigger_message_id, target_agent_id) is unique.  The content of a  *)
(* reply is the set of Agents it names exactly.  Rows written before the   *)
(* projections existed (migration 0049) are the initial states with        *)
(* replies; their times are all before the clock's start.                  *)
(*                                                                         *)
(* Routing and dispatching await only what is already settled: no other    *)
(* handler runs before such a loop has ended, but the server may die.      *)
(***************************************************************************)
EXTENDS Naturals, Sequences, FiniteSets

CONSTANTS Agents, NoAgent,
          Mentioned,    \* the Agents the Message mentions
          Contents,     \* the replies an Agent may give: sets of Agents
          Legacy,       \* may the database hold rows of older versions?
          Governed,     \* does an approved execution plan claim the Task?
          MaxDepth,     \* collaborationPolicy.maxAgentMentionDepth
          MaxUnique,    \* maximumUniqueAgents
          Lifetime,     \* defaultRunDurationMilliseconds
          MaxTime, MaxReplies, MaxCrashes, MaxChanges  \* bounds

ReplyAssumption ==
  /\ IsFiniteSet(Agents) /\ NoAgent \notin Agents /\ Mentioned \subseteq Agents
  /\ Contents \subseteq SUBSET Agents /\ {Legacy, Governed} \subseteq BOOLEAN
  /\ {MaxDepth, MaxUnique, Lifetime, MaxTime, MaxReplies, MaxCrashes,
      MaxChanges} \subseteq Nat

VARIABLES phase,      \* "down", the steps of a start, "up", or "failed"
          posted,     \* time of the Message, or none
          run,        \* the Run of each Agent, or none
          event,      \* its replies, in order
          intent,     \* the routing intent of each reply
          message,    \* the Agents' Messages in the Room
          projection, \* the Message of each projected reply
          failure,    \* the replies that could not be reconciled
          delivery,   \* Runs with a delivery
          loop,       \* routeAgentReplyMentions or a dispatch under way, or none
          recovered,  \* queued Runs a start restored
          able,       \* enabled, assigned Agents of the Room
          allow,      \* collaborationPolicy.allowAgentMentions
          runnable,   \* isRunTaskRunnable and the Member is in the Room
          now, crashes, changes

rows == <<posted, run, event, intent, message, projection, failure, delivery>>
world == <<able, allow, runnable, changes>>
vars == <<phase, rows, loop, recovered, world, now, crashes>>

Phases == {"down", "messages", "replies", "dispatch", "routing", "up", "failed"}
Terminal == {"completed", "expired"}
States == {"none", "queued", "working"} \union Terminal
NoRun == [state |-> "none", parent |-> NoAgent, via |-> "none", deadline |-> 0]
Unposted == MaxTime + 1
Replies == 1..MaxReplies

Exists(a) == run[a].state # "none"
Given == {r \in Agents \X Replies : r[2] \in DOMAIN event[r[1]]}
Unprojected == Given \ (DOMAIN projection \union failure)
Pending(a) == {i \in DOMAIN intent[a] : intent[a][i] = "pending"}
InOrder(S) == [i \in 1..Cardinality(S) |->
   CHOOSE x \in S : Cardinality({y \in S : y <= x}) = i]

-----------------------------------------------------------------------------
\* Runs and their delivery.

runDeadlineAt(t) == t + Lifetime

\* createRuns: one transaction for all the Runs of a Message.
createRuns(deadline, state) ==
  run' = [a \in Agents |-> IF a \in Mentioned
     THEN [state |-> state, parent |-> NoAgent, via |-> "mention",
           deadline |-> deadline]
     ELSE run[a]]

\* dispatchRun and DeliveryService.dispatch: a Run past its deadline expires
\* with every other late queued Run of the Room.
LateNever(a) == FALSE
Late(a) == run[a].state = "queued" /\ run[a].deadline <= now
dispatch(a) ==
  IF Late(a)
  THEN /\ run' = [b \in Agents |-> IF Late(b)
             THEN [run[b] EXCEPT !.state = "expired"] ELSE run[b]]
       /\ UNCHANGED delivery
  ELSE /\ delivery' = IF run[a].state = "queued"
             THEN delivery \union {a} ELSE delivery
       /\ UNCHANGED run

\* What follows a commit: Runs to dispatch, or intents to route.
NoLoop == [run |-> NoAgent, todo |-> << >>, targets |-> {}, children |-> {},
           stage |-> "none"]
idle == phase = "up" /\ loop = NoLoop
Loop(a, todo, children) ==
  [run |-> a, todo |-> todo, targets |-> {}, children |-> children,
   stage |-> IF children = {} THEN "next" ELSE "dispatch"]

\* MemberMessageRunService.create: the Message and all its Runs, or nothing.
Post ==
  /\ idle /\ posted = Unposted /\ runnable /\ Mentioned \subseteq able
  /\ ~Governed
  /\ posted' = now
  /\ createRuns(runDeadlineAt(now), "queued")
  /\ loop' = Loop(NoAgent, << >>, Mentioned)
  /\ UNCHANGED <<phase, event, intent, message, projection, failure, delivery,
                 recovered, world, now, crashes>>

-----------------------------------------------------------------------------
\* Replies.

\* insertReplyMessage and insertReplyMessageProjection.
insertReplyMessageSkipped(a, content, at) == message
insertReplyMessage(a, content, at) ==
  Append(message, [sender |-> a, content |-> content, at |-> at])
Projects(r, m) == [p \in DOMAIN projection \union {r} |->
   IF p = r THEN m ELSE projection[p]]

\* applyReply: event, routing intent, Message and projection together; the
\* routing of the Run's pending intents starts at once.
Reply(a, content) ==
  /\ idle /\ run[a].state = "working" /\ Cardinality(Given) < MaxReplies
  /\ event' = [event EXCEPT ![a] = Append(@, [content |-> content, at |-> now])]
  /\ intent' = [intent EXCEPT ![a] = Append(@, "pending")]
  /\ message' = insertReplyMessage(a, content, now)
  /\ projection' = Projects(<<a, Len(event[a]) + 1>>, Len(message) + 1)
  /\ loop' = Loop(a, InOrder(Pending(a) \union {Len(event[a]) + 1}), {})
  /\ UNCHANGED <<phase, posted, run, failure, delivery, recovered, world, now,
                 crashes>>

\* The Bridge takes a delivered Run and ends it.
Work(a) ==
  /\ idle /\ a \in delivery
  /\ \/ run[a].state = "queued" /\ run' = [run EXCEPT ![a].state = "working"]
     \/ run[a].state = "working" /\ run' = [run EXCEPT ![a].state = "completed"]
  /\ UNCHANGED <<phase, posted, event, intent, message, projection, failure,
                 delivery, loop, recovered, world, now, crashes>>

\* dispatchQueuedForDevice when a Bridge connects.
Reconnect(a) ==
  /\ idle /\ run[a].state = "queued" /\ a \notin delivery
  /\ dispatch(a)
  /\ UNCHANGED <<phase, posted, event, intent, message, projection, failure,
                 loop, recovered, world, now, crashes>>

-----------------------------------------------------------------------------
\* Handoffs.

\* createChild walks from the parent to the root.
Lineage(a) ==
  LET up[n \in 0..Cardinality(Agents)] ==
        IF n = 0 THEN {a}
        ELSE up[n - 1] \union ({run[b].parent : b \in up[n - 1]} \ {NoAgent})
  IN  up[Cardinality(Agents)]
Depth(a) == Cardinality(Lineage(a)) - 1

RefusedLater(parent, target) ==
  \/ target \notin able
  \/ Depth(parent) > MaxDepth
  \/ target \in Lineage(parent)
  \/ Cardinality(Lineage(parent) \union {target}) > MaxUnique
Refused(parent, target) ==
  \/ target \notin able
  \/ Depth(parent) >= MaxDepth
  \/ target \in Lineage(parent)
  \/ Cardinality(Lineage(parent) \union {target}) > MaxUnique

\* A child shares the parent's deadline, or is late from the start.
childDeadlineFresh(parent) == runDeadlineAt(now)
childDeadline(parent) ==
  IF run[parent].deadline <= now THEN now ELSE run[parent].deadline

child(parent, via) ==
  [state |-> "queued", parent |-> parent, via |-> via,
   deadline |-> childDeadline(parent)]

\* team.handoff: an Agent asks for a child Run itself; a refusal, a governed
\* Task and an Agent with a Run of this Message are errors of the call.
Handoff(a, target) ==
  /\ idle /\ Exists(a) /\ allow
  /\ ~Refused(a, target) /\ ~Exists(target) /\ ~Governed
  /\ run' = [run EXCEPT ![target] = child(a, "mcp")]
  /\ loop' = Loop(NoAgent, << >>, {target})
  /\ UNCHANGED <<phase, posted, event, intent, message, projection, failure,
                 delivery, recovered, world, now, crashes>>

\* createFromReply: which Agents the text addresses now.
Resolve ==
  /\ loop.stage = "next" /\ loop.todo # << >>
  /\ LET named == event[loop.run][Head(loop.todo)].content \ {loop.run}
         targets == IF allow THEN named \intersect able ELSE {}
     IN  loop' = [loop EXCEPT !.targets = targets,
                               !.stage = IF targets = {} THEN "dispatch"
                                         ELSE "create"]
  /\ UNCHANGED <<phase, rows, recovered, world, now, crashes>>

\* One target of the loop in createFromReply: a child that exists is taken
\* again, a refused one is left as plain text, any other error ends it all.
Creates(t) == ~Refused(loop.run, t) /\ ~Exists(t)
Throws(t) == /\ Governed /\ ~Refused(loop.run, t)
             /\ ~(Exists(t) /\ run[t].parent = loop.run)
TakenOnNew(t) == Creates(t)
TakenOn(t) == Creates(t) \/ run[t].parent = loop.run
CreateChild ==
  /\ loop.stage = "create"
  /\ \E t \in loop.targets :
       IF Throws(t)
       THEN /\ loop' = NoLoop
            /\ phase' = IF phase = "routing" THEN "failed" ELSE phase
            /\ UNCHANGED run
       ELSE /\ run' = IF Creates(t)
                 THEN [run EXCEPT ![t] = child(loop.run, "reply")] ELSE run
            /\ loop' = [loop EXCEPT
                 !.targets = @ \ {t},
                 !.children = IF TakenOn(t) THEN @ \union {t} ELSE @,
                 !.stage = IF loop.targets = {t} THEN "dispatch" ELSE @]
            /\ UNCHANGED phase
  /\ UNCHANGED <<posted, event, intent, message, projection, failure, delivery,
                 recovered, world, now, crashes>>

DispatchChild ==
  /\ loop.stage = "dispatch"
  /\ \E t \in loop.children :
       /\ dispatch(t)
       /\ loop' = [loop EXCEPT !.children = @ \ {t}]
  /\ UNCHANGED <<phase, posted, event, intent, message, projection, failure,
                 recovered, world, now, crashes>>

\* completeReplyRoutingIntent, then the next intent.
Complete ==
  /\ loop.stage = "dispatch" /\ loop.children = {} /\ loop.todo # << >>
  /\ intent' = [intent EXCEPT ![loop.run][Head(loop.todo)] = "completed"]
  /\ loop' = [loop EXCEPT !.todo = Tail(@), !.stage = "next"]
  /\ UNCHANGED <<phase, posted, run, event, message, projection, failure,
                 delivery, recovered, world, now, crashes>>

LoopEnds ==
  /\ loop # NoLoop /\ loop.todo = << >> /\ loop.children = {}
  /\ loop' = NoLoop
  /\ UNCHANGED <<phase, rows, recovered, world, now, crashes>>

LoopStep == Resolve \/ CreateChild \/ DispatchChild \/ Complete \/ LoopEnds

-----------------------------------------------------------------------------
\* A start: Messages, replies, queued Runs and intents, in this order.

Start ==
  /\ phase \in {"down", "failed"}
  /\ phase' = "messages"
  /\ UNCHANGED <<rows, loop, recovered, world, now, crashes>>

\* reconcileMemberMessage: a Message without Runs is routed late, restored as
\* expired, or reported.
Unrouted == posted # Unposted /\ \A a \in Agents : ~Exists(a)
Routable == runnable /\ Mentioned \subseteq able /\ ~Governed
RecoverMessage ==
  /\ phase = "messages"
  /\ phase' = "replies"
  /\ LET deadline == runDeadlineAt(posted)
         expired == deadline <= now
     IN  IF Unrouted /\ (expired \/ Routable)
         THEN /\ createRuns(deadline, IF expired THEN "expired" ELSE "queued")
              /\ recovered' = IF expired THEN {} ELSE Mentioned
         ELSE UNCHANGED <<run, recovered>>
  /\ UNCHANGED <<posted, event, intent, message, projection, failure, delivery,
                 loop, world, now, crashes>>

\* findReplyMessageCandidates.
CandidatesExact(r, exact) == {m \in DOMAIN message :
   /\ message[m].sender = r[1]
   /\ message[m].content = event[r[1]][r[2]].content
   /\ exact /\ message[m].at = event[r[1]][r[2]].at}
Candidates(r, exact) == {m \in DOMAIN message :
   /\ message[m].sender = r[1]
   /\ message[m].content = event[r[1]][r[2]].content
   /\ exact <=> (message[m].at = event[r[1]][r[2]].at)}
TakenIgnored == {}
Taken == {projection[p] : p \in DOMAIN projection}

\* ORDER BY event.created_at, run_id, sequence; the order of ids is free.
IsNext(r) == \A q \in Unprojected :
  /\ event[q[1]][q[2]].at >= event[r[1]][r[2]].at
  /\ q[1] = r[1] /\ event[q[1]][q[2]].at = event[r[1]][r[2]].at => q[2] >= r[2]

\* reconcileReplyMessageProjection.
RecoverReply(r) ==
  /\ phase = "replies" /\ r \in Unprojected /\ IsNext(r)
  /\ LET exact == Candidates(r, TRUE)
         others == Candidates(r, FALSE)
         e == event[r[1]][r[2]]
     IN  \/ /\ exact = {} /\ others = {}
            /\ message' = insertReplyMessage(r[1], e.content, e.at)
            /\ projection' = Projects(r, Len(message) + 1)
            /\ UNCHANGED failure
         \/ /\ Cardinality(exact) = 1 /\ exact \intersect Taken = {}
            /\ projection' = Projects(r, CHOOSE m \in exact : TRUE)
            /\ UNCHANGED <<message, failure>>
         \/ /\ \/ Cardinality(exact) > 1
               \/ exact # {} /\ exact \subseteq Taken
               \/ exact = {} /\ others # {}
            /\ failure' = failure \union {r}
            /\ UNCHANGED <<message, projection>>
  /\ UNCHANGED <<phase, posted, run, event, intent, delivery, loop, recovered,
                 world, now, crashes>>

RepliesDone ==
  /\ phase = "replies" /\ Unprojected = {}
  /\ phase' = "dispatch"
  /\ UNCHANGED <<rows, loop, recovered, world, now, crashes>>

DispatchRecovered ==
  /\ phase = "dispatch"
  /\ IF recovered = {}
     THEN phase' = "routing" /\ UNCHANGED <<run, delivery, recovered>>
     ELSE \E a \in recovered :
            /\ dispatch(a) /\ recovered' = recovered \ {a} /\ UNCHANGED phase
  /\ UNCHANGED <<posted, event, intent, message, projection, failure, loop,
                 world, now, crashes>>

\* Every Run with a pending intent is routed, one after another; then the
\* server listens.
RoutePendingSkipped ==
  /\ phase = "routing" /\ loop = NoLoop
  /\ phase' = "up"
  /\ UNCHANGED <<rows, loop, recovered, world, now, crashes>>
RoutePending ==
  /\ phase = "routing" /\ loop = NoLoop
  /\ \/ /\ \A a \in Agents : Pending(a) = {}
        /\ phase' = "up" /\ UNCHANGED loop
     \/ /\ \E a \in Agents : /\ Pending(a) # {}
                             /\ loop' = Loop(a, InOrder(Pending(a)), {})
        /\ UNCHANGED phase
  /\ UNCHANGED <<rows, recovered, world, now, crashes>>

StartStep == \/ Start \/ RecoverMessage \/ RepliesDone \/ DispatchRecovered
             \/ RoutePending
             \/ \E r \in Agents \X Replies : RecoverReply(r)

Crash ==
  /\ phase \notin {"down", "failed"} /\ crashes < MaxCrashes
  /\ phase' = "down" /\ crashes' = crashes + 1
  /\ loop' = NoLoop /\ recovered' = {}
  /\ UNCHANGED <<rows, world, now>>

Tick ==
  /\ now < MaxTime /\ now' = now + 1
  /\ UNCHANGED <<phase, rows, loop, recovered, world, crashes>>

\* Members change the Room, its Agents and the Task.
Change ==
  /\ idle /\ changes < MaxChanges /\ changes' = changes + 1
  /\ \/ \E a \in Agents : able' = (able \ {a}) \union ({a} \ able)
                          /\ UNCHANGED <<allow, runnable>>
     \/ allow' = ~allow /\ UNCHANGED <<able, runnable>>
     \/ runnable' = ~runnable /\ UNCHANGED <<able, allow>>
  /\ UNCHANGED <<phase, rows, loop, recovered, now, crashes>>

-----------------------------------------------------------------------------
Nothing == [a \in Agents |-> << >>]
Stored == [content : Contents, at : {0, 1}]

\* The Runs the execution plan admitted, at work.
Admitted == [a \in Agents |-> IF a \in Mentioned
   THEN [state |-> "working", parent |-> NoAgent, via |-> "mention",
         deadline |-> Lifetime]
   ELSE NoRun]

\* Rows of older versions: a Message without Runs, or a finished Run with
\* replies, of whose Messages any may be missing or carry another time.
LegacyRows ==
  /\ posted = 0 /\ phase = "down"
  /\ \/ run = [a \in Agents |-> NoRun] /\ event = Nothing /\ message = << >>
     \/ \E a \in Mentioned :
          /\ run = [b \in Agents |-> IF b \in Mentioned
               THEN [state |-> IF b = a THEN "working" ELSE "completed",
                     parent |-> NoAgent, via |-> "mention", deadline |-> Lifetime]
               ELSE NoRun]
          /\ \E n \in Replies : \E es \in [1..n -> Stored] :
               /\ \A i, j \in 1..n : i < j => es[i].at <= es[j].at
               /\ event = [Nothing EXCEPT ![a] = es]
               /\ \E k \in 0..n : \E ms \in [1..k -> Stored] :
                    message = [i \in 1..k |-> [sender |-> a,
                                 content |-> ms[i].content, at |-> ms[i].at]]

Init ==
  /\ \/ /\ ~Legacy /\ phase = "up" /\ event = Nothing /\ message = << >>
        /\ \/ ~Governed /\ posted = Unposted /\ run = [a \in Agents |-> NoRun]
           \/ Governed /\ posted = 0 /\ run = Admitted
     \/ Legacy /\ LegacyRows
  /\ intent = [a \in Agents |-> [i \in DOMAIN event[a] |-> "completed"]]
  /\ projection = << >> /\ failure = {}
  /\ delivery = {a \in Agents : run[a].state \in {"working", "completed"}}
  /\ loop = NoLoop /\ recovered = {}
  /\ able = Agents /\ allow = TRUE /\ runnable = TRUE
  /\ now = IF Legacy THEN 1 ELSE 0
  /\ crashes = 0 /\ changes = 0

Next ==
  \/ Post \/ LoopStep \/ StartStep \/ Crash \/ Tick \/ Change
  \/ \E a \in Agents :
       \/ Work(a) \/ Reconnect(a)
       \/ \E content \in Contents : Reply(a, content)
       \/ \E target \in Agents : Handoff(a, target)

Spec == Init /\ [][Next]_vars

\* The server is started again when it is down; what it began, it continues.
FairSpec == Spec /\ WF_vars(StartStep) /\ WF_vars(LoopStep)

-----------------------------------------------------------------------------
ReplyTypeOK ==
  /\ phase \in Phases /\ posted \in 0..Unposted
  /\ run \in [Agents -> [state : States, parent : Agents \union {NoAgent},
                         via : {"none", "mention", "reply", "mcp"},
                         deadline : 0..MaxTime + Lifetime]]
  /\ \A a \in Agents : DOMAIN intent[a] = DOMAIN event[a]
  /\ DOMAIN projection \union failure \subseteq Agents \X Replies
  /\ Taken \subseteq DOMAIN message
  /\ delivery \union able \union recovered \subseteq Agents
  /\ now \in 0..MaxTime /\ crashes \in 0..MaxCrashes /\ changes \in 0..MaxChanges

\* Once a start has passed the replies, every reply has its own Message, with
\* its sender, text and time, or one recorded failure, never both; and the
\* text of a failed one is still readable in the Room.
RepliesAccounted ==
  /\ phase \in {"dispatch", "routing", "up"} => Unprojected = {}
  /\ DOMAIN projection \intersect failure = {}
  /\ \A p, q \in DOMAIN projection : projection[p] = projection[q] => p = q
  /\ \A p \in DOMAIN projection :
       message[projection[p]] = [sender |-> p[1],
          content |-> event[p[1]][p[2]].content, at |-> event[p[1]][p[2]].at]
  /\ \A f \in failure : Candidates(f, TRUE) \union Candidates(f, FALSE) # {}

\* The chain of handoffs behind any Run ends at the Message, visits no Agent
\* twice, and stays within the Room's depth and the five Agents.
LineageBounded ==
  \A a \in Agents : Exists(a) =>
     /\ Depth(a) <= MaxDepth /\ Cardinality(Lineage(a)) <= MaxUnique
     /\ \E root \in Lineage(a) : run[root].parent = NoAgent

\* A child Run made of a reply that no Bridge was ever offered still has a
\* pending intent that will offer it, whatever was cut off in between.
NoChildStranded ==
  \A c \in Agents : run[c].via = "reply" /\ run[c].state = "queued" =>
     \/ c \in delivery
     \/ \E i \in Pending(run[c].parent) : c \in event[run[c].parent][i].content

\* No Run is offered to a Bridge later than the lifetime counted from the
\* Message, neither a child nor a Run restored by a restart.
NothingStartsLateStep ==
  \A a \in delivery' \ delivery : now < posted + Lifetime
NothingStartsLate == [][NothingStartsLateStep]_vars

\* A restart repeats no text: it adds a Message for a reply only if the Room
\* has none of the same Agent with the same text.
RestartRepeatsNothingStep ==
  message' # message /\ phase = "replies" =>
    \A m \in DOMAIN message :
       LET new == message'[Len(message')]
       IN  <<message[m].sender, message[m].content>>
             # <<new.sender, new.content>>
RestartRepeatsNothing == [][RestartRepeatsNothingStep]_vars

\* handoff-service.ts: invalid candidates leave the reply as plain text; a
\* reply never keeps the server from starting.
RejectedStaysPlainText == phase # "failed"

\* Every reply is routed in the end, across crashes.
RepliesRouted ==
  \A a \in Agents, i \in Replies : i \in Pending(a) ~> i \notin Pending(a)
=============================================================================
