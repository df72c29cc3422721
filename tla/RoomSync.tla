------------------------------ MODULE RoomSync ------------------------------
(***************************************************************************)
(* One browser's view of a Room (apps/web/src/features/room/               *)
(* room-synchronization.ts) kept up to date from the server: a first       *)
(* snapshot, a listener on the Team's change channel, a slow fallback      *)
(* timer and refreshes after the user's own actions.  Refreshes overlap,   *)
(* each made of several reads, and commit in any order.  A part of the     *)
(* Room is a number: how often it changed on the server.                   *)
(***************************************************************************)
EXTENDS TeamChanges, TLC

CONSTANTS
  Room,         \* the Room on screen, one of Rooms
  Parts,        \* the parts of the Room that are followed
  PageSize,     \* Messages of one page, 100 in the code
  MaxPages,     \* pages one refresh reads, 10 in the code
  MaxMessages, MaxChanges, MaxActions, MaxTimers, MaxFailures, MaxRestarts,
                \* bounds on what the environment does
  None

RoomSyncAssumption ==
  /\ Room \in Rooms /\ Parts \subseteq {"tasks", "runs", "settings"}
  /\ PageSize \in Nat \ {0} /\ MaxPages \in Nat \ {0}
  /\ \A n \in {MaxMessages, MaxChanges, MaxActions, MaxTimers, MaxFailures, MaxRestarts} :
       n \in Nat

VARIABLES
  latest,    \* the Room's last Message
  part,      \* how often each part of the Room changed
  channel,   \* the change channel of the server process
  page,      \* what the browser holds: Messages, checkpoint, parts and their versions
  job,       \* the refresh of each kind that is running, or None
  listener,  \* the loop on the change channel
  floor,     \* per part, what the server had when the newest committed refresh began
  jumped,    \* Messages the checkpoint passed when a tail page was committed
  spent      \* environment steps taken, against their bounds
vars == <<latest, part, channel, page, job, listener, floor, jumped, spent>>

Kinds == {"start", "action", "room", "full", "events"}
Zero == [p \in Parts |-> 0]

\* The parts a kind of refresh reads.
Reads(kind) ==
  Parts \intersect CASE kind = "events" -> {"runs"}
                     [] kind \in {"action", "room"} -> {"tasks", "runs"}
                     [] OTHER -> {"tasks", "runs", "settings"}
OnePage(kind) == kind \in {"start", "action"}

Init ==
  /\ latest = 0 /\ part = Zero /\ channel = EmptyChannel
  /\ page = [shown |-> {}, cursor |-> None, seq |-> 0, older |-> None, init |-> FALSE,
             ver |-> 0, value |-> Zero, version |-> Zero]
  /\ job = [k \in Kinds |-> None]
  /\ listener = [pc |-> "off", cursor |-> 0, change |-> None]
  /\ floor = Zero /\ jumped = {}
  /\ spent = [actions |-> 0, timers |-> 0, failures |-> 0, restarts |-> 0]

Spend(what, limit) ==
  /\ spent[what] < limit
  /\ spent' = [spent EXCEPT ![what] = @ + 1]

-----------------------------------------------------------------------------
\* The server

\* The listener's open request is answered by the notification itself.
Notified(st) ==
  IF listener.pc = "waiting"
  THEN [listener EXCEPT !.pc = "got", !.change = result(st, listener.cursor)]
  ELSE listener

Notify(hint) ==
  /\ channel.cursor < MaxChanges
  /\ channel' = notify(channel, hint)
  /\ listener' = Notified(channel')

AppendMessage ==
  /\ latest < MaxMessages
  /\ latest' = latest + 1
  /\ Notify(RoomHint(Room))
  /\ UNCHANGED <<part, page, job, floor, jumped, spent>>

PartChanges(p) ==
  /\ part' = [part EXCEPT ![p] = @ + 1]
  /\ Notify(CASE p = "tasks" -> RoomHint(Room) [] p = "runs" -> RunHint(Room) [] OTHER -> TeamHint)
  /\ UNCHANGED <<latest, page, job, floor, jumped, spent>>

\* The open request breaks; the new process counts its changes from zero.
Restart ==
  /\ Spend("restarts", MaxRestarts)
  /\ channel' = EmptyChannel
  /\ listener' = IF listener.pc = "waiting" THEN [listener EXCEPT !.pc = "failed"] ELSE listener
  /\ UNCHANGED <<latest, part, page, job, floor, jumped>>

\* listMessages: the last page, or the page after a cursor.
TailPage ==
  [items |-> {n \in 1..latest : n > latest - PageSize}, next |-> FALSE, sync |-> latest,
   older |-> IF latest > PageSize THEN latest - PageSize + 1 ELSE None]
PageAfterPeeked(cursor) ==
  LET last == IF latest > cursor + PageSize THEN cursor + PageSize ELSE latest
      read == IF latest > last THEN last + 1 ELSE last
  IN [items |-> (cursor + 1)..last, next |-> latest > last, sync |-> read, older |-> None]
PageAfter(cursor) ==
  LET last == IF latest > cursor + PageSize THEN cursor + PageSize ELSE latest
  IN [items |-> (cursor + 1)..last, next |-> latest > last, sync |-> last, older |-> None]

-----------------------------------------------------------------------------
\* Refreshes

NewJob(kind) ==
  [ver |-> page.ver + 1, cursor |-> page.cursor, seq |-> page.seq,
   msgs |-> {}, pages |-> 0, done |-> kind = "events", tail |-> None,
   read |-> [p \in Parts |-> None], base |-> part]

\* createSingleFlight: a refresh of the same kind that is running stays alone.
Begun(kind) ==
  /\ page' = [page EXCEPT !.ver = @ + 1]
  /\ job' = [job EXCEPT ![kind] = NewJob(kind)]

start ==
  /\ listener.pc = "off" /\ job["start"] = None /\ page.ver = 0
  /\ Begun("start")
  /\ UNCHANGED <<latest, part, channel, listener, floor, jumped, spent>>

refreshAfterAction ==
  /\ job["action"] = None
  /\ Spend("actions", MaxActions)
  /\ Begun("action")
  /\ UNCHANGED <<latest, part, channel, listener, floor, jumped>>

\* The 30 s timer and the tab that becomes visible; a refresh that has nothing
\* new to read is explored MaxTimers times.
UpToDate ==
  page.value = part /\ page.seq = latest /\ page.cursor # None
fallbackAfterFailure ==
  /\ listener.pc = "failed" /\ job["full"] = None
  /\ Begun("full") /\ UNCHANGED <<latest, part, channel, listener, floor, jumped, spent>>
fallback ==
  /\ listener.pc # "off" /\ job["full"] = None
  /\ IF UpToDate THEN Spend("timers", MaxTimers) ELSE UNCHANGED spent
  /\ Begun("full")
  /\ UNCHANGED <<latest, part, channel, listener, floor, jumped>>

\* One page of Messages; the loop ends at the last page or after MaxPages.
ReadPage(kind) ==
  LET j == job[kind]
      first == j.pages = 0
      pg == IF OnePage(kind) \/ j.cursor = None THEN TailPage ELSE PageAfter(j.cursor)
  IN /\ j # None /\ ~j.done
     /\ job' = [job EXCEPT ![kind] =
          [j EXCEPT !.msgs = @ \union pg.items, !.pages = @ + 1,
                    !.cursor = pg.sync,
                    !.seq = IF pg.items # {} /\ pg.sync > @ THEN pg.sync ELSE @,
                    !.tail = IF first /\ (OnePage(kind) \/ j.cursor = None) THEN [older |-> pg.older] ELSE @,
                    !.done = ~pg.next \/ j.pages + 1 = MaxPages]]
     /\ UNCHANGED <<latest, part, channel, page, listener, floor, jumped, spent>>

ReadPart(kind, p) ==
  LET j == job[kind] IN
  /\ j # None /\ p \in Reads(kind) /\ j.read[p] = None
  /\ OnePage(kind) \/ j.done
  /\ job' = [job EXCEPT ![kind].read[p] = part[p]]
  /\ UNCHANGED <<latest, part, channel, page, listener, floor, jumped, spent>>

\* Messages only merge; the first tail page sets the history, and the checkpoint
\* only moves forward.
commitMessages(pg, j, kind) ==
  LET seq == IF OnePage(kind) THEN (IF j.msgs = {} THEN 0 ELSE j.cursor) ELSE j.seq
      init == j.tail # None /\ ~pg.init
      newer == seq >= pg.seq
  IN [pg EXCEPT !.shown = @ \union j.msgs,
                !.init = @ \/ init,
                !.older = IF init THEN j.tail.older ELSE @,
                !.seq = IF newer THEN seq ELSE @,
                !.cursor = IF newer /\ j.cursor # None THEN j.cursor ELSE @]

commitAny(pg, j, kind) ==
  [pg EXCEPT !.value = [p \in Parts |-> IF p \in Reads(kind) THEN j.read[p] ELSE @[p]]]

\* commitSnapshot and commitEvents: per part, only a refresh that began later wins.
commitSnapshot(pg, j, kind) ==
  LET wins(p) == p \in Reads(kind) /\ j.ver >= pg.version[p]
  IN [pg EXCEPT !.value = [p \in Parts |-> IF wins(p) THEN j.read[p] ELSE @[p]],
                !.version = [p \in Parts |-> IF wins(p) THEN j.ver ELSE @[p]]]

\* What the end of a refresh lets go on: the first one starts the listener, and
\* the listener goes on after the refresh it waited for.
Ended(kind) ==
  CASE kind = "start" -> [listener EXCEPT !.pc = "idle"]
    [] listener.pc = kind -> [listener EXCEPT !.pc = "idle"]
    [] OTHER -> listener

\* The Messages between the checkpoint and the tail page that moves it.
Passed(j, seq) ==
  IF j.tail # None /\ page.init /\ seq > page.seq
  THEN {n \in (page.seq + 1)..seq : \A m \in j.msgs : n < m}
  ELSE {}

Commit(kind) ==
  LET j == job[kind] IN
  /\ j # None /\ j.done /\ \A p \in Reads(kind) : j.read[p] # None
  /\ page' = commitSnapshot(IF kind = "events" THEN page ELSE commitMessages(page, j, kind), j, kind)
  /\ floor' = [p \in Parts |->
       IF p \in Reads(kind) /\ j.base[p] > floor[p] THEN j.base[p] ELSE floor[p]]
  /\ jumped' = jumped \union Passed(j, page'.seq)
  /\ job' = [job EXCEPT ![kind] = None]
  /\ listener' = Ended(kind)
  /\ UNCHANGED <<latest, part, channel, spent>>

\* A read fails: nothing of the refresh is committed.
Fail(kind) ==
  /\ job[kind] # None
  /\ Spend("failures", MaxFailures)
  /\ job' = [job EXCEPT ![kind] = None]
  /\ listener' = Ended(kind)
  /\ UNCHANGED <<latest, part, channel, page, floor, jumped>>

\* beforeCursor pages of immutable Messages
loadOlder ==
  /\ page.older # None
  /\ page' = [page EXCEPT
       !.shown = @ \union {n \in 1..(page.older - 1) : n >= page.older - PageSize},
       !.older = IF page.older - 1 > PageSize THEN page.older - PageSize ELSE None]
  /\ UNCHANGED <<latest, part, channel, job, listener, floor, jumped, spent>>

-----------------------------------------------------------------------------
\* The listener

Ask ==
  /\ listener.pc = "idle"
  /\ listener' = IF listener.cursor # channel.cursor
                 THEN [listener EXCEPT !.pc = "got", !.change = result(channel, listener.cursor)]
                 ELSE [listener EXCEPT !.pc = "waiting"]
  /\ UNCHANGED <<latest, part, channel, page, job, floor, jumped, spent>>

TimeOut ==
  /\ listener.pc = "waiting"
  /\ listener' = [listener EXCEPT !.pc = "idle"]
  /\ UNCHANGED <<latest, part, channel, page, job, floor, jumped, spent>>

teamChangeRefreshScope(change) ==
  CASE change.reset \/ change.team -> "full"
    [] ~change.reset /\ ~change.team /\ Room \in change.roomIds -> "room"
    [] ~change.reset /\ ~change.team /\ Room \notin change.roomIds
         /\ Room \in change.runRoomIds -> "events"
    [] OTHER -> "idle"

\* The listener awaits the refresh it starts, or goes on when one of the kind runs.
Refresh(scope, cursor) ==
  IF scope # "idle" /\ job[scope] = None
  THEN /\ Begun(scope)
       /\ listener' = [pc |-> scope, cursor |-> cursor, change |-> None]
  ELSE /\ listener' = [pc |-> "idle", cursor |-> cursor, change |-> None]
       /\ UNCHANGED <<page, job>>

Handle ==
  /\ listener.pc = "got"
  /\ IF listener.change.changed \/ listener.change.reset
     THEN Refresh(teamChangeRefreshScope(listener.change), listener.change.cursor)
     ELSE Refresh("idle", listener.change.cursor)
  /\ UNCHANGED <<latest, part, channel, floor, jumped, spent>>

\* A broken request is answered by one full refresh and a pause.
Recover ==
  /\ listener.pc = "failed"
  /\ Refresh("full", listener.cursor)
  /\ UNCHANGED <<latest, part, channel, floor, jumped, spent>>

JobStep(kind) == ReadPage(kind) \/ (\E p \in Parts : ReadPart(kind, p)) \/ Commit(kind)
Listen == Ask \/ Handle \/ Recover

Next ==
  \/ AppendMessage \/ (\E p \in Parts : PartChanges(p)) \/ Restart
  \/ start \/ refreshAfterAction \/ fallback \/ loadOlder
  \/ \E k \in Kinds : JobStep(k) \/ Fail(k)
  \/ Listen \/ TimeOut

\* Reads are answered, the loop goes on and the timer keeps firing.
Fairness ==
  /\ WF_vars(start) /\ WF_vars(Listen) /\ WF_vars(fallback)
  /\ \A k \in Kinds : WF_vars(JobStep(k))

Spec == Init /\ [][Next]_vars
FairSpec == Spec /\ Fairness

-----------------------------------------------------------------------------
\* Once a refresh is on screen, the screen never shows less than the server had
\* when that refresh began, whatever older refresh answers later ("an older
\* refresh cannot rewind Runs"; room-synchronization.ts commitSnapshot).
SnapshotNotOlder == \A p \in Parts : page.value[p] >= floor[p]

\* The Messages from the oldest loaded one to the live checkpoint are all on
\* screen: no delta, history read or overlap of refreshes leaves a hole behind the
\* cursor (room-synchronization.ts commitMessages, message-service.ts listMessages).
\* One case is excepted: a refresh after an action reads the tail page only, and when
\* more than a page has come since, its commit moves the checkpoint over the Messages
\* before that page (refreshAfterAction; web-ui.md:718 has no such exception).
First == IF page.older = None THEN 1 ELSE page.older
NoMessageSkipped == page.init => (First..page.seq) \ page.shown \subseteq jumped

\* Once the server is quiet the screen shows all of it and every Message since
\* the first page, after failed reads, dropped refreshes and a server restart
\* whose new cursor hides the changes (listen, the fallback timer).
CatchesUp ==
  <>[](/\ page.value = part
       /\ page.seq = latest)

\* docs/modules/web-ui.md says that the change channel wakes reconciliation, gaps
\* and restarts included: a listener that waits again, up to date with the
\* channel, has on screen what its notifications were about (listen,
\* createSingleFlight).
NotificationsReconcile ==
  (listener.pc = "waiting" /\ listener.cursor = channel.cursor) =>
    \A p \in Parts : page.value[p] = part[p]
=============================================================================
