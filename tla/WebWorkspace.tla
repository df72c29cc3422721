---------------------------- MODULE WebWorkspace ----------------------------
(***************************************************************************)
(* The workspace of one browser tab (apps/web/src/App.tsx and its hooks):  *)
(* who is signed in, which Team, Room and Task is on screen, and what was  *)
(* loaded for them.  Requests are answered in any order, members sign in   *)
(* and out and move on while they are under way, and a link or the Back    *)
(* button asks for a place that is first checked against the server.       *)
(*                                                                         *)
(* A step is one handler or one continuation of a request, with the render *)
(* and the effects it causes.  How a Room is kept up to date once it is    *)
(* shown is RoomSync's.                                                    *)
(***************************************************************************)
EXTENDS Naturals, FiniteSets

CONSTANTS
  Users, Teams, Rooms, Tasks,
  TeamOf,      \* the Team of each Room
  RoomOf,      \* the Room of each Task
  Access,      \* the Teams of each User
  Made,        \* Rooms and Tasks there are at first
  Commands,    \* the commands this instance gives
  MaxSessions, MaxMoves, MaxCommands, MaxFailures,   \* bounds on what members and the network do
  None

WebWorkspaceAssumption ==
  /\ TeamOf \in [Rooms -> Teams] /\ RoomOf \in [Tasks -> Rooms]
  /\ Access \in [Users -> SUBSET Teams \ {{}}]
  /\ Made \subseteq Rooms \union Tasks
  /\ Commands \subseteq {"signOut", "secret", "createRoom", "archive", "createTask", "preview"}
  /\ {MaxSessions, MaxMoves, MaxCommands, MaxFailures} \subseteq Nat

VARIABLES
  tab,     \* the state of the tab, its requests under way included
  made,    \* Rooms and Tasks there are on the server
  alive,   \* does the server still accept the session's credential?
  asked,   \* (history) the place the member asked for last, if it can still be reached
  spent    \* what members and the network did, against the bounds
vars == <<tab, made, alive, asked, spent>>

Views == {"work", "room", "agents"}
managing(view) == view = "agents"

Place(team, room, task, view) == [team |-> team, room |-> room, task |-> task, view |-> view]
First(set) == IF set = {} THEN None ELSE CHOOSE x \in set : TRUE
RoomsIn(team) == {r \in Rooms \intersect made : TeamOf[r] = team}
TasksIn(room) == {k \in Tasks \intersect made : RoomOf[k] = room}

\* A clean address, or a link to any Task.
Links == {None} \union {Place(TeamOf[RoomOf[k]], RoomOf[k], k, "room") : k \in Tasks \intersect Made}

Init ==
  /\ \E url \in Links :
       tab = [gen |-> 0, session |-> None, ready |-> FALSE, url |-> url,
              team |-> None, room |-> None, task |-> None, view |-> "work",
              teams |-> None, lists |-> None, tasks |-> None, files |-> None, secret |-> None,
              preferred |-> None, pending |-> None, remembered |-> None, calls |-> {}]
  /\ made = Made /\ alive = FALSE /\ asked = None
  /\ spent = [moves |-> 0, commands |-> 0, failures |-> 0]

Spend(what, limit) == spent[what] < limit /\ spent' = [spent EXCEPT ![what] = @ + 1]

(***************************************************************************)
(* Requests                                                                *)
(***************************************************************************)
\* A request remembers the session generation and the place it was made in;
\* `here` turns false when the setup context is replaced.
Call(kind, t) ==
  [kind |-> kind, gen |-> t.gen, team |-> t.team, room |-> t.room, task |-> t.task,
   view |-> t.view, here |-> TRUE, read |-> {}]
Of(kind) == {c \in tab.calls : c.kind = kind}
Without(t, kind) == {c \in t.calls : c.kind # kind}
Ask(t, c) == [t EXCEPT !.calls = @ \union {c}]
Done(c) == [tab EXCEPT !.calls = @ \ {c}]

\* jsonRequest: entering is public, the answer to anything else belongs to the
\* session generation that asked.
publicEntry(c) == c.kind = "entry"
requireCurrentSession(c) == publicEntry(c) \/ c.gen = tab.gen

(***************************************************************************)
(* Rendering: the effects of a new state, in the order they run            *)
(***************************************************************************)
\* A Team or a session is selected: its Rooms, Agents, members and Devices are
\* loaded, and the load before it is stopped.
TeamEffect(t) ==
  IF t.gen = tab.gen /\ t.team = tab.team THEN t
  ELSE LET cleared == [t EXCEPT !.lists = None, !.room = None, !.calls = Without(t, "lists")] IN
       IF t.session = None \/ t.team = None THEN cleared ELSE Ask(cleared, Call("lists", cleared))

\* useRoomSynchronization: one lifetime for a Room on screen.
RoomEffect(t) ==
  IF <<t.gen, t.team, t.room>> = <<tab.gen, tab.team, tab.room>> THEN t
  ELSE LET cleared == [t EXCEPT !.tasks = None, !.task = None,
                                !.calls = {c \in @ : c.kind # "snapshot"}] IN
       IF t.session = None \/ t.team = None \/ t.room = None THEN cleared
       ELSE Ask(cleared, [Call("snapshot", cleared) EXCEPT !.read = TasksIn(t.room)])

\* The clarifications and Artifacts of the selected Task
TaskEffect(t) ==
  IF t.gen = tab.gen /\ t.task = tab.task THEN t
  ELSE LET cleared == [t EXCEPT !.files = None, !.calls = Without(t, "files")] IN
       IF t.session = None \/ t.task = None THEN cleared ELSE Ask(cleared, Call("files", cleared))

\* clearSetupPresentation: the setup context is the view, the Team and the session.
SetupEffect(t) ==
  IF <<t.gen, t.team, t.view>> = <<tab.gen, tab.team, tab.view>> THEN t
  ELSE [t EXCEPT !.secret = None, !.calls = {[c EXCEPT !.here = FALSE] : c \in @}]

\* The place that management returns to
Remembered(t) ==
  IF t.session = None \/ managing(t.view) THEN t
  ELSE [t EXCEPT !.remembered =
          [gen |-> t.gen, at |-> Place(t.team, t.room, IF t.view = "room" THEN t.task ELSE None, t.view)]]

Render(t) == Remembered(SetupEffect(TaskEffect(RoomEffect(TeamEffect(t)))))

(***************************************************************************)
(* Navigation                                                              *)
(***************************************************************************)
\* onRestore
Restored(t, place) ==
  LET team == IF place.team = None THEN t.team ELSE place.team IN
  [t EXCEPT !.preferred = IF team # None /\ place.room # None THEN <<team, place.room>> ELSE None,
            !.pending = IF place.task # None /\ place.room # t.room THEN place.task ELSE None,
            !.task = IF place.task # None /\ place.room = t.room THEN place.task ELSE @,
            !.team = team,
            !.room = IF place.room # None THEN place.room ELSE @,
            !.view = place.view]

\* navigate: the restoration under way is given up.
Navigated(t, place) ==
  Restored([t EXCEPT !.url = place, !.calls = Without(t, "restore")], place)

Here == Place(tab.team, tab.room, IF tab.view = "room" THEN tab.task ELSE None, tab.view)

\* What of a place can last: a Task newer than the Room's snapshot under way is taken
\* off by that snapshot, and a member whom an archival put in a Room of another Team
\* may lose the Task of the next place (see ShownBelongs).
Lasting(t, place) ==
  IF t.room # None /\ TeamOf[t.room] # t.team THEN None
  ELSE [place EXCEPT !.task =
         IF \E c \in t.calls : c.kind = "snapshot" /\ c.room = place.room /\ @ \notin c.read
         THEN None ELSE @]
Go(place) ==
  /\ tab.session # None
  /\ Spend("moves", MaxMoves)
  /\ tab' = Render(Navigated(tab, place))
  /\ asked' = Lasting(tab, place)
  /\ UNCHANGED <<made, alive>>

onTeam(team) ==
  /\ tab.teams # None /\ team \in Access[tab.session] /\ team # tab.team
  /\ Go(Place(team, None, None, IF managing(tab.view) THEN tab.view ELSE "work"))

\* A Room, or a Task of one, that is listed for the Team on screen
openTaskInRoom(room, task) ==
  /\ tab.lists # None /\ room \in tab.lists.rooms
  /\ Go([Here EXCEPT !.room = room, !.task = task, !.view = "room"])

selectWorkspaceView(view) ==
  /\ view # tab.view
  /\ Go([Here EXCEPT !.view = view, !.task = IF view = "room" THEN tab.task ELSE None])

returnToCollaboration ==
  /\ managing(tab.view) /\ tab.remembered # None
  /\ IF tab.remembered.gen = tab.gen /\ tab.remembered.at.team = tab.team
     THEN Go(tab.remembered.at) ELSE Go([Here EXCEPT !.view = "work", !.task = None])

\* restore: the address is resolved against what the member may see now.
Home(t) == Place(First(Access[t.session]), None, None, "work")
Restore(t) ==
  LET superseded == [t EXCEPT !.calls = Without(t, "restore")] IN
  IF t.url = None THEN Restored(superseded, Home(t))
  ELSE Ask(superseded, [Call("restore", t) EXCEPT
         !.team = t.url.team, !.room = t.url.room, !.task = t.url.task, !.view = t.url.view])

\* The Back button, or a link that is followed in the tab
popstate(url) ==
  /\ tab.session # None /\ tab.ready /\ url # tab.url
  /\ Spend("moves", MaxMoves)
  /\ tab' = Render(Restore([tab EXCEPT !.url = url]))
  /\ asked' = None
  /\ UNCHANGED <<made, alive>>

Allowed(c) ==
  /\ c.team \in Access[tab.session]
  /\ c.room # None => c.room \in RoomsIn(c.team)
  /\ c.task # None => c.task \in made /\ RoomOf[c.task] = c.room

\* (history) An address that was left again is not what the member asked for last.
Resolved(place) == asked' = IF asked = None THEN Lasting(tab, place) ELSE asked

RestoreAnswered(c) ==
  LET place == IF Allowed(c)
               THEN Place(c.team, IF c.room = None THEN First(RoomsIn(c.team)) ELSE c.room, c.task, c.view)
               ELSE Home(tab)
  IN /\ tab' = Render(Restored([Done(c) EXCEPT !.url = place], place))
     /\ Resolved(place)
     /\ UNCHANGED made

(***************************************************************************)
(* Sessions                                                                *)
(***************************************************************************)
\* Set up or recover the Owner, claim an invitation, recover a member, bootstrap:
\* from the access gate, which nobody leaves before the answer.
enter ==
  /\ tab.session = None /\ Of("entry") = {} /\ tab.gen < MaxSessions
  /\ tab' = Ask(tab, Call("entry", tab))
  /\ UNCHANGED <<made, alive, asked, spent>>

\* activate, then loadTeams
activateSession(c, user) ==
  LET t == [Done(c) EXCEPT !.gen = @ + 1, !.session = user] IN
  /\ tab' = Render(Ask(t, Call("teams", t)))
  /\ alive' = TRUE
  /\ UNCHANGED <<made, asked, spent>>

\* A Team that is gone is replaced; the first list makes the navigation ready.
loadTeams(c) ==
  LET t == [Done(c) EXCEPT !.teams = c.gen, !.ready = TRUE,
              !.team = IF @ \in Access[tab.session] THEN @ ELSE First(Access[tab.session])]
  IN /\ tab' = Render(IF tab.ready THEN t ELSE Restore(t))
     /\ UNCHANGED <<made, asked>>

\* clear and resetAuthenticatedWorkspace
Reset(t) ==
  [t EXCEPT !.gen = @ + 1, !.session = None, !.ready = FALSE,
            !.team = None, !.room = None, !.teams = None, !.lists = None, !.tasks = None,
            !.files = None, !.secret = None, !.preferred = None, !.pending = None,
            !.remembered = None, !.calls = Without(t, "restore")]
clear(t) ==
  /\ tab' = Render(Reset(t))
  /\ asked' = None
  /\ alive' = FALSE

(***************************************************************************)
(* Answers                                                                 *)
(***************************************************************************)
ListsAnswered(c) ==
  LET rooms == RoomsIn(c.team)
      room == IF tab.preferred # None /\ tab.preferred[1] = tab.team /\ tab.preferred[2] \in rooms
              THEN tab.preferred[2] ELSE IF tab.room \in rooms THEN tab.room ELSE First(rooms)
  IN /\ tab' = Render([Done(c) EXCEPT !.room = room,
                 !.lists = [gen |-> c.gen, team |-> c.team, rooms |-> rooms, by |-> "load"]])
     /\ UNCHANGED <<made, asked>>

\* onSnapshot: a Task that navigation waits for, the selected one, or the first.
Snapshot(t, c) ==
  [t EXCEPT !.tasks = [gen |-> c.gen, room |-> c.room, shown |-> c.read],
            !.task = IF t.pending \in c.read THEN t.pending
                     ELSE IF @ \in c.read THEN @ ELSE First(c.read),
            !.pending = None]
SnapshotAnswered(c) ==
  /\ tab' = Render(Snapshot(Done(c), c))
  /\ UNCHANGED <<made, asked>>

FilesAnswered(c) ==
  /\ tab' = [Done(c) EXCEPT !.files = [gen |-> c.gen, task |-> c.task]]
  /\ UNCHANGED <<made, asked>>

(***************************************************************************)
(* Commands                                                                *)
(***************************************************************************)
Give(kind, room) ==
  /\ tab.session # None /\ kind \in Commands /\ Of(kind) = {}
  /\ Spend("commands", MaxCommands)
  /\ tab' = Ask(tab, [Call(kind, tab) EXCEPT !.room = room])
  /\ UNCHANGED <<made, alive, asked>>

Command ==
  \/ Give("signOut", tab.room)
  \/ tab.team # None /\ managing(tab.view) /\ Give("secret", tab.room)
  \/ tab.team # None /\ Give("createRoom", tab.room)
  \/ tab.lists # None /\ \E room \in tab.lists.rooms \intersect made : Give("archive", room)
  \/ tab.room # None /\ Give("createTask", tab.room)
  \/ tab.files # None /\ Give("preview", tab.room)

\* createManualAgent, createBridgeInvite, createMemberInvitation: the credential is
\* shown once, where it was asked for.
setupContextChanged(c) == ~c.here
SecretAnswered(c) ==
  /\ tab' = IF setupContextChanged(c) THEN Done(c)
            ELSE [Done(c) EXCEPT !.secret = [gen |-> c.gen, team |-> c.team, view |-> c.view]]
  /\ UNCHANGED <<made, asked>>

createRoom(c) ==
  \E room \in {r \in Rooms \ made : TeamOf[r] = c.team} :
    /\ made' = made \union {room}
    /\ IF setupContextChanged(c) \/ tab.lists = None THEN tab' = Done(c) /\ UNCHANGED asked
       ELSE LET place == [Here EXCEPT !.room = room, !.task = None, !.view = "room"] IN
            /\ tab' = Render(Navigated([Done(c) EXCEPT !.lists.rooms = @ \union {room}], place))
            /\ asked' = IF asked # None /\ asked.team # c.team THEN asked ELSE Lasting(tab, place)

\* updateLifecycleRoom: the Team is the one on screen when the command was given.
archiveSelectedRoom(c) ==
  /\ made' = made \ ({c.room} \union {k \in Tasks : RoomOf[k] = c.room})
  /\ LET rooms == RoomsIn(c.team) \ {c.room} IN
     tab' = Render([Done(c) EXCEPT !.room = IF @ \in rooms THEN @ ELSE First(rooms),
              !.lists = [gen |-> c.gen, team |-> c.team, rooms |-> rooms, by |-> "update"]])
  /\ asked' = None

\* The Room on screen by value: Team, Room and session
roomContext(c) == c.gen = tab.gen /\ c.team = tab.team /\ c.room = tab.room

\* The Task is there; before it is selected the Room is reconciled, which fences
\* the Room's first snapshot.
createAgentTask(c) ==
  \E task \in {k \in Tasks \ made : RoomOf[k] = c.room} :
    /\ made' = made \union {task}
    /\ tab' = IF ~roomContext(c) THEN Done(c)
              ELSE Ask(Done(c), [c EXCEPT !.kind = "refresh", !.task = task, !.read = TasksIn(c.room) \union {task}])
    /\ UNCHANGED asked

WithTask(t, c) ==
  [t EXCEPT !.tasks = IF @ = None THEN [gen |-> c.gen, room |-> c.room, shown |-> {c.task}]
                      ELSE [@ EXCEPT !.shown = @ \union {c.task}],
            !.task = c.task]
TaskSelected(c, t) ==
  tab' = IF ~roomContext(c) THEN Done(c)
         ELSE Render(Navigated(WithTask(t, c),
           [Here EXCEPT !.room = c.room, !.task = IF c.view = "work" THEN None ELSE c.task,
                        !.view = IF c.view = "work" THEN "work" ELSE "room"]))
\* (history) The Task is asked for, unless the member went to another Room since.
TaskAsked(c) ==
  IF asked # None /\ asked.room \in RoomsIn(asked.team) \ {c.room} THEN asked
  ELSE IF roomContext(c) THEN Place(c.team, c.room, c.task, c.view) ELSE None
RefreshAnswered(c) ==
  /\ TaskSelected(c, Snapshot([Done(c) EXCEPT !.calls = {d \in @ : d.kind # "snapshot"}], c))
  /\ asked' = TaskAsked(c)
  /\ UNCHANGED made

\* selectedTaskIdRef: the preview is shown if its Task is still selected.
previewArtifact(c) ==
  /\ tab' = IF tab.task = c.task THEN [Done(c) EXCEPT !.files = [gen |-> c.gen, task |-> c.task]]
            ELSE Done(c)
  /\ UNCHANGED <<made, asked>>

(***************************************************************************)
(* What may come of a request                                              *)
(***************************************************************************)
Answered(c) ==
  /\ alive
  /\ \/ c.kind = "teams" /\ loadTeams(c)
     \/ c.kind = "restore" /\ RestoreAnswered(c)
     \/ c.kind = "lists" /\ ListsAnswered(c)
     \/ c.kind = "snapshot" /\ SnapshotAnswered(c)
     \/ c.kind = "files" /\ FilesAnswered(c)
     \/ c.kind = "secret" /\ SecretAnswered(c)
     \/ c.kind = "createRoom" /\ createRoom(c)
     \/ c.kind = "archive" /\ archiveSelectedRoom(c)
     \/ c.kind = "createTask" /\ createAgentTask(c)
     \/ c.kind = "refresh" /\ RefreshAnswered(c)
     \/ c.kind = "preview" /\ previewArtifact(c)
  /\ UNCHANGED <<alive, spent>>

\* An answer to a former session is dropped, whatever it is.
StaleWebSession(c) ==
  /\ ~requireCurrentSession(c)
  /\ tab' = Done(c)
  /\ UNCHANGED <<made, alive, asked, spent>>

\* 401 on a protected request, or the answer to signing out
signOut(c) ==
  /\ requireCurrentSession(c) /\ ~publicEntry(c)
  /\ c.kind = "signOut" \/ ~alive
  /\ clear(Done(c))
  /\ UNCHANGED <<made, spent>>

\* A place whose load fails is not reached; a failed restoration goes home, and a
\* failed reconciliation still selects the new Task.
RequestFails(c) ==
  /\ Spend("failures", MaxFailures)
  /\ requireCurrentSession(c)
  /\ \/ c.kind = "restore" /\ tab' = Render(Restored([Done(c) EXCEPT !.url = Home(tab)], Home(tab)))
          /\ Resolved(Home(tab))
     \/ c.kind = "refresh" /\ TaskSelected(c, Done(c))
          /\ asked' = IF TaskAsked(c) = None THEN None ELSE Lasting(tab, TaskAsked(c))
     \/ c.kind \notin {"restore", "refresh"} /\ tab' = Done(c) /\ asked' = None
  /\ UNCHANGED <<made, alive>>

Expire ==
  /\ alive /\ Spend("failures", MaxFailures)
  /\ alive' = FALSE
  /\ UNCHANGED <<tab, made, asked>>

Next ==
  \/ enter \/ returnToCollaboration \/ Command \/ Expire
  \/ \E team \in Teams : onTeam(team)
  \/ \E room \in Rooms : \E task \in {None} \union TasksIn(room) : openTaskInRoom(room, task)
  \/ \E view \in Views : selectWorkspaceView(view)
  \/ \E url \in Links : popstate(url)
  \/ \E c \in tab.calls :
       \/ publicEntry(c) /\ \E user \in Users : activateSession(c, user)
       \/ requireCurrentSession(c) /\ Answered(c)
       \/ StaleWebSession(c) \/ signOut(c) \/ RequestFails(c)

Spec == Init /\ [][Next]_vars
-----------------------------------------------------------------------------
Shown == {x \in {tab.lists, tab.tasks, tab.files, tab.secret} : x # None}
WorkspaceTypeOK ==
  /\ tab.session \in Users \union {None} /\ tab.view \in Views
  /\ tab.gen <= MaxSessions + 1
  /\ \A c \in tab.calls : c.gen <= tab.gen

\* docs/modules/web-ui.md: stale successes are rejected as well as 401s, "so
\* switching identities cannot restore an old Team or credential output": all that
\* is on screen was read in the session that is signed in (jsonRequest,
\* resetAuthenticatedWorkspace).
ShownIsOwn ==
  /\ \A x \in Shown : x.gen = tab.gen
  /\ tab.teams # None => tab.teams = tab.gen
  /\ tab.session = None =>
       Shown = {} /\ tab.teams = None /\ tab.team = None /\ tab.room = None /\ tab.task = None
  /\ tab.session # None /\ tab.team # None => tab.team \in Access[tab.session]

\* A credential is on screen only in the view, the Team and the session it was made
\* for, also when the member left and came back before the answer (setupContext).
SecretInItsPlace ==
  tab.secret # None => tab.secret.team = tab.team /\ tab.secret.view = tab.view

\* What is shown under a Team, a Room or a Task is of it.  The Rooms that an
\* archival reads back are the exception: they are not compared with the Team that
\* is selected by then (updateLifecycleRoom).
ShownBelongs ==
  /\ tab.lists # None => tab.lists.team = tab.team \/ tab.lists.by = "update"
  /\ tab.tasks # None => tab.tasks.room = tab.room
  /\ tab.task # None => tab.room # None /\ RoomOf[tab.task] = tab.room
  /\ tab.files # None => tab.files.task = tab.task

\* When everything is answered the member is at the place asked for last, however
\* restorations, loads and selections of former places were interleaved with it
\* (useWorkspaceNavigation, preferredRoomRef, pendingRoomTaskIdRef).  A Room that is
\* gone, or that only such an archival lists under the Team, is no place to be.
Settling == {"restore", "lists", "snapshot", "refresh"}
LandsWhereAsked ==
  (asked # None /\ \A c \in tab.calls : c.kind \notin Settling) =>
    /\ asked.team # None => tab.team = asked.team
    /\ asked.room \in RoomsIn(asked.team) =>
         /\ tab.room = asked.room
         /\ asked.task \in TasksIn(asked.room) => tab.task = asked.task
=============================================================================
