------------------------------ MODULE TeamWait ------------------------------
(***************************************************************************)
(* team.wait of the MCP server (apps/server/src/mcp/team-wait-service.ts): *)
(* a client that holds a cursor asks for the Room's next Messages, or for  *)
(* a wake-up when a Run of the Room changed, and sleeps on the Team's      *)
(* change channel in between.                                              *)
(***************************************************************************)
EXTENDS TeamChanges, TLC

CONSTANTS
  Room,         \* the Room the clients wait in, one of Rooms
  Waiters,      \* MCP clients
  PageSize,     \* Messages one answer carries, 100 in the code
  MaxMessages,  \* bound on the Room's Messages
  MaxChanges,   \* bound on notifications of one server process
  MaxEpochs,    \* bound on server processes
  None

ASSUME TeamWaitAssumption ==
  /\ Room \in Rooms /\ PageSize \in Nat \ {0} /\ MaxMessages \in Nat
  /\ MaxChanges \in Nat /\ MaxEpochs \in Nat \ {0}

\* Cursors, answers of the channel and open calls; None is none of them.
Cursors == [epoch : Nat, change : Nat, seq : Nat]
Changes == [changed : BOOLEAN, cursor : Nat, reset : BOOLEAN, team : BOOLEAN,
            roomIds : SUBSET Rooms, runRoomIds : SUBSET Rooms]
Calls == [seq : Nat, change : Nat, news : Changes \cup {None}]
ASSUME NoneAssumption == None \notin Cursors \cup Changes \cup Calls

VARIABLES
  channel,   \* the process's change channel
  epoch,     \* changeEpoch: a name of the server process
  latest,    \* durable Room sequence
  held,      \* the cursor each client holds, None before its first answer
  call,      \* the wait call each client has open
  unread     \* clients not woken since a Run of the Room last changed
vars == <<channel, epoch, latest, held, call, unread>>

Cursor(change, seq) == [epoch |-> epoch, change |-> change, seq |-> seq]

Init ==
  /\ channel = EmptyChannel /\ epoch = 1 /\ latest = 0
  /\ held = [w \in Waiters |-> None]
  /\ call = [w \in Waiters |-> None]
  /\ unread = {}

-----------------------------------------------------------------------------
\* Answers

Answer(w, cursor, timedOut) ==
  /\ held' = [held EXCEPT ![w] = cursor]
  /\ call' = [call EXCEPT ![w] = None]
  /\ unread' = IF timedOut THEN unread ELSE unread \ {w}
  /\ UNCHANGED <<channel, epoch, latest>>

Events(seq) == (seq + 1)..(IF latest < seq + PageSize THEN latest ELSE seq + PageSize)
readAfter(seq, change) == Cursor(change, seq + Cardinality(Events(seq)))

\* changes.wait(after): an answer is ready, or the caller joins the waiters.
Listen(w, seq, change) ==
  /\ call' = [call EXCEPT ![w] =
       [seq |-> seq, change |-> change,
        news |-> IF change # channel.cursor THEN result(channel, change) ELSE None]]
  /\ UNCHANGED <<channel, epoch, latest, held, unread>>

-----------------------------------------------------------------------------
\* Clients

\* A call without a cursor captures the change cursor and the Room's position.
Establish(w) ==
  /\ held[w] = None /\ call[w] = None
  /\ Answer(w, Cursor(channel.cursor, latest), FALSE)

obsoleteNever(cursor) == FALSE
obsolete(cursor) == cursor.epoch # epoch

wait(w) ==
  /\ held[w] # None /\ call[w] = None
  /\ LET c == held[w] IN
       IF obsolete(c)
       THEN Answer(w, readAfter(IF c.seq < latest THEN c.seq ELSE latest, channel.cursor), FALSE)
       ELSE IF c.seq > latest
       THEN UNCHANGED vars
       ELSE IF Events(c.seq) # {}
       THEN Answer(w, readAfter(c.seq, channel.cursor), FALSE)
       ELSE Listen(w, c.seq, c.change)

relevant(change) ==
  change.team \/ change.reset \/ Room \in change.roomIds \/ Room \in change.runRoomIds

\* The loop after an answer of the channel; the deadline may have passed by then.
Resume(w, late) ==
  /\ call[w] # None /\ call[w].news # None
  /\ LET c == call[w]
         change == c.news
     IN IF ~change.changed /\ ~change.reset
        THEN Answer(w, Cursor(change.cursor, c.seq), TRUE)
        ELSE IF relevant(change) /\ Events(c.seq) # {}
        THEN Answer(w, readAfter(c.seq, change.cursor), FALSE)
        ELSE IF relevant(change) /\ (change.reset \/ Room \in change.runRoomIds)
        THEN Answer(w, Cursor(change.cursor, c.seq), FALSE)
        ELSE IF late
        THEN Answer(w, Cursor(change.cursor, c.seq), TRUE)
        ELSE Listen(w, c.seq, change.cursor)

TimeOut(w) ==
  /\ call[w] # None /\ call[w].news = None
  /\ call' = [call EXCEPT ![w].news = NoChange(channel)]
  /\ UNCHANGED <<channel, epoch, latest, held, unread>>

\* The client disconnects; it asks again with the cursor it holds.
Abort(w) ==
  /\ call[w] # None
  /\ call' = [call EXCEPT ![w] = None]
  /\ UNCHANGED <<channel, epoch, latest, held, unread>>

-----------------------------------------------------------------------------
\* The server

\* notify resolves every waiter with the one change it just made.
Notify(hint) ==
  LET after == channel.cursor
      st == notify(channel, hint)
  IN /\ channel.cursor < MaxChanges
     /\ channel' = st
     /\ call' = [w \in Waiters |->
          IF call[w] # None /\ call[w].news = None
          THEN [call[w] EXCEPT !.news = result(st, after)] ELSE call[w]]

AppendMessage ==
  /\ latest < MaxMessages
  /\ latest' = latest + 1
  /\ Notify(RoomHint(Room))
  /\ UNCHANGED <<epoch, held, unread>>

RunChanges ==
  /\ Notify(RunHint(Room))
  /\ unread' = {w \in Waiters : held[w] # None}
  /\ UNCHANGED <<epoch, latest, held>>

OtherChange ==
  /\ \E hint \in {TeamHint} \union {RoomHint(room) : room \in Rooms}
                   \union {RunHint(room) : room \in Rooms \ {Room}} : Notify(hint)
  /\ UNCHANGED <<epoch, latest, held, unread>>

RestartSameEpoch(restored) ==
  /\ channel.cursor > 0 /\ epoch < MaxEpochs
  /\ channel' = EmptyChannel
  /\ latest' = restored
  /\ call' = [w \in Waiters |-> None]
  /\ UNCHANGED <<epoch, held, unread>>

\* A restarted process has an empty channel and, after a restore, an older Room.
Restart(restored) ==
  /\ epoch < MaxEpochs
  /\ epoch' = epoch + 1
  /\ channel' = EmptyChannel
  /\ latest' = restored
  /\ call' = [w \in Waiters |-> None]
  /\ UNCHANGED <<held, unread>>

Next ==
  \/ \E w \in Waiters :
       \/ Establish(w) \/ wait(w) \/ TimeOut(w) \/ Abort(w)
       \/ \E late \in BOOLEAN : Resume(w, late)
  \/ AppendMessage \/ RunChanges \/ OtherChange
  \/ \E restored \in 0..latest : Restart(restored)

\* Clients keep asking and the timer fires; a client is not cut off for ever
\* between an answer of the channel and the loop that reads it.
Fairness ==
  \A w \in Waiters :
    /\ WF_vars(Establish(w)) /\ WF_vars(wait(w)) /\ WF_vars(TimeOut(w))
    /\ SF_vars(\E late \in BOOLEAN : Resume(w, late))

Spec == Init /\ [][Next]_vars
FairSpec == Spec /\ Fairness

-----------------------------------------------------------------------------
asleep(w) == call[w] # None /\ call[w].news = None

\* A client never sleeps over a Message of its Room it was not given, nor over
\* a Run change it was not woken for, whatever overflowed the history, came
\* between an answer of the channel and the next wait, or restarted
\* (team-wait-service.ts wait, team-change-service.ts result).
NoSleepOverNews ==
  \A w \in Waiters : asleep(w) => call[w].seq = latest /\ w \notin unread

\* A cursor the server handed out is never ahead of the Room in the process it
\* names, so "team.wait cursor is ahead of Room state" is for forged ones only.
CursorNotAhead ==
  \A w \in Waiters :
    (held[w] # None /\ held[w].epoch = epoch) =>
      held[w].seq <= latest /\ held[w].change <= channel.cursor

\* A client that keeps calling team.wait is given every Message and is woken
\* for the Run changes, across restarts and restores, once the Room is quiet.
NewsArrives ==
  \A w \in Waiters :
    <>[](held[w] # None /\ held[w].seq >= latest /\ w \notin unread)
=============================================================================
