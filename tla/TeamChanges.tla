---------------------------- MODULE TeamChanges ----------------------------
(***************************************************************************)
(* The in-memory change channel of one Team                                *)
(* (apps/server/src/team-room/team-change-service.ts): a cursor that grows *)
(* with every notification and the hints of the last HistoryLimit of them. *)
(* TeamWait and RoomSync are the two kinds of clients that listen to it.   *)
(***************************************************************************)
EXTENDS Integers, FiniteSets

CONSTANTS
  Rooms,        \* Rooms of the Team
  HistoryLimit  \* changeHistoryLimit, 256 in the code

ASSUME TeamChangesAssumption == HistoryLimit \in Nat \ {0}

TeamHint == [kind |-> "team"]
RoomHint(room) == [kind |-> "room", room |-> room]
RunHint(room) == [kind |-> "run", room |-> room]

EmptyChannel == [cursor |-> 0, history |-> {}]

notify(st, hint) ==
  LET next == st.cursor + 1
      grown == st.history \union {[cursor |-> next, hint |-> hint]}
  IN [cursor |-> next, history |-> {e \in grown : e.cursor > next - HistoryLimit}]

Changed(st, after) == {e \in st.history : e.cursor > after}
RoomsOf(changes, kind) ==
  {e.hint.room : e \in {f \in changes : f.hint.kind = kind}}

\* What a listener that is ahead of the channel, or behind its history, is told.
Reset(st, changed) ==
  [changed |-> changed, cursor |-> st.cursor, reset |-> TRUE, team |-> TRUE,
   roomIds |-> {}, runRoomIds |-> {}]

Hints(st, after) ==
  [changed |-> Changed(st, after) # {}, cursor |-> st.cursor, reset |-> FALSE,
   team |-> \E e \in Changed(st, after) : e.hint.kind = "team",
   roomIds |-> RoomsOf(Changed(st, after), "room"),
   runRoomIds |-> RoomsOf(Changed(st, after), "run")]

resultNoGap(st, after) == IF after > st.cursor THEN Reset(st, FALSE) ELSE Hints(st, after)

result(st, after) ==
  IF after > st.cursor THEN Reset(st, FALSE)
  ELSE IF after < st.cursor /\ ~\E e \in Changed(st, after) : e.cursor = after + 1
       THEN Reset(st, TRUE)
       ELSE Hints(st, after)

\* The answer a waiter gets when its time is up.
NoChange(st) ==
  [changed |-> FALSE, cursor |-> st.cursor, reset |-> FALSE, team |-> FALSE,
   roomIds |-> {}, runRoomIds |-> {}]
=============================================================================
