---------------------------- MODULE TeamWait_proof ----------------------------
(***************************************************************************)
(* Proofs about TeamWait, for any Rooms, clients, page size, length of the *)
(* change history and number of restarts.  The argument rests on what the  *)
(* channel can still tell a listener: Told(st, after, H) holds when the    *)
(* history has a hint of H after `after`, or has lost the hint that comes  *)
(* next, so that the listener is told to reset.  Once true it stays true:  *)
(* a hint that falls out of the history leaves a gap behind.               *)
(***************************************************************************)
EXTENDS TeamWait, FiniteSetTheorems, TLAPS

HintSet ==
  {TeamHint} \cup {RoomHint(room) : room \in Rooms} \cup {RunHint(room) : room \in Rooms}
RunHints == {RunHint(Room)}
RoomHints == {TeamHint, RoomHint(Room), RunHint(Room)}

ChannelOK(st) ==
  /\ st.cursor \in Nat
  /\ \A e \in st.history :
       /\ e.cursor \in Nat /\ e.hint \in HintSet
       /\ e.cursor <= st.cursor /\ e.cursor > st.cursor - HistoryLimit

Gap(st, after) == after < st.cursor /\ ~\E e \in st.history : e.cursor = after + 1
Told(st, after, H) == Gap(st, after) \/ \E e \in st.history : e.cursor > after /\ e.hint \in H

\* An answer of the channel that makes the loop look, or wake the client.
TellsRun(news) == news.reset \/ (news.changed /\ Room \in news.runRoomIds)
TellsRoom(news) == news.reset \/ (news.changed /\ relevant(news))

WaitTypes ==
  /\ epoch \in Nat /\ latest \in Nat
  /\ held \in [Waiters -> Cursors \cup {None}]
  /\ call \in [Waiters -> Calls \cup {None}]
  /\ unread \subseteq Waiters

\* A cursor of this process: not ahead of it, and behind every Run change its
\* client was not woken for.
HeldOK(w) ==
  held[w] # None =>
    /\ held[w].epoch <= epoch
    /\ held[w].epoch = epoch =>
         /\ held[w].seq <= latest /\ held[w].change <= channel.cursor
         /\ w \in unread => Told(channel, held[w].change, RunHints)

\* An open call sleeps with nothing to tell; one that was answered is told of
\* what it missed by that answer or by the next.
CallOK(w) ==
  call[w] # None =>
    /\ call[w].seq <= latest
    /\ call[w].news = None => call[w].seq = latest /\ w \notin unread
    /\ call[w].news # None =>
         /\ call[w].news.cursor <= channel.cursor
         /\ call[w].seq < latest =>
              TellsRoom(call[w].news) \/ Told(channel, call[w].news.cursor, RoomHints)
         /\ w \in unread =>
              TellsRun(call[w].news) \/ Told(channel, call[w].news.cursor, RunHints)

WaitInv ==
  /\ WaitTypes
  /\ ChannelOK(channel)
  /\ \A w \in Waiters : HeldOK(w) /\ CallOK(w)

-----------------------------------------------------------------------------
(* The channel. *)

\* notify numbers the hint and keeps the last HistoryLimit of them.
LEMMA NotifyChannel ==
  ASSUME NEW st, ChannelOK(st), NEW hint \in HintSet
  PROVE  /\ ChannelOK(notify(st, hint))
         /\ notify(st, hint).cursor = st.cursor + 1
BY TeamChangesAssumption DEF ChannelOK, notify

\* A hint that was just made is told to every listener behind it.
LEMMA NewHintTold ==
  ASSUME NEW st, ChannelOK(st), NEW hint, NEW H, hint \in H,
         NEW after \in Nat, after <= st.cursor
  PROVE  Told(notify(st, hint), after, H)
<1> DEFINE e == [cursor |-> st.cursor + 1, hint |-> hint]
<1>1. e \in notify(st, hint).history  BY TeamChangesAssumption DEF ChannelOK, notify
<1>2. e.cursor > after /\ e.hint \in H  BY DEF ChannelOK
<1> QED  BY <1>1, <1>2 DEF Told

\* What a listener can be told stays so when the history moves on.
LEMMA ToldKept ==
  ASSUME NEW st, ChannelOK(st), NEW hint, NEW H, NEW after \in Nat, Told(st, after, H)
  PROVE  Told(notify(st, hint), after, H)
<1> DEFINE ch == notify(st, hint)
<1>0. /\ ch.cursor = st.cursor + 1 /\ st.cursor \in Nat /\ HistoryLimit \in Nat \ {0}
      /\ \A e \in ch.history :
           /\ e.cursor > st.cursor + 1 - HistoryLimit
           /\ e \in st.history \/ e.cursor = st.cursor + 1
      /\ \A e \in st.history : e.cursor > st.cursor + 1 - HistoryLimit => e \in ch.history
  BY TeamChangesAssumption DEF ChannelOK, notify
<1> HIDE DEF ch
<1>1. CASE Gap(st, after)
  <2>1. Gap(ch, after)  BY <1>0, <1>1 DEF Gap
  <2> QED  BY <2>1 DEF Told, ch
<1>2. ASSUME NEW e \in st.history, e.cursor > after, e.hint \in H
      PROVE  Told(ch, after, H)
  <2>1. CASE e.cursor > st.cursor + 1 - HistoryLimit  BY <1>0, <1>2, <2>1 DEF Told
  <2>2. CASE ~(e.cursor > st.cursor + 1 - HistoryLimit)
    <3>1. e.cursor \in Nat /\ e.cursor <= st.cursor  BY <1>2 DEF ChannelOK
    <3>2. \A f \in ch.history : f.cursor \in Nat
      BY <1>0 DEF ChannelOK
    <3>3. Gap(ch, after)  BY <1>0, <1>2, <2>2, <3>1, <3>2 DEF Gap
    <3> QED  BY <3>3 DEF Told
  <2> QED  BY <2>1, <2>2
<1> QED  BY <1>1, <1>2 DEF Told, ch

\* A listener that can be told something is behind the channel.
LEMMA ToldBehind ==
  ASSUME NEW st, ChannelOK(st), NEW H, NEW after \in Nat, Told(st, after, H)
  PROVE  after < st.cursor
BY DEF Told, Gap, ChannelOK

LEMMA ResultChange ==
  ASSUME NEW st, ChannelOK(st), NEW after \in Nat
  PROVE  result(st, after) \in Changes /\ result(st, after).cursor = st.cursor
<1>1. \A kind \in {"room", "run"} : RoomsOf(Changed(st, after), kind) \subseteq Rooms
  <2> SUFFICES ASSUME NEW kind \in {"room", "run"}, NEW e \in st.history, e.hint.kind = kind
               PROVE  e.hint.room \in Rooms
    BY DEF RoomsOf, Changed
  <2>1. e.hint \in HintSet  BY DEF ChannelOK
  <2>2. e.hint # TeamHint  BY DEF TeamHint
  <2> QED  BY <2>1, <2>2 DEF HintSet, RoomHint, RunHint
<1>2. \A b \in BOOLEAN : Reset(st, b) \in Changes /\ Reset(st, b).cursor = st.cursor
  BY DEF Reset, Changes, ChannelOK
<1>3. Hints(st, after) \in Changes /\ Hints(st, after).cursor = st.cursor
  <2>1. st.cursor \in Nat  BY DEF ChannelOK
  <2>2. /\ RoomsOf(Changed(st, after), "room") \in SUBSET Rooms
        /\ RoomsOf(Changed(st, after), "run") \in SUBSET Rooms
    BY <1>1
  <2> QED  BY <2>1, <2>2 DEF Hints, Changes
<1> QED  BY <1>2, <1>3 DEF result

\* What can be told is told.
LEMMA ResultTold ==
  ASSUME NEW st, ChannelOK(st), NEW after \in Nat
  PROVE  /\ Told(st, after, RunHints) => TellsRun(result(st, after))
         /\ Told(st, after, RoomHints) => TellsRoom(result(st, after))
<1> DEFINE r == result(st, after)
<1>1. CASE Gap(st, after)
  <2>1. after < st.cursor /\ ~(after > st.cursor)  BY <1>1 DEF Gap, ChannelOK
  <2>2. ~\E e \in Changed(st, after) : e.cursor = after + 1  BY <1>1 DEF Gap, Changed
  <2>3. r = Reset(st, TRUE)  BY <2>1, <2>2 DEF result
  <2> QED  BY <2>3 DEF Reset, TellsRun, TellsRoom
<1>2. ASSUME NEW e \in st.history, e.cursor > after
      PROVE  /\ e.hint \in RunHints => TellsRun(r)
             /\ e.hint \in RoomHints => TellsRoom(r)
  <2>1. e \in Changed(st, after)  BY <1>2 DEF Changed
  <2>2. CASE r = Hints(st, after)
    <3>1. r.changed
      <4>1. r.changed = (Changed(st, after) # {})  BY <2>2 DEF Hints
      <4>2. Changed(st, after) # {}  BY <2>1
      <4> QED  BY <4>1, <4>2
    <3>2. e.hint = RunHint(Room) => Room \in r.runRoomIds
      BY <2>1, <2>2 DEF Hints, RoomsOf, RunHint
    <3>3. e.hint = RoomHint(Room) => Room \in r.roomIds
      BY <2>1, <2>2 DEF Hints, RoomsOf, RoomHint
    <3>4. e.hint = TeamHint => r.team
      BY <2>1, <2>2 DEF Hints, TeamHint
    <3> QED  BY <3>1, <3>2, <3>3, <3>4 DEF TellsRun, TellsRoom, RunHints, RoomHints, relevant
  <2>3. CASE \E b \in BOOLEAN : r = Reset(st, b)
    BY <2>3 DEF Reset, TellsRun, TellsRoom
  <2> QED  BY <2>2, <2>3 DEF result
<1> QED  BY <1>1, <1>2 DEF Told

-----------------------------------------------------------------------------
(* Cursors and answers. *)

LEMMA ReadAfter ==
  ASSUME WaitInv, NEW seq \in Nat, seq <= latest, NEW change \in Nat
  PROVE  /\ readAfter(seq, change) \in Cursors
         /\ readAfter(seq, change).epoch = epoch /\ readAfter(seq, change).change = change
         /\ readAfter(seq, change).seq <= latest
         /\ Events(seq) = {} => seq = latest
<1> USE TeamWaitAssumption DEF WaitInv, WaitTypes
<1> DEFINE last == IF latest < seq + PageSize THEN latest ELSE seq + PageSize
<1>1. /\ last \in Int /\ seq + 1 \in Int /\ Events(seq) = (seq + 1)..last
      /\ last <= latest /\ last >= seq /\ (last = seq => seq = latest)
  BY DEF Events
<1> HIDE DEF last
<1>2. Cardinality(Events(seq)) = IF seq + 1 > last THEN 0 ELSE last - (seq + 1) + 1
  BY <1>1, FS_Interval
<1>3. Cardinality(Events(seq)) = last - seq
  <2>1. CASE last = seq
    <3>1. seq + 1 > last  BY <2>1
    <3> QED  BY <1>2, <2>1, <3>1
  <2>2. CASE last # seq
    <3>1. ~(seq + 1 > last) /\ last - (seq + 1) + 1 = last - seq  BY <1>1, <2>2
    <3> QED  BY <1>2, <3>1
  <2> QED  BY <2>1, <2>2
<1>4. seq + Cardinality(Events(seq)) = last  BY <1>1, <1>3
<1>5. Events(seq) = {} => last = seq
  <2>1. last # seq => seq + 1 \in (seq + 1)..last  BY <1>1
  <2> QED  BY <1>1, <2>1
<1> QED  BY <1>1, <1>4, <1>5 DEF readAfter, Cursor, Cursors

\* The client is given a cursor of this process.
LEMMA AnswerKeeps ==
  ASSUME WaitInv, NEW w \in Waiters, NEW cursor \in Cursors, NEW timedOut \in BOOLEAN,
         cursor.epoch = epoch, cursor.seq <= latest, cursor.change <= channel.cursor,
         timedOut /\ w \in unread => Told(channel, cursor.change, RunHints),
         Answer(w, cursor, timedOut)
  PROVE  WaitInv'
<1> USE DEF WaitInv, WaitTypes, Answer
<1>1. /\ held' = [held EXCEPT ![w] = cursor] /\ call' = [call EXCEPT ![w] = None]
      /\ UNCHANGED <<channel, epoch, latest>>
      /\ unread' \subseteq unread /\ (w \in unread' => timedOut /\ w \in unread)
  OBVIOUS
<1>2. WaitTypes'  BY <1>1
<1>3. HeldOK(w)' /\ CallOK(w)'
  <2>1. held'[w] = cursor /\ call'[w] = None  BY <1>1
  <2>2. epoch \in Nat /\ cursor.epoch <= epoch  OBVIOUS
  <2> QED  BY <1>1, <2>1, <2>2 DEF HeldOK, CallOK
<1>4. ASSUME NEW x \in Waiters, x # w  PROVE HeldOK(x)' /\ CallOK(x)'
  <2>1. held'[x] = held[x] /\ call'[x] = call[x] /\ (x \in unread' => x \in unread)
    BY <1>1, <1>4
  <2>2. HeldOK(x) /\ CallOK(x)  OBVIOUS
  <2> QED  BY <1>1, <2>1, <2>2 DEF HeldOK, CallOK
<1> QED  BY <1>1, <1>2, <1>3, <1>4

\* The client listens from a change after which the channel tells it what it missed.
LEMMA ListenKeeps ==
  ASSUME WaitInv, NEW w \in Waiters, NEW seq \in Nat, NEW change \in Nat,
         seq <= latest, change <= channel.cursor,
         seq < latest => Told(channel, change, RoomHints),
         w \in unread => Told(channel, change, RunHints),
         Listen(w, seq, change)
  PROVE  WaitInv'
<1> USE DEF WaitInv, WaitTypes
<1> DEFINE news == IF change # channel.cursor THEN result(channel, change) ELSE None
           c == [seq |-> seq, change |-> change, news |-> news]
<1>0. UNCHANGED <<channel, epoch, latest, held, unread>>  BY DEF Listen
<1>1. call' = [call EXCEPT ![w] = c]  BY DEF Listen
<1>2. channel.cursor \in Nat  BY DEF ChannelOK
<1>3. CASE change # channel.cursor
  <2>1. /\ news = result(channel, change) /\ news \in Changes /\ news.cursor = channel.cursor
        /\ seq < latest => TellsRoom(news)
        /\ w \in unread => TellsRun(news)
    BY <1>3, ResultChange, ResultTold
  <2>2. news # None  BY <2>1, NoneAssumption
  <2> HIDE DEF news
  <2>3. c \in Calls  BY <2>1 DEF Calls
  <2>4. WaitTypes'  BY <1>0, <1>1, <2>3
  <2>5. CallOK(w)'
    <3>1. call'[w] = c  BY <1>1
    <3> QED  BY <1>0, <1>2, <2>1, <2>2, <3>1 DEF CallOK
  <2> QED  BY <1>0, <1>1, <2>4, <2>5 DEF HeldOK, CallOK
<1>4. CASE change = channel.cursor
  <2>1. seq = latest /\ w \notin unread  BY <1>2, <1>4, ToldBehind
  <2>2. news = None  BY <1>4
  <2> HIDE DEF news
  <2>3. c \in Calls  BY <2>2 DEF Calls
  <2>4. WaitTypes'  BY <1>0, <1>1, <2>3
  <2>5. CallOK(w)'
    <3>1. call'[w] = c  BY <1>1
    <3> QED  BY <1>0, <2>1, <2>2, <3>1 DEF CallOK
  <2> QED  BY <1>0, <1>1, <2>4, <2>5 DEF HeldOK, CallOK
<1> QED  BY <1>3, <1>4

-----------------------------------------------------------------------------
(* Clients. *)

LEMMA EstablishKeeps ==
  ASSUME WaitInv, NEW w \in Waiters, Establish(w)
  PROVE  WaitInv'
<1> DEFINE cursor == Cursor(channel.cursor, latest)
<1>1. /\ cursor \in Cursors /\ cursor.epoch = epoch /\ cursor.seq <= latest
      /\ cursor.change <= channel.cursor
  BY DEF Cursor, Cursors, WaitInv, WaitTypes, ChannelOK
<1>2. Answer(w, cursor, FALSE)  BY DEF Establish
<1> HIDE DEF cursor
<1> QED  BY <1>1, <1>2, AnswerKeeps

LEMMA WaitKeeps ==
  ASSUME WaitInv, NEW w \in Waiters, wait(w)
  PROVE  WaitInv'
<1> USE DEF WaitInv, WaitTypes
<1> DEFINE c == held[w]
<1>1. /\ c \in Cursors /\ c # None /\ HeldOK(w)
      /\ c.seq \in Nat /\ c.change \in Nat /\ c.epoch \in Nat
  BY DEF wait, Cursors
<1>2. channel.cursor \in Nat  BY DEF ChannelOK
<1>3. CASE obsolete(c)
  <2> DEFINE seq == IF c.seq < latest THEN c.seq ELSE latest
  <2>1. seq \in Nat /\ seq <= latest  BY <1>1
  <2>2. Answer(w, readAfter(seq, channel.cursor), FALSE)  BY <1>3 DEF wait
  <2> HIDE DEF seq
  <2>3. /\ readAfter(seq, channel.cursor) \in Cursors
        /\ readAfter(seq, channel.cursor).epoch = epoch
        /\ readAfter(seq, channel.cursor).seq <= latest
        /\ readAfter(seq, channel.cursor).change <= channel.cursor
    BY <1>2, <2>1, ReadAfter
  <2> QED  BY <2>2, <2>3, AnswerKeeps
<1>4. CASE ~obsolete(c)
  <2>1. /\ c.seq <= latest /\ c.change <= channel.cursor
        /\ w \in unread => Told(channel, c.change, RunHints)
    BY <1>1, <1>4 DEF HeldOK, obsolete
  <2>0. ~(c.seq > latest)  BY <1>1, <2>1
  <2>2. CASE Events(c.seq) # {}
    <3>1. Answer(w, readAfter(c.seq, channel.cursor), FALSE)
      BY <1>4, <2>0, <2>2 DEF wait
    <3>2. /\ readAfter(c.seq, channel.cursor) \in Cursors
          /\ readAfter(c.seq, channel.cursor).epoch = epoch
          /\ readAfter(c.seq, channel.cursor).seq <= latest
          /\ readAfter(c.seq, channel.cursor).change <= channel.cursor
      BY <1>1, <1>2, <2>1, ReadAfter
    <3> QED  BY <3>1, <3>2, AnswerKeeps
  <2>3. CASE Events(c.seq) = {}
    <3>1. Listen(w, c.seq, c.change)  BY <1>1, <1>4, <2>1, <2>3 DEF wait
    <3>2. c.seq = latest  BY <1>1, <2>1, <2>3, ReadAfter
    <3> QED  BY <1>1, <2>1, <3>1, <3>2, ListenKeeps
  <2> QED  BY <2>2, <2>3
<1> QED  BY <1>3, <1>4

LEMMA ResumeKeeps ==
  ASSUME WaitInv, NEW w \in Waiters, NEW late \in BOOLEAN, Resume(w, late)
  PROVE  WaitInv'
<1> USE DEF WaitInv, WaitTypes
<1> DEFINE c == call[w]
           change == c.news
           here == Cursor(change.cursor, c.seq)
<1>1. /\ c \in Calls /\ c # None /\ change # None /\ CallOK(w)
      /\ c.seq \in Nat /\ change \in Changes /\ change.cursor \in Nat
  BY DEF Resume, Calls, Changes
<1>2. /\ c.seq <= latest /\ change.cursor <= channel.cursor
      /\ c.seq < latest => TellsRoom(change) \/ Told(channel, change.cursor, RoomHints)
      /\ w \in unread => TellsRun(change) \/ Told(channel, change.cursor, RunHints)
  BY <1>1 DEF CallOK
<1>3. /\ here \in Cursors /\ here.epoch = epoch /\ here.seq <= latest
      /\ here.change = change.cursor
  BY <1>1, <1>2 DEF Cursor, Cursors
<1>4. /\ readAfter(c.seq, change.cursor) \in Cursors
      /\ readAfter(c.seq, change.cursor).epoch = epoch
      /\ readAfter(c.seq, change.cursor).seq <= latest
      /\ readAfter(c.seq, change.cursor).change = change.cursor
      /\ Events(c.seq) = {} => c.seq = latest
  BY <1>1, <1>2, ReadAfter
<1>5. \/ /\ ~change.changed /\ ~change.reset
         /\ Answer(w, here, TRUE)
      \/ Answer(w, readAfter(c.seq, change.cursor), FALSE)
      \/ Answer(w, here, FALSE)
      \/ /\ change.changed \/ change.reset
         /\ ~(relevant(change) /\ (change.reset \/ Room \in change.runRoomIds))
         /\ ~(relevant(change) /\ Events(c.seq) # {})
         /\ Answer(w, here, TRUE) \/ Listen(w, c.seq, change.cursor)
  BY DEF Resume
<1>6. change.reset => relevant(change)  BY DEF relevant
<1>7. Room \in change.runRoomIds => relevant(change)  BY DEF relevant
<1> HIDE DEF c, change, here
<1>8. CASE Answer(w, here, FALSE)  BY <1>2, <1>3, <1>8, AnswerKeeps
<1>9. CASE Answer(w, readAfter(c.seq, change.cursor), FALSE)
  BY <1>2, <1>4, <1>9, AnswerKeeps
<1>10. CASE ~change.changed /\ ~change.reset /\ Answer(w, here, TRUE)
  <2>1. ~TellsRun(change)  BY <1>10 DEF TellsRun
  <2>2. w \in unread => Told(channel, here.change, RunHints)  BY <1>2, <1>3, <2>1
  <2> QED  BY <1>2, <1>3, <1>10, <2>2, AnswerKeeps
<1>11. CASE /\ ~(relevant(change) /\ (change.reset \/ Room \in change.runRoomIds))
            /\ ~(relevant(change) /\ Events(c.seq) # {})
            /\ Answer(w, here, TRUE) \/ Listen(w, c.seq, change.cursor)
  <2>1. ~TellsRun(change)  BY <1>6, <1>7, <1>11 DEF TellsRun
  <2>2. w \in unread => Told(channel, change.cursor, RunHints)  BY <1>2, <2>1
  <2>3. c.seq < latest => Told(channel, change.cursor, RoomHints)
    <3> SUFFICES ASSUME c.seq < latest  PROVE ~TellsRoom(change)
      BY <1>2
    <3>1. Events(c.seq) # {}  BY <1>1, <1>4
    <3>2. ~relevant(change)  BY <1>11, <3>1
    <3> QED  BY <1>6, <3>2 DEF TellsRoom
  <2>4. CASE Answer(w, here, TRUE)
    BY <1>2, <1>3, <2>2, <2>4, AnswerKeeps
  <2>5. CASE Listen(w, c.seq, change.cursor)
    BY <1>1, <1>2, <2>2, <2>3, <2>5, ListenKeeps
  <2> QED  BY <1>11, <2>4, <2>5
<1> QED  BY <1>5, <1>8, <1>9, <1>10, <1>11

LEMMA TimeOutKeeps ==
  ASSUME WaitInv, NEW w \in Waiters, TimeOut(w)
  PROVE  WaitInv'
<1> USE DEF WaitInv, WaitTypes
<1> DEFINE news == NoChange(channel)
<1>0. UNCHANGED <<channel, epoch, latest, held, unread>>  BY DEF TimeOut
<1>1. call[w] \in Calls /\ call[w].news = None /\ CallOK(w)  BY DEF TimeOut
<1>2. call[w].seq = latest /\ w \notin unread  BY <1>1, NoneAssumption DEF CallOK
<1>3. news \in Changes /\ news.cursor = channel.cursor
  BY DEF NoChange, Changes, ChannelOK
<1>4. news # None  BY <1>3, NoneAssumption
<1> HIDE DEF news
<1>5. call' = [call EXCEPT ![w].news = news]  BY DEF TimeOut, news
<1>6. [call[w] EXCEPT !.news = news] \in Calls  BY <1>1, <1>3 DEF Calls
<1>7. WaitTypes'  BY <1>0, <1>5, <1>6
<1>8. call'[w] = [call[w] EXCEPT !.news = news]  BY <1>5
<1>9. call'[w].news = news /\ call'[w].seq = latest  BY <1>1, <1>2, <1>8 DEF Calls
<1>10. CallOK(w)'
  <2>1. latest \in Nat /\ channel.cursor \in Nat  BY DEF ChannelOK
  <2> QED  BY <1>0, <1>2, <1>3, <1>4, <1>9, <2>1 DEF CallOK
<1>11. \A x \in Waiters : x # w => call'[x] = call[x]  BY <1>5
<1> QED  BY <1>0, <1>7, <1>10, <1>11 DEF HeldOK, CallOK

LEMMA AbortKeeps ==
  ASSUME WaitInv, NEW w \in Waiters, Abort(w)
  PROVE  WaitInv'
BY DEF WaitInv, WaitTypes, Abort, HeldOK, CallOK

-----------------------------------------------------------------------------
(* The server. *)

\* A notification answers the sleepers, and can be told to all the others.
LEMMA NotifyKeeps ==
  ASSUME WaitInv, NEW hint \in HintSet, Notify(hint), UNCHANGED <<epoch, held>>,
         \/ latest' = latest
         \/ latest' = latest + 1 /\ hint = RoomHint(Room),
         \/ unread' = unread
         \/ unread' \subseteq Waiters /\ hint = RunHint(Room)
  PROVE  WaitInv'
<1> USE DEF WaitInv, WaitTypes
<1> DEFINE st == notify(channel, hint)
           news == result(st, channel.cursor)
<1>1. /\ channel' = st /\ ChannelOK(st) /\ st.cursor = channel.cursor + 1
      /\ channel.cursor \in Nat
  BY NotifyChannel DEF Notify, ChannelOK
<1>2. call' = [w \in Waiters |->
                 IF call[w] # None /\ call[w].news = None
                 THEN [call[w] EXCEPT !.news = news] ELSE call[w]]
  BY DEF Notify
<1>3. /\ news \in Changes /\ news.cursor = st.cursor
      /\ hint \in RunHints => TellsRun(news)
      /\ hint \in RoomHints => TellsRoom(news)
  BY <1>1, NewHintTold, ResultChange, ResultTold
<1>4. news # None  BY <1>3, NoneAssumption
<1>5. \A after \in Nat : after <= channel.cursor =>
        /\ hint \in RunHints \/ Told(channel, after, RunHints) => Told(st, after, RunHints)
        /\ hint \in RoomHints \/ Told(channel, after, RoomHints) => Told(st, after, RoomHints)
  BY <1>1, NewHintTold, ToldKept
<1>6. latest' \in Nat /\ latest <= latest' /\ (latest' # latest => hint \in RoomHints)
  BY DEF RoomHints
<1>7. unread' \subseteq Waiters /\ (hint \notin RunHints => unread' = unread)
  BY DEF RunHints
<1> HIDE DEF st, news
<1>8. ASSUME NEW w \in Waiters  PROVE HeldOK(w)'
  <2> SUFFICES ASSUME held[w] # None, held[w].epoch = epoch
               PROVE  /\ held[w].seq <= latest' /\ held[w].change <= st.cursor
                      /\ w \in unread' => Told(st, held[w].change, RunHints)
    BY <1>1, <1>8 DEF HeldOK
  <2>1. held[w] \in Cursors /\ held[w].seq \in Nat /\ held[w].change \in Nat  BY <1>8 DEF Cursors
  <2>2. /\ held[w].seq <= latest /\ held[w].change <= channel.cursor
        /\ w \in unread => Told(channel, held[w].change, RunHints)
    BY <1>8 DEF HeldOK
  <2> QED  BY <1>1, <1>5, <1>6, <1>7, <2>1, <2>2
<1>9. ASSUME NEW w \in Waiters  PROVE CallOK(w)' /\ call'[w] \in Calls \cup {None}
  <2>1. CASE call[w] = None
    <3>1. call'[w] = None  BY <1>2, <1>9, <2>1
    <3> QED  BY <3>1 DEF CallOK
  <2>2. CASE call[w] # None /\ call[w].news = None
    <3>1. call'[w] = [call[w] EXCEPT !.news = news]  BY <1>2, <1>9, <2>2
    <3>2. call[w] \in Calls  BY <1>9, <2>2
    <3>3. call'[w] \in Calls /\ call'[w].news = news /\ call'[w].seq = call[w].seq
      BY <1>3, <3>1, <3>2 DEF Calls
    <3>4. call[w].seq = latest /\ w \notin unread  BY <1>9, <2>2 DEF CallOK
    <3> QED  BY <1>1, <1>3, <1>4, <1>6, <1>7, <3>3, <3>4 DEF CallOK
  <2>3. CASE call[w] # None /\ call[w].news # None
    <3>1. call'[w] = call[w] /\ call[w] \in Calls  BY <1>2, <1>9, <2>3
    <3>2. /\ call[w].seq \in Nat /\ call[w].news \in Changes /\ call[w].news.cursor \in Nat
      BY <2>3, <3>1 DEF Calls, Changes
    <3>3. /\ call[w].seq <= latest /\ call[w].news.cursor <= channel.cursor
          /\ call[w].seq < latest =>
               TellsRoom(call[w].news) \/ Told(channel, call[w].news.cursor, RoomHints)
          /\ w \in unread =>
               TellsRun(call[w].news) \/ Told(channel, call[w].news.cursor, RunHints)
      BY <1>9, <2>3 DEF CallOK
    <3>4. /\ call[w].seq < latest' =>
               TellsRoom(call[w].news) \/ Told(st, call[w].news.cursor, RoomHints)
          /\ w \in unread' =>
               TellsRun(call[w].news) \/ Told(st, call[w].news.cursor, RunHints)
      BY <1>5, <1>6, <1>7, <3>2, <3>3
    <3>5. call[w].seq <= latest' /\ call[w].news.cursor <= st.cursor
      BY <1>1, <1>6, <3>2, <3>3
    <3> QED  BY <1>1, <2>3, <3>1, <3>4, <3>5 DEF CallOK, TellsRoom, TellsRun, relevant
  <2> QED  BY <2>1, <2>2, <2>3
<1>10. WaitTypes'
  <2>1. call' \in [Waiters -> Calls \cup {None}]  BY <1>2, <1>9
  <2> QED  BY <1>6, <1>7, <2>1
<1> QED  BY <1>1, <1>8, <1>9, <1>10

\* A new process has another epoch, so that no cursor handed out before is its own.
LEMMA RestartKeeps ==
  ASSUME WaitInv, NEW restored \in 0..latest, Restart(restored)
  PROVE  WaitInv'
<1> USE DEF WaitInv, WaitTypes
<1>1. ChannelOK(channel')  BY DEF Restart, EmptyChannel, ChannelOK
<1>2. WaitTypes'  BY DEF Restart
<1>3. ASSUME NEW w \in Waiters  PROVE HeldOK(w)' /\ CallOK(w)'
  <2>1. call'[w] = None /\ held' = held /\ epoch' = epoch + 1  BY <1>3 DEF Restart
  <2>2. held[w] # None => held[w].epoch \in Nat /\ held[w].epoch <= epoch
    BY <1>3 DEF HeldOK, Cursors
  <2>3. held[w] # None => held[w].epoch <= epoch' /\ held[w].epoch # epoch'
    BY <2>1, <2>2
  <2> QED  BY <2>1, <2>3 DEF HeldOK, CallOK
<1> QED  BY <1>1, <1>2, <1>3

-----------------------------------------------------------------------------
LEMMA WaitInvInit == Init => WaitInv
BY DEF Init, WaitInv, WaitTypes, EmptyChannel, ChannelOK, HeldOK, CallOK

LEMMA WaitInvNext == WaitInv /\ [Next]_vars => WaitInv'
<1> SUFFICES ASSUME WaitInv, [Next]_vars  PROVE WaitInv'
  OBVIOUS
<1>1. CASE UNCHANGED vars
  BY <1>1 DEF vars, WaitInv, WaitTypes, HeldOK, CallOK, TellsRun, TellsRoom, relevant
<1>2. ASSUME NEW w \in Waiters,
             \/ Establish(w) \/ wait(w) \/ TimeOut(w) \/ Abort(w)
             \/ \E late \in BOOLEAN : Resume(w, late)
      PROVE  WaitInv'
  BY <1>2, EstablishKeeps, WaitKeeps, TimeOutKeeps, AbortKeeps, ResumeKeeps
<1>3. CASE AppendMessage
  <2>1. RoomHint(Room) \in HintSet  BY TeamWaitAssumption DEF HintSet
  <2> QED  BY <1>3, <2>1, NotifyKeeps DEF AppendMessage
<1>4. CASE RunChanges
  <2>1. RunHint(Room) \in HintSet  BY TeamWaitAssumption DEF HintSet
  <2>2. unread' \subseteq Waiters /\ Notify(RunHint(Room)) /\ UNCHANGED <<epoch, latest, held>>
    BY <1>4 DEF RunChanges
  <2> QED  BY <2>1, <2>2, NotifyKeeps
<1>5. CASE OtherChange
  <2>1. PICK hint \in HintSet : Notify(hint)  BY <1>5 DEF OtherChange, HintSet
  <2>2. UNCHANGED <<epoch, latest, held, unread>>  BY <1>5 DEF OtherChange
  <2> QED  BY <2>1, <2>2, NotifyKeeps
<1>6. ASSUME NEW restored \in 0..latest, Restart(restored)  PROVE WaitInv'
  BY <1>6, RestartKeeps
<1> QED  BY <1>1, <1>2, <1>3, <1>4, <1>5, <1>6 DEF Next

\* The inductive invariant holds in every reachable state.
THEOREM WaitInvHolds == Spec => []WaitInv
BY WaitInvInit, WaitInvNext, PTL DEF Spec

-----------------------------------------------------------------------------
\* No client sleeps over a Message or a Run change of its Room, for any history
\* limit and any interleaving of notifications, time-outs, aborts and restarts
\* (team-wait-service.ts wait, team-change-service.ts result).
THEOREM WaitNoSleepOverNews == Spec => []NoSleepOverNews
<1>1. WaitInv => NoSleepOverNews  BY DEF WaitInv, CallOK, NoSleepOverNews, asleep
<1> QED  BY <1>1, WaitInvHolds, PTL

\* A cursor of the running process is never ahead of the Room or the channel, so
\* the refusal of such cursors meets no honest client, restores included.
THEOREM WaitCursorNotAhead == Spec => []CursorNotAhead
<1>1. WaitInv => CursorNotAhead  BY DEF WaitInv, HeldOK, CursorNotAhead
<1> QED  BY <1>1, WaitInvHolds, PTL
=============================================================================
