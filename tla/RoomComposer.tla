---------------------------- MODULE RoomComposer ----------------------------
(***************************************************************************)
(* Writing to a Room from one browser tab: the draft, the outbox and their *)
(* copy in sessionStorage (useRoomComposer.ts, composer-storage.ts,        *)
(* message-outbox.ts), and the server that makes one Message and one batch *)
(* of Runs of every submission (message-routes.ts, MessageService,         *)
(* MessageRepository, RunService).                                         *)
(*                                                                         *)
(* A scope is a Task of a Room of the signed-in User.  Handlers run to     *)
(* their next await; every continuation first asks currentAction: same     *)
(* session, same scope, outbox not cleared meanwhile.  A text is a number, *)
(* 0 the empty one; mentions are sets of Agents.  What readEntries finds   *)
(* in storage is what saveComposerState put there.                         *)
(***************************************************************************)
EXTENDS Naturals, FiniteSets

CONSTANTS Scopes, Agents,
          NoScope,      \* no Task selected, or signed out
          MaxMessages,  \* bound on the submissions
          MaxTexts,     \* texts a User may type
          MaxPending,   \* composerStorageLimits.pendingPerScope
          MaxScopes,    \* composerStorageLimits.scopes
          MaxFaults     \* bound on failures, expiries, reloads and the like

Ids == 1..MaxMessages
Texts == 0..MaxTexts

ComposerAssumption ==
  /\ IsFiniteSet(Scopes) /\ IsFiniteSet(Agents) /\ NoScope \notin Scopes
  /\ {MaxMessages, MaxTexts, MaxPending, MaxScopes, MaxFaults} \subseteq Nat

VARIABLES scope,     \* the selected scope
          composer,  \* draft and outbox in memory
          persisted, \* does the composer say "saved"?
          busy,      \* busyRef
          saved,     \* sessionStorage: an entry for each scope, or none
          expired,   \* scopes whose entry is older than the time to live
          writable,  \* may sessionStorage be written?
          flight,    \* the request this composer waits for
          stray,     \* requests on their way that nobody waits for
          payload,   \* scope and mentions of every submission, fixed by its id
          known,     \* the Room's Agents as the browser knows them
          eligible,  \* the Room's enabled Agents
          runnable,  \* may the Tasks of the Room take new Runs?
          messages,  \* number of Messages with each client id
          batches,   \* number of Run batches for each client id
          confirmed, \* (history) submissions whose Message was confirmed
          excused,   \* (history) submissions cleared, expired or shown as unsaved
          faults     \* (history) counts the faults

browser == <<scope, composer, persisted, busy, saved, expired, writable>>
network == <<flight, stray>>
server == <<eligible, runnable, messages, batches>>
history == <<confirmed, excused, faults>>
vars == <<browser, network, payload, known, server, history>>

NoOutbox == [id \in Ids |-> "none"]
EmptyDraft == [text |-> 0, mentions |-> {}]
emptyComposerState == [draft |-> EmptyDraft, pending |-> NoOutbox]
NoFlight == [kind |-> "none", id |-> 0, stage |-> "none", fresh |-> FALSE]

Init ==
  /\ scope \in Scopes
  /\ composer = emptyComposerState /\ persisted = TRUE /\ busy = FALSE
  /\ saved = [s \in Scopes |-> emptyComposerState] /\ expired = {} /\ writable = TRUE
  /\ flight = NoFlight /\ stray = {}
  /\ payload = [id \in Ids |-> [scope |-> NoScope, mentions |-> {}]]
  /\ known = Agents /\ eligible = Agents /\ runnable = TRUE
  /\ messages = [id \in Ids |-> 0] /\ batches = [id \in Ids |-> 0]
  /\ confirmed = {} /\ excused = {} /\ faults = 0

Outbox(state) == {id \in Ids : state.pending[id] # "none"}
Fresh == CHOOSE id \in Ids : payload[id].scope = NoScope /\ \A k \in 1..(id - 1) : payload[k].scope # NoScope
Submitted == {id \in Ids : payload[id].scope # NoScope}

(***************************************************************************)
(* sessionStorage                                                          *)
(***************************************************************************)
\* readEntries drops what is too old, which is a write when there is any.
Stale == {s \in expired : saved[s] # emptyComposerState}
live == [s \in Scopes |-> IF s \in expired THEN emptyComposerState ELSE saved[s]]
Forgotten == UNION {Outbox(saved[s]) : s \in expired}
readable == writable \/ Stale = {}

\* A saved submission that was under way has an uncertain outcome.
recoveredAsIs(status) == status
recovered(status) == IF status = "none" THEN "none" ELSE "failed"

loadComposerState(s) ==
  IF s = NoScope \/ ~readable THEN emptyComposerState
  ELSE [live[s] EXCEPT !.pending = [id \in Ids |-> recovered(live[s].pending[id])]]

Entries(table) == {s \in Scopes : table[s] # emptyComposerState}

\* updateComposer: the new state is kept in memory and saved if it can be.
update(next) ==
  LET table == [live EXCEPT ![scope] = next]
      fits == Cardinality(Outbox(next)) <= MaxPending
      ok == fits /\ writable /\ Cardinality(Entries(table)) <= MaxScopes
      touched == fits /\ readable
  IN /\ composer' = next
     /\ persisted' = ok
     /\ saved' = IF ok THEN table ELSE IF touched THEN live ELSE saved
     /\ expired' = IF ok \/ touched THEN {} ELSE expired
     /\ excused' = IF ok \/ touched THEN excused \union (Forgotten \ Outbox(next)) ELSE excused
     /\ UNCHANGED <<scope, writable>>

Faulty == faults < MaxFaults /\ faults' = faults + 1

(***************************************************************************)
(* The draft                                                               *)
(***************************************************************************)
handleChange(text, mentions) ==
  /\ scope # NoScope
  /\ composer.draft # [text |-> text, mentions |-> mentions]
  /\ mentions \subseteq known \union composer.draft.mentions
  /\ text = 0 => mentions = {}
  /\ update([composer EXCEPT !.draft = [text |-> text, mentions |-> mentions]])
  /\ flight' = [flight EXCEPT !.fresh = FALSE]
  /\ UNCHANGED <<busy, stray, payload, known, server, confirmed, faults>>

\* The Room's Agents were loaded again: mentions of others are dropped.
RefreshAgents ==
  /\ known # eligible
  /\ known' = eligible
  /\ IF scope # NoScope /\ composer.draft.mentions \ eligible # {}
     THEN update([composer EXCEPT !.draft.mentions = @ \intersect eligible])
     ELSE UNCHANGED <<scope, composer, persisted, saved, expired, writable, excused>>
  /\ UNCHANGED <<busy, network, payload, server, confirmed, faults>>

(***************************************************************************)
(* Submitting and retrying                                                 *)
(***************************************************************************)
Send(kind, id, stage) ==
  /\ busy' = TRUE
  /\ flight' = [kind |-> kind, id |-> id, stage |-> stage, fresh |-> TRUE]

\* submit with at most one mention, or with several in a Room whose policy has no
\* Discussions: into the outbox and on its way; the draft is emptied at once.
submitMessage ==
  /\ scope # NoScope /\ ~busy
  /\ composer.draft.text # 0
  /\ Submitted # Ids
  /\ payload' = [payload EXCEPT ![Fresh] = [scope |-> scope, mentions |-> composer.draft.mentions]]
  /\ update([draft |-> EmptyDraft, pending |-> [composer.pending EXCEPT ![Fresh] = "pending"]])
  /\ Send("message", Fresh, "post")
  /\ UNCHANGED <<stray, known, server, confirmed, faults>>

\* With two or more mentions, where the policy allows it, it asks for a Discussion;
\* the draft stays until the answer.
submitDiscussion ==
  /\ scope # NoScope /\ ~busy
  /\ composer.draft.text # 0
  /\ Cardinality(composer.draft.mentions) >= 2
  /\ Send("discussion", 0, "post")
  /\ UNCHANGED <<scope, composer, persisted, saved, expired, writable, stray, payload, known, server, history>>

\* deliver: only a failed submission of this scope, with its own payload.
deliver(id) ==
  /\ scope # NoScope /\ ~busy
  /\ composer.pending[id] = "failed"
  /\ payload[id].scope = scope
  /\ update([composer EXCEPT !.pending[id] = "pending"])
  /\ Send("message", id, "settings")
  /\ UNCHANGED <<stray, payload, known, server, confirmed, faults>>

Settle(next) ==
  /\ update(next)
  /\ busy' = FALSE
  /\ flight' = NoFlight

FailStaysBusy(id) ==
  update([composer EXCEPT !.pending[id] = "failed"]) /\ busy' = TRUE /\ flight' = NoFlight
FailDropped(id) == Settle([composer EXCEPT !.pending[id] = "none"])
Fail(id) == Settle([composer EXCEPT !.pending[id] = "failed"])

\* A retry first reads the Room's settings, then its Agents.
SettingsRead ==
  /\ flight.stage = "settings"
  /\ IF payload[flight.id].mentions \subseteq eligible
     THEN flight' = [flight EXCEPT !.stage = "post"] /\ UNCHANGED <<browser, excused>>
     ELSE Fail(flight.id)
  /\ UNCHANGED <<stray, payload, known, server, confirmed, faults>>

(***************************************************************************)
(* The server                                                              *)
(***************************************************************************)
\* createMemberMessageResult checks every mention before the Message is looked up.
Mentionable(id) == payload[id].mentions \subseteq eligible

existsNever(id) == FALSE
exists(id) == messages[id] > 0

\* appendWithResult and createRunsForMessageResult, in one transaction: refused,
\* the Message that is there with its Runs, or a new one with its batch.
Accepts(id) == Mentionable(id) /\ (exists(id) \/ payload[id].mentions = {} \/ runnable)
append(id) == messages' = [messages EXCEPT ![id] = @ + 1]
createRuns(id) ==
  batches' = [batches EXCEPT ![id] = IF payload[id].mentions = {} THEN @ ELSE @ + 1]
create(id) ==
  IF Accepts(id) /\ ~exists(id) THEN append(id) /\ createRuns(id)
  ELSE UNCHANGED <<messages, batches>>

ServeMessage ==
  /\ flight.stage = "post" /\ flight.kind = "message"
  /\ create(flight.id)
  /\ flight' = [flight EXCEPT !.stage = IF Accepts(flight.id) THEN "ok" ELSE "refused"]
  /\ UNCHANGED <<browser, stray, payload, known, eligible, runnable, history>>

ServeStray(id) ==
  /\ id \in stray
  /\ create(id)
  /\ stray' = stray \ {id}
  /\ UNCHANGED <<browser, flight, payload, known, eligible, runnable, history>>

\* The Discussion's own rules are those of the orchestrator.
ServeDiscussion(answer) ==
  /\ flight.stage = "post" /\ flight.kind = "discussion"
  /\ flight' = [flight EXCEPT !.stage = answer]
  /\ UNCHANGED <<browser, stray, payload, known, server, history>>

(***************************************************************************)
(* Answers                                                                 *)
(***************************************************************************)
MessageAnswered ==
  /\ flight.kind = "message"
  /\ \/ /\ flight.stage = "ok"
        /\ Settle([composer EXCEPT !.pending[flight.id] = "none"])
        /\ confirmed' = confirmed \union {flight.id}
     \/ flight.stage = "refused" /\ Fail(flight.id) /\ UNCHANGED confirmed
  /\ UNCHANGED <<stray, payload, known, server, faults>>

draftUnchangedAlways == TRUE
draftUnchanged == flight.fresh

DiscussionAnswered ==
  /\ flight.kind = "discussion" /\ flight.stage \in {"ok", "refused"}
  /\ IF flight.stage = "ok" /\ draftUnchanged
     THEN Settle([composer EXCEPT !.draft = EmptyDraft])
     ELSE busy' = FALSE /\ flight' = NoFlight
          /\ UNCHANGED <<scope, composer, persisted, saved, expired, writable, excused>>
  /\ UNCHANGED <<stray, payload, known, server, confirmed, faults>>

\* A request or its answer is lost; a request that was sent may still arrive.
OnItsWay == IF flight.stage = "post" /\ flight.kind = "message" THEN stray \union {flight.id} ELSE stray
Lost ==
  /\ Faulty
  /\ flight.kind # "none"
  /\ IF flight.kind = "message" THEN Fail(flight.id)
     ELSE busy' = FALSE /\ flight' = NoFlight
          /\ UNCHANGED <<scope, composer, persisted, saved, expired, writable, excused>>
  /\ stray' = OnItsWay
  /\ UNCHANGED <<payload, known, server, confirmed>>

(***************************************************************************)
(* Leaving and coming back                                                 *)
(***************************************************************************)
\* The composer of scope s is opened: what is in memory is dropped, what is in
\* storage is read.  No continuation of the old one is current any more.
Open(s) ==
  LET unsaved == IF persisted THEN {} ELSE Outbox(composer)
      unread == IF s # NoScope /\ ~readable THEN Outbox(saved[s]) ELSE {}
  IN /\ scope' = s
     /\ composer' = loadComposerState(s)
     /\ persisted' = (s = NoScope \/ readable)
     /\ saved' = IF s # NoScope /\ readable THEN live ELSE saved
     /\ expired' = IF s # NoScope /\ readable THEN {} ELSE expired
     /\ excused' = excused \union unsaved \union unread
          \union IF s # NoScope /\ readable THEN Forgotten ELSE {}
     /\ busy' = FALSE
     /\ flight' = NoFlight
     /\ stray' = OnItsWay

SwitchScope(s) ==
  /\ scope # NoScope /\ s # scope
  /\ Open(s)
  /\ Faulty
  /\ UNCHANGED <<writable, payload, known, server, confirmed>>

Reload ==
  /\ scope # NoScope
  /\ Open(scope)
  /\ Faulty
  /\ UNCHANGED <<writable, payload, known, server, confirmed>>

\* Signing out, or an expired session: clearComposerUserState.
Logout ==
  /\ scope # NoScope
  /\ Faulty
  /\ scope' = NoScope
  /\ composer' = emptyComposerState /\ persisted' = TRUE /\ busy' = FALSE
  /\ saved' = [s \in Scopes |-> emptyComposerState] /\ expired' = {}
  /\ excused' = excused \union Outbox(composer) \union UNION {Outbox(saved[s]) : s \in Scopes}
  /\ flight' = NoFlight /\ stray' = OnItsWay
  /\ UNCHANGED <<writable, payload, known, server, confirmed>>

Login(s) ==
  /\ scope = NoScope
  /\ Open(s)
  /\ UNCHANGED <<writable, payload, known, server, confirmed, faults>>

(***************************************************************************)
(* The environment                                                         *)
(***************************************************************************)
Age(s) ==
  /\ Faulty
  /\ saved[s] # emptyComposerState /\ s \notin expired
  /\ expired' = expired \union {s}
  /\ UNCHANGED <<scope, composer, persisted, busy, saved, writable, network, payload, known, server, confirmed, excused>>

StorageChanges ==
  /\ Faulty
  /\ writable' = ~writable
  /\ UNCHANGED <<scope, composer, persisted, busy, saved, expired, network, payload, known, server, confirmed, excused>>

AgentChanges(a) ==
  /\ Faulty
  /\ eligible' = IF a \in eligible THEN eligible \ {a} ELSE eligible \union {a}
  /\ UNCHANGED <<browser, network, payload, known, runnable, messages, batches, confirmed, excused>>

TaskChanges ==
  /\ Faulty
  /\ runnable' = ~runnable
  /\ UNCHANGED <<browser, network, payload, known, eligible, messages, batches, confirmed, excused>>

Next ==
  \/ \E text \in Texts, mentions \in SUBSET Agents : handleChange(text, mentions)
  \/ RefreshAgents \/ submitMessage \/ submitDiscussion
  \/ \E id \in Ids : deliver(id) \/ ServeStray(id)
  \/ SettingsRead \/ ServeMessage \/ MessageAnswered \/ DiscussionAnswered \/ Lost
  \/ \E answer \in {"ok", "refused"} : ServeDiscussion(answer)
  \/ \E s \in Scopes \union {NoScope} : SwitchScope(s)
  \/ \E s \in Scopes : Login(s) \/ Age(s)
  \/ Reload \/ Logout \/ StorageChanges \/ TaskChanges
  \/ \E a \in Agents : AgentChanges(a)

Spec == Init /\ [][Next]_vars
-----------------------------------------------------------------------------
ComposerTypeOK ==
  /\ scope \in Scopes \union {NoScope}
  /\ busy <=> flight.kind # "none"
  /\ scope = NoScope => composer = emptyComposerState
  /\ \A id \in Ids : composer.pending[id] \in {"none", "pending", "failed"}
  /\ faults <= MaxFaults

\* However often a submission is retried, reloaded or delayed, there is one Message
\* with its id, and its Runs are made once, with it (appendWithResult,
\* createRunsForMessageResult).
OneMessage ==
  \A id \in Ids :
    /\ messages[id] <= 1
    /\ batches[id] = IF payload[id].mentions = {} THEN 0 ELSE messages[id]

\* A submission stays in the outbox until its Message is confirmed: it is dropped
\* only by signing out, by age, or while the composer says that it is not saved.
NothingLost ==
  /\ \A id \in Submitted :
       id \in confirmed \union excused \union Outbox(composer)
              \union UNION {Outbox(saved[s]) : s \in Scopes}
  /\ \A id \in confirmed : messages[id] = 1

\* Whatever is in the outbox can be retried, unless its request is under way.
NoneStuck ==
  \A id \in Outbox(composer) :
    /\ payload[id].scope = scope
    /\ composer.pending[id] = "pending" => flight.kind = "message" /\ flight.id = id

\* The answer to a Discussion request clears only the draft that was sent, never
\* one written since (submit: draftRevisionRef).
NewerDraftKeptStep ==
  (flight.kind = "discussion" /\ flight'.kind = "none" /\ scope' = scope /\ composer' # composer)
    => flight.fresh \/ faults' # faults
NewerDraftKept == [][NewerDraftKeptStep]_vars

\* docs/modules/team-room.md: an ambiguous retry returns the original Message.
RetryReturnsOriginal ==
  ~ (flight.kind = "message" /\ flight.stage = "refused" /\ messages[flight.id] = 1)
=============================================================================
