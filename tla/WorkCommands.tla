---------------------------- MODULE WorkCommands ----------------------------
(***************************************************************************)
(* The commands of the Work page (apps/web/src/features/work): what becomes *)
(* of an operation whose answer is lost, or comes after the member left.   *)
(*                                                                         *)
(* The panel on screen is one of                                           *)
(*   recovery      RunRecoveryControls, for a Run of unknown outcome       *)
(*   plan          ExecutionPlanPanel, for a draft                         *)
(*   evidence      ExecutionEvidencePanel, for one node                    *)
(*   supersession  PlanSupersessionPanel                                   *)
(*   result        TaskWorkDetail, for a proposed Result                   *)
(* A request the tab gave up on may still reach the server.                *)
(***************************************************************************)
EXTENDS Naturals, FiniteSets

CONSTANTS
  Panels,                                 \* the panels this instance opens
  MaxOps, MaxRev, MaxOpens, MaxFaults,    \* bounds on the tab, the others and the network
  None

KindsOf(p) == CASE p = "recovery" -> {"ack", "retry"}
                [] p = "plan" -> {"review", "revision"}
                [] p = "evidence" -> {"adopt", "approve"}
                [] p = "supersession" -> {"candidate", "activation", "delegation"}
                [] p = "result" -> {"verdict", "followUp"}
AllPanels == {"recovery", "plan", "evidence", "supersession", "result"}
Kinds == UNION {KindsOf(p) : p \in AllPanels}
Receipts == {"ack", "retry", "review", "adopt", "approve"}   \* kept in sessionStorage

WorkCommandsAssumption ==
  Panels \subseteq AllPanels /\ {MaxOps, MaxRev, MaxOpens, MaxFaults} \subseteq Nat

VARIABLES
  panel,     \* the panel, for good
  central,   \* the revision commands are checked against and the operations done
  page,      \* what the panel shows and holds
  stored,    \* the receipts of the tab, and whether its storage works
  calls,     \* requests under way
  seen       \* (history) requests sent, operations known to be done, and those given up
vars == <<panel, central, page, stored, calls, seen>>

\* An operation: its kind, its id and the revision it expects
Op(kind, id, base) == [kind |-> kind, id |-> id, base |-> base]
Ids(ops) == {o.id : o \in ops}
DoneOf(k, c) == {o \in c.done : o.kind = k}

NoOps == [k \in Kinds |-> None]
Closed == [open |-> FALSE, life |-> 0, shown |-> None, memo |-> NoOps, busy |-> None,
           unknown |-> None, blocked |-> FALSE, failed |-> FALSE, edit |-> None, plan |-> 0]

Init ==
  /\ panel \in Panels
  /\ central = [rev |-> 1, done |-> {}]
  /\ page = Closed
  /\ stored = [receipts |-> NoOps, works |-> TRUE, broke |-> FALSE]
  /\ calls = {}
  /\ seen = [sent |-> {}, known |-> {}, excused |-> {}, faults |-> 0]

Fault == seen.faults < MaxFaults
Faulted(s) == [s EXCEPT !.faults = @ + 1]

\* Sent operations of memory only, whose outcome the tab does not know
Unresolved == {o \in seen.sent : o.id \notin seen.known \union seen.excused}
Forgotten == {o.id : o \in {u \in Unresolved : u.kind \notin Receipts}}
Excuse(s, ids) == [s EXCEPT !.excused = @ \union ids]

-----------------------------------------------------------------------------
(* Storage and reads                                                        *)

\* A receipt that is there already must be the same command.
saveReceipt(o) == stored.works /\ stored.receipts[o.kind] \in {None, o}
Clear(k) == [stored EXCEPT !.receipts[k] = None]
Keep(o) == [stored EXCEPT !.receipts[o.kind] = o]
savePendingEvidence(o) == stored.works

\* Every read supersedes the one before it.
Fenced(cs, what) == {c \in cs : c.what # what}
Read(cs, what, life) ==
  Fenced(cs, what) \union {[what |-> what, life |-> life, sees |-> None]}
Reading(what) == \E c \in calls : c.what = what
load(cs) == Read(cs, "load", page.life)

-----------------------------------------------------------------------------
(* The panel comes and goes                                                 *)

\* RunRecoveryControls reads its receipts at once, the others with what they load.
Open ==
  /\ ~page.open /\ page.life < MaxOpens
  /\ page' = [Closed EXCEPT !.open = TRUE, !.life = page.life + 1, !.plan = central.rev,
       !.blocked = panel = "recovery" /\ ~stored.works,
       !.memo = IF panel = "recovery" /\ stored.works THEN stored.receipts ELSE NoOps]
  /\ calls' = Read(calls, "load", page.life + 1)
  /\ UNCHANGED <<panel, central, stored, seen>>

\* The member goes elsewhere, or the session or the shown revision is replaced.
Gone(cs) == {c \in cs : c.what = "command"}
Leave ==
  /\ page.open
  /\ page' = [Closed EXCEPT !.life = page.life]
  /\ calls' = Gone(calls)
  /\ seen' = Excuse(seen, Forgotten)
  /\ UNCHANGED <<panel, central, stored>>

\* "Check again", "Reload authoritative state", or the Task was seen to change.  Blocked
\* recovery receipts are read again too.
Rechecks == panel = "recovery" /\ page.blocked /\ page.busy = None
Reload ==
  /\ page.open /\ ~Reading("load") /\ (panel = "supersession" => page.busy = None)
  /\ page' = [page EXCEPT !.failed = FALSE,
       !.blocked = IF Rechecks THEN ~stored.works ELSE @,
       !.memo = IF ~Rechecks THEN @ ELSE IF stored.works THEN stored.receipts ELSE NoOps]
  /\ calls' = load(calls)
  /\ UNCHANGED <<panel, central, stored, seen>>

\* Another plan is looked at, and this one again.
selectPlan ==
  /\ panel = "plan" /\ page.open /\ page.shown # None
  /\ page.memo # NoOps \/ page.edit # None \/ page.blocked
  /\ page' = [page EXCEPT !.memo = NoOps, !.edit = None, !.blocked = FALSE]
  /\ calls' = Read(calls, "facts", page.life)
  /\ seen' = Excuse(seen, Forgotten)
  /\ UNCHANGED <<panel, central, stored>>

\* A draft is opened for editing; the revision it is based on is kept with it.
Draft == page.shown # None /\ DoneOf("review", page.shown) = {}
beginEdit ==
  /\ panel = "plan" /\ page.open /\ Draft
  /\ page.busy = None /\ page.edit = None /\ page.memo["review"] = None
  /\ page' = [page EXCEPT !.edit = page.shown.rev, !.memo["revision"] = None]
  /\ UNCHANGED <<panel, central, stored, calls, seen>>

cancelEdit ==
  /\ page.open /\ page.edit # None /\ page.busy = None /\ page.memo["revision"] = None
  /\ page' = [page EXCEPT !.edit = None]
  /\ UNCHANGED <<panel, central, stored, calls, seen>>

-----------------------------------------------------------------------------
(* Giving commands                                                          *)

operationId == Cardinality(Ids(seen.sent)) + 1
New(k, base) == Op(k, operationId, base)
First(options) == IF options[1] # None THEN options[1] ELSE options[2]

Send(o) ==
  /\ o.id <= MaxOps
  /\ page' = [page EXCEPT !.busy = o.kind, !.memo[o.kind] = o]
  /\ calls' = calls \union {[what |-> "command", life |-> page.life, op |-> o, answer |-> None]}
  /\ seen' = [seen EXCEPT !.sent = @ \union {o}]

\* The command is persisted before anything is sent.
Submit(o, saves) ==
  IF saves THEN Send(o) /\ stored' = Keep(o)
  ELSE page' = [page EXCEPT !.blocked = TRUE] /\ UNCHANGED <<stored, calls, seen>>
Ready == page.open /\ page.busy = None /\ ~page.blocked

\* An outcome is acknowledged, or a new attempt started, where the page could verify
\* that it is (not) acknowledged; what is pending may always be asked again.
Verified == page.shown # None /\ ~Reading("load") /\ ~page.failed
Acknowledged == page.shown # None /\ DoneOf("ack", page.shown) # {}
submitRecovery(k) ==
  /\ Ready
  /\ IF k = "ack" THEN Verified /\ ~Acknowledged
     ELSE page.memo[k] # None \/ (Verified /\ Acknowledged)
  /\ LET o == First(<<page.memo[k], First(<<stored.receipts[k],
                      New(k, IF page.shown = None THEN 1 ELSE page.shown.rev)>>)>>)
     IN Submit(o, saveReceipt(o))

submitReview(k) ==
  /\ k = "review" /\ Ready /\ page.shown # None
  /\ page.memo[k] # None \/ Draft
  /\ LET o == First(<<page.memo[k], New(k, page.shown.rev)>>) IN Submit(o, saveReceipt(o))

saveRevision(k) ==
  /\ k = "revision" /\ page.open /\ page.busy = None /\ Draft /\ page.edit # None
  /\ Send(First(<<page.memo[k], New(k, page.edit)>>)) /\ UNCHANGED stored

submitEvidence(k) ==
  /\ Ready /\ page.shown # None /\ DoneOf(k, page.shown) = {}
  /\ LET o == First(<<page.memo[k], New(k, page.shown.rev)>>)
     IN o.base = page.shown.rev /\ Submit(o, savePendingEvidence(o))

\* A command of unknown outcome locks them all.
Unlocked == page.open /\ page.busy = None /\ page.unknown = None /\ page.shown # None
CandidateAt(c) == \E o \in DoneOf("candidate", c) : o.base = c.rev
submitCandidate == Unlocked /\ ~CandidateAt(page.shown)
activate == Unlocked /\ CandidateAt(page.shown)
issueDelegation == Unlocked
submitSupersession(k) ==
  /\ CASE k = "candidate" -> submitCandidate [] k = "activation" -> activate [] OTHER -> issueDelegation
  /\ Send(First(<<page.memo[k], New(k, page.shown.rev)>>)) /\ UNCHANGED stored

\* The id is kept until the command succeeds; the revision is of the latest read.
operationIdFor(k) == IF page.memo[k] # None THEN page.memo[k].id ELSE operationId
Reviewed == DoneOf("verdict", page.shown) # {}
submitResult(k) ==
  /\ page.open /\ page.busy = None /\ page.shown # None
  /\ (k = "followUp" <=> Reviewed)
  /\ Send(Op(k, operationIdFor(k), page.shown.rev)) /\ UNCHANGED stored

Command(k) ==
  /\ CASE panel = "recovery" -> submitRecovery(k)
       [] panel = "plan" -> (submitReview(k) \/ saveRevision(k))
       [] panel = "evidence" -> submitEvidence(k)
       [] panel = "supersession" -> submitSupersession(k)
       [] panel = "result" -> submitResult(k)
  /\ UNCHANGED <<panel, central>>

-----------------------------------------------------------------------------
(* The server                                                               *)

\* What a command asks beside its revision
Possible(k) ==
  /\ k \in {"ack", "review", "adopt", "approve", "verdict"} => DoneOf(k, central) = {}
  /\ k = "retry" => DoneOf("ack", central) # {}
  /\ k = "revision" => DoneOf("review", central) = {}
  /\ k = "candidate" => ~CandidateAt(central)
  /\ k = "activation" => CandidateAt(central)
  /\ k = "followUp" => DoneOf("verdict", central) # {}
Expected(o) == o.kind = "followUp" \/ o.base = central.rev
Done(o) == [central EXCEPT !.done = @ \union {o},
              !.rev = IF o.kind \in {"ack", "review", "revision", "activation", "verdict"}
                      THEN @ + 1 ELSE @]

Answer(c, answer) == calls' = (calls \ {c}) \union {[c EXCEPT !.answer = answer]}

\* An operation is done once: its repetition is answered alike, except that an exact
\* retry of an adoption is refused (see remote-evidence-adoption-service.ts:294).
\* An operation that is possible may still be refused for its budget or its actors.
Handle(c) ==
  /\ c.what = "command" /\ c.answer = None
  /\ \/ /\ c.op.id \in Ids(central.done)
        /\ Answer(c, IF c.op.kind = "adopt" THEN "refused" ELSE "ok")
        /\ UNCHANGED <<central, seen>>
     \/ /\ c.op.id \notin Ids(central.done) /\ Possible(c.op.kind) /\ Expected(c.op)
        /\ central' = Done(c.op) /\ Answer(c, "ok") /\ UNCHANGED seen
     \/ /\ c.op.id \notin Ids(central.done) /\ Possible(c.op.kind) /\ Expected(c.op)
        /\ Fault /\ seen' = Faulted(seen)
        /\ Answer(c, "refused") /\ UNCHANGED central
     \/ /\ c.op.id \notin Ids(central.done) /\ ~(Possible(c.op.kind) /\ Expected(c.op))
        /\ Answer(c, IF Possible(c.op.kind) THEN "conflict" ELSE "refused")
        /\ UNCHANGED <<central, seen>>
  /\ UNCHANGED <<panel, page, stored>>

ServerReads(c) ==
  /\ c.what # "command" /\ c.sees = None
  /\ calls' = (calls \ {c}) \union {[c EXCEPT !.sees = central]}
  /\ UNCHANGED <<panel, central, page, stored, seen>>

\* Other members change the Task or the plan, or give the verdict themselves.
OthersAct ==
  /\ central.rev < MaxRev
  /\ \/ central' = [central EXCEPT !.rev = @ + 1]
     \/ \E k \in KindsOf(panel) \intersect {"ack", "review", "verdict"} :
          Possible(k) /\ central' = Done(Op(k, 0, central.rev))
  /\ UNCHANGED <<panel, page, stored, calls, seen>>

-----------------------------------------------------------------------------
(* What a page makes of an answer; `rest` are the other requests            *)

Forget(p, k) == [p EXCEPT !.memo[k] = None]
Idle == [page EXCEPT !.busy = None, !.failed = FALSE]
With(o) == [rev |-> o.base + 1, done |-> page.shown.done \union {o}]

\* Only success and the compare-and-swap conflict end the receipt of a recovery; the
\* acknowledgement and the Task are read again after everything.
recoverySettled(answer) == answer \in {"ok", "conflict"}
recoveryAnswered(o, answer, rest) ==
  LET clears == recoverySettled(answer) /\ stored.works
      idle == IF clears THEN Forget(Idle, o.kind) ELSE [Idle EXCEPT !.blocked = @ \/ answer = "conflict"]
  IN /\ page' = IF answer = "ok" /\ o.kind = "ack" /\ clears /\ page.shown # None
                THEN [idle EXCEPT !.shown = With(o)] ELSE idle
     /\ stored' = IF clears THEN Clear(o.kind) ELSE stored
     /\ calls' = load(rest)

\* Any answer of the server ends the receipt of a review.
reviewAnswered(o, answer, rest) ==
  LET clears == answer # "lost" /\ stored.works IN
  /\ page' = IF answer = "lost" THEN Idle
             ELSE IF clears THEN Forget(Idle, o.kind)
             ELSE [Idle EXCEPT !.blocked = @ \/ answer # "ok"]
  /\ stored' = IF clears THEN Clear(o.kind) ELSE stored
  /\ calls' = IF answer = "ok" /\ clears THEN load(rest) ELSE rest

revisionAnswered(o, answer, rest) ==
  /\ page' = CASE answer = "ok" -> [Forget(Idle, o.kind) EXCEPT !.edit = None, !.shown = With(o)]
               [] answer = "lost" -> Idle
               [] OTHER -> Forget(Idle, o.kind)
  /\ calls' = IF answer = "ok" THEN Read(rest, "facts", page.life) ELSE rest
  /\ UNCHANGED stored

\* A refusal ends the receipt; the page that is read again after everything ends that
\* of a success.
evidenceAnswered(o, answer, rest) ==
  LET drops == answer \notin {"ok", "lost"} IN
  /\ page' = IF ~drops THEN Idle
             ELSE IF stored.works THEN Forget(Idle, o.kind) ELSE [Idle EXCEPT !.blocked = TRUE]
  /\ stored' = IF drops /\ stored.works /\ stored.receipts[o.kind] = o THEN Clear(o.kind) ELSE stored
  /\ calls' = load(rest)

\* An activation replaces the panel: its key names the plan's revision.
supersessionAnswered(o, answer, rest) ==
  LET activated == answer = "ok" /\ o.kind = "activation" IN
  /\ page' = CASE answer = "lost" -> [Idle EXCEPT !.unknown = o.kind]
               [] activated -> [Closed EXCEPT !.life = page.life]
               [] OTHER -> [Forget(Idle, o.kind) EXCEPT !.unknown = IF answer = "ok" THEN None ELSE @]
  /\ calls' = IF activated THEN Gone(rest) ELSE IF answer = "ok" THEN load(rest) ELSE rest
  /\ UNCHANGED stored

resultAnswered(o, answer, rest) ==
  /\ page' = IF answer = "ok" THEN Forget(Idle, o.kind) ELSE Idle
  /\ calls' = IF o.kind = "verdict" THEN load(rest) ELSE rest
  /\ UNCHANGED stored

\* A refusal the tab takes as final, though another copy of the request may yet succeed
Final(o, answer) == panel # "recovery" /\ answer \notin {"ok", "lost"}
Answered(o, answer, rest) ==
  /\ CASE panel = "recovery" -> recoveryAnswered(o, answer, rest)
       [] o.kind = "review" -> reviewAnswered(o, answer, rest)
       [] o.kind = "revision" -> revisionAnswered(o, answer, rest)
       [] panel = "evidence" -> evidenceAnswered(o, answer, rest)
       [] panel = "supersession" -> supersessionAnswered(o, answer, rest)
       [] panel = "result" -> resultAnswered(o, answer, rest)
  /\ seen' = [seen EXCEPT !.known = IF answer = "ok" THEN @ \union {o.id} ELSE @,
                          !.excused = IF Final(o, answer) THEN @ \union {o.id} ELSE @,
                          !.faults = IF answer = "lost" THEN @ + 1 ELSE @]

\* isCurrent: an answer to a panel that was left is dropped.
Current(c) == page.open /\ c.life = page.life
CommandAnswered(c) ==
  /\ c.what = "command" /\ c.answer # None
  /\ IF Current(c) THEN Answered(c.op, c.answer, calls \ {c})
     ELSE calls' = calls \ {c} /\ UNCHANGED <<page, stored, seen>>
  /\ UNCHANGED <<panel, central>>

\* The connection breaks.  A request that is still on its way arrives later or never.
Lost(c) ==
  /\ c.what = "command" /\ Current(c) /\ Fault
  /\ \/ Answered(c.op, "lost", calls \ {c})
     \/ c.answer = None /\ Answered(c.op, "lost", (calls \ {c}) \union {[c EXCEPT !.life = 0]})
  /\ UNCHANGED <<panel, central>>

-----------------------------------------------------------------------------
(* What a page makes of a read                                              *)

Sees(read) == [seen EXCEPT !.known = @ \union (Ids(read.done) \intersect Ids(seen.sent))]

\* An acknowledgement that is there ends its receipt, whoever made it.
recoveryLoaded(read) ==
  LET ends == DoneOf("ack", read) # {}
      p == [page EXCEPT !.shown = read]
  IN /\ page' = IF ~ends THEN p ELSE IF stored.works THEN Forget(p, "ack") ELSE [p EXCEPT !.blocked = TRUE]
     /\ stored' = IF ends /\ stored.works THEN Clear("ack") ELSE stored
     /\ seen' = [seen EXCEPT !.known = @ \union (Ids(DoneOf("ack", read)) \ {0})]

\* The list of plans, then the history and the reviews of the selected one
loadPlans(read, rest) ==
  /\ page' = [page EXCEPT !.shown = read]
  /\ calls' = Read(rest, "facts", page.life)
  /\ UNCHANGED <<stored, seen>>

\* A plan's history and reviews may be newer than the plan that is shown.
loadFacts(read) ==
  LET o == stored.receipts["review"]
      confirmed == o # None /\ o.id \in Ids(read.done)
  IN /\ page' = IF ~stored.works THEN [Forget(page, "review") EXCEPT !.blocked = TRUE]
                ELSE [page EXCEPT !.blocked = FALSE, !.memo["review"] = IF confirmed THEN None ELSE o]
     /\ stored' = IF stored.works /\ confirmed THEN Clear("review") ELSE stored
     /\ seen' = Sees(read)

\* A receipt ends when its proof is there, or its template is another by now.
Ends(o, read) == DoneOf(o.kind, read) # {} \/ o.base # read.rev
reconcilePending(read) ==
  LET kept(k) == IF stored.receipts[k] # None /\ Ends(stored.receipts[k], read) THEN None
                 ELSE stored.receipts[k]
      p == [page EXCEPT !.shown = read]
  IN /\ page' = IF stored.works THEN [p EXCEPT !.blocked = FALSE, !.memo = [k \in Kinds |-> kept(k)]]
                ELSE [p EXCEPT !.blocked = TRUE, !.memo = NoOps]
     /\ stored' = IF stored.works THEN [stored EXCEPT !.receipts = [k \in Kinds |-> kept(k)]] ELSE stored
     /\ seen' = Sees(read)

\* A control projection of this plan revision unlocks the commands; any other is refused.
loadControl(read) ==
  /\ IF read.rev # page.plan THEN UNCHANGED <<page, seen>>
     ELSE /\ page' = [page EXCEPT !.shown = read, !.memo = NoOps, !.unknown = None]
          /\ seen' = Excuse(Sees(read), Forgotten)
  /\ UNCHANGED stored

loadDetail(read) ==
  page' = [page EXCEPT !.shown = read] /\ seen' = Sees(read) /\ UNCHANGED stored

ReadAnswered(c) ==
  LET rest == calls \ {c} IN
  /\ c.what # "command" /\ c.sees # None
  /\ CASE c.what = "facts" -> loadFacts(c.sees) /\ calls' = rest
       [] panel = "plan" -> loadPlans(c.sees, rest)
       [] panel = "recovery" -> recoveryLoaded(c.sees) /\ calls' = rest
       [] panel = "evidence" -> reconcilePending(c.sees) /\ calls' = rest
       [] panel = "supersession" -> loadControl(c.sees) /\ calls' = rest
       [] panel = "result" -> loadDetail(c.sees) /\ calls' = rest
  /\ UNCHANGED <<panel, central>>

ReadFails(c) ==
  /\ c.what # "command" /\ Fault
  /\ page' = [page EXCEPT !.failed = panel = "recovery"]
  /\ calls' = calls \ {c} /\ seen' = Faulted(seen)
  /\ UNCHANGED <<panel, central, stored>>

\* Session storage is taken away from the tab, or given back.
StorageTurns ==
  /\ Fault /\ seen' = Faulted(seen)
  /\ stored' = [stored EXCEPT !.works = ~@, !.broke = TRUE]
  /\ UNCHANGED <<panel, central, page, calls>>

Next ==
  \/ Open \/ Leave \/ Reload \/ selectPlan \/ beginEdit \/ cancelEdit
  \/ \E k \in KindsOf(panel) : Command(k)
  \/ \E c \in calls : Handle(c) \/ ServerReads(c) \/ CommandAnswered(c) \/ Lost(c)
                        \/ ReadAnswered(c) \/ ReadFails(c)
  \/ OthersAct \/ StorageTurns

Spec == Init /\ [][Next]_vars
-----------------------------------------------------------------------------
WorkCommandsTypeOK ==
  /\ page.open => page.life \in 1..MaxOpens
  /\ \A k \in Kinds : stored.receipts[k] # None => (k \in Receipts /\ stored.receipts[k] \in seen.sent)
  /\ page.busy # None => page.busy \in KindsOf(panel)

\* docs/modules/web-ui.md: "Uncertain Run recovery commands keep exact identity-bound
\* receipts in this tab's session storage across detail navigation/reload".  An operation
\* that was done is known to the member or still held, so that asking again finds it
\* and starts nothing new.  For a recovery there is no exception, whatever is lost, late
\* or refused; the other commands are given up with a refusal, and those without a
\* receipt when the panel is left or its state is read again.
Kept(o) == IF o.kind \in Receipts THEN stored.receipts[o.kind] = o
           ELSE page.memo[o.kind] # None /\ page.memo[o.kind].id = o.id
OutcomeKnownOrKept ==
  \A o \in seen.sent : o.id \in Ids(central.done) => (o.id \in seen.known \union seen.excused \/ Kept(o))
RecoveryNeverGivenUp == panel = "recovery" => seen.excused = {}

\* What is asked again is the very same command (saveRecoveryReceipt, savePendingPlanReview,
\* revisionOperation, sameTemplate); only a verdict's id is kept across revisions.
ExactRetry == panel # "result" => \A o, p \in seen.sent : o.id = p.id => o = p

\* "no new command is accepted until absence is confirmed" (PlanSupersessionPanel.tsx:249):
\* one operation of an open panel is unresolved at most.
OneUnresolved == (panel = "supersession" /\ page.open) => Cardinality(Unresolved) <= 1

\* As long as storage works, what the page holds is the receipt, and the receipt of
\* a recovery never stands in the way of another command.
PageShowsReceipt ==
  ~stored.broke =>
    /\ \A k \in Receipts : page.memo[k] \in {None, stored.receipts[k]}
    /\ (panel = "recovery" /\ page.open) => (~page.blocked /\ page.memo = stored.receipts)

CommandsSettled ==
  OutcomeKnownOrKept /\ RecoveryNeverGivenUp /\ ExactRetry /\ OneUnresolved /\ PageShowsReceipt
=============================================================================
