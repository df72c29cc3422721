------------------------------ MODULE Discussions ------------------------------
(***************************************************************************)
(* One Discussion of several Agents, run in durable waves (discussion/     *)
(* discussion-orchestrator.ts and its repository, recovery and settlement  *)
(* services).  A wave gives each selected participant one turn; a turn is  *)
(* bound to a Run.  When the wave is settled, or sealed by a quorum, the   *)
(* policy decides: next wave, finalization wave, wait or stop.             *)
(*                                                                         *)
(* The orchestrator is synchronous, so a handler is one step.  It commits  *)
(* several transactions, and the server may die between any two of them:   *)
(* the handlers are functions on the database db, and Crash stops in the   *)
(* middle of them.  What the progress evaluator concludes from the replies *)
(* is a choice among the conclusions it can reach.                         *)
(***************************************************************************)
EXTENDS Naturals, Sequences, FiniteSets

LOCAL INSTANCE Folds

CONSTANTS Participants,     \* discussion_participants
          Reviewer,         \* the reviewer in review mode, otherwise {}
          RequireReviewer,  \* policy.requireReviewer
          AutomaticFinish,  \* policy.allowAutomaticFinish
          Focused,          \* participantSelectionMode is question_focused
          Quorum,           \* waveCompletionMode is read_only_quorum
          QuorumMinimum,    \* policy.quorumMinimumCompleted
          InitialLease,     \* policy.initialLeaseTurns
          AutomaticMax,     \* policy.automaticMaxTurns
          HardMax,          \* policy.hardMaxTurns
          Reserve,          \* policy.finalizationReserveTurns
          PlateauWindow,    \* policy.plateauWindow
          Endings,          \* bound on how an accepted Run ends by itself
          Crashes           \* bound on crashes of the server

\* The checks of create and resolvePolicy.
DiscussionAssumption ==
  /\ Participants \subseteq Nat /\ Cardinality(Participants) >= 2
  /\ Reviewer \subseteq Participants /\ Cardinality(Reviewer) <= 1
  /\ RequireReviewer \in BOOLEAN /\ (RequireReviewer => Reviewer # {})
  /\ {AutomaticFinish, Focused, Quorum} \subseteq BOOLEAN
  /\ QuorumMinimum \in 2..Cardinality(Participants)
  /\ InitialLease \in 1..AutomaticMax
  /\ AutomaticMax \in 1..(HardMax - 1)
  /\ HardMax \in Nat /\ Reserve \in 1..(HardMax - 1)
  /\ PlateauWindow \in Nat \ {0} /\ Crashes \in Nat
  /\ Endings \subseteq {"completed", "failed", "canceled", "asked"}

VARIABLES db,         \* the rows of the Discussion, its waves, turns and Runs
          timeUp,     \* has discussions.deadline_at passed?
          pending,    \* onRunTerminal calls on their way: <<wave, Agent>>
          toCancel,   \* Runs a cancellation has still to cancel
          up,         \* is the server running?
          crashed     \* history: crashes so far

vars == <<db, timeUp, pending, toCancel, up, crashed>>

-----------------------------------------------------------------------------
(* Rows. *)

\* A Run is "failed" also when it completed without a reply, expired or ended as
\* outcome_unknown, and "asked" when that was because it required input.
terminalRunStates == {"completed", "failed", "canceled", "asked"}
terminalTurnStates == {"completed", "failed", "canceled"}
terminalDiscussionStates == {"completed", "canceled", "terminated"}
resumable == {"awaiting_extension", "waiting_human", "paused"}

Members(v) == DOMAIN v.turn
Completed(v) == {a \in Members(v) : v.turn[a] = "completed"}
Live(v) == {a \in Members(v) : v.turn[a] \notin terminalTurnStates}
Last(d) == Len(d.waves)
HasOpenWave(d) == Last(d) > 0 /\ d.waves[Last(d)].state = "open"

waveCloseState(v) ==
  CASE Completed(v) = Members(v) -> "completed"
    [] \A a \in Members(v) : v.turn[a] = "canceled" -> "canceled"
    [] Completed(v) # {} -> "partial"
    [] OTHER -> "failed"

buildWavePlan(phase, S) ==
  [phase |-> phase, state |-> "open",
   turn |-> [a \in S |-> "planned"], run |-> [a \in S |-> "none"],
   seal |-> {}, heard |-> {}]

\* A wave passes its soft deadline, if there is a quorum, and then its own; that
\* of a contribution is not later than the Discussion's.
Deadlines == {"early", "soft", "due"}
FirstDeadline(phase) ==
  IF phase = "contribution" /\ timeUp THEN "due" ELSE IF Quorum THEN "early" ELSE "soft"

-----------------------------------------------------------------------------
(* Budget and policy. *)

regularTurnLimit == HardMax - Reserve
hardBoundaryReached(d) == d.used >= regularTurnLimit \/ d.spent
leaseBoundaryReached(d) == d.used >= d.lease

recordTurnUsage(d) == [d EXCEPT !.used = @ + 1, !.spent = timeUp]

MinOf(m, n) == IF m < n THEN m ELSE n
MaxOf(m, n) == IF m < n THEN n ELSE m

\* Mutant: the boundary of a user's extension is the hard limit.
grantDiscussionLeaseIntoReserve(d, increment, source) ==
  [d EXCEPT !.lease = MinOf(MaxOf(d.lease, d.used) + increment, HardMax + 1)]

grantDiscussionLease(d, increment, source) ==
  [d EXCEPT !.lease = MinOf(MaxOf(d.lease, d.used) + increment,
                            IF source = "automatic"
                            THEN MinOf(AutomaticMax, regularTurnLimit)
                            ELSE regularTurnLimit)]

Decision(action, state, reason) ==
  [action |-> action, state |-> state, reason |-> reason, grant |-> FALSE]

decideDiscussion(d, intent, asked, failed) ==
  LET reviewSatisfied == ~RequireReviewer \/ d.prog.approved IN
  IF intent = "cancel" THEN Decision("cancel", "canceled", "user_canceled")
  ELSE IF hardBoundaryReached(d)
  THEN Decision("finalize", "finalizing", "hard_budget_exhausted")
  ELSE IF asked THEN Decision("wait_human", "waiting_human", "input_required")
  ELSE IF intent = "pause" THEN Decision("pause", "paused", "user_paused")
  ELSE IF intent = "finish"
  THEN Decision("finalize", "finalizing", "user_requested_finish")
  ELSE IF failed THEN Decision("wait_human", "waiting_human", "runtime_failure")
  ELSE IF AutomaticFinish /\ d.prog.satisfied /\ reviewSatisfied
  THEN Decision("finalize", "finalizing", "goal_satisfied")
  ELSE IF d.prog.plateau >= PlateauWindow
  THEN IF d.prog.high \/ ~reviewSatisfied
       THEN Decision("wait_human", "waiting_human", "discussion_plateau")
       ELSE Decision("finalize", "finalizing", "discussion_plateau")
  ELSE IF ~leaseBoundaryReached(d) THEN Decision("continue", "active", "none")
  ELSE IF d.lease < AutomaticMax /\ d.prog.added
  THEN [Decision("continue", "active", "none") EXCEPT !.grant = TRUE]
  ELSE Decision("wait_human", "awaiting_extension", "soft_budget_exhausted")

\* ProgressSnapshot after p; the plateau is counted up to the window.
ProgressSnapshots(p) ==
  [satisfied : BOOLEAN, high : BOOLEAN, added : BOOLEAN, approved : BOOLEAN,
   plateau : {0, MinOf(p.plateau + 1, PlateauWindow)}]

\* The conclusions the evaluator can draw from the replies of heard (computed in
\* DiscussionProgress): without a reply there is no progress; an approval lasts
\* at most until something changes, and only the reviewer gives one.
evaluateWaveProgress(p, heard) ==
  LET changed(q) == q.added \/ q.satisfied # p.satisfied \/ q.high # p.high
  IN {q \in ProgressSnapshots(p) :
        /\ q.satisfied => ~q.high
        /\ q.added <=> q.plateau = 0
        /\ heard = {} => ~q.satisfied /\ ~q.added /\ q.high = p.high
        /\ heard \cap Reviewer = {} /\ changed(q) => ~q.approved
        /\ heard \cap Reviewer = {} /\ ~p.approved => ~q.approved}

-----------------------------------------------------------------------------
(* Participants. *)

\* Room, Task, registry and Device say who may take part; they may have changed
\* since the last wave.
eligibleParticipants == SUBSET Participants

\* Mutant: an Agent that is still at work in a sealed wave is chosen again.
eligibleParticipantsAll(d) == eligibleParticipants

eligibleParticipantsForNextWave(d) ==
  LET live == UNION {Live(d.waves[w]) : w \in DOMAIN d.waves} IN
  {S \ live : S \in eligibleParticipants}

requiredRolesAvailable(S) == Reviewer \subseteq S

\* Everybody, or those that the highest open questions point at.
selectDiscussionParticipants(S) ==
  IF Focused THEN {T \in SUBSET S : T # {} /\ Reviewer \subseteq T} ELSE {S}

Finalizers(S) ==
  IF Reviewer \cap S # {} THEN {Reviewer} ELSE {{a} : a \in S}

-----------------------------------------------------------------------------
(* The transactions that end a wave and begin the next. *)

Decide(d, dec) == [d EXCEPT !.state = dec.state, !.reason = dec.reason, !.intent = "none"]

\* What is stored of a plan: the wave's row and one row for each turn
insertWave(d, v) == [d EXCEPT !.waves = Append(@, v)]

AppendWave(d, phase, S) ==
  [insertWave(d, buildWavePlan(phase, S)) EXCEPT !.clock = FirstDeadline(phase)]

\* A plan that may be stored: new turns, the reviewer among those of a contribution
validateWavePlan(v) ==
  /\ v.state = "open" /\ Members(v) # {}
  /\ v.phase # "finalization" => Reviewer \subseteq Members(v)
  /\ \A a \in Members(v) : v.turn[a] = "planned" /\ v.run[a] = "none"

\* The decision that is carried out if nobody is there to carry it out.
Feasible(dec, S) ==
  CASE dec.action = "continue" /\ S = {} ->
         Decision("wait_human", "waiting_human", "runtime_failure")
    [] dec.action = "continue" /\ S # {} /\ ~requiredRolesAvailable(S) ->
         Decision("wait_human", "waiting_human", "policy_violation")
    [] dec.action = "finalize" /\ S = {} ->
         IF dec.reason = "hard_budget_exhausted"
         THEN [dec EXCEPT !.state = "terminated"]
         ELSE [dec EXCEPT !.state = "completed", !.reason = "runtime_failure"]
    [] OTHER -> dec

\* Mutant: an Agent at work is counted as available for the next wave.
CarryWithoutWave(d, decision, before) ==
  UNION {LET d1 == Decide(d, Feasible(decision, S))
             T == S \ UNION {Live(before.waves[w]) : w \in DOMAIN before.waves}
         IN {IF decision.action \in {"continue", "finalize"} /\ T # {}
             THEN AppendWave(d1, "contribution", T) ELSE d1}
         : S \in eligibleParticipants}

\* The wave a decision calls for, by one of the choices of participants.
persistWavePlan(d, dec, S) ==
  CASE dec.action = "continue" ->
         {AppendWave(d, "contribution", T) :
            T \in {U \in selectDiscussionParticipants(S) :
                    validateWavePlan(buildWavePlan("contribution", U))}}
    [] dec.action = "finalize" /\ S # {} ->
         {AppendWave(d, "finalization", T) : T \in Finalizers(S)}
    [] OTHER -> {d}

\* The databases in which a decision is recorded, with the wave it calls for, if
\* the participants allow it; before gives them.
Carry(d, decision, before) ==
  UNION {LET dec == Feasible(decision, S)
             d1 == Decide(IF dec.grant THEN grantDiscussionLease(d, InitialLease, "automatic")
                          ELSE d, dec)
         IN persistWavePlan(d1, dec, S)
         : S \in eligibleParticipantsForNextWave(before)}

\* Mutant: the wave is closed by the commit after the one that plans the next.
CloseWaveLater(d, w, state) ==
  IF d.state = "active" THEN [d EXCEPT !.clock = "early"]
  ELSE [d EXCEPT !.waves[w].state = state, !.clock = "early"]

CloseWave(d, w, state) == [d EXCEPT !.waves[w].state = state, !.clock = "early"]

\* The seal's row; onRunTerminal seals completed turns only.
insertWaveSeal(d, w, seal) == [d EXCEPT !.waves[w].seal = seal]

\* The rows the closing transaction writes besides decision and next wave: heard
\* are the turns whose replies count, seal the accepted turns of a quorum.
closeReadyWaveAndApply(d, w, p, heard, seal) ==
  CloseWave(insertWaveSeal([d EXCEPT !.prog = p, !.waves[w].heard = heard], w, seal),
            w, IF seal = {} THEN waveCloseState(d.waves[w]) ELSE "partial")

advanceSettledWave(d, w, heard, seal) ==
  LET v == d.waves[w]
      asked == seal = {} /\ \E a \in Members(v) : v.run[a] = "asked"
  IN UNION {LET d1 == closeReadyWaveAndApply(recordTurnUsage(d), w, p, heard, seal)
            IN Carry(d1, decideDiscussion(d1, d.intent, asked, heard = {}), d)
            : p \in evaluateWaveProgress(d.prog, heard)}

\* closeFinalizationAndFinish, with or without a plan proposal or a fallback.
finishFinalization(d, w) ==
  [CloseWave(d, w, waveCloseState(d.waves[w])) EXCEPT
     !.state = IF d.reason = "hard_budget_exhausted" THEN "terminated" ELSE "completed",
     !.intent = "none"]

\* Mutant: nobody asks whether the Discussion has ended.
advanceReadyWaveAlways(d, w) ==
  IF d.waves[w].phase = "finalization" THEN {finishFinalization(d, w)}
  ELSE advanceSettledWave(d, w, Completed(d.waves[w]), {})

advanceReadyWave(d, w) ==
  CASE d.state \in terminalDiscussionStates ->
         {CloseWave(d, w, waveCloseState(d.waves[w]))}
    [] d.state \notin terminalDiscussionStates /\ d.waves[w].phase = "finalization" ->
         {finishFinalization(d, w)}
    [] OTHER -> advanceSettledWave(d, w, Completed(d.waves[w]), {})

-----------------------------------------------------------------------------
(* Turns and their Runs. *)

SettledAs(run) ==
  CASE run = "completed" -> "completed" [] run = "canceled" -> "canceled" [] OTHER -> "failed"

\* Mutant: a turn is settled again when its Run is looked at again.
settleTurnAgain(d, w, a) ==
  [d EXCEPT !.waves[w].turn[a] = SettledAs(d.waves[w].run[a]),
            !.waves[w].heard = IF d.waves[w].run[a] = "completed" THEN @ \cup {a} ELSE @]

settleTurn(d, w, a) ==
  [d EXCEPT !.waves[w].turn[a] =
     IF @ \in terminalTurnStates THEN @ ELSE SettledAs(d.waves[w].run[a])]

Bound(v, a) == v.turn[a] # "planned" /\ v.run[a] # "none"

\* reconcileTerminalWaveTurns
SettleAll(d, w) ==
  [d EXCEPT !.waves[w].turn = [a \in DOMAIN @ |->
     IF @[a] \notin terminalTurnStates /\ Bound(d.waves[w], a)
          /\ d.waves[w].run[a] \in terminalRunStates
     THEN SettledAs(d.waves[w].run[a]) ELSE @[a]]]

quorumSealIfReady(v, clock) ==
  /\ Quorum /\ v.phase = "contribution" /\ clock # "early"
  /\ Cardinality(Completed(v)) >= QuorumMinimum
  /\ Reviewer \subseteq Completed(v)

\* The seal takes the turns as they are after all terminal Runs are settled,
\* the progress takes them as they were after this one was.
onRunTerminal(d, w, a) ==
  LET d1 == settleTurn(d, w, a)
      d2 == IF Quorum THEN SettleAll(d1, w) ELSE d1
      v2 == d2.waves[w]
  IN IF d.waves[w].run[a] \notin terminalRunStates \/ ~Bound(d.waves[w], a) THEN {d}
     ELSE IF d.waves[w].state # "open" THEN {d1}
     ELSE IF Live(v2) = {} THEN advanceReadyWave(d2, w)
     ELSE IF quorumSealIfReady(v2, d.clock)
     THEN advanceSettledWave(d2, w, Completed(v2) \cap Completed(d1.waves[w]),
                             Completed(v2))
     ELSE {d2}

\* The planned turns of S get their Runs, and are bound to them.
ensureRun(d, w, S) ==
  [d EXCEPT
    !.waves[w].run = [a \in DOMAIN @ |->
        IF a \in S /\ @[a] = "none" THEN "queued" ELSE @[a]],
    !.waves[w].turn = [a \in DOMAIN @ |->
        IF a \in S /\ @[a] = "planned" THEN "queued" ELSE @[a]]]

reconcileDiscussion(d) ==
  IF HasOpenWave(d) THEN ensureRun(d, Last(d), Participants) ELSE d

Reconciled(ds) == {reconcileDiscussion(d) : d \in ds}

\* step(d, w, a) for the turns of wave w in the order of their ordinals.
InOrder(step(_, _, _), d, w) ==
  MapThenFoldSet(LAMBDA a, ds : UNION {step(x, w, a) : x \in ds}, {d},
                 LAMBDA a : a, LAMBDA S : CHOOSE a \in S : \A b \in S : b <= a,
                 Members(d.waves[w]))

EndRun(d, w, a, ofQueued) ==
  [d EXCEPT !.waves[w].run[a] =
     IF @ \in terminalRunStates THEN @ ELSE IF @ = "queued" THEN ofQueued ELSE "failed"]

\* Mutant: only Runs that nobody accepted are given up.
ExpireTurnQueued(d, w, a) ==
  IF d.waves[w].run[a] = "accepted" THEN {d}
  ELSE onRunTerminal(EndRun(ensureRun(d, w, {a}), w, a, "failed"), w, a)

\* A turn of a wave that is due: its Run expires, or is unknown if accepted.
ExpireTurn(d, w, a) ==
  onRunTerminal(EndRun(ensureRun(d, w, {a}), w, a, "failed"), w, a)

expireDueWaves(d) ==
  IF HasOpenWave(d) /\ d.clock = "due"
  THEN Reconciled(InOrder(ExpireTurn, d, Last(d)))
  ELSE {d}

\* The first terminal Run of an open wave whose soft deadline has passed.
reconcileDueQuorums(d) ==
  LET v == d.waves[Last(d)]
      done == {a \in Members(v) : v.run[a] \in terminalRunStates /\ Bound(v, a)}
      first == CHOOSE a \in done : \A b \in done : a <= b
  IN IF Quorum /\ HasOpenWave(d) /\ d.clock # "early" /\ done # {}
     THEN Reconciled(onRunTerminal(d, Last(d), first))
     ELSE {d}

\* Recovery of a canceled Discussion: what was not accepted is canceled, the
\* rest is unknown, and the wave is closed.
CancelTurn(d, w, a) ==
  LET v == d.waves[w] IN
  IF v.turn[a] \in terminalTurnStates THEN {d}
  ELSE IF v.turn[a] = "planned" THEN {[d EXCEPT !.waves[w].turn[a] = "canceled"]}
  ELSE onRunTerminal(EndRun(d, w, a, "canceled"), w, a)

closeCanceledWaves(d) ==
  LET w == Last(d)
      closed(x) == IF x.waves[w].state = "open" /\ Live(x.waves[w]) = {}
                   THEN CloseWave(x, w, waveCloseState(x.waves[w])) ELSE x
  IN IF d.state = "canceled" /\ HasOpenWave(d)
     THEN {closed(x) : x \in InOrder(CancelTurn, d, w)}
     ELSE {d}

refreshElapsedBudget(d) == [d EXCEPT !.spent = @ \/ timeUp]

\* A goal was adjusted and the server died before the wave was planned.
recoverActiveWithoutWave(d) ==
  LET d1 == refreshElapsedBudget(d)
  IN IF d.state = "active" /\ ~HasOpenWave(d)
     THEN Carry(d1, decideDiscussion(d1, "none", FALSE, FALSE), d)
     ELSE {d}

settleTerminalTurns(d) ==
  IF HasOpenWave(d) THEN Reconciled(InOrder(onRunTerminal, d, Last(d))) ELSE {d}

-----------------------------------------------------------------------------
(* Members. *)

emptyProgressSnapshot ==
  [satisfied |-> FALSE, high |-> FALSE, added |-> FALSE, approved |-> FALSE, plateau |-> 0]

Settings == [state : {"active"}, reason : {"none"}, intent : {"none"}, used : {0},
             lease : {InitialLease}, spent : {FALSE},
             prog : {emptyProgressSnapshot},
             waves : {<<>>}, clock : {"early"}]

\* create: the Discussion, its first wave and their Runs are one transaction.
Init ==
  /\ timeUp = FALSE
  /\ db \in {reconcileDiscussion(AppendWave(d, "contribution", Participants)) :
              d \in Settings}
  /\ pending = {}
  /\ toCancel = {}
  /\ up = TRUE
  /\ crashed = 0

Environment == <<timeUp, up, crashed>>

requestAction(d, intent) ==
  [d EXCEPT !.intent = intent, !.state = "stop_requested",
            !.reason = IF intent = "pause" THEN "user_paused" ELSE "user_requested_finish"]

updateGoal(d) == [d EXCEPT !.state = "active", !.reason = "none", !.intent = "none"]

\* finish (or stop_after_turn) and pause: while a wave is open they are noted.
Request(intent) ==
  /\ up /\ db.state \notin terminalDiscussionStates \cup {"finalizing"}
  /\ IF HasOpenWave(db)
     THEN db' = requestAction(db, intent)
     ELSE db' \in Reconciled(Carry(db, decideDiscussion(db, intent, FALSE, FALSE), db))
  /\ UNCHANGED <<Environment, pending, toCancel>>

\* prepareResumeBudget
Resumed(d, increment) ==
  IF leaseBoundaryReached(d) /\ ~hardBoundaryReached(d)
  THEN grantDiscussionLease(d, increment, "user") ELSE d

\* planContinuation, or planFinalization at the hard boundary.
Continuation(d) ==
  LET dec == IF hardBoundaryReached(d)
             THEN Decision("finalize", "finalizing", "hard_budget_exhausted")
             ELSE Decision("continue", "active", "none")
  IN Carry(d, dec, d)

\* continue and adjust_goal.
Continue(increment) ==
  /\ up /\ db.state \in resumable /\ ~HasOpenWave(db)
  /\ db' \in Reconciled(Continuation(Resumed(db, increment)))
  /\ UNCHANGED <<Environment, pending, toCancel>>

Cancel ==
  /\ up /\ db.state \notin terminalDiscussionStates
  /\ db' = Decide(db, decideDiscussion(db, "cancel", FALSE, FALSE))
  /\ toCancel' = toCancel \cup
       (IF HasOpenWave(db)
        THEN {<<Last(db), a>> : a \in Live(db.waves[Last(db)])} ELSE {})
  /\ UNCHANGED <<Environment, pending>>

\* cancellations.cancel of one of those Runs, and advanceDiscussion if it ended.
CancelRun(t) ==
  LET w == t[1]  a == t[2]  r == db.waves[w].run[a] IN
  /\ up /\ t \in toCancel
  /\ toCancel' = toCancel \ {t}
  /\ IF r = "queued"
     THEN db' \in Reconciled(onRunTerminal(EndRun(db, w, a, "canceled"), w, a))
     ELSE UNCHANGED db
  /\ UNCHANGED <<Environment, pending>>

-----------------------------------------------------------------------------
(* Runs, clocks, the sweep. *)

Turns == {<<w, a>> \in (1..Last(db)) \X Participants : a \in Members(db.waves[w])}
RunOf(t) == db.waves[t[1]].run[t[2]]

\* A Device takes the Run, or it ends: by a reply, a failure, a member.  The
\* scheduler of hosted Runs awaits the routing of the reply before it tells the
\* orchestrator; the socket of managed ones, which alone form a quorum, does not.
RunAccepted(t) ==
  /\ RunOf(t) = "queued"
  /\ db' = [db EXCEPT !.waves[t[1]].run[t[2]] = "accepted"]
  /\ UNCHANGED <<Environment, pending, toCancel>>

RunEnds(t) ==
  /\ up /\ (Quorum => pending = {})
  /\ \E state \in CASE RunOf(t) = "queued" -> Endings \ {"completed", "asked"}
                     [] RunOf(t) = "accepted" -> Endings
                     [] OTHER -> {} :
       db' = [db EXCEPT !.waves[t[1]].run[t[2]] = state]
  /\ pending' = pending \cup {t}
  /\ UNCHANGED <<Environment, toCancel>>

RunTerminal(t) ==
  /\ up /\ t \in pending
  /\ pending' = pending \ {t}
  /\ db' \in Reconciled(onRunTerminal(db, t[1], t[2]))
  /\ UNCHANGED <<Environment, toCancel>>

Tick ==
  /\ \/ /\ ~timeUp
        /\ timeUp' = TRUE
        /\ db' = IF HasOpenWave(db) /\ db.waves[Last(db)].phase = "contribution"
                 THEN [db EXCEPT !.clock = "due"] ELSE db
     \/ /\ HasOpenWave(db) /\ db.clock # "due"
        /\ db' = [db EXCEPT !.clock = IF @ = "early" THEN "soft" ELSE "due"]
        /\ UNCHANGED timeUp
  /\ UNCHANGED <<pending, toCancel, up, crashed>>

sweepDueWaves ==
  /\ up /\ (Quorum => pending = {})
  /\ db' \in UNION {expireDueWaves(d) : d \in reconcileDueQuorums(db)}
  /\ UNCHANGED <<Environment, pending, toCancel>>

-----------------------------------------------------------------------------
(* Crash and recovery. *)

\* What a handler has committed before it is done: the settled turn, the next
\* wave without its Runs, some of the Runs, one not yet bound to its turn.
Partly(ds) ==
  UNION {IF ~HasOpenWave(d) THEN {d}
         ELSE {ensureRun(d, Last(d), S) : S \in SUBSET Members(d.waves[Last(d)])}
              \cup {[d EXCEPT !.waves[Last(d)].run[a] = "queued"] :
                      a \in {b \in Members(d.waves[Last(d)]) :
                               d.waves[Last(d)].run[b] = "none"}}
         : d \in ds}

Crash ==
  /\ up /\ crashed < Crashes
  /\ \/ UNCHANGED db
     \/ \E t \in pending :
          \/ db' = settleTurn(db, t[1], t[2])
          \/ db' \in Partly(onRunTerminal(db, t[1], t[2]))
     \/ /\ db.state \in resumable /\ ~HasOpenWave(db)
        /\ db' \in Partly(Continuation(Resumed(db, 1)))
     \/ /\ db.state \in resumable /\ ~HasOpenWave(db)
        /\ db' = updateGoal(db)
  /\ up' = FALSE
  /\ crashed' = crashed + 1
  /\ pending' = {}
  /\ toCancel' = {}
  /\ UNCHANGED timeUp

\* Mutant: recovery trusts that every active Discussion has its wave.
recoverWavesOnly ==
  /\ ~up
  /\ up' = TRUE
  /\ db' \in UNION {settleTerminalTurns(reconcileDiscussion(d2)) :
       d2 \in UNION {expireDueWaves(d1) : d1 \in closeCanceledWaves(db)}}
  /\ UNCHANGED <<timeUp, pending, toCancel, crashed>>

recover ==
  /\ ~up
  /\ up' = TRUE
  /\ db' \in UNION {settleTerminalTurns(reconcileDiscussion(d4)) :
       d4 \in UNION {recoverActiveWithoutWave(d3) :
       d3 \in UNION {expireDueWaves(d2) :
       d2 \in UNION {reconcileDueQuorums(d1) : d1 \in closeCanceledWaves(db)}}}}
  /\ UNCHANGED <<timeUp, pending, toCancel, crashed>>

-----------------------------------------------------------------------------
Next ==
  \/ \E intent \in {"finish", "pause"} : Request(intent)
  \/ \E increment \in {1, HardMax} : Continue(increment)
  \/ Cancel
  \/ \E t \in toCancel : CancelRun(t)
  \/ \E t \in Turns : RunAccepted(t) \/ RunEnds(t)
  \/ \E t \in pending : RunTerminal(t)
  \/ Tick \/ sweepDueWaves \/ Crash \/ recover

Spec == Init /\ [][Next]_vars

-----------------------------------------------------------------------------
(***************************************************************************)
(* Properties.                                                             *)
(***************************************************************************)
\* A working Discussion has its wave: whatever crashes, no Discussion is left
\* active, stopping or finalizing with nothing that could move it.
NeverStranded ==
  up /\ db.state \in {"active", "stop_requested", "finalizing"} => HasOpenWave(db)

\* At most one wave is open, and it is the last one.
OneOpenWave ==
  \A w \in DOMAIN db.waves : db.waves[w].state = "open" => w = Last(db)

\* Ordinary waves do not eat into the finalization reserve: as many are counted
\* as were closed, and with the finalization they never exceed hardMaxTurns.
WithinBudget ==
  LET contributions == {w \in DOMAIN db.waves : db.waves[w].phase = "contribution"} IN
  /\ db.used <= regularTurnLimit
  /\ Cardinality(contributions) <= MaxOf(1, regularTurnLimit)
  /\ Last(db) <= Cardinality(contributions) + 1
  /\ db.lease <= MaxOf(InitialLease, regularTurnLimit)

\* An Agent has at most one unfinished turn in the Discussion, also after a
\* quorum sealed a wave without waiting for it.
OneTurnPerAgent ==
  \A a \in Participants :
    Cardinality({w \in DOMAIN db.waves :
                   a \in Members(db.waves[w]) /\ a \in Live(db.waves[w])}) <= 1

\* What a closed wave contributed is final: turns are settled once, and the
\* replies that counted never change.
ClosedWavesAreFrozenStep ==
  \A w \in DOMAIN db.waves :
    /\ \A a \in Members(db.waves[w]) \ Live(db.waves[w]) :
         db'.waves[w].turn[a] = db.waves[w].turn[a]
    /\ db.waves[w].state # "open" =>
         /\ db'.waves[w].state = db.waves[w].state
         /\ db'.waves[w].heard = db.waves[w].heard
ClosedWavesAreFrozen == [][ClosedWavesAreFrozenStep]_vars

\* A Discussion that has ended stays ended and plans nothing more, over late Runs,
\* sweeps and restarts.  One case is excepted: when the accepted turns of a canceled
\* Discussion become a quorum, sealing its wave does not ask for the state, decides
\* and may plan the next wave (onRunTerminal, advanceSettledWave; advanceReadyWave
\* asks; discussion-orchestration.md:225 keeps it canceled).
Seals(w) == db.waves[w].seal = {} /\ db'.waves[w].seal # {}
TerminalIsFinalStep ==
  db.state \in terminalDiscussionStates =>
    \/ /\ db'.state = db.state
       /\ Last(db') = Last(db)
    \/ db.state = "canceled" /\ \E w \in DOMAIN db.waves : Seals(w)
TerminalIsFinal == [][TerminalIsFinalStep]_vars

\* A wave does not stay open: the sweep closes one that is due, whether its Runs
\* answered, were accepted or are not even created, and whether the Discussion
\* is active, stopping or canceled.
SweepCloses ==
  up /\ HasOpenWave(db) /\ db.clock = "due" =>
    \A d \in expireDueWaves(db) : d.waves[Last(db)].state # "open"

\* docs/modules/discussion-orchestration.md: progress reads the seal's accepted
\* turns.
ProgressReadsSeal ==
  \A w \in DOMAIN db.waves :
    db.waves[w].seal # {} => db.waves[w].heard = db.waves[w].seal
=============================================================================
