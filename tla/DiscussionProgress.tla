-------------------------- MODULE DiscussionProgress --------------------------
(***************************************************************************)
(* What a Discussion learns from its waves and whom it asks next           *)
(* (discussion/progress-evaluator.ts, discussion-participant-selector.ts,  *)
(* discussion-evidence-service.ts, discussion-supplemental-evidence-       *)
(* service.ts).  Module Discussions leaves the conclusion of a wave and    *)
(* the choice of participants open; here they are computed from replies    *)
(* and assessments, and shown to be among those Discussions allows.        *)
(*                                                                         *)
(* Agents are numbers: their ordinals.  A reply stands for its normalized  *)
(* text, so equal replies have equal hashes.  An importance is 1..3 (low   *)
(* to high), 0 is a question that is not open; a confidence is 1 (not      *)
(* enough to complete) or 2, 0 is none; a disagreement is 1..4, 0 unknown. *)
(***************************************************************************)
EXTENDS Naturals, Sequences, FiniteSets

LOCAL INSTANCE SequencesExt

CONSTANTS Agents, Reviewer, Primary,   \* participants; reviewer and Task primary, if any
          Focused, Limit,              \* participantSelectionMode, focusedParticipantLimit
          Quorum, QuorumMinimum,       \* waveCompletionMode, quorumMinimumCompleted
          Questions, Refs, InScope,    \* InScope: references of this Room and Task
          Replies, Alike,              \* Alike: pairs above the similarity threshold
          Assessments,                 \* what an Agent may report with its reply
          RoleTerms, QuestionTerms,    \* words of the roles and of the questions
          MaxHashes, Compared,         \* 50 hashes kept, 10 replies compared
          PlateauWindow,
          MaxWaves                     \* bound on waves

ProgressAssumption ==
  /\ Agents \subseteq Nat /\ Cardinality(Agents) >= 2
  /\ Reviewer \subseteq Agents /\ Cardinality(Reviewer) <= 1
  /\ Primary \subseteq Agents /\ Cardinality(Primary) <= 1
  /\ Focused \in BOOLEAN /\ Limit \in 2..5
  /\ Quorum \in BOOLEAN /\ QuorumMinimum \in 2..5
  /\ InScope \subseteq Refs /\ Alike \subseteq Replies \X Replies
  /\ RoleTerms \in [Agents -> SUBSET UNION {QuestionTerms[q] : q \in Questions}]
  /\ MaxHashes \in Nat \ {0} /\ Compared \in Nat /\ PlateauWindow \in Nat \ {0}

VARIABLES prog,         \* discussions.progress
          waves,        \* the waves: selection, replies, assessments, seal
          supplements,  \* discussion_supplemental_evidence: <<wave, Agent>>
          reviewed      \* history: the projection the reviewer last judged

vars == <<prog, waves, supplements, reviewed>>

Ranks == {0, 1, 2, 3}
MinOf(S) == CHOOSE n \in S : \A m \in S : n <= m
MaxOf(S) == CHOOSE n \in S : \A m \in S : m <= n

-----------------------------------------------------------------------------
(* The progress of a wave. *)

\* A field that is malformed (a list with one bad item, a number out of range)
\* is left out; the others count.
parseAgentAssessment(raw) ==
  [raw EXCEPT !.conf = IF "conf" \in raw.bad THEN 0 ELSE @,
              !.resolved = IF "resolved" \in raw.bad THEN {} ELSE @,
              !.claimed = IF "claimed" \in raw.bad THEN {} ELSE @,
              !.open = IF "open" \in raw.bad THEN [q \in Questions |-> 0] ELSE @,
              !.dis = IF "dis" \in raw.bad THEN 0 ELSE @]

verifyDiscussionEvidenceReferences(references) == references \cap InScope

\* Mutant: the lowest importance counts.
mergeOpenQuestionLowest(ranks) == IF ranks \ {0} = {} THEN 0 ELSE MinOf(ranks \ {0})

mergeOpenQuestion(ranks) == IF ranks = {} THEN 0 ELSE MaxOf(ranks)

\* Mutant: a question is what the Agents of the last wave say it is.
openQuestionsLatest(p, said) ==
  [q \in Questions |-> mergeOpenQuestion({said[a].open[q] : a \in DOMAIN said})]

\* What was open and is not resolved, and what the members of the wave report.
openQuestions(p, said) ==
  LET resolved == UNION {said[a].resolved : a \in DOMAIN said} IN
  [q \in Questions |->
     mergeOpenQuestion({said[a].open[q] : a \in DOMAIN said}
                       \cup (IF q \in resolved THEN {} ELSE {p.open[q]}))]

\* Mutant: one member that calls the goal satisfied is enough.
goalSatisfiedByOne(said, open) ==
  \E a \in DOMAIN said : said[a].goal = "yes" /\ said[a].conf = 2

goalSatisfied(said, open) ==
  LET completion == {a \in DOMAIN said : said[a].goal # "none" \/ said[a].conf # 0} IN
  /\ completion # {}
  /\ \A a \in completion : said[a].goal = "yes" /\ said[a].conf = 2
  /\ \A q \in Questions : open[q] # 3

Reported(values, previous, pick(_)) ==
  IF values \ {0} = {} THEN previous ELSE pick(values \ {0})

\* Whether two texts are nearly the same; never so if one is short.
discussionReplySimilarity(left, right) == <<left, right>> \in Alike

\* The members whose reply has a hash not seen before, in the order of ordinals.
ExactNovel(p, reply) ==
  {a \in DOMAIN reply :
     /\ reply[a] \notin {p.hashes[i] : i \in DOMAIN p.hashes}
     /\ \A b \in DOMAIN reply : b < a => reply[b] # reply[a]}

Novel(p, reply, previousReplies) ==
  {a \in ExactNovel(p, reply) :
     \A r \in previousReplies \cup {reply[b] : b \in {c \in DOMAIN reply : c < a}} :
       ~discussionReplySimilarity(reply[a], r)}

replyHashes(p, reply) ==
  LET new == SetToSortSeq(ExactNovel(p, reply), LAMBDA a, b : a < b)
      all == p.hashes \o [i \in DOMAIN new |-> reply[new[i]]]
  IN IF Len(all) > MaxHashes THEN SubSeq(all, Len(all) - MaxHashes + 1, Len(all)) ELSE all

\* Mutant: only what counts as progress takes the approval back.
approvalKept(p, said, changed, added) ==
  LET opinions == {said[a].approves : a \in DOMAIN said \cap Reviewer} \ {"none"} IN
  IF opinions # {} THEN opinions = {"yes"} ELSE ~added /\ p.approved

reviewerApproved(p, said, changed, added) ==
  LET opinions == {said[a].approves : a \in DOMAIN said \cap Reviewer} \ {"none"} IN
  IF opinions # {} THEN opinions = {"yes"} ELSE ~changed /\ p.approved

\* Mutant: the waves without progress are counted, not those in a row.
plateauCountTotal(p, added) == IF added THEN p.plateau ELSE p.plateau + 1

plateauCount(p, added) == IF added THEN 0 ELSE p.plateau + 1

evaluateWaveProgress(p, reply, raw, previousReplies) ==
  LET said == [a \in DOMAIN raw |-> parseAgentAssessment(raw[a])]
      open == openQuestions(p, said)
      verified == p.verified \cup
        UNION {verifyDiscussionEvidenceReferences(said[a].claimed) : a \in DOMAIN said}
      dis == Reported({said[a].dis : a \in DOMAIN said}, p.dis, MaxOf)
      conf == Reported({said[a].conf : a \in DOMAIN said}, p.conf, MinOf)
      satisfied == goalSatisfied(said, open)
      added == \/ \E a \in Novel(p, reply, previousReplies) : said[a].info
               \/ \E q \in Questions : p.open[q] # 0 /\ open[q] = 0
               \/ verified # p.verified
               \/ dis # p.dis
      changed == added \/ open # p.open \/ satisfied # p.satisfied \/ conf # p.conf
  IN [open |-> open, verified |-> verified, dis |-> dis, conf |-> conf,
      satisfied |-> satisfied, added |-> added,
      approved |-> reviewerApproved(p, said, changed, added),
      plateau |-> plateauCount(p, added),
      hashes |-> replyHashes(p, reply)]

-----------------------------------------------------------------------------
(* The participants of a wave. *)

highestPriorityQuestions(p) ==
  {q \in Questions : p.open[q] # 0 /\ \A o \in Questions : p.open[o] <= p.open[q]}

\* The questions an Agent has reported in its completed turns, the late included.
ReportedBy(ws, a) ==
  {q \in Questions :
     \E w \in DOMAIN ws : a \in DOMAIN ws[w].said /\ ws[w].said[a].open[q] # 0}

RoleMatches(a, focus) == RoleTerms[a] \cap UNION {QuestionTerms[q] : q \in focus}

Score(ws, a, focus) ==
  100 * Cardinality(ReportedBy(ws, a) \cap focus) + 10 * Cardinality(RoleMatches(a, focus))

\* Mutant: the reviewer is chosen by its score alone.
WithReviewerScored(first, S) == {first[i] : i \in DOMAIN first}

\* Mutant: the reviewer is added also where there is no room.
WithReviewerAdded(first, S) == {first[i] : i \in DOMAIN first} \cup (Reviewer \cap S)

\* The reviewer takes the place of the last one if there is no room.
WithReviewer(first, S) ==
  LET kept == IF Len(first) = Limit /\ (Reviewer \cap S) \ {first[i] : i \in DOMAIN first} # {}
              THEN SubSeq(first, 1, Limit - 1) ELSE first
  IN {kept[i] : i \in DOMAIN kept} \cup (Reviewer \cap S)

snapshot(strategy, focus, S, selected, why) ==
  [strategy |-> strategy, focus |-> focus, eligible |-> S, selected |-> selected,
   required |-> Reviewer \cap S # {}, why |-> why]

selectAll(p, S, reason) ==
  snapshot("all_eligible", highestPriorityQuestions(p), S, S, [a \in S |-> {reason}])

selectFinalizer(p, S) ==
  LET lead == IF Reviewer \cap S # {} THEN Reviewer \cap S ELSE Primary \cap S
      speaker == IF lead # {} THEN CHOOSE a \in lead : TRUE ELSE MinOf(S)
      reason == CASE Reviewer \cap S # {} -> "finalizer_reviewer"
                  [] Reviewer \cap S = {} /\ lead # {} -> "finalizer_primary"
                  [] OTHER -> "finalizer_ordinal"
  IN snapshot("finalizer", highestPriorityQuestions(p), S, {speaker},
              [a \in {speaker} |-> {reason}])

selectFocused(ws, p, S) ==
  LET focus == highestPriorityQuestions(p)
      scored == SetToSortSeq({a \in S : Score(ws, a, focus) > 0},
                  LAMBDA a, b : \/ Score(ws, a, focus) > Score(ws, b, focus)
                                \/ Score(ws, a, focus) = Score(ws, b, focus) /\ a < b)
      selected == WithReviewer(SubSeq(scored, 1, MinOf({Limit, Len(scored)})), S)
  IN IF scored = <<>> THEN selectAll(p, S, "no_deterministic_match")
     ELSE snapshot("question_focused", focus, S, selected,
            [a \in selected |->
               {r \in {"question_reporter", "role_match", "required_reviewer"} :
                  CASE r = "question_reporter" -> ReportedBy(ws, a) \cap focus # {}
                    [] r = "role_match" -> RoleMatches(a, focus) # {}
                    [] r = "required_reviewer" -> a \in Reviewer}])

selectDiscussionParticipants(ws, p, S, finalization) ==
  IF finalization THEN selectFinalizer(p, S)
  ELSE IF ~Focused THEN selectAll(p, S, "all_member_policy")
  ELSE IF highestPriorityQuestions(p) = {} THEN selectAll(p, S, "no_focus_questions")
  ELSE selectFocused(ws, p, S)

validExplanations(s) ==
  LET allowed ==
        CASE s.strategy = "finalizer" ->
               {"finalizer_reviewer", "finalizer_primary", "finalizer_ordinal"}
          [] s.strategy = "all_eligible" ->
               {"all_member_policy", "no_focus_questions", "no_deterministic_match"}
          [] OTHER -> {"question_reporter", "role_match", "required_reviewer"}
  IN \A a \in s.selected :
       /\ s.why[a] # {} /\ s.why[a] \subseteq allowed
       /\ s.strategy # "question_focused" => Cardinality(s.why[a]) = 1
       /\ "required_reviewer" \in s.why[a] => s.required

assertDiscussionWaveSelection(s) ==
  /\ validExplanations(s)
  /\ s.selected # {} /\ s.selected \subseteq s.eligible
  /\ s.strategy = "all_eligible" => s.selected = s.eligible
  /\ s.strategy = "question_focused" => s.focus # {} /\ Cardinality(s.selected) <= Limit
  /\ s.strategy = "finalizer" => Cardinality(s.selected) = 1

assertDiscussionWaveSeal(s, seal) ==
  /\ Cardinality(seal) \in QuorumMinimum..5
  /\ s.required => Reviewer \cap seal # {}

-----------------------------------------------------------------------------
(* Waves. *)

NoReply == [a \in {} |-> {}]

buildWavePlan(selection, phase) ==
  [selection |-> selection, phase |-> phase, state |-> "open", reply |-> NoReply,
   said |-> NoReply, live |-> {}, seal |-> {}, heard |-> {}]

Current == Len(waves)

eligibleParticipantsForNextWave(ws) ==
  LET live == UNION {ws[w].live : w \in DOMAIN ws} IN {S \in SUBSET (Agents \ live) : S # {}}

\* The waves that may come next: a contribution needs the reviewer.
Planned(ws, p) ==
  {buildWavePlan(selectDiscussionParticipants(ws, p, S, TRUE), "finalization") :
     S \in eligibleParticipantsForNextWave(ws)}
  \cup {buildWavePlan(selectDiscussionParticipants(ws, p, S, FALSE), "contribution") :
          S \in {T \in eligibleParticipantsForNextWave(ws) :
                   Reviewer \subseteq T /\ Len(ws) < MaxWaves}}

\* Mutant: also late replies are read.
acceptedPriorTurnMessagesAll(k) ==
  {<<w, a>> \in (1..(k - 1)) \X Agents : a \in DOMAIN waves[w].reply}

\* The replies that the waves before k contributed, in this order: what an Agent
\* of wave k is shown, and what its reply is compared with.
acceptedPriorTurnMessages(k) ==
  {<<w, a>> \in (1..(k - 1)) \X Agents :
     /\ a \in DOMAIN waves[w].reply
     /\ waves[w].seal # {} => a \in waves[w].seal}

recentAcceptedReplies(k) ==
  LET order == SetToSortSeq(acceptedPriorTurnMessages(k),
                 LAMBDA s, t : s[1] < t[1] \/ (s[1] = t[1] /\ s[2] < t[2]))
  IN {waves[order[i][1]].reply[order[i][2]] :
        i \in {j \in DOMAIN order : j + Compared > Len(order)}}

\* What an Agent of the open wave is told, whenever its Run is created.
buildInstruction ==
  [shown |-> acceptedPriorTurnMessages(Current), phase |-> waves[Current].phase,
   progress |-> prog]

quorumSealIfReady(s, done) ==
  /\ Quorum
  /\ Cardinality(done) >= QuorumMinimum
  /\ s.required => Reviewer \subseteq done

\* The members whose reply the evaluation reads: those of a seal may have been
\* completed after it read the turns.
Counted(done, seal) == IF seal = {} THEN {done} ELSE SUBSET done

Projection(p) == [open |-> p.open, verified |-> p.verified, dis |-> p.dis,
                  conf |-> p.conf, satisfied |-> p.satisfied]

Judged(said, p) ==
  LET opinions == {said[a].approves : a \in DOMAIN said \cap Reviewer} \ {"none"} IN
  IF opinions # {}
  THEN [by |-> opinions, of |-> Projection(p), since |-> FALSE]
  ELSE [reviewed EXCEPT !.since = @ \/ p.added]

\* advanceSettledWave, with the wave it plans if there is one; the rest of the
\* members failed, or are still at work after a quorum.
Close ==
  LET v == waves[Current]  S == v.selection.selected IN
  /\ v.state = "open" /\ v.phase = "contribution"
  /\ \E done \in SUBSET S, sealed \in BOOLEAN :
     \E reply \in [done -> Replies], raw \in [done -> Assessments] :
     LET seal == IF sealed THEN done ELSE {} IN
     /\ sealed => quorumSealIfReady(v.selection, done) /\ S \ done # {}
     /\ \E heard \in Counted(done, seal) :
        LET said == [a \in heard |-> raw[a]]
            p == evaluateWaveProgress(prog, [a \in heard |-> reply[a]], said,
                                      recentAcceptedReplies(Current))
            closed == [v EXCEPT !.state = "closed", !.reply = reply, !.seal = seal,
                         !.said = [a \in done |-> parseAgentAssessment(raw[a])],
                         !.live = IF sealed THEN S \ done ELSE {},
                         !.heard = heard]
        IN /\ prog' = p
           /\ reviewed' = Judged(said, p)
           /\ \/ waves' = [waves EXCEPT ![Current] = closed]
              \/ \E next \in Planned([waves EXCEPT ![Current] = closed], p) :
                   waves' = Append([waves EXCEPT ![Current] = closed], next)
  /\ UNCHANGED supplements

\* A member continues or finishes a Discussion that waits.
Plan ==
  /\ waves[Current].state = "closed" /\ waves[Current].phase = "contribution"
  /\ \E next \in Planned(waves, prog) : waves' = Append(waves, next)
  /\ UNCHANGED <<prog, supplements, reviewed>>

\* onRunTerminal for a turn of a wave that is closed.
Late(w, a) ==
  /\ a \in waves[w].live
  /\ \/ \E r \in Replies, raw \in Assessments :
          waves' = [waves EXCEPT
            ![w].live = @ \ {a},
            ![w].reply = [b \in DOMAIN @ \cup {a} |-> IF b = a THEN r ELSE @[b]],
            ![w].said = [b \in DOMAIN @ \cup {a} |->
               IF b = a THEN parseAgentAssessment(raw) ELSE @[b]]]
     \/ waves' = [waves EXCEPT ![w].live = @ \ {a}]
  /\ UNCHANGED <<prog, supplements, reviewed>>

retainSupplementalEvidence(w, a) == supplements' = supplements \cup {<<w, a>>}

\* Mutant: it is not asked whether the wave has counted the turn.
submitAny(w, a) ==
  /\ a \in DOMAIN waves[w].reply /\ waves[w].seal # {}
  /\ supplements' = supplements \cup {<<w, a>>}
  /\ UNCHANGED <<prog, waves, reviewed>>

\* The Bridge sends a reply it was offered to keep; before the seal the answer is
\* wave_open, for an accepted turn accepted_member.
submit(w, a) ==
  /\ a \in DOMAIN waves[w].reply
  /\ waves[w].seal # {} /\ a \notin waves[w].seal
  /\ retainSupplementalEvidence(w, a)
  /\ UNCHANGED <<prog, waves, reviewed>>

FirstProgress ==
  [open |-> [q \in Questions |-> 0], verified |-> {}, dis |-> 0, conf |-> 0,
   satisfied |-> FALSE, added |-> FALSE, approved |-> FALSE, plateau |-> 0, hashes |-> <<>>]

Init ==
  /\ prog = FirstProgress
  /\ waves = <<buildWavePlan(selectAll(FirstProgress, Agents,
                 IF Focused THEN "no_focus_questions" ELSE "all_member_policy"),
                 "contribution")>>
  /\ supplements = {}
  /\ reviewed = [by |-> {}, of |-> Projection(FirstProgress), since |-> FALSE]

Next ==
  \/ Close \/ Plan
  \/ \E w \in DOMAIN waves, a \in Agents : Late(w, a) \/ submit(w, a)

Spec == Init /\ [][Next]_vars

-----------------------------------------------------------------------------
(***************************************************************************)
(* Properties.                                                             *)
(***************************************************************************)
D == INSTANCE Discussions WITH
       Participants <- Agents, RequireReviewer <- FALSE,
       AutomaticFinish <- TRUE, InitialLease <- 1,
       AutomaticMax <- 1, HardMax <- 2, Reserve <- 1, Endings <- {}, Crashes <- 0,
       db <- prog, timeUp <- FALSE, pending <- {}, toCancel <- {}, up <- TRUE, crashed <- 0

Summary(p) ==
  [satisfied |-> p.satisfied, high |-> \E q \in Questions : p.open[q] = 3,
   added |-> p.added, approved |-> p.approved,
   plateau |-> MinOf({p.plateau, PlateauWindow})]

\* What the evaluator concludes from a wave is among the conclusions that module
\* Discussions lets the orchestrator meet.
ConclusionsAllowedStep ==
  waves[Current].state # waves'[Current].state =>
    Summary(prog') \in D!evaluateWaveProgress(Summary(prog), waves'[Current].heard)
ConclusionsAllowed == [][ConclusionsAllowedStep]_vars

\* So are the participants the selector chooses; the reviewer is always there.
SelectionsAllowed ==
  \A w \in DOMAIN waves :
    LET s == waves[w].selection IN
    s.selected \in IF s.strategy = "finalizer" THEN D!Finalizers(s.eligible)
                   ELSE D!selectDiscussionParticipants(s.eligible)

\* The checks on a stored selection and a stored seal never refuse what selector
\* and quorum made: whoever is eligible, has reported or matches, and wherever
\* the limit cuts.
SelectionNeverRejected ==
  \A w \in DOMAIN waves :
    /\ assertDiscussionWaveSelection(waves[w].selection)
    /\ waves[w].seal # {} => assertDiscussionWaveSeal(waves[w].selection, waves[w].seal)

\* An open question leaves, or loses importance, only in a wave in which a member
\* that counts has resolved it: silence, failures and late replies keep it.
OpenQuestionsKeptStep ==
  \A q \in Questions :
    prog'.open[q] < prog.open[q] =>
      \E a \in waves'[Current].heard : q \in waves'[Current].said[a].resolved
OpenQuestionsKept == [][OpenQuestionsKeptStep]_vars

\* An approval of the reviewer lasts only as long as all it judged is unchanged
\* and no reply has added anything since.
ApprovalIsCurrent ==
  prog.approved =>
    reviewed.by = {"yes"} /\ reviewed.of = Projection(prog) /\ ~reviewed.since

\* The goal counts as satisfied only if no member that counts objects, is silent
\* about it while it judges its confidence, or leaves a high question open.
SatisfiedByAll ==
  prog.satisfied =>
    LET w == CHOOSE v \in DOMAIN waves :
               /\ waves[v].state = "closed"
               /\ \A u \in DOMAIN waves : waves[u].state = "closed" => u <= v
        said == waves[w].said
    IN /\ \A q \in Questions : prog.open[q] # 3
       /\ \E a \in waves[w].heard : said[a].goal = "yes"
       /\ \A a \in waves[w].heard : said[a].goal # "no" /\ said[a].conf # 1

\* While a wave is open, what its Agents are told does not depend on when their
\* Runs are created: a late reply of an earlier wave is not shown to some of them.
InstructionIsFrozenStep ==
  waves[Current].state = "open" /\ waves'[Current].state = "open" =>
    buildInstruction' = buildInstruction
InstructionIsFrozen == [][InstructionIsFrozenStep]_vars

\* Supplemental evidence is only what no wave has counted.
SupplementsAreLate ==
  \A t \in supplements : t[2] \notin waves[t[1]].heard \cup waves[t[1]].seal
=============================================================================
