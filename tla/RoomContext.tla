----------------------------- MODULE RoomContext -----------------------------
(***************************************************************************)
(* Rolling Room memory and Room context coverage of one Room.              *)
(*                                                                         *)
(* Reducers (one per server process, all on one database) take a lease on  *)
(* the Room's state row, reduce the Messages after the latest checkpoint   *)
(* and commit the next one (memory-reducer-scheduler.ts,                   *)
(* rolling-room-memory-repository.ts).  A Run delivered to a Bridge gets a *)
(* bundle, a checkpoint and the raw Messages after it, or else the recent  *)
(* Messages only (context-planner.ts, delivery-service.ts).  The Bridge    *)
(* keeps per Task Session the Room sequence consumed so far, leaves out    *)
(* what the Session already has and reports a receipt, which the server    *)
(* checks against the delivery (session_scope.go, delivery-service.ts).    *)
(***************************************************************************)
EXTENDS Integers, Sequences, FiniteSetsExt

CONSTANTS
  Reducers,          \* server processes that sweep the Room
  Runs,              \* Runs of one Agent in one Task
  MaxMessages,       \* bound on the Room's sequence
  MaxCheckpoints,    \* bound on the checkpoints
  MaxFailures,       \* bound on reductions that fail or die
  IncrementalLimit,  \* 32 Messages an incremental reduction
  RebaseLimit,       \* 128 Messages a rebase
  RawLimit,          \* 12 raw Messages a bundle
  RecentLimit,       \* 12 recent Messages without a bundle
  ProjectionLimit    \* 16 earlier Messages excerpted in the projection

ContextBounds ==
  /\ {MaxMessages, MaxCheckpoints, MaxFailures, RecentLimit, ProjectionLimit, RawLimit} \subseteq Nat
  /\ {IncrementalLimit, RebaseLimit} \subseteq Nat \ {0}

VARIABLES
  last,      \* sequence of the Room's last Message: desired_through_sequence
  state,     \* rolling_room_state: mode, latest checkpoint, generation, lease
  cps,       \* rolling_room_checkpoints in the order of their creation
  job,       \* per reducer: the drain in progress, read before the await
  failures,  \* reductions that failed or died
  run,       \* per Run: trigger, fence, delivery, receipt
  session,   \* the Task Session on the Bridge and what its Runtime was shown
  shown      \* runs shown without a bundle so far: the Session's past

roomVars == <<last, state, cps, job, failures>>
vars == <<last, state, cps, job, failures, run, session, shown>>

Idle == [pc |-> "idle"]
NoRun == [pc |-> "none"]
Unbound == [bound |-> FALSE, cursor |-> 0, seen |-> {}]

Lesser(a, b) == IF a < b THEN a ELSE b
Greater(a, b) == IF a < b THEN b ELSE a

\* latest_through_sequence
Through(c) == IF c = 0 THEN 0 ELSE cps[c].through
latest == Through(state.latest)

Init ==
  /\ last = 0 /\ cps = <<>> /\ failures = 0
  /\ state = [mode |-> "disabled", latest |-> 0, gen |-> 0, lease |-> "none"]
  /\ job = [w \in Reducers |-> Idle]
  /\ run = [r \in Runs |-> NoRun]
  /\ session = Unbound /\ shown = FALSE

-----------------------------------------------------------------------------
(* Messages and Runs. *)

\* A Message advances the desired sequence (trigger messages_advance_...).
Post ==
  /\ last < MaxMessages /\ last' = last + 1
  /\ UNCHANGED <<state, cps, job, failures, run, session, shown>>

\* A Message that asks for a Run; the Run's fence is captured with it
\* (trigger runs_capture_context_fence).
Ask(r) ==
  /\ run[r].pc = "none" /\ last < MaxMessages
  /\ last' = last + 1
  /\ run' = [run EXCEPT ![r] = [pc |-> "queued", trigger |-> last + 1, fence |-> Len(cps)]]
  /\ UNCHANGED <<state, cps, job, failures, session, shown>>

-----------------------------------------------------------------------------
(* The reducer. *)

\* enableAll, at the start and in every sweep
enabled(s) ==
  IF s.mode = "disabled" THEN [s EXCEPT !.mode = IF s.latest = 0 THEN "backfilling" ELSE "ready"] ELSE s

\* Mutant: a lease is taken only when there is none.
leasableUnheld == last > latest /\ state.lease = "none"

\* The guard of acquireLease; listPending selects by the same cursors.
leasable == last > latest /\ state.lease \in {"none", "expired"}

\* The interval planWork chooses: the contents' sizes decide how far it goes.
fromSequence(kind) == IF kind = "rebase" THEN 0 ELSE latest
targets(kind) ==
  LET from == fromSequence(kind)
      limit == IF kind = "rebase" THEN RebaseLimit ELSE IncrementalLimit
  IN from + 1 .. Lesser(last, from + limit)

\* sweep, drainRoom up to the awaited reduction: the lease and the work are
\* read here and used when the reduction returns.
Drain(w, kind) ==
  /\ job[w].pc = "idle" /\ leasable /\ Len(cps) < MaxCheckpoints
  /\ state' = [enabled(state) EXCEPT !.gen = @ + 1, !.lease = "held"]
  /\ \E target \in targets(kind) :
       /\ kind = "rebase" => target >= latest
       /\ job' = [job EXCEPT ![w] =
                    [pc |-> "reducing", gen |-> state.gen + 1, kind |-> kind,
                     parent |-> IF kind = "rebase" THEN 0 ELSE state.latest,
                     from |-> fromSequence(kind), through |-> target]]
  /\ UNCHANGED <<last, cps, failures, run, session, shown>>

\* The work cannot be planned: a rebase that does not reach the latest
\* checkpoint.  drainRoom records the failure.
DrainRefused(w) ==
  /\ job[w].pc = "idle" /\ leasable /\ failures < MaxFailures
  /\ \E target \in targets("rebase") : target < latest
  /\ state' = [enabled(state) EXCEPT !.gen = @ + 1, !.lease = "none", !.mode = "degraded"]
  /\ failures' = failures + 1
  /\ UNCHANGED <<last, cps, job, run, session, shown>>

\* Mutant: a generation, once leased, holds until it has ended.
fencedByNone(w) == state.lease # "none"

\* The generation and the lease token a reducer holds are still the row's.
fenced(w) == state.gen = job[w].gen /\ state.lease # "none"

\* The conditions of commitCheckpoint besides the cursors of the interval,
\* which the fence implies: an expired lease commits nothing.
committable(w) ==
  /\ fenced(w) /\ state.lease = "held"
  /\ job[w].through <= last /\ job[w].through >= latest
  /\ IF job[w].kind = "incremental"
     THEN job[w].parent = state.latest /\ job[w].from = latest
     ELSE job[w].from = 0

\* Mutant: the checkpoint extends whatever checkpoint is the first.
checkpointOfFirst(w) ==
  [parent |-> IF job[w].parent > 1 THEN 1 ELSE job[w].parent,
   from |-> job[w].from, through |-> job[w].through, kind |-> job[w].kind]

checkpoint(w) ==
  [parent |-> job[w].parent, from |-> job[w].from, through |-> job[w].through, kind |-> job[w].kind]

\* The reduction returned and the checkpoint is committed.
Commit(w) ==
  /\ job[w].pc = "reducing" /\ committable(w)
  /\ cps' = Append(cps, checkpoint(w))
  /\ state' = [state EXCEPT !.mode = "ready", !.latest = Len(cps) + 1, !.lease = "none"]
  /\ job' = [job EXCEPT ![w] = Idle]
  /\ UNCHANGED <<last, failures, run, session, shown>>

\* The reduction, or its commit, failed: recordFailure, whose own fence may
\* have been lost; then the sweep ends with its error and nothing changes.
Fail(w) ==
  /\ job[w].pc = "reducing"
  /\ committable(w) => failures < MaxFailures /\ failures' = failures + 1
  /\ ~committable(w) => failures' = failures
  /\ state' = IF fenced(w) THEN [state EXCEPT !.mode = "degraded", !.lease = "none"] ELSE state
  /\ job' = [job EXCEPT ![w] = Idle]
  /\ UNCHANGED <<last, cps, run, session, shown>>

\* The server dies while it waits for the reduction.
Die(w) ==
  /\ job[w].pc = "reducing" /\ failures < MaxFailures
  /\ job' = [job EXCEPT ![w] = Idle] /\ failures' = failures + 1
  /\ UNCHANGED <<last, state, cps, run, session, shown>>

\* Sixty seconds pass.  A reduction that outlasts its lease counts as failed.
LeaseExpires ==
  LET slow == \E w \in Reducers : job[w].pc = "reducing" /\ fenced(w)
  IN /\ state.lease = "held" /\ state' = [state EXCEPT !.lease = "expired"]
     /\ slow => failures < MaxFailures
     /\ failures' = failures + IF slow THEN 1 ELSE 0
     /\ UNCHANGED <<last, cps, job, run, session, shown>>

-----------------------------------------------------------------------------
(* Planning a delivery. *)

\* latestAtOrBefore: the furthest checkpoint before the trigger that existed
\* when the Run was made, the newest of equals.
eligible(r) == {c \in 1 .. run[r].fence : cps[c].through <= run[r].trigger - 1}
latestAtOrBefore(r) ==
  LET far == Max({cps[c].through : c \in eligible(r)})
  IN Max({c \in eligible(r) : cps[c].through = far})

\* planRoomContextBundle
bundleable(r) ==
  /\ state.mode = "ready" /\ run[r].trigger > 1 /\ eligible(r) # {}
  /\ run[r].trigger - 1 - cps[latestAtOrBefore(r)].through <= RawLimit

\* ensure: the delivery is frozen with the bundle, or without it when the
\* Agent cannot take one, when a Discussion excludes Messages or when the raw
\* Messages are too many or too long.
Deliver(r, plain) ==
  /\ run[r].pc = "queued" /\ (plain \/ bundleable(r))
  /\ LET cp == IF plain THEN 0 ELSE latestAtOrBefore(r)
     IN run' = [run EXCEPT ![r] =
                  [pc |-> "delivered", trigger |-> run[r].trigger, fence |-> run[r].fence, cp |-> cp]]
  /\ UNCHANGED <<last, state, cps, job, failures, session, shown>>

-----------------------------------------------------------------------------
(* The Bridge. *)

\* Mutant: a resumed Session never takes the checkpoint.
includeCheckpointNew(r, disposition) == disposition # "resumed"

includeCheckpoint(r, disposition) ==
  disposition # "resumed" \/ cps[run[r].cp].through > session.cursor

\* prepareRoomContextForSession: where the raw Messages begin
rawFrom(r, disposition) ==
  LET through == cps[run[r].cp].through
  IN IF includeCheckpoint(r, disposition) THEN through
     ELSE Lesser(Greater(session.cursor, through), run[r].trigger - 1)

\* What the prompt shows of the Room.  Without a bundle: the recent Messages
\* after the Session's cursor and the excerpts of the projection before them.
prompt(r, disposition) ==
  LET t == run[r].trigger
      base == IF disposition = "resumed" THEN session.cursor ELSE 0
      recent == Greater(0, t - RecentLimit)
  IN {t} \cup
     IF run[r].cp = 0
     THEN (Greater(base, recent) + 1 .. t) \cup (Greater(0, recent - ProjectionLimit) + 1 .. recent)
     ELSE (rawFrom(r, disposition) + 1 .. t - 1) \cup
          IF includeCheckpoint(r, disposition) THEN 1 .. cps[run[r].cp].through ELSE {}

\* Mutant: the cursor goes past the trigger Message.
consumptionPast(r, disposition) ==
  LET base == IF disposition = "resumed" THEN session.cursor ELSE 0
      t == run[r].trigger + 1
  IN IF run[r].cp = 0 THEN [cursor |-> t]
     ELSE [cursor |-> Greater(base, t), base |-> base, rawFrom |-> rawFrom(r, disposition),
           cp |-> IF includeCheckpoint(r, disposition) THEN run[r].cp ELSE 0]

\* The receipt of a bundle and the cursor of a Run without one.
consumption(r, disposition) ==
  LET base == IF disposition = "resumed" THEN session.cursor ELSE 0
      t == run[r].trigger
  IN IF run[r].cp = 0 THEN [cursor |-> t]
     ELSE [cursor |-> Greater(base, t), base |-> base, rawFrom |-> rawFrom(r, disposition),
           cp |-> IF includeCheckpoint(r, disposition) THEN run[r].cp ELSE 0]

\* The Runtime accepts the prompt and the binding is saved.  A Session whose
\* native thread is missing is replaced and takes the whole bundle.
Accept(r, disposition) ==
  /\ run[r].pc = "delivered"
  /\ (disposition = "started") = ~session.bound
  /\ LET kept == IF disposition = "resumed" THEN session ELSE Unbound
         receipt == consumption(r, disposition)
     IN /\ session' = [bound |-> TRUE, cursor |-> Greater(kept.cursor, receipt.cursor),
                       seen |-> kept.seen \cup prompt(r, disposition)]
        /\ run' = [run EXCEPT ![r] =
                     [pc |-> IF run[r].cp = 0 THEN "ended" ELSE "ran", trigger |-> run[r].trigger,
                      cp |-> run[r].cp, disposition |-> disposition, receipt |-> receipt,
                      covered |-> 1 .. receipt.cursor \subseteq session'.seen]]
  /\ shown' = ((run[r].cp = 0) \/ (disposition = "resumed" /\ shown))
  /\ UNCHANGED roomVars

\* The thread opens, its binding is saved, and the turn fails or its answer
\* is lost: the Runtime may have the prompt, the cursor does not move.
Ambiguous(r, disposition, got) ==
  /\ run[r].pc = "delivered"
  /\ (disposition = "started") = ~session.bound
  /\ LET kept == IF disposition = "resumed" THEN session ELSE Unbound
     IN session' = [bound |-> TRUE, cursor |-> kept.cursor,
                    seen |-> kept.seen \cup IF got THEN prompt(r, disposition) ELSE {}]
  /\ run' = [run EXCEPT ![r] = [pc |-> "ended"]]
  /\ shown' = (disposition = "resumed" /\ shown)
  /\ UNCHANGED roomVars

\* The missing thread's binding is deleted and the Bridge dies before the
\* replacement is opened.
Unbind(r) ==
  /\ run[r].pc = "delivered" /\ session.bound
  /\ session' = Unbound /\ shown' = FALSE
  /\ run' = [run EXCEPT ![r] = [pc |-> "ended"]]
  /\ UNCHANGED roomVars

-----------------------------------------------------------------------------
(* The server checks the receipt. *)

\* Mutant: the expected start of the raw Messages is not clamped to their end.
expectedRawFromOpen(r, consumes) ==
  IF consumes THEN cps[run[r].cp].through
  ELSE Greater(run[r].receipt.base, cps[run[r].cp].through)

expectedRawFrom(r, consumes) ==
  IF consumes THEN cps[run[r].cp].through
  ELSE Lesser(Greater(run[r].receipt.base, cps[run[r].cp].through), run[r].trigger - 1)

\* validateRoomContextConsumption
validConsumption(r) ==
  LET rc == run[r].receipt
      consumes == run[r].disposition # "resumed" \/ cps[run[r].cp].through > rc.base
  IN /\ run[r].trigger - 1 - rc.rawFrom \in 0 .. RawLimit
     /\ rc.cursor = Greater(rc.base, run[r].trigger) /\ rc.cursor <= last
     /\ run[r].disposition \in {"started", "recreated"} => rc.base = 0
     /\ rc.cp = IF consumes THEN run[r].cp ELSE 0
     /\ rc.rawFrom = expectedRawFrom(r, consumes)

\* applyStatus with the Session's receipt: an invalid one is refused.
Report(r) ==
  /\ run[r].pc = "ran"
  /\ run' = [run EXCEPT ![r] = [pc |-> IF validConsumption(r) THEN "reported" ELSE "refused",
                                covered |-> run[r].covered]]
  /\ UNCHANGED <<last, state, cps, job, failures, session, shown>>

Next ==
  \/ Post
  \/ \E w \in Reducers :
       \/ \E kind \in {"incremental", "rebase"} : Drain(w, kind)
       \/ DrainRefused(w) \/ Commit(w) \/ Fail(w) \/ Die(w)
  \/ LeaseExpires
  \/ \E r \in Runs :
       \/ Ask(r)
       \/ \E plain \in BOOLEAN : Deliver(r, plain)
       \/ \E d \in {"started", "resumed", "recreated"} :
            Accept(r, d) \/ \E got \in BOOLEAN : Ambiguous(r, d, got)
       \/ Unbind(r)
       \/ Report(r)

Spec == Init /\ [][Next]_vars

\* Sweeps are on a timer, reductions return, leases expire.
FairSpec ==
  /\ Spec /\ WF_vars(LeaseExpires)
  /\ \A w \in Reducers : WF_vars(Drain(w, "incremental")) /\ WF_vars(Commit(w)) /\ WF_vars(Fail(w))

-----------------------------------------------------------------------------
(* Properties. *)

ContextTypeOK ==
  /\ last \in 0 .. MaxMessages /\ failures \in 0 .. MaxFailures /\ shown \in BOOLEAN
  /\ state.mode \in {"disabled", "backfilling", "ready", "degraded"}
  /\ state.lease \in {"none", "held", "expired"}
  /\ state.latest \in 0 .. Len(cps) /\ latest <= last
  /\ session.bound \in BOOLEAN /\ session.cursor \in 0 .. last /\ session.seen \subseteq 1 .. last
  /\ \A r \in Runs : run[r].pc \in
       {"none", "queued", "delivered", "ran", "ended", "reported", "refused"}

\* The Messages a checkpoint has processed, with those of the checkpoints it
\* extends.
processed ==
  LET p[c \in 0 .. Len(cps)] ==
        IF c = 0 THEN {} ELSE p[cps[c].parent] \cup (cps[c].from + 1 .. cps[c].through)
  IN p

\* ADR-0014: whichever reducers took over from one another, each committed
\* chain has processed every Message from 1 to its cursor (commitCheckpoint).
ChainCovers == \A c \in 1 .. Len(cps) : processed[c] = 1 .. cps[c].through

\* A reducer whose lease still runs is never robbed of it by another one
\* that comes back late from its own reduction (commitCheckpoint,
\* recordFailure): it ends its lease itself, or time does.
HolderKeepsLeaseStep ==
  \A w \in Reducers :
    (job[w].pc = "reducing" /\ job[w].gen = state.gen /\ state.lease = "held")
      => \/ job'[w] = Idle
         \/ state'.gen = state.gen /\ state'.lease \in {"held", "expired"}
HolderKeepsLease == [][HolderKeepsLeaseStep]_vars

\* A Session that was shown bundles only has been shown every Message up to
\* its cursor, over resumed, replaced and ambiguous turns and Runs that come
\* out of order (prepareRoomContextForSession).
CoveredSessionSawAll == ~shown => 1 .. session.cursor \subseteq session.seen

\* The Bridge and the server compute the consumption independently; the
\* server refuses no receipt the Bridge derived from the delivery
\* (validateRoomContextConsumption).
ReceiptsAccepted == \A r \in Runs : run[r].pc # "refused"

\* A Room's backlog is reduced in the end, in spite of failed reductions and
\* dead servers (sweep).
CatchesUp == <>[](latest = last \/ Len(cps) = MaxCheckpoints)

\* ADR-0014 says a legacy context cursor is never mapped to a coverage
\* receipt: a receipt the server took would then stand for Messages the
\* Session had all been shown when it was made.
ReceiptMeansCoverage ==
  \A r \in Runs : run[r].pc = "reported" => run[r].covered
=============================================================================
