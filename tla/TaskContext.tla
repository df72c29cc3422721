----------------------------- MODULE TaskContext -----------------------------
(***************************************************************************)
(* Long-term memory and result evidence of one Task as its Runs get them.  *)
(*                                                                         *)
(* Members create, supersede and retract memory entries of a scope and     *)
(* review the candidates a reducer suggests; every change takes the next   *)
(* revision of the scope and leaves a lifecycle event                      *)
(* (long-term-memory-service.ts, memory-entry-repository.ts,               *)
(* memory-candidate-service.ts).  Artifacts take the Task's artifact       *)
(* revisions (task-artifact-service.ts).  A Run is fenced at the revisions *)
(* it was made under and planned later, at its delivery                    *)
(* (context-planner.ts); the Bridge's Session drops what it has and        *)
(* acknowledges the evidence page it took                                  *)
(* (session_scope.go, result-evidence-consumption-repository.ts).          *)
(***************************************************************************)
EXTENDS Integers, FiniteSetsExt

CONSTANTS
  Entries,       \* ids of memory entries
  Candidates,    \* fingerprints of suggested memory
  Runs,          \* Runs of one Agent in one Task
  MaxArtifacts,  \* bound on the artifact revision
  PageLimit      \* 20 references a page

TaskContextBounds == MaxArtifacts \in Nat /\ PageLimit \in Nat \ {0}

VARIABLES
  revision,    \* memory revision of the scope
  entry,       \* per id: state, revision, what it supersedes
  events,      \* memory_entry_lifecycle_events
  cand,        \* per fingerprint: state of the candidate and its entry
  artifacts,   \* artifact revision of the Task
  consumed,    \* task_result_evidence_consumption, -1 before the first
  posted,      \* Messages that asked for Runs
  projection,  \* room_memory_projections: source cursor and revision
  run,         \* per Run: its fence, its frozen context, its report
  session      \* the Task Session on the Bridge

memoryVars == <<revision, entry, events, cand>>
vars == <<revision, entry, events, cand, artifacts, consumed, posted, projection, run, session>>

NoEntry == [state |-> "none"]
Unbound == [bound |-> FALSE, replaced |-> FALSE, evidence |-> 0, base |-> 0, seen |-> {}]

Init ==
  /\ revision = 0 /\ entry = [e \in Entries |-> NoEntry] /\ events = {}
  /\ cand = [c \in Candidates |-> [state |-> "none"]]
  /\ artifacts = 0 /\ consumed = -1 /\ posted = 0
  /\ projection = [cursor |-> 0, revision |-> 0]
  /\ run = [r \in Runs |-> [pc |-> "none"]]
  /\ session = Unbound

-----------------------------------------------------------------------------
(* Memory entries. *)

Unused == {e \in Entries : entry[e].state = "none"}
fresh == CHOOSE e \in Entries : entry[e].state = "none"
active == {e \in Entries : entry[e].state = "active"}

\* Mutant: an entry replaced before can be replaced again.
supersedableAgain == {e \in Entries : entry[e].state \in {"active", "superseded"}}

\* What a new entry may supersede: an active entry of the scope.
supersedable == active

\* Mutant: a supersession takes one revision for its two events.
advanceScopeOnce(old) == revision + 1

\* advanceScope: a supersession takes two revisions.
advanceScope(old) == revision + IF old = {} THEN 1 ELSE 2

\* MemoryEntryRepository.create with its lifecycle events; old is empty or
\* the one entry that is superseded, at the revision before the new one's.
created(old) ==
  LET next == advanceScope(old)
  IN /\ revision' = next
     /\ entry' = [e \in Entries |->
          IF e = fresh THEN [state |-> "active", rev |-> next, supersedes |-> old]
          ELSE IF e \in old THEN [entry[e] EXCEPT !.state = "superseded", !.rev = next - 1]
          ELSE entry[e]]
     /\ events' = events \cup {<<fresh, next, "active">>} \cup {<<e, next - 1, "superseded">> : e \in old}

\* LongTermMemoryService.createRoom, createTask
CreateEntry(old) ==
  /\ Unused # {} /\ created(old) /\ UNCHANGED <<cand, artifacts, consumed, posted, projection, run, session>>

\* LongTermMemoryService.retract
Retract(e) ==
  /\ entry[e].state = "active"
  /\ revision' = revision + 1
  /\ entry' = [entry EXCEPT ![e].state = "retracted", ![e].rev = revision + 1]
  /\ events' = events \cup {<<e, revision + 1, "retracted">>}
  /\ UNCHANGED <<cand, artifacts, consumed, posted, projection, run, session>>

\* persistSuggestions: all of a checkpoint's suggestions or, when one of them
\* is out of its scope, none; a fingerprint already there is left alone.
Persist(batch) ==
  /\ batch # {} /\ \E c \in batch : cand[c].state = "none"
  /\ cand' = [c \in Candidates |->
       IF c \in batch /\ cand[c].state = "none" THEN [state |-> "pending"] ELSE cand[c]]
  /\ UNCHANGED <<revision, entry, events, artifacts, consumed, posted, projection, run, session>>

\* Mutant: a candidate that was reviewed can be accepted again.
acceptableAgain(c) == cand[c].state \in {"pending", "accepted"}

\* The candidates accept turns into an entry; an accepted one is returned as
\* it is, a rejected one is refused.
acceptable(c) == cand[c].state = "pending"

Accept(c) ==
  /\ acceptable(c) /\ Unused # {} /\ created({})
  /\ cand' = [cand EXCEPT ![c] = [state |-> "accepted", memory |-> fresh]]
  /\ UNCHANGED <<artifacts, consumed, posted, projection, run, session>>

Reject(c) ==
  /\ cand[c].state = "pending"
  /\ cand' = [cand EXCEPT ![c] = [state |-> "rejected"]]
  /\ UNCHANGED <<revision, entry, events, artifacts, consumed, posted, projection, run, session>>

-----------------------------------------------------------------------------
(* Artifacts and Runs. *)

\* TaskArtifactService.create, ArtifactRepository.create
CreateArtifact ==
  /\ artifacts < MaxArtifacts /\ artifacts' = artifacts + 1
  /\ UNCHANGED <<revision, entry, events, cand, consumed, posted, projection, run, session>>

\* A Run is made with the fence of the moment.
Ask(r) ==
  /\ run[r].pc = "none" /\ posted' = posted + 1
  /\ run' = [run EXCEPT ![r] = [pc |-> "queued", trigger |-> posted + 1, memory |-> revision,
                                artifacts |-> artifacts, snapshot |-> active]]
  /\ UNCHANGED <<revision, entry, events, cand, artifacts, consumed, projection, session>>

\* Mutant: the newest state of an entry stands for its state at the fence.
stateAtNow(e, rev) ==
  IF \E v \in events : v[1] = e /\ v[2] <= rev THEN entry[e].state ELSE "none"

\* contextScopeAtRevision: the state of an entry by its last event up to rev.
stateAt(e, rev) ==
  LET past == {v \in events : v[1] = e /\ v[2] <= rev}
  IN IF past = {} THEN "none"
     ELSE (CHOOSE v \in past : \A u \in past : u[2] <= v[2])[3]

memoryAt(rev) == {e \in Entries : stateAt(e, rev) = "active"}

\* Mutant: a page is not cut at the fence.
evidencePagePast(r) ==
  LET through == run[r].artifacts
      delta == consumed \in 0 .. through
      first == Max({0, through - PageLimit})
  IN IF through = 0 THEN [kind |-> "none"]
     ELSE IF delta THEN [kind |-> "delta", from |-> consumed, through |-> consumed + PageLimit]
     ELSE [kind |-> "bootstrap", from |-> first, through |-> through]

\* planResultEvidence: the page after the consumed revision, or the newest
\* references when the scope has consumed none.
evidencePage(r) ==
  LET through == run[r].artifacts
      delta == consumed \in 0 .. through
      last == Min({consumed + PageLimit, through})
      first == Max({0, through - PageLimit})
  IN IF through = 0 \/ (delta /\ consumed = through) THEN [kind |-> "none"]
     ELSE IF delta THEN [kind |-> "delta", from |-> consumed, through |-> last]
     ELSE [kind |-> "bootstrap", from |-> first, through |-> through]

\* Mutant: a projection older than the stored one is not called historical.
historicalNever(cursor) == FALSE

\* projectRoom: a plan behind the stored projection is historical.
historical(cursor) == projection.cursor > cursor

\* projectRoom stores a projection that is not behind and differs.
projectRoom(cursor) ==
  IF cursor >= projection.cursor /\ (projection.revision = 0 \/ cursor # projection.cursor)
  THEN [cursor |-> cursor, revision |-> projection.revision + 1]
  ELSE projection

\* ensure and plan: the delivery is frozen.
Plan(r) ==
  /\ run[r].pc = "queued"
  /\ LET cursor == run[r].trigger - 1
         proj == projectRoom(cursor)
     IN /\ projection' = proj
        /\ run' = [run EXCEPT ![r] =
             [pc |-> "delivered", snapshot |-> run[r].snapshot, active |-> memoryAt(run[r].memory),
              page |-> evidencePage(r), room |-> cursor, roomRevision |-> proj.revision,
              current |-> ~historical(cursor), newest |-> run[r].artifacts]]
  /\ UNCHANGED <<revision, entry, events, cand, artifacts, consumed, posted, session>>

-----------------------------------------------------------------------------
(* The Bridge. *)

\* Mutant: a page that does not continue the Session's is taken.
cursorGapNever(r) == FALSE

\* hasResultEvidenceCursorGap
cursorGap(r) ==
  /\ run[r].page.kind = "delta" /\ run[r].page.through > session.evidence
  /\ run[r].page.from # session.evidence

\* contextDeltaForSession: what a resumed Session takes of the page
takes(r) ==
  \/ run[r].page.kind = "delta" /\ run[r].page.from = session.evidence /\ run[r].page.through > session.evidence
  \/ run[r].page.kind = "bootstrap" /\ run[r].page.through > session.evidence

\* The Session after a page: a bootstrap page starts what it has seen.
afterPage(s, page) ==
  [bound |-> TRUE, replaced |-> s.replaced, evidence |-> page.through,
   base |-> IF page.kind = "bootstrap" THEN page.from ELSE s.base,
   seen |-> s.seen \cup (page.from + 1 .. page.through)]

\* The Run fails before its Runtime starts.
Gap(r) ==
  /\ run[r].pc = "delivered" /\ cursorGap(r)
  /\ run' = [run EXCEPT ![r].pc = "failed"]
  /\ UNCHANGED <<revision, entry, events, cand, artifacts, consumed, posted, projection, session>>

\* The Runtime accepts the prompt and the binding is saved; a thread that is
\* missing is replaced and its plan is the whole delivery.
Execute(r, recreated) ==
  /\ run[r].pc = "delivered" /\ ~cursorGap(r) /\ (recreated => session.bound)
  /\ LET page == run[r].page
         kept == IF recreated THEN [Unbound EXCEPT !.replaced = TRUE] ELSE session
         new == IF page.kind # "none" /\ (~session.bound \/ recreated \/ takes(r))
                THEN afterPage(kept, page) ELSE [kept EXCEPT !.bound = TRUE]
     IN /\ session' = new
        /\ run' = [run EXCEPT ![r] =
             [pc |-> "ran", snapshot |-> run[r].snapshot, active |-> run[r].active,
              page |-> page, room |-> run[r].room, roomRevision |-> run[r].roomRevision,
              current |-> run[r].current, reports |-> new.evidence,
              whole |-> (session.bound /\ ~recreated) \/
                        Max({0, run[r].newest - PageLimit}) + 1 .. run[r].newest \subseteq new.seen]]
  /\ UNCHANGED <<revision, entry, events, cand, artifacts, consumed, posted, projection>>

\* The Bridge loses the binding of a missing thread, or its whole state.
LoseSession ==
  /\ session.bound /\ session' = Unbound
  /\ UNCHANGED <<revision, entry, events, cand, artifacts, consumed, posted, projection, run>>

-----------------------------------------------------------------------------
(* The acknowledgement. *)

\* Mutant: any revision is acknowledged.
validAcknowledgementAny(r) == TRUE

\* validateAcknowledgement: not beyond what is acknowledged, or exactly the
\* page of the Run's own delivery.
validAcknowledgement(r) ==
  \/ run[r].reports <= Max({consumed, 0})
  \/ run[r].page.kind # "none" /\ run[r].page.through = run[r].reports

\* applyStatus: the report is refused, and comes again, or acknowledged.
Report(r) ==
  /\ run[r].pc = "ran" /\ validAcknowledgement(r)
  /\ run' = [run EXCEPT ![r].pc = "reported"]
  /\ consumed' = IF run[r].reports > Max({consumed, 0}) THEN run[r].reports ELSE consumed
  /\ UNCHANGED <<revision, entry, events, cand, artifacts, posted, projection, session>>

Next ==
  \/ \E old \in {{}} \cup {{e} : e \in supersedable} : CreateEntry(old)
  \/ \E e \in Entries : Retract(e)
  \/ \E batch \in SUBSET Candidates : Persist(batch)
  \/ \E c \in Candidates : Accept(c) \/ Reject(c)
  \/ CreateArtifact
  \/ \E r \in Runs : Ask(r) \/ Plan(r) \/ Gap(r) \/ Report(r)
  \/ \E r \in Runs, recreated \in BOOLEAN : Execute(r, recreated)
  \/ LoseSession

Spec == Init /\ [][Next]_vars

-----------------------------------------------------------------------------
(* Properties. *)

TaskContextTypeOK ==
  /\ revision \in Nat /\ artifacts \in 0 .. MaxArtifacts /\ consumed \in -1 .. artifacts
  /\ \A e \in Entries : entry[e].state \in {"none", "active", "superseded", "retracted"}
  /\ \A c \in Candidates : cand[c].state \in {"none", "pending", "accepted", "rejected"}
  /\ \A r \in Runs : run[r].pc \in {"none", "queued", "delivered", "failed", "ran", "reported"}
  /\ session.evidence \in 0 .. artifacts

\* A Run planned late gets exactly the entries that were active when it was
\* made, whatever was superseded, retracted or accepted in between
\* (runs_capture_context_fence, contextScopeAtRevision).
MemoryAsOfFence ==
  \A r \in Runs : run[r].pc \in {"delivered", "ran", "reported"} => run[r].active = run[r].snapshot

\* No two lifecycle events of a scope share a revision: the second would be
\* refused by the table and take the Member's change with it.
RevisionsNameEvents ==
  \A u, v \in events : u[2] = v[2] => u = v

\* An entry has at most one successor, and exactly one once it is superseded
\* (create: the target must still be active).
OneSuccessor ==
  \A e \in Entries :
    Cardinality({f \in Entries : entry[f].state # "none" /\ e \in entry[f].supersedes}) =
      IF entry[e].state = "superseded" THEN 1 ELSE 0

\* A candidate is reviewed once: a second acceptance, or a rejection that
\* comes after it, leaves the review and its entry as they are
\* (MemoryCandidateService.accept).
ReviewedOnceStep ==
  \A c \in Candidates : cand[c].state \in {"accepted", "rejected"} => cand'[c] = cand[c]
ReviewedOnce == [][ReviewedOnceStep]_vars

\* A Session has seen every reference from its bootstrap page up to its
\* revision, in spite of Runs out of order and lost bindings, unless its
\* thread was replaced (hasResultEvidenceCursorGap).
EvidenceWithoutGap ==
  ~session.replaced => session.base + 1 .. session.evidence \subseteq session.seen

\* The server's cursor only rests on a page it delivered, never on what a
\* Session came to by another Run (validateAcknowledgement).
AcknowledgedWasDelivered ==
  consumed > 0 => \E r \in Runs : run[r].pc = "reported" /\ run[r].page.kind # "none"
                                  /\ run[r].page.through = consumed

\* Deliveries that carry one revision of the Room projection as current carry
\* the same projection: the Bridge drops a revision it has (projectRoom).
RevisionNamesProjection ==
  LET planned == {r \in Runs : run[r].pc \in {"delivered", "ran", "reported"} /\ run[r].current}
  IN \A p, q \in planned : run[p].roomRevision = run[q].roomRevision => run[p].room = run[q].room

\* docs/modules/runtime-adapters.md: a new or recreated Codex Thread receives
\* the complete bootstrap plan, so the newest references up to the fence.
NewThreadHasBootstrap ==
  \A r \in Runs : run[r].pc = "ran" => run[r].whole
=============================================================================
