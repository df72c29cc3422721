--------------------------- MODULE IsolatedWorkspace ---------------------------
(***************************************************************************)
(* The isolated Workspace of a governed attempt: workspace/isolated-        *)
(* workspace-lease-service.ts with the tables and triggers of migration     *)
(* 0061.  A reservation is immutable; advances of its generation,           *)
(* revocation and release are appended to a journal by operations that the  *)
(* Repository adapter may repeat, late or changed; the Bridge asks for       *)
(* runtime authority just before it starts a process.                       *)
(*                                                                         *)
(* One lease.  A command may be made from a state other commands have left  *)
(* behind long ago.                                                         *)
(***************************************************************************)
EXTENDS Naturals, Sequences, FiniteSets

CONSTANTS OperationIds,   \* operation ids
          Generations,  \* generations a capture may report
          First,        \* the generation of the reservation
          MaxJournal    \* bound on the journal

ASSUME IsolatedAssumption ==
  /\ IsFiniteSet(OperationIds) /\ IsFiniteSet(Generations) /\ First \in Generations
  /\ MaxJournal \in Nat

VARIABLES frozen,     \* has the Run its manifest, the one the reservation names?
          running,    \* does requireScope find the plan, Task, Run and Agent as pinned?
          canceled,   \* is there a row in run_cancellation_intents?
          expired,    \* has expires_at passed?
          journal,    \* isolated_workspace_operations, by revision
          answers,    \* what an operation was answered, as a set
          granted     \* the runtime authority the last request was given

isolatedVars == <<frozen, running, canceled, expired, journal, answers, granted>>

Kinds == {"advance", "revoke", "release"}
Commands == [kind : Kinds, revision : 1..(MaxJournal + 1), expected : Generations,
             generation : Generations]
NoAuthority == [revision |-> 0]

-----------------------------------------------------------------------------
\* projectOperation
State(entry) ==
  CASE entry.kind = "revoke"  -> "revoked"
    [] entry.kind = "release" -> "released"
    [] OTHER                  -> IF expired THEN "expired" ELSE "active"
projectOperation(entry) ==
  [revision |-> entry.revision, generation |-> entry.generation, state |-> State(entry)]

\* project: the last operation, or the reservation itself.
project ==
  IF journal = <<>>
  THEN [revision |-> 1, generation |-> First, state |-> IF expired THEN "expired" ELSE "active"]
  ELSE projectOperation(journal[Len(journal)])

\* requireActiveForDevice: manifest, scope, time and lifecycle.
requireActiveForDeviceOpen == frozen /\ running /\ ~expired
requireActiveForDevice == frozen /\ running /\ project.state = "active"

\* An operation already recorded.
Recorded(op) == {i \in DOMAIN journal : journal[i].op = op}
Digest(i) == [kind |-> journal[i].kind, revision |-> journal[i].revision - 1,
              expected |-> journal[i].expected, generation |-> journal[i].generation]

\* append, with the trigger isolated_workspace_operation_cas and the index
\* isolated_workspace_generation_once.
AcceptsReturning(c) ==
  /\ c.kind = "advance" => project.state = "active" /\ c.generation # project.generation
  /\ project.state \notin {"released", "revoked"}
  /\ project.revision = c.revision /\ project.generation = c.expected
AcceptsClosed(c) ==
  /\ c.kind = "advance" => /\ project.state = "active" /\ c.generation # project.generation
                           /\ c.generation # First
  /\ project.revision = c.revision /\ project.generation = c.expected
Accepts(c) ==
  /\ c.kind = "advance" =>
       /\ project.state = "active"
       /\ c.generation \notin {project.generation, First}
       /\ \A i \in DOMAIN journal : journal[i].kind = "advance" => journal[i].generation # c.generation
  /\ project.state \notin {"released", "revoked"}
  /\ project.revision = c.revision /\ project.generation = c.expected

EntrySame(op, c) == [op |-> op, kind |-> c.kind, revision |-> c.revision, expected |-> c.expected,
                     generation |-> c.generation]
Entry(op, c) == [op |-> op, kind |-> c.kind, revision |-> c.revision + 1, expected |-> c.expected,
                 generation |-> c.generation]

Answered(op, c, view) ==
  answers' = answers \cup {[op |-> op, command |-> c, revision |-> view.revision,
                            generation |-> view.generation]}

\* append, of a command admitted by advanceForDevice or closeForDevice: the
\* same command is answered as it was, another of the same id is refused.
appendAgain(op, c) ==
  /\ Accepts(c) /\ Len(journal) < MaxJournal
  /\ journal' = Append(journal, Entry(op, c))
  /\ Answered(op, c, Entry(op, c))
append(op, c) ==
  \/ \E i \in Recorded(op) :
       /\ Digest(i) = c
       /\ Answered(op, c, projectOperation(journal[i]))
       /\ UNCHANGED journal
  \/ /\ Recorded(op) = {} /\ Accepts(c) /\ Len(journal) < MaxJournal
     /\ journal' = Append(journal, Entry(op, c))
     /\ Answered(op, c, Entry(op, c))

-----------------------------------------------------------------------------
IsolatedInit ==
  /\ frozen = FALSE /\ running = TRUE /\ canceled = FALSE /\ expired = FALSE
  /\ journal = <<>>
  /\ answers = {}
  /\ granted = NoAuthority

\* The Run's manifest is frozen in the transaction that reserved.
Freeze ==
  /\ ~frozen
  /\ frozen' = TRUE
  /\ UNCHANGED <<running, canceled, expired, journal, answers, granted>>

\* A command arrives, for the first time or again, made from whatever its
\* sender knew of the journal, perhaps long ago.
advanceForDevice(op, c) ==
  /\ c.kind = "advance" /\ c.expected # c.generation
  /\ requireActiveForDevice
  /\ append(op, c)
  /\ UNCHANGED <<frozen, running, canceled, expired, granted>>

\* Closing needs no scope: it only takes authority away.
closeForDevice(op, c) ==
  /\ c.kind # "advance" /\ c.expected = c.generation
  /\ append(op, c)
  /\ UNCHANGED <<frozen, running, canceled, expired, granted>>

\* requireRuntimeAuthority, for the generation of the reservation.
AuthorityAnyGeneration == requireActiveForDevice /\ ~canceled
Authority == requireActiveForDevice /\ ~canceled /\ project.generation = First
requireRuntimeAuthority ==
  /\ granted' = IF Authority THEN project ELSE NoAuthority
  /\ UNCHANGED <<frozen, running, canceled, expired, journal, answers>>

\* A member cancels, the Run ends or drifts from its pins, time passes.
CancelRun == ~canceled /\ canceled' = TRUE
          /\ UNCHANGED <<frozen, running, expired, journal, answers, granted>>
Stop == running /\ running' = FALSE
        /\ UNCHANGED <<frozen, canceled, expired, journal, answers, granted>>
Expire == ~expired /\ expired' = TRUE
          /\ UNCHANGED <<frozen, running, canceled, journal, answers, granted>>

IsolatedNext ==
  \/ Freeze \/ requireRuntimeAuthority \/ CancelRun \/ Stop \/ Expire
  \/ \E op \in OperationIds, c \in Commands : advanceForDevice(op, c) \/ closeForDevice(op, c)

IsolatedSpec == IsolatedInit /\ [][IsolatedNext]_isolatedVars

-----------------------------------------------------------------------------
(***************************************************************************)
(* Properties.                                                             *)
(***************************************************************************)

\* The journal's revisions count up from 2 and its entries have their shape.
IsolatedTypeOK ==
  /\ <<frozen, running, canceled, expired>> \in BOOLEAN \X BOOLEAN \X BOOLEAN \X BOOLEAN
  /\ \A i \in DOMAIN journal :
       /\ journal[i].op \in OperationIds /\ journal[i].kind \in Kinds
       /\ journal[i].revision = i + 1
  /\ \A x \in answers : x.op \in OperationIds /\ x.command \in Commands

\* A generation that was left never comes back, not even the first, so an
\* operation that expects it can never match again (append, the comment of
\* workspace-coordination.md on stale operations).
GenerationsNeverReturn ==
  LET advances == {i \in DOMAIN journal : journal[i].kind = "advance"} IN
  /\ \A i \in advances : journal[i].generation # First
  /\ \A i, j \in advances : journal[i].generation = journal[j].generation => i = j

\* One operation has one effect and one answer, however often its command is
\* delivered and whatever was recorded in between (append's replay).
ReplaysAnswerAlike ==
  /\ \A i, j \in DOMAIN journal : journal[i].op = journal[j].op => i = j
  /\ \A x, y \in answers : x.op = y.op => x = y

\* Revoked and released leases stay closed, and a process is authorised only in
\* the untouched Workspace: authority is never given after an advance, a close,
\* a cancellation, a change of scope or expiry (requireRuntimeAuthority).
AuthorityIsFirstAndOpen ==
  [][ granted' # granted /\ granted' # NoAuthority =>
        journal = <<>> /\ ~canceled /\ running /\ ~expired /\ frozen ]_isolatedVars

\* A closed lease takes no further operation (isolated_workspace_operation_cas).
ClosedIsFinal ==
  [][ (\E i \in DOMAIN journal : journal[i].kind # "advance") => journal' = journal ]_isolatedVars
=============================================================================
