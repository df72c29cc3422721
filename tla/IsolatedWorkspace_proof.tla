------------------------ MODULE IsolatedWorkspace_proof ------------------------
(***************************************************************************)
(* Proofs about IsolatedWorkspace, for any operation ids, generations and  *)
(* length of the journal.  The journal grows by one entry or stays as it   *)
(* is: Grows says what may be appended, and every invariant follows from   *)
(* it.                                                                     *)
(***************************************************************************)
EXTENDS IsolatedWorkspace, SequenceTheorems, TLAPS

Entries == [op : OperationIds, kind : Kinds, revision : Nat, expected : Generations,
            generation : Generations]
Answers == [op : OperationIds, command : Commands, revision : Nat, generation : Generations]

IsolatedTypes ==
  /\ frozen \in BOOLEAN /\ running \in BOOLEAN /\ canceled \in BOOLEAN /\ expired \in BOOLEAN
  /\ journal \in Seq(Entries)
  /\ answers \subseteq Answers

Revisions == \A i \in DOMAIN journal : journal[i].revision = i + 1

\* Only the last entry may close the lease.
OpenBeforeLast ==
  \A i \in DOMAIN journal : i # Len(journal) => journal[i].kind = "advance"

OneEntryPerOperation ==
  \A i, j \in DOMAIN journal : journal[i].op = journal[j].op => i = j

\* What was answered is still what the journal says of the operation.
AnswersAreRecorded ==
  \A x \in answers : \E i \in DOMAIN journal :
    /\ journal[i].op = x.op /\ Digest(i) = x.command
    /\ journal[i].revision = x.revision /\ journal[i].generation = x.generation

IsolatedInv ==
  /\ IsolatedTypes /\ Revisions /\ OpenBeforeLast /\ OneEntryPerOperation
  /\ GenerationsNeverReturn /\ AnswersAreRecorded

\* One entry for a new operation, accepted by the trigger and answered.
Grows ==
  \E op \in OperationIds, c \in Commands :
    /\ Recorded(op) = {} /\ Accepts(c)
    /\ journal' = Append(journal, Entry(op, c))
    /\ Answered(op, c, Entry(op, c))

\* A recorded operation is answered again.
Repeats ==
  /\ journal' = journal
  /\ \E op \in OperationIds, c \in Commands : \E i \in Recorded(op) :
       /\ Digest(i) = c
       /\ Answered(op, c, projectOperation(journal[i]))

Rests == journal' = journal /\ answers' = answers

-----------------------------------------------------------------------------
\* Every step does one of three things to the journal and the answers.
LEMMA JournalSteps ==
  ASSUME IsolatedInv, [IsolatedNext]_isolatedVars
  PROVE  /\ Grows \/ Repeats \/ Rests
         /\ frozen' \in BOOLEAN /\ running' \in BOOLEAN
         /\ canceled' \in BOOLEAN /\ expired' \in BOOLEAN
<1> USE DEF IsolatedInv, IsolatedTypes
<1>1. CASE Freeze  BY <1>1 DEF Freeze, Rests
<1>2. CASE requireRuntimeAuthority  BY <1>2 DEF requireRuntimeAuthority, Rests
<1>3. CASE CancelRun  BY <1>3 DEF CancelRun, Rests
<1>4. CASE Stop  BY <1>4 DEF Stop, Rests
<1>5. CASE Expire  BY <1>5 DEF Expire, Rests
<1>6. CASE UNCHANGED isolatedVars  BY <1>6 DEF isolatedVars, Rests
<1>7. ASSUME NEW op \in OperationIds, NEW c \in Commands,
             advanceForDevice(op, c) \/ closeForDevice(op, c)
      PROVE  /\ Grows \/ Repeats
             /\ UNCHANGED <<frozen, running, canceled, expired>>
  <2>1. append(op, c) /\ UNCHANGED <<frozen, running, canceled, expired>>
    BY <1>7 DEF advanceForDevice, closeForDevice
  <2> QED  BY <2>1 DEF append, Grows, Repeats
<1> QED  BY <1>1, <1>2, <1>3, <1>4, <1>5, <1>6, <1>7 DEF IsolatedNext

\* The entry an accepted command becomes.
LEMMA AcceptedEntry ==
  ASSUME IsolatedInv, NEW op \in OperationIds, NEW c \in Commands,
         Recorded(op) = {}, Accepts(c)
  PROVE  /\ Entry(op, c) \in Entries
         /\ Entry(op, c).revision = Len(journal) + 2
         /\ \A i \in DOMAIN journal : journal[i].kind = "advance" /\ journal[i].op # op
         /\ c.kind = "advance" =>
              /\ c.generation # First
              /\ \A i \in DOMAIN journal : journal[i].generation # c.generation
<1> USE DEF IsolatedInv, IsolatedTypes
<1>0. /\ DOMAIN journal = 1..Len(journal) /\ Len(journal) \in Nat
      /\ \A i \in 1..Len(journal) : journal[i] \in Entries
  OBVIOUS
<1>c. /\ c.kind \in Kinds /\ c.revision \in Nat /\ c.expected \in Generations
      /\ c.generation \in Generations
  BY IsolatedAssumption DEF Commands
<1>1. Entry(op, c) \in Entries  BY <1>c DEF Entry, Entries
<1>2. \A i \in DOMAIN journal : journal[i].op # op  BY DEF Recorded
<1>3. \A i \in DOMAIN journal : journal[i].kind = "advance"
  <2> SUFFICES ASSUME NEW i \in DOMAIN journal, journal[i].kind # "advance"  PROVE FALSE
    OBVIOUS
  <2>1. i = Len(journal)  BY DEF OpenBeforeLast
  <2>2. journal # <<>>  BY <1>0
  <2>3. journal[i].kind \in {"revoke", "release"}  BY <1>0 DEF Entries, Kinds
  <2>4. project.state \in {"revoked", "released"}
    BY <2>1, <2>2, <2>3 DEF project, projectOperation, State
  <2> QED  BY <2>4 DEF Accepts
<1>4. project.revision = Len(journal) + 1
  <2>1. CASE journal = <<>>  BY <2>1 DEF project
  <2>2. CASE journal # <<>>
    <3>1. Len(journal) \in DOMAIN journal  BY <2>2, <1>0
    <3>2. journal[Len(journal)].revision = Len(journal) + 1  BY <3>1 DEF Revisions
    <3> QED  BY <2>2, <3>2 DEF project, projectOperation
  <2> QED  BY <2>1, <2>2
<1>5. Entry(op, c).revision = Len(journal) + 2  BY <1>4, <1>0, <1>c DEF Accepts, Entry
<1>6. c.kind = "advance" =>
        c.generation # First /\ \A i \in DOMAIN journal : journal[i].generation # c.generation
  BY <1>3 DEF Accepts
<1> QED  BY <1>1, <1>2, <1>3, <1>5, <1>6

-----------------------------------------------------------------------------
LEMMA IsolatedInvInit == IsolatedInit => IsolatedInv
<1> SUFFICES ASSUME IsolatedInit  PROVE IsolatedInv
  OBVIOUS
<1>1. journal \in Seq(Entries) /\ DOMAIN journal = {}
  BY DEF IsolatedInit
<1> QED
  BY <1>1 DEF IsolatedInit, IsolatedInv, IsolatedTypes, Revisions, OpenBeforeLast,
       OneEntryPerOperation, GenerationsNeverReturn, AnswersAreRecorded

\* An appended entry keeps every part of the invariant.
LEMMA GrowsKeeps ==
  ASSUME IsolatedInv, Grows,
         frozen' \in BOOLEAN, running' \in BOOLEAN, canceled' \in BOOLEAN, expired' \in BOOLEAN
  PROVE  IsolatedInv'
<1> USE DEF IsolatedInv, IsolatedTypes
<1> PICK op \in OperationIds, c \in Commands :
      /\ Recorded(op) = {} /\ Accepts(c)
      /\ journal' = Append(journal, Entry(op, c))
      /\ Answered(op, c, Entry(op, c))
  BY DEF Grows
<1> DEFINE e == Entry(op, c)
<1>n. PICK n \in Nat : n = Len(journal) + 1  OBVIOUS
<1>a. /\ e \in Entries /\ e.revision = Len(journal) + 2
      /\ \A i \in DOMAIN journal : journal[i].kind = "advance" /\ journal[i].op # op
      /\ c.kind = "advance" =>
           c.generation # First /\ \A i \in DOMAIN journal : journal[i].generation # c.generation
  BY AcceptedEntry
<1>b. /\ e.op = op /\ e.kind = c.kind /\ e.expected = c.expected /\ e.generation = c.generation
      /\ e.revision = c.revision + 1
  BY DEF Entry
<1>c. /\ c.kind \in Kinds /\ c.revision \in Nat /\ c.expected \in Generations
      /\ c.generation \in Generations
      /\ c = [kind |-> c.kind, revision |-> c.revision, expected |-> c.expected,
              generation |-> c.generation]
  BY IsolatedAssumption DEF Commands
<1> HIDE DEF e
<1>j. journal' = Append(journal, e)  BY DEF e
<1>d. /\ DOMAIN journal = 1..Len(journal) /\ Len(journal) \in Nat
      /\ journal' \in Seq(Entries) /\ Len(journal') = n /\ DOMAIN journal' = 1..n
      /\ journal'[n] = e
      /\ \A i \in DOMAIN journal : i \in DOMAIN journal' /\ journal'[i] = journal[i] /\ i # n
      /\ \A i \in DOMAIN journal' : i # n => i \in DOMAIN journal
  BY <1>j, <1>a, <1>n
<1>1. answers' = answers \cup
        {[op |-> op, command |-> c, revision |-> e.revision, generation |-> e.generation]}
  BY DEF Answered, e
<1>2. answers' \subseteq Answers
  <2>1. [op |-> op, command |-> c, revision |-> e.revision, generation |-> e.generation]
          \in Answers
    BY <1>a, <1>d DEF Answers, Entries
  <2> QED  BY <1>1, <2>1
<1>3. Revisions'
  <2>1. e.revision = n + 1  BY <1>a, <1>d, <1>n
  <2> QED  BY <2>1, <1>d DEF Revisions
<1>4. OpenBeforeLast'  BY <1>a, <1>d DEF OpenBeforeLast
<1>5. OneEntryPerOperation'
  <2> SUFFICES ASSUME NEW i \in DOMAIN journal', NEW j \in DOMAIN journal',
                      journal'[i].op = journal'[j].op
               PROVE  i = j
    BY DEF OneEntryPerOperation
  <2>1. CASE i = n  BY <2>1, <1>a, <1>b, <1>d
  <2>2. CASE j = n  BY <2>2, <1>a, <1>b, <1>d
  <2>3. CASE i # n /\ j # n  BY <2>3, <1>d DEF OneEntryPerOperation
  <2> QED  BY <2>1, <2>2, <2>3
<1>6. GenerationsNeverReturn'
  <2> SUFFICES /\ \A i \in DOMAIN journal' :
                    journal'[i].kind = "advance" => journal'[i].generation # First
               /\ \A i, j \in DOMAIN journal' :
                    /\ journal'[i].kind = "advance" /\ journal'[j].kind = "advance"
                    /\ journal'[i].generation = journal'[j].generation
                    => i = j
    BY DEF GenerationsNeverReturn
  <2>1. \A i \in DOMAIN journal' :
          journal'[i].kind = "advance" => journal'[i].generation # First
    BY <1>a, <1>b, <1>d DEF GenerationsNeverReturn
  <2>2. ASSUME NEW i \in DOMAIN journal', NEW j \in DOMAIN journal',
               journal'[i].kind = "advance", journal'[j].kind = "advance",
               journal'[i].generation = journal'[j].generation
        PROVE  i = j
    <3>1. CASE i = n  BY <3>1, <2>2, <1>a, <1>b, <1>d
    <3>2. CASE j = n  BY <3>2, <2>2, <1>a, <1>b, <1>d
    <3>3. CASE i # n /\ j # n  BY <3>3, <2>2, <1>d DEF GenerationsNeverReturn
    <3> QED  BY <3>1, <3>2, <3>3
  <2> QED  BY <2>1, <2>2
<1>7. AnswersAreRecorded'
  <2> SUFFICES ASSUME NEW x \in answers'
               PROVE  \E i \in DOMAIN journal' :
                        /\ journal'[i].op = x.op /\ Digest(i)' = x.command
                        /\ journal'[i].revision = x.revision
                        /\ journal'[i].generation = x.generation
    BY DEF AnswersAreRecorded
  <2>1. CASE x \in answers
    <3> PICK i \in DOMAIN journal :
          /\ journal[i].op = x.op /\ Digest(i) = x.command
          /\ journal[i].revision = x.revision /\ journal[i].generation = x.generation
      BY <2>1 DEF AnswersAreRecorded
    <3>1. i \in DOMAIN journal' /\ journal'[i] = journal[i]  BY <1>d
    <3>2. Digest(i)' = Digest(i)  BY <3>1 DEF Digest
    <3> QED  BY <3>1, <3>2
  <2>2. CASE x = [op |-> op, command |-> c, revision |-> e.revision, generation |-> e.generation]
    <3>1. n \in DOMAIN journal' /\ journal'[n] = e  BY <1>d, <1>n
    <3>2. e.revision - 1 = c.revision  BY <1>b, <1>c
    <3>3. Digest(n)' = c  BY <3>1, <3>2, <1>b, <1>c DEF Digest
    <3> QED  BY <2>2, <3>1, <3>3, <1>b
  <2> QED  BY <1>1, <2>1, <2>2
<1> QED  BY <1>2, <1>3, <1>4, <1>5, <1>6, <1>7, <1>d

\* A repeated answer is the recorded one.
LEMMA RepeatsKeeps ==
  ASSUME IsolatedInv, Repeats,
         frozen' \in BOOLEAN, running' \in BOOLEAN, canceled' \in BOOLEAN, expired' \in BOOLEAN
  PROVE  IsolatedInv'
<1> USE DEF IsolatedInv, IsolatedTypes
<1>1. PICK op \in OperationIds, c \in Commands : \E i \in Recorded(op) :
        Digest(i) = c /\ Answered(op, c, projectOperation(journal[i]))
  BY DEF Repeats
<1>2. PICK k \in Recorded(op) : Digest(k) = c /\ Answered(op, c, projectOperation(journal[k]))
  BY <1>1
<1>3. k \in DOMAIN journal /\ journal[k].op = op /\ journal[k] \in Entries
  BY DEF Recorded
<1>4. answers' = answers \cup
        {[op |-> op, command |-> c, revision |-> journal[k].revision,
          generation |-> journal[k].generation]}
  BY <1>2 DEF Answered, projectOperation
<1>5. journal' = journal  BY DEF Repeats
<1>6. [op |-> op, command |-> c, revision |-> journal[k].revision,
       generation |-> journal[k].generation] \in Answers
  BY <1>3 DEF Answers, Entries
<1>7. \A i \in DOMAIN journal : Digest(i)' = Digest(i)  BY <1>5 DEF Digest
<1>8. AnswersAreRecorded'
  BY <1>2, <1>3, <1>4, <1>5, <1>7 DEF AnswersAreRecorded
<1> QED
  BY <1>4, <1>5, <1>6, <1>8
     DEF Revisions, OpenBeforeLast, OneEntryPerOperation, GenerationsNeverReturn

LEMMA IsolatedInvNext == IsolatedInv /\ [IsolatedNext]_isolatedVars => IsolatedInv'
<1> SUFFICES ASSUME IsolatedInv, [IsolatedNext]_isolatedVars  PROVE IsolatedInv'
  OBVIOUS
<1>1. CASE Grows  BY <1>1, JournalSteps, GrowsKeeps
<1>2. CASE Repeats  BY <1>2, JournalSteps, RepeatsKeeps
<1>3. CASE Rests
  BY <1>3, JournalSteps
     DEF Rests, IsolatedInv, IsolatedTypes, Revisions, OpenBeforeLast, OneEntryPerOperation,
         GenerationsNeverReturn, AnswersAreRecorded, Digest
<1> QED  BY <1>1, <1>2, <1>3, JournalSteps

\* The inductive invariant holds in every reachable state.
THEOREM IsolatedInvHolds == IsolatedSpec => []IsolatedInv
BY IsolatedInvInit, IsolatedInvNext, PTL DEF IsolatedSpec

-----------------------------------------------------------------------------
\* The generation of a lease never comes back to one it left, the first
\* included, for any number of advances (append and its unique index).
THEOREM IsolatedGenerations == IsolatedSpec => []GenerationsNeverReturn
<1>1. IsolatedInv => GenerationsNeverReturn  BY DEF IsolatedInv
<1> QED  BY <1>1, IsolatedInvHolds, PTL

\* An operation has one entry and one answer, however often and however late
\* its command is repeated (append's replay by operation id and digest).
THEOREM IsolatedReplays == IsolatedSpec => []ReplaysAnswerAlike
<1>1. ASSUME IsolatedInv  PROVE ReplaysAnswerAlike
  <2> USE <1>1 DEF IsolatedInv, IsolatedTypes
  <2>1. ASSUME NEW x \in answers, NEW y \in answers, x.op = y.op  PROVE x = y
    <3>1. PICK i \in DOMAIN journal :
            /\ journal[i].op = x.op /\ Digest(i) = x.command
            /\ journal[i].revision = x.revision /\ journal[i].generation = x.generation
      BY DEF AnswersAreRecorded
    <3>2. PICK j \in DOMAIN journal :
            /\ journal[j].op = y.op /\ Digest(j) = y.command
            /\ journal[j].revision = y.revision /\ journal[j].generation = y.generation
      BY DEF AnswersAreRecorded
    <3>3. i = j  BY <2>1, <3>1, <3>2 DEF OneEntryPerOperation
    <3>4. x \in Answers /\ y \in Answers  OBVIOUS
    <3> QED  BY <2>1, <3>1, <3>2, <3>3, <3>4 DEF Answers
  <2> QED  BY <2>1 DEF ReplaysAnswerAlike, OneEntryPerOperation
<1> QED  BY <1>1, IsolatedInvHolds, PTL

\* A revoked or released lease takes no further operation
\* (isolated_workspace_operation_cas).
THEOREM IsolatedClosedIsFinal == IsolatedSpec => ClosedIsFinal
<1>1. ASSUME IsolatedInv, [IsolatedNext]_isolatedVars,
             NEW k \in DOMAIN journal, journal[k].kind # "advance"
      PROVE  journal' = journal
  <2>1. CASE Grows
    BY <1>1, <2>1, AcceptedEntry DEF Grows
  <2> QED  BY <1>1, <2>1, JournalSteps DEF Repeats, Rests
<1>2. IsolatedInv /\ [IsolatedNext]_isolatedVars =>
        [(\E i \in DOMAIN journal : journal[i].kind # "advance") => journal' = journal]_isolatedVars
  BY <1>1
<1> QED  BY <1>2, IsolatedInvHolds, PTL DEF IsolatedSpec, ClosedIsFinal

\* Runtime authority is given only in the untouched Workspace of a Run that
\* still runs: before any advance, close, cancellation or expiry
\* (requireRuntimeAuthority).
THEOREM IsolatedAuthority == IsolatedSpec => AuthorityIsFirstAndOpen
<1>1. ASSUME IsolatedInv, [IsolatedNext]_isolatedVars, granted' # granted, granted' # NoAuthority
      PROVE  journal = <<>> /\ ~canceled /\ running /\ ~expired /\ frozen
  <2> USE <1>1 DEF IsolatedInv, IsolatedTypes
  <2>1. requireRuntimeAuthority
    <3>1. ~(Freeze \/ CancelRun \/ Stop \/ Expire \/ UNCHANGED isolatedVars)
      BY DEF Freeze, CancelRun, Stop, Expire, isolatedVars
    <3>2. ~(\E op \in OperationIds, c \in Commands :
              advanceForDevice(op, c) \/ closeForDevice(op, c))
      BY DEF advanceForDevice, closeForDevice
    <3> QED  BY <3>1, <3>2 DEF IsolatedNext
  <2>2. Authority  BY <2>1 DEF requireRuntimeAuthority
  <2>3. frozen /\ running /\ ~canceled /\ project.state = "active" /\ project.generation = First
    BY <2>2 DEF Authority, requireActiveForDevice
  <2>4. journal = <<>>
    <3> SUFFICES ASSUME journal # <<>>  PROVE FALSE
      OBVIOUS
    <3> DEFINE last == journal[Len(journal)]
    <3>1. Len(journal) \in DOMAIN journal /\ last \in Entries  OBVIOUS
    <3>2. project = projectOperation(last)  BY DEF project
    <3> HIDE DEF last
    <3>3. State(last) = "active" /\ last.generation = First
      BY <3>2, <2>3 DEF projectOperation
    <3>4. last.kind = "advance"  BY <3>1, <3>3 DEF State, Entries, Kinds
    <3> QED  BY <3>1, <3>3, <3>4 DEF GenerationsNeverReturn, last
  <2>5. ~expired  BY <2>3, <2>4 DEF project
  <2> QED  BY <2>3, <2>4, <2>5
<1>2. IsolatedInv /\ [IsolatedNext]_isolatedVars =>
        [granted' # granted /\ granted' # NoAuthority =>
           journal = <<>> /\ ~canceled /\ running /\ ~expired /\ frozen]_isolatedVars
  BY <1>1
<1> QED  BY <1>2, IsolatedInvHolds, PTL DEF IsolatedSpec, AuthorityIsFirstAndOpen
=============================================================================
