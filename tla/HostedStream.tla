---------------------------- MODULE HostedStream ----------------------------
(***************************************************************************)
(* One streamed answer of a model provider, from the HTTP request to the   *)
(* Run it ends: HostedOpenAIResponsesAdapter.execute checks every event    *)
(* against the ones before it and projects the text through a redactor,    *)
(* InProcessRunExecutor applies what it yields to the Run.                 *)
(*                                                                         *)
(* The provider may send any event at any time.  An event that the adapter *)
(* refuses ends the Run, so a refused event of any shape is one step.      *)
(* Output text and refusals are one kind of text.  Its redaction           *)
(* (security/redaction.ts) has one rule, of the shape of the ghp_ rule: a  *)
(* marker "g_", whose first letter may also occur in a value, followed by  *)
(* at least MinValue letters "g".  "x" stands for everything else and "R"  *)
(* for "[REDACTED]".                                                       *)
(***************************************************************************)
EXTENDS Naturals, Sequences, FiniteSets, SequencesExt

CONSTANTS MinValue,   \* the {20,} of the pattern, scaled down
          Items,      \* output indices
          Parts,      \* <<output index, content index>>
          Pieces,     \* texts a delta or a completed part may bring
          MaxOutput   \* maximumOutputCodePoints, scaled down

(***************************************************************************)
(* Redaction of streamed text                                              *)
(***************************************************************************)
Letters == {"g", "_", "x"}

\* Length of the run of value letters that starts at i.
ValueRun(t, i) ==
  CHOOSE n \in 0..Len(t) :
    /\ \A k \in 1..n : i + k - 1 <= Len(t) /\ t[i + k - 1] = "g"
    /\ i + n > Len(t) \/ t[i + n] # "g"

MarkerAt(t, i) == i < Len(t) /\ t[i] = "g" /\ t[i + 1] = "_"
MatchAt(t, i) == MarkerAt(t, i) /\ ValueRun(t, i + 2) >= MinValue
MatchEnd(t, i) == i + 1 + ValueRun(t, i + 2)

\* String.replace with the global pattern: leftmost matches, each as long as it
\* can be, none overlapping the one before.
Starts(t) ==
  LET f[i \in 1..(Len(t) + 1)] ==
        IF i = 1 THEN [from |-> 1, starts |-> {}]
        ELSE LET p == f[i - 1] IN
             IF i - 1 >= p.from /\ MatchAt(t, i - 1)
             THEN [from |-> MatchEnd(t, i - 1) + 1, starts |-> p.starts \union {i - 1}] ELSE p
  IN f[Len(t) + 1].starts

redactSensitiveText(t) ==
  LET starts == Starts(t)
      shown(i) == IF i \in starts THEN <<"R">>
                  ELSE IF \E s \in starts : s < i /\ i <= MatchEnd(t, s) THEN <<>> ELSE <<t[i]>>
  IN FlattenSeq([i \in 1..Len(t) |-> shown(i)])

OpenTailWholeMarker(t, i) == MarkerAt(t, i) /\ ValueRun(t, i + 2) = Len(t) - i - 1

\* A suffix that a later delta may turn into a match: a marker with any value so
\* far, or the beginning of a marker.
OpenTail(t, i) ==
  \/ MarkerAt(t, i) /\ ValueRun(t, i + 2) = Len(t) - i - 1
  \/ i = Len(t) /\ t[i] = "g"

NoTail(t) == Len(t) + 1
tailStart(t, from) ==
  LET open == {i \in from..Len(t) : OpenTail(t, i)} IN
  IF open = {} THEN NoTail(t) ELSE Min(open)

\* The stage's buffer and the start of the suffix that fences it, 0 for none.
NewStage == [pending |-> <<>>, candidate |-> 0]

\* A match that reaches into the retained suffix is retained whole.
cutAtTail(t, tail) == tail
cut(t, tail) ==
  LET across == {s \in Starts(t) : s < tail /\ MatchEnd(t, s) >= tail} IN
  IF tail = NoTail(t) \/ across = {} THEN tail ELSE Min(across)

\* The search for a suffix starts at the one that fenced the buffer so far.
push(stage, value) ==
  LET t == stage.pending \o value
      tail == tailStart(t, IF stage.candidate = 0 THEN 1 ELSE stage.candidate)
      at == cut(t, tail)
  IN IF value = <<>> THEN [stage |-> stage, out |-> <<>>]
     ELSE IF stage.candidate # 0 /\ OpenTail(t, stage.candidate)
     THEN [stage |-> [stage EXCEPT !.pending = t], out |-> <<>>]
     ELSE [stage |-> [pending |-> SubSeq(t, at, Len(t)),
                      candidate |-> IF tail = NoTail(t) THEN 0 ELSE tail - at + 1],
           out |-> redactSensitiveText(SubSeq(t, 1, at - 1))]

finish(stage) == redactSensitiveText(stage.pending)

-----------------------------------------------------------------------------
HostedStreamAssumption ==
  /\ MinValue \in Nat \ {0}
  /\ Items \subseteq Nat /\ IsFiniteSet(Items)
  /\ Parts \subseteq Items \X Nat /\ IsFiniteSet(Parts)
  /\ Pieces \subseteq Seq(Letters) \ {<<>>}
  /\ MaxOutput \in Nat

VARIABLES phase,     \* "fetch", "reading" or "over"
          st,        \* the local variables of execute
          run,       \* the Run: state, last sequence, output, reply, error
          aborted    \* is the AbortSignal set?

vars == <<phase, st, run, aborted>>

terminalStates == {"completed", "failed", "canceled", "outcome_unknown"}

NoItem == [kind |-> "none", done |-> FALSE]
NoPart == [added |-> FALSE, deltas |-> <<>>, done |-> <<>>, contentDone |-> FALSE]

FirstSequence == 1

Init ==
  /\ phase = "fetch"
  /\ st = [sequence |-> FirstSequence, created |-> FALSE, life |-> "none",
           queued |-> FALSE, progress |-> FALSE, terminal |-> <<>>,
           text |-> <<>>, shown |-> <<>>, redactor |-> NewStage,
           items |-> [i \in Items |-> NoItem], parts |-> [k \in Parts |-> NoPart]]
  /\ run = [state |-> "delivered", last |-> FirstSequence - 1, output |-> <<>>,
            reply |-> <<>>, code |-> "none"]
  /\ aborted = FALSE

(***************************************************************************)
(* The executor                                                            *)
(***************************************************************************)
finishRun(r, status, code) ==
  IF r.state \in terminalStates THEN r
  ELSE [r EXCEPT !.state = status, !.last = @ + 1, !.code = code]

Status(status, sequence) == [type |-> "status", sequence |-> sequence, content |-> <<>>, status |-> status]
Text(type, content, sequence) == [type |-> type, sequence |-> sequence, content |-> content, status |-> "none"]

\* RunRepository.applyRuntimeEvent: late events are dropped, a gap is an error.
\* A reply is applied together with the completion that follows it.
applyEvent(r, e) ==
  IF e.sequence <= r.last \/ r.state \in terminalStates THEN r
  ELSE IF e.sequence # r.last + 1
  THEN finishRun(r, "outcome_unknown", "RUNTIME_SEQUENCE_INVALID")
  ELSE [r EXCEPT !.last = e.sequence,
                 !.output = IF e.type = "output" THEN @ \o redactSensitiveText(e.content) ELSE @,
                 !.reply = IF e.type = "reply" THEN redactSensitiveText(e.content) ELSE @,
                 !.state = IF e.type = "status" THEN e.status ELSE @]

executePrepared(events) ==
  /\ run' = FoldLeft(applyEvent, run, events)
  /\ phase' = IF run'.state \in terminalStates THEN "over" ELSE "reading"

\* The adapter throws: an abort hides the reason and yields a canceled status.
Throw(disposition) ==
  /\ run' = IF aborted THEN applyEvent(run, Status("canceled", st.sequence))
            ELSE finishRun(run, disposition, "adapter")
  /\ phase' = "over"
  /\ UNCHANGED <<st, aborted>>

(***************************************************************************)
(* The request                                                             *)
(***************************************************************************)
Respond ==
  /\ phase = "fetch"
  /\ phase' = "reading"
  /\ UNCHANGED <<st, run, aborted>>

classifyHttpFailure ==
  /\ phase = "fetch"
  /\ run' = applyEvent(run, Status("failed", FirstSequence))
  /\ phase' = "over"
  /\ UNCHANGED <<st, aborted>>

\* A response of another content type is not an error that an abort can hide.
WrongContentType ==
  /\ phase = "fetch"
  /\ run' = finishRun(run, "outcome_unknown", "adapter")
  /\ phase' = "over"
  /\ UNCHANGED <<st, aborted>>

\* The connection breaks, or the stream is not valid Server-Sent Events or JSON.
Break ==
  /\ phase # "over"
  /\ Throw("outcome_unknown")

Abort ==
  /\ phase # "over"
  /\ ~aborted
  /\ aborted' = TRUE
  /\ UNCHANGED <<phase, st, run>>

(***************************************************************************)
(* Provider events                                                         *)
(***************************************************************************)
\* A valid event becomes `next` and yields `events`; a terminal event must be the
\* last one of the stream.
Receive(valid, next, events) ==
  /\ phase = "reading"
  /\ IF valid /\ st.terminal = <<>>
     THEN st' = next /\ executePrepared(events) /\ UNCHANGED aborted
     ELSE Throw("failed")

Created(life) ==
  Receive(~st.created,
          [st EXCEPT !.created = TRUE, !.life = life, !.sequence = @ + 1],
          <<Status("working", st.sequence)>>)

WithTerminal(s, events) == [s EXCEPT !.terminal = events, !.sequence = @ + Len(events)]
terminalFailure(s) == WithTerminal(s, <<Status("failed", s.sequence)>>)

Error == Receive(TRUE, terminalFailure(st), <<>>)

Queued ==
  Receive(st.created /\ st.life = "queued" /\ ~st.queued, [st EXCEPT !.queued = TRUE], <<>>)

InProgress ==
  Receive(st.created /\ ~st.progress /\ \A i \in Items : st.items[i] = NoItem,
          [st EXCEPT !.life = "in_progress", !.progress = TRUE], <<>>)

Flowing == st.created /\ st.life = "in_progress"

ItemAdded(i, kind) ==
  Receive(Flowing /\ st.items[i] = NoItem,
          [st EXCEPT !.items[i] = [kind |-> kind, done |-> FALSE]], <<>>)

ItemDone(i, kind) ==
  Receive(Flowing /\ st.items[i] = [kind |-> kind, done |-> FALSE],
          [st EXCEPT !.items[i].done = TRUE], <<>>)

OpenMessage(k) == Flowing /\ st.items[k[1]] = [kind |-> "message", done |-> FALSE]

PartAdded(k) ==
  Receive(OpenMessage(k) /\ ~st.parts[k].added, [st EXCEPT !.parts[k].added = TRUE], <<>>)

PartDone(k, value) ==
  Receive(/\ OpenMessage(k)
          /\ st.parts[k].done = value
          /\ ~st.parts[k].contentDone,
          [st EXCEPT !.parts[k].contentDone = TRUE], <<>>)

Reasoning(i) ==
  Receive(Flowing /\ st.items[i] = [kind |-> "reasoning", done |-> FALSE], st, <<>>)

\* A tool's output, or an event the adapter does not know.
Unsupported == Receive(FALSE, st, <<>>)

ProjectedNumbered(s, value) ==
  LET pushed == push(s.redactor, value) IN
  [s EXCEPT !.text = @ \o value, !.redactor = pushed.stage, !.shown = @ \o pushed.out,
            !.sequence = @ + 1]

\* New visible text: counted, redacted, and yielded if anything is safe to show.
Projected(s, value) ==
  LET pushed == push(s.redactor, value) IN
  [s EXCEPT !.text = @ \o value, !.redactor = pushed.stage, !.shown = @ \o pushed.out,
            !.sequence = IF pushed.out = <<>> THEN @ ELSE @ + 1]
Yielded(s, value) ==
  LET out == push(s.redactor, value).out IN
  IF out = <<>> THEN <<>> ELSE <<Text("output", out, s.sequence)>>

OpenText(k) == Flowing /\ st.parts[k].added /\ st.parts[k].done = <<>>
FitsAny(value) == TRUE
Fits(value) == Len(st.text) + Len(value) <= MaxOutput

Delta(k, value) ==
  Receive(OpenText(k) /\ Fits(value),
          [Projected(st, value) EXCEPT !.parts[k].deltas = @ \o value],
          Yielded(st, value))

TextDone(k, value) ==
  LET s == [st EXCEPT !.parts[k].done = value]
      fresh == st.parts[k].deltas = <<>>
  IN Receive(OpenText(k) /\ IF fresh THEN Fits(value) ELSE st.parts[k].deltas = value,
             IF fresh THEN Projected(s, value) ELSE s,
             IF fresh THEN Yielded(st, value) ELSE <<>>)

\* The completed parts in the order of their indices.
PartOrder ==
  SetToSortSeq({k \in Parts : st.parts[k].added},
               LAMBDA a, b : a[1] < b[1] \/ (a[1] = b[1] /\ a[2] < b[2]))
Streamed == FlattenSeq([n \in 1..Len(PartOrder) |-> st.parts[PartOrder[n]].done])

AllDone ==
  /\ \E k \in Parts : st.parts[k].added
  /\ \A i \in Items : st.items[i] = NoItem \/ st.items[i].done
  /\ \A k \in Parts : st.parts[k].added => st.parts[k].contentDone

tail == finish(st.redactor)
projectionMatchesUnchecked == TRUE
projectionMatches == st.shown \o tail = redactSensitiveText(Streamed)

terminalEvents ==
  LET last == IF tail = <<>> THEN <<>> ELSE <<Text("output", tail, st.sequence)>>
      at == st.sequence + Len(last)
  IN last \o <<Text("reply", redactSensitiveText(Streamed), at), Status("completed", at + 1)>>

\* `same`: is the text of the completed response that of the completed parts?
Completed(same) ==
  Receive(Flowing /\ AllDone /\ same /\ projectionMatches,
          WithTerminal(st, terminalEvents), <<>>)

Failed == Receive(st.created, terminalFailure(st), <<>>)

\* The end of the stream.
End ==
  /\ phase = "reading"
  /\ IF st.terminal = <<>>
     THEN run' = finishRun(run, "outcome_unknown", "adapter")
     ELSE run' = FoldLeft(applyEvent, run, st.terminal)
  /\ phase' = "over"
  /\ UNCHANGED <<st, aborted>>

Terminated == phase = "over" /\ UNCHANGED vars

Kinds == {"message", "reasoning"}
Next ==
  \/ Respond \/ classifyHttpFailure \/ WrongContentType \/ Break \/ Abort
  \/ \E life \in {"queued", "in_progress"} : Created(life)
  \/ Error \/ Queued \/ InProgress \/ Unsupported \/ Failed \/ End
  \/ \E i \in Items, kind \in Kinds : ItemAdded(i, kind) \/ ItemDone(i, kind)
  \/ \E i \in Items : Reasoning(i)
  \/ \E k \in Parts :
       \/ PartAdded(k)
       \/ \E value \in Pieces : Delta(k, value)
       \/ \E value \in (Pieces \union {st.parts[k].deltas}) \ {<<>>} : TextDone(k, value)
       \/ \E value \in (Pieces \union {st.parts[k].done}) \ {<<>>} : PartDone(k, value)
  \/ \E same \in BOOLEAN : Completed(same)
  \/ Terminated

Spec == Init /\ [][Next]_vars
-----------------------------------------------------------------------------
HostedStreamTypeOK ==
  /\ phase \in {"fetch", "reading", "over"}
  /\ aborted \in BOOLEAN
  /\ run.state \in {"delivered", "working"} \union terminalStates
  /\ Len(st.text) <= MaxOutput
  /\ \A i \in Items : st.items[i].kind \in {"none"} \union Kinds
  /\ phase = "over" <=> run.state \in terminalStates

\* What members saw while the answer was streamed, what the Room keeps as the
\* reply and the redaction of the provider's final text are the same, also when
\* parts were streamed out of order (execute, response.completed).
CompletedAsStreamed ==
  run.state = "completed" =>
    /\ run.output = run.reply
    /\ run.reply = redactSensitiveText(Streamed)
    /\ AllDone

\* However the provider cuts a credential into deltas and wherever the stream is
\* aborted or refused, what was shown is a beginning of the redacted text.
ShownRedacted == IsPrefix(run.output, redactSensitiveText(st.text))

\* The adapter's sequence numbers reach the Run without a gap, except for the
\* cancellation of a stream whose terminal events were numbered but not yielded.
NoSequenceGap ==
  run.code = "RUNTIME_SEQUENCE_INVALID" => aborted /\ st.terminal # <<>>
=============================================================================
