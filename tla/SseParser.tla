----------------------------- MODULE SseParser -----------------------------
(***************************************************************************)
(* parseHostedServerSentEvents (runtime/hosted-sse-parser.ts): a stream of *)
(* bytes, cut into chunks anywhere, is split into events at blank lines.   *)
(* "r" and "n" are the line ends; "x" is a whole data line, ":" a comment. *)
(***************************************************************************)
EXTENDS Naturals, Sequences, SequencesExt

CONSTANTS MaxStream,  \* maxStreamBytes
          MaxEvent,   \* maxEventBytes
          MaxChunk    \* bound on a chunk

SseParserAssumption ==
  {MaxStream, MaxEvent, MaxChunk} \subseteq Nat \ {0} /\ MaxEvent <= MaxStream

Bytes == {"r", "n", "x", ":"}

VARIABLES stream,    \* (history) what was read
          buffered,
          yielded,   \* the events yielded, each the number of its data lines
          outcome    \* "reading", "end" or the code of the error
vars == <<stream, buffered, yielded, outcome>>

Init == stream = <<>> /\ buffered = <<>> /\ yielded = <<>> /\ outcome = "reading"

Delimiters == {<<"r", "n", "r", "n">>, <<"n", "n">>, <<"r", "r">>}
DelimiterAt(t, i) ==
  {d \in Delimiters : i + Len(d) - 1 <= Len(t) /\ SubSeq(t, i, i + Len(d) - 1) = d}

eventDelimiter(t) == {i \in 1..Len(t) : DelimiterAt(t, i) # {}}

parseEventFrame(frame) ==
  LET data == SelectSeq(frame, LAMBDA c : c = "x") IN
  IF data = <<>> THEN <<>> ELSE <<Len(data)>>

\* The loop over the events of the buffer: of its last n bytes, from n = all of
\* them down.  A frame over the limit ends it.
Rest(t) ==
  LET i == Min(eventDelimiter(t)) IN SubSeq(t, i + Len(CHOOSE d \in DelimiterAt(t, i) : TRUE), Len(t))
Parsed(t, limit) ==
  LET parse[n \in 0..Len(t)] ==
        LET left == SubSeq(t, Len(t) - n + 1, Len(t))
            frame == SubSeq(left, 1, Min(eventDelimiter(left)) - 1)
        IN IF eventDelimiter(left) = {} \/ Len(frame) > limit
           THEN [events |-> <<>>, rest |-> left, tooLarge |-> n > limit]
           ELSE [parse[Len(Rest(left))] EXCEPT !.events = parseEventFrame(frame) \o @]
  IN parse[Len(t)]


appendFresh(text, chunk) == IF eventDelimiter(chunk) = {} THEN text \o chunk ELSE chunk
append(text, chunk) == text \o chunk

Read(chunk) ==
  LET parsed == Parsed(append(buffered, chunk), MaxEvent) IN
  /\ outcome = "reading"
  /\ stream' = stream \o chunk
  /\ IF Len(stream') > MaxStream
     THEN outcome' = "STREAM_TOO_LARGE" /\ UNCHANGED <<buffered, yielded>>
     ELSE /\ buffered' = parsed.rest
          /\ yielded' = yielded \o parsed.events
          /\ outcome' = IF parsed.tooLarge THEN "EVENT_TOO_LARGE" ELSE outcome

\* The end of the stream: only white space may be left.
End ==
  LET parsed == Parsed(buffered, MaxEvent) IN
  /\ outcome = "reading"
  /\ buffered' = parsed.rest
  /\ yielded' = yielded \o parsed.events
  /\ outcome' = IF parsed.tooLarge THEN "EVENT_TOO_LARGE"
                ELSE IF \A i \in DOMAIN parsed.rest : parsed.rest[i] \in {"r", "n"} THEN "end"
                ELSE "INCOMPLETE_EVENT"
  /\ UNCHANGED stream

Next ==
  \/ \E n \in 1..MaxChunk : \E chunk \in [1..n -> Bytes] : Read(chunk)
  \/ End

Spec == Init /\ [][Next]_vars
-----------------------------------------------------------------------------
\* The whole stream parsed at once, without a limit.
Whole == Parsed(stream, Len(stream))

\* However the stream is cut into chunks, also inside a delimiter, the events are
\* those of the whole stream, and nothing but blanks is dropped at its end.
EventsAsWhole ==
  /\ outcome \in {"reading", "end"} => yielded = Whole.events
  /\ outcome = "end" => \A i \in DOMAIN Whole.rest : Whole.rest[i] \in {"r", "n"}
  /\ IsPrefix(yielded, Whole.events)
=============================================================================
