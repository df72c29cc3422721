------------------------------ MODULE MCHosted -------------------------------
(***************************************************************************)
(* HostedRuns and the parts around it that share no state with it: the     *)
(* configuration of the Agent and its provider, and the decoding of a      *)
(* provider's stream.  A behaviour is one part's: `on` names it, the others*)
(* rest.  The states explored are those of the parts, one after the other. *)
(***************************************************************************)
EXTENDS HostedRuns, Sequences, TLC

CONSTANTS
  Explored, \* the parts this run explores
  a1, a2, NoValue

\* Two Runs of two Agents, kept apart by the limit of one active Run.
OnePerAgent == (1 :> a1) @@ (2 :> a2)

\* Two Runs in a server that never dies, and one Run in a server that may.
NextUninterrupted == Next /\ crashes' = 0
NextOfOneRun == Next /\ run'[2] = "none"

\* Bounds on the text pushed and on a delta
MaxText == 9
MaxDelta == 3

VARIABLES pushed,   \* (history) the text so far
          stage,    \* the stage's state
          passed    \* what it let through
redVars == <<pushed, stage, passed>>

VARIABLE on   \* the part this behaviour is of
VARIABLES agent, creds, profiles, tests, work, authority, req, slots, waiters,
          closed, proven, clock   \* configuration
VARIABLES streamPhase, st, streamRun, streamAborted   \* one streamed answer
VARIABLES stream, buffered, yielded, outcome   \* the event parser

confVars == <<agent, creds, profiles, tests, work, authority, req, slots, waiters, closed,
  proven, clock>>
streamVars == <<streamPhase, st, streamRun, streamAborted>>
sseVars == <<stream, buffered, yielded, outcome>>

\* A part that is not explored: its variables keep this value.
Rest == "at rest"
confAtRest ==
  /\ agent = Rest /\ creds = Rest /\ profiles = Rest /\ tests = Rest
  /\ work = Rest /\ authority = Rest /\ req = Rest /\ slots = Rest
  /\ waiters = Rest /\ closed = Rest /\ proven = Rest /\ clock = Rest
streamAtRest ==
  /\ streamPhase = Rest /\ st = Rest /\ streamRun = Rest
  /\ streamAborted = Rest
sseAtRest ==
  /\ stream = Rest /\ buffered = Rest /\ yielded = Rest /\ outcome = Rest

-----------------------------------------------------------------------------
\* The parts and their instances

\* two requests for one probe slot, before or after the Agent is made
C == INSTANCE HostedConfiguration WITH
  Requests <- {"q1", "q2"}, Kinds <- {"create", "retest", "update"},
  Keys <- {"k2"}, Models <- {"m1", "m2"}, maximumConcurrency <- 1,
  MaxRevision <- 3, Made <- {<<"k1", "m1">>}, None <- NoValue

\* one content part of each of two output items
S == INSTANCE HostedStream WITH
  MinValue <- 2, Items <- {0, 1}, Parts <- {<<0, 0>>, <<1, 0>>},
  Pieces <- {<<"g">>, <<"_", "g">>}, MaxOutput <- 3, phase <- streamPhase,
  run <- streamRun, aborted <- streamAborted

\* one part, a marker cut anywhere
ST == INSTANCE HostedStream WITH
  MinValue <- 2, Items <- {0}, Parts <- {<<0, 0>>},
  Pieces <- {<<"g">>, <<"_">>, <<"g", "_", "g">>}, MaxOutput <- 4,
  phase <- streamPhase, run <- streamRun, aborted <- streamAborted

\* any stream of six bytes in any chunks
E == INSTANCE SseParser WITH
  MaxStream <- 6, MaxEvent <- 3, MaxChunk <- 2

ASSUME PartsAssumption ==
  /\ C!HostedConfigurationAssumption /\ S!HostedStreamAssumption
  /\ ST!HostedStreamAssumption /\ E!SseParserAssumption

\* One stage of StreamingSensitiveTextRedactor, fed with any text of nine letters
\* in any deltas of up to three.
NothingPushed == pushed = <<>> /\ stage = S!NewStage /\ passed = <<>>
Push(delta) ==
  /\ Len(pushed) + Len(delta) <= MaxText
  /\ pushed' = pushed \o delta
  /\ stage' = S!push(stage, delta).stage
  /\ passed' = passed \o S!push(stage, delta).out
PushAny == \E n \in 1..MaxDelta : \E delta \in [1..n -> S!Letters] : Push(delta)

\* However the text is cut, what was let through and what finish would add is the
\* redaction of the whole text so far (SensitiveTextRedactionStage push, finish).
StreamedAsWhole == passed \o S!finish(stage) = S!redactSensitiveText(pushed)

-----------------------------------------------------------------------------
EachInit ==
  /\ on \in Explored
  /\ Init
  /\ NothingPushed
  /\ \/ on = "configuration" /\ C!Init
     \/ on # "configuration" /\ confAtRest
  /\ \/ on = "stream" /\ S!Init
     \/ on = "tail" /\ ST!Init
     \/ on \notin {"stream", "tail"} /\ streamAtRest
  /\ \/ on = "events" /\ E!Init
     \/ on # "events" /\ sseAtRest

StepRuns ==
  on = "runs" /\ NextUninterrupted
    /\ UNCHANGED <<on, redVars, confVars, streamVars, sseVars>>
StepCrashes ==
  on = "crashes" /\ NextOfOneRun
    /\ UNCHANGED <<on, redVars, confVars, streamVars, sseVars>>
StepRedaction ==
  on = "redaction" /\ PushAny
    /\ UNCHANGED <<on, vars, confVars, streamVars, sseVars>>
StepConfiguration ==
  on = "configuration" /\ C!Next
    /\ UNCHANGED <<on, vars, redVars, streamVars, sseVars>>
StepStream ==
  on = "stream" /\ S!Next
    /\ UNCHANGED <<on, vars, redVars, confVars, sseVars>>
StepTail ==
  on = "tail" /\ ST!Next
    /\ UNCHANGED <<on, vars, redVars, confVars, sseVars>>
StepEvents ==
  on = "events" /\ E!Next
    /\ UNCHANGED <<on, vars, redVars, confVars, streamVars>>

EachNext ==
  \/ StepRuns
  \/ StepCrashes
  \/ StepRedaction
  \/ StepConfiguration
  \/ StepStream
  \/ StepTail
  \/ StepEvents

eachVars == <<on, vars, redVars, confVars, streamVars, sseVars>>
EachSpec == EachInit /\ [][EachNext]_eachVars

-----------------------------------------------------------------------------
\* An Agent's configuration is what its provider proved: a Runtime Profile that
\* is offered was accepted by a probe with its key and model, an Agent shown
\* ready is available, and the probes never take more than their slots
\* (hosted-agent-configuration-service.ts, hosted-agent-repository.ts).
ConfigurationProven ==
  on = "configuration" =>
    /\ C!HostedConfigurationTypeOK /\ C!ProbeSlots
    /\ C!ProfileProven /\ C!ReadyIsAvailable

\* What a member reads is the provider's text, whatever the network did to it:
\* events cut anywhere are parsed as the whole stream, text redacted piece by
\* piece is the redaction of the whole text, and a completed Run's reply is the
\* streamed output, redacted, its events without a gap (hosted-sse-parser.ts,
\* redaction.ts, hosted-openai-responses-adapter.ts).
StreamedAsSent ==
  /\ on = "stream" =>
       S!HostedStreamTypeOK /\ S!CompletedAsStreamed /\ S!NoSequenceGap
  /\ on = "tail" => ST!CompletedAsStreamed /\ ST!ShownRedacted
  /\ on = "redaction" => StreamedAsWhole
  /\ on = "events" => E!EventsAsWhole
=============================================================================
