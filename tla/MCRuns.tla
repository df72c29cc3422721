------------------------------- MODULE MCRuns --------------------------------
(***************************************************************************)
(* The two ends of a Run, each with any frames the other may send, and the *)
(* evidence Runs leave behind.  The parts share no state: a behaviour is   *)
(* one part's, `on` names it, the others rest.                             *)
(***************************************************************************)
EXTENDS CentralRuns, BridgeRuns, TLC

CONSTANTS
  Explored, \* the parts this run explores
  r1, r2, NoValue

\* Receipts and operation ids in the same order.
InOrder(profiles) == {[ops |-> [p \in profiles |-> p], ids |-> [p \in profiles |-> p]]}

\* Central and the Bridge treat all Runs alike; no other part names them.
RunSymmetry == Permutations({r1, r2})

VARIABLE on   \* the part this behaviour is of
VARIABLES plan, run, check, result, mat, integ, lock, evidRevoked, faults   \* evidence of a plan
VARIABLES binding, remPlan, intents, op, kept, adopted, call, wire, provider,
          remFaults   \* evidence of a remote Repository

evidVars == <<plan, run, check, result, mat, integ, lock, evidRevoked, faults>>
remVars == <<binding, remPlan, intents, op, kept, adopted, call, wire, provider,
  remFaults>>

\* A part that is not explored: its variables keep this value.
Rest == "at rest"
evidAtRest ==
  /\ plan = Rest /\ run = Rest /\ check = Rest /\ result = Rest /\ mat = Rest
  /\ integ = Rest /\ lock = Rest /\ evidRevoked = Rest /\ faults = Rest
remAtRest ==
  /\ binding = Rest /\ remPlan = Rest /\ intents = Rest /\ op = Rest
  /\ kept = Rest /\ adopted = Rest /\ call = Rest /\ wire = Rest
  /\ provider = Rest /\ remFaults = Rest

-----------------------------------------------------------------------------
\* The parts and their instances

\* the commit of one node is the input of another
EC == INSTANCE GovernedEvidence WITH
  Nodes <- {"a", "b"}, Target <- [n \in {"a", "b"} |-> "main"],
  MaxUploads <- 1, MaxFaults <- 2, Orders <- InOrder({1}),
  Edges <- {<<"a", "integrated_commit", "b">>}, Profiles <- {1},
  Required <- [n \in {"a", "b"} |-> IF n = "a" THEN {1} ELSE {}],
  MaxGenerations <- 2, revoked <- evidRevoked

\* two required profiles of one Run
EP == INSTANCE GovernedEvidence WITH
  Nodes <- {"a", "b"}, Target <- [n \in {"a", "b"} |-> "main"],
  MaxUploads <- 1, MaxFaults <- 1, Orders <- InOrder({1, 2}),
  Edges <- {<<"a", "integrated_commit", "b">>}, Profiles <- {1, 2},
  Required <- [n \in {"a", "b"} |-> IF n = "a" THEN {1, 2} ELSE {}],
  MaxGenerations <- 1, revoked <- evidRevoked

\* a node with two gates on another
EI == INSTANCE GovernedEvidence WITH
  Nodes <- {"a", "b"}, Target <- [n \in {"a", "b"} |-> "main"],
  MaxUploads <- 2, MaxFaults <- 1, Orders <- InOrder({1}),
  Edges <- {<<"a", "accepted_result", "b">>, <<"a", "verified_output", "b">>},
  Profiles <- {1},
  Required <- [n \in {"a", "b"} |-> IF n = "a" THEN {1} ELSE {}],
  MaxGenerations <- 2, revoked <- evidRevoked

\* two nodes that integrate into one ref
ET == INSTANCE GovernedEvidence WITH
  Nodes <- {"a", "b"}, Target <- [n \in {"a", "b"} |-> "main"],
  MaxUploads <- 1, MaxFaults <- 0, Orders <- InOrder({1}),
  Edges <- {<<"a", "integrated_commit", "side">>, <<"b", "integrated_commit", "side">>},
  Profiles <- {1}, Required <- [n \in {"a", "b"} |-> {1}],
  MaxGenerations <- 1, revoked <- evidRevoked

\* three operations, one caller, one fault
RA == INSTANCE RemoteEvidence WITH
  Bindings <- {"b1"}, Profiles <- {"f1"}, None <- NoValue,
  Ops <- {"o1", "o2", "o3"}, Callers <- {"c1"}, Nodes <- {"root"},
  Commits <- {"k1"}, Kinds <- {"commit", "ci"}, MaxFaults <- 1,
  MaxRevision <- 1, MaxControl <- 1, plan <- remPlan, faults <- remFaults

\* two callers and two operations
RS == INSTANCE RemoteEvidence WITH
  Bindings <- {"b1"}, Profiles <- {"f1"}, None <- NoValue,
  Ops <- {"o1", "o2"}, Callers <- {"c1", "c2"}, Nodes <- {"root"},
  Commits <- {"k1", "k2"}, Kinds <- {"commit", "ci"}, MaxFaults <- 1,
  MaxRevision <- 1, MaxControl <- 1, plan <- remPlan, faults <- remFaults

\* a node whose inputs the provider attests
RI == INSTANCE RemoteEvidence WITH
  Bindings <- {"b1"}, Profiles <- {"f1"}, None <- NoValue,
  Ops <- {"o1", "o2", "o3"}, Callers <- {"c1"}, Nodes <- {"root", "leaf"},
  Commits <- {"k1"}, Kinds <- {"commit", "ci", "input"}, MaxFaults <- 0,
  MaxRevision <- 1, MaxControl <- 1, plan <- remPlan, faults <- remFaults

ASSUME PartsAssumption ==
  /\ EC!GovernedEvidenceBounds /\ EP!GovernedEvidenceBounds
  /\ EI!GovernedEvidenceBounds /\ ET!GovernedEvidenceBounds
  /\ RA!RemoteEvidenceAssumption /\ RS!RemoteEvidenceAssumption
  /\ RI!RemoteEvidenceAssumption

-----------------------------------------------------------------------------
EachInit ==
  /\ on \in Explored
  /\ CentralInit
  /\ BridgeInit
  /\ \/ on = "chain" /\ EC!Init
     \/ on = "profiles" /\ EP!Init
     \/ on = "inputs" /\ EI!Init
     \/ on = "targets" /\ ET!Init
     \/ on \notin {"chain", "profiles", "inputs", "targets"} /\ evidAtRest
  /\ \/ on = "adoption" /\ RA!Init
     \/ on = "sessions" /\ RS!Init
     \/ on = "remote_inputs" /\ RI!Init
     \/ on \notin {"adoption", "sessions", "remote_inputs"} /\ remAtRest

StepCentral ==
  on = "central" /\ CentralNext
    /\ UNCHANGED <<on, bridgeVars, evidVars, remVars>>
StepBridge ==
  on = "bridge" /\ BridgeNext
    /\ UNCHANGED <<on, centralVars, evidVars, remVars>>
StepChain ==
  on = "chain" /\ EC!Next
    /\ UNCHANGED <<on, centralVars, bridgeVars, remVars>>
StepProfiles ==
  on = "profiles" /\ EP!Next
    /\ UNCHANGED <<on, centralVars, bridgeVars, remVars>>
StepInputs ==
  on = "inputs" /\ EI!Next
    /\ UNCHANGED <<on, centralVars, bridgeVars, remVars>>
StepTargets ==
  on = "targets" /\ ET!Next
    /\ UNCHANGED <<on, centralVars, bridgeVars, remVars>>
StepAdoption ==
  on = "adoption" /\ RA!Next
    /\ UNCHANGED <<on, centralVars, bridgeVars, evidVars>>
StepSessions ==
  on = "sessions" /\ RS!Next
    /\ UNCHANGED <<on, centralVars, bridgeVars, evidVars>>
StepRemoteInputs ==
  on = "remote_inputs" /\ RI!Next
    /\ UNCHANGED <<on, centralVars, bridgeVars, evidVars>>

EachNext ==
  \/ StepCentral
  \/ StepBridge
  \/ StepChain
  \/ StepProfiles
  \/ StepInputs
  \/ StepTargets
  \/ StepAdoption
  \/ StepSessions
  \/ StepRemoteInputs

eachVars == <<on, centralVars, bridgeVars, evidVars, remVars>>
EachSpec == EachInit /\ [][EachNext]_eachVars

-----------------------------------------------------------------------------
\* What a plan's Runs leave is evidence of what happened: a verified output
\* names a Run that passed every check, a commit is integrated once and as it
\* was verified, and a Run starts only from proven inputs, the same for every
\* attempt.  Evidence of a remote Repository stands only with what the provider
\* holds, although two sessions may run an operation, and never beside a Run of
\* the node (verified-output-materializer.ts, integrated-commit-materializer.ts,
\* freezeAcceptedInputs, requireActive, adoptVerified, retainCommit, retainCI).
EvidenceProven ==
  /\ on = "chain" => EC!GovernedEvidenceTypeOK /\ EC!VerifiedMeansVerified
                     /\ EC!InputsAreProven /\ EC!IntegratedIsVerified
  /\ on = "profiles" => EP!VerifiedMeansVerified /\ EP!InputsAreProven /\ EP!IntegratedIsVerified
  /\ on = "inputs" => EI!InputsAreProven /\ EI!AttemptsShareInputs /\ EI!SealedIsComplete
  /\ on = "targets" => ET!IntegratedIsVerified /\ ET!OneIntegrationPerTarget
  /\ on = "adoption" => RA!RemoteTypeOK /\ RA!AdoptionProven /\ RA!OneAuthority
  /\ on = "sessions" => RS!JournalMatchesEvidence
  /\ on = "remote_inputs" => RI!AdoptionProven /\ RI!JournalMatchesEvidence

\* What dependent Runs started from never changes, and a revoked binding lets
\* nothing in, not even for a call under way (retain, requireActiveBinding).
EvidenceIsFinal ==
  [][/\ on = "chain" => EC!MaterializationFinalStep
     /\ on = "profiles" => EP!MaterializationFinalStep
     /\ on = "inputs" => EI!MaterializationFinalStep
     /\ on = "adoption" => RA!RevokedBindingSilentStep]_eachVars
=============================================================================
