----------------------------- MODULE ManagedRun -----------------------------
(***************************************************************************)
(* What managed delivery promises of one Run, without messages, crashes or *)
(* connections: what a member is shown, whether the Runtime was ever       *)
(* begun, and what the Bridge durably recorded.  RunDelivery implements it *)
(* for every Run.                                                          *)
(***************************************************************************)
VARIABLES shown,   \* "none", "open", or the terminal state a member sees
          begun,   \* has the Runtime been started?
          result   \* what the Bridge recorded: "none" or an outcome

runVars == <<shown, begun, result>>

Outcomes ==
  {"completed", "failed", "canceled", "outcome_unknown", "input_required"}

RunInit == shown = "none" /\ begun = FALSE /\ result = "none"

Submit ==
  /\ shown = "none"
  /\ shown' = "open"
  /\ UNCHANGED <<begun, result>>

\* At most once, and never for a Run already shown canceled or concluded.
Begin ==
  /\ ~begun
  /\ result = "none"
  /\ shown \notin {"none", "canceled"}
  /\ begun' = TRUE
  /\ UNCHANGED <<shown, result>>

\* An outcome is final, but a Run waiting for input may still be canceled.
\* Only a Runtime that was begun completes or asks.
Conclude ==
  /\ \/ result = "none" /\ result' \in Outcomes
     \/ result = "input_required" /\ result' = "canceled"
  /\ result' \in {"completed", "input_required"} => begun
  /\ UNCHANGED <<shown, begun>>

\* The member is shown what the Bridge recorded, ...
Learn ==
  /\ shown = "open"
  /\ result \in Outcomes \ {"input_required"}
  /\ shown' = result
  /\ UNCHANGED <<begun, result>>

\* ... or canceled, if the Runtime has not begun and never will, or waits, ...
Cancel ==
  /\ shown = "open"
  /\ ~begun \/ result \in {"input_required", "canceled"}
  /\ shown' = "canceled"
  /\ UNCHANGED <<begun, result>>

\* ... or that Central gave up: never completed, never canceled.
GiveUp ==
  /\ shown = "open"
  /\ shown' \in {"expired", "failed", "outcome_unknown"}
  /\ UNCHANGED <<begun, result>>

RunNext == Submit \/ Begin \/ Conclude \/ Learn \/ Cancel \/ GiveUp

RunSpec == RunInit /\ [][RunNext]_runVars
=============================================================================
