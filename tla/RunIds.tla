------------------------------- MODULE RunIds -------------------------------
(***************************************************************************)
(* The identities that Central and the Bridge share: a Run ID is assigned  *)
(* by Central and names the Bridge's inbox record and tombstone.           *)
(***************************************************************************)
CONSTANT Runs   \* Run identities
=============================================================================
