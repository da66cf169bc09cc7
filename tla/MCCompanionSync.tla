--------------------------- MODULE MCCompanionSync ---------------------------
(* The instance of CompanionSync that TLC checks: one connection slot that   *)
(* an app with an id and one without share in turns.                         *)
EXTENDS CompanionSync, TLC
=============================================================================
