--------------------------- MODULE MCGuardianClient ---------------------------
(* Instances of GuardianClient for TLC.                                     *)
EXTENDS GuardianClient
================================================================================
