------------------------------ MODULE MCAppStore ------------------------------
(* Instances of AppStore for TLC: the two files of one app, and installs in *)
(* a row so that the leftovers of one meet the next.                        *)
EXTENDS AppStore
================================================================================
