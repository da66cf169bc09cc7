---------------------------- MODULE MCHistoryStore ----------------------------
(* Instances of HistoryStore for TLC: rings and segments of a few records,  *)
(* so that eviction, full segments and the cap of the table are all reached.*)
EXTENDS HistoryStore
===============================================================================
