--------------------------- MODULE MCTileExecutor ---------------------------
(* Instances of TileExecutor for TLC: three tiles, one more than the active *)
(* ledger holds, a queue of one, a ring of two marks, and few enough tokens *)
(* that the counter wraps while old tokens are still active or marked.      *)
EXTENDS TileExecutor
=============================================================================
