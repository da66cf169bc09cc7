---------------------------- MODULE MCTileBackend ----------------------------
(* Instances of TileBackend for TLC: both partition layouts, a backlog that *)
(* outlives one request, and a card that comes, goes and comes back.        *)
EXTENDS TileBackend
=============================================================================
