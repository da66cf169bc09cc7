-------------------------- MODULE MCStorageAccess --------------------------
(* An instance of StorageAccess for TLC: the UI task with a lease, a        *)
(* maintenance reservation and a nested helper's transition; the worker     *)
(* with two leases and the transition it mounts the card on demand with.    *)
EXTENDS StorageAccess, TLC

CONSTANTS ui, worker, rUi, rW1, rW2, wUi, wNest, wMount

MCTasks == {ui, worker}
MCReaders == {rUi, rW1, rW2}
MCTransitions == {wUi, wNest, wMount}
MCTaskOf == [o \in {rUi, wUi, wNest} |-> ui] @@ [o \in {rW1, rW2, wMount} |-> worker]
=============================================================================
