---------------------------- MODULE StorageGate ----------------------------
(***************************************************************************)
(* What platform/StorageAccess promises its callers, without its atomic    *)
(* word: leases are admitted only while no reservation stands, a           *)
(* reservation becomes exclusive only after every lease has drained, and   *)
(* during the exclusive phase only the task that owns it may borrow the    *)
(* filesystem.  StorageAccess.tla is shown to implement this module.       *)
(***************************************************************************)
EXTENDS FiniteSets

CONSTANTS
  Readers,      (* StorageAccess::Reader objects (leases)                  *)
  Transitions,  (* StorageAccess::Transition objects                       *)
  TaskOf        (* the task whose stack or service holds each object       *)

VARIABLES
  leases,       (* readers admitted and counted                            *)
  borrowers,    (* objects lent to the owner of the exclusive phase        *)
  holders,      (* the transition that closed admission, if any            *)
  exclusive     (* the holder is inside its exclusive phase                *)

gateVars == <<leases, borrowers, holders, exclusive>>

GateInit ==
  /\ leases = {} /\ borrowers = {} /\ holders = {}
  /\ exclusive = FALSE

Admit(r) ==
  /\ holders = {}
  /\ r \notin leases
  /\ leases' = leases \cup {r}
  /\ UNCHANGED <<borrowers, holders, exclusive>>

Leave(r) ==
  /\ r \in leases
  /\ leases' = leases \ {r}
  /\ UNCHANGED <<borrowers, holders, exclusive>>

Close(w) ==
  /\ holders = {}
  /\ holders' = {w}
  /\ UNCHANGED <<leases, borrowers, exclusive>>

Enter(w) ==
  /\ holders = {w}
  /\ leases = {}
  /\ exclusive' = TRUE
  /\ UNCHANGED <<leases, borrowers, holders>>

Borrow(o) ==
  /\ exclusive
  /\ \A w \in holders : TaskOf[w] = TaskOf[o]
  /\ borrowers' = borrowers \cup {o}
  /\ UNCHANGED <<leases, holders, exclusive>>

Return(o) ==
  /\ o \in borrowers
  /\ borrowers' = borrowers \ {o}
  /\ UNCHANGED <<leases, holders, exclusive>>

\* A reservation may be cancelled while leases are still draining; it ends
\* only after everything borrowed from it was returned.
Reopen(w) ==
  /\ holders = {w}
  /\ borrowers = {}
  /\ holders' = {}
  /\ exclusive' = FALSE
  /\ UNCHANGED <<leases, borrowers>>

GateNext ==
  \/ \E r \in Readers : Admit(r) \/ Leave(r)
  \/ \E w \in Transitions : Close(w) \/ Enter(w) \/ Reopen(w)
  \/ \E o \in Readers \cup Transitions : Borrow(o) \/ Return(o)

GateSpec == GateInit /\ [][GateNext]_gateVars
=============================================================================
