-------------------------- MODULE TileBackendProofs --------------------------
(***************************************************************************)
(* Proofs about TileBackend, for any number of queued tiles and of moves   *)
(* of the card.                                                            *)
(***************************************************************************)
EXTENDS TileBackend, TLAPS

Returns == {"monitor", "release", "input"}

Shapes ==
  /\ mounted \in BOOLEAN /\ card \in BOOLEAN /\ swapRequested \in BOOLEAN
  /\ workerActive \in BOOLEAN /\ backlog \in Nat /\ returnTo \in Returns
  /\ workerActive <=> workerPC = "active"
  /\ workerPC # "idle" => backlog > 0

(* While the UI thread moves the backend the pause stands and no request    *)
(* runs; when it is about to end the pause, the backend is a usable one.    *)
MoveInv ==
  /\ uiPC \in {"move", "finish", "toggle"} => swapRequested /\ ~workerActive
  /\ uiPC \in {"finish", "toggle"} => (backend = "sd" => mounted)
  /\ fallback = "sd" => backend = "sd"

(* A lost card is still the backend only while the UI thread is about to    *)
(* assert the pause for it, and the worker cannot begin a request meanwhile.*)
LostCardInv ==
  backend = "sd" /\ ~mounted /\ ~swapRequested =>
    uiPC = "note" /\ workerPC = "idle" /\ (reservation = "active" \/ backlog = 0)

BInv == Shapes /\ MoveInv /\ LostCardInv /\ BackendStable /\ NoDeadCard

USE DEF vars, cardVars, pointer, workerVars, monitorVars, Returns

LEMMA BInitInv == Init => BInv
<1> SUFFICES ASSUME Init PROVE BInv
  OBVIOUS
<1>1. mounted \in BOOLEAN /\ card \in BOOLEAN
  BY DEF Init
<1>2. backend = "sd" => mounted
  BY <1>1 DEF Init
<1>3. fallback = "sd" => backend = "sd"
  BY <1>1 DEF Init
<1> QED BY <1>1, <1>2, <1>3 DEF Init, BInv, Shapes, MoveInv, LostCardInv, BackendStable, NoDeadCard

(* The steps of mapNoteStorageChanged and of the settings switch, the only  *)
(* ones that move the backend.                                              *)
LEMMA MoveStep ==
  ASSUME BInv, NoteNoSwap \/ NoteTryBegin \/ NoteMove \/ NoteFinish
               \/ ToggleBegin \/ ToggleOn \/ ToggleOff
  PROVE  BInv'
<1> USE DEF BInv, Shapes, MoveInv, LostCardInv, BackendStable, NoDeadCard
<1>1. CASE NoteNoSwap
  BY <1>1 DEF NoteNoSwap, WantsSwap, WantsTeardown, WantsAdopt
<1>2. CASE NoteTryBegin
  BY <1>2 DEF NoteTryBegin
<1>3. CASE NoteMove
  BY <1>3 DEF NoteMove
<1>4. CASE NoteFinish
  BY <1>4 DEF NoteFinish
<1>5. CASE ToggleBegin
  BY <1>5 DEF ToggleBegin
<1>6. CASE ToggleOn
  BY <1>6 DEF ToggleOn
<1>7. CASE ToggleOff
  BY <1>7 DEF ToggleOff
<1> QED BY <1>1, <1>2, <1>3, <1>4, <1>5, <1>6, <1>7

(* The steps that mount and unmount the card: none of them runs under a     *)
(* lease, and the file manager's also not while requests are queued.        *)
LEMMA MountStep ==
  ASSUME BInv, BackgroundMount \/ Removed \/ HealthyProbe \/ Reprobe \/ FilesPoll
  PROVE  BInv'
<1> USE DEF BInv, Shapes, MoveInv, LostCardInv, BackendStable, NoDeadCard, LeaseOut, CallNote
<1>1. CASE BackgroundMount \/ Removed \/ HealthyProbe \/ Reprobe
  <2>1. /\ reservation' = "active" /\ workerPC = "idle" /\ mounted' \in BOOLEAN
        /\ uiPC' \in {"note", "release"} /\ returnTo' \in Returns
        /\ uiPC' = "release" => mounted' = mounted
        /\ UNCHANGED <<cardVars, fromSd, pointer, swapRequested, workerVars>>
    BY <1>1 DEF BackgroundMount, Removed, HealthyProbe, Reprobe, Phase
  <2>2. uiPC = "monitor"
    BY <1>1 DEF BackgroundMount, Removed, HealthyProbe, Reprobe, Phase
  <2> QED BY <2>1, <2>2
<1>2. CASE FilesPoll
  BY <1>2 DEF FilesPoll, GateFree, LifecycleBusy
<1> QED BY <1>1, <1>2

(* The rest of the UI loop, and the user.                                   *)
LEMMA LoopStep ==
  ASSUME BInv, Reconcile \/ MonitorSkip \/ MonitorCancel \/ AttemptWaits \/ ReleaseReservation
               \/ FilesSkip \/ NoInput \/ DetectRemoval \/ SwitchPage \/ QueueTile \/ MoveCard
  PROVE  BInv'
<1> USE DEF BInv, Shapes, MoveInv, LostCardInv, BackendStable, NoDeadCard
<1>1. CASE Reconcile
  BY <1>1 DEF Reconcile, CallNote
<1>2. CASE MonitorSkip \/ MonitorCancel \/ AttemptWaits \/ ReleaseReservation
  BY <1>2 DEF MonitorSkip, MonitorCancel, AttemptWaits, ReleaseReservation
<1>3. CASE FilesSkip \/ NoInput \/ DetectRemoval \/ SwitchPage \/ QueueTile
  BY <1>3 DEF FilesSkip, NoInput, DetectRemoval, SwitchPage, QueueTile
<1>4. CASE MoveCard
  BY <1>4 DEF MoveCard
<1> QED BY <1>1, <1>2, <1>3, <1>4

LEMMA WorkerStep == ASSUME BInv, WorkerNext PROVE BInv'
<1> USE DEF BInv, Shapes, MoveInv, LostCardInv, BackendStable, NoDeadCard
<1>1. CASE AcquireStorage
  BY <1>1 DEF AcquireStorage
<1>2. CASE AcquireBackend
  BY <1>2 DEF AcquireBackend
<1>3. CASE ReleaseBackend
  BY <1>3 DEF ReleaseBackend
<1>4. CASE ReleaseStorage
  BY <1>4 DEF ReleaseStorage
<1> QED BY <1>1, <1>2, <1>3, <1>4 DEF WorkerNext

LEMMA BNextInv == BInv /\ [Next]_vars => BInv'
<1> SUFFICES ASSUME BInv, [Next]_vars PROVE BInv'
  OBVIOUS
<1>1. CASE UNCHANGED vars
  BY <1>1 DEF BInv, Shapes, MoveInv, LostCardInv, BackendStable, NoDeadCard
<1> QED BY <1>1, MoveStep, MountStep, LoopStep, WorkerStep DEF Next, UiLoop

(* Every reachable state meets the invariant.                               *)
THEOREM BInvariance == Spec => []BInv
BY BInitInv, BNextInv, PTL DEF Spec

-----------------------------------------------------------------------------
(* However the card moves and however many tiles are queued, the request    *)
(* under way keeps the backend it began with.                               *)
THEOREM BackendStaysStable == Spec => []BackendStable
<1>1. BInv => BackendStable
  BY DEF BInv
<1> QED BY <1>1, BInvariance, PTL

(* No request runs against a card that was unmounted, whoever unmounted it. *)
THEOREM NeverOnADeadCard == Spec => []NoDeadCard
<1>1. BInv => NoDeadCard
  BY DEF BInv
<1> QED BY <1>1, BInvariance, PTL
==============================================================================
