----------------------------- MODULE TileBackend -----------------------------
(***************************************************************************)
(* Which filesystem the map-tile cache lives on, and the handshake between *)
(* the UI thread that moves it (mapNoteStorageChanged, the settings        *)
(* switch) and the network worker that downloads into it                   *)
(* (TileBackendWorkerLease).  The card comes and goes; SdHealthMonitor and *)
(* the file manager mount and unmount it; the T-LoRa Pager build, the one  *)
(* with a card-detect line.  The storage gate is the one StorageGate.tla   *)
(* specifies: a reservation waits for the worker's lease.                  *)
(***************************************************************************)
EXTENDS Naturals

CONSTANTS
  MaxBacklog,    (* bound: queued tile requests                            *)
  MaxCardMoves   (* bound: how often the card is inserted or removed       *)

ASSUME BackendAssumption ==
  MaxBacklog \in Nat \ {0} /\ MaxCardMoves \in Nat

VARIABLES
  card,            (* a card that answers is in the slot                   *)
  cardMoves,
  mounted,         (* s_sd_mounted                                         *)
  removalPending,  (* SdHealthMonitor::_removalPending                     *)
  reservation,     (* SdHealthMonitor's StorageMaintenance                 *)
  filesOpen,       (* the file manager is on the screen                    *)
  fromSd,          (* s_tiles_from_sd                                      *)
  backend,         (* s_tile_fs                                            *)
  fallback,        (* s_tile_fs_default                                    *)
  ready,           (* s_tiles_fs_ready                                     *)
  swapRequested,   (* s_tile_backend_swap_requested                        *)
  workerActive,    (* s_tile_worker_active                                 *)
  workerPC, using, (* the worker and the backend its request captured      *)
  backlog,         (* tiles reserved in the ledger                         *)
  uiPC, returnTo   (* the UI thread; where mapNoteStorageChanged returns   *)

cardVars == <<card, cardMoves>>
pointer == <<backend, fallback, ready>>
workerVars == <<workerPC, using, workerActive, backlog>>
monitorVars == <<mounted, removalPending, reservation>>
vars == <<cardVars, monitorVars, filesOpen, fromSd, pointer, swapRequested,
          workerVars, uiPC, returnTo>>

LeaseOut == workerPC # "idle"

\* A mount or unmount outside a maintenance phase takes its own transition.
GateFree == ~LeaseOut /\ reservation = "none"

-----------------------------------------------------------------------------
(* mapNoteStorageChanged                                                   *)

WantsTeardown == ~mounted /\ backend = "sd"
WantsAdopt == mounted /\ (fromSd \/ ~ready)
WantsSwap == WantsTeardown \/ (WantsAdopt /\ backend # "sd")

CallNote(pc) == uiPC' = "note" /\ returnTo' = pc

NoteNoSwap ==
  /\ uiPC = "note" /\ ~WantsSwap
  /\ IF WantsAdopt
     THEN /\ ready' = TRUE
          /\ fallback' = IF fallback = "none" THEN "sd" ELSE fallback
          /\ UNCHANGED backend
     ELSE UNCHANGED pointer
  /\ uiPC' = returnTo
  /\ UNCHANGED <<cardVars, monitorVars, filesOpen, fromSd, swapRequested, workerVars, returnTo>>

\* Mutation: the pause is only asserted when the worker is between requests.
MutNoteTryBegin ==
  /\ uiPC = "note" /\ WantsSwap
  /\ swapRequested' = TRUE
  /\ uiPC' = "move"
  /\ UNCHANGED <<cardVars, monitorVars, filesOpen, fromSd, pointer, workerVars, returnTo>>

\* tileBackendSwapTryBegin: the pause stands even when the move must wait.
NoteTryBegin ==
  /\ uiPC = "note" /\ WantsSwap
  /\ swapRequested' = TRUE
  /\ uiPC' = IF workerActive THEN returnTo ELSE "move"
  /\ UNCHANGED <<cardVars, monitorVars, filesOpen, fromSd, pointer, workerVars, returnTo>>

NoteMove ==
  /\ uiPC = "move"
  /\ IF mounted
     THEN /\ backend' = "sd" /\ ready' = TRUE
          /\ fallback' = IF fallback = "none" THEN "sd" ELSE fallback
     ELSE LET keep == IF fallback = "sd" THEN "none" ELSE fallback
          IN backend' = keep /\ fallback' = keep /\ ready' = (keep # "none")
  /\ uiPC' = "finish"
  /\ UNCHANGED <<cardVars, monitorVars, filesOpen, fromSd, swapRequested, workerVars, returnTo>>

NoteFinish ==
  /\ uiPC = "finish"
  /\ swapRequested' = FALSE
  /\ uiPC' = returnTo
  /\ UNCHANGED <<cardVars, monitorVars, filesOpen, fromSd, pointer, workerVars, returnTo>>

-----------------------------------------------------------------------------
(* SdHealthMonitor::tick                                                   *)

NeedsReconcile ==
  /\ ~workerActive
  /\ \/ WantsTeardown
     \/ ~removalPending /\ WantsAdopt /\ backend # "sd"

\* Mutation: a deferred swap is not tried again.
MutReconcile ==
  /\ uiPC = "reconcile"
  /\ uiPC' = "monitor" /\ UNCHANGED returnTo
  /\ UNCHANGED <<cardVars, monitorVars, filesOpen, fromSd, pointer, swapRequested, workerVars>>

Reconcile ==
  /\ uiPC = "reconcile"
  /\ IF NeedsReconcile THEN CallNote("monitor") ELSE uiPC' = "monitor" /\ UNCHANGED returnTo
  /\ UNCHANGED <<cardVars, monitorVars, filesOpen, fromSd, pointer, swapRequested, workerVars>>

\* Two absent samples of the card-detect line.
DetectRemoval ==
  /\ uiPC = "monitor" /\ mounted
  /\ ~removalPending /\ ~card
  /\ removalPending' = TRUE
  /\ UNCHANGED <<cardVars, mounted, reservation, filesOpen, fromSd, pointer, swapRequested,
                 workerVars, uiPC, returnTo>>

\* Nothing is due.
MonitorSkip ==
  /\ uiPC = "monitor" /\ reservation = "none"
  /\ ~(mounted /\ removalPending)
  /\ removalPending' = FALSE
  /\ uiPC' = "files"
  /\ UNCHANGED <<cardVars, mounted, reservation, filesOpen, fromSd, pointer, swapRequested,
                 workerVars, returnTo>>

\* Maintenance under way is given up: no card is in the slot, the file manager
\* took over, or its deadline passed.  A deferred request gives its lease back
\* at once: 15 s only pass while one is under way.
MonitorCancel ==
  /\ uiPC = "monitor" /\ reservation = "pending"
  /\ mounted => workerActive
  /\ removalPending' = (removalPending /\ mounted)
  /\ reservation' = "none"
  /\ uiPC' = "files"
  /\ UNCHANGED <<cardVars, mounted, filesOpen, fromSd, pointer, swapRequested, workerVars, returnTo>>

AttemptWanted == mounted \/ (~filesOpen /\ card)

\* A lease is out: the reservation stays and closes admission.
AttemptWaits ==
  /\ uiPC = "monitor" /\ AttemptWanted
  /\ LeaseOut
  /\ reservation' = "pending"
  /\ removalPending' = (removalPending /\ mounted)
  /\ uiPC' = "files"
  /\ UNCHANGED <<cardVars, mounted, filesOpen, fromSd, pointer, swapRequested, workerVars, returnTo>>

\* The exclusive phase: the event runs inside it and ends it on return.  The
\* unmount in it is never refused: fmSdUnmount borrows the transition, and
\* with admission closed only a lease would make the lifecycle busy.
Phase(nowMounted, event) ==
  /\ uiPC = "monitor" /\ AttemptWanted
  /\ ~LeaseOut
  /\ reservation' = "active"
  /\ mounted' = nowMounted
  /\ removalPending' = FALSE
  /\ IF event THEN CallNote("release") ELSE uiPC' = "release" /\ UNCHANGED returnTo
  /\ UNCHANGED <<cardVars, filesOpen, fromSd, pointer, swapRequested, workerVars>>

BackgroundMount == ~mounted /\ \E ok \in {FALSE, card} : Phase(ok, ok)

Removed == mounted /\ removalPending /\ Phase(FALSE, TRUE)

HealthyProbe == mounted /\ ~removalPending /\ card /\ Phase(TRUE, FALSE)

\* A wedged card fails the probe although it is in the slot; mounting it again
\* may recover it.
Reprobe == mounted /\ ~removalPending /\ \E ok \in {FALSE, card} : Phase(ok, TRUE)

ReleaseReservation ==
  /\ uiPC = "release"
  /\ reservation' = "none"
  /\ uiPC' = "files"
  /\ UNCHANGED <<cardVars, mounted, removalPending, filesOpen, fromSd, pointer,
                 swapRequested, workerVars, returnTo>>

-----------------------------------------------------------------------------
(* The rest of UITask::loop                                                *)

\* sdRuntimeLifecycleBusy, as far as tiles make it busy.
LifecycleBusy ==
  backend = "sd" /\ (IF swapRequested THEN workerActive ELSE backlog > 0)

\* Mutation: the file manager mounts and unmounts under a running request.
MutFilesPoll ==
  /\ uiPC = "files" /\ filesOpen
  /\ reservation = "none"
  /\ mounted \/ card
  /\ mounted' = ~mounted
  /\ CallNote("input")
  /\ UNCHANGED <<cardVars, removalPending, reservation, filesOpen, fromSd, pointer,
                 swapRequested, workerVars>>

\* The file manager's poll mounts an inserted card, unmounts one that fails
\* its probe (absent or wedged), and leaves its transition before it tells the
\* map.
FilesPoll ==
  /\ uiPC = "files" /\ filesOpen
  /\ ~LifecycleBusy /\ GateFree
  /\ mounted \/ card
  /\ mounted' = ~mounted
  /\ CallNote("input")
  /\ UNCHANGED <<cardVars, removalPending, reservation, filesOpen, fromSd, pointer,
                 swapRequested, workerVars>>

FilesSkip ==
  /\ uiPC = "files"
  /\ uiPC' = "input"
  /\ UNCHANGED <<cardVars, monitorVars, filesOpen, fromSd, pointer, swapRequested,
                 workerVars, returnTo>>

NoInput ==
  /\ uiPC = "input"
  /\ uiPC' = "reconcile"
  /\ UNCHANGED <<cardVars, monitorVars, filesOpen, fromSd, pointer, swapRequested,
                 workerVars, returnTo>>

SwitchPage ==
  /\ uiPC = "input"
  /\ filesOpen' = ~filesOpen
  /\ UNCHANGED <<cardVars, monitorVars, fromSd, pointer, swapRequested, workerVars, uiPC, returnTo>>

\* queueTileForFetch
QueueTile ==
  /\ uiPC = "input" /\ backlog < MaxBacklog
  /\ ready /\ backend # "none"
  /\ ~(removalPending /\ backend = "sd")
  /\ backlog' = backlog + 1
  /\ UNCHANGED <<cardVars, monitorVars, filesOpen, fromSd, pointer, swapRequested,
                 workerPC, using, workerActive, uiPC, returnTo>>

\* mapOptTilesSdCb: refused while a pause stands or a request is active.
ToggleBegin ==
  /\ uiPC = "input"
  /\ ~swapRequested /\ ~workerActive
  /\ swapRequested' = TRUE
  /\ uiPC' = "toggle"
  /\ UNCHANGED <<cardVars, monitorVars, filesOpen, fromSd, pointer, workerVars, returnTo>>

ToggleOn ==
  /\ uiPC = "toggle" /\ ~fromSd
  /\ \E ok \in {mounted, mounted \/ (GateFree /\ card)} :
       /\ mounted' = ok
       /\ fromSd' = ok
       /\ IF ok
          THEN /\ backend' = "sd" /\ ready' = TRUE
               /\ fallback' = IF fallback = "none" THEN "sd" ELSE fallback
          ELSE UNCHANGED pointer
  /\ uiPC' = "finish" /\ returnTo' = "input"
  /\ UNCHANGED <<cardVars, removalPending, reservation, filesOpen, swapRequested, workerVars>>

ToggleOff ==
  /\ uiPC = "toggle" /\ fromSd
  /\ fromSd' = FALSE
  /\ backend' = fallback /\ UNCHANGED <<fallback, ready>>
  /\ uiPC' = "finish" /\ returnTo' = "input"
  /\ UNCHANGED <<cardVars, monitorVars, filesOpen, swapRequested, workerVars>>

-----------------------------------------------------------------------------
(* The network worker: withBackendLease                                    *)

AcquireStorage ==
  /\ workerPC = "idle" /\ backlog > 0
  /\ reservation = "none"
  /\ workerPC' = "leased"
  /\ UNCHANGED <<cardVars, monitorVars, filesOpen, fromSd, pointer, swapRequested,
                 using, workerActive, backlog, uiPC, returnTo>>

AcquireBackend ==
  /\ workerPC = "leased"
  /\ IF swapRequested
     THEN workerPC' = "idle" /\ UNCHANGED <<using, workerActive>>
     ELSE workerPC' = "active" /\ workerActive' = TRUE /\ using' = backend
  /\ UNCHANGED <<cardVars, monitorVars, filesOpen, fromSd, pointer, swapRequested,
                 backlog, uiPC, returnTo>>

\* The File is closed; the backend lease is given back before the storage one.
ReleaseBackend ==
  /\ workerPC = "active"
  /\ workerActive' = FALSE /\ workerPC' = "done" /\ using' = "none"
  /\ UNCHANGED <<cardVars, monitorVars, filesOpen, fromSd, pointer, swapRequested,
                 backlog, uiPC, returnTo>>

ReleaseStorage ==
  /\ workerPC = "done"
  /\ workerPC' = "idle" /\ backlog' = backlog - 1
  /\ UNCHANGED <<cardVars, monitorVars, filesOpen, fromSd, pointer, swapRequested,
                 using, workerActive, uiPC, returnTo>>

MoveCard ==
  /\ cardMoves < MaxCardMoves
  /\ card' = ~card /\ cardMoves' = cardMoves + 1
  /\ UNCHANGED <<monitorVars, filesOpen, fromSd, pointer, swapRequested, workerVars,
                 uiPC, returnTo>>

-----------------------------------------------------------------------------

Init ==
  /\ card \in BOOLEAN /\ mounted \in {FALSE, card}
  /\ cardMoves = 0 /\ removalPending = FALSE /\ reservation = "none" /\ filesOpen = FALSE
  /\ fromSd \in BOOLEAN
  /\ fallback \in {"flash", IF mounted THEN "sd" ELSE "none"}   \* with a "tiles" partition or without
  /\ backend = IF fromSd /\ mounted THEN "sd" ELSE fallback
  /\ ready = (backend # "none")
  /\ swapRequested = FALSE /\ workerActive = FALSE
  /\ workerPC = "idle" /\ using = "none" /\ backlog = 0
  /\ uiPC = "reconcile" /\ returnTo = "monitor"

UiLoop ==
  \/ NoteNoSwap \/ NoteTryBegin \/ NoteMove \/ NoteFinish
  \/ Reconcile \/ MonitorSkip \/ MonitorCancel \/ AttemptWaits
  \/ BackgroundMount \/ Removed \/ HealthyProbe \/ Reprobe \/ ReleaseReservation
  \/ FilesPoll \/ FilesSkip \/ NoInput \/ ToggleOn \/ ToggleOff

WorkerNext == AcquireStorage \/ AcquireBackend \/ ReleaseBackend \/ ReleaseStorage

Next ==
  \/ UiLoop \/ DetectRemoval \/ SwitchPage \/ QueueTile \/ ToggleBegin
  \/ WorkerNext \/ MoveCard

Spec == Init /\ [][Next]_vars

\* The UI loop and the worker keep running and HTTP transfers time out; nothing
\* is promised about the user, the card or the removal debounce.
FairSpec == Spec /\ WF_vars(UiLoop) /\ WF_vars(WorkerNext)

\* A device with a "tiles" partition: the flash cache is mounted from the boot
\* on and stays usable, whatever happens to the card.
FlashSpec == FairSpec /\ fallback = "flash"

-----------------------------------------------------------------------------
(* Properties                                                              *)

\* The pointer moves only between two requests: a request under way keeps the
\* backend it captured for every call it makes.
BackendStable == workerActive => using = backend

\* No request runs against a card that has been unmounted.
NoDeadCard == workerActive /\ using = "sd" => mounted

\* A pause that is still good for something ends: the swap lands, or the card
\* moves so that it is no longer wanted.
WantedSwapLands == swapRequested /\ WantsSwap ~> (~swapRequested \/ ~WantsSwap)

\* A pause waits for the one request under way and then ends
\* (UITask.cpp: "lets the queued backlog resume against the new backend"), at
\* least with the card gone and the flash cache mounted to download into.
PauseEnds ==
  swapRequested /\ ~card /\ ready /\ backend = "flash" ~> ~swapRequested
=============================================================================
