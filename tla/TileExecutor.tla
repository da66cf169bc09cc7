---------------------------- MODULE TileExecutor ----------------------------
(***************************************************************************)
(* The map-tile download path: services/TileRequestLedger (which requests  *)
(* are outstanding, which were asked for recently) and                     *)
(* platform/esp32/SharedNetworkExecutor (the FreeRTOS queue and the core-0 *)
(* worker, which also serves the priority jobs).  UI thread and worker     *)
(* interleave at every critical section, queue call and callback.          *)
(***************************************************************************)
EXTENDS Naturals, Sequences, FiniteSets

CONSTANTS
  Keys,            (* tile coordinates                                     *)
  QueueCapacity,   (* 64 in the source                                     *)
  RecentCapacity,  (* 48 in the source: smaller than the active ledger     *)
  TokenSpace,      (* 2^32 in the source: tokens are counted modulo this   *)
  MaxPriority,     (* bound: priority jobs posted in one behaviour         *)
  MaxClosings,     (* bound: reservations and swaps in one behaviour       *)
  NoWork           (* no tile in hand                                      *)

ActiveCapacity == QueueCapacity + 1

ASSUME TileAssumption ==
  /\ IsFiniteSet(Keys)
  /\ QueueCapacity \in Nat \ {0} /\ RecentCapacity \in Nat \ {0}
  /\ TokenSpace \in Nat /\ TokenSpace > ActiveCapacity + RecentCapacity + 1
  /\ MaxPriority \in Nat /\ MaxClosings \in Nat

Tokens == 1 .. (TokenSpace - 1)
Work == [key : Keys, token : Tokens]

ASSUME NoWorkAssumption == NoWork \notin Work

VARIABLES
  active,     (* _active: reserved and not yet retired                     *)
  recent,     (* _recent: a ring of dedup marks                            *)
  head,       (* _head                                                     *)
  pending,    (* _pending                                                  *)
  nextToken,  (* _nextToken                                                *)
  queue,      (* s_queue                                                   *)
  started,    (* s_task # nullptr                                          *)
  uiPC, uiWork,       (* enqueueTile between its steps                     *)
  workerPC, workerWork, retained, outcome,   (* taskMain's locals          *)
  admission,  (* the storage gate admits leases                            *)
  swapping,   (* a tile backend swap has been requested                    *)
  jobs, posted,       (* priority jobs waiting; how many were ever posted  *)
  closings            (* how many reservations and swaps there were        *)

ledger == <<active, recent, head, pending, nextToken>>
ui == <<uiPC, uiWork>>
worker == <<workerPC, workerWork, retained, outcome>>
env == <<admission, swapping, jobs, posted, closings>>
vars == <<ledger, queue, started, ui, worker, env>>

Outcomes == {"success", "retryable", "permanent"}

-----------------------------------------------------------------------------
(* TileRequestLedger                                                       *)

Marks == {recent[i] : i \in 0 .. (RecentCapacity - 1)} \ {NoWork}

Seen(k) == \E w \in active \cup Marks : w.key = k

\* Mutation: the counter only skips zero.
MutFreshTokenCounts == IF nextToken = TokenSpace - 1 THEN 1 ELSE nextToken + 1

\* The token loop of reserve(): counts on past zero and past every token that
\* an active or recent entry still carries.
FreshToken ==
  LET used == {w.token : w \in active \cup Marks}
      after(d) == (nextToken + d) % TokenSpace
      fresh(d) == after(d) # 0 /\ after(d) \notin used
  IN after(CHOOSE d \in 1 .. TokenSpace :
             fresh(d) /\ \A e \in 1 .. (d - 1) : ~fresh(e))

Reservable(k) == ~Seen(k) /\ Cardinality(active) < ActiveCapacity

Reserve(w) ==
  /\ active' = active \cup {w}
  /\ recent' = [recent EXCEPT ![head] = w]
  /\ head' = (head + 1) % RecentCapacity
  /\ pending' = pending + 1
  /\ nextToken' = w.token

\* retire(): nothing happens for a token that is not active.
Retire(token, forgetRecent) ==
  LET retired == {w \in active : w.token = token}
      forget == forgetRecent /\ retired # {}
  IN /\ active' = active \ retired
     /\ pending' = pending - Cardinality(retired)
     /\ recent' = [i \in DOMAIN recent |->
                     IF forget /\ recent[i] # NoWork /\ recent[i].token = token
                     THEN NoWork ELSE recent[i]]
     /\ UNCHANGED <<head, nextToken>>

-----------------------------------------------------------------------------
(* UI thread                                                               *)

\* queueTileForFetch / ensureRunning: the task is created once; creation may
\* fail for lack of memory and is tried again by the next request.
EnsureRunning ==
  /\ uiPC = "idle" /\ ~started
  /\ started' = TRUE
  /\ UNCHANGED <<ledger, queue, ui, worker, env>>

EnqueueTile(k) ==
  /\ uiPC = "idle" /\ started
  /\ Reservable(k)
  /\ LET w == [key |-> k, token |-> FreshToken]
     IN Reserve(w) /\ uiWork' = w
  /\ uiPC' = "reserved"
  /\ UNCHANGED <<queue, started, worker, env>>

QueueSend ==
  /\ uiPC = "reserved" /\ Len(queue) < QueueCapacity
  /\ queue' = Append(queue, uiWork)
  /\ uiPC' = "idle" /\ uiWork' = NoWork
  /\ UNCHANGED <<ledger, started, worker, env>>

\* Mutation: the queue call that fails loses the item without a rollback.
MutRollbackNothing ==
  /\ uiPC = "reserved" /\ Len(queue) = QueueCapacity
  /\ uiPC' = "idle" /\ uiWork' = NoWork
  /\ UNCHANGED <<ledger, queue, started, worker, env>>

\* xQueueSend failed on a full queue: a second critical section undoes it.
RollbackFull ==
  /\ uiPC = "reserved" /\ Len(queue) = QueueCapacity
  /\ uiPC' = "full"
  /\ UNCHANGED <<ledger, queue, started, uiWork, worker, env>>

Rollback ==
  /\ uiPC = "full"
  /\ Retire(uiWork.token, TRUE)
  /\ uiPC' = "idle" /\ uiWork' = NoWork
  /\ UNCHANGED <<queue, started, worker, env>>

Forget(k) ==
  /\ uiPC = "idle"
  /\ recent' = [i \in DOMAIN recent |->
                  IF recent[i] # NoWork /\ recent[i].key = k THEN NoWork ELSE recent[i]]
  /\ UNCHANGED <<active, head, pending, nextToken, queue, started, ui, worker, env>>

ClearRecent ==
  /\ uiPC = "idle"
  /\ recent' = [i \in DOMAIN recent |-> NoWork]
  /\ head' = 0
  /\ UNCHANGED <<active, pending, nextToken, queue, started, ui, worker, env>>

\* Firmware check, app store, Wi-Fi scan ...: any job the worker runs first.
PostJob ==
  /\ started /\ posted < MaxPriority
  /\ jobs' = jobs + 1 /\ posted' = posted + 1
  /\ UNCHANGED <<ledger, queue, started, ui, worker, admission, swapping, closings>>

\* A lifecycle reservation closes admission and reopens it; a backend swap is
\* requested and finished.  Neither takes effect while a tile runs under its
\* leases: they wait for it (StorageAccess.tla, TileBackend.tla).
CloseGate ==
  /\ admission /\ closings < MaxClosings
  /\ admission' = FALSE /\ closings' = closings + 1
  /\ UNCHANGED <<ledger, queue, started, ui, worker, swapping, jobs, posted>>

OpenGate ==
  /\ ~admission
  /\ admission' = TRUE
  /\ UNCHANGED <<ledger, queue, started, ui, worker, swapping, jobs, posted, closings>>

RequestSwap ==
  /\ ~swapping /\ closings < MaxClosings
  /\ swapping' = TRUE /\ closings' = closings + 1
  /\ UNCHANGED <<ledger, queue, started, ui, worker, admission, jobs, posted>>

FinishSwap ==
  /\ swapping
  /\ swapping' = FALSE
  /\ UNCHANGED <<ledger, queue, started, ui, worker, admission, jobs, posted, closings>>

-----------------------------------------------------------------------------
(* Worker: taskMain                                                        *)

\* runPriority: one job per iteration, under a storage lease.
RunPriority ==
  /\ started /\ workerPC = "loop"
  /\ admission /\ jobs > 0
  /\ jobs' = jobs - 1
  /\ UNCHANGED <<ledger, queue, started, ui, worker, admission, swapping, posted, closings>>

NoPriority ==
  /\ started /\ workerPC = "loop"
  /\ ~admission \/ jobs = 0
  /\ workerPC' = "polled"
  /\ UNCHANGED <<ledger, queue, started, ui, workerWork, retained, outcome, env>>

QueueReceive ==
  /\ workerPC = "polled" /\ ~retained
  /\ IF queue = <<>>
     THEN /\ workerPC' = "loop"
          /\ UNCHANGED <<queue, workerWork>>
     ELSE /\ workerPC' = "have"
          /\ workerWork' = Head(queue) /\ queue' = Tail(queue)
  /\ UNCHANGED <<ledger, started, ui, retained, outcome, env>>

UseRetained ==
  /\ workerPC = "polled" /\ retained
  /\ workerPC' = "have"
  /\ UNCHANGED <<ledger, queue, started, ui, workerWork, retained, outcome, env>>

\* Mutation: the deferred request is dropped from the worker's hands.
MutDeferredDropped ==
  /\ workerPC = "have"
  /\ ~admission \/ swapping
  /\ workerPC' = "loop"
  /\ workerWork' = NoWork
  /\ UNCHANGED <<ledger, queue, started, ui, retained, outcome, env>>

\* Mutation: the worker parks in front of the closed gate.
MutDeferredParks ==
  /\ workerPC = "have"
  /\ ~admission \/ swapping
  /\ retained' = TRUE
  /\ UNCHANGED <<ledger, queue, started, ui, workerWork, workerPC, outcome, env>>

\* runTile refused by the storage gate or the backend swap.
Deferred ==
  /\ workerPC = "have"
  /\ ~admission \/ swapping
  /\ retained' = TRUE
  /\ workerPC' = "loop"
  /\ UNCHANGED <<ledger, queue, started, ui, workerWork, outcome, env>>

\* runTile under its leases: fetched (or already cached), failed for now, or
\* refused by the server for good.
RunTile ==
  /\ workerPC = "have"
  /\ admission /\ ~swapping
  /\ outcome' \in Outcomes
  /\ retained' = FALSE
  /\ workerPC' = "done"
  /\ UNCHANGED <<ledger, queue, started, ui, workerWork, env>>

\* Without Wi-Fi the request fails before any lease is asked for.
NoWifi ==
  /\ workerPC = "have"
  /\ outcome' = "retryable"
  /\ retained' = FALSE
  /\ workerPC' = "done"
  /\ UNCHANGED <<ledger, queue, started, ui, workerWork, env>>

\* Mutation: the worker loops without retiring the token.
MutCompleteNothing ==
  /\ workerPC = "done"
  /\ workerPC' = "loop" /\ workerWork' = NoWork
  /\ UNCHANGED <<ledger, queue, started, ui, retained, outcome, env>>

Complete ==
  /\ workerPC = "done"
  /\ Retire(workerWork.token, outcome = "retryable")
  /\ workerPC' = "loop" /\ workerWork' = NoWork
  /\ UNCHANGED <<queue, started, ui, retained, outcome, env>>

-----------------------------------------------------------------------------

Init ==
  /\ active = {}
  /\ recent = [i \in 0 .. (RecentCapacity - 1) |-> NoWork]
  /\ head = 0 /\ pending = 0 /\ nextToken = 0
  /\ queue = <<>> /\ started = FALSE
  /\ uiPC = "idle" /\ uiWork = NoWork
  /\ workerPC = "loop" /\ workerWork = NoWork /\ retained = FALSE /\ outcome = "success"
  /\ admission = TRUE /\ swapping = FALSE
  /\ jobs = 0 /\ posted = 0 /\ closings = 0

UiNext ==
  \/ EnsureRunning \/ QueueSend \/ RollbackFull \/ Rollback \/ ClearRecent \/ PostJob
  \/ \E k \in Keys : EnqueueTile(k) \/ Forget(k)

WorkerStep ==
  \/ RunPriority \/ NoPriority \/ QueueReceive \/ UseRetained \/ Deferred \/ RunTile \/ Complete

WorkerNext == WorkerStep \/ NoWifi

EnvNext == CloseGate \/ OpenGate \/ RequestSwap \/ FinishSwap

Next == UiNext \/ WorkerNext \/ EnvNext

Spec == Init /\ [][Next]_vars

\* The worker task is never stopped and every callback of it returns (losing
\* the Wi-Fi is allowed, never relied on); the UI thread finishes
\* enqueueTile; a lifecycle reservation is released.
Progress ==
  /\ WF_vars(WorkerStep) /\ WF_vars(OpenGate)
  /\ WF_vars(QueueSend) /\ WF_vars(RollbackFull) /\ WF_vars(Rollback)

\* Nothing promises that a backend swap ends (TileBackend.tla says when it does).
FairSpec == Spec /\ Progress

-----------------------------------------------------------------------------
(* Properties                                                              *)

Held == {uiWork, workerWork} \ {NoWork}
Queued == {queue[i] : i \in DOMAIN queue}

\* The ledger's active entries are exactly the requests that are somewhere on
\* their way (UI thread, queue, worker), each of them once, and the pending
\* count the UI and the storage-busy checks read is their number.
LedgerExact ==
  /\ active = Held \cup Queued
  /\ pending = Cardinality(Held) + Len(queue)
  /\ pending = Cardinality(active)

\* No tile is fetched twice at a time, and no token names two requests: not
\* even after the 32-bit counter has wrapped.
NoDoubleFetch ==
  \A v, w \in active : (v.key = w.key \/ v.token = w.token) => v = w

\* If backend swaps end, every reserved request is retired in the end:
\* completed or rolled back.  Tiles are interchangeable: one stands for all.
EveryTileEnds ==
  LET k == CHOOSE key \in Keys : TRUE IN
  WF_vars(FinishSwap) => (\E w \in active : w.key = k) ~> ~(\E w \in active : w.key = k)

\* A priority job is served even if a swap keeps the tile in hand deferred.
PriorityServed == jobs > 0 ~> jobs = 0
=============================================================================
