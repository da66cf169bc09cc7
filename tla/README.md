# GUARD-MESH: TLA+ models, checks and proofs

GUARD-MESH is touch-screen firmware for ESP32 boards: a MeshCore companion radio
with a UI, durable message history on flash or SD, offline map tiles, over-the-air
updates, and a Bluetooth link to a "Guardian" service on a PC. This directory holds
TLA+ modules translated from that source, the TLC configurations that check them and
the theorems TLAPS proves about them.

## Inventory

Paths are relative to the repository. "Hard" names what a test hardly reaches.

| component | state | operations | interacts with | hard | correct when |
|---|---|---|---|---|---|
| `ui-touch/platform/StorageAccess` | one atomic word (two writer bits, reader count), the owner task | Reader (lease), Transition request/enter/release | every filesystem user | CAS interleavings, cancel while draining, nested borrow | the exclusive phase is exclusive; the count is exact; a reservation is served |
| `services/StorageMaintenance` | persistent reservation, start time, active flag | Attempt, cancel, destructor | StorageAccess, event loop ticks | deadline against late readiness, re-entry | never cancels its own active phase; bounded hold of admission |
| `services/SdHealthMonitor`, `SdRestoreJob` | mount state, absent samples; restore latch, request | tick, request | SD driver, StorageAccess, history, prefs | removal between samples, failed migration, reboot | no unmount under a lease; latch survives a failed migration |
| `services/TileRequestLedger`, `SharedNetworkExecutor` | active[65] tokens, recent ring[48], FreeRTOS queue, worker | enqueueTile, takeTile, completeTile, retire, clearRecent | UI, network worker, other jobs | UI and worker interleave; full queue; deferred work | a key is in flight once; pending count is exact; every request ends |
| `services/StagedFileInstall` | two staged entries, `.tmp`/`.bak` files | stage, commit, rollback, destructor | filesystem | each rename can fail; power loss | old or new content survives; leftovers are never overwritten |
| `services/HistoryService` | message ring, segment table, armed job, watermark | arm, run, commit, eviction, boot load | worker core, filesystem | crash between write and commit, eviction during a job | what the watermark claims is on disk; a segment is unlinked only when unused |
| `services/GuardianV3Client`, `GuardianV3Storage` | intent, caches, journals, A/B slots | execute, retryIntent, discardIntent, response, acceptEvent, tick, load/save | RpcLink, UI, PC service | lost answers, disconnects, failed or torn saves, reboot | a command is sent only when the user decided it; an outcome is never another command's; events acked only when stored |
| `models/GuardianRpc.h`, `GuardianRpcLink`, `GuardianLink` | one outstanding RPC, event queue, status sequence | begin, accept, timeout, reset, take | BLE interface, Client | answer after timeout, reset races | one owner per result; bounded queue |
| `helpers/esp32/GuardianBLEInterface` | pairing window, known/authenticated/connected flags | begin/stop pairing, callbacks | NimBLE host task, loop task | callbacks interleave with the loop | data only on an authenticated link |
| `helpers/MultiTransportCompanionInterface`, `CompanionRetryPolicy` | active transport, BLE enable state, retry clocks | poll, enable, suspend, send | USB, BLE, TCP, WebSocket | switch with frames in flight, clock wrap | replies go where the request came from |
| `services/AppStoreJobs`, `AppInventory`, `screens/AppStoreScreen` | job slots, list of installed apps, scan marks, busy flag | open, tap, scan, publish, install, remove, poll | network worker, staged install, filesystem | a scan older than a removal; a worker that cannot be created; a restart inside an install | the list is true of the card; nothing waits for nobody |
| `services/FirmwareUpdateJobs`, `WifiScanJob`, `SightlineJob` | per-job phase atomics | claim, run, take, fail, cancel | UI, network worker | worker publishes while UI cancels | a slot is owned by one side at a time |
| `ui-touch/SdNvsPrefs` | one RAM copy per namespace, two snapshot files each, a write queue, a writer task | load, set, tick, flush, `writeFileBool` | every settings store, filesystem | setters overtake the writer, cuts inside a snapshot, generation wrap, two tasks open one namespace | what a flush reported is what every later boot loads; no setting is undone |
| `MyMesh` message replay | ring of numbered messages, a cursor per client id, log and cursor files | receive, `CMD_SYNC_NEXT_MESSAGE`, live advance, append, compact, boot load | companion transports, filesystem | cuts inside append, compaction and swap; answers that are not taken; numbers after a boot | no message is passed over unseen; numbers ascend; what was logged survives |
| `MyMesh`, `DataStore`, `TouchPrefsStore`, `HeardNameService` | contacts, channels, offline queue, preference schemas | radio and companion frames, saves | MeshCore library, filesystem | save failure, queue limits | a save that fails loses nothing already stored; queues stay bounded |
| `UITask`, `screens/`, `widgets/`, `theme/`, `i18n/` | LVGL objects | drawing, input | everything | - | not modelled: layout |

The components that are not modelled, and why, are listed one by one in
`PROJECT.json`.

## Modules

| module | models | extends / instantiates |
|---|---|---|
| `StorageGate` | the promise of the storage gate, without its atomic word | |
| `StorageAccess` | the gate as it is coded, one action per access to an atomic | instance of `StorageGate` |
| `StorageAccessProofs` | its theorems | `StorageAccess` |
| `TileExecutor` | request ledger, FreeRTOS queue, network worker | |
| `TileExecutorProofs` | its theorems | `TileExecutor` |
| `TileBackend` | which filesystem the tile cache is on, and who moves it | |
| `TileBackendProofs` | its theorems | `TileBackend` |
| `HistoryStore` | ring, segment table, worker job, files, boot | |
| `HistoryStoreProofs` | its theorems | `HistoryStore` |
| `GuardianRpc` | the one outstanding request and the event queue | |
| `GuardianClient` | commands, event log and store on the device; the PC | `GuardianRpc` |
| `GuardianClientProofs` | its theorems | `GuardianClient` |
| `PrefsStore` | the settings store: RAM copies, snapshot files, writer task | |
| `PrefsStoreProofs` | its theorems | `PrefsStore` |
| `CompanionSync` | replay of messages to companion apps: ring, cursors, their files, connections | |
| `CompanionSyncProofs` | its theorems | `CompanionSync` |
| `StagedInstall` | installing several files together | |
| `AppStore` | the app store: jobs, list of installed apps, Store screen, removal, with the install inside | `StagedInstall` |
| `AppStoreProofs` | the theorems of both | `AppStore` |

`MC...` modules give instances for TLC. A definition whose name starts with `Mut` is a
plausible mistake in the definition below it; no specification uses one. Each property
was seen to fail with the mistake that `PROJECT.json` pairs it with.

### StorageGate and StorageAccess

`word` is `_state` (two writer bits and a reader count), `owner` is `_owner`. An
object is a `Reader` or a `Transition`; `pc` says how far its current call has come,
`seen` is the local copy of the word. A load, a compare-and-exchange, a fetch_sub or a
store is an action each, so that everything the memory order allows between
sequentially consistent accesses is interleaved. A task runs one call at a time
(`Free`), and what it borrows ends before what it was borrowed from: both are how C++
scopes nest in the callers.

The refinement mapping takes the leases that are counted, the objects that are borrowed,
the transition between its CAS and the clearing of its bits, and the active bit.

### TileExecutor

`active`, `recent`, `head`, `pending`, `nextToken` are the members of
`TileRequestLedger`; `queue` is the FreeRTOS queue; `uiPC` and `workerPC` are
`enqueueTile` and `taskMain` between their critical sections and queue calls. `Deferred`
is a request refused by the storage gate or by a backend swap, which the worker keeps in
its hands (`retained`). The transfer is its outcome.

### TileBackend

The UI thread runs the loop `reconcile, monitor, files, input` of `UITask::loop`;
`mapNoteStorageChanged` is a subroutine (`note, move, finish`, returning to `returnTo`).
`reservation` is the health monitor's `StorageMaintenance`, and the gate it closes is the
one `StorageGate` promises: no exclusive phase while a lease is out. The card goes in and
out at any time; the worker takes the storage lease, then the backend lease.

### HistoryStore

`ring` is the message ring with its tombstones, `h` the loop task's fields (table,
watermark `flushed`, armed job), `worker` the state word, `files` and `marker` the disk.
Ring, files and batches are sets of records: sequence numbers rise along each of them,
so the number is the order, and the oldest are those with the fewest below. `Tick`,
`Arm`, `TickDegraded`, `TickNoWorker` and `Settle` are the ways through
`flushHistoryIfDue`; each of them first settles a finished job (`Observe`). `Build` is
`segBuildJob`, `Commit` is `segCommitJob`, `Boot` is the loader. A synchronous save is a
sequence of steps (`drain`), one file each; `Remount` is a card taken out and put back,
or a blank one; `PowerCut` may leave any prefix of an append and either side of the
remove and rename of a rewrite, and with `RaggedTails` a record split in two. Migration
of the ring and the purge of leftovers are one step each, and both can fail. The record
codec, the thread index and the readers of the two older formats are left out: a record
is one that reads back, or one that does not.

Three fields of `used` are history, for promises that name an exception: `late` holds
the messages deleted between the end of a rewrite and its commit; `stray` says that a
synchronous save dropped a finished create whose first message was gone, so that its
file has no entry; `odd` says that a boot found what no save leaves, a split record, or
segments that overlap or are more than one scan returns.

### GuardianRpc and GuardianClient

`link` is `GuardianRpcLink` with the callbacks of the BLE task. `dev.ram` is `Client`,
`dev.base` the body in the active slot of `DurableStore`, `dev.ahead` a newer body that
was written and never confirmed, which a reboot would load. `Client::tick` is a sequence
`TickTake`, `TickEvent`..., `TickStart`, between whose calls the BLE task may run. The
answer to `events.list` is taken in by steps of its own, since each event of it is saved:
`TickList` takes the reply, `TickPage` the next event of `page`, `TickHeld` the next held
event that the page made contiguous; the BLE task runs, and the power may go, between any
two of them.
Between ticks the user may execute, retry, discard or refresh under the screen's guards.
`alerts` is the list of alerts, of `AlertsMax` places (20 in the source, `MaxItems`): each
is an emergency or not and seen or not. `Applied` is the set of bodies `upsertAlert` may
leave: when the list is full, one alert that is seen or no emergency gives way, and when
there is none, the event is refused (`Refusal`), is not acknowledged, and the replay
starts over. `Mark` is the user reading an alert; `alert.seen` tells the PC of it.
The PC is external and follows the protocol document; it may be slow, refuse, end a
command or restart, and it carries out a request that came whole even when the
connection broke after it.

Abstractions: an abort and the disconnect it leads to are one flag (`closing`);
`connected()` and `rpcConnect()` are one step; a broken fragment or a missed deadline is
`Fault`; the last fragment of a request and what the PC does with it are one step
(`Serve`), and a cut connection may leave the request to be served late; the two polls
without effect (capabilities, station) are one step. The backoff before a save is
retried is not timed. All commands have one radio and one action, the case in which only
their ids tell them apart. The device has saved once when the behaviour begins. Left
out: `alerts.list`, the events by which the PC passes on that another device has read an
alert, a PC that replaces or rewinds its event stream, and duplicate event ids under new
numbers.

### PrefsStore

`files` holds what is in the two paths of every namespace, `caches` the entries of
`s_caches` (contents are a version number), `queue` is `s_write_queue`, `writer` the job
in the hands of `prefsWriterTask`, `direct` a `writeFileBool` under way, `loader` a
second task inside `sdLoad`. A snapshot is written in the steps the code takes: open,
write, close and read back, each of which can fail or be cut. `Start` gives the files a
namespace may start with: none, the released single file, or two snapshots whose newer
one has the last generation before the counter wraps.

Left out: the record format (a file is a snapshot, plain records, nothing, or
unreadable), the mode without a card, in which the same calls go to NVS, and the import
from NVS.

### CompanionSync

`ring`, `nextSeq` and `cursors` are `history_ring`, `history_next_seq` and
`history_clients`; `conn` and `slotId` are the connections of
`MultiTransportCompanionInterface` and the ids it keeps for them, `live` the clients
that prefer live advance. `book` is what the flushing remembers, `disk` the log and the
cursor file with their `.tmp`, `io` the file job under way. All of it runs in the loop
task, so that messages, questions and file jobs come one after the other; a power cut
may come between two file calls and inside each. `CMD_REBOOT` is a sequence too
(`rebooting`): the log, the cursors, then the restart.

Left out: the other commands, the windows that coalesce writes, the text of the
messages, and the plain offline queue of apps that never ask for history.

### StagedInstall

`final`, `temp` and `back` hold the edition in the target, the `.tmp` and the `.bak` of
every entry; `pc` and `i` are the phase and the loop index of `stage`, `commit`,
`rollback` and the destructor. Every filesystem call may fail, and power may go between
any two. Writing a file and reading it back is one step that succeeds or fails.

### AppStore

`catalog`, `app` and `lang` are the slots of `AppStoreJobs`, `shown` is `appCount()`,
`inv` and `seen` are `AppInventory` and its `_pending` snapshot, `open` and `busy` the
Store's root and `s_luastore_busy` (which means nothing while the Store is closed, so it
is FALSE then), `up` says that the worker task exists. One app is followed; a file of it
holds an edition, the source is entry 1 and the manifest entry 2 of the install. The
worker takes one job at a time and prefers them in the order of `runOne`; a directory
scan is its two passes, each of which may fail. `poll()` of the Store is its four parts,
between which the worker may hand over a result. A removal is two unlinks and the look
at what is left. The other UI steps are taken while no install is moving files
(`UiFree`): they touch other state, so taking them before or after the install step is
the same. A removal is not like that, and the drawer starts one without a look at the
downloads, so its steps come in the middle of an install too.

`doubt` and `gone` are history. `doubt` says why the list may be wrong until the next
scan: `"files"`, an install ended in `CleanupFailed` or `RecoveryRequired`; `"crossed"`,
a removal was confirmed while a download of the app was under way or not taken. `gone`
says that the app was removed, with no download of it in between, and not asked for since.

Left out: the catalog of languages (a second job like the first), the restart after a
change of language, the texts, failures to allocate, and a manifest that is read short
(the app is then listed from its source, as "dev"). A file is opened at once.

## Runs

Each cfg lists its properties; `PROJECT.json` says in a sentence what each run shows.

| run | instance | why it is enough |
|---|---|---|
| `storage_gate` | two tasks, three leases, three transitions, count up to 2 | every pair of operations of two tasks meets; one task has all three object kinds of a nested scope; the count reaches its limit |
| `tiles` | three tiles, queue of 1, ring of 2, tokens modulo 6, one priority job, one reservation or swap | more tiles than the ledger holds, a full queue, marks that outlive and predecease their request, a token counter that wraps over live tokens |
| `tile_backend`, `tile_backend_pause` | two queued tiles, the card moved three times; once in the second, which starts with the flash cache | removal, reinsertion and a second removal around one request; with and without a flash partition. The second fails, as said below |
| `history_worker` | ring 3, segments of 2, table 3 (the smallest legal), five messages; two deletes, one synchronous save, one failed worker write | eviction, a full and a partial segment, a job of each kind, each racing each of these; a save that drops a job; a message deleted while the compaction for another, or the repair after a failure, is under way; the table is at its cap, so progress depends on the retirement of segments |
| `history_cut` | ring 3, segments of 2, table 6, four messages; one delete, one reboot, one remount, one failed synchronous write, two cuts, `RaggedTails` | a cut during each kind of write, inside a record, during the re-land after a remount, and during the recovery from it; a save before and after each |
| `guardian` | two commands, one alert, log of 3, journal 1, windows of 2, one retry, one fault | the journal overflows with the second command; the outcome of one command next to the other's; one break, failed save, reboot or refresh at every point |
| `guardian_live` | a list of one alert, one command, two alerts, emergencies or not, log of 2, the user reads one alert, one fault | the list is full at the second alert: it evicts, refuses, or waits for the user; a fault anywhere, then recovery |
| `prefs` | two cached namespaces and one direct, queue of 1, generations modulo 4, two changes, one failure, one cut | a full queue, a setter that overtakes the writer, the wrap, a cut inside every step of either writer |
| `companion` | one slot, one app with an id and one without, ring of 2, three messages, two connections, one failure of any file call (the renames included), one cut or reboot | the ring overflows, the log is appended to and compacted, both swaps fail or are cut at every point, an id is left behind on the slot |
| `app_store` | one app of two files (as in the source), two installs after the first edition, languages while the second edition is the last | leftovers of one install meet the next; a removal from Store or drawer before, during and after an install; a scan around each; a restart at every step, with and without a worker |
| `app_store_drawer` | the same with one install after the first edition | fails, as said below: a removal, then an answer that was not taken |

Constants that are bounds of the environment are `Max...`: they limit how often
something happens in one behaviour, never what the program does. Sizes keep the order
they have in the source where a property depends on it: the ledger is the queue plus
one (65 = 64 + 1), the table holds more records than the ring (`SizesAssumption`), the
event queue and the held events are as long as the window. `MaxUnsaved` says that
messages come slower than saves: without it the ring can overwrite what was never
written, which the code accepts. `RaggedTails` lets a cut split a record (TRUE in
`history_cut`; `history_worker` has no cuts). `PublishGap` lets the loop task run between
the worker's two stores and is FALSE in both, for the reason below. Deadlock is checked
everywhere but in `app_store`, `app_store_drawer`, `prefs` and `companion`, where
behaviour ends when nothing more is asked for.

Some properties name what they leave out, so that it can be seen from the property what
the code does not keep: `QuietDropsDeleted` a delete in the tick between a rewrite and
its commit (`used.late`) and a stranded file (`used.stray`); `CutKeepsDurable` the time
until a remounted card is landed again, and both it and `RebootSavesAll` what follows a
failed write or an odd boot (`Regular`); `RowsAreTrue` and `RemovedStaysAway` a removal
that crossed a download, and the first of them files in doubt; `LoggedStays` the rewrite
that opens the only copy (`OnlyCopyReopened`); `AlertsArrive` and `OutcomeArrives` a list
full of emergencies nobody has read (`Crowded`). In the runs each of these happens; the
claim without the exception is in the module or below, with what breaks it.

### Fairness

- `storage_gate`: a task finishes the call it is in (FreeRTOS schedules it); scopes
  end; a reservation is polled on each loop tick. The last two are strong, since the
  task may do other calls in between.
- `tiles`: the worker loops for ever and its callbacks return (HTTP has timeouts), the
  UI finishes `enqueueTile`, a reservation is released. That a swap ends is an
  assumption of `EveryTileEnds` itself, since `tile_backend_pause` shows that one may
  not.
- `tile_backend`: UI loop and worker run; nothing is assumed of the user, the card or
  the removal debounce.
- `history_worker`: the worker is scheduled, the loop ticks, a flush becomes due.
- `prefs`: the writer task is scheduled, the loop ticks, a time-out passes. `companion`:
  the loop task runs and what is dirty becomes due; a reboot asked for goes on. Setters,
  apps, messages, failures and cuts are free.
- `guardian_live`: the loop ticks, the radio reconnects, the PC serves and pushes.
  Users, commands and alerts are free.

## What is proved

TLAPS proves for every number of tasks, objects, tiles, files, namespaces, messages,
clients, installs, scans, moves of the card, failures, power cuts and restarts:

- **The gate** (`StorageAccessProofs`): type correctness, `ExclusivePhase`,
  `OneReservation`, `CountIsExact`, `BorrowedInside`, `DrainsMonotonically`, and that
  the word implements `StorageGate`. The properties are not inductive by themselves.
  `IInv` (in `StorageAccess`) adds that a task is in one call at a time (`Sequential`),
  that the owner is the holder's task from its publication to its withdrawal and nobody
  outside (`OwnerOfHolder`), that an active word is drained and reserved
  (`ActiveIsDrained`), and that a borrower whose owner matched is still covered by it
  (`OwnedIsOwner`): the CAS of a borrow is safe only because the owner cannot leave its
  own call. Cardinality facts are confined to `CountStep`. The refinement takes each
  step to the step of the gate of the same name, or to a stutter.
- **The tile downloads** (`TileExecutorProofs`): `NoDoubleFetch` and `LedgerExact`, and
  that `reserve` always finds a token. The ledger alone says nothing of where a request
  is, so the invariant follows it: `Hands` says by the place in the code whether the UI
  thread or the worker holds one, `OnePlace` that no two of the UI thread, the worker
  and the slots of the queue hold the same, `Counted` that these together are the active
  set and that `pending` is its size. `FreshTokenIsFresh` is the pigeonhole argument
  behind the search for a token after the counter has wrapped: the tokens passed over
  are all in use, so there are at most as many as active requests and marks, fewer than
  there are tokens.
- **The tile backend** (`TileBackendProofs`): `BackendStable` and `NoDeadCard`. They
  need `MoveInv`, that the pause stands and no request runs from
  `tileBackendSwapTryBegin` to the end of the move, and `LostCardInv`, that between the
  loss of a card and the pause the reservation of the health monitor (or an empty
  backlog) keeps the worker out.
- **The staged install** (first part of `AppStoreProofs`): type correctness,
  `OldOrNewSurvives`, `OutcomeIsTruthful`, `LeftoversUntouched`. The inductive invariant
  puts every entry in one of five conditions (untouched, moved to its backup, replaced,
  replaced with the backup gone, removed by the user once it was published) and says for
  each phase which of them lie before and which behind the loop index; after a power cut
  only `OldOrNewSurvives` remains, which is what the next install starts from.
- **The app store** (`AppStoreProofs`): `RowsAreTrue`, `RemovedStaysAway`,
  `WaitsAreServed`, and that the install keeps `OldOrNewSurvives` and
  `OutcomeIsTruthful` next to removals and restarts. `RowsAreTrue` speaks of moments at
  which nothing is in progress, so the invariant must say what the list is while
  something is: `RowsInv` relates the list, and the snapshot a scan has collected, to
  the card as it was before the install under way (`Was`). `WasKept` shows that this
  does not change while the install runs, and `EndOfInstall` that a failed one without
  doubt goes back to it; both rest on the invariant of the install, which is carried
  along (`InstallStep`) and holds through removals at any of its steps. `CrossInv` says
  that a removal next to a download of the app is marked, and that an install without
  such a mark has all of its files. `GoneInv` follows a removed app through every scan
  that could bring it back: each is marked, or has not seen it.
- **The settings** (`PrefsStoreProofs`): `FlushedSurvives`, `CleanIsDurable` and
  `NothingReverts`. `FlushedSurvives` speaks of what a boot would choose, which is no
  help while a file is being rewritten. The invariant `PInv` therefore says which of the
  two files of a namespace may be rewritten now, and that the other one holds what was
  vouched for under the generation just before (`Based`). It says so of every cache,
  with what the cache believes of its files (`CacheInv`), and of the direct write
  (`DirectInv`); each queued job and the writer's were made from that belief and are the
  only one for their namespace (`QueueInv`, `WriterInv`); the two files never stand
  further apart than one generation (`FileInv`). Two consecutive generations are all
  that `newerGeneration` ever compares, which is why the wrap is harmless for every even
  size from four up. `LoaderInv` says that a slow loader still holds what a boot would
  choose, unless the faster one has inserted its cache and the slow one is discarded.
- **The replay to companion apps** (`CompanionSyncProofs`): `NothingElsePassedOver`,
  `NumbersAscend`, `CleanIsDurable` and `LoggedStays`, failing renames included; the one
  step that `LoggedStays` leaves out breaks it (see below). None is inductive, since a
  boot brings back cursors and entries from up to four files. `SInv` says that the
  cursors in RAM, in the cursor file and in its `.tmp` all pass over nothing but what
  was handed out or excused, counted over the entries of the ring, the log and its
  `.tmp` together (`FilesInv`, `RingInv`), so that no mixture of an old and a new file
  can go wrong; that a message keeps its number wherever it stands (`EntriesInv`), for
  an entry that is offered to be known as the one that was logged; and that no saved
  cursor reaches the next number saved with it. `LogInv` says that the log ends with the
  flushed part of the ring and that the rest comes after all of the log, unless it is
  due for a rewrite: that is why the log and the part still to be appended, cut
  anywhere, rise, and why an append pushes out of reach only what the ring has lost too
  (`PartOfAppend`). `JobInv` and `SwapInv` say what the `.tmp` holds when the file is
  away.

- **The Guardian client** (`GuardianClientProofs`): `NoForgottenCommand`,
  `SendsAreDecisions`, `OutcomeIsTheCommands`, `AckedIsStored` and `AckedOutcomeKept`, all
  from one inductive invariant, `GInv`. Four of the five speak of every body that a reboot
  may load, so `GInv` says the same of memory and of both slots (`Sound`), and that no
  slot is behind the memory (`SlotsOk`): a save that fails may have been written all the
  same, and what it holds may come back. `LinkOk` ties the request, the reply on its way
  and the reply received to the operation the client waits for, and `AllSent` says of an
  event, wherever it is (queue, page, held), that it is the one of its number in the log
  of the PC; so an event that repeats, comes early or comes late tells nothing that is
  not so. `AcksOk` does the same for requests that the PC carries out after the connection
  broke: such an `events.ack` names a number at or below the cursor, such a
  `control.execute` a token that has been used. `KeptOk` finds the outcome of a command at
  or below the cursor in the command or in the journal, and `ListOk` an emergency at or
  below the cursor in the list, unless the user has read it: only what was read, or is no
  emergency, gives way in a full list. `CreditOk` says that an armed send
  has a decision left to spend. `LiveOk` is the claim of `NoForgottenCommand` for commands
  that are armed, being sent, served late or carried out. The state is split among these
  parts so that a step of the radio, of the PC or of the store disturbs few of them
  (`DevStep`, `LinkStep`, `PcStep`); `AcceptHandled` covers the ways through
  `acceptEvent`.

- **The history** (`HistoryStoreProofs`): `WatermarkIsDurable`,
  `TrustedEntryMatchesFile`, `CutKeepsDurable`, `RebootSavesAll` and
  `QuietDropsDeleted`, for a ring and segments of every size and any number of messages,
  deletes, acknowledgements, saves, cuts (inside a record too) and failed worker writes.
  The first four follow from `HInvariant` (`Promises`), the last from `HInvariant` and
  `BuryInv` (`QuietBuries`). Its heart is `Book`, which relates the ring, the files and
  the table when no work is out: each entry has room for what is live in its range, and
  ranges do not overlap (`TableInv`); every live message up to the watermark lies in the
  range of an entry, and in its file unless a rewrite is flagged (`CoverInv`); no file
  reaches past the watermark (`BelowInv`) or into the range of the next entry
  (`SpanInv`); and an entry no rewrite is due on describes its file (`TrustInv`). The
  worker makes this untrue for one segment at a time: its file is ahead of the table
  between the write and the commit a tick later (`Ahead`), and `Landed` says what is in
  it. `Plan` says what an armed job was made for, in terms that the messages received,
  deleted and evicted meanwhile do not disturb, so that the commit restores `Book`
  against the ring of that moment (`CommitAppendBook`, `CommitCompactBook`). A finished
  create that a synchronous save drops leaves a file without entry; `Stray` says that
  the append the save begins with creates the same segment again. A cut is seen from the
  boot that follows: what it leaves still holds what the files held (`LeftBy`), a split
  record apart, which was not covered yet; `OffInv` carries the promise to the power-on,
  and from orderly files the booted state meets `Book` again, because a boot rebuilds
  table and watermark from them.

  `BuryInv` is about the dead: `GhostInv` says that a deleted message stands in a file
  only where the entry of that file is flagged for a rewrite, where a rewrite is under way
  (`Replacing`), or in the file of an append whose commit will flag it (`JustAppended`,
  `ReDelete`, `CommitBuries`). The worker writes live messages only (`Contents`), so a dead
  one gets into a file by being deleted after the job was made. The messages of
  `used.late` are left out of it, as they are of the property.

  There are two hypotheses, each needed: with a part of it dropped, TLC shows the
  properties violated by what the code does (rows below). `Steady`, of the constants: the
  two stores of the worker are seen together, and writes of the worker fail only in runs
  without cuts and reboots, which forget the repair that is owed. `Undisturbed`, of the
  history so far: no remount, no failed synchronous write, no stranded file, and no boot
  from a split record, from overlapping segments or from more files than one scan
  returns. So a cut at any step, one that splits a record included, and the boot after it
  are in; what the device does after a boot from a split record is not, since there it
  loses messages. The constants of both history runs satisfy `Steady`, and the runs go
  beyond the theorems: `history_cut` by a remount and what follows it, both runs by
  stranded files.

The assumptions are those of the constants (`GateAssumption`, `TileAssumption`,
`NoWorkAssumption`, `BackendAssumption`, `NAssumption`, `MaxEditionsAssumption`,
`TwoFiles`, `LangAssumption`, `PrefsAssumption`, `SyncAssumption`,
`GuardianRpcAssumption`, `GuardianClientAssumption`, `SizesAssumption`) and the two
hypotheses of the history. The inductive invariants were model-checked on the
instances of the runs before they were proved (`GInv` with a log of two, `HInvariant` and
`BuryInv` up to the first state their hypotheses exclude).

Every safety property of a passing run is a theorem, those of the history under the
hypotheses above. Model-checked only: the liveness properties, since liveness under
fairness is outside the prover. The type
invariants of the gate and of the staged install, and `OneReservation` and
`DrainsMonotonically` of the gate, are theorems and no longer properties of a run.

## Disagreements between code and comments

Two are runs that fail, as stated in `PROJECT.json`.

- `tile_backend_pause`: with a flash partition, so that the cache is mounted and healthy
  all along (`FlashSpec`), a swap deferred behind a request stops being wanted when the
  card is lost before the retry, and nobody ends the pause; tiles stay deferred. The
  comment (UITask.cpp:15119-15121) says that a pause waits for one request only and then
  lets the backlog resume.
- `app_store_drawer`: a long press in the drawer removes an app (UITask.cpp:22541)
  without a look at the downloads, which the Store does. With a download finished and not
  taken, `installed` lists the removed app again, and the list stays valid. The comment
  on `installed` (AppInventory.cpp:199) counts on its result being the newer.

More were met while modelling. They need combinations of events that the passing runs
leave apart, or that a property names as its exception, and the passing runs claim no
more. To see one, give the constants the values of the row and check the property.

Of `HistoryStore`; take `RingCap=4 SegRecords=2 SegMax=3 SyncAfter=2 MaxUnsaved=2
MaxSeq=6`, every other bound 0, both flags FALSE, and change:

| invariant | change | what happens |
|---|---|---|
| `WatermarkIsDurable` | `MaxPowerCuts=1 RaggedTails=TRUE` | the loader skips a record that a cut split, but leaves it in the file; the next append lands behind it and is unreadable, while the watermark covers it (HistoryService.cpp:426). The comment at 905 says that the loader truncates it and nothing else is at risk |
| `NoDeletedReturns` | `MaxDeletes=1 MaxPersists=1` | a finished create that a synchronous save drops (1551) has a file and no entry; a message deleted then comes back at boot |
| `NoDeletedReturns` | `MaxDeletes=2` | a delete between the end of a compaction and its commit is not marked again (1322) |
| `NoDeletedReturns` | `MaxDeletes=1 MaxWorkerFails=1` | the same after an append that failed: a delete between the end of its repair and the commit is not marked again (1322) |
| `QuietIsCurrent` | `MaxAcks=1` | an acknowledgement during the append of its message is never written (1316) |
| `WatermarkIsDurable` | `MaxPersists=1 MaxSyncFails=1` | a synchronous create that fails leaves an entry without a file; the next append makes one without a header (1501) |
| `AgedOutIsUnlinked` | `MaxSeq=8 MaxAcks=1 MaxUnsaved=1` | evictions during a compaction are overwritten by its commit (1272); the segment stays |
| `WatermarkIsDurable` | `MaxDeletes=2 MaxPersists=2` | creates that a synchronous save drops after their first message was deleted leave files that no entry names; together with the table they exceed what one scan returns (1099), and the newest segment is not loaded |
| `WatermarkIsDurable` | `MaxDeletes=2 MaxPersists=1 MaxPowerCuts=1` | such a file overlaps the segment that is created instead; the boot makes entries of both, and the synchronous save that appends to one by rewriting it gathers too many records and drops the newest (1503) |
| `WatermarkIsDurable` | `MaxPersists=1 MaxPowerCuts=1 MaxUnsaved=9 MaxSeq=7` | the same when the ring wraps round while the create is out |
| `TrustedEntryMatchesFile`, `WatermarkIsDurable` | `MaxWorkerFails=1 MaxPowerCuts=1` | an append that failed part way leaves a ragged tail and owes a repair; the debt is in memory only, and the boot after a cut takes the file for sound (426) |
| `TrustedEntryMatchesFile` | `MaxWorkerFails=1 MaxReboots=1` | the same after a reboot |
| `WatermarkIsDurable` | `MaxWorkerFails=1 PublishGap=TRUE` | a tick between the worker's two stores clears the failure and the next commits it (1610) |
| `LeftoversAreHarmless` | `RingCap=3 MaxRemounts=1 MaxPowerCuts=1` | old and re-landed files exceed what one scan returns (1099); live messages are not loaded |

With a delete, a remount, a cut and `RingCap=3 SegMax=6 MaxSeq=5`, a leftover file that
overlaps a re-landed one makes a synchronous save drop the newest record of a range
(1503), another way to break `WatermarkIsDurable`. `CutKeepsDurable` and
`RebootSavesAll` leave out what follows an odd boot and what follows a failed
synchronous write (`Regular`): without either, each fails with the constants of
`history_cut`. The first for the overlap above, which a cut in a re-land leaves, and for
the split record of the first row. The second because a rewrite removes the file before
it renames the new one (HistoryFileStore.h:27), so that a failed rename and a power cut
lose what was durable, and for the entry without a file of the sixth row.

Of `PrefsStore`, with the constants of `prefs` and `MaxFails=0`: `NeverDefaults` fails.
SdNvsPrefs.h (16-19) says that an interrupted write cannot turn the settings into
defaults; when the very first snapshot of a namespace is cut, `sdLoad` refuses the
namespace (SdNvsPrefs.cpp:583), and nothing is cached or written for it any more.

Of `CompanionSync`, with the constants of `companion`:

| property | what happens |
|---|---|
| `NothingWaitingMeansAllHanded` | the cursor of a new client is `next_seq - count`, which is the number of the oldest message in the ring; that message is never handed over (MyMesh.cpp:1617). MyMesh.h (1384-1390) says that the ring is there for apps which were not connected |
| `PlainAppsAreTheirSlot` | the id an app sent stays on its slot when it disconnects; the next app there, without an id, is taken for it (MultiTransportCompanionInterface.cpp:651) |
| `LoggedSurvives` | a rename that fails leaves the `.tmp` as the only copy; the comment (MyMesh.cpp:1493) counts on the loader to adopt it, but the next try truncates it first. `LoggedStays`, the property of the run, is the same but for that step |

`excused` in `NothingElsePassedOver` names the two ways in which the code passes over a
message on purpose: that first cursor, and the live advance, which moves the cursor of
every live client, connected or not (MyMesh.cpp:164). A ninth client id gets no history
at all.

Of `AppStore`, read from the code; the model has `doubt` for the first and shows the
second as a list that is not valid:

- An install that ends in `CleanupFailed` or `RecoveryRequired` has changed files, and
  is treated as one that changed none: the row of the older edition stays, with the list
  still valid, until something else asks for a scan.
- A discard mark that is set while a scan is still queued (AppInventory.cpp:202, 216)
  throws away a scan that begins after the change and would have been right.

Of `GuardianClient`, read from the code and not stated as properties: an older pending
event after the answer to `command.get` sets a completed command back to executing
(GuardianV3Client.cpp:232), until the completion event follows; `Client::execute` relies
on the screen for the check that no request is under way; a first save that is torn
leaves a store that reports damage; and a save that fails while a `command.get` answer
for a resolved command is taken (308) leaves the intent resolved with its command
unknown.

## Not modelled

Beyond the components `PROJECT.json` names as such: timing (deadlines and backoffs are
choices), memory exhaustion apart from the worker that cannot be had, and the weaker
orderings of the C++ memory model (every atomic access is taken as sequentially
consistent).

## Plan

Done, in this order: `StorageGate`, `StorageAccess` and proofs; `TileExecutor`,
`TileBackend` and proofs; `HistoryStore` and proofs; `GuardianRpc`, `GuardianClient` and
proofs; `StagedInstall` and proofs; `PrefsStore` and proofs; `CompanionSync` and proofs;
`AppStore` and proofs. Next:

1. `SdMigration`: the move of the settings and the mesh data from flash to the card at
   boot (main.cpp) and by hand (`SdRestoreJob`), with its NVS latch, its markers and the
   boot decision that adopts or blocks a card.
2. `StorageMaintenance` over `StorageGate`: the deadline against late readiness,
   re-entry, the task that made the reservation.
3. The firmware, scan and sightline jobs, with the abstract promise that one side owns
   a slot at a time.
4. `CompanionTransports`: the switch with frames in flight; BLE pairing beside it.
5. Message ingress and the offline queue of `MyMesh`.
