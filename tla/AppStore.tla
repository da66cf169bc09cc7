------------------------------- MODULE AppStore -------------------------------
(***************************************************************************)
(* The app store: AppStoreJobs (what the UI asks the shared worker to      *)
(* fetch), AppInventory (the list of installed apps, scanned by the worker *)
(* and published by the UI), the Store screen, and the install itself,     *)
(* which is StagedInstall.  One app is followed, with two files: entry 1   *)
(* is its source, entry 2 its manifest.  The UI thread and the worker      *)
(* interleave at every hand-over; the device may restart at any point.     *)
(* What is left out: the catalog of languages (a second instance of the    *)
(* catalog job), allocation failures, and a manifest read short.           *)
(* The Mut... definitions are plausible mistakes; no specification uses    *)
(* them.                                                                   *)
(***************************************************************************)
EXTENDS StagedInstall

CONSTANT
  LangEditions  \* bound: a language is asked for while edition is at most this

ASSUME TwoFiles == N = 2
ASSUME LangAssumption == LangEditions \in Nat

VARIABLES
  catalog,     \* the job of the app catalog; Ready is "ready" or "failed"
  shown,       \* appCount(): 0 loading, -1 unavailable, 1 for some
  app, lang,   \* the download jobs; Ready is "ok" or "failed"
  inv,         \* AppInventory
  seen,        \* _pending: what the scan has found
  open, busy,  \* s_luastore_root is there; s_luastore_busy, dead while it is not
  up,          \* the worker task has been created
  removal, removed,  \* where the UI is in luaStoreRemoveApp; its removed
  gone,        \* history: the app was removed and not asked for since
  doubt        \* history: why the list may be wrong until the next scan

install == vars
ask     == <<catalog, shown, app, lang>>
list    == <<inv, seen>>
screen  == <<open, busy, removal, removed>>
allVars == <<install, ask, list, screen, up, gone, doubt>>

Dev     == -2      \* listed from its source alone, as version "dev"
NoScan  == [row |-> Absent, valid |-> FALSE]
Fresh   == [state |-> "idle", row |-> Absent, valid |-> FALSE,
            rescan |-> FALSE, discard |-> FALSE]
Active(v)       == v.state # "idle"
DownloadsActive == app # "idle" \/ lang # "idle"

\* What a scan of /apps would list now.
Listing == IF final[2] # Absent THEN final[2]
           ELSE IF final[1] # Absent THEN Dev ELSE Absent

-----------------------------------------------------------------------------
(* AppInventory, as functions from its state to its state.                  *)

Requested(v) == IF Active(v) THEN [v EXCEPT !.rescan = TRUE]
                ELSE [v EXCEPT !.state = "queued"]

Cancelled(v) == IF v.state # "queued" THEN v
                ELSE [v EXCEPT !.state = "idle", !.rescan = FALSE, !.discard = FALSE]

Published(v) == IF v.discard THEN v
                ELSE [v EXCEPT !.row = seen.row, !.valid = seen.valid]

Polled(v) ==
  LET free == [Published(v) EXCEPT !.state = "idle", !.discard = FALSE, !.rescan = FALSE]
  IN IF v.state # "ready" THEN v ELSE IF v.rescan THEN Requested(free) ELSE free

Invalidated(v) ==
  [v EXCEPT !.valid = FALSE, !.discard = @ \/ Active(v), !.rescan = @ \/ Active(v)]

Prepared(v, force) ==
  LET w == IF force THEN Invalidated(Polled(v)) ELSE Polled(v)
  IN IF w.valid \/ Active(w) THEN w ELSE Requested(w)

MutInstalled(v, k) == [v EXCEPT !.row = k]
MutRemoved(v)      == [v EXCEPT !.row = Absent]

Installed(v, k) == [v EXCEPT !.discard = @ \/ Active(v), !.row = k]
Removed(v)      == [v EXCEPT !.discard = @ \/ Active(v), !.row = Absent]

\* ensureTileFetchTaskRunning: creating the task may fail, once made it stays.
StartWorker == up' \in {up, TRUE}

\* luaStoreScanInstalled
ScanInstalled(v, force) ==
  LET w == Prepared(v, force)
  IN /\ IF Active(w) THEN StartWorker ELSE UNCHANGED up
     /\ inv' = IF up' THEN w ELSE Cancelled(w)
     /\ seen' = IF w.state \in {"idle", "queued"} THEN NoScan ELSE seen

-----------------------------------------------------------------------------
(* The UI thread: the Store, the drawer and the status bar.                 *)

(* Apart from a removal the UI does nothing that reads or writes the files  *)
(* of an install, so its steps commute with those that move them: they are  *)
(* taken before the install or after it.  A removal in the middle is not    *)
(* like that, and leaves no scan that another step could publish.           *)
UiFree == removal = "no" /\ pc = "off"

MutOpen ==
  /\ UiFree /\ ~open /\ open' = TRUE /\ busy' = DownloadsActive /\ StartWorker
  /\ inv' = IF up' THEN Requested(inv) ELSE Cancelled(Requested(inv))
  /\ shown' = IF shown = 1 THEN 1 ELSE 0
  /\ catalog' = IF catalog = "idle" /\ shown < 1 THEN "queued" ELSE catalog
  /\ UNCHANGED <<install, app, lang, seen, removal, removed, gone, doubt>>

Open ==
  /\ UiFree /\ ~open /\ open' = TRUE /\ busy' = DownloadsActive /\ StartWorker
  /\ inv' = IF up' THEN Requested(inv) ELSE Cancelled(Requested(inv))
  /\ shown' = IF ~up' THEN -1 ELSE IF shown = 1 THEN 1 ELSE 0
  /\ catalog' = IF up' /\ catalog = "idle" /\ shown < 1 THEN "queued"
                ELSE IF ~up' /\ catalog = "queued" THEN "idle" ELSE catalog
  /\ UNCHANGED <<install, app, lang, seen, removal, removed, gone, doubt>>

Close ==
  /\ UiFree /\ open /\ open' = FALSE /\ busy' = FALSE
  /\ UNCHANGED <<install, ask, list, removal, removed, up, gone, doubt>>

(* The drawer lists the apps and rescans when the list is not valid.        *)
OpenDrawer ==
  /\ UiFree /\ ~open /\ ScanInstalled(inv, FALSE)
  /\ UNCHANGED <<install, ask, screen, gone, doubt>>

Queued == IF up' THEN "queued" ELSE "failed"   \* or failQueuedDownloads

TapInstall ==
  /\ UiFree /\ open /\ ~busy /\ shown = 1 /\ ~DownloadsActive
  /\ edition < MaxEditions /\ StartWorker
  /\ app' = Queued /\ busy' = TRUE /\ gone' = FALSE
  /\ UNCHANGED <<install, catalog, shown, lang, list, open, removal, removed, doubt>>

(* A language is downloaded.  Its catalog was fetched, so the worker exists. *)
TapLanguage ==
  /\ UiFree /\ open /\ ~busy /\ up /\ ~DownloadsActive
  /\ edition <= LangEditions
  /\ lang' = "queued" /\ busy' = TRUE
  /\ UNCHANGED <<install, catalog, shown, app, list, open, removal, removed, up, gone, doubt>>

(* Removal, from the Store or, after a long press, from the drawer, which   *)
(* does not look whether a download is active.                              *)
TapRemove ==
  /\ removal = "no" /\ inv.row # Absent
  /\ open => ~busy
  /\ removal' = "source" /\ removed' = TRUE
  /\ doubt' = IF app = "idle" THEN doubt ELSE doubt \cup {"crossed"}
  /\ UNCHANGED <<install, ask, list, open, busy, up, gone>>

RemoveFile ==
  LET p == IF removal = "source" THEN 1 ELSE 2
  IN /\ removal \in {"source", "manifest"}
     /\ removal' = IF p = 1 THEN "manifest" ELSE "end"
     /\ \/ /\ final[p] # Absent /\ final' = [final EXCEPT ![p] = Absent]
           /\ orig' = [orig EXCEPT ![p] = IF p \in installed THEN Gone ELSE back[p]]
           /\ UNCHANGED removed
        \/ /\ removed' = (removed /\ final[p] = Absent)
           /\ UNCHANGED <<final, orig>>
     /\ UNCHANGED <<temp, back, pc, i, count, flags, error, edition, ask, list,
                    open, busy, up, gone, doubt>>

RemoveEnds ==
  /\ removal = "end" /\ removal' = "no" /\ removed' = FALSE
  /\ ScanInstalled(IF removed THEN Removed(inv) ELSE inv, TRUE)
  /\ gone' = (gone \/ (removed /\ app = "idle"))
  /\ UNCHANGED <<install, ask, open, busy, doubt>>

(* The parts of poll(), which runs while the Store is open; the worker may  *)
(* hand over a result between any two of them.                              *)
TakeCatalog ==
  /\ UiFree /\ open /\ catalog \in {"ready", "failed"} /\ catalog' = "idle"
  /\ shown' = IF catalog = "ready" THEN 1 ELSE -1
  /\ UNCHANGED <<install, app, lang, list, screen, up, gone, doubt>>

TakeLanguage ==
  /\ UiFree /\ open /\ lang \in {"ok", "failed"} /\ lang' = "idle"
  /\ busy' = (app # "idle")
  /\ UNCHANGED <<install, catalog, shown, app, list, open, removal, removed, up, gone, doubt>>

TakeApp ==
  /\ UiFree /\ open /\ app \in {"ok", "failed"} /\ app' = "idle"
  /\ busy' = (lang # "idle")
  /\ inv' = IF app = "ok" THEN Installed(inv, edition) ELSE inv
  /\ UNCHANGED <<install, catalog, shown, lang, seen, open, removal, removed, up, gone, doubt>>

(* The status bar polls the inventory too, with the Store closed.           *)
PollInventory ==
  /\ UiFree /\ inv.state = "ready"
  /\ inv' = Polled(inv) /\ seen' = NoScan
  /\ UNCHANGED <<install, ask, screen, up, gone, doubt>>

-----------------------------------------------------------------------------
(* The worker: one job at a time, in this order of preference.              *)

Free == up /\ "running" \notin {catalog, app, lang}
           /\ inv.state \notin {"manifests", "sources"}

ClaimCatalog ==
  /\ Free /\ catalog = "queued" /\ catalog' = "running"
  /\ UNCHANGED <<install, shown, app, lang, list, screen, up, gone, doubt>>

CatalogEnds ==
  /\ catalog = "running" /\ catalog' \in {"ready", "failed"}
  /\ UNCHANGED <<install, shown, app, lang, list, screen, up, gone, doubt>>

ClaimApp ==
  /\ Free /\ catalog # "queued" /\ app = "queued" /\ app' = "running"
  /\ Begin
  /\ UNCHANGED <<catalog, shown, lang, list, screen, up, gone, doubt>>

(* luaStoreDownloadWorker stages both files, then commits.                  *)
InstallApp ==
  /\ app = "running" /\ (Stage \/ Install \/ Rollback \/ Destructor)
  /\ pc = "stage" => ((pc' = "backup") <=> (count = N))
  /\ UNCHANGED <<ask, list, screen, up, gone, doubt>>

AppEnds ==
  /\ app = "running" /\ pc = "done" /\ Forget
  /\ app' = IF error = "None" /\ installed # {} THEN "ok" ELSE "failed"
  /\ doubt' = IF error \in {"CleanupFailed", "RecoveryRequired"}
              THEN doubt \cup {"files"} ELSE doubt
  /\ UNCHANGED <<catalog, shown, lang, list, screen, up, gone>>

ClaimLanguage ==
  /\ Free /\ "queued" \notin {catalog, app} /\ lang = "queued" /\ lang' = "running"
  /\ UNCHANGED <<install, catalog, shown, app, list, screen, up, gone, doubt>>

LanguageEnds ==
  /\ lang = "running" /\ lang' \in {"ok", "failed"}
  /\ UNCHANGED <<install, catalog, shown, app, list, screen, up, gone, doubt>>

(* Of a marked scan nothing will be published, and the result of a crossed  *)
(* download is still to come.                                               *)
ClaimScan ==
  /\ Free /\ "queued" \notin {catalog, app, lang} /\ inv.state = "queued"
  /\ inv' = [inv EXCEPT !.state = "manifests"] /\ seen' = NoScan
  /\ doubt' = IF inv.discard THEN doubt
              ELSE IF app = "idle" THEN {} ELSE doubt \ {"files"}
  /\ UNCHANGED <<install, ask, screen, up, gone>>

(* Two passes over the directory, each of which may fail to open it.        *)
ScanEnds(found) ==
  /\ inv' = [inv EXCEPT !.state = "ready"] /\ seen' = found
  /\ UNCHANGED <<install, ask, screen, up, gone, doubt>>

ScanFails == inv.state \in {"manifests", "sources"} /\ ScanEnds([seen EXCEPT !.valid = FALSE])

ScanManifests ==
  /\ inv.state = "manifests" /\ inv' = [inv EXCEPT !.state = "sources"]
  /\ seen' = [row |-> final[2], valid |-> TRUE]
  /\ UNCHANGED <<install, ask, screen, up, gone, doubt>>

ScanSources ==
  /\ inv.state = "sources"
  /\ ScanEnds([seen EXCEPT !.row = IF @ = Absent /\ final[1] # Absent THEN Dev ELSE @])

-----------------------------------------------------------------------------
(* A restart: the RAM is lost.  Booting asks for the language file if it is *)
(* missing, and for a scan; each tries to create the worker.                *)

Booted(missing, first, second) ==
  /\ catalog' = "idle" /\ shown' = 0 /\ app' = "idle"
  /\ lang' = IF ~missing THEN "idle" ELSE IF first THEN "queued" ELSE "failed"
  /\ inv' = IF second THEN Requested(Fresh) ELSE Fresh
  /\ up' = second
  /\ open' = FALSE /\ busy' = FALSE /\ removal' = "no" /\ removed' = FALSE
  /\ seen' = NoScan /\ gone' = gone /\ doubt' = {}

Restart ==
  /\ IF pc = "off" THEN UNCHANGED install ELSE Forget
  /\ \E missing, first, second \in BOOLEAN :
       /\ missing => edition <= LangEditions
       /\ first => missing /\ second
       /\ Booted(missing, first, second)

AppInit ==
  /\ Init
  /\ catalog = "idle" /\ shown = 0 /\ app = "idle" /\ lang = "idle"
  /\ inv = Requested(Fresh) /\ seen = NoScan /\ up = TRUE
  /\ open = FALSE /\ busy = FALSE /\ removal = "no" /\ removed = FALSE
  /\ gone = FALSE /\ doubt = {}

Worker == \/ ClaimCatalog \/ CatalogEnds \/ ClaimApp \/ InstallApp \/ AppEnds
          \/ ClaimLanguage \/ LanguageEnds
          \/ ClaimScan \/ ScanFails \/ ScanManifests \/ ScanSources
Poll   == TakeCatalog \/ TakeLanguage \/ TakeApp \/ PollInventory
Remove == RemoveFile \/ RemoveEnds
User   == Open \/ Close \/ OpenDrawer \/ TapInstall \/ TapLanguage \/ TapRemove

AppNext == User \/ Remove \/ Poll \/ Worker \/ Restart
AppSpec == AppInit /\ [][AppNext]_allVars

-----------------------------------------------------------------------------
(* Properties.                                                              *)

Settled == inv.state = "idle" /\ inv.valid /\ removal = "no" /\ app = "idle"

(* The list of installed apps agrees with the card whenever nothing is in   *)
(* progress: no scan, no removal, no install whose result is not taken.     *)
(* Left out until the next scan: an install that ended with files in doubt  *)
(* (CleanupFailed, RecoveryRequired), and a removal confirmed while a       *)
(* download of the app was under way or not taken; after both, the code     *)
(* shows a list that is wrong.                                              *)
RowsAreTrue == Settled /\ doubt = {} => inv.row = Listing

(* The same, crossed downloads included: what installed() publishes is the  *)
(* newer result and stays true until a scan is asked for (AppInventory.cpp: *)
(* "Keep the known successful install"), as what removed() publishes does.  *)
(* The code breaks this.                                                    *)
NewestResultStands == Settled /\ "files" \notin doubt => inv.row = Listing

(* An app whose removal was confirmed does not come back into the list,     *)
(* whatever scan was running or waiting to be published at the time.  (A    *)
(* removal that crosses a download of the app is left out: the download     *)
(* brings it back.)                                                         *)
RemovedStaysAway == gone => inv.row = Absent

(* Nothing is waited for that nobody will bring: a catalog shown as loading *)
(* has its job, a busy Store has an active download, and no job or scan is  *)
(* left queued when the worker could not be created.                        *)
WaitsAreServed ==
  /\ open /\ shown = 0 => catalog # "idle"
  /\ open /\ busy => DownloadsActive
  /\ ~up => "queued" \notin {catalog, app, lang} /\ inv.state = "idle"
==============================================================================
