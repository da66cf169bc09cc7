----------------------------- MODULE HistoryStore -----------------------------
(***************************************************************************)
(* The durable message history: a ring of messages in RAM, a table of      *)
(* segment files, and one job at a time for a worker task that appends to  *)
(* or rewrites one segment.  The loop task owns the ring and the table; it *)
(* arms a job with a snapshot of records, and commits the outcome to the   *)
(* table when it sees the worker idle again.  The same work can be drained *)
(* synchronously (a delete, a reboot, repeated worker failures).  Power    *)
(* can be cut at any step; the boot loader rebuilds ring and table from    *)
(* the files.  The Mut... definitions are plausible mistakes; no           *)
(* specification uses them.                                                *)
(***************************************************************************)
EXTENDS Integers, FiniteSets, FiniteSetsExt

CONSTANTS
  RingCap,      \* messages the ring holds (MessageStore::capacity)
  SegRecords,   \* records of a full segment (k_ui_seg_records)
  SegMax,       \* entries of the table (k_ui_seg_max)
  SyncAfter     \* failures before the loop task writes itself; 0 = never

CONSTANTS       \* bounds of the environment
  MaxUnsaved,   \* messages above the watermark: they come slower than saves
  MaxSeq, MaxDeletes, MaxAcks, MaxPersists, MaxReboots, MaxRemounts, MaxWorkerFails,
  MaxSyncFails, MaxPowerCuts,
  RaggedTails,  \* a cut may split the record being written
  PublishGap    \* the loop task may run between the worker's two stores

ASSUME SizesAssumption ==
  /\ RingCap \in Nat \ {0} /\ SegRecords \in Nat \ {0} /\ SegMax \in Nat \ {0}
  /\ SegMax * SegRecords > RingCap
  /\ SyncAfter \in Nat /\ RaggedTails \in BOOLEAN /\ PublishGap \in BOOLEAN

VARIABLES
  ring,     \* the messages of the ring, tombstones included
  latest,   \* sequence number of the newest message
  h,        \* the loop task's fields of HistoryService
  worker,   \* HistoryWorkerState; "finishing" is Running with the result out
  flushOk,  \* s_hist_flush_ok
  repair,   \* _repair_segment, 0 for none
  fails,    \* s_msgs_write_fails, capped at what SyncAfter compares
  drain,    \* where the loop task is inside saveMsgsToStorage
  files,    \* key -> segment file, the key being its first sequence number
  marker,   \* the commit marker of the segment store is on disk
  used      \* how much of each environment bound is spent, and what has
            \* happened that a promise below leaves out

ram  == <<ring, latest>>
task == <<worker, flushOk, repair, fails>>
disk == <<files, marker>>
vars == <<ring, latest, h, worker, flushOk, repair, fails, drain, files, marker, used>>

NoJob == [kind |-> "none", first |-> 0, last |-> 0, create |-> FALSE,
          repair |-> FALSE, recs |-> {}]
Idle  == [pc |-> "idle", from |-> "none", left |-> 0, job |-> NoJob, failed |-> FALSE]

(* The ring, a file and a batch hold their records in the order of their    *)
(* sequence numbers, so each is the set of its records.                     *)
Larger(a, b) == IF a > b THEN a ELSE b
Seqs(M)      == {m.seq : m \in M}
Count(M)     == Cardinality(Seqs(M))
Live(M)      == {m \in M : m.live}
LastOf(M)    == Max({0} \cup Seqs(M))
Oldest(M, n) == {m \in M : Cardinality({q \in Seqs(M) : q < m.seq}) < n}
Newest(M, n) == {m \in M : Cardinality({q \in Seqs(M) : q > m.seq}) < n}
Swap(M, m, x)  == (M \ {m}) \cup {x}

Nothing        == [k \in {} |-> 0]
Without(fs, k) == [x \in DOMAIN fs \ {k} |-> fs[x]]
OnlyOf(fs, ks) == [x \in DOMAIN fs \cap ks |-> fs[x]]
With(fs, k, f) == [x \in DOMAIN fs \cup {k} |-> IF x = k THEN f ELSE fs[x]]
Spent(what)    == [used EXCEPT ![what] = @ + 1]
Spend(what)    == used' = Spent(what)
Failed         == fails' = IF fails < SyncAfter THEN fails + 1 ELSE fails

-----------------------------------------------------------------------------
(* The segment table: a segment is named by the first sequence number of    *)
(* its file, and the entries are in the order of their names.               *)

Segment(hi, n, isOpen) ==
  [last |-> hi, disk |-> IF isOpen THEN 0 ELSE n, live |-> n,
   dirty |-> FALSE, open |-> isOpen]
Owners(t, q)   == {k \in DOMAIN t : q \in k..t[k].last}
Owner(t, q)    == IF Owners(t, q) = {} THEN 0 ELSE Min(Owners(t, q))
Active(t)      == Max(DOMAIN t)
Distrust(t, k) == IF k \in DOMAIN t THEN [t EXCEPT ![k].open = TRUE] ELSE t

(* segMarkSeqDirty: a stored record changed, its segment needs a rewrite.   *)
MarkDirty(s, q) ==
  LET k == Owner(s.table, q) IN
  IF q > s.flushed \/ k = 0 THEN s
  ELSE [s EXCEPT
         !.table[k].dirty = TRUE,
         !.redirty = @ \/ (s.job.kind = "compact" /\ s.job.first = k /\ worker # "idle")]

(* segNoteEvicted: the ring overwrote its oldest record.                    *)
NoteEvicted(t, q) ==
  LET k    == Owner(t, q)
      left == IF t[k].live > 0 THEN t[k].live - 1 ELSE 0
  IN IF k = 0 THEN t
     ELSE [t EXCEPT ![k].live = left, ![k].dirty = @ \/ left = 0]

(* segGatherRange: what the ring still holds of a range, one segment of it. *)
Gather(lo, hi) == Oldest({m \in Live(ring) : m.seq \in lo..hi}, SegRecords)

MoreWork(s) ==
  \/ latest > s.flushed
  \/ \E k \in DOMAIN s.table : s.table[k].dirty \/ s.table[k].open

(* segRetableFromRing: after a remount every chunk of the ring is untrusted.*)
Rank(q)    == Cardinality({x \in Seqs(Live(ring)) : x < q})
Chunk(k)   == Oldest({m \in Live(ring) : m.seq >= k}, SegRecords)
ChunkKeys  == {q \in Seqs(Live(ring)) :
                 Rank(q) % SegRecords = 0 /\ Rank(q) \div SegRecords < SegMax}
ChunkTable(isOpen) ==
  [k \in ChunkKeys |-> Segment(LastOf(Chunk(k)), Count(Chunk(k)), isOpen)]
Retable(s) == [s EXCEPT !.table = ChunkTable(TRUE), !.flushed = latest,
                        !.purge = TRUE, !.resync = FALSE]

-----------------------------------------------------------------------------
(* segBuildJob: repair first, then the pending append, then a compaction.   *)

Compaction(k, hi, isRepair) ==
  LET recs == Gather(k, hi)
  IN [NoJob EXCEPT !.kind = "compact", !.first = k, !.repair = isRepair,
        !.recs = recs, !.last = LastOf(recs)]

RepairJob(t, k) ==
  LET later == {x \in DOMAIN t : x > k}
  IN Compaction(k, IF later = {} THEN latest ELSE Min(later) - 1, TRUE)

CompactJob(t, k) == Compaction(k, t[k].last, FALSE)

Fresh(s)   == {m \in ring : m.seq > s.flushed}
Creates(t) == DOMAIN t = {} \/ t[Active(t)].disk >= SegRecords

Room(t)    == IF Creates(t) THEN SegRecords ELSE SegRecords - t[Active(t)].disk

MutAtCap(t) == Creates(t)

AtCap(t)   == Creates(t) /\ Cardinality(DOMAIN t) >= SegMax

MutReach(s) == latest

(* The watermark the batch reaches: tombstones before the first record that *)
(* does not fit are passed without a write.                                 *)
Batch(s) == Oldest(Live(Fresh(s)), Room(s.table))
Reach(s) == Max({s.flushed} \cup
  {m.seq : m \in {x \in Fresh(s) : \A y \in Live(Fresh(s)) \ Batch(s) : x.seq < y.seq}})

AppendJob(s) ==
  [NoJob EXCEPT !.kind = "append", !.recs = Batch(s), !.last = Reach(s),
     !.create = Creates(s.table),
     !.first = IF Creates(s.table) THEN Min(Seqs(Batch(s))) ELSE Active(s.table)]

Build(s0) ==
  LET s       == [s0 EXCEPT !.table = Distrust(@, repair)]
      broken  == {k \in DOMAIN s.table : s.table[k].open}
      appends == ~AtCap(s.table) /\ Live(Fresh(s)) # {}
      passed  == IF AtCap(s.table) THEN s ELSE [s EXCEPT !.flushed = Reach(s)]
      stale   == {k \in DOMAIN s.table : s.table[k].dirty}
  IN CASE broken # {} -> [h |-> s, job |-> RepairJob(s.table, Min(broken))]
       [] broken = {} /\ appends -> [h |-> s, job |-> AppendJob(s)]
       [] broken = {} /\ ~appends /\ stale # {} ->
            [h |-> passed, job |-> CompactJob(s.table, Min(stale))]
       [] OTHER -> [h |-> passed, job |-> NoJob]

(* segCommitJob: the table after a job that succeeded.                      *)
Enter(t, j) == IF j.create /\ Cardinality(DOMAIN t) < SegMax
               THEN With(t, j.first, Segment(0, 0, FALSE)) ELSE t

CommitAppend(s, j) ==
  LET t == Enter(s.table, j)
      n == Count(j.recs)
  IN IF j.first \notin DOMAIN t THEN s
     ELSE [s EXCEPT
            !.table = [t EXCEPT ![j.first].disk = @ + n, ![j.first].live = @ + n,
                                ![j.first].last = Larger(@, j.last)],
            !.flushed = Larger(@, j.last)]

CommitCompact(s, j) ==
  LET n == Count(j.recs)
      e == s.table[j.first]
  IN IF j.first \notin DOMAIN s.table THEN s
     ELSE IF n = 0 THEN [s EXCEPT !.table = Without(@, j.first)]
     ELSE [s EXCEPT
            !.table[j.first] = [e EXCEPT !.disk = n, !.live = n, !.last = j.last,
                                  !.dirty = s.redirty, !.open = e.open /\ ~j.repair],
            !.flushed = IF j.repair THEN Larger(@, j.last) ELSE @]

Commit(s, j) == IF j.kind = "append" THEN CommitAppend(s, j) ELSE CommitCompact(s, j)

MutReDelete(s, old) == s

(* Deletes that raced the write: their records have just become durable.    *)
ReDelete(s, old) ==
  LET gone == {m.seq : m \in {x \in ring : ~x.live /\ x.seq > old /\ x.seq <= s.flushed}}
  IN [s EXCEPT
       !.table = [k \in DOMAIN @ |-> [s.table[k] EXCEPT
           !.dirty = s.table[k].dirty \/ \E q \in gone : Owner(s.table, q) = k]],
       !.dirty = @ \/ gone # {}]

MutObserve(s) ==
  LET done == s.job.kind # "none" /\ worker = "idle"
      told == IF done THEN ReDelete(Commit(s, s.job), s.flushed) ELSE s
  IN [told EXCEPT !.job = IF done THEN NoJob ELSE @, !.redirty = @ /\ ~done,
                  !.dirty = @ \/ ~flushOk]

(* The head of flushHistoryIfDue: settle a finished job, then its failure.  *)
Observe(s) ==
  LET done == s.job.kind # "none" /\ worker = "idle"
      told == IF done /\ flushOk THEN ReDelete(Commit(s, s.job), s.flushed) ELSE s
  IN [told EXCEPT !.job = IF done THEN NoJob ELSE @,
                  !.redirty = @ /\ ~done, !.dirty = @ \/ ~flushOk]

-----------------------------------------------------------------------------
(* Files.  A file without a header, or whose key is not in it, is removed   *)
(* by the loader.  Of the records in a file the loader reads those that     *)
(* advance the sequence: "recs" are these, "count" is how many there are.   *)
(* Records after a split one are read at the wrong stride: none of them can *)
(* be read as itself.                                                       *)

NoFile == [hdr |-> FALSE, recs |-> {}, count |-> 0, ragged |-> FALSE]
NewFile(recs) == [hdr |-> TRUE, recs |-> recs, count |-> Count(recs), ragged |-> FALSE]
Extend(f, recs) ==
  IF f.ragged THEN f
  ELSE [f EXCEPT !.recs = @ \cup {m \in recs : \A x \in f.recs : x.seq < m.seq},
                 !.count = @ + Count(recs)]

(* uiSegAppendRecords of the records that reach the file.                   *)
Appended(j, n) ==
  LET old == IF j.create THEN NewFile({})
             ELSE IF j.first \in DOMAIN files THEN files[j.first] ELSE NoFile
  IN With(files, j.first, Extend(old, Oldest(j.recs, n)))

(* uiSegCompactWrite: replaced by temporary file and rename, or unlinked.   *)
Rewritten(j) == IF j.recs = {} THEN Without(files, j.first)
                ELSE With(files, j.first, NewFile(j.recs))
Written(j)   == IF j.kind = "append" THEN Appended(j, Count(j.recs)) ELSE Rewritten(j)

(* What a cut can leave of a write under way: any prefix of an append, and  *)
(* before, between or after the remove and the rename of a rewrite.         *)
Split(j, n) == [Appended(j, n) EXCEPT ![j.first].ragged = TRUE]
Torn(j) ==
  CASE j.kind = "none"    -> {files}
    [] j.kind = "append"  ->
         {files} \cup {Appended(j, n) : n \in 0..Count(j.recs)}
           \cup (IF j.create THEN {With(files, j.first, NoFile)} ELSE {})
           \cup (IF RaggedTails THEN {Split(j, n) : n \in 0..(Count(j.recs) - 1)} ELSE {})
    [] j.kind = "compact" -> {files, Without(files, j.first), Rewritten(j)}

(* uiSegScan returns at most SegMax names: the first in key order here.     *)
Listed(fs) == {k \in DOMAIN fs : Cardinality({x \in DOMAIN fs : x < k}) < SegMax}
Wiped(fs)  == OnlyOf(fs, DOMAIN fs \ Listed(fs))

(* loadMsgsFromSegments: files in key order, sequence numbers must advance; *)
(* what the ring cannot keep is dropped, and with it whole segments.        *)
Legible   == {k \in Listed(files) : files[k].hdr}
Loaded(k) == {m \in files[k].recs :
                \A e \in Legible : e < k => \A x \in files[e].recs : x.seq < m.seq}
Restored  == UNION {Loaded(k) : k \in Legible}
BootRing  == IF marker THEN Newest(Restored, RingCap) ELSE {}
BootTable ==
  [k \in {x \in Legible : Loaded(x) \cap BootRing # {}} |->
     [Segment(LastOf(Loaded(k)), Count(Loaded(k)), FALSE) EXCEPT
        !.open  = Count(Loaded(k)) < files[k].count,
        !.dirty = \A m \in BootRing : k < m.seq]]
BootFiles == OnlyOf(files, (DOMAIN files \ Listed(files)) \cup DOMAIN BootTable)

-----------------------------------------------------------------------------
(* The message model, on the loop task.                                     *)

LoopFree == drain.pc = "idle"

(* History: a delete that comes between the end of a rewrite and its commit.*)
TooLate(m)  == h.job.kind = "compact" /\ worker = "idle" /\ m.seq \in Seqs(h.job.recs)
Deleting(m) == [Spent("deletes") EXCEPT !.late = @ \cup (IF TooLate(m) THEN {m.seq} ELSE {})]

(* A message arrives: the oldest may be overwritten, and the cap of its     *)
(* chat may trim an older one in the same call.                             *)
Received == Newest(ring \cup {[seq |-> latest + 1, live |-> TRUE, acked |-> FALSE]}, RingCap)
Noted    == IF Count(ring) = RingCap
            THEN [h EXCEPT !.table = NoteEvicted(@, Min(Seqs(ring)))] ELSE h
Receive ==
  /\ LoopFree /\ latest < MaxSeq /\ latest - h.flushed < MaxUnsaved
  /\ latest' = latest + 1
  /\ \/ /\ ring' = Received /\ h' = [Noted EXCEPT !.dirty = TRUE]
        /\ UNCHANGED used
     \/ \E m \in Live(Received) :
          /\ m.seq <= latest
          /\ used.deletes < MaxDeletes /\ used' = Deleting(m)
          /\ ring' = Swap(Received, m, [m EXCEPT !.live = FALSE])
          /\ h' = [MarkDirty(Noted, m.seq) EXCEPT !.dirty = TRUE]
  /\ UNCHANGED <<task, drain, disk>>

Delete(m) ==
  /\ LoopFree /\ used.deletes < MaxDeletes /\ used' = Deleting(m)
  /\ m.live
  /\ ring' = Swap(ring, m, [m EXCEPT !.live = FALSE])
  /\ h' = [MarkDirty(h, m.seq) EXCEPT !.dirty = TRUE]
  /\ UNCHANGED <<latest, task, drain, disk>>

Acknowledge(m) ==
  /\ LoopFree /\ used.acks < MaxAcks /\ Spend("acks")
  /\ m.live /\ ~m.acked
  /\ ring' = Swap(ring, m, [m EXCEPT !.acked = TRUE])
  /\ h' = [MarkDirty(h, m.seq) EXCEPT !.dirty = TRUE]
  /\ UNCHANGED <<latest, task, drain, disk>>

-----------------------------------------------------------------------------
(* The worker task: claim under a storage lease, run, publish the result,   *)
(* and then publish Idle (runPendingWrite).                                 *)

Claim ==
  /\ worker = "queued" /\ worker' = "running"
  /\ UNCHANGED <<ram, h, flushOk, repair, fails, drain, disk, used>>

RunJob ==
  /\ worker = "running" /\ worker' = "finishing"
  /\ files' = Written(h.job) /\ flushOk' = TRUE /\ fails' = 0
  /\ UNCHANGED <<ram, h, repair, drain, marker, used>>

(* The write fails: at open, inside the records, or at the rename.          *)
RunJobFails ==
  /\ worker = "running" /\ worker' = "finishing"
  /\ used.workerFails < MaxWorkerFails /\ Spend("workerFails")
  /\ flushOk' = FALSE /\ Failed
  /\ \/ UNCHANGED <<files, repair>>
     \/ /\ h.job.kind = "append" /\ repair' = h.job.first
        /\ \/ h.job.create /\ files' = Without(files, h.job.first)
           \/ /\ ~h.job.create
              /\ \E n \in 0..(Count(h.job.recs) - 1) :
                   files' \in {Appended(h.job, n), Split(h.job, n)}
     \/ /\ h.job.kind = "compact" /\ h.job.recs # {}
        /\ files' = Without(files, h.job.first) /\ UNCHANGED repair
  /\ UNCHANGED <<ram, h, drain, marker>>

Finish ==
  /\ worker = "finishing" /\ worker' = "idle"
  /\ UNCHANGED <<ram, h, flushOk, repair, fails, drain, disk, used>>

-----------------------------------------------------------------------------
(* flushHistoryIfDue.  A tick always settles what it sees; whether a flush  *)
(* is due is time, so both may happen.                                      *)

TickRuns == LoopFree /\ (PublishGap \/ worker # "finishing")

Tick ==
  /\ TickRuns /\ h' = Observe(h) /\ flushOk' = TRUE
  /\ UNCHANGED <<ram, worker, repair, fails, drain, disk, used>>

Due == TickRuns /\ worker = "idle" /\ Observe(h).dirty
Degraded(s) == ~s.ready \/ (SyncAfter > 0 /\ fails >= SyncAfter)

(* The head of saveMsgsToStorage, once nothing is in the worker's hands.    *)
BeginDrain(s, from) ==
  /\ h' = IF s.ready /\ s.resync THEN Retable(s) ELSE s
  /\ drain' = [Idle EXCEPT !.pc = "build", !.from = from, !.left = SegMax + 4]

TickDegraded ==
  /\ Due /\ Degraded(Observe(h))
  /\ BeginDrain(Observe(h), "flush") /\ flushOk' = TRUE
  /\ UNCHANGED <<ram, worker, repair, fails, disk, used>>

Planned == Build(IF Observe(h).resync THEN Retable(Observe(h)) ELSE Observe(h))
Healthy == Due /\ ~Degraded(Observe(h))

Arm ==
  /\ Healthy /\ Planned.job.kind # "none"
  /\ worker' = "queued"
  /\ h' = [Planned.h EXCEPT !.job = Planned.job, !.redirty = FALSE,
             !.dirty = MoreWork(Planned.h) \/ Planned.h.purge]
  /\ flushOk' = TRUE /\ repair' = 0
  /\ UNCHANGED <<ram, fails, drain, disk, used>>

(* The worker task or its buffer cannot be had: the loop task writes.       *)
TickNoWorker ==
  /\ Healthy /\ Planned.job.kind # "none"
  /\ BeginDrain(Planned.h, "flush") /\ flushOk' = TRUE /\ repair' = 0
  /\ UNCHANGED <<ram, worker, fails, disk, used>>

(* segFinishResync: sweep what the table does not name, then the marker;    *)
(* done only when a second scan shows nothing else.                         *)
Swept(t) == OnlyOf(files, (DOMAIN files \ Listed(files)) \cup DOMAIN t)
Clean(t) == Listed(Swept(t)) \subseteq DOMAIN t

FinishResync(s, saved) ==
  /\ \/ ~s.purge /\ h' = saved /\ UNCHANGED disk
     \/ /\ s.purge /\ Clean(s.table)
        /\ h' = [saved EXCEPT !.purge = FALSE]
        /\ files' = Swept(s.table) /\ marker' = TRUE
     \/ /\ s.purge /\ ~Clean(s.table)
        /\ h' = s /\ files' = Swept(s.table) /\ UNCHANGED marker
  /\ UNCHANGED <<fails, used>>
ResyncFails(s) ==
  /\ s.purge /\ used.syncFails < MaxSyncFails /\ Spend("syncFails")
  /\ h' = s
  /\ \/ UNCHANGED <<disk, fails>>
     \/ ~marker /\ Clean(s.table) /\ files' = Swept(s.table) /\ Failed /\ UNCHANGED marker

Settle ==
  /\ Healthy /\ Planned.job.kind = "none"
  /\ \/ ~MoreWork(Planned.h) /\ FinishResync(Planned.h, [Planned.h EXCEPT !.dirty = FALSE])
     \/ ~MoreWork(Planned.h) /\ ResyncFails(Planned.h)
     \/ MoreWork(Planned.h) /\ h' = Planned.h /\ UNCHANGED <<disk, fails, used>>
  /\ flushOk' = TRUE /\ repair' = 0
  /\ UNCHANGED <<ram, worker, drain>>

-----------------------------------------------------------------------------
(* persistHistoryNow and rebootDevice, and the drain they share with the    *)
(* degraded flush.  A reboot goes down whether or not the save succeeded,   *)
(* and reports a failure on its way; it saves only when the ring is dirty.  *)

Leave(failed) == IF drain.from = "reboot"
                 THEN drain' = [drain EXCEPT !.pc = "off", !.failed = failed]
                 ELSE drain' = Idle

MutDropped(s) == [s EXCEPT !.job = NoJob, !.redirty = FALSE]

(* uiHistWaitWorkerIdle: the job's fate is unknown unless it was cancelled. *)
Dropped(s) == [s EXCEPT !.job = NoJob, !.redirty = FALSE,
  !.table = IF s.job.kind # "none" /\ worker # "queued" THEN Distrust(@, s.job.first) ELSE @]

MutSaveOrGoDown(s, from) ==
  IF from = "reboot" THEN h' = s /\ drain' = [Idle EXCEPT !.pc = "off", !.from = from]
  ELSE BeginDrain(s, from)

SaveOrGoDown(s, from) ==
  IF from = "reboot" /\ ~s.dirty
  THEN h' = s /\ drain' = [Idle EXCEPT !.pc = "off", !.from = from]
  ELSE BeginDrain(s, from)

SaveNow(from) ==
  /\ LoopFree
  /\ \/ /\ worker = "queued" /\ worker' = "idle"
        /\ BeginDrain([Dropped(h) EXCEPT !.dirty = @ \/ from = "reboot"], from)
     \/ /\ worker = "idle" /\ UNCHANGED worker
        /\ SaveOrGoDown(Dropped(h), from)
     \/ /\ worker \in {"running", "finishing"}
        /\ drain' = [Idle EXCEPT !.pc = "wait", !.from = from] /\ UNCHANGED <<h, worker>>
  /\ UNCHANGED <<ram, flushOk, repair, fails, disk>>

(* History: a finished create is dropped after the message that names its   *)
(* file has been lost; no later segment will have that name.                *)
Strands  == worker = "idle" /\ h.job.create /\ h.job.first \in DOMAIN files \ Seqs(Live(ring))
Saving(u) == [u EXCEPT !.stray = @ \/ Strands]

PersistNow ==
  used.persists < MaxPersists /\ used' = Saving(Spent("persists")) /\ SaveNow("persist")
Reboot ==
  used.reboots < MaxReboots /\ used' = Saving(Spent("reboots")) /\ SaveNow("reboot")

WaitOver ==
  /\ drain.pc = "wait" /\ worker = "idle"
  /\ SaveOrGoDown(Dropped(h), drain.from)
  /\ used' = Saving(used) /\ UNCHANGED <<ram, task, disk>>

(* Nine seconds: the worker still holds its file, nothing is written.       *)
WaitTimeout ==
  /\ drain.pc = "wait" /\ worker # "idle" /\ Leave(TRUE)
  /\ IF drain.from = "reboot" /\ worker = "running" THEN files' \in Torn(h.job)
     ELSE UNCHANGED files
  /\ UNCHANGED <<ram, h, task, marker, used>>

Saved(s) == [s EXCEPT !.dirty = @ /\ drain.from # "flush"]

(* migrateRingToSegments: the whole ring as segments, then the marker.      *)
DrainMigrate ==
  /\ drain.pc = "build" /\ ~h.ready
  /\ \/ /\ Leave(FALSE) /\ h' = Saved([h EXCEPT !.table = ChunkTable(FALSE), !.ready = TRUE,
                    !.resync = FALSE, !.purge = FALSE,
                    !.flushed = LastOf(Live(ring))])
        /\ files' = [k \in DOMAIN Wiped(files) \cup ChunkKeys |->
                      IF k \in ChunkKeys THEN NewFile(Chunk(k)) ELSE files[k]]
        /\ marker' = TRUE /\ fails' = 0 /\ UNCHANGED used
     \/ /\ used.syncFails < MaxSyncFails /\ Spend("syncFails") /\ Leave(TRUE)
        /\ h' = [h EXCEPT !.table = Nothing] /\ marker' = FALSE
        /\ files' = OnlyOf(files, DOMAIN Wiped(files) \ ChunkKeys)
        /\ Failed
  /\ UNCHANGED <<ram, worker, flushOk, repair>>

(* An append is written as a rewrite of the whole active segment, and like  *)
(* a repair its commit moves the watermark.                                 *)
AsRewrite(j) == IF j.kind = "append"
  THEN [j EXCEPT !.kind = "compact", !.repair = TRUE, !.recs = Gather(j.first, j.last)]
  ELSE j
Tabled(s, j) == [s EXCEPT !.table = IF j.kind = "append" THEN Enter(@, j) ELSE @]

DrainBuild ==
  LET b == Build(h) IN
  /\ drain.pc = "build" /\ h.ready /\ drain.left > 0 /\ b.job.kind # "none"
  /\ h' = Tabled(b.h, b.job)
  /\ drain' = [drain EXCEPT !.pc = "write", !.left = @ - 1, !.job = AsRewrite(b.job)]
  /\ repair' = 0
  /\ UNCHANGED <<ram, worker, flushOk, fails, disk, used>>

DrainWrite ==
  /\ drain.pc = "write"
  /\ files' = Rewritten(drain.job) /\ fails' = 0
  /\ h' = Commit(h, drain.job)
  /\ drain' = [drain EXCEPT !.pc = "build", !.job = NoJob]
  /\ UNCHANGED <<ram, worker, flushOk, repair, marker, used>>

DrainWriteFails ==
  /\ drain.pc = "write" /\ drain.job.recs # {}
  /\ used.syncFails < MaxSyncFails /\ Spend("syncFails")
  /\ files' \in {files, Without(files, drain.job.first)} /\ Failed
  /\ Leave(TRUE)
  /\ UNCHANGED <<ram, h, worker, flushOk, repair, marker>>

DrainEnd ==
  LET b == IF drain.left > 0 THEN Build(h) ELSE [h |-> h, job |-> NoJob] IN
  /\ drain.pc = "build" /\ h.ready /\ b.job.kind = "none"
  /\ \/ /\ ~MoreWork(b.h) /\ FinishResync(b.h, Saved(b.h))
        /\ Leave(b.h.purge /\ ~Clean(b.h.table))
     \/ ~MoreWork(b.h) /\ ResyncFails(b.h) /\ Leave(TRUE)
     \/ MoreWork(b.h) /\ h' = b.h /\ Leave(TRUE) /\ UNCHANGED <<disk, fails, used>>
  /\ repair' = IF drain.left > 0 THEN 0 ELSE repair
  /\ UNCHANGED <<ram, worker, flushOk>>

-----------------------------------------------------------------------------
(* The card and the power.                                                  *)

(* A remount ends in flushHistorySoon, on the same card or a blank one.  It *)
(* holds storage exclusively, so no worker is inside a write.               *)
Remount ==
  /\ LoopFree /\ worker \in {"idle", "queued"} /\ worker' = "idle"
  /\ used.remounts < MaxRemounts /\ Spend("remounts")
  /\ h' = [h EXCEPT !.resync = TRUE, !.dirty = TRUE,
             !.job = IF worker = "queued" THEN NoJob ELSE @,
             !.redirty = @ /\ worker # "queued"]
  /\ UNCHANGED disk \/ (files' = Nothing /\ marker' = FALSE)
  /\ UNCHANGED <<ram, flushOk, repair, fails, drain>>

Powered == drain.pc # "off"
InFlight == IF worker = "running" THEN h.job
            ELSE IF drain.pc = "write" THEN drain.job ELSE NoJob

Booted(table, flushed, ready) ==
  [table |-> table, flushed |-> flushed, resync |-> FALSE, purge |-> FALSE,
   dirty |-> FALSE, ready |-> ready, job |-> NoJob, redirty |-> FALSE]

(* History: the boot finds what no save leaves, a record that a cut has     *)
(* split, or segments that overlap or are more than one scan returns.       *)
Orderly ==
  /\ Cardinality(DOMAIN files) <= SegMax
  /\ \A k \in DOMAIN files : ~files[k].ragged
  /\ \A k, e \in DOMAIN files : k < e => \A x \in files[k].recs : x.seq < e

(* The loader's view of the files decides everything the boot starts from.  *)
(* Without the marker the set is wiped, and an empty store may be committed *)
(* by the migration, which wipes once more.                                 *)
Boot ==
  /\ ring' = BootRing
  /\ latest' = IF marker THEN LastOf(Restored) ELSE 0
  /\ \/ /\ marker /\ UNCHANGED marker
        /\ h' = Booted(BootTable, LastOf(Restored), TRUE)
        /\ files' = BootFiles
     \/ /\ ~marker /\ marker' \in BOOLEAN
        /\ h' = Booted(Nothing, 0, marker')
        /\ \/ ~marker' /\ files' = Wiped(files)
           \/ files' = Wiped(Wiped(files))
  /\ worker' = "idle" /\ flushOk' = TRUE /\ repair' = 0 /\ fails' = 0
  /\ drain' = Idle
  /\ used' = [used EXCEPT !.late = {}, !.odd = @ \/ (marker /\ ~Orderly)]

(* Power is lost: what a torn write left stays, every other state is gone.  *)
PowerCut ==
  /\ Powered /\ used.powerCuts < MaxPowerCuts /\ Spend("powerCuts")
  /\ files' \in Torn(InFlight)
  /\ drain' = [drain EXCEPT !.pc = "off", !.from = "none"]
  /\ UNCHANGED <<ram, h, task, marker>>
PowerOn == drain.pc = "off" /\ Boot

Init ==
  /\ ring = {} /\ latest = 0 /\ h = Booted(Nothing, 0, TRUE)
  /\ worker = "idle" /\ flushOk = TRUE /\ repair = 0 /\ fails = 0
  /\ drain = Idle /\ files = Nothing /\ marker = TRUE
  /\ used = [deletes |-> 0, acks |-> 0, persists |-> 0, reboots |-> 0, remounts |-> 0,
             workerFails |-> 0, syncFails |-> 0, powerCuts |-> 0,
             late |-> {}, stray |-> FALSE, odd |-> FALSE]

User   == Receive \/ (\E m \in ring : Delete(m) \/ Acknowledge(m))
Worker == Powered /\ (Claim \/ RunJob \/ RunJobFails \/ Finish)
Flush  == Tick \/ TickDegraded \/ Arm \/ TickNoWorker \/ Settle
Drain  == WaitOver \/ WaitTimeout \/ DrainMigrate \/ DrainBuild \/ DrainWrite
            \/ DrainWriteFails \/ DrainEnd
Next == User \/ Worker \/ Flush \/ PersistNow \/ Reboot \/ Drain \/ Remount \/ PowerCut \/ PowerOn

Spec == Init /\ [][Next]_vars

(* The worker task is scheduled, the loop task goes on and every deadline   *)
(* passes; a wait ends and a drain moves on.                                *)
Fairness == WF_vars(Powered /\ Worker) /\ WF_vars(Flush \/ Drain \/ PowerOn)
FairSpec == Spec /\ Fairness

-----------------------------------------------------------------------------
(* Properties.                                                              *)


Quiet   == LoopFree /\ h.ready /\ ~h.dirty /\ flushOk /\ h.job.kind = "none"
Settled == Powered /\ h.ready /\ ~h.resync /\ ~h.purge
Trusted(k)  == ~h.table[k].open /\ ~h.table[k].dirty /\ k # repair
Awaited(q)  == \E k \in Owners(h.table, q) : ~Trusted(k)
Restores(q) == q \in Seqs(BootRing)

(* The durability watermark never claims a message that a boot from the     *)
(* files would not restore, unless its segment is flagged for a rewrite     *)
(* (s_seg_flushed_seq, segCommitJob and the loader).                        *)
WatermarkIsDurable ==
  Settled => \A m \in ring :
    m.live /\ m.seq <= h.flushed => Awaited(m.seq) \/ Restores(m.seq)

(* A table entry that is trusted is exact: an append relies on the header   *)
(* being there and on the count of records to know the room left.           *)
TrustedEntryMatchesFile ==
  Settled => \A k \in DOMAIN h.table :
    Trusted(k) /\ k # h.job.first /\ k # drain.job.first =>
      /\ k \in DOMAIN files
      /\ files[k].hdr /\ ~files[k].ragged
      /\ files[k].count = h.table[k].disk

(* When nothing is left to do, no message deleted in the ring comes back,   *)
(* but one whose delete came between the end of a rewrite and its commit    *)
(* (used.late), or that a stranded file holds (used.stray).                 *)
QuietDropsDeleted ==
  Quiet /\ ~used.stray =>
    \A m \in ring : ~m.live /\ m.seq \notin used.late => ~Restores(m.seq)

(* The same of every deleted message (segMarkSeqDirty, saveMsgsToStorage).  *)
NoDeletedReturns ==
  Quiet => \A m \in ring : ~m.live => ~Restores(m.seq)

(* When nothing is left to do, the files hold the messages as the ring      *)
(* shows them, delivery state included.                                     *)
QuietIsCurrent ==
  Quiet => \A m \in ring : m.live => m \in BootRing

(* A segment whose records have all left the ring is unlinked: with nothing *)
(* to do, every entry of the table still has a place in the ring.           *)
AgedOutIsUnlinked ==
  Quiet => \A k \in DOMAIN h.table : \E m \in ring : m.seq \in k..h.table[k].last

(* A power cut costs no message the watermark covered, except in the one    *)
(* segment that was being replaced, between its remove and its rename; a cut*)
(* before the files of a remounted card are landed again is left out, and   *)
(* what follows a boot from files such a cut, or a split record, has left.  *)
Replaced == IF worker = "running" /\ h.job.kind = "compact" THEN h.job.first
            ELSE drain.job.first
Regular == used.syncFails = 0 /\ ~used.odd
CutKeepsDurable ==
  ~Powered /\ h.ready /\ ~h.resync /\ ~h.purge /\ used.workerFails = 0 /\ Regular =>
    \A m \in ring : m.live /\ m.seq <= h.flushed =>
      Restores(m.seq) \/ Replaced \in Owners(h.table, m.seq)

(* An orderly reboot has lost no message, unless it reported a failure, an  *)
(* earlier synchronous write failed, or the boot before found a split record*)
(* or overlapping segments.                                                 *)
RebootSavesAll ==
  drain.pc = "off" /\ drain.from = "reboot" /\ ~drain.failed /\ Regular =>
    \A m \in Live(ring) : Restores(m.seq)

(* What a crash leaves on the card never hides a live message: if some file *)
(* holds it, the next boot restores it (the promise of segRetableFromRing). *)
LeftoversAreHarmless ==
  ~Powered /\ marker => \A m \in Live(ring) :
    (\E k \in DOMAIN files : files[k].hdr /\ m.seq \in Seqs(files[k].recs))
    => Restores(m.seq)

(* Every message is saved in the end, or deleted, or has left the ring.     *)
Unsaved == \E m \in Live(ring) : m.seq > h.flushed
EveryMessageIsSaved == Unsaved ~> ~Unsaved
=============================================================================
