------------------------------ MODULE PrefsStore ------------------------------
(***************************************************************************)
(* The settings store of the touch firmware in file mode (SdNvsPrefs.cpp): *)
(* every namespace is held in RAM, setters only mark it dirty, and one     *)
(* writer task commits it to the inactive one of two snapshot files,       *)
(* <ns>.kv (slot a, which is also the path of the released single-file     *)
(* format) and <ns>.alt (slot b).  A snapshot carries a generation and     *)
(* checksums; booting takes the newer valid one.  DirectNs are the         *)
(* namespaces written synchronously with writeFileBool before the cache    *)
(* exists ("bootprefs").                                                   *)
(*                                                                         *)
(* The contents of a namespace are a version number: one more for every    *)
(* put, remove or clear that changes it.  Time is abstracted: a dirty      *)
(* cache may be due at any tick, whether its quiet period is over, its     *)
(* longest wait, or the 30 seconds after a failed write.  Power may be cut *)
(* between any two steps; a file being written is then left in any of the  *)
(* states the cut can leave.                                               *)
(***************************************************************************)
EXTENDS Integers, Sequences, FiniteSets

CONSTANTS CachedNs,   \* namespaces opened through begin()
          DirectNs,   \* namespaces written through writeFileBool()
          Start,      \* the kinds of files each namespace may start with
          QueueCap,   \* length of s_write_queue (2 in the code)
          GenSpace,   \* number of generations before the counter wraps (2^32)
          MaxSets,    \* bound: changes of any namespace in one run
          MaxFails,   \* bound: filesystem calls that fail
          MaxCuts     \* bound: power cuts

ASSUME PrefsAssumption ==
  /\ CachedNs \cap DirectNs = {}
  /\ Start \in [CachedNs \cup DirectNs -> SUBSET {"fresh", "released", "wrapping"}]
  /\ QueueCap \in Nat \ {0}
  /\ GenSpace \in Nat /\ GenSpace >= 4 /\ GenSpace % 2 = 0
  /\ MaxSets \in Nat /\ MaxFails \in Nat /\ MaxCuts \in Nat

VARIABLES files,     \* the two files of every namespace
          caches,    \* s_caches: the RAM copy of every namespace
          queue,     \* s_write_queue
          writer,    \* prefsWriterTask: the job in its hands and how far it is
          direct,    \* the same for a writeFileBool in progress
          loader,    \* a second task inside sdLoad, outside the mutex
          flushing,  \* where the loop of flush() is
          promised,  \* history: the version a flush or writeFileBool vouched for
          sets, fails, cuts

vars == <<files, caches, queue, writer, direct, loader, flushing, promised,
          sets, fails, cuts>>
budget == <<sets, fails, cuts>>

Namespaces == CachedNs \cup DirectNs

-----------------------------------------------------------------------------
(* Files                                                                    *)

\* What a path can hold: nothing; a snapshot; records without a footer, which
\* is the released format; no records at all; or bytes nobody can parse.
Absent  == [kind |-> "absent",  gen |-> 0, ver |-> 0]
Empty   == [kind |-> "records", gen |-> 0, ver |-> 0]
Torn    == [kind |-> "torn",    gen |-> 0, ver |-> 0]
Records(v)     == [kind |-> "records",  gen |-> 0, ver |-> v]
Snapshot(g, v) == [kind |-> "snapshot", gen |-> g, ver |-> v]

IsSnapshot(f) == f.kind = "snapshot"

\* MUTANT: the wrap of the generation counter is not thought of.
MutNewer(lhs, rhs) == lhs > rhs

\* A signed difference decides, so that the counter may wrap.
newerGeneration(lhs, rhs) ==
  (lhs - rhs) % GenSpace \in 1 .. (GenSpace \div 2 - 1)

\* The choice sdLoad makes between the two files of a namespace.
Refused == [ok |-> FALSE, slot |-> "none", gen |-> 0, ver |-> 0, legacy |-> FALSE]
Chosen(slot, f) ==
  [ok |-> TRUE, slot |-> slot, gen |-> f.gen, ver |-> f.ver, legacy |-> slot = "none"]

readSnapshots(a, b) ==
  IF IsSnapshot(a) /\ (~IsSnapshot(b) \/ newerGeneration(a.gen, b.gen))
  THEN Chosen("a", a)
  ELSE IF IsSnapshot(b) THEN Chosen("b", b)
  ELSE IF a.kind = "records" THEN Chosen("none", a)
  ELSE Refused

sdLoadChoice(f) ==
  IF f.a = Absent /\ f.b = Absent
  THEN [Chosen("none", Absent) EXCEPT !.legacy = FALSE]
  ELSE readSnapshots(f.a, f.b)

BootImage(n) == sdLoadChoice(files[n])

\* The slot the next snapshot goes to: never the active one, and never the
\* released single file before a snapshot exists.
inactiveSlot(active, legacy_present) ==
  IF active = "a" THEN "b"
  ELSE IF active = "b" THEN "a"
  ELSE IF legacy_present THEN "b" ELSE "a"

-----------------------------------------------------------------------------
Unloaded == [loaded |-> FALSE, ver |-> 0, revision |-> 0, gen |-> 0,
             active |-> "none", dirty |-> FALSE, writing |-> FALSE,
             legacy |-> FALSE]
NoJob  == [phase |-> "idle"]
NoLoad == [busy |-> FALSE]

\* What the two files of a namespace can be when the device is first switched
\* on: a fresh namespace, the released format, or two snapshots of which the
\* newer one has the last generation before the wrap.
StartFiles(kind) ==
  CASE kind = "fresh"    -> [a |-> Absent, b |-> Absent]
    [] kind = "released" -> [a |-> Records(1), b |-> Absent]
    [] kind = "wrapping" -> [a |-> Snapshot(GenSpace - 1, 1), b |-> Snapshot(GenSpace - 2, 0)]

Init ==
  /\ \E kind \in [Namespaces -> {"fresh", "released", "wrapping"}] :
       /\ \A n \in Namespaces : kind[n] \in Start[n]
       /\ files = [n \in Namespaces |-> StartFiles(kind[n])]
  /\ caches = [n \in CachedNs |-> Unloaded]
  /\ queue = <<>>
  /\ writer = NoJob /\ direct = NoJob /\ loader = NoLoad
  /\ flushing = "no"
  /\ promised = [n \in Namespaces |-> BootImage(n).ver]
  /\ sets = 0 /\ fails = 0 /\ cuts = 0

-----------------------------------------------------------------------------
(* Opening a namespace                                                      *)

\* The cache entry sdLoad builds; the released format is marked for rewriting.
Loaded(c) ==
  [loaded |-> TRUE, ver |-> c.ver, revision |-> IF c.legacy THEN 1 ELSE 0,
   gen |-> c.gen, active |-> c.slot, dirty |-> c.legacy, writing |-> FALSE,
   legacy |-> c.legacy]

\* sdLoad without another task in between.  A namespace that is refused stays
\* out of the cache.
Open(n) ==
  /\ ~caches[n].loaded
  /\ BootImage(n).ok
  /\ caches' = [caches EXCEPT ![n] = Loaded(BootImage(n))]
  /\ UNCHANGED <<files, queue, writer, direct, loader, flushing, promised, budget>>

\* A second task has found no entry and has read the files ...
SlowOpenReads(n) ==
  /\ ~loader.busy /\ ~caches[n].loaded
  /\ BootImage(n).ok
  /\ loader' = [busy |-> TRUE, ns |-> n, choice |-> BootImage(n)]
  /\ UNCHANGED <<files, caches, queue, writer, direct, flushing, promised, budget>>

\* MUTANT: inserts although another task has.
MutInsert(n, c) == Loaded(c)

\* ... and inserts its entry unless the first task has.
Insert(n, c) == IF caches[n].loaded THEN caches[n] ELSE Loaded(c)

SlowOpenInserts ==
  /\ loader.busy
  /\ caches' = [caches EXCEPT ![loader.ns] = Insert(loader.ns, loader.choice)]
  /\ loader' = NoLoad
  /\ UNCHANGED <<files, queue, writer, direct, flushing, promised, budget>>

-----------------------------------------------------------------------------
(* Setters: sdSet with a new value, remove of a key that exists, clear      *)

sdSet(n) ==
  /\ caches[n].loaded
  /\ sets < MaxSets /\ sets' = sets + 1
  /\ caches' = [caches EXCEPT ![n].ver = @ + 1, ![n].revision = @ + 1,
                              ![n].dirty = TRUE]
  /\ UNCHANGED <<files, queue, writer, direct, loader, flushing, promised, fails, cuts>>

-----------------------------------------------------------------------------
(* Scheduling                                                               *)

Job(n) ==
  [phase |-> "queued", ns |-> n, ver |-> caches[n].ver,
   revision |-> caches[n].revision, gen |-> (caches[n].gen + 1) % GenSpace,
   slot |-> inactiveSlot(caches[n].active, caches[n].legacy)]

Schedulable(n) == caches[n].loaded /\ caches[n].dirty /\ ~caches[n].writing

\* MUTANT: the mark of a job that found no room stays.
MutScheduleOne(n) ==
  /\ Schedulable(n)
  /\ caches' = [caches EXCEPT ![n].writing = TRUE]
  /\ queue' = IF Len(queue) < QueueCap THEN Append(queue, Job(n)) ELSE queue

\* scheduleOne: the snapshot is taken under the mutex; a full queue takes the
\* mark back and leaves the cache dirty.
scheduleOne(n) ==
  /\ Schedulable(n)
  /\ \/ /\ Len(queue) < QueueCap
        /\ queue' = Append(queue, Job(n))
        /\ caches' = [caches EXCEPT ![n].writing = TRUE]
     \/ /\ Len(queue) = QueueCap
        /\ UNCHANGED <<queue, caches>>

tick(n) ==
  /\ flushing = "no"
  /\ scheduleOne(n)
  /\ UNCHANGED <<files, writer, direct, loader, flushing, promised, budget>>

\* flush: schedule whatever is dirty, look whether anything is pending, and
\* either vouch for everything, go round again, or give up at the timeout.
FlushStart ==
  /\ flushing = "no"
  /\ flushing' = "schedule"
  /\ UNCHANGED <<files, caches, queue, writer, direct, loader, promised, budget>>

FlushSchedules ==
  /\ flushing = "schedule"
  /\ flushing' = "check"
  /\ \/ \E n \in CachedNs : scheduleOne(n)
     \/ /\ \A n \in CachedNs : ~Schedulable(n)
        /\ UNCHANGED <<queue, caches>>
  /\ UNCHANGED <<files, writer, direct, loader, promised, budget>>

Pending == \E n \in CachedNs : caches[n].dirty \/ caches[n].writing

FlushReturns ==
  /\ flushing = "check" /\ ~Pending
  /\ flushing' = "no"
  /\ promised' = [n \in Namespaces |->
                    IF n \in CachedNs /\ caches[n].loaded THEN caches[n].ver
                    ELSE promised[n]]
  /\ UNCHANGED <<files, caches, queue, writer, direct, loader, budget>>

FlushWaits ==
  /\ flushing = "check" /\ Pending
  /\ flushing' \in {"schedule", "no"}
  /\ UNCHANGED <<files, caches, queue, writer, direct, loader, promised, budget>>

-----------------------------------------------------------------------------
(* writeSnapshot, shared by the writer task and writeFileBool               *)

Fail == fails < MaxFails /\ fails' = fails + 1
Fine == UNCHANGED fails

Target(j) == files[j.ns][j.slot]
Put(j, f) == files' = [files EXCEPT ![j.ns][j.slot] = f]

\* What is on the medium while a file is open for writing, or after a write
\* that stopped half way.
HalfWritten(j) == {Empty, Torn, Records(j.ver)}

openFile(j, k) ==
  /\ j.phase = "queued"
  /\ \/ /\ Fine /\ k = [j EXCEPT !.phase = "open"]
        /\ Put(j, Empty)
     \/ /\ Fail /\ k = [j EXCEPT !.phase = "failed"]
        /\ UNCHANGED files

writePayload(j, k) ==
  /\ j.phase = "open"
  /\ \/ /\ Fine /\ k = [j EXCEPT !.phase = "written"]
        /\ Put(j, Snapshot(j.gen, j.ver))
     \/ /\ Fail /\ k = [j EXCEPT !.phase = "failed"]
        /\ \E f \in HalfWritten(j) : Put(j, f)

\* Flush, close and read back.  The last may fail although the file is good,
\* and finds out when the others did not put it there.
closeAndVerify(j, k) ==
  /\ j.phase = "written"
  /\ \/ /\ Fine /\ k = [j EXCEPT !.phase = "committed"]
        /\ UNCHANGED files
     \/ /\ Fail /\ k = [j EXCEPT !.phase = "failed"]
        /\ \E f \in HalfWritten(j) \cup {Target(j)} : Put(j, f)

writeSnapshot(j, k) ==
  openFile(j, k) \/ writePayload(j, k) \/ closeAndVerify(j, k)

-----------------------------------------------------------------------------
(* The writer task                                                          *)

WriterTakes ==
  /\ writer = NoJob /\ queue # <<>>
  /\ writer' = Head(queue) /\ queue' = Tail(queue)
  /\ UNCHANGED <<files, caches, direct, loader, flushing, promised, budget>>

\* The task spins until the storage gate grants it a lease, then writes.
WriterWrites ==
  /\ writer # NoJob
  /\ \E p \in {"open", "written", "committed", "failed"} :
       /\ writer' = [writer EXCEPT !.phase = p]
       /\ writeSnapshot(writer, writer')
  /\ UNCHANGED <<caches, queue, direct, loader, flushing, promised, sets, cuts>>

\* MUTANT: a setter that overtook the writer is forgotten.
MutCommitted(c, j) ==
  [c EXCEPT !.writing = FALSE, !.gen = j.gen, !.active = j.slot, !.dirty = FALSE]

\* The outcome, under the mutex: a snapshot overtaken by a setter commits its
\* generation and leaves the cache dirty.
Committed(c, j) ==
  [c EXCEPT !.writing = FALSE, !.gen = j.gen, !.active = j.slot,
            !.dirty = @ /\ c.revision # j.revision]
NotCommitted(c) == [c EXCEPT !.writing = FALSE, !.dirty = TRUE]

WriterFinishes ==
  /\ writer.phase \in {"committed", "failed"}
  /\ caches' = [caches EXCEPT ![writer.ns] =
                  IF writer.phase = "committed" THEN Committed(@, writer)
                  ELSE NotCommitted(@)]
  /\ writer' = NoJob
  /\ UNCHANGED <<files, queue, direct, loader, flushing, promised, budget>>

-----------------------------------------------------------------------------
(* writeFileBool: load, change, write the inactive slot, no cache           *)

DirectStarts(n) ==
  /\ direct = NoJob
  /\ sets < MaxSets /\ sets' = sets + 1
  /\ LET c == readSnapshots(files[n].a, files[n].b)
     IN direct' = [phase |-> "queued", ns |-> n, ver |-> c.ver + 1, revision |-> 0,
                   gen |-> (c.gen + 1) % GenSpace,
                   slot |-> inactiveSlot(c.slot, c.ok)]
  /\ UNCHANGED <<files, caches, queue, writer, loader, flushing, promised, fails, cuts>>

DirectWrites ==
  /\ direct # NoJob
  /\ \E p \in {"open", "written", "committed", "failed"} :
       /\ direct' = [direct EXCEPT !.phase = p]
       /\ writeSnapshot(direct, direct')
  /\ UNCHANGED <<caches, queue, writer, loader, flushing, promised, sets, cuts>>

DirectReturns ==
  /\ direct.phase \in {"committed", "failed"}
  /\ direct' = NoJob
  /\ promised' = IF direct.phase = "committed"
                 THEN [promised EXCEPT ![direct.ns] = direct.ver] ELSE promised
  /\ UNCHANGED <<files, caches, queue, writer, loader, flushing, budget>>

-----------------------------------------------------------------------------
\* A file that was open or not yet closed when the power went may hold less
\* than was written.
AfterCut(fs, w) ==
  IF w.phase \in {"open", "written"}
  THEN {[fs EXCEPT ![w.ns][w.slot] = f] : f \in HalfWritten(w) \cup {Target(w)}}
  ELSE {fs}

PowerCut ==
  /\ cuts < MaxCuts /\ cuts' = cuts + 1
  /\ files' \in UNION {AfterCut(fs, direct) : fs \in AfterCut(files, writer)}
  /\ caches' = [n \in CachedNs |-> Unloaded]
  /\ queue' = <<>>
  /\ writer' = NoJob /\ direct' = NoJob /\ loader' = NoLoad
  /\ flushing' = "no"
  /\ UNCHANGED <<promised, sets, fails>>

Next ==
  \/ \E n \in CachedNs :
       \/ Open(n) \/ SlowOpenReads(n) \/ sdSet(n) \/ tick(n)
  \/ SlowOpenInserts
  \/ FlushStart \/ FlushSchedules \/ FlushReturns \/ FlushWaits
  \/ WriterTakes \/ WriterWrites \/ WriterFinishes
  \/ \E n \in DirectNs : DirectStarts(n)
  \/ DirectWrites \/ DirectReturns
  \/ PowerCut

Spec == Init /\ [][Next]_vars

\* The writer, the main loop and the time-outs run for ever.  Setters, power
\* cuts, failures and second loaders are never forced.
Tick  == \E n \in CachedNs : tick(n)
Flush == FlushSchedules \/ FlushReturns \/ FlushWaits
prefsWriterTask == WriterTakes \/ WriterWrites \/ WriterFinishes

Fairness ==
  /\ WF_vars(Tick) /\ WF_vars(Flush) /\ WF_vars(prefsWriterTask)

FairSpec == Spec /\ Fairness

-----------------------------------------------------------------------------
(* Properties                                                               *)

\* What a flush reported as written, and what writeFileBool returned true for,
\* is what every later boot loads, or something newer: through failed writes,
\* snapshots torn by a cut, the move off the released format and the wrap of
\* the generation counter.
FlushedSurvives ==
  \A n \in Namespaces :
    promised[n] > 0 => BootImage(n).ok /\ BootImage(n).ver >= promised[n]

\* A cache that is neither dirty nor being written is exactly what a boot would
\* load: nobody may skip writing it for any other reason.
CleanIsDurable ==
  \A n \in CachedNs :
    LET c == caches[n]
    IN c.loaded /\ ~c.dirty /\ ~c.writing =>
         /\ BootImage(n).ver = c.ver
         /\ c.active # "none" => /\ BootImage(n).slot = c.active
                                 /\ BootImage(n).gen = c.gen

\* As long as power is on, no task's setting is undone by another task that
\* opens the namespace or by the writer that finishes with it.
NothingReverts ==
  [][\A n \in CachedNs : caches[n].loaded /\ caches'[n].loaded
        => caches'[n].ver >= caches[n].ver]_vars

\* Every change is written in the end, through failures, a full queue and
\* setters that overtake the writer (or power is lost).
SettingsLand ==
  \A n \in CachedNs : caches[n].dirty ~> ~caches[n].dirty

\* SdNvsPrefs.h says of an interrupted write that it cannot turn the settings
\* into defaults.  The namespace must still open.
NeverDefaults == \A n \in CachedNs : BootImage(n).ok
=============================================================================
