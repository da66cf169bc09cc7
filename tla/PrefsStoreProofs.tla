--------------------------- MODULE PrefsStoreProofs ---------------------------
(***************************************************************************)
(* Proofs about PrefsStore, for any namespaces, any length of the write    *)
(* queue, any even number of generations from four up, and any number of   *)
(* changes, failures and power cuts.                                       *)
(***************************************************************************)
EXTENDS PrefsStore, TLAPS

Gens   == 0 .. (GenSpace - 1)
Paths  == {"a", "b"}
Kinds  == {"absent", "records", "torn", "snapshot"}
Files  == {f \in [kind : Kinds, gen : Gens, ver : Nat] : f.kind = "records" => f.gen = 0}
Pairs  == [Paths -> Files]

After(g) == (g + 1) % GenSpace
Other(t) == IF t = "a" THEN "b" ELSE "a"

-----------------------------------------------------------------------------
(* The two files of a namespace, and the version p that was vouched for.    *)

\* What a boot relies on: two snapshots are one generation apart, and the one
\* it chooses is new enough.
Safe(fs, p) ==
  /\ IsSnapshot(fs.a) /\ IsSnapshot(fs.b) =>
       fs.a.gen = After(fs.b.gen) \/ fs.b.gen = After(fs.a.gen)
  /\ p > 0 => sdLoadChoice(fs).ok /\ sdLoadChoice(fs).ver >= p

\* The path t may be overwritten with generation g: the other file has what
\* was vouched for, if anything was ...
Stands(fs, p, t, g) ==
  LET o == fs[Other(t)] IN
  \/ IsSnapshot(o) /\ g = After(o.gen) /\ p <= o.ver
  \/ t = "b" /\ o.kind = "records" /\ g = After(0) /\ p <= o.ver
  \/ t = "a" /\ ~IsSnapshot(o) /\ p = 0

\* ... and a snapshot that is already there is the one before it, or an earlier
\* try at the same generation.
Replaceable(fs, p, t, g) ==
  IsSnapshot(fs[t]) =>
    \/ fs[t].gen = g /\ fs[t].ver >= p
    \/ IsSnapshot(fs[Other(t)]) /\ fs[Other(t)].gen = After(fs[t].gen)

Based(fs, p, t, g) == Stands(fs, p, t, g) /\ Replaceable(fs, p, t, g)

-----------------------------------------------------------------------------
(* The inductive invariant.                                                 *)

Slots     == {"a", "b", "none"}
CacheRecs == [loaded : BOOLEAN, ver : Nat, revision : Nat, gen : Gens, active : Slots,
              dirty : BOOLEAN, writing : BOOLEAN, legacy : BOOLEAN]
JobRecs   == [phase : {"queued", "open", "written", "committed", "failed"},
              ns : Namespaces, ver : Nat, revision : Nat, gen : Gens, slot : Paths]

Shapes ==
  /\ files \in [Namespaces -> Pairs]
  /\ caches \in [CachedNs -> CacheRecs]
  /\ queue \in Seq(JobRecs)
  /\ writer = NoJob \/ writer \in JobRecs
  /\ direct = NoJob \/ direct \in JobRecs
  /\ promised \in [Namespaces -> Nat]

\* The path and the generation of the next snapshot of a cache.
Next1(c) == inactiveSlot(c.active, c.legacy)

\* What a cache knows of its files; when it is clean, they hold its contents.
CacheOk(c, fs, p) ==
  /\ Based(fs, p, Next1(c), After(c.gen))
  /\ p <= c.ver
  /\ c.active # "none" => IsSnapshot(fs[c.active]) /\ fs[c.active].gen = c.gen
  /\ c.writing => c.dirty
  /\ ~c.dirty =>
       IF c.active = "none" THEN ~c.legacy /\ c.ver = 0 /\ fs.a = Absent /\ fs.b = Absent
       ELSE /\ fs[c.active].ver = c.ver
            /\ IsSnapshot(fs[Next1(c)]) => fs[Next1(c)].gen # After(c.gen)

\* A job is a copy of its cache as it was at some earlier revision.
JobOk(j, c, p) ==
  /\ c.loaded /\ c.writing
  /\ j.slot = Next1(c) /\ j.gen = After(c.gen)
  /\ p <= j.ver /\ j.ver <= c.ver /\ j.revision <= c.revision
  /\ j.revision = c.revision => j.ver = c.ver

IsThere(j) == j.phase \in {"written", "committed"} => Target(j) = Snapshot(j.gen, j.ver)

CacheInv == \A n \in CachedNs : caches[n].loaded => CacheOk(caches[n], files[n], promised[n])
FileInv  == \A n \in Namespaces : Safe(files[n], promised[n])
LoaderInv ==
  loader.busy => /\ loader.ns \in CachedNs /\ loader.choice.ok
                 /\ ~caches[loader.ns].loaded => loader.choice = BootImage(loader.ns)
QueueInv ==
  /\ \A p \in 1 .. Len(queue) :
       /\ queue[p].phase = "queued" /\ queue[p].ns \in CachedNs
       /\ JobOk(queue[p], caches[queue[p].ns], promised[queue[p].ns])
       /\ writer # NoJob => queue[p].ns # writer.ns
  /\ \A p, q \in 1 .. Len(queue) : queue[p].ns = queue[q].ns => p = q
WriterInv ==
  writer # NoJob =>
    /\ writer.ns \in CachedNs /\ IsThere(writer)
    /\ JobOk(writer, caches[writer.ns], promised[writer.ns])
DirectInv ==
  direct # NoJob =>
    /\ direct.ns \in DirectNs /\ IsThere(direct)
    /\ Based(files[direct.ns], promised[direct.ns], direct.slot, direct.gen)
    /\ promised[direct.ns] <= direct.ver

PInv == Shapes /\ CacheInv /\ FileInv /\ LoaderInv /\ QueueInv /\ WriterInv /\ DirectInv

-----------------------------------------------------------------------------
(* Generations.                                                             *)

LEMMA AfterIs == \A g \in Gens : After(g) = IF g = GenSpace - 1 THEN 0 ELSE g + 1
BY PrefsAssumption DEF Gens, After

LEMMA AfterGens == \A g \in Gens : After(g) \in Gens /\ After(g) # g /\ After(After(g)) # g
BY PrefsAssumption, AfterIs DEF Gens

LEMMA AfterInjective == \A g, h \in Gens : After(g) = After(h) => g = h
BY PrefsAssumption, AfterIs DEF Gens

\* The half of the space is at least two.
LEMMA HalfSpace == GenSpace \div 2 \in Nat /\ 2 <= GenSpace \div 2 /\ GenSpace \div 2 < GenSpace
BY PrefsAssumption

\* The wrap-aware comparison tells a generation from the one after it.
LEMMA NewerOne ==
  ASSUME NEW g \in Gens
  PROVE  newerGeneration(After(g), g) /\ ~newerGeneration(g, After(g))
<1>1. GenSpace \in Nat /\ GenSpace >= 4
  BY PrefsAssumption
<1>2. (After(g) - g) % GenSpace = 1
  <2>1. CASE g = GenSpace - 1
    <3>1. After(g) - g = 1 - GenSpace
      BY <2>1, <1>1, AfterIs DEF Gens
    <3>2. (1 - GenSpace) % GenSpace = 1
      BY <1>1
    <3> QED BY <3>1, <3>2
  <2>2. CASE g # GenSpace - 1
    BY <2>2, <1>1, AfterIs DEF Gens
  <2> QED BY <2>1, <2>2
<1>3. (g - After(g)) % GenSpace = GenSpace - 1
  <2>1. CASE g = GenSpace - 1
    <3>1. g - After(g) = GenSpace - 1
      BY <2>1, <1>1, AfterIs DEF Gens
    <3>2. (GenSpace - 1) % GenSpace = GenSpace - 1
      BY <1>1
    <3> QED BY <3>1, <3>2
  <2>2. CASE g # GenSpace - 1
    <3>1. g - After(g) = -1
      BY <2>2, <1>1, AfterIs DEF Gens
    <3>2. (-1) % GenSpace = GenSpace - 1
      BY <1>1
    <3> QED BY <3>1, <3>2
  <2> QED BY <2>1, <2>2
<1>4. GenSpace - 1 \notin 1 .. (GenSpace \div 2 - 1)
  BY <1>1, HalfSpace
<1>5. 1 \in 1 .. (GenSpace \div 2 - 1)
  BY <1>1, HalfSpace
<1> QED BY <1>2, <1>3, <1>4, <1>5 DEF newerGeneration

-----------------------------------------------------------------------------
(* The two files of a namespace.                                            *)

USE DEF Paths, Other

LEMMA KindsOfFiles ==
  /\ Absent \in Files /\ Empty \in Files /\ Torn \in Files
  /\ ~IsSnapshot(Absent) /\ ~IsSnapshot(Empty) /\ ~IsSnapshot(Torn)
  /\ \A v \in Nat : Records(v) \in Files /\ ~IsSnapshot(Records(v))
  /\ \A g \in Gens, v \in Nat : Snapshot(g, v) \in Files /\ IsSnapshot(Snapshot(g, v))
BY PrefsAssumption DEF Absent, Empty, Torn, Records, Snapshot, IsSnapshot, Files, Kinds, Gens

\* Of two snapshots a generation apart the boot takes the later one.
LEMMA LaterIsChosen ==
  ASSUME NEW fs \in Pairs, NEW t \in Paths, IsSnapshot(fs[t]),
         IsSnapshot(fs[Other(t)]) => fs[t].gen = After(fs[Other(t)].gen)
  PROVE  sdLoadChoice(fs) = Chosen(t, fs[t])
<1>1. fs.a \in Files /\ fs.b \in Files
  BY DEF Pairs
<1>2. fs.a.gen \in Gens /\ fs.b.gen \in Gens
  BY <1>1 DEF Files
<1>3. ~(fs.a = Absent /\ fs.b = Absent)
  BY KindsOfFiles
<1>4. CASE t = "a"
  BY <1>2, <1>3, <1>4, NewerOne DEF sdLoadChoice, readSnapshots
<1>5. CASE t = "b"
  BY <1>2, <1>3, <1>5, NewerOne DEF sdLoadChoice, readSnapshots
<1> QED BY <1>4, <1>5

\* While one of them is being replaced, the other is enough to boot from.
LEMMA BasedIsSafe ==
  ASSUME NEW fs \in Pairs, NEW p \in Nat, NEW t \in Paths, NEW g \in Gens, Based(fs, p, t, g)
  PROVE  Safe(fs, p)
<1> DEFINE o == fs[Other(t)]
           f == fs[t]
<1>1. o \in Files /\ f \in Files /\ o.gen \in Gens /\ f.gen \in Gens /\ o.ver \in Nat /\ f.ver \in Nat
  BY DEF Pairs, Files
<1>2. CASE IsSnapshot(o) /\ IsSnapshot(f)
  <2>1. p <= o.ver /\ g = After(o.gen)
    BY <1>2 DEF Based, Stands, IsSnapshot
  <2>2. (f.gen = After(o.gen) /\ p <= f.ver) \/ o.gen = After(f.gen)
    BY <1>2, <2>1 DEF Based, Replaceable
  <2>3. CASE f.gen = After(o.gen) /\ p <= f.ver
    <3>1. sdLoadChoice(fs) = Chosen(t, f)
      BY <1>2, <2>3, LaterIsChosen
    <3> QED BY <2>3, <3>1 DEF Safe, Chosen
  <2>4. CASE o.gen = After(f.gen)
    <3>1. sdLoadChoice(fs) = Chosen(Other(t), o)
      BY <1>2, <2>4, LaterIsChosen
    <3> QED BY <2>1, <2>4, <3>1 DEF Safe, Chosen
  <2> QED BY <2>2, <2>3, <2>4
<1>3. CASE IsSnapshot(o) /\ ~IsSnapshot(f)
  <2>1. p <= o.ver
    BY <1>3 DEF Based, Stands, IsSnapshot
  <2>2. sdLoadChoice(fs) = Chosen(Other(t), o)
    BY <1>3, LaterIsChosen
  <2> QED BY <1>3, <2>1, <2>2 DEF Safe, Chosen
<1>4. CASE ~IsSnapshot(o) /\ IsSnapshot(f)
  <2>1. p <= f.ver
    BY <1>4 DEF Based, Replaceable
  <2>2. sdLoadChoice(fs) = Chosen(t, f)
    BY <1>4, LaterIsChosen
  <2> QED BY <1>4, <2>1, <2>2 DEF Safe, Chosen
<1>5. CASE ~IsSnapshot(o) /\ ~IsSnapshot(f)
  <2>1. p = 0 \/ (t = "b" /\ o.kind = "records" /\ p <= o.ver)
    BY <1>5 DEF Based, Stands
  <2>2. ASSUME t = "b", o.kind = "records", p <= o.ver
        PROVE  sdLoadChoice(fs) = Chosen("none", o)
    BY <1>5, <2>2 DEF sdLoadChoice, readSnapshots, Absent
  <2> QED BY <1>5, <2>1, <2>2 DEF Safe, Chosen
<1> QED BY <1>2, <1>3, <1>4, <1>5

\* Whatever is left of a write at t that is not another snapshot.
LEMMA Rewrite ==
  ASSUME NEW fs \in Pairs, NEW p \in Nat, NEW t \in Paths, NEW g \in Gens, Based(fs, p, t, g),
         NEW f \in Files, IsSnapshot(f) => f.gen = g /\ p <= f.ver
  PROVE  [fs EXCEPT ![t] = f] \in Pairs /\ Based([fs EXCEPT ![t] = f], p, t, g)
<1> DEFINE es == [fs EXCEPT ![t] = f]
<1>1. es \in Pairs /\ es[t] = f /\ es[Other(t)] = fs[Other(t)]
  BY DEF Pairs
<1> QED BY <1>1 DEF Based, Stands, Replaceable

\* A snapshot that is complete is the base of the next one, and may be vouched
\* for; the file beside it is not yet of that next generation.
LEMMA CommitIsBased ==
  ASSUME NEW fs \in Pairs, NEW p \in Nat, NEW t \in Paths, NEW g \in Gens, Based(fs, p, t, g),
         NEW v \in Nat, NEW q \in Nat, q <= v, fs[t] = Snapshot(g, v)
  PROVE  /\ Based(fs, q, Other(t), After(g))
         /\ IsSnapshot(fs[Other(t)]) => fs[Other(t)].gen # After(g)
<1>1. Other(Other(t)) = t /\ Other(t) \in Paths
  OBVIOUS
<1>2. Stands(fs, q, Other(t), After(g))
  BY <1>1 DEF Stands, Snapshot, IsSnapshot
<1>3. IsSnapshot(fs[Other(t)]) => g = After(fs[Other(t)].gen)
  BY DEF Based, Stands, IsSnapshot
<1>4. fs[Other(t)].gen \in Gens
  BY <1>1 DEF Pairs, Files
<1>5. Based(fs, q, Other(t), After(g))
  BY <1>1, <1>2, <1>3 DEF Based, Replaceable, Snapshot, IsSnapshot
<1> QED BY <1>3, <1>4, <1>5, AfterGens

\* What sdLoad may choose.
LEMMA Choices ==
  ASSUME NEW fs \in Pairs, readSnapshots(fs.a, fs.b).ok
  PROVE  LET c == readSnapshots(fs.a, fs.b) IN
         \/ \E t \in Paths : /\ IsSnapshot(fs[t]) /\ c = Chosen(t, fs[t])
                             /\ IsSnapshot(fs[Other(t)]) => IF t = "a" THEN newerGeneration(fs.a.gen, fs.b.gen)
                                                            ELSE ~newerGeneration(fs.a.gen, fs.b.gen)
         \/ ~IsSnapshot(fs.a) /\ ~IsSnapshot(fs.b) /\ fs.a.kind = "records" /\ c = Chosen("none", fs.a)
<1>1. CASE IsSnapshot(fs.a) /\ (~IsSnapshot(fs.b) \/ newerGeneration(fs.a.gen, fs.b.gen))
  <2>1. readSnapshots(fs.a, fs.b) = Chosen("a", fs["a"])
    BY <1>1 DEF readSnapshots
  <2> QED BY <1>1, <2>1
<1>2. CASE ~(IsSnapshot(fs.a) /\ (~IsSnapshot(fs.b) \/ newerGeneration(fs.a.gen, fs.b.gen))) /\ IsSnapshot(fs.b)
  <2>1. readSnapshots(fs.a, fs.b) = Chosen("b", fs["b"])
    BY <1>2 DEF readSnapshots
  <2> QED BY <1>2, <2>1
<1>3. CASE ~IsSnapshot(fs.a) /\ ~IsSnapshot(fs.b)
  BY <1>3 DEF readSnapshots, Refused
<1> QED BY <1>1, <1>2, <1>3

\* The next snapshot after a boot that chose the snapshot at t.
LEMMA SnapshotIsBased ==
  ASSUME NEW fs \in Pairs, NEW p \in Nat, Safe(fs, p), NEW t \in Paths, IsSnapshot(fs[t]),
         IsSnapshot(fs[Other(t)]) => IF t = "a" THEN newerGeneration(fs.a.gen, fs.b.gen)
                                     ELSE ~newerGeneration(fs.a.gen, fs.b.gen)
  PROVE  /\ Based(fs, p, Other(t), After(fs[t].gen)) /\ p <= fs[t].ver
         /\ IsSnapshot(fs[Other(t)]) => fs[Other(t)].gen # After(fs[t].gen)
         /\ sdLoadChoice(fs) = Chosen(t, fs[t])
<1>1. /\ fs[t].gen \in Gens /\ fs[t].ver \in Nat
      /\ fs[Other(t)].gen \in Gens /\ fs[Other(t)].ver \in Nat
  BY DEF Pairs, Files
<1>2. IsSnapshot(fs[Other(t)]) => fs[t].gen = After(fs[Other(t)].gen)
  BY <1>1, NewerOne DEF Safe
<1>3. IsSnapshot(fs[Other(t)]) => fs[Other(t)].gen # After(fs[t].gen)
  BY <1>1, <1>2, AfterGens
<1>4. sdLoadChoice(fs) = Chosen(t, fs[t])
  BY <1>2, LaterIsChosen
<1>5. p <= fs[t].ver
  BY <1>1, <1>4 DEF Safe, Chosen
<1>6. Other(Other(t)) = t
  OBVIOUS
<1> QED BY <1>2, <1>3, <1>4, <1>5, <1>6 DEF Based, Stands, Replaceable, IsSnapshot

\* A cache that was just loaded.
LEMMA LoadIsOk ==
  ASSUME NEW fs \in Pairs, NEW p \in Nat, Safe(fs, p), sdLoadChoice(fs).ok
  PROVE  Loaded(sdLoadChoice(fs)) \in CacheRecs /\ CacheOk(Loaded(sdLoadChoice(fs)), fs, p)
<1> DEFINE c == sdLoadChoice(fs)
<1>1. /\ fs.a \in Files /\ fs.b \in Files /\ 0 \in Gens
  BY PrefsAssumption DEF Pairs, Gens
<1>2. CASE fs.a = Absent /\ fs.b = Absent
  <2>1. c = [ok |-> TRUE, slot |-> "none", gen |-> 0, ver |-> 0, legacy |-> FALSE]
    BY <1>2 DEF sdLoadChoice, Chosen, Absent
  <2>2. p = 0
    BY <2>1 DEF Safe
  <2>3. Loaded(c) = [loaded |-> TRUE, ver |-> 0, revision |-> 0, gen |-> 0, active |-> "none",
                     dirty |-> FALSE, writing |-> FALSE, legacy |-> FALSE]
    BY <2>1 DEF Loaded
  <2>4. Next1(Loaded(c)) = "a"
    BY <2>3 DEF Next1, inactiveSlot
  <2>5. Stands(fs, p, "a", After(0))
    <3>1. ~IsSnapshot(fs["b"]) /\ Other("a") = "b"
      BY <1>2, KindsOfFiles
    <3> QED BY <2>2, <3>1 DEF Stands
  <2>6. Based(fs, p, "a", After(0))
    BY <1>2, <2>5, KindsOfFiles DEF Based, Replaceable
  <2>7. Loaded(c) \in CacheRecs
    BY <1>1, <2>3 DEF CacheRecs, Slots
  <2> QED BY <1>2, <2>2, <2>3, <2>4, <2>6, <2>7 DEF CacheOk
<1>3. CASE ~(fs.a = Absent /\ fs.b = Absent)
  <2>1. c = readSnapshots(fs.a, fs.b)
    BY <1>3 DEF sdLoadChoice
  <2>2. CASE ~IsSnapshot(fs.a) /\ ~IsSnapshot(fs.b) /\ fs.a.kind = "records" /\ c = Chosen("none", fs.a)
    <3>1. c = [ok |-> TRUE, slot |-> "none", gen |-> fs.a.gen, ver |-> fs.a.ver, legacy |-> TRUE]
      BY <2>2 DEF Chosen
    <3>2. p <= fs.a.ver /\ fs.a.ver \in Nat /\ fs.a.gen = 0
      BY <1>1, <2>2, <3>1 DEF Safe, Files
    <3>3. /\ Loaded(c) = [loaded |-> TRUE, ver |-> fs.a.ver, revision |-> 1, gen |-> 0, active |-> "none",
                          dirty |-> TRUE, writing |-> FALSE, legacy |-> TRUE]
      BY <3>1, <3>2 DEF Loaded
    <3>4. Next1(Loaded(c)) = "b"
      BY <3>3 DEF Next1, inactiveSlot
    <3>5. Based(fs, p, "b", After(0))
      BY <2>2, <3>2 DEF Based, Stands, Replaceable
    <3>6. Loaded(c) \in CacheRecs
      BY <1>1, <3>2, <3>3 DEF CacheRecs, Slots
    <3> QED BY <3>2, <3>3, <3>4, <3>5, <3>6 DEF CacheOk
  <2>3. ASSUME NEW t \in Paths, IsSnapshot(fs[t]), c = Chosen(t, fs[t]),
               IsSnapshot(fs[Other(t)]) => IF t = "a" THEN newerGeneration(fs.a.gen, fs.b.gen)
                                           ELSE ~newerGeneration(fs.a.gen, fs.b.gen)
        PROVE  Loaded(c) \in CacheRecs /\ CacheOk(Loaded(c), fs, p)
    <3>1. /\ Based(fs, p, Other(t), After(fs[t].gen)) /\ p <= fs[t].ver
          /\ IsSnapshot(fs[Other(t)]) => fs[Other(t)].gen # After(fs[t].gen)
      BY <2>3, SnapshotIsBased
    <3>2. fs[t].gen \in Gens /\ fs[t].ver \in Nat
      BY DEF Pairs, Files
    <3>3. /\ Loaded(c).active = t /\ Loaded(c).gen = fs[t].gen /\ Loaded(c).ver = fs[t].ver
          /\ ~Loaded(c).writing /\ Next1(Loaded(c)) = Other(t)
      BY <2>3 DEF Loaded, Chosen, Next1, inactiveSlot
    <3>4. Loaded(c) \in CacheRecs
      BY <2>3, <3>2 DEF Loaded, Chosen, CacheRecs, Slots
    <3> QED BY <2>3, <3>1, <3>2, <3>3, <3>4 DEF CacheOk
  <2> QED BY <2>1, <2>2, <2>3, Choices
<1> QED BY <1>2, <1>3

\* The snapshot writeFileBool is about to write.
LEMMA DirectIsBased ==
  ASSUME NEW fs \in Pairs, NEW p \in Nat, Safe(fs, p), NEW c, c = readSnapshots(fs.a, fs.b)
  PROVE  /\ c.gen \in Gens /\ c.ver \in Nat /\ inactiveSlot(c.slot, c.ok) \in Paths
         /\ Based(fs, p, inactiveSlot(c.slot, c.ok), After(c.gen)) /\ p <= c.ver + 1
<1>1. fs.a \in Files /\ fs.b \in Files /\ 0 \in Gens
  BY PrefsAssumption DEF Pairs, Gens
<1>2. CASE ~c.ok
  <2>1. ~IsSnapshot(fs.a) /\ ~IsSnapshot(fs.b) /\ c = Refused
    BY <1>2 DEF readSnapshots, Chosen
  <2>2. p = 0
    BY <2>1 DEF Safe, sdLoadChoice, Refused, Chosen, Absent
  <2>3. inactiveSlot(c.slot, c.ok) = "a" /\ c.gen = 0 /\ c.ver = 0
    BY <2>1 DEF Refused, inactiveSlot
  <2>4. Based(fs, p, "a", After(0))
    BY <2>1, <2>2 DEF Based, Stands, Replaceable
  <2> QED BY <1>1, <2>2, <2>3, <2>4
<1>3. CASE c.ok
  <2>1. ASSUME NEW t \in Paths, IsSnapshot(fs[t]), c = Chosen(t, fs[t]),
               IsSnapshot(fs[Other(t)]) => IF t = "a" THEN newerGeneration(fs.a.gen, fs.b.gen)
                                           ELSE ~newerGeneration(fs.a.gen, fs.b.gen)
        PROVE  /\ c.gen \in Gens /\ c.ver \in Nat /\ inactiveSlot(c.slot, c.ok) \in Paths
               /\ Based(fs, p, inactiveSlot(c.slot, c.ok), After(c.gen)) /\ p <= c.ver + 1
    <3>1. Based(fs, p, Other(t), After(fs[t].gen)) /\ p <= fs[t].ver
      BY <2>1, SnapshotIsBased
    <3>2. fs[t].gen \in Gens /\ fs[t].ver \in Nat
      BY DEF Pairs, Files
    <3>3. c.gen = fs[t].gen /\ c.ver = fs[t].ver /\ inactiveSlot(c.slot, c.ok) = Other(t)
      BY <2>1 DEF Chosen, inactiveSlot
    <3>4. p <= fs[t].ver + 1
      BY <3>1, <3>2
    <3> QED BY <3>1, <3>2, <3>3, <3>4
  <2>2. CASE ~IsSnapshot(fs.a) /\ ~IsSnapshot(fs.b) /\ fs.a.kind = "records" /\ c = Chosen("none", fs.a)
    <3>1. sdLoadChoice(fs) = c
      BY <2>2 DEF sdLoadChoice, Absent
    <3>2. c = [ok |-> TRUE, slot |-> "none", gen |-> 0, ver |-> fs.a.ver, legacy |-> TRUE]
      BY <2>2, <1>1 DEF Chosen, Files
    <3>3. fs.a.ver \in Nat /\ p <= fs.a.ver
      BY <1>1, <3>1, <3>2 DEF Safe, Files
    <3>4. inactiveSlot(c.slot, c.ok) = "b"
      BY <3>2 DEF inactiveSlot
    <3>5. Based(fs, p, "b", After(0))
      BY <2>2, <3>3 DEF Based, Stands, Replaceable
    <3>6. p <= fs.a.ver + 1
      BY <3>3
    <3>7. c.gen = 0 /\ c.ver = fs.a.ver
      BY <3>2
    <3> QED BY <1>1, <3>3, <3>4, <3>5, <3>6, <3>7
  <2> QED BY <1>3, <2>1, <2>2, Choices
<1> QED BY <1>2, <1>3

\* A clean cache is what a boot would load.
LEMMA CleanIsChosen ==
  ASSUME NEW fs \in Pairs, NEW p \in Nat, NEW c \in CacheRecs, CacheOk(c, fs, p), ~c.dirty
  PROVE  /\ sdLoadChoice(fs).ok /\ sdLoadChoice(fs).ver = c.ver
         /\ c.active # "none" => sdLoadChoice(fs).slot = c.active /\ sdLoadChoice(fs).gen = c.gen
         /\ Based(fs, c.ver, Next1(c), After(c.gen))
<1>1. c.ver \in Nat /\ c.gen \in Gens /\ c.active \in Slots
  BY DEF CacheRecs
<1>2. CASE c.active = "none"
  <2>1. fs.a = Absent /\ fs.b = Absent /\ c.ver = 0 /\ p = 0
    BY <1>2 DEF CacheOk
  <2>2. sdLoadChoice(fs) = [ok |-> TRUE, slot |-> "none", gen |-> 0, ver |-> 0, legacy |-> FALSE]
    BY <2>1 DEF sdLoadChoice, Chosen, Absent
  <2> QED BY <1>2, <2>1, <2>2 DEF CacheOk
<1>3. CASE c.active # "none"
  <2> DEFINE t == c.active
  <2>1. t \in Paths /\ Next1(c) = Other(t) /\ Other(Next1(c)) = t
    BY <1>1, <1>3 DEF Slots, Next1, inactiveSlot
  <2>2. /\ IsSnapshot(fs[t]) /\ fs[t].gen = c.gen /\ fs[t].ver = c.ver
        /\ IsSnapshot(fs[Other(t)]) => fs[Other(t)].gen # After(c.gen)
    BY <1>3, <2>1 DEF CacheOk
  <2>3. IsSnapshot(fs[Other(t)]) => fs[t].gen = After(fs[Other(t)].gen)
    BY <2>1, <2>2 DEF CacheOk, Based, Replaceable
  <2>4. sdLoadChoice(fs) = Chosen(t, fs[t])
    BY <2>1, <2>2, <2>3, LaterIsChosen
  <2>5. Based(fs, c.ver, Next1(c), After(c.gen))
    BY <1>1, <2>1, <2>2, <2>3 DEF Based, Stands, Replaceable
  <2> QED BY <2>2, <2>4, <2>5 DEF Chosen
<1> QED BY <1>2, <1>3

-----------------------------------------------------------------------------
(* The initial states.                                                      *)

LEMMA StartIsSafe ==
  ASSUME NEW kind \in {"fresh", "released", "wrapping"}
  PROVE  LET fs == StartFiles(kind) IN
         fs \in Pairs /\ sdLoadChoice(fs).ver \in Nat /\ Safe(fs, sdLoadChoice(fs).ver)
<1> DEFINE fs == StartFiles(kind)
<1>1. CASE kind = "fresh"
  <2>1. fs = [a |-> Absent, b |-> Absent]
    BY <1>1 DEF StartFiles
  <2>2. fs \in Pairs /\ ~IsSnapshot(fs.a) /\ ~IsSnapshot(fs.b)
    BY <2>1, KindsOfFiles DEF Pairs
  <2>3. sdLoadChoice(fs).ver = 0
    BY <2>1 DEF sdLoadChoice, Chosen, Absent
  <2> QED BY <2>2, <2>3 DEF Safe
<1>2. CASE kind = "released"
  <2>1. fs = [a |-> Records(1), b |-> Absent]
    BY <1>2 DEF StartFiles
  <2>2. fs \in Pairs /\ ~IsSnapshot(fs.a) /\ ~IsSnapshot(fs.b)
    BY <2>1, KindsOfFiles DEF Pairs
  <2>3. fs.a.kind = "records" /\ fs.a.ver = 1 /\ fs.a # Absent
    BY <2>1 DEF Records, Absent
  <2>4. sdLoadChoice(fs).ok /\ sdLoadChoice(fs).ver = 1
    BY <2>2, <2>3 DEF sdLoadChoice, readSnapshots, Chosen
  <2> QED BY <2>2, <2>4 DEF Safe
<1>3. CASE kind = "wrapping"
  <2>1. fs = [a |-> Snapshot(GenSpace - 1, 1), b |-> Snapshot(GenSpace - 2, 0)]
    BY <1>3 DEF StartFiles
  <2>2. GenSpace - 1 \in Gens /\ GenSpace - 2 \in Gens
    BY PrefsAssumption DEF Gens
  <2>3. fs \in Pairs /\ IsSnapshot(fs.a) /\ IsSnapshot(fs.b)
    BY <2>1, <2>2, KindsOfFiles DEF Pairs
  <2>4. fs.a.gen = GenSpace - 1 /\ fs.b.gen = GenSpace - 2 /\ fs.a.ver = 1
    BY <2>1 DEF Snapshot
  <2>5. fs.a.gen = After(fs.b.gen)
    BY <2>2, <2>4, AfterIs, PrefsAssumption
  <2>6. sdLoadChoice(fs) = Chosen("a", fs["a"])
    BY <2>3, <2>5, LaterIsChosen
  <2> QED BY <2>3, <2>4, <2>5, <2>6 DEF Safe, Chosen
<1> QED BY <1>1, <1>2, <1>3

LEMMA PInit == Init => PInv
<1> SUFFICES ASSUME Init PROVE PInv
  OBVIOUS
<1>1. PICK kind \in [Namespaces -> {"fresh", "released", "wrapping"}] :
        files = [n \in Namespaces |-> StartFiles(kind[n])]
  BY DEF Init
<1>2. \A n \in Namespaces : /\ files[n] \in Pairs /\ promised[n] \in Nat
                            /\ Safe(files[n], promised[n])
  BY <1>1, StartIsSafe DEF Init, BootImage
<1>3. Unloaded \in CacheRecs
  BY PrefsAssumption DEF Unloaded, CacheRecs, Slots, Gens
<1>4. Shapes
  BY <1>1, <1>2, <1>3 DEF Init, Shapes
<1> QED BY <1>2, <1>4 DEF Init, PInv, CacheInv, FileInv, LoaderInv, QueueInv, WriterInv, DirectInv,
             Unloaded, NoLoad

-----------------------------------------------------------------------------
(* What a step preserves of the parts it does not touch.                    *)

LEMMA Apart == \A n \in CachedNs : n \in Namespaces /\ n \notin DirectNs
BY PrefsAssumption DEF Namespaces

LEMMA DirectApart == \A n \in DirectNs : n \in Namespaces /\ n \notin CachedNs
BY PrefsAssumption DEF Namespaces

\* Steps of the flush loop and of the loader that change nothing else.
LEMMA StandStill ==
  ASSUME PInv, UNCHANGED <<files, caches, queue, writer, direct, promised>>, LoaderInv'
  PROVE  PInv'
<1> USE DEF Target, IsThere
<1>1. Shapes'
  BY DEF PInv, Shapes
<1>2. CacheInv' /\ FileInv'
  BY DEF PInv, CacheInv, FileInv
<1>3. QueueInv'
  BY DEF PInv, QueueInv
<1>4. WriterInv'
  BY DEF PInv, WriterInv
<1>5. DirectInv'
  BY DEF PInv, DirectInv
<1> QED BY <1>1, <1>2, <1>3, <1>4, <1>5 DEF PInv

\* A cache that was not loaded has no job and no writer.
LEMMA NotLoadedIsIdle ==
  ASSUME PInv, NEW n \in CachedNs, ~caches[n].writing \/ ~caches[n].loaded
  PROVE  /\ \A p \in 1 .. Len(queue) : queue[p].ns # n
         /\ writer # NoJob => writer.ns # n
BY DEF PInv, QueueInv, WriterInv, JobOk

\* An entry enters the cache.
LEMMA Inserted ==
  ASSUME PInv, NEW n \in CachedNs, ~caches[n].loaded, BootImage(n).ok,
         caches' = [caches EXCEPT ![n] = Loaded(BootImage(n))],
         loader' = loader \/ loader' = NoLoad,
         UNCHANGED <<files, queue, writer, direct, promised>>
  PROVE  PInv'
<1> USE DEF Target, IsThere
<1>1. files[n] \in Pairs /\ promised[n] \in Nat /\ Safe(files[n], promised[n])
  BY Apart DEF PInv, Shapes, FileInv
<1>2. Loaded(BootImage(n)) \in CacheRecs /\ CacheOk(Loaded(BootImage(n)), files[n], promised[n])
  BY <1>1, LoadIsOk DEF BootImage
<1>3. caches'[n] = Loaded(BootImage(n)) /\ caches'[n].loaded
  BY DEF PInv, Shapes, Loaded
<1>4. \A m \in CachedNs : m # n => caches'[m] = caches[m]
  BY DEF PInv, Shapes
<1>5. Shapes'
  BY <1>2 DEF PInv, Shapes
<1>6. CacheInv'
  BY <1>2, <1>3, <1>4 DEF PInv, CacheInv
<1>7. FileInv'
  BY DEF PInv, FileInv
<1>8. LoaderInv'
  BY <1>3, <1>4 DEF PInv, LoaderInv, NoLoad, BootImage
<1>9. QueueInv'
  BY <1>4, NotLoadedIsIdle DEF PInv, QueueInv
<1>10. WriterInv'
  BY <1>4, NotLoadedIsIdle DEF PInv, WriterInv
<1>11. DirectInv'
  BY DEF PInv, DirectInv
<1> QED BY <1>5, <1>6, <1>7, <1>8, <1>9, <1>10, <1>11 DEF PInv

LEMMA OpenKeeps == ASSUME PInv, NEW n \in CachedNs, Open(n) PROVE PInv'
BY Inserted DEF Open

LEMMA SlowOpenReadsKeeps == ASSUME PInv, NEW n \in CachedNs, SlowOpenReads(n) PROVE PInv'
<1>1. LoaderInv'
  BY DEF SlowOpenReads, LoaderInv, BootImage
<1> QED BY <1>1, StandStill DEF SlowOpenReads

LEMMA SlowOpenInsertsKeeps == ASSUME PInv, SlowOpenInserts PROVE PInv'
<1> DEFINE n == loader.ns
<1>1. n \in CachedNs /\ loader.choice.ok /\ (~caches[n].loaded => loader.choice = BootImage(n))
  BY DEF PInv, LoaderInv, SlowOpenInserts
<1>2. CASE ~caches[n].loaded
  <2>1. caches' = [caches EXCEPT ![n] = Loaded(BootImage(n))]
    BY <1>1, <1>2 DEF SlowOpenInserts, Insert
  <2> QED BY <1>1, <1>2, <2>1, Inserted DEF SlowOpenInserts
<1>3. CASE caches[n].loaded
  <2>1. caches' = caches
    BY <1>1, <1>3 DEF SlowOpenInserts, Insert, PInv, Shapes
  <2>2. LoaderInv'
    BY DEF SlowOpenInserts, LoaderInv, NoLoad
  <2> QED BY <2>1, <2>2, StandStill DEF SlowOpenInserts
<1> QED BY <1>2, <1>3

-----------------------------------------------------------------------------
(* Setters and scheduling.                                                  *)

LEMMA SetKeeps == ASSUME PInv, NEW n \in CachedNs, sdSet(n) PROVE PInv'
<1> DEFINE c == caches[n]
           d == [c EXCEPT !.ver = @ + 1, !.revision = @ + 1, !.dirty = TRUE]
<1> USE DEF Target, IsThere
<1>1. /\ c \in CacheRecs /\ c.loaded
      /\ c.ver \in Nat /\ c.revision \in Nat
      /\ promised[n] \in Nat
  BY Apart DEF PInv, Shapes, CacheRecs, sdSet
<1>2. caches' = [caches EXCEPT ![n] = d]
  BY <1>1 DEF sdSet, PInv, Shapes
<1>3. d \in CacheRecs
  <2>1. c.ver + 1 \in Nat /\ c.revision + 1 \in Nat
    BY <1>1
  <2> HIDE DEF c
  <2> QED BY <1>1, <2>1 DEF CacheRecs
<1>4. /\ d.loaded = c.loaded /\ d.gen = c.gen /\ d.active = c.active /\ d.legacy = c.legacy
      /\ d.writing = c.writing /\ d.dirty /\ d.ver = c.ver + 1 /\ d.revision = c.revision + 1
  BY <1>1 DEF CacheRecs
<1>5. Next1(d) = Next1(c)
  BY <1>4 DEF Next1
<1>6. caches'[n] = d /\ \A m \in CachedNs : m # n => caches'[m] = caches[m]
  BY <1>2 DEF PInv, Shapes
<1>7. Shapes'
  BY <1>2, <1>3 DEF PInv, Shapes, sdSet
<1>8. CacheInv'
  <2>1. CacheOk(c, files[n], promised[n])
    BY <1>1 DEF PInv, CacheInv
  <2>2. CacheOk(d, files[n], promised[n])
    BY <2>1, <1>1, <1>4, <1>5 DEF CacheOk
  <2> QED BY <2>2, <1>6 DEF PInv, CacheInv, sdSet
<1>9. FileInv' /\ DirectInv'
  BY DEF PInv, FileInv, DirectInv, sdSet
<1>10. LoaderInv'
  BY <1>1, <1>4, <1>6 DEF PInv, LoaderInv, sdSet, BootImage
<1>11. ASSUME NEW j, j \in JobRecs, JobOk(j, c, promised[n])
       PROVE  JobOk(j, d, promised[n])
  <2>1. j.ver \in Nat /\ j.revision \in Nat
    BY <1>11 DEF JobRecs
  <2> QED BY <2>1, <1>1, <1>4, <1>5, <1>11 DEF JobOk
<1>12. QueueInv'
  <2>1. \A p \in 1 .. Len(queue) : queue[p] \in JobRecs
    BY DEF PInv, Shapes
  <2>2. queue' = queue /\ promised' = promised /\ writer' = writer
    BY DEF sdSet
  <2>3. ASSUME NEW p \in 1 .. Len(queue)
        PROVE  JobOk(queue[p], caches'[queue[p].ns], promised[queue[p].ns])
    <3>1. queue[p].ns \in CachedNs /\ JobOk(queue[p], caches[queue[p].ns], promised[queue[p].ns])
      BY DEF PInv, QueueInv
    <3> QED BY <1>6, <1>11, <2>1, <3>1
  <2> QED BY <2>2, <2>3 DEF PInv, QueueInv
<1>13. WriterInv'
  <2>1. CASE writer = NoJob
    BY <2>1 DEF WriterInv, sdSet
  <2>2. CASE writer # NoJob
    <3>1. writer \in JobRecs
      BY <2>2 DEF PInv, Shapes
    <3>2. writer.ns \in CachedNs /\ IsThere(writer) /\ JobOk(writer, caches[writer.ns], promised[writer.ns])
      BY <2>2 DEF PInv, WriterInv
    <3>3. JobOk(writer, caches'[writer.ns], promised[writer.ns])
      BY <1>6, <1>11, <3>1, <3>2
    <3> QED BY <3>2, <3>3 DEF WriterInv, sdSet
  <2> QED BY <2>1, <2>2
<1> QED BY <1>7, <1>8, <1>9, <1>10, <1>12, <1>13 DEF PInv

LEMMA ScheduleKeeps ==
  ASSUME PInv, NEW n \in CachedNs, scheduleOne(n),
         UNCHANGED <<files, writer, direct, loader, promised>>
  PROVE  PInv'
<1> DEFINE c == caches[n]
           d == [c EXCEPT !.writing = TRUE]
           j == Job(n)
<1> USE DEF Target, IsThere
<1>1. CASE UNCHANGED <<queue, caches>>
  <2>1. LoaderInv'
    BY <1>1 DEF PInv, LoaderInv, BootImage
  <2> QED BY <1>1, <2>1, StandStill
<1>2. CASE /\ queue' = Append(queue, j)
           /\ caches' = [caches EXCEPT ![n].writing = TRUE]
  <2>1. /\ c \in CacheRecs /\ c.loaded /\ c.dirty /\ ~c.writing
        /\ c.ver \in Nat /\ c.revision \in Nat /\ c.gen \in Gens
        /\ promised[n] \in Nat
    BY Apart DEF PInv, Shapes, CacheRecs, scheduleOne, Schedulable
  <2>2. caches' = [caches EXCEPT ![n] = d]
    BY <1>2, <2>1 DEF PInv, Shapes
  <2>3. d \in CacheRecs
    BY <2>1 DEF CacheRecs
  <2>4. /\ d.loaded /\ d.writing /\ d.dirty
        /\ d.gen = c.gen /\ d.active = c.active /\ d.legacy = c.legacy
        /\ d.ver = c.ver /\ d.revision = c.revision
    BY <2>1 DEF CacheRecs
  <2>5. Next1(d) = Next1(c) /\ Next1(c) \in Paths
    BY <2>1, <2>4 DEF Next1, inactiveSlot
  <2>6. caches'[n] = d /\ \A m \in CachedNs : m # n => caches'[m] = caches[m]
    BY <2>2 DEF PInv, Shapes
  <2>7. CacheOk(c, files[n], promised[n])
    BY <2>1 DEF PInv, CacheInv
  <2>8. /\ j \in JobRecs /\ j.phase = "queued" /\ j.ns = n
        /\ JobOk(j, d, promised[n])
    <3>1. j = [phase |-> "queued", ns |-> n, ver |-> c.ver, revision |-> c.revision,
               gen |-> After(c.gen), slot |-> Next1(c)]
      BY DEF Job, After, Next1
    <3>2. j \in JobRecs
      BY <2>1, <2>5, <3>1, Apart, AfterGens DEF JobRecs
    <3>3. promised[n] <= c.ver
      BY <2>7 DEF CacheOk
    <3>4. JobOk(j, d, promised[n])
      BY <2>1, <2>4, <2>5, <3>1, <3>3 DEF JobOk
    <3> QED BY <3>1, <3>2, <3>4
  <2>9. queue \in Seq(JobRecs)
    BY DEF PInv, Shapes
  <2>10. Shapes'
    BY <1>2, <2>2, <2>3, <2>8, <2>9 DEF PInv, Shapes
  <2>11. CacheInv'
    <3>1. CacheOk(d, files[n], promised[n])
      BY <2>4, <2>5, <2>7 DEF CacheOk
    <3> QED BY <2>6, <3>1 DEF PInv, CacheInv
  <2>12. FileInv' /\ DirectInv'
    BY DEF PInv, FileInv, DirectInv
  <2>13. LoaderInv'
    BY <2>1, <2>4, <2>6 DEF PInv, LoaderInv, BootImage
  <2>14. WriterInv'
    BY <2>1, <2>6, NotLoadedIsIdle DEF PInv, WriterInv
  <2>15. \A p \in 1 .. Len(queue) : queue[p].ns # n
    BY <2>1, NotLoadedIsIdle
  <2>16. /\ Len(queue') = Len(queue) + 1 /\ Len(queue) \in Nat /\ queue'[Len(queue) + 1] = j
         /\ \A p \in 1 .. Len(queue) : queue'[p] = queue[p]
    BY <1>2, <2>9
  <2>17. ASSUME NEW p \in 1 .. Len(queue')
         PROVE  /\ queue'[p].phase = "queued" /\ queue'[p].ns \in CachedNs
                /\ JobOk(queue'[p], caches'[queue'[p].ns], promised[queue'[p].ns])
                /\ writer # NoJob => queue'[p].ns # writer.ns
    <3>1. CASE p = Len(queue) + 1
      BY <3>1, <2>1, <2>6, <2>8, <2>16, NotLoadedIsIdle
    <3>2. CASE p \in 1 .. Len(queue)
      BY <3>2, <2>6, <2>15, <2>16 DEF PInv, QueueInv
    <3> QED BY <2>16, <3>1, <3>2
  <2>18. ASSUME NEW p \in 1 .. Len(queue'), NEW q \in 1 .. Len(queue'), queue'[p].ns = queue'[q].ns
         PROVE  p = q
    <3>1. CASE p \in 1 .. Len(queue) /\ q \in 1 .. Len(queue)
      BY <3>1, <2>16, <2>18 DEF PInv, QueueInv
    <3>2. CASE p = Len(queue) + 1 \/ q = Len(queue) + 1
      BY <3>2, <2>8, <2>15, <2>16, <2>18
    <3> QED BY <2>16, <3>1, <3>2
  <2>19. QueueInv'
    BY <2>17, <2>18 DEF QueueInv
  <2> QED BY <2>10, <2>11, <2>12, <2>13, <2>14, <2>19 DEF PInv
<1> QED BY <1>1, <1>2 DEF scheduleOne

LEMMA FlushReturnsKeeps == ASSUME PInv, FlushReturns PROVE PInv'
<1> USE DEF Target, IsThere
<1>1. \A n \in CachedNs : ~caches[n].dirty /\ ~caches[n].writing
  BY DEF FlushReturns, Pending
<1>2. /\ writer = NoJob
      /\ \A p \in 1 .. Len(queue) : FALSE
  BY <1>1 DEF PInv, WriterInv, QueueInv, JobOk
<1>3. ASSUME NEW n \in CachedNs, caches[n].loaded
      PROVE  /\ caches[n] \in CacheRecs /\ caches[n].ver \in Nat /\ promised'[n] = caches[n].ver
             /\ CacheOk(caches[n], files[n], promised[n])
             /\ Based(files[n], caches[n].ver, Next1(caches[n]), After(caches[n].gen))
             /\ Safe(files[n], caches[n].ver)
  <2>1. files[n] \in Pairs /\ promised[n] \in Nat /\ caches[n] \in CacheRecs
    BY Apart DEF PInv, Shapes
  <2>2. /\ caches[n].ver \in Nat /\ caches[n].gen \in Gens /\ Next1(caches[n]) \in Paths
    BY <2>1 DEF CacheRecs, Next1, inactiveSlot
  <2>3. CacheOk(caches[n], files[n], promised[n])
    BY <1>3 DEF PInv, CacheInv
  <2>4. Based(files[n], caches[n].ver, Next1(caches[n]), After(caches[n].gen))
    BY <1>1, <2>1, <2>3, CleanIsChosen
  <2>5. Safe(files[n], caches[n].ver)
    BY <2>1, <2>2, <2>4, AfterGens, BasedIsSafe
  <2>6. promised'[n] = caches[n].ver
    BY <1>3, Apart DEF FlushReturns
  <2> QED BY <2>1, <2>2, <2>3, <2>4, <2>5, <2>6
<1>4. \A n \in Namespaces : n \notin CachedNs \/ ~caches[n].loaded => promised'[n] = promised[n]
  BY DEF FlushReturns
<1>5. Shapes'
  <2>1. \A n \in Namespaces : promised'[n] \in Nat
    BY <1>3, <1>4 DEF PInv, Shapes
  <2>2. promised' \in [Namespaces -> Nat]
    BY <2>1 DEF FlushReturns
  <2> QED BY <2>2 DEF PInv, Shapes, FlushReturns
<1>6. CacheInv'
  <2> SUFFICES ASSUME NEW n \in CachedNs, caches[n].loaded
               PROVE  CacheOk(caches[n], files[n], promised'[n])
    BY DEF CacheInv, FlushReturns
  <2> QED BY <1>3 DEF CacheOk
<1>7. FileInv'
  BY <1>3, <1>4 DEF PInv, FileInv, FlushReturns
<1>8. LoaderInv'
  BY DEF PInv, LoaderInv, FlushReturns, BootImage
<1>9. QueueInv' /\ WriterInv'
  BY <1>2 DEF QueueInv, WriterInv, FlushReturns
<1>10. DirectInv'
  BY <1>4, DirectApart DEF PInv, DirectInv, FlushReturns
<1> QED BY <1>5, <1>6, <1>7, <1>8, <1>9, <1>10 DEF PInv

LEMMA FlushKeeps == ASSUME PInv, FlushStart \/ FlushSchedules \/ FlushWaits PROVE PInv'
<1>1. CASE UNCHANGED <<files, caches, queue, writer, direct, promised, loader>>
  <2>1. LoaderInv'
    BY <1>1 DEF PInv, LoaderInv, BootImage
  <2> QED BY <1>1, <2>1, StandStill
<1>2. CASE /\ \E n \in CachedNs : scheduleOne(n)
           /\ UNCHANGED <<files, writer, direct, loader, promised>>
  BY <1>2, ScheduleKeeps
<1> QED BY <1>1, <1>2 DEF FlushStart, FlushSchedules, FlushWaits

-----------------------------------------------------------------------------
(* The writer task.                                                         *)

LEMMA WriterTakesKeeps == ASSUME PInv, WriterTakes PROVE PInv'
<1> USE DEF Target, IsThere
<1>1. queue \in Seq(JobRecs) /\ queue # <<>>
  BY DEF PInv, Shapes, WriterTakes
<1>2. /\ writer' = queue[1] /\ queue' = Tail(queue)
      /\ Len(queue) \in Nat /\ 1 \in 1 .. Len(queue)
      /\ queue' \in Seq(JobRecs) /\ Len(queue') = Len(queue) - 1
      /\ \A p \in 1 .. Len(queue') : p + 1 \in 1 .. Len(queue) /\ queue'[p] = queue[p + 1]
  BY <1>1 DEF WriterTakes
<1>3. writer' \in JobRecs
  BY <1>1, <1>2
<1>4. Shapes'
  BY <1>2, <1>3 DEF PInv, Shapes, WriterTakes
<1>5. CacheInv' /\ FileInv' /\ DirectInv'
  BY DEF PInv, CacheInv, FileInv, DirectInv, WriterTakes
<1>6. LoaderInv'
  BY DEF PInv, LoaderInv, BootImage, WriterTakes
<1>7. WriterInv'
  BY <1>2 DEF PInv, QueueInv, WriterInv, WriterTakes
<1>8. QueueInv'
  <2>1. ASSUME NEW p \in 1 .. Len(queue')
        PROVE  /\ queue'[p].phase = "queued" /\ queue'[p].ns \in CachedNs
               /\ JobOk(queue'[p], caches'[queue'[p].ns], promised'[queue'[p].ns])
               /\ queue'[p].ns # writer'.ns
    <3>1. p + 1 \in 1 .. Len(queue) /\ queue'[p] = queue[p + 1] /\ p + 1 # 1
      BY <1>2
    <3>2. queue[p + 1].ns # queue[1].ns
      BY <1>2, <3>1 DEF PInv, QueueInv
    <3> QED BY <1>2, <3>1, <3>2 DEF PInv, QueueInv, WriterTakes
  <2>2. ASSUME NEW p \in 1 .. Len(queue'), NEW q \in 1 .. Len(queue'), queue'[p].ns = queue'[q].ns
        PROVE  p = q
    <3>1. p + 1 = q + 1
      BY <1>2, <2>2 DEF PInv, QueueInv
    <3> QED BY <3>1
  <2> QED BY <2>1, <2>2 DEF QueueInv
<1> QED BY <1>4, <1>5, <1>6, <1>7, <1>8 DEF PInv

\* What is left at the path of a job is not another snapshot than its own.
Own(j, f) == f \in Files /\ (IsSnapshot(f) => f.gen = j.gen /\ f.ver = j.ver)

LEMMA HalvesAreOwn ==
  ASSUME NEW j \in JobRecs, NEW f, f \in HalfWritten(j) \/ f = Empty \/ f = Snapshot(j.gen, j.ver)
  PROVE  Own(j, f)
<1>1. j.gen \in Gens /\ j.ver \in Nat
  BY DEF JobRecs
<1>2. Snapshot(j.gen, j.ver).gen = j.gen /\ Snapshot(j.gen, j.ver).ver = j.ver
  BY DEF Snapshot
<1> QED BY <1>1, <1>2, KindsOfFiles DEF Own, HalfWritten

\* One step of writeSnapshot, from the job j to k in phase x.
StepLeaves(j, k, x) ==
  /\ k \in JobRecs /\ k.ns = j.ns /\ k.ver = j.ver /\ k.revision = j.revision
  /\ k.gen = j.gen /\ k.slot = j.slot /\ k.phase = x
  /\ \/ files' = files
     \/ \E f : Own(j, f) /\ files' = [files EXCEPT ![j.ns][j.slot] = f]
  /\ x \in {"written", "committed"} => files'[j.ns][j.slot] = Snapshot(j.gen, j.ver)

LEMMA WriteStep ==
  ASSUME NEW j \in JobRecs, NEW x \in {"open", "written", "committed", "failed"},
         NEW k, k = [j EXCEPT !.phase = x], files \in [Namespaces -> Pairs],
         j.phase \in {"written", "committed"} => Target(j) = Snapshot(j.gen, j.ver),
         writeSnapshot(j, k)
  PROVE  StepLeaves(j, k, x)
<1>0. \A y : [j EXCEPT !.phase = y].phase = y
  BY DEF JobRecs
<1>1. /\ j.ns \in Namespaces /\ j.slot \in Paths /\ j.gen \in Gens /\ j.ver \in Nat
      /\ k \in JobRecs /\ k.ns = j.ns /\ k.ver = j.ver /\ k.revision = j.revision
      /\ k.gen = j.gen /\ k.slot = j.slot /\ k.phase = x
  BY DEF JobRecs
<1>2. files[j.ns] \in [Paths -> Files]
  BY <1>1 DEF Pairs
<1>3. \A f : files' = [files EXCEPT ![j.ns][j.slot] = f] => files'[j.ns][j.slot] = f
  BY <1>1, <1>2
<1>4. CASE openFile(j, k)
  <2>1. x \in {"open", "failed"}
    <3>1. k = [j EXCEPT !.phase = "open"] \/ k = [j EXCEPT !.phase = "failed"]
      BY <1>4 DEF openFile
    <3> QED BY <1>1, <1>0, <3>1
  <2>2. files' = files \/ files' = [files EXCEPT ![j.ns][j.slot] = Empty]
    BY <1>4 DEF openFile, Put
  <2> QED BY <1>1, <2>1, <2>2, HalvesAreOwn DEF StepLeaves
<1>5. CASE writePayload(j, k)
  <2>1. CASE x = "written" /\ files' = [files EXCEPT ![j.ns][j.slot] = Snapshot(j.gen, j.ver)]
    BY <1>1, <1>3, <2>1, HalvesAreOwn DEF StepLeaves
  <2>2. CASE x = "failed" /\ \E f \in HalfWritten(j) : files' = [files EXCEPT ![j.ns][j.slot] = f]
    BY <1>1, <2>2, HalvesAreOwn DEF StepLeaves
  <2>3. \/ /\ k = [j EXCEPT !.phase = "written"]
           /\ files' = [files EXCEPT ![j.ns][j.slot] = Snapshot(j.gen, j.ver)]
        \/ k = [j EXCEPT !.phase = "failed"]
           /\ \E f \in HalfWritten(j) : files' = [files EXCEPT ![j.ns][j.slot] = f]
    BY <1>5 DEF writePayload, Put
  <2>4. (k = [j EXCEPT !.phase = "written"] => x = "written") /\ (k = [j EXCEPT !.phase = "failed"] => x = "failed")
    BY <1>0, <1>1
  <2> QED BY <2>1, <2>2, <2>3, <2>4
<1>6. CASE closeAndVerify(j, k)
  <2>1. Target(j) = Snapshot(j.gen, j.ver)
    BY <1>6 DEF closeAndVerify
  <2>2. CASE x = "committed" /\ files' = files
    BY <1>1, <2>1, <2>2 DEF Target, StepLeaves
  <2>3. CASE x = "failed" /\ \E f \in HalfWritten(j) \cup {Target(j)} : files' = [files EXCEPT ![j.ns][j.slot] = f]
    BY <1>1, <2>1, <2>3, HalvesAreOwn DEF StepLeaves
  <2>4. \/ k = [j EXCEPT !.phase = "committed"] /\ files' = files
        \/ k = [j EXCEPT !.phase = "failed"]
           /\ \E f \in HalfWritten(j) \cup {Target(j)} : files' = [files EXCEPT ![j.ns][j.slot] = f]
    BY <1>6 DEF closeAndVerify, Put
  <2>5. (k = [j EXCEPT !.phase = "committed"] => x = "committed") /\ (k = [j EXCEPT !.phase = "failed"] => x = "failed")
    BY <1>0, <1>1
  <2> QED BY <2>2, <2>3, <2>4, <2>5
<1> QED BY <1>4, <1>5, <1>6 DEF writeSnapshot

\* What such a write leaves of the files of its namespace.
LEMMA OwnWrite ==
  ASSUME NEW fs, fs \in [Namespaces -> Pairs], NEW j \in JobRecs, NEW p \in Nat,
         Based(fs[j.ns], p, j.slot, j.gen), p <= j.ver,
         NEW f, Own(j, f), NEW gs, gs = [fs EXCEPT ![j.ns][j.slot] = f]
  PROVE  /\ gs \in [Namespaces -> Pairs]
         /\ \A m \in Namespaces : m # j.ns => gs[m] = fs[m]
         /\ gs[j.ns][Other(j.slot)] = fs[j.ns][Other(j.slot)]
         /\ Based(gs[j.ns], p, j.slot, j.gen)
<1> DEFINE es == [fs[j.ns] EXCEPT ![j.slot] = f]
<1>1. /\ j.ns \in Namespaces /\ j.slot \in Paths /\ j.gen \in Gens /\ j.ver \in Nat
      /\ fs[j.ns] \in Pairs
  BY DEF JobRecs
<1>2. es \in Pairs /\ Based(es, p, j.slot, j.gen)
  BY <1>1, Rewrite DEF Own
<1>3. gs = [fs EXCEPT ![j.ns] = es]
  BY <1>1
<1>4. gs[j.ns] = es /\ gs \in [Namespaces -> Pairs] /\ \A m \in Namespaces : m # j.ns => gs[m] = fs[m]
  BY <1>1, <1>2, <1>3
<1>5. es[Other(j.slot)] = fs[j.ns][Other(j.slot)]
  BY <1>1 DEF Pairs
<1> QED BY <1>2, <1>4, <1>5

\* What the invariant says of the job in the writer's hands.
LEMMA WriterHolds ==
  ASSUME PInv, writer # NoJob
  PROVE  LET n == writer.ns IN
         /\ writer \in JobRecs /\ n \in CachedNs /\ n \in Namespaces
         /\ caches[n] \in CacheRecs /\ files[n] \in Pairs /\ promised[n] \in Nat
         /\ CacheOk(caches[n], files[n], promised[n]) /\ caches[n].dirty /\ caches[n].loaded
         /\ JobOk(writer, caches[n], promised[n])
         /\ Based(files[n], promised[n], writer.slot, writer.gen)
         /\ promised[n] <= writer.ver
         /\ \A p \in 1 .. Len(queue) : queue[p].ns # n
         /\ writer.phase \in {"written", "committed"} => Target(writer) = Snapshot(writer.gen, writer.ver)
<1> DEFINE n == writer.ns
<1>1. writer \in JobRecs /\ n \in CachedNs /\ n \in Namespaces /\ IsThere(writer)
  BY Apart DEF PInv, Shapes, WriterInv
<1>2. JobOk(writer, caches[n], promised[n])
  BY DEF PInv, WriterInv
<1>3. caches[n] \in CacheRecs /\ files[n] \in Pairs /\ promised[n] \in Nat
  BY <1>1 DEF PInv, Shapes
<1>4. CacheOk(caches[n], files[n], promised[n])
  BY <1>1, <1>2 DEF PInv, CacheInv, JobOk
<1>5. caches[n].dirty
  BY <1>2, <1>4 DEF CacheOk, JobOk
<1>6. \A p \in 1 .. Len(queue) : queue[p].ns # n
  BY DEF PInv, QueueInv
<1> QED BY <1>1, <1>2, <1>3, <1>4, <1>5, <1>6 DEF CacheOk, JobOk, IsThere

LEMMA WriterWritesKeeps == ASSUME PInv, WriterWrites PROVE PInv'
<1> DEFINE n == writer.ns
           p == promised[n]
<1>1. writer # NoJob /\ UNCHANGED <<caches, queue, direct, loader, promised>>
  BY DEF WriterWrites
<1>2. files \in [Namespaces -> Pairs]
  BY DEF PInv, Shapes
<1>3. PICK x \in {"open", "written", "committed", "failed"} :
        writer' = [writer EXCEPT !.phase = x] /\ writeSnapshot(writer, writer')
  BY DEF WriterWrites
<1>4. /\ writer' \in JobRecs /\ writer'.ns = n /\ writer'.ver = writer.ver
      /\ writer'.revision = writer.revision /\ writer'.gen = writer.gen /\ writer'.slot = writer.slot
      /\ \/ files' = files
         \/ \E f : Own(writer, f) /\ files' = [files EXCEPT ![n][writer.slot] = f]
      /\ writer'.phase \in {"written", "committed"} =>
           files'[n][writer.slot] = Snapshot(writer.gen, writer.ver)
  <2>1. writer \in JobRecs /\ (writer.phase \in {"written", "committed"} =>
                                 Target(writer) = Snapshot(writer.gen, writer.ver))
    BY <1>1, WriterHolds
  <2> HIDE DEF n
  <2>2. StepLeaves(writer, writer', x)
    BY <1>2, <1>3, <2>1, WriteStep
  <2> QED BY <2>2 DEF n, StepLeaves
<1>5. /\ files' \in [Namespaces -> Pairs]
      /\ \A m \in Namespaces : m # n => files'[m] = files[m]
      /\ files'[n][Other(writer.slot)] = files[n][Other(writer.slot)]
      /\ Based(files'[n], p, writer.slot, writer.gen)
  <2>1. CASE files' = files
    BY <1>1, <1>2, <2>1, WriterHolds
  <2>2. CASE \E f : Own(writer, f) /\ files' = [files EXCEPT ![n][writer.slot] = f]
    BY <1>1, <1>2, <2>2, WriterHolds, OwnWrite
  <2> QED BY <1>4, <2>1, <2>2
<1>6. IsThere(writer)'
  BY <1>4 DEF IsThere, Target
<1>7. Shapes'
  BY <1>1, <1>4, <1>5 DEF PInv, Shapes
<1>8. CacheOk(caches[n], files'[n], p)
  <2> DEFINE c == caches[n]
  <2>1. /\ CacheOk(c, files[n], p) /\ c.dirty /\ c \in CacheRecs
        /\ writer.slot = Next1(c) /\ writer.gen = After(c.gen)
    BY <1>1, WriterHolds DEF JobOk
  <2>2. c.active # "none" => Other(writer.slot) = c.active
    BY <2>1 DEF CacheRecs, Slots, Next1, inactiveSlot
  <2>3. c.active # "none" => IsSnapshot(files'[n][c.active]) /\ files'[n][c.active].gen = c.gen
    BY <1>5, <2>1, <2>2 DEF CacheOk
  <2>4. Based(files'[n], p, Next1(c), After(c.gen))
    BY <1>5, <2>1
  <2> QED BY <2>1, <2>3, <2>4 DEF CacheOk
<1>9. CacheInv'
  BY <1>1, <1>5, <1>8, Apart DEF PInv, CacheInv
<1>10. FileInv'
  <2>1. Safe(files'[n], p)
    BY <1>1, <1>5, WriterHolds, BasedIsSafe DEF JobRecs
  <2> QED BY <1>1, <1>5, <2>1 DEF PInv, FileInv
<1>11. LoaderInv'
  <2>1. \A m \in CachedNs : ~caches[m].loaded => m # n /\ files'[m] = files[m]
    BY <1>1, <1>5, WriterHolds, Apart
  <2> QED BY <1>1, <2>1 DEF PInv, LoaderInv, BootImage
<1>12. QueueInv'
  BY <1>1, WriterHolds, <1>4 DEF PInv, QueueInv
<1>13. WriterInv'
  BY <1>1, <1>4, <1>6, WriterHolds DEF WriterInv, JobOk
<1>14. DirectInv'
  <2>1. direct # NoJob => direct.ns # n /\ files'[direct.ns] = files[direct.ns]
    BY <1>1, <1>5, WriterHolds, DirectApart DEF PInv, DirectInv
  <2> QED BY <1>1, <2>1 DEF PInv, DirectInv, IsThere, Target
<1> QED BY <1>7, <1>9, <1>10, <1>11, <1>12, <1>13, <1>14 DEF PInv

LEMMA WriterFinishesKeeps == ASSUME PInv, WriterFinishes PROVE PInv'
<1> DEFINE n == writer.ns
           c == caches[n]
           d == IF writer.phase = "committed" THEN Committed(c, writer) ELSE NotCommitted(c)
           fs == files[n]
           p == promised[n]
<1>1. writer # NoJob /\ UNCHANGED <<files, queue, direct, loader, promised>> /\ writer' = NoJob
  BY DEF WriterFinishes, NoJob
<1>2. /\ n \in CachedNs /\ n \in Namespaces /\ c \in CacheRecs /\ fs \in Pairs /\ p \in Nat
      /\ writer \in JobRecs /\ writer.slot \in Paths /\ writer.gen \in Gens
      /\ writer.ver \in Nat /\ writer.revision \in Nat
      /\ CacheOk(c, fs, p) /\ JobOk(writer, c, p) /\ c.dirty /\ c.loaded
      /\ Based(fs, p, writer.slot, writer.gen)
  BY <1>1, WriterHolds DEF JobRecs
<1>3. caches' = [caches EXCEPT ![n] = d]
  BY DEF WriterFinishes
<1>4. d \in CacheRecs /\ d.loaded /\ ~d.writing /\ d.ver = c.ver /\ CacheOk(d, fs, p)
  <2>1. CASE writer.phase # "committed"
    <3>1. d = [c EXCEPT !.writing = FALSE, !.dirty = TRUE]
      BY <2>1 DEF NotCommitted
    <3> HIDE DEF d, c
    <3>2. /\ d \in CacheRecs /\ d.loaded /\ ~d.writing /\ d.dirty /\ d.ver = c.ver
          /\ d.active = c.active /\ d.legacy = c.legacy /\ d.gen = c.gen
      BY <1>2, <3>1 DEF CacheRecs
    <3> QED BY <1>2, <3>2 DEF CacheOk, Next1
  <2>2. CASE writer.phase = "committed"
    <3> DEFINE dirty == c.dirty /\ c.revision # writer.revision
    <3>1. d = [c EXCEPT !.writing = FALSE, !.gen = writer.gen, !.active = writer.slot, !.dirty = dirty]
      BY <2>2 DEF Committed
    <3>2. dirty \in BOOLEAN
      OBVIOUS
    <3> HIDE DEF d, c, dirty
    <3>3. /\ d \in CacheRecs /\ d.loaded /\ ~d.writing /\ d.dirty = dirty /\ d.ver = c.ver
          /\ d.active = writer.slot /\ d.gen = writer.gen
      BY <1>2, <3>1, <3>2 DEF CacheRecs, Slots
    <3>4. fs[writer.slot] = Snapshot(writer.gen, writer.ver)
      BY <1>1, <2>2, WriterHolds DEF Target
    <3>5. p <= writer.ver /\ p <= c.ver
      BY <1>2 DEF CacheOk, JobOk
    <3>6. /\ Based(fs, p, Other(writer.slot), After(writer.gen))
          /\ IsSnapshot(fs[Other(writer.slot)]) => fs[Other(writer.slot)].gen # After(writer.gen)
      BY <1>2, <3>4, <3>5, CommitIsBased
    <3>7. Next1(d) = Other(writer.slot) /\ d.active # "none"
      BY <1>2, <3>3 DEF Next1, inactiveSlot
    <3>8. ~dirty => writer.ver = c.ver
      BY <1>2 DEF dirty, JobOk
    <3>9. IsSnapshot(fs[writer.slot]) /\ fs[writer.slot].gen = writer.gen /\ fs[writer.slot].ver = writer.ver
      BY <3>4 DEF Snapshot, IsSnapshot
    <3> QED BY <3>3, <3>5, <3>6, <3>7, <3>8, <3>9 DEF CacheOk
  <2> QED BY <2>1, <2>2
<1> HIDE DEF d
<1>5. caches'[n] = d /\ \A m \in CachedNs : m # n => caches'[m] = caches[m]
  BY <1>2, <1>3 DEF PInv, Shapes
<1>6. Shapes'
  BY <1>1, <1>3, <1>4 DEF PInv, Shapes
<1>7. CacheInv'
  BY <1>1, <1>4, <1>5 DEF PInv, CacheInv
<1>8. FileInv' /\ WriterInv'
  BY <1>1 DEF PInv, FileInv, WriterInv
<1>9. LoaderInv'
  BY <1>1, <1>2, <1>4, <1>5 DEF PInv, LoaderInv, BootImage
<1>10. QueueInv'
  BY <1>1, <1>5, WriterHolds DEF PInv, QueueInv
<1>11. DirectInv'
  BY <1>1 DEF PInv, DirectInv, IsThere, Target
<1> QED BY <1>6, <1>7, <1>8, <1>9, <1>10, <1>11 DEF PInv

-----------------------------------------------------------------------------
(* writeFileBool and the power cut.                                         *)

\* What the invariant says of the write in progress.
LEMMA DirectHolds ==
  ASSUME PInv, direct # NoJob
  PROVE  LET n == direct.ns IN
         /\ direct \in JobRecs /\ n \in DirectNs /\ n \in Namespaces /\ n \notin CachedNs
         /\ files[n] \in Pairs /\ promised[n] \in Nat
         /\ Based(files[n], promised[n], direct.slot, direct.gen)
         /\ promised[n] <= direct.ver
         /\ direct.phase \in {"written", "committed"} => Target(direct) = Snapshot(direct.gen, direct.ver)
<1>1. direct \in JobRecs /\ direct.ns \in DirectNs /\ direct.ns \in Namespaces /\ direct.ns \notin CachedNs
  BY DirectApart DEF PInv, Shapes, DirectInv
<1> QED BY <1>1 DEF PInv, Shapes, DirectInv, IsThere

LEMMA DirectStartsKeeps == ASSUME PInv, NEW n \in DirectNs, DirectStarts(n) PROVE PInv'
<1> DEFINE c == readSnapshots(files[n].a, files[n].b)
           j == [phase |-> "queued", ns |-> n, ver |-> c.ver + 1, revision |-> 0,
                 gen |-> After(c.gen), slot |-> inactiveSlot(c.slot, c.ok)]
<1>1. UNCHANGED <<files, caches, queue, writer, loader, promised>> /\ direct' = j
  BY DEF DirectStarts, After
<1>2. n \in Namespaces /\ files[n] \in Pairs /\ promised[n] \in Nat /\ Safe(files[n], promised[n])
  BY DirectApart DEF PInv, Shapes, FileInv
<1>3. /\ c.gen \in Gens /\ c.ver \in Nat /\ inactiveSlot(c.slot, c.ok) \in Paths
      /\ Based(files[n], promised[n], inactiveSlot(c.slot, c.ok), After(c.gen))
      /\ promised[n] <= c.ver + 1
  BY <1>2, DirectIsBased
<1>4. c.ver + 1 \in Nat /\ After(c.gen) \in Gens
  BY <1>3, AfterGens
<1> HIDE DEF c
<1>5. /\ j \in JobRecs /\ j.phase = "queued" /\ j.ns = n /\ j.slot = inactiveSlot(c.slot, c.ok)
      /\ j.gen = After(c.gen) /\ j.ver = c.ver + 1
  BY <1>2, <1>3, <1>4 DEF JobRecs
<1> HIDE DEF j
<1>6. Shapes'
  BY <1>1, <1>5 DEF PInv, Shapes
<1>7. CacheInv' /\ FileInv'
  BY <1>1 DEF PInv, CacheInv, FileInv
<1>8. LoaderInv'
  BY <1>1 DEF PInv, LoaderInv, BootImage
<1>9. QueueInv'
  BY <1>1 DEF PInv, QueueInv
<1>10. WriterInv'
  BY <1>1 DEF PInv, WriterInv, IsThere, Target
<1>11. DirectInv'
  BY <1>1, <1>3, <1>5 DEF DirectInv, IsThere
<1> QED BY <1>6, <1>7, <1>8, <1>9, <1>10, <1>11 DEF PInv

LEMMA DirectWritesKeeps == ASSUME PInv, DirectWrites PROVE PInv'
<1> DEFINE n == direct.ns
<1>1. direct # NoJob /\ UNCHANGED <<caches, queue, writer, loader, promised>>
  BY DEF DirectWrites
<1>2. files \in [Namespaces -> Pairs]
  BY DEF PInv, Shapes
<1>3. PICK x \in {"open", "written", "committed", "failed"} :
        direct' = [direct EXCEPT !.phase = x] /\ writeSnapshot(direct, direct')
  BY DEF DirectWrites
<1>4. /\ direct' \in JobRecs /\ direct'.ns = n /\ direct'.ver = direct.ver
      /\ direct'.revision = direct.revision /\ direct'.gen = direct.gen /\ direct'.slot = direct.slot
      /\ \/ files' = files
         \/ \E f : Own(direct, f) /\ files' = [files EXCEPT ![n][direct.slot] = f]
      /\ direct'.phase \in {"written", "committed"} =>
           files'[n][direct.slot] = Snapshot(direct.gen, direct.ver)
  <2>1. direct \in JobRecs /\ (direct.phase \in {"written", "committed"} =>
                                 Target(direct) = Snapshot(direct.gen, direct.ver))
    BY <1>1, DirectHolds
  <2> HIDE DEF n
  <2>2. StepLeaves(direct, direct', x)
    BY <1>2, <1>3, <2>1, WriteStep
  <2> QED BY <2>2 DEF n, StepLeaves
<1>5. /\ files' \in [Namespaces -> Pairs]
      /\ \A m \in Namespaces : m # n => files'[m] = files[m]
      /\ Based(files'[n], promised[n], direct.slot, direct.gen)
  <2>1. CASE files' = files
    BY <1>1, <1>2, <2>1, DirectHolds
  <2>2. CASE \E f : Own(direct, f) /\ files' = [files EXCEPT ![n][direct.slot] = f]
    BY <1>1, <1>2, <2>2, DirectHolds, OwnWrite
  <2> QED BY <1>4, <2>1, <2>2
<1>6. IsThere(direct)'
  BY <1>4 DEF IsThere, Target
<1>7. \A m \in CachedNs : files'[m] = files[m]
  BY <1>1, <1>5, DirectHolds, Apart
<1>8. Shapes'
  BY <1>1, <1>4, <1>5 DEF PInv, Shapes
<1>9. CacheInv'
  BY <1>1, <1>7 DEF PInv, CacheInv
<1>10. FileInv'
  <2>1. Safe(files'[n], promised[n])
    BY <1>1, <1>5, DirectHolds, BasedIsSafe DEF JobRecs
  <2> QED BY <1>1, <1>5, <2>1 DEF PInv, FileInv
<1>11. LoaderInv'
  BY <1>1, <1>7 DEF PInv, LoaderInv, BootImage
<1>12. QueueInv'
  BY <1>1 DEF PInv, QueueInv
<1>13. WriterInv'
  BY <1>1, <1>7 DEF PInv, WriterInv, IsThere, Target
<1>14. DirectInv'
  BY <1>1, <1>4, <1>5, <1>6, DirectHolds DEF DirectInv
<1> QED BY <1>8, <1>9, <1>10, <1>11, <1>12, <1>13, <1>14 DEF PInv

LEMMA DirectReturnsKeeps == ASSUME PInv, DirectReturns PROVE PInv'
<1> DEFINE n == direct.ns
<1>1. direct # NoJob /\ UNCHANGED <<files, caches, queue, writer, loader>> /\ direct' = NoJob
  BY DEF DirectReturns, NoJob
<1>2. /\ n \in Namespaces /\ n \notin CachedNs /\ files[n] \in Pairs /\ promised[n] \in Nat
      /\ direct.slot \in Paths /\ direct.gen \in Gens /\ direct.ver \in Nat
      /\ Based(files[n], promised[n], direct.slot, direct.gen)
  BY <1>1, DirectHolds DEF JobRecs
<1>3. /\ promised' \in [Namespaces -> Nat] /\ Safe(files[n], promised'[n])
      /\ \A m \in Namespaces : m # n => promised'[m] = promised[m]
  <2>1. CASE direct.phase # "committed"
    BY <1>2, <2>1 DEF DirectReturns, PInv, Shapes, FileInv
  <2>2. CASE direct.phase = "committed"
    <3>1. promised' = [promised EXCEPT ![n] = direct.ver]
      BY <2>2 DEF DirectReturns
    <3>2. files[n][direct.slot] = Snapshot(direct.gen, direct.ver)
      BY <1>1, <2>2, DirectHolds DEF Target
    <3>3. Based(files[n], direct.ver, Other(direct.slot), After(direct.gen))
      BY <1>2, <3>2, CommitIsBased
    <3>4. Safe(files[n], direct.ver)
      BY <1>2, <3>3, AfterGens, BasedIsSafe
    <3> QED BY <1>2, <3>1, <3>4 DEF PInv, Shapes
  <2> QED BY <2>1, <2>2
<1>4. \A m \in CachedNs : promised'[m] = promised[m]
  BY <1>2, <1>3, Apart
<1>5. Shapes'
  BY <1>1, <1>3 DEF PInv, Shapes
<1>6. CacheInv'
  BY <1>1, <1>4 DEF PInv, CacheInv
<1>7. FileInv'
  BY <1>1, <1>3 DEF PInv, FileInv
<1>8. LoaderInv'
  BY <1>1 DEF PInv, LoaderInv, BootImage
<1>9. QueueInv'
  BY <1>1, <1>4 DEF PInv, QueueInv
<1>10. WriterInv'
  BY <1>1, <1>4 DEF PInv, WriterInv, IsThere, Target
<1>11. DirectInv'
  BY <1>1 DEF DirectInv
<1> QED BY <1>5, <1>6, <1>7, <1>8, <1>9, <1>10, <1>11 DEF PInv

\* What a cut leaves of a file that was being written.
LEMMA CutOne ==
  ASSUME NEW fs, fs \in [Namespaces -> Pairs], NEW j \in JobRecs, NEW p \in Nat,
         Based(fs[j.ns], p, j.slot, j.gen), p <= j.ver, fs[j.ns] = files[j.ns],
         j.phase \in {"written", "committed"} => Target(j) = Snapshot(j.gen, j.ver),
         NEW gs \in AfterCut(fs, j)
  PROVE  /\ gs \in [Namespaces -> Pairs]
         /\ \A m \in Namespaces : m # j.ns => gs[m] = fs[m]
         /\ Safe(gs[j.ns], p)
<1>1. j.ns \in Namespaces /\ j.slot \in Paths /\ j.gen \in Gens /\ j.ver \in Nat
  BY DEF JobRecs
<1>2. CASE gs = fs
  BY <1>1, <1>2, BasedIsSafe
<1>3. ASSUME NEW f, Own(j, f), gs = [fs EXCEPT ![j.ns][j.slot] = f]
      PROVE  /\ gs \in [Namespaces -> Pairs]
             /\ \A m \in Namespaces : m # j.ns => gs[m] = fs[m]
             /\ Safe(gs[j.ns], p)
  BY <1>1, <1>3, OwnWrite, BasedIsSafe
<1>4. ASSUME NEW f \in HalfWritten(j), gs = [fs EXCEPT ![j.ns][j.slot] = f]
      PROVE  Own(j, f)
  BY <1>4, HalvesAreOwn
<1>5. ASSUME gs = [fs EXCEPT ![j.ns][j.slot] = Target(j)]
      PROVE  gs = fs
  <2>1. Target(j) = fs[j.ns][j.slot]
    BY DEF Target
  <2>2. fs[j.ns] \in Pairs
    BY <1>1
  <2>3. [fs[j.ns] EXCEPT ![j.slot] = fs[j.ns][j.slot]] = fs[j.ns]
    BY <1>1, <2>2 DEF Pairs
  <2>4. gs = [fs EXCEPT ![j.ns] = [fs[j.ns] EXCEPT ![j.slot] = fs[j.ns][j.slot]]]
    BY <1>5, <2>1
  <2> QED BY <2>3, <2>4
<1>6. gs = fs \/ \E f \in HalfWritten(j) \cup {Target(j)} : gs = [fs EXCEPT ![j.ns][j.slot] = f]
  BY DEF AfterCut
<1> QED BY <1>2, <1>3, <1>4, <1>5, <1>6

LEMMA PowerCutKeeps == ASSUME PInv, PowerCut PROVE PInv'
<1>1. PICK gs \in AfterCut(files, writer) : files' \in AfterCut(gs, direct)
  BY DEF PowerCut
<1>2. /\ files \in [Namespaces -> Pairs] /\ promised \in [Namespaces -> Nat]
      /\ promised' = promised
      /\ \A m \in Namespaces : Safe(files[m], promised[m])
  BY DEF PInv, Shapes, FileInv, PowerCut
<1>3. /\ gs \in [Namespaces -> Pairs]
      /\ \A m \in Namespaces : Safe(gs[m], promised[m])
      /\ \A m \in Namespaces : m \notin CachedNs => gs[m] = files[m]
  <2>1. CASE writer = NoJob
    <3>1. gs = files
      BY <1>1, <2>1 DEF AfterCut, NoJob
    <3> QED BY <1>2, <3>1
  <2>2. CASE writer # NoJob
    <3>1. /\ gs \in [Namespaces -> Pairs]
          /\ \A m \in Namespaces : m # writer.ns => gs[m] = files[m]
          /\ Safe(gs[writer.ns], promised[writer.ns])
      BY <1>1, <1>2, <2>2, WriterHolds, CutOne
    <3>2. writer.ns \in CachedNs
      BY <2>2, WriterHolds
    <3> QED BY <1>2, <3>1, <3>2
  <2> QED BY <2>1, <2>2
<1>4. /\ files' \in [Namespaces -> Pairs]
      /\ \A m \in Namespaces : Safe(files'[m], promised[m])
  <2>1. CASE direct = NoJob
    <3>1. files' = gs
      BY <1>1, <2>1 DEF AfterCut, NoJob
    <3> QED BY <1>3, <3>1
  <2>2. CASE direct # NoJob
    <3>1. gs[direct.ns] = files[direct.ns]
      BY <1>3, <2>2, DirectHolds
    <3>2. /\ files' \in [Namespaces -> Pairs]
          /\ \A m \in Namespaces : m # direct.ns => files'[m] = gs[m]
          /\ Safe(files'[direct.ns], promised[direct.ns])
      BY <1>1, <1>3, <2>2, <3>1, DirectHolds, CutOne
    <3> QED BY <1>3, <3>2
  <2> QED BY <2>1, <2>2
<1>5. Unloaded \in CacheRecs /\ ~Unloaded.loaded
  BY PrefsAssumption DEF Unloaded, CacheRecs, Slots, Gens
<1>6. /\ caches' = [n \in CachedNs |-> Unloaded] /\ queue' = <<>>
      /\ writer' = NoJob /\ direct' = NoJob /\ loader' = NoLoad
  BY DEF PowerCut
<1>7. Shapes'
  BY <1>2, <1>4, <1>5, <1>6 DEF Shapes
<1>8. CacheInv' /\ QueueInv' /\ WriterInv' /\ DirectInv' /\ LoaderInv'
  BY <1>5, <1>6 DEF CacheInv, QueueInv, WriterInv, DirectInv, LoaderInv, NoLoad
<1>9. FileInv'
  BY <1>2, <1>4 DEF FileInv
<1> QED BY <1>7, <1>8, <1>9 DEF PInv

-----------------------------------------------------------------------------
(* The theorems.                                                            *)

LEMMA PStep == ASSUME PInv, Next PROVE PInv'
<1>1. CASE \E n \in CachedNs : Open(n) \/ SlowOpenReads(n) \/ sdSet(n)
  BY <1>1, OpenKeeps, SlowOpenReadsKeeps, SetKeeps
<1>2. CASE \E n \in CachedNs : tick(n)
  BY <1>2, ScheduleKeeps DEF tick
<1>3. CASE SlowOpenInserts
  BY <1>3, SlowOpenInsertsKeeps
<1>4. CASE FlushStart \/ FlushSchedules \/ FlushWaits
  BY <1>4, FlushKeeps
<1>5. CASE FlushReturns
  BY <1>5, FlushReturnsKeeps
<1>6. CASE WriterTakes
  BY <1>6, WriterTakesKeeps
<1>7. CASE WriterWrites
  BY <1>7, WriterWritesKeeps
<1>8. CASE WriterFinishes
  BY <1>8, WriterFinishesKeeps
<1>9. CASE \E n \in DirectNs : DirectStarts(n)
  BY <1>9, DirectStartsKeeps
<1>10. CASE DirectWrites
  BY <1>10, DirectWritesKeeps
<1>11. CASE DirectReturns
  BY <1>11, DirectReturnsKeeps
<1>12. CASE PowerCut
  BY <1>12, PowerCutKeeps
<1> QED BY <1>1, <1>2, <1>3, <1>4, <1>5, <1>6, <1>7, <1>8, <1>9, <1>10, <1>11, <1>12 DEF Next

\* In every reachable state the file that is not being rewritten holds what was
\* vouched for, one generation before the rewrite, and jobs and caches know it:
\* sdLoad, scheduleOne, writeSnapshot, prefsWriterTask and writeFileBool keep this
\* through failures, power cuts and the wrap of the generation counter.
THEOREM FilesAndCachesAgree == Spec => []PInv
<1>1. PInv /\ [Next]_vars => PInv'
  <2> SUFFICES ASSUME PInv, [Next]_vars PROVE PInv'
    OBVIOUS
  <2>1. CASE Next
    BY <2>1, PStep
  <2>2. CASE UNCHANGED vars
    <3>1. UNCHANGED <<files, caches, queue, writer, direct, promised, loader>>
      BY <2>2 DEF vars
    <3>2. LoaderInv'
      BY <3>1 DEF PInv, LoaderInv, BootImage
    <3> QED BY <3>1, <3>2, StandStill
  <2> QED BY <2>1, <2>2
<1> QED BY PInit, <1>1, PTL DEF Spec

\* What flush reported as written, and what writeFileBool returned true for, is
\* what every later boot of SdNvsPrefs loads, or something newer.
THEOREM FlushedSurvivesAlways == Spec => []FlushedSurvives
<1>1. PInv => FlushedSurvives
  BY DEF PInv, FileInv, Safe, FlushedSurvives, BootImage
<1> QED BY <1>1, FilesAndCachesAgree, PTL

\* A cache that is neither dirty nor being written is exactly what a boot would
\* load, so that scheduleOne may skip it.
THEOREM CleanIsDurableAlways == Spec => []CleanIsDurable
<1>1. PInv => CleanIsDurable
  <2> SUFFICES ASSUME PInv, NEW n \in CachedNs, caches[n].loaded, ~caches[n].dirty
               PROVE  /\ BootImage(n).ver = caches[n].ver
                      /\ caches[n].active # "none" => /\ BootImage(n).slot = caches[n].active
                                                      /\ BootImage(n).gen = caches[n].gen
    BY DEF CleanIsDurable
  <2>1. /\ files[n] \in Pairs /\ promised[n] \in Nat /\ caches[n] \in CacheRecs
        /\ CacheOk(caches[n], files[n], promised[n])
    BY Apart DEF PInv, Shapes, CacheInv
  <2> QED BY <2>1, CleanIsChosen DEF BootImage
<1> QED BY <1>1, FilesAndCachesAgree, PTL

\* No task that opens a namespace late, and no writer that finishes with it,
\* undoes a setting as long as power is on.
THEOREM NothingRevertsAlways == Spec => NothingReverts
<1>1. PInv /\ [Next]_vars =>
        [\A n \in CachedNs : caches[n].loaded /\ caches'[n].loaded => caches'[n].ver >= caches[n].ver]_vars
  <2> SUFFICES ASSUME PInv, Next, NEW n \in CachedNs, caches[n].loaded, caches'[n].loaded
               PROVE  caches'[n].ver >= caches[n].ver
    OBVIOUS
  <2>1. caches \in [CachedNs -> CacheRecs] /\ caches[n] \in CacheRecs /\ caches[n].ver \in Nat
    BY DEF PInv, Shapes, CacheRecs
  <2>2. CASE UNCHANGED caches
    BY <2>1, <2>2
  <2>3. CASE \E m \in CachedNs : Open(m)
    BY <2>1, <2>3 DEF Open
  <2>4. CASE \E m \in CachedNs : sdSet(m)
    <3>1. PICK m \in CachedNs : sdSet(m)
      BY <2>4
    <3>2. m # n => caches'[n] = caches[n]
      BY <2>1, <3>1 DEF sdSet
    <3>3. m = n => caches'[n].ver = caches[n].ver + 1
      BY <2>1, <3>1 DEF sdSet, CacheRecs
    <3> QED BY <2>1, <3>2, <3>3
  <2>5. CASE SlowOpenInserts
    BY <2>1, <2>5 DEF SlowOpenInserts, Insert
  <2>6. CASE \E m \in CachedNs : caches' = [caches EXCEPT ![m].writing = TRUE]
    BY <2>1, <2>6 DEF CacheRecs
  <2>7. CASE WriterFinishes
    BY <2>1, <2>7 DEF WriterFinishes, Committed, NotCommitted, CacheRecs
  <2>8. CASE PowerCut
    BY <2>8 DEF PowerCut, Unloaded
  <2>9. \/ UNCHANGED caches \/ (\E m \in CachedNs : Open(m)) \/ (\E m \in CachedNs : sdSet(m)) \/ SlowOpenInserts
        \/ (\E m \in CachedNs : caches' = [caches EXCEPT ![m].writing = TRUE])
        \/ WriterFinishes \/ PowerCut
    BY DEF Next, SlowOpenReads, tick, FlushStart, FlushSchedules, FlushReturns, FlushWaits, scheduleOne,
           WriterTakes, WriterWrites, DirectStarts, DirectWrites, DirectReturns
  <2> QED BY <2>2, <2>3, <2>4, <2>5, <2>6, <2>7, <2>8, <2>9
<1> QED BY <1>1, FilesAndCachesAgree, PTL DEF Spec, NothingReverts
===============================================================================
