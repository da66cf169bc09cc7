-------------------------- MODULE CompanionSyncProofs --------------------------
(***************************************************************************)
(* Proofs about CompanionSync, for any apps, connections, ring size and    *)
(* number of clients, and for any number of messages, failures, reboots    *)
(* and power cuts.                                                         *)
(***************************************************************************)
EXTENDS CompanionSync, TLAPS

Entries == [seq : Nat, msg : Nat]

\* What the log, the cursor file and their .tmp can be.
LogFiles == {NoFile, Opened} \cup {LogFile(recs, torn) : recs \in Seq(Entries), torn \in BOOLEAN}
Cursors  == [Ids -> Int]
CurFiles == {NoFile, Opened} \cup {CurFile(next, cur) : next \in Nat, cur \in Cursors}

AnyFiles == LogFiles \cup CurFiles
Disks    == [{"log", "cur"} -> [live : AnyFiles, tmp : AnyFiles]]

-----------------------------------------------------------------------------
(* The inductive invariant.                                                 *)

Shapes ==
  /\ ring \in Seq(Entries) /\ Len(ring) <= RingSize
  /\ nextSeq \in Nat /\ msgs \in Nat
  /\ cursors \in Cursors
  /\ slotId \in [Slots -> NamedApps \cup {Nobody}]
  /\ handed \in [Ids -> SUBSET Nat] /\ excused \in [Ids -> SUBSET Nat]
  /\ book \in [dirty : [log : BOOLEAN, cur : BOOLEAN], unflushed : 0 .. RingSize,
               fileRecs : Nat, needCompact : BOOLEAN]
  /\ io \in ({"write", "remove", "rename"} \X {"log", "cur"}) \cup {NoIO, Appending}
  /\ rebooting \in {"no", "log", "cur", "go"}

\* The entries of the ring and of both log files, and the cursors of an id.
AllEntries == Range(ring) \cup Range(RecordsOf(disk["log"].live)) \cup Range(RecordsOf(disk["log"].tmp))

Rising(recs) == \A i, j \in DOMAIN recs : i < j => recs[i].seq < recs[j].seq
Below(recs, next) == \A i \in DOMAIN recs : recs[i].seq < next
\* A cursor passes over nothing else than what was handed out or excused.
Covered(cur, entries) ==
  \A id \in Ids : \A e \in entries : e.seq <= cur[id] => e.msg \in handed[id] \cup excused[id]

LogOk(f) == f \in LogFiles /\ Rising(RecordsOf(f)) /\ Below(RecordsOf(f), nextSeq)
CurOk(f) ==
  /\ f \in CurFiles /\ NextOf(f) <= nextSeq
  /\ \A id \in Ids : CursorsOf(f)[id] < NextOf(f)
  /\ Covered(CursorsOf(f), AllEntries)

FilesInv ==
  /\ disk \in Disks
  /\ LogOk(disk["log"].live) /\ LogOk(disk["log"].tmp)
  /\ CurOk(disk["cur"].live) /\ CurOk(disk["cur"].tmp)

RingInv ==
  /\ Rising(ring) /\ Below(ring, nextSeq)
  /\ \A id \in Ids : cursors[id] < nextSeq
  /\ Covered(cursors, AllEntries)

\* A message is known by its number, wherever it stands.
EntriesInv ==
  /\ \A e \in AllEntries : e.msg \in 1 .. msgs
  /\ \A e, f \in AllEntries : e.msg = f.msg => e = f

\* A job runs only about what is dirty, a .tmp that is to replace its file is
\* what the file must be, and the log is appended to or rewritten as it needs.
JobInv ==
  /\ io # NoIO => book.dirty[io[2]]
  /\ io[1] \in {"remove", "rename"} => disk[io[2]].tmp = Content(io[2])
  /\ io = Appending => ~MustCompact
  /\ io[1] \in {"write", "remove", "rename"} /\ io[2] = "log" => MustCompact

\* The file ends with the part of the ring that is flushed, and the rest of the
\* ring comes after all of the file.
Lacking == IF book.unflushed < Len(ring) THEN book.unflushed ELSE Len(ring)
LogRel ==
  LET recs == RecordsOf(disk["log"].live)
      kept == Len(ring) - Lacking
  IN /\ disk["log"].live.kind = "log" => ~disk["log"].live.torn
     /\ kept <= Len(recs)
     /\ Len(ring) < RingSize => kept = Len(recs)
     /\ \A i \in 1 .. kept : ring[i] = recs[Len(recs) - kept + i]
     /\ \A i \in DOMAIN recs, k \in kept + 1 .. Len(ring) : recs[i].seq < ring[k].seq

LogInv == ~MustCompact => LogRel
CleanInv == (~book.dirty.log => BootRing(disk) = ring)
            /\ (~book.dirty.cur => CursorsOf(BootFile(disk, "cur")) = cursors)

\* Outside of a swap the log is away only after its rename has failed, and then
\* it is rewritten and not appended to.
SwapInv ==
  disk["log"].live = NoFile /\ io \notin {<<"remove", "log">>, <<"rename", "log">>} =>
     \/ RecordsOf(disk["log"].tmp) = <<>>
     \/ MustCompact /\ io # <<"write", "log">>

SInv == Shapes /\ FilesInv /\ RingInv /\ EntriesInv /\ JobInv /\ LogInv /\ CleanInv /\ SwapInv

-----------------------------------------------------------------------------
(* Sequences of entries.                                                    *)

LEMMA RangeIs == ASSUME NEW s \in Seq(Entries)
                 PROVE  /\ DOMAIN s = 1 .. Len(s) /\ Len(s) \in Nat
                        /\ Range(s) \subseteq Entries
                        /\ \A e : e \in Range(s) <=> \E i \in 1 .. Len(s) : e = s[i]
                        /\ \A i \in 1 .. Len(s) : s[i] \in Range(s) /\ s[i] \in Entries
                                                  /\ s[i].seq \in Nat /\ s[i].msg \in Nat
<1>1. DOMAIN s = 1 .. Len(s) /\ Len(s) \in Nat /\ \A i \in 1 .. Len(s) : s[i] \in Entries
  OBVIOUS
<1>2. \A e \in Entries : e.seq \in Nat /\ e.msg \in Nat
  BY DEF Entries
<1>3. \A e : e \in Range(s) <=> \E i \in 1 .. Len(s) : e = s[i]
  BY <1>1 DEF Range
<1> QED BY <1>1, <1>2, <1>3

LEMMA NoEntries == <<>> \in Seq(Entries) /\ Range(<<>>) = {} /\ Rising(<<>>) /\ \A n : Below(<<>>, n)
BY DEF Range, Rising, Below

\* Two sequences with the same elements in the same places are the same.
LEMMA SameElements ==
  ASSUME NEW s \in Seq(Entries), NEW t \in Seq(Entries), Len(s) = Len(t),
         \A i \in 1 .. Len(s) : s[i] = t[i]
  PROVE  s = t
OBVIOUS

\* The last n entries.
Tails(s, n) == SubSeq(s, Len(s) - n + 1, Len(s))

LEMMA TailsIs ==
  ASSUME NEW s \in Seq(Entries), NEW n \in 0 .. Len(s)
  PROVE  /\ Tails(s, n) \in Seq(Entries) /\ Len(Tails(s, n)) = n
         /\ \A i \in 1 .. n : Tails(s, n)[i] = s[Len(s) - n + i]
<1>1. Len(s) \in Nat /\ n \in Nat /\ n <= Len(s)
  OBVIOUS
<1>2. \A i \in Len(s) - n + 1 .. Len(s) : s[i] \in Entries
  BY <1>1
<1>3. Len(Tails(s, n)) = n
  BY <1>1 DEF Tails
<1>4. \A i \in 1 .. n : Tails(s, n)[i] = s[Len(s) - n + i]
  BY <1>1 DEF Tails
<1>5. Tails(s, n) \in Seq(Entries)
  BY <1>1, <1>2 DEF Tails
<1> QED BY <1>3, <1>4, <1>5

\* The first n entries.
LEMMA FrontsIs ==
  ASSUME NEW s \in Seq(Entries), NEW n \in 0 .. Len(s)
  PROVE  /\ SubSeq(s, 1, n) \in Seq(Entries) /\ Len(SubSeq(s, 1, n)) = n
         /\ \A i \in 1 .. n : SubSeq(s, 1, n)[i] = s[i]
OBVIOUS

LEMMA JoinedIs ==
  ASSUME NEW s \in Seq(Entries), NEW t \in Seq(Entries)
  PROVE  /\ s \o t \in Seq(Entries) /\ Len(s \o t) = Len(s) + Len(t)
         /\ \A i \in 1 .. Len(s) : (s \o t)[i] = s[i]
         /\ \A i \in 1 .. Len(t) : (s \o t)[Len(s) + i] = t[i]
OBVIOUS

Shorter(n, m) == IF n <= m THEN n ELSE m

LEMMA NewestIs ==
  ASSUME NEW s \in Seq(Entries)
  PROVE  LET t == Newest(s) IN
         /\ t \in Seq(Entries) /\ Len(t) = Shorter(Len(s), RingSize) /\ Len(t) <= RingSize /\ Len(t) <= Len(s)
         /\ \A i \in 1 .. Len(t) : t[i] = s[Len(s) - Len(t) + i]
         /\ Range(t) \subseteq Range(s)
<1> DEFINE t == Newest(s)
<1>1. RingSize \in Nat /\ Len(s) \in Nat
  BY SyncAssumption
<1>2. CASE Len(s) <= RingSize
  <2>1. t = s
    BY <1>2 DEF Newest
  <2> QED BY <1>1, <1>2, <2>1 DEF Shorter
<1>3. CASE ~(Len(s) <= RingSize)
  <2>1. t = Tails(s, RingSize)
    BY <1>3 DEF Newest, Tails
  <2>2. /\ t \in Seq(Entries) /\ Len(t) = RingSize
        /\ \A i \in 1 .. Len(t) : t[i] = s[Len(s) - Len(t) + i]
    <3>1. RingSize \in 0 .. Len(s)
      BY <1>1, <1>3
    <3>2. /\ Tails(s, RingSize) \in Seq(Entries) /\ Len(Tails(s, RingSize)) = RingSize
          /\ \A i \in 1 .. RingSize : Tails(s, RingSize)[i] = s[Len(s) - RingSize + i]
      BY <3>1, TailsIs
    <3> QED BY <2>1, <3>2
  <2>3. Range(t) \subseteq Range(s)
    <3>1. \A i \in 1 .. Len(t) : Len(s) - Len(t) + i \in 1 .. Len(s)
      BY <1>1, <1>3, <2>2
    <3> QED BY <2>2, <3>1, RangeIs
  <2> QED BY <1>1, <1>3, <2>2, <2>3 DEF Shorter
<1> QED BY <1>2, <1>3

\* Rising and Below depend on the places of the entries only.
LEMMA PartRises ==
  ASSUME NEW s \in Seq(Entries), NEW t \in Seq(Entries), NEW k \in Nat, Len(t) + k <= Len(s),
         \A i \in 1 .. Len(t) : t[i] = s[k + i], NEW next \in Nat
  PROVE  (Rising(s) => Rising(t)) /\ (Below(s, next) => Below(t, next)) /\ Range(t) \subseteq Range(s)
<1>1. DOMAIN s = 1 .. Len(s) /\ DOMAIN t = 1 .. Len(t) /\ Len(s) \in Nat /\ Len(t) \in Nat
  OBVIOUS
<1>2. \A i \in 1 .. Len(t) : k + i \in 1 .. Len(s)
  BY <1>1
<1>3. Rising(s) => Rising(t)
  <2> SUFFICES ASSUME Rising(s), NEW i \in 1 .. Len(t), NEW j \in 1 .. Len(t), i < j
               PROVE  t[i].seq < t[j].seq
    BY <1>1 DEF Rising
  <2>1. k + i \in DOMAIN s /\ k + j \in DOMAIN s /\ k + i < k + j
    BY <1>1, <1>2
  <2>2. s[k + i].seq < s[k + j].seq
    BY <2>1 DEF Rising
  <2> QED BY <2>2
<1>4. Below(s, next) => Below(t, next)
  BY <1>1, <1>2 DEF Below
<1>5. Range(t) \subseteq Range(s)
  BY <1>1, <1>2 DEF Range
<1> QED BY <1>3, <1>4, <1>5

LEMMA NewestRises ==
  ASSUME NEW s \in Seq(Entries), NEW next \in Nat
  PROVE  (Rising(s) => Rising(Newest(s))) /\ (Below(s, next) => Below(Newest(s), next))
<1>1. /\ Newest(s) \in Seq(Entries) /\ Len(Newest(s)) <= Len(s)
      /\ \A i \in 1 .. Len(Newest(s)) : Newest(s)[i] = s[(Len(s) - Len(Newest(s))) + i]
  BY NewestIs
<1>2. Len(s) - Len(Newest(s)) \in Nat /\ Len(Newest(s)) + (Len(s) - Len(Newest(s))) <= Len(s)
  BY <1>1
<1> QED BY <1>1, <1>2, PartRises

\* What loadSyncHistory keeps of a rising log is all of it.
LEMMA RisingIsTaken == ASSUME NEW s \in Seq(Entries), Rising(s) PROVE Ascending(s) = s
<1>1. DOMAIN s = 1 .. Len(s) /\ Len(s) \in Nat
  OBVIOUS
<1>2. \A i \in DOMAIN s : \A j \in 1 .. i - 1 : j \in DOMAIN s /\ j < i
  BY <1>1
<1>3. {i \in DOMAIN s : \A j \in 1 .. i - 1 : s[j].seq < s[i].seq} = DOMAIN s
  BY <1>2 DEF Rising
<1> QED BY <1>3 DEF Ascending

-----------------------------------------------------------------------------
(* Files.                                                                   *)

LEMMA FileKinds ==
  /\ NoFile \in LogFiles /\ Opened \in LogFiles /\ NoFile \in CurFiles /\ Opened \in CurFiles
  /\ RecordsOf(NoFile) = <<>> /\ RecordsOf(Opened) = <<>>
  /\ NextOf(NoFile) = 0 /\ NextOf(Opened) = 0
  /\ CursorsOf(NoFile) = NoCursors /\ CursorsOf(Opened) = NoCursors
  /\ NoFile # Opened /\ Opened.kind # "log" /\ NoFile.kind # "log"
BY DEF LogFiles, CurFiles, NoFile, Opened, RecordsOf, NextOf, CursorsOf

LEMMA LogFileIs ==
  ASSUME NEW recs \in Seq(Entries), NEW torn \in BOOLEAN
  PROVE  LET f == LogFile(recs, torn) IN
         f \in LogFiles /\ RecordsOf(f) = recs /\ f # NoFile /\ f # Opened /\ f.kind = "log" /\ (f.torn <=> torn)
BY DEF LogFiles, LogFile, RecordsOf, NoFile, Opened

LEMMA CurFileIs ==
  ASSUME NEW next \in Nat, NEW cur \in Cursors
  PROVE  LET f == CurFile(next, cur) IN
         f \in CurFiles /\ NextOf(f) = next /\ CursorsOf(f) = cur /\ f # NoFile
BY DEF CurFiles, CurFile, NextOf, CursorsOf, NoFile

LEMMA LogFilesAre ==
  ASSUME NEW f \in LogFiles
  PROVE  /\ RecordsOf(f) \in Seq(Entries)
         /\ \/ f = NoFile \/ f = Opened
            \/ \E recs \in Seq(Entries), torn \in BOOLEAN : f = LogFile(recs, torn)
<1>1. \/ f = NoFile \/ f = Opened
      \/ \E recs \in Seq(Entries), torn \in BOOLEAN : f = LogFile(recs, torn)
  BY DEF LogFiles
<1>2. RecordsOf(NoFile) \in Seq(Entries) /\ RecordsOf(Opened) \in Seq(Entries)
  BY NoEntries, FileKinds
<1>3. \A recs \in Seq(Entries), torn \in BOOLEAN : RecordsOf(LogFile(recs, torn)) \in Seq(Entries)
  BY LogFileIs
<1> QED BY <1>1, <1>2, <1>3

LEMMA CurFilesAre ==
  ASSUME NEW f \in CurFiles
  PROVE  NextOf(f) \in Nat /\ CursorsOf(f) \in Cursors
<1>1. NoCursors \in Cursors
  BY DEF NoCursors, Cursors, None
<1> QED BY <1>1, FileKinds, CurFileIs DEF CurFiles

\* Writing one side of one pair.
LEMMA LiveWritten ==
  ASSUME NEW d \in Disks, NEW w \in {"log", "cur"}, NEW f \in AnyFiles
  PROVE  LET e == [d EXCEPT ![w].live = f] IN
         /\ e \in Disks /\ e[w].live = f /\ e[w].tmp = d[w].tmp
         /\ \A v \in {"log", "cur"} : v # w => e[v] = d[v]
BY DEF Disks

LEMMA TmpWritten ==
  ASSUME NEW d \in Disks, NEW w \in {"log", "cur"}, NEW f \in AnyFiles
  PROVE  LET e == [d EXCEPT ![w].tmp = f] IN
         /\ e \in Disks /\ e[w].tmp = f /\ e[w].live = d[w].live
         /\ \A v \in {"log", "cur"} : v # w => e[v] = d[v]
BY DEF Disks

LEMMA PairWritten ==
  ASSUME NEW d \in Disks, NEW w \in {"log", "cur"}, NEW f \in AnyFiles, NEW g \in AnyFiles
  PROVE  LET e == [d EXCEPT ![w] = [live |-> f, tmp |-> g]] IN
         /\ e \in Disks /\ e[w].live = f /\ e[w].tmp = g
         /\ \A v \in {"log", "cur"} : v # w => e[v] = d[v]
BY DEF Disks

\* A log file that holds nothing but entries already known.
LogFine(f) == LogOk(f) /\ Range(RecordsOf(f)) \subseteq AllEntries

LEMMA FilesHave ==
  ASSUME SInv
  PROVE  /\ disk \in Disks /\ ring \in Seq(Entries) /\ nextSeq \in Nat /\ cursors \in Cursors
         /\ LogFine(disk["log"].live) /\ LogFine(disk["log"].tmp)
         /\ CurOk(disk["cur"].live) /\ CurOk(disk["cur"].tmp)
         /\ Rising(ring) /\ Below(ring, nextSeq) /\ Range(ring) \subseteq AllEntries
         /\ AllEntries \subseteq Entries
<1>1. LogOk(disk["log"].live) /\ LogOk(disk["log"].tmp)
  BY DEF SInv, FilesInv
<1>2. RecordsOf(disk["log"].live) \in Seq(Entries) /\ RecordsOf(disk["log"].tmp) \in Seq(Entries)
  BY <1>1, LogFilesAre DEF LogOk
<1>3. ring \in Seq(Entries)
  BY DEF SInv, Shapes
<1>4. AllEntries \subseteq Entries
  BY <1>2, <1>3, RangeIs DEF AllEntries
<1> QED BY <1>1, <1>3, <1>4 DEF SInv, Shapes, FilesInv, RingInv, LogFine, AllEntries

LEMMA EmptyIsFine == SInv => LogFine(NoFile) /\ LogFine(Opened) /\ CurOk(NoFile) /\ CurOk(Opened)
<1> SUFFICES ASSUME SInv PROVE LogFine(NoFile) /\ LogFine(Opened) /\ CurOk(NoFile) /\ CurOk(Opened)
  OBVIOUS
<1>1. Covered(NoCursors, AllEntries)
  <2>1. \A e \in AllEntries : e.seq \in Nat
    BY FilesHave DEF Entries
  <2> QED BY <2>1 DEF Covered, NoCursors, None
<1>2. \A id \in Ids : NoCursors[id] < 0
  BY DEF NoCursors, None
<1>3. nextSeq \in Nat
  BY FilesHave
<1> QED BY <1>1, <1>2, <1>3, FileKinds, NoEntries DEF LogFine, LogOk, CurOk

LEMMA ContentIsFine == SInv => LogFine(Content("log")) /\ CurOk(Content("cur"))
<1> SUFFICES ASSUME SInv PROVE LogFine(Content("log")) /\ CurOk(Content("cur"))
  OBVIOUS
<1>1. Content("log") = LogFile(ring, FALSE) /\ Content("cur") = CurFile(nextSeq, cursors)
  BY DEF Content
<1>2. Covered(cursors, AllEntries) /\ \A id \in Ids : cursors[id] < nextSeq
  BY DEF SInv, RingInv
<1>3. Content("log") \in LogFiles /\ RecordsOf(Content("log")) = ring
  BY <1>1, FilesHave, LogFileIs
<1>4. LogFine(Content("log"))
  BY <1>3, FilesHave DEF LogFine, LogOk
<1>5. nextSeq \in Nat /\ cursors \in Cursors
  BY FilesHave
<1>6. Content("cur") \in CurFiles /\ NextOf(Content("cur")) = nextSeq /\ CursorsOf(Content("cur")) = cursors
  BY <1>1, <1>5, CurFileIs
<1>7. CurOk(Content("cur"))
  BY <1>2, <1>5, <1>6 DEF CurOk
<1> QED BY <1>4, <1>7

LEMMA JoinedRises ==
  ASSUME NEW s \in Seq(Entries), NEW t \in Seq(Entries), Rising(s), Rising(t), NEW next \in Nat,
         Below(s, next), Below(t, next),
         \A i \in 1 .. Len(s), k \in 1 .. Len(t) : s[i].seq < t[k].seq
  PROVE  Rising(s \o t) /\ Below(s \o t, next) /\ Range(s \o t) \subseteq Range(s) \cup Range(t)
<1> DEFINE w == s \o t
<1>1. /\ w \in Seq(Entries) /\ Len(w) = Len(s) + Len(t) /\ Len(s) \in Nat /\ Len(t) \in Nat
      /\ \A i \in 1 .. Len(s) : w[i] = s[i]
      /\ \A i \in 1 .. Len(t) : w[Len(s) + i] = t[i]
      /\ DOMAIN w = 1 .. Len(w) /\ DOMAIN s = 1 .. Len(s) /\ DOMAIN t = 1 .. Len(t)
  BY JoinedIs
<1> HIDE DEF w
<1>2. ASSUME NEW i \in 1 .. Len(w)
      PROVE  \/ i \in 1 .. Len(s) /\ w[i] = s[i]
             \/ ~(i \in 1 .. Len(s)) /\ i - Len(s) \in 1 .. Len(t) /\ w[i] = t[i - Len(s)]
  <2>1. CASE i \in 1 .. Len(s)
    BY <1>1, <2>1
  <2>2. CASE ~(i \in 1 .. Len(s))
    <3>1. i - Len(s) \in 1 .. Len(t) /\ Len(s) + (i - Len(s)) = i
      BY <1>1, <2>2
    <3> QED BY <1>1, <2>2, <3>1
  <2> QED BY <2>1, <2>2
<1>3. Rising(w)
  <2> SUFFICES ASSUME NEW i \in 1 .. Len(w), NEW j \in 1 .. Len(w), i < j
               PROVE  w[i].seq < w[j].seq
    BY <1>1 DEF Rising
  <2>1. CASE j \in 1 .. Len(s)
    <3>1. i \in 1 .. Len(s)
      BY <1>1, <2>1
    <3> QED BY <1>1, <2>1, <3>1 DEF Rising
  <2>2. CASE ~(j \in 1 .. Len(s)) /\ i \in 1 .. Len(s)
    <3>1. w[i] = s[i] /\ j - Len(s) \in 1 .. Len(t) /\ w[j] = t[j - Len(s)]
      BY <1>2, <2>2
    <3> QED BY <2>2, <3>1
  <2>3. CASE ~(j \in 1 .. Len(s)) /\ ~(i \in 1 .. Len(s))
    <3>1. /\ i - Len(s) \in 1 .. Len(t) /\ w[i] = t[i - Len(s)]
          /\ j - Len(s) \in 1 .. Len(t) /\ w[j] = t[j - Len(s)]
      BY <1>2, <2>3
    <3>2. i - Len(s) < j - Len(s)
      BY <1>1
    <3> QED BY <1>1, <3>1, <3>2 DEF Rising
  <2> QED BY <2>1, <2>2, <2>3
<1>4. Below(w, next)
  BY <1>1, <1>2 DEF Below
<1>5. Range(w) \subseteq Range(s) \cup Range(t)
  BY <1>1, <1>2 DEF Range
<1> QED BY <1>3, <1>4, <1>5 DEF w

LEMMA AddedIsFine ==
  ASSUME SInv, NEW f, LogFine(f), NEW u \in Seq(Entries), Rising(u), Below(u, nextSeq),
         Range(u) \subseteq AllEntries,
         \A i \in 1 .. Len(RecordsOf(f)), k \in 1 .. Len(u) : RecordsOf(f)[i].seq < u[k].seq,
         NEW torn \in BOOLEAN
  PROVE  LogFine(LogFile(RecordsOf(f) \o u, torn))
<1>1. /\ RecordsOf(f) \in Seq(Entries) /\ Rising(RecordsOf(f)) /\ Below(RecordsOf(f), nextSeq)
      /\ Range(RecordsOf(f)) \subseteq AllEntries /\ nextSeq \in Nat
  BY LogFilesAre, FilesHave DEF LogFine, LogOk
<1> DEFINE w == RecordsOf(f) \o u
<1>2. w \in Seq(Entries)
  BY <1>1, JoinedIs
<1>3. Rising(w) /\ Below(w, nextSeq) /\ Range(w) \subseteq Range(RecordsOf(f)) \cup Range(u)
  BY <1>1, JoinedRises
<1>4. LogFile(w, torn) \in LogFiles /\ RecordsOf(LogFile(w, torn)) = w
  BY <1>2, LogFileIs
<1> QED BY <1>1, <1>3, <1>4 DEF LogFine, LogOk

LEMMA CutIsFine ==
  ASSUME SInv, NEW f, LogFine(f), NEW u \in Seq(Entries), Rising(u), Below(u, nextSeq),
         Range(u) \subseteq AllEntries,
         \A i \in 1 .. Len(RecordsOf(f)), k \in 1 .. Len(u) : RecordsOf(f)[i].seq < u[k].seq,
         NEW g \in Cut(f, u)
  PROVE  /\ LogFine(g) /\ g # NoFile
         /\ \/ g = f
            \/ \E k \in 0 .. Len(u) : RecordsOf(g) = RecordsOf(f) \o SubSeq(u, 1, k)
<1>1. CASE f.kind = "log" /\ f.torn
  BY <1>1, FileKinds DEF Cut
<1>2. CASE ~(f.kind = "log" /\ f.torn)
  <2>1. PICK k \in 0 .. Len(u), torn \in BOOLEAN : g = LogFile(RecordsOf(f) \o SubSeq(u, 1, k), torn)
    BY <1>2 DEF Cut
  <2> DEFINE v == SubSeq(u, 1, k)
  <2>2. v \in Seq(Entries) /\ Len(v) = k /\ k <= Len(u) /\ \A i \in 1 .. k : v[i] = u[i]
    BY FrontsIs
  <2> HIDE DEF v
  <2>3. Len(u) \in Nat /\ nextSeq \in Nat
    BY FilesHave
  <2>4. Rising(v) /\ Below(v, nextSeq) /\ Range(v) \subseteq Range(u)
    <3>1. Len(v) + 0 <= Len(u) /\ \A i \in 1 .. Len(v) : v[i] = u[0 + i]
      BY <2>2, <2>3
    <3> QED BY <2>2, <2>3, <3>1, PartRises
  <2>5. \A i \in 1 .. Len(RecordsOf(f)), m \in 1 .. Len(v) : RecordsOf(f)[i].seq < v[m].seq
    BY <2>2, <2>3
  <2>6. LogFine(g)
    BY <2>1, <2>2, <2>4, <2>5, AddedIsFine DEF v
  <2>7. RecordsOf(f) \o v \in Seq(Entries)
    BY <2>2, JoinedIs, LogFilesAre DEF LogFine, LogOk
  <2>8. RecordsOf(g) = RecordsOf(f) \o v /\ g # NoFile
    BY <2>1, <2>7, LogFileIs DEF v
  <2> QED BY <2>6, <2>8 DEF v
<1> QED BY <1>1, <1>2

-----------------------------------------------------------------------------
(* The part of the ring that the log lacks.                                 *)

LEMMA UnflushedIs ==
  ASSUME SInv
  PROVE  /\ Lacking \in 0 .. Len(ring) /\ Unflushed \in Seq(Entries) /\ Len(Unflushed) = Lacking
         /\ \A i \in 1 .. Lacking : Unflushed[i] = ring[Len(ring) - Lacking + i]
         /\ Rising(Unflushed) /\ Below(Unflushed, nextSeq) /\ Range(Unflushed) \subseteq AllEntries
<1>1. /\ ring \in Seq(Entries) /\ Len(ring) \in Nat /\ nextSeq \in Nat
      /\ Rising(ring) /\ Below(ring, nextSeq) /\ Range(ring) \subseteq AllEntries
  BY FilesHave
<1>2. book.unflushed \in Nat
  BY SyncAssumption DEF SInv, Shapes
<1>3. Lacking \in 0 .. Len(ring)
  BY <1>1, <1>2 DEF Lacking
<1>4. Unflushed = Tails(ring, Lacking)
  BY DEF Unflushed, Tails, Lacking
<1>5. /\ Unflushed \in Seq(Entries) /\ Len(Unflushed) = Lacking
      /\ \A i \in 1 .. Lacking : Unflushed[i] = ring[Len(ring) - Lacking + i]
  BY <1>1, <1>3, <1>4, TailsIs
<1>6. Rising(Unflushed) /\ Below(Unflushed, nextSeq) /\ Range(Unflushed) \subseteq Range(ring)
  <2>1. /\ Len(ring) - Lacking \in Nat /\ Len(Unflushed) + (Len(ring) - Lacking) <= Len(ring)
        /\ \A i \in 1 .. Len(Unflushed) : Unflushed[i] = ring[(Len(ring) - Lacking) + i]
    BY <1>1, <1>3, <1>5
  <2> QED BY <1>1, <1>5, <2>1, PartRises
<1> QED BY <1>1, <1>3, <1>5, <1>6

\* What an append leaves, complete or not.
LEMMA AppendIsFine ==
  ASSUME SInv, LogRel
  PROVE  /\ Appended(disk["log"].live, Unflushed) = LogFile(RecordsOf(disk["log"].live) \o Unflushed, FALSE)
         /\ LogFine(Appended(disk["log"].live, Unflushed))
         /\ \A g \in Cut(disk["log"].live, Unflushed) :
              /\ LogFine(g) /\ g # NoFile
              /\ \E k \in 0 .. Lacking :
                   RecordsOf(g) = RecordsOf(disk["log"].live) \o SubSeq(Unflushed, 1, k)
<1> DEFINE f == disk["log"].live
           u == Unflushed
<1>1. LogFine(f) /\ RecordsOf(f) \in Seq(Entries) /\ ring \in Seq(Entries) /\ Len(ring) \in Nat
  BY FilesHave, LogFilesAre DEF LogFine, LogOk
<1>2. ~(f.kind = "log" /\ f.torn)
  BY DEF LogRel
<1>3. \A i \in 1 .. Len(RecordsOf(f)), k \in 1 .. Len(u) : RecordsOf(f)[i].seq < u[k].seq
  <2> SUFFICES ASSUME NEW i \in 1 .. Len(RecordsOf(f)), NEW k \in 1 .. Len(u)
               PROVE  RecordsOf(f)[i].seq < u[k].seq
    OBVIOUS
  <2>1. /\ u[k] = ring[Len(ring) - Lacking + k]
        /\ Len(ring) - Lacking + k \in Len(ring) - Lacking + 1 .. Len(ring)
    BY <1>1, UnflushedIs
  <2>2. i \in DOMAIN RecordsOf(f)
    BY <1>1
  <2> QED BY <2>1, <2>2 DEF LogRel
<1>4. Appended(f, u) = LogFile(RecordsOf(f) \o u, FALSE)
  BY <1>2 DEF Appended
<1>5. LogFine(LogFile(RecordsOf(f) \o u, FALSE))
  BY <1>1, <1>3, UnflushedIs, AddedIsFine
<1>6. ASSUME NEW g \in Cut(f, u)
      PROVE  /\ LogFine(g) /\ g # NoFile
             /\ \E k \in 0 .. Lacking : RecordsOf(g) = RecordsOf(f) \o SubSeq(u, 1, k)
  <2>1. LogFine(g) /\ g # NoFile
    BY <1>1, <1>3, UnflushedIs, CutIsFine
  <2>2. PICK k \in 0 .. Len(u), torn \in BOOLEAN : g = LogFile(RecordsOf(f) \o SubSeq(u, 1, k), torn)
    BY <1>2 DEF Cut
  <2>3. k \in 0 .. Lacking /\ SubSeq(u, 1, k) \in Seq(Entries)
    BY UnflushedIs, FrontsIs
  <2>4. RecordsOf(g) = RecordsOf(f) \o SubSeq(u, 1, k)
    BY <1>1, <2>2, <2>3, JoinedIs, LogFileIs
  <2> QED BY <2>1, <2>3, <2>4
<1> QED BY <1>4, <1>5, <1>6

-----------------------------------------------------------------------------
(* Booting.                                                                 *)

\* The files a boot may find.
DiskFine(d) ==
  /\ d \in Disks
  /\ LogFine(d["log"].live) /\ LogFine(d["log"].tmp)
  /\ CurOk(d["cur"].live) /\ CurOk(d["cur"].tmp)

LEMMA BootLoads ==
  ASSUME SInv, NEW d, DiskFine(d)
  PROVE  LET f == BootFile(d, "log")
             g == BootFile(d, "cur") IN
         /\ LogFine(f) /\ CurOk(g) /\ RecordsOf(f) \in Seq(Entries)
         /\ Ascending(RecordsOf(f)) = RecordsOf(f)
         /\ BootRing(d) = Newest(RecordsOf(f))
         /\ BootNext(d) \in Nat /\ NextOf(g) <= BootNext(d) /\ Below(RecordsOf(f), BootNext(d))
         /\ BootCursors(d) = CursorsOf(g) /\ CursorsOf(g) \in Cursors
<1> DEFINE f == BootFile(d, "log")
           g == BootFile(d, "cur")
           recs == RecordsOf(f)
<1>1. LogFine(f) /\ CurOk(g)
  BY DEF BootFile, syncHistRecoverSwap, DiskFine
<1>2. recs \in Seq(Entries) /\ Rising(recs)
  BY <1>1, LogFilesAre DEF LogFine, LogOk
<1>3. Ascending(recs) = recs
  BY <1>2, RisingIsTaken
<1>4. BootRing(d) = Newest(recs)
  BY <1>3 DEF BootRing
<1>5. NextOf(g) \in Nat /\ CursorsOf(g) \in Cursors /\ \A id \in Ids : CursorsOf(g)[id] < NextOf(g)
  BY <1>1, CurFilesAre DEF CurOk
<1>6. BootNext(d) \in Nat /\ NextOf(g) <= BootNext(d) /\ Below(recs, BootNext(d))
  <2>1. BootNext(d) = LET logged == IF recs = <<>> THEN 0 ELSE Last(recs).seq + 1
                      IN IF NextOf(g) > logged THEN NextOf(g) ELSE logged
    BY <1>3 DEF BootNext
  <2>2. CASE recs = <<>>
    BY <1>5, <2>1, <2>2 DEF Below
  <2>3. CASE recs # <<>>
    <3> DEFINE n == Len(recs)
    <3>1. /\ n \in Nat /\ n \in 1 .. n /\ DOMAIN recs = 1 .. n /\ Last(recs) = recs[n]
          /\ \A i \in 1 .. n : recs[i].seq \in Nat
      BY <1>2, <2>3, RangeIs DEF Last
    <3>2. \A i \in 1 .. n : recs[i].seq <= recs[n].seq
      <4> TAKE i \in 1 .. n
      <4>1. i = n \/ i < n
        BY <3>1
      <4> QED BY <1>2, <3>1, <4>1 DEF Rising
    <3>3. BootNext(d) \in Nat /\ NextOf(g) <= BootNext(d) /\ recs[n].seq + 1 <= BootNext(d)
      BY <1>5, <2>1, <2>3, <3>1
    <3>4. Below(recs, BootNext(d))
      <4> SUFFICES ASSUME NEW i \in 1 .. n PROVE recs[i].seq < BootNext(d)
        BY <3>1 DEF Below
      <4>1. recs[i].seq <= recs[n].seq /\ recs[i].seq \in Nat /\ recs[n].seq \in Nat
        BY <3>1, <3>2
      <4> QED BY <3>3, <4>1
    <3> QED BY <3>3, <3>4
  <2> QED BY <2>2, <2>3
<1>7. BootCursors(d) = CursorsOf(g)
  <2>1. \A id \in Ids : CursorsOf(g)[id] \in Int /\ ~(CursorsOf(g)[id] > BootNext(d) - 1)
    BY <1>5, <1>6 DEF Cursors
  <2>2. BootCursors(d) = [id \in Ids |-> CursorsOf(g)[id]]
    BY <2>1 DEF BootCursors
  <2> QED BY <1>5, <2>2 DEF Cursors
<1> QED BY <1>1, <1>2, <1>3, <1>4, <1>5, <1>6, <1>7

LEMMA BootKeeps == ASSUME SInv, NEW d, DiskFine(d), Boot(d) PROVE SInv'
<1> DEFINE f == BootFile(d, "log")
           g == BootFile(d, "cur")
           recs == RecordsOf(f)
<1>1. /\ LogFine(f) /\ CurOk(g) /\ recs \in Seq(Entries) /\ Rising(recs)
      /\ Ascending(recs) = recs /\ BootRing(d) = Newest(recs)
      /\ BootNext(d) \in Nat /\ NextOf(g) <= BootNext(d) /\ Below(recs, BootNext(d))
      /\ BootCursors(d) = CursorsOf(g) /\ CursorsOf(g) \in Cursors
  BY BootLoads DEF LogFine, LogOk
<1> HIDE DEF f, g, recs
<1>2. /\ ring' = Newest(recs) /\ nextSeq' = BootNext(d) /\ cursors' = CursorsOf(g)
      /\ UNCHANGED <<handed, excused, msgs>> /\ io' = NoIO /\ rebooting' = "no"
      /\ slotId' = [s \in Slots |-> Nobody]
  BY <1>1 DEF Boot, history
<1>3. /\ disk' \in Disks /\ disk'["log"].live = f /\ disk'["log"].tmp = NoFile
      /\ disk'["cur"].live = g /\ disk'["cur"].tmp = NoFile
  BY <1>1, FileKinds DEF Boot, f, g, LogFine, LogOk, CurOk, Disks, AnyFiles
<1>4. /\ book'.dirty = [log |-> FALSE, cur |-> FALSE] /\ book'.unflushed = 0 /\ book'.fileRecs = Len(recs)
      /\ book' \in [dirty : [log : BOOLEAN, cur : BOOLEAN], unflushed : 0 .. RingSize,
                    fileRecs : Nat, needCompact : BOOLEAN]
      /\ ~book'.needCompact => ~(f.kind = "log" /\ f.torn)
  <2>1. book' = BootBook(d)
    BY DEF Boot
  <2>2. RingSize \in Nat /\ Len(recs) \in Nat
    BY <1>1, SyncAssumption
  <2> QED BY <2>1, <2>2 DEF BootBook, f, recs
<1>5. /\ ring' \in Seq(Entries) /\ Len(ring') <= RingSize /\ Len(ring') = Shorter(Len(recs), RingSize)
      /\ \A i \in 1 .. Len(ring') : ring'[i] = recs[Len(recs) - Len(ring') + i]
      /\ Range(ring') \subseteq Range(recs) /\ Rising(ring') /\ Below(ring', nextSeq')
  BY <1>1, <1>2, NewestIs, NewestRises
<1>6. BootFile(disk', "log") = f /\ BootFile(disk', "cur") = g
  BY <1>3 DEF BootFile, syncHistRecoverSwap
<1>7. RecordsOf(f) = recs
  BY DEF recs
<1>8. AllEntries' \subseteq AllEntries
  <2>1. Range(RecordsOf(f)) \subseteq AllEntries
    BY <1>1 DEF LogFine
  <2>2. AllEntries' = Range(ring') \cup Range(RecordsOf(f)) \cup {}
    BY <1>3, FileKinds, NoEntries DEF AllEntries
  <2> QED BY <1>5, <1>7, <2>1, <2>2
<1>9. Shapes'
  BY <1>1, <1>2, <1>4, <1>5 DEF SInv, Shapes
<1>10. Covered(CursorsOf(g), AllEntries)'
  <2>1. Covered(CursorsOf(g), AllEntries)
    BY <1>1 DEF CurOk
  <2> SUFFICES ASSUME NEW id \in Ids, NEW e \in AllEntries', e.seq <= CursorsOf(g)[id]
               PROVE  e.msg \in handed[id] \cup excused[id]
    BY <1>2, <1>3 DEF Covered
  <2> QED BY <1>8, <2>1 DEF Covered
<1>11. RingInv'
  <2>1. \A id \in Ids : CursorsOf(g)[id] < nextSeq'
    <3>1. \A id \in Ids : CursorsOf(g)[id] \in Int /\ CursorsOf(g)[id] < NextOf(g)
      BY <1>1 DEF CurOk, Cursors
    <3> QED BY <1>1, <1>2, <3>1, CurFilesAre DEF CurOk
  <2> QED BY <1>2, <1>3, <1>5, <1>10, <2>1 DEF RingInv
<1>12. FilesInv'
  <2>1. LogOk(f)' /\ LogOk(NoFile)'
    BY <1>1, <1>2, <1>3, <1>7, FileKinds, NoEntries DEF LogFine, LogOk
  <2>2. CurOk(g)'
    BY <1>1, <1>2, <1>3, <1>10 DEF CurOk
  <2>3. CurOk(NoFile)'
    <3>1. \A e \in AllEntries' : e.seq \in Nat
      BY <1>8, FilesHave DEF Entries
    <3>2. Covered(NoCursors, AllEntries)'
      BY <3>1 DEF Covered, NoCursors, None
    <3> QED BY <1>1, <1>2, <3>2, FileKinds DEF CurOk, NoCursors, None
  <2> QED BY <1>3, <2>1, <2>2, <2>3 DEF FilesInv
<1>13. EntriesInv'
  BY <1>2, <1>8 DEF SInv, EntriesInv
<1>14. JobInv'
  BY <1>2 DEF JobInv, NoIO, Appending
<1>15. LogInv'
  <2> SUFFICES ASSUME ~MustCompact' PROVE LogRel'
    BY DEF LogInv
  <2>1. ~(f.kind = "log" /\ f.torn)
    BY <1>4 DEF MustCompact
  <2>2. RingSize \in Nat /\ Len(recs) \in Nat /\ Len(ring') \in Nat
    BY <1>1, <1>5, SyncAssumption
  <2>3. Lacking' = 0
    BY <1>4, <2>2 DEF Lacking
  <2>4. Len(ring') <= Len(recs) /\ (Len(ring') < RingSize => Len(ring') = Len(recs))
    BY <1>5, <2>2 DEF Shorter
  <2> QED BY <1>3, <1>5, <1>7, <2>1, <2>2, <2>3, <2>4 DEF LogRel
<1>16. CleanInv'
  <2>1. BootRing(disk') = Newest(recs)
    BY <1>1, <1>6, <1>7 DEF BootRing
  <2> QED BY <1>2, <1>6, <2>1 DEF CleanInv
<1>17. SwapInv'
  BY <1>3, FileKinds DEF SwapInv
<1> QED BY <1>9, <1>11, <1>12, <1>13, <1>14, <1>15, <1>16, <1>17 DEF SInv

\* One file written, or moved from the .tmp into its place.
LEMMA PutIsFine ==
  ASSUME SInv
  PROVE  /\ \A f : LogFine(f) => /\ DiskFine([disk EXCEPT !["log"].live = f])
                                 /\ DiskFine([disk EXCEPT !["log"].tmp = f])
         /\ \A f : CurOk(f) => /\ DiskFine([disk EXCEPT !["cur"].live = f])
                               /\ DiskFine([disk EXCEPT !["cur"].tmp = f])
         /\ \A w \in {"log", "cur"} :
              DiskFine([disk EXCEPT ![w] = [live |-> disk[w].tmp, tmp |-> NoFile]])
<1>1. DiskFine(disk) /\ disk \in Disks
  BY FilesHave DEF DiskFine
<1>2. "log" \in {"log", "cur"} /\ "cur" \in {"log", "cur"} /\ "cur" # "log"
  OBVIOUS
<1>3. ASSUME NEW f, LogFine(f)
      PROVE  DiskFine([disk EXCEPT !["log"].live = f]) /\ DiskFine([disk EXCEPT !["log"].tmp = f])
  <2>1. f \in AnyFiles
    BY <1>3 DEF LogFine, LogOk, AnyFiles
  <2>2. DiskFine([disk EXCEPT !["log"].live = f])
    BY <1>1, <1>2, <1>3, <2>1, LiveWritten DEF DiskFine
  <2>3. DiskFine([disk EXCEPT !["log"].tmp = f])
    BY <1>1, <1>2, <1>3, <2>1, TmpWritten DEF DiskFine
  <2> QED BY <2>2, <2>3
<1>4. ASSUME NEW f, CurOk(f)
      PROVE  DiskFine([disk EXCEPT !["cur"].live = f]) /\ DiskFine([disk EXCEPT !["cur"].tmp = f])
  <2>1. f \in AnyFiles
    BY <1>4 DEF CurOk, AnyFiles
  <2>2. DiskFine([disk EXCEPT !["cur"].live = f])
    BY <1>1, <1>2, <1>4, <2>1, LiveWritten DEF DiskFine
  <2>3. DiskFine([disk EXCEPT !["cur"].tmp = f])
    BY <1>1, <1>2, <1>4, <2>1, TmpWritten DEF DiskFine
  <2> QED BY <2>2, <2>3
<1>5. ASSUME NEW w \in {"log", "cur"}
      PROVE  DiskFine([disk EXCEPT ![w] = [live |-> disk[w].tmp, tmp |-> NoFile]])
  <2>1. NoFile \in AnyFiles /\ disk[w].tmp \in AnyFiles
    BY <1>1, FileKinds DEF AnyFiles, Disks
  <2>2. LogFine(NoFile) /\ CurOk(NoFile)
    BY EmptyIsFine
  <2>3. CASE w = "log"
    BY <1>1, <1>2, <2>1, <2>2, <2>3, PairWritten DEF DiskFine
  <2>4. CASE w = "cur"
    BY <1>1, <1>2, <2>1, <2>2, <2>4, PairWritten DEF DiskFine
  <2> QED BY <2>3, <2>4
<1> QED BY <1>3, <1>4, <1>5

\* What a power cut leaves of the file that is being written.
LEMMA CutShortIsFine == ASSUME SInv, NEW d \in CutShort PROVE DiskFine(d)
<1>1. DiskFine(disk)
  BY FilesHave DEF DiskFine
<1>6. CASE io = Appending
  <2>1. LogRel
    BY <1>6 DEF SInv, JobInv, LogInv
  <2>2. PICK f \in {disk["log"].live} \cup Cut(disk["log"].live, Unflushed) :
          d = [disk EXCEPT !["log"].live = f]
    BY <1>6 DEF CutShort, Appending
  <2>3. LogFine(f)
    BY <2>1, <2>2, AppendIsFine, FilesHave
  <2> QED BY <2>2, <2>3, PutIsFine
<1>7. CASE io = <<"write", "log">>
  <2>1. PICK f \in CutContent("log") : d = [disk EXCEPT !["log"].tmp = f]
    BY <1>7 DEF CutShort, Appending
  <2>2. f = Opened \/ f \in Cut(Opened, ring)
    BY DEF CutContent
  <2>3. LogFine(Opened) /\ RecordsOf(Opened) = <<>>
    BY EmptyIsFine, FileKinds
  <2>4. \A i \in 1 .. Len(RecordsOf(Opened)), k \in 1 .. Len(ring) : RecordsOf(Opened)[i].seq < ring[k].seq
    BY <2>3
  <2>5. LogFine(f)
    BY <2>2, <2>3, <2>4, FilesHave, CutIsFine
  <2> QED BY <2>1, <2>5, PutIsFine
<1>8. CASE io = <<"write", "cur">>
  <2>1. PICK f \in CutContent("cur") : d = [disk EXCEPT !["cur"].tmp = f]
    BY <1>8 DEF CutShort, Appending
  <2>2. CASE f = Opened
    BY <2>1, <2>2, EmptyIsFine, PutIsFine
  <2>3. ASSUME NEW part \in SUBSET Known,
               f = CurFile(nextSeq, [id \in Ids |-> IF id \in part THEN cursors[id] ELSE None])
        PROVE  CurOk(f)
    <3> DEFINE cur == [id \in Ids |-> IF id \in part THEN cursors[id] ELSE None]
    <3>1. /\ nextSeq \in Nat /\ cursors \in Cursors /\ Covered(cursors, AllEntries)
          /\ \A id \in Ids : cursors[id] < nextSeq
      BY FilesHave DEF SInv, RingInv
    <3>2. cur \in Cursors /\ \A id \in Ids : cur[id] < nextSeq
      BY <3>1 DEF Cursors, None
    <3>3. Covered(cur, AllEntries)
      <4>1. \A e \in AllEntries : e.seq \in Nat
        BY FilesHave DEF Entries
      <4> QED BY <3>1, <4>1 DEF Covered, None
    <3> HIDE DEF cur
    <3>4. f \in CurFiles /\ NextOf(f) = nextSeq /\ CursorsOf(f) = cur
      BY <2>3, <3>1, <3>2, CurFileIs DEF cur
    <3> QED BY <3>1, <3>2, <3>3, <3>4 DEF CurOk
  <2>4. f = Opened \/ \E part \in SUBSET Known :
          f = CurFile(nextSeq, [id \in Ids |-> IF id \in part THEN cursors[id] ELSE None])
    BY DEF CutContent
  <2> QED BY <2>1, <2>2, <2>3, <2>4, PutIsFine
<1>9. CASE io # Appending /\ io \notin {<<"write", "log">>, <<"write", "cur">>}
  BY <1>1, <1>9 DEF CutShort
<1> QED BY <1>6, <1>7, <1>8, <1>9

LEMMA CutKeeps == ASSUME SInv, PowerCut \/ Reboot PROVE SInv'
<1>1. CASE PowerCut
  BY <1>1, CutShortIsFine, BootKeeps DEF PowerCut
<1>2. CASE Reboot
  <2>1. DiskFine(disk) /\ Boot(disk)
    BY <1>2, FilesHave DEF DiskFine, Reboot
  <2> QED BY <2>1, BootKeeps
<1> QED BY <1>1, <1>2

-----------------------------------------------------------------------------
(* Steps about one file.                                                    *)

\* A step that leaves the ring and the cursors alone brings nothing new.
LEMMA OnlyFiles ==
  ASSUME SInv, DiskFine(disk'), UNCHANGED <<ring, nextSeq, cursors, handed, excused, msgs>>
  PROVE  FilesInv' /\ RingInv' /\ EntriesInv' /\ AllEntries' \subseteq AllEntries
<1>1. AllEntries' \subseteq AllEntries
  BY FilesHave DEF DiskFine, LogFine, AllEntries
<1>2. CurOk(disk["cur"].live)' /\ CurOk(disk["cur"].tmp)'
  <2>1. CurOk(disk'["cur"].live) /\ CurOk(disk'["cur"].tmp)
    BY DEF DiskFine
  <2> QED BY <1>1, <2>1 DEF CurOk, Covered
<1>3. LogOk(disk["log"].live)' /\ LogOk(disk["log"].tmp)'
  BY DEF DiskFine, LogFine, LogOk
<1>4. FilesInv'
  BY <1>2, <1>3 DEF FilesInv, DiskFine
<1>5. RingInv'
  BY <1>1 DEF SInv, RingInv, Covered
<1>6. EntriesInv'
  BY <1>1 DEF SInv, EntriesInv
<1> QED BY <1>1, <1>4, <1>5, <1>6

\* The ring is the end of the log and of what the log lacks.
LEMMA JoinedTail ==
  ASSUME SInv, LogRel
  PROVE  LET all == RecordsOf(disk["log"].live) \o Unflushed IN
         /\ all \in Seq(Entries) /\ Len(all) = Len(RecordsOf(disk["log"].live)) + Lacking
         /\ Len(ring) <= Len(all) /\ (Len(ring) < RingSize => Len(all) = Len(ring))
         /\ \A i \in 1 .. Len(ring) : ring[i] = all[Len(all) - Len(ring) + i]
         /\ Newest(all) = ring
<1> DEFINE recs == RecordsOf(disk["log"].live)
           u == Unflushed
           all == recs \o u
           kept == Len(ring) - Lacking
<1>1. /\ recs \in Seq(Entries) /\ ring \in Seq(Entries) /\ u \in Seq(Entries) /\ Len(u) = Lacking
      /\ Lacking \in 0 .. Len(ring) /\ Len(ring) \in Nat /\ Len(recs) \in Nat /\ RingSize \in Nat
      /\ Len(ring) <= RingSize
      /\ \A i \in 1 .. Lacking : u[i] = ring[kept + i]
  BY FilesHave, LogFilesAre, UnflushedIs, SyncAssumption DEF LogFine, LogOk, SInv, Shapes
<1>2. /\ kept <= Len(recs)
      /\ Len(ring) < RingSize => kept = Len(recs)
      /\ \A i \in 1 .. kept : ring[i] = recs[Len(recs) - kept + i]
  BY DEF LogRel
<1>3. /\ all \in Seq(Entries) /\ Len(all) = Len(recs) + Lacking
      /\ \A i \in 1 .. Len(recs) : all[i] = recs[i]
      /\ \A i \in 1 .. Lacking : all[Len(recs) + i] = u[i]
  BY <1>1, JoinedIs
<1> HIDE DEF recs, u, all
<1>4. Len(ring) <= Len(all) /\ (Len(ring) < RingSize => Len(all) = Len(ring))
  BY <1>1, <1>2, <1>3
<1>5. \A i \in 1 .. Len(ring) : ring[i] = all[Len(all) - Len(ring) + i]
  <2> TAKE i \in 1 .. Len(ring)
  <2>1. CASE i \in 1 .. kept
    <3>1. /\ Len(all) - Len(ring) + i = Len(recs) - kept + i
          /\ Len(recs) - kept + i \in 1 .. Len(recs)
      BY <1>1, <1>2, <1>3, <2>1
    <3> QED BY <1>2, <1>3, <2>1, <3>1
  <2>2. CASE ~(i \in 1 .. kept)
    <3>1. /\ Len(all) - Len(ring) + i = Len(recs) + (i - kept)
          /\ i - kept \in 1 .. Lacking /\ kept + (i - kept) = i
      BY <1>1, <1>3, <2>2
    <3>2. all[Len(recs) + (i - kept)] = u[i - kept]
      BY <1>3, <3>1
    <3>3. u[i - kept] = ring[kept + (i - kept)]
      BY <1>1, <3>1
    <3> QED BY <3>1, <3>2, <3>3
  <2> QED BY <2>1, <2>2
<1>6. Newest(all) = ring
  <2>1. /\ Newest(all) \in Seq(Entries) /\ Len(Newest(all)) = Shorter(Len(all), RingSize)
        /\ \A i \in 1 .. Len(Newest(all)) : Newest(all)[i] = all[Len(all) - Len(Newest(all)) + i]
    BY <1>3, NewestIs
  <2>2. Len(Newest(all)) = Len(ring)
    BY <1>1, <1>3, <1>4, <2>1 DEF Shorter
  <2> QED BY <1>1, <1>5, <2>1, <2>2, SameElements
<1> QED BY <1>3, <1>4, <1>5, <1>6 DEF recs, u, all

LEMMA AppendOpensKeeps == ASSUME SInv, AppendOpens PROVE SInv'
<1>1. /\ io = NoIO /\ book.dirty["log"] /\ ~MustCompact /\ UNCHANGED <<mesh, link, history, msgs, book>>
      /\ rebooting \in {"no", "log"}
  BY DEF AppendOpens, MayStart, Kept
<1>2. /\ UNCHANGED <<ring, nextSeq, cursors, slotId, handed, excused, msgs>>
      /\ (MustCompact' <=> MustCompact) /\ Lacking' = Lacking
  BY <1>1 DEF mesh, link, history, MustCompact, Lacking
<1>3. rebooting' \in {"no", "log", "cur", "go"}
  BY DEF AppendOpens, Goes, Done, NextStage, SInv, Shapes
<1>4. CASE disk' = disk /\ io' = NoIO
  <2>1. DiskFine(disk')
    BY <1>4, FilesHave DEF DiskFine
  <2>2. FilesInv' /\ RingInv' /\ EntriesInv'
    BY <1>2, <2>1, OnlyFiles
  <2>3. Shapes' /\ JobInv'
    BY <1>1, <1>2, <1>3, <1>4 DEF SInv, Shapes, JobInv, NoIO, Appending
  <2>4. LogInv' /\ CleanInv' /\ SwapInv'
    BY <1>1, <1>2, <1>4 DEF SInv, LogInv, LogRel, CleanInv, SwapInv
  <2> QED BY <2>2, <2>3, <2>4 DEF SInv
<1>5. CASE /\ io' = Appending
           /\ disk' = [disk EXCEPT !["log"].live = IF @ = NoFile THEN Opened ELSE @]
  <2> DEFINE f == IF disk["log"].live = NoFile THEN Opened ELSE disk["log"].live
  <2>1. LogFine(f) /\ f # NoFile /\ RecordsOf(f) = RecordsOf(disk["log"].live)
        /\ (f.kind = "log" => disk["log"].live.kind = "log" /\ f = disk["log"].live)
    BY FilesHave, EmptyIsFine, FileKinds
  <2>2. disk' = [disk EXCEPT !["log"].live = f]
    BY <1>5
  <2> HIDE DEF f
  <2>3. DiskFine(disk')
    BY <2>1, <2>2, PutIsFine
  <2>4. FilesInv' /\ RingInv' /\ EntriesInv'
    BY <1>2, <2>3, OnlyFiles
  <2>5. disk'["log"].live = f /\ disk'["cur"] = disk["cur"]
    BY <2>2, FilesHave DEF Disks
  <2>6. Shapes' /\ JobInv'
    BY <1>1, <1>2, <1>3, <1>5 DEF SInv, Shapes, JobInv, Appending
  <2>7. LogInv'
    BY <1>2, <2>1, <2>5 DEF SInv, LogInv, LogRel
  <2>8. CleanInv'
    BY <1>1, <1>2, <2>5 DEF SInv, CleanInv, BootFile
  <2>9. SwapInv'
    BY <2>1, <2>5 DEF SwapInv
  <2> QED BY <2>4, <2>6, <2>7, <2>8, <2>9 DEF SInv
<1> QED BY <1>4, <1>5 DEF AppendOpens, Done, Goes

LEMMA AppendEndsKeeps == ASSUME SInv, AppendEnds PROVE SInv'
<1>1. io = Appending /\ io' = NoIO /\ UNCHANGED <<mesh, link, history, msgs>> /\ rebooting' = NextStage
  BY DEF AppendEnds, Kept, Done
<1>2. UNCHANGED <<ring, nextSeq, cursors, slotId, handed, excused, msgs>>
  BY <1>1 DEF mesh, link, history
<1>3. rebooting' \in {"no", "log", "cur", "go"}
  BY <1>1 DEF NextStage
<1>4. book.dirty["log"] /\ ~MustCompact /\ LogRel
  BY <1>1 DEF SInv, JobInv, LogInv, Appending, NoIO
<1> DEFINE recs == RecordsOf(disk["log"].live)
           f == Appended(disk["log"].live, Unflushed)
<1>5. CASE /\ disk' = [disk EXCEPT !["log"].live = f]
           /\ book' = [book EXCEPT !.dirty.log = FALSE, !.unflushed = 0, !.fileRecs = @ + Len(Unflushed)]
  <2> DEFINE all == recs \o Unflushed
  <2>1. /\ LogFine(f) /\ f = LogFile(all, FALSE)
        /\ all \in Seq(Entries)
        /\ Len(ring) <= Len(all) /\ (Len(ring) < RingSize => Len(all) = Len(ring))
        /\ \A i \in 1 .. Len(ring) : ring[i] = all[Len(all) - Len(ring) + i]
        /\ Newest(all) = ring
    BY <1>4, AppendIsFine, JoinedTail
  <2>2. RecordsOf(f) = all /\ f # NoFile /\ (f.kind = "log" => ~f.torn)
    BY <2>1, LogFileIs
  <2>3. Rising(all)
    BY <2>1, <2>2 DEF LogFine, LogOk
  <2>4. Len(Unflushed) \in Nat
    BY UnflushedIs
  <2> HIDE DEF f, all
  <2>5. DiskFine(disk')
    BY <1>5, <2>1, PutIsFine
  <2>6. FilesInv' /\ RingInv' /\ EntriesInv'
    BY <1>2, <2>5, OnlyFiles
  <2>7. disk'["log"].live = f /\ disk'["cur"] = disk["cur"]
    BY <1>5, FilesHave DEF Disks
  <2>8. /\ book' \in [dirty : [log : BOOLEAN, cur : BOOLEAN], unflushed : 0 .. RingSize,
                      fileRecs : Nat, needCompact : BOOLEAN]
        /\ ~book'.dirty.log /\ book'.dirty.cur = book.dirty.cur /\ book'.unflushed = 0
    <3>1. /\ book \in [dirty : [log : BOOLEAN, cur : BOOLEAN], unflushed : 0 .. RingSize,
                        fileRecs : Nat, needCompact : BOOLEAN]
          /\ 0 \in 0 .. RingSize
      BY SyncAssumption DEF SInv, Shapes
    <3>2. book.fileRecs + Len(Unflushed) \in Nat
      BY <2>4, <3>1
    <3>3. book' = [dirty |-> [log |-> FALSE, cur |-> book.dirty.cur], unflushed |-> 0,
                   fileRecs |-> book.fileRecs + Len(Unflushed), needCompact |-> book.needCompact]
      BY <1>5, <3>1
    <3> QED BY <3>1, <3>2, <3>3
  <2>9. Shapes' /\ JobInv'
    BY <1>1, <1>2, <1>3, <2>8 DEF SInv, Shapes, JobInv, NoIO, Appending
  <2>10. LogInv'
    <3>1. Len(ring) \in Nat
      BY FilesHave
    <3>2. Lacking' = 0
      BY <1>2, <2>8, <3>1 DEF Lacking
    <3>3. /\ RecordsOf(disk'["log"].live) = all /\ ring' = ring /\ Len(ring') - Lacking' = Len(ring)
          /\ disk'["log"].live.kind = "log" => ~disk'["log"].live.torn
      BY <1>2, <2>2, <2>7, <3>1, <3>2
    <3>4. \A i \in DOMAIN all, k \in Len(ring) + 1 .. Len(ring) : all[i].seq < ring[k].seq
      BY <3>1
    <3>5. Len(ring) < RingSize => Len(ring) = Len(all)
      BY <2>1
    <3>6. LogRel'
      BY <2>1, <3>3, <3>4, <3>5 DEF LogRel
    <3> QED BY <3>6 DEF LogInv
  <2>11. CleanInv'
    <3>1. BootRing(disk') = Newest(Ascending(all))
      BY <2>2, <2>7 DEF BootRing, BootFile, syncHistRecoverSwap
    <3>2. BootRing(disk') = ring'
      BY <1>2, <2>1, <2>3, <3>1, RisingIsTaken
    <3> QED BY <1>2, <2>7, <2>8, <3>2 DEF SInv, CleanInv, BootFile
  <2>12. SwapInv'
    BY <2>2, <2>7 DEF SwapInv
  <2> QED BY <2>6, <2>9, <2>10, <2>11, <2>12 DEF SInv
<1>6. CASE /\ \E g \in Cut(disk["log"].live, Unflushed) : disk' = [disk EXCEPT !["log"].live = g]
           /\ book' = [book EXCEPT !.needCompact = TRUE]
  <2>1. PICK g \in Cut(disk["log"].live, Unflushed) : disk' = [disk EXCEPT !["log"].live = g]
    BY <1>6
  <2>2. LogFine(g) /\ g # NoFile
    BY <1>4, AppendIsFine
  <2>3. DiskFine(disk')
    BY <2>1, <2>2, PutIsFine
  <2>4. FilesInv' /\ RingInv' /\ EntriesInv'
    BY <1>2, <2>3, OnlyFiles
  <2>5. disk'["log"].live = g /\ disk'["cur"] = disk["cur"]
    BY <2>1, FilesHave DEF Disks
  <2>6. /\ book' \in [dirty : [log : BOOLEAN, cur : BOOLEAN], unflushed : 0 .. RingSize,
                      fileRecs : Nat, needCompact : BOOLEAN]
        /\ book'.dirty = book.dirty /\ book'.needCompact
    BY <1>6 DEF SInv, Shapes
  <2>7. Shapes' /\ JobInv'
    BY <1>1, <1>2, <1>3, <2>6 DEF SInv, Shapes, JobInv, NoIO, Appending
  <2>8. LogInv'
    BY <2>6 DEF LogInv, MustCompact
  <2>9. CleanInv'
    BY <1>2, <1>4, <2>5, <2>6 DEF SInv, CleanInv, BootFile
  <2>10. SwapInv'
    BY <2>2, <2>5 DEF SwapInv
  <2> QED BY <2>4, <2>7, <2>8, <2>9, <2>10 DEF SInv
<1> QED BY <1>5, <1>6 DEF AppendEnds

\* A step of a rewrite that leaves the flags alone touches one pair of files,
\* and what it rewrites is dirty.
LEMMA SideKeeps ==
  ASSUME SInv, UNCHANGED <<ring, nextSeq, cursors, handed, excused, msgs, slotId, book>>,
         DiskFine(disk'), NEW w \in {"log", "cur"}, book.dirty[w], w = "log" => MustCompact,
         \A v \in {"log", "cur"} : v # w => disk'[v] = disk[v],
         io' \in ({"write", "remove", "rename"} \X {"log", "cur"}) \cup {NoIO, Appending},
         rebooting' \in {"no", "log", "cur", "go"}
  PROVE  Shapes' /\ FilesInv' /\ RingInv' /\ EntriesInv' /\ LogInv' /\ CleanInv'
<1>1. FilesInv' /\ RingInv' /\ EntriesInv'
  BY OnlyFiles
<1>2. Shapes'
  BY DEF SInv, Shapes
<1>3. (MustCompact' <=> MustCompact) /\ Lacking' = Lacking
  BY DEF MustCompact, Lacking
<1>4. CASE w = "log"
  <2>1. LogInv'
    BY <1>3, <1>4 DEF LogInv
  <2>2. CleanInv'
    BY <1>4 DEF SInv, CleanInv, BootFile
  <2> QED BY <1>1, <1>2, <2>1, <2>2
<1>5. CASE w = "cur"
  <2>1. disk'["log"] = disk["log"]
    BY <1>5
  <2>2. LogInv'
    BY <1>3, <2>1 DEF SInv, LogInv, LogRel
  <2>3. CleanInv'
    BY <1>5, <2>1 DEF SInv, CleanInv, BootRing, BootFile
  <2> QED BY <1>1, <1>2, <2>2, <2>3
<1> QED BY <1>4, <1>5

LEMMA StageIs == ASSUME SInv PROVE NextStage \in {"no", "log", "cur", "go"}
                                   /\ rebooting \in {"no", "log", "cur", "go"}
BY DEF NextStage, SInv, Shapes

\* What every step of a rewrite has at hand.
LEMMA RewriteHas ==
  ASSUME SInv, Kept
  PROVE  UNCHANGED <<ring, nextSeq, cursors, slotId, handed, excused, msgs>> /\ DiskFine(disk)
BY FilesHave DEF Kept, mesh, link, history, DiskFine

\* A job about the cursors leaves the log as it was.
LEMMA LogUntouched ==
  ASSUME SInv, disk'["log"] = disk["log"], MustCompact' <=> MustCompact,
         io # <<"remove", "log">>, io # <<"rename", "log">>, io' # <<"write", "log">>
  PROVE  SwapInv'
BY DEF SInv, SwapInv

LEMMA TmpOpensKeeps == ASSUME SInv, NEW w \in {"log", "cur"}, TmpOpens(w) PROVE SInv'
<1>1. /\ io = NoIO /\ book.dirty[w] /\ (w = "log" => MustCompact)
      /\ UNCHANGED <<ring, nextSeq, cursors, slotId, handed, excused, msgs, book>> /\ DiskFine(disk)
  BY RewriteHas DEF TmpOpens, MayStart
<1>2. NextStage \in {"no", "log", "cur", "go"} /\ rebooting \in {"no", "log", "cur", "go"}
  BY StageIs
<1>3. CASE disk' = disk /\ io' = NoIO /\ rebooting' = NextStage
  <2>1. Shapes' /\ FilesInv' /\ RingInv' /\ EntriesInv' /\ LogInv' /\ CleanInv'
    BY <1>1, <1>2, <1>3, SideKeeps
  <2>2. JobInv'
    BY <1>3 DEF JobInv, NoIO, Appending
  <2>3. SwapInv'
    BY <1>1, <1>3 DEF SInv, SwapInv, MustCompact
  <2> QED BY <2>1, <2>2, <2>3 DEF SInv
<1>4. CASE disk' = [disk EXCEPT ![w].tmp = Opened] /\ io' = <<"write", w>> /\ rebooting' = rebooting
  <2>1. DiskFine(disk')
    BY <1>4, EmptyIsFine, PutIsFine
  <2>2. disk'[w].tmp = Opened /\ \A v \in {"log", "cur"} : v # w => disk'[v] = disk[v]
    BY <1>1, <1>4 DEF DiskFine, Disks
  <2>3. Shapes' /\ FilesInv' /\ RingInv' /\ EntriesInv' /\ LogInv' /\ CleanInv'
    BY <1>1, <1>2, <1>4, <2>1, <2>2, SideKeeps
  <2>4. JobInv'
    BY <1>1, <1>4 DEF JobInv, NoIO, Appending, MustCompact
  <2>5. SwapInv'
    <3>1. CASE w = "log"
      BY <2>2, <3>1, FileKinds DEF SwapInv
    <3>2. CASE w = "cur"
      <4>1. disk'["log"] = disk["log"]
        BY <2>2, <3>2
      <4>2. MustCompact' <=> MustCompact
        BY <1>1 DEF MustCompact
      <4>3. io # <<"remove", "log">> /\ io # <<"rename", "log">> /\ io' # <<"write", "log">>
        BY <1>1, <1>4, <3>2 DEF NoIO
      <4> QED BY <4>1, <4>2, <4>3, LogUntouched
    <3> QED BY <3>1, <3>2
  <2> QED BY <2>3, <2>4, <2>5 DEF SInv
<1> QED BY <1>3, <1>4 DEF TmpOpens, Done, Goes

LEMMA TmpEndsKeeps == ASSUME SInv, NEW w \in {"log", "cur"}, TmpEnds(w) PROVE SInv'
<1>1. /\ io = <<"write", w>>
      /\ UNCHANGED <<ring, nextSeq, cursors, slotId, handed, excused, msgs, book>> /\ DiskFine(disk)
  BY RewriteHas DEF TmpEnds
<1>2. NextStage \in {"no", "log", "cur", "go"} /\ rebooting \in {"no", "log", "cur", "go"}
  BY StageIs
<1>3. book.dirty[w] /\ (w = "log" => MustCompact)
  BY <1>1 DEF SInv, JobInv, NoIO
<1>4. ASSUME NEW f, disk' = [disk EXCEPT ![w].tmp = f]
      PROVE  disk'[w].tmp = f /\ \A v \in {"log", "cur"} : v # w => disk'[v] = disk[v]
  BY <1>1, <1>4 DEF DiskFine, Disks
<1>5. CASE disk' = [disk EXCEPT ![w].tmp = Content(w)] /\ io' = <<"remove", w>> /\ rebooting' = rebooting
  <2>1. DiskFine(disk')
    BY <1>5, ContentIsFine, PutIsFine
  <2>2. disk'[w].tmp = Content(w) /\ \A v \in {"log", "cur"} : v # w => disk'[v] = disk[v]
    BY <1>4, <1>5
  <2>3. Shapes' /\ FilesInv' /\ RingInv' /\ EntriesInv' /\ LogInv' /\ CleanInv'
    BY <1>1, <1>2, <1>3, <1>5, <2>1, <2>2, SideKeeps
  <2>4. JobInv'
    BY <1>1, <1>3, <1>5, <2>2 DEF JobInv, NoIO, Appending, MustCompact, Content
  <2>5. SwapInv'
    <3>1. CASE w = "log"
      BY <1>5, <3>1 DEF SwapInv
    <3>2. CASE w = "cur"
      <4>1. disk'["log"] = disk["log"]
        BY <2>2, <3>2
      <4>2. MustCompact' <=> MustCompact
        BY <1>1 DEF MustCompact
      <4>3. io # <<"remove", "log">> /\ io # <<"rename", "log">> /\ io' # <<"write", "log">>
        BY <1>1, <1>5, <3>2 DEF NoIO
      <4> QED BY <4>1, <4>2, <4>3, LogUntouched
    <3> QED BY <3>1, <3>2
  <2> QED BY <2>3, <2>4, <2>5 DEF SInv
<1>6. CASE disk' = [disk EXCEPT ![w].tmp = NoFile] /\ io' = NoIO /\ rebooting' = NextStage
  <2>1. DiskFine(disk')
    BY <1>6, EmptyIsFine, PutIsFine
  <2>2. disk'[w].tmp = NoFile /\ \A v \in {"log", "cur"} : v # w => disk'[v] = disk[v]
    BY <1>4, <1>6
  <2>3. Shapes' /\ FilesInv' /\ RingInv' /\ EntriesInv' /\ LogInv' /\ CleanInv'
    BY <1>1, <1>2, <1>3, <1>6, <2>1, <2>2, SideKeeps
  <2>4. JobInv'
    BY <1>6 DEF JobInv, NoIO, Appending
  <2>5. SwapInv'
    <3>1. CASE w = "log"
      BY <2>2, <3>1, FileKinds DEF SwapInv
    <3>2. CASE w = "cur"
      <4>1. disk'["log"] = disk["log"]
        BY <2>2, <3>2
      <4>2. MustCompact' <=> MustCompact
        BY <1>1 DEF MustCompact
      <4>3. io # <<"remove", "log">> /\ io # <<"rename", "log">> /\ io' # <<"write", "log">>
        BY <1>1, <1>6, <3>2 DEF NoIO
      <4> QED BY <4>1, <4>2, <4>3, LogUntouched
    <3> QED BY <3>1, <3>2
  <2> QED BY <2>3, <2>4, <2>5 DEF SInv
<1> QED BY <1>5, <1>6 DEF TmpEnds, Done, Goes

LEMMA LiveRemovedKeeps == ASSUME SInv, NEW w \in {"log", "cur"}, LiveRemoved(w) PROVE SInv'
<1>1. /\ io = <<"remove", w>> /\ io' = <<"rename", w>> /\ rebooting' = rebooting
      /\ UNCHANGED <<ring, nextSeq, cursors, slotId, handed, excused, msgs, book>> /\ DiskFine(disk)
  BY RewriteHas DEF LiveRemoved, Goes
<1>2. rebooting \in {"no", "log", "cur", "go"}
  BY StageIs
<1>3. book.dirty[w] /\ (w = "log" => MustCompact) /\ disk[w].tmp = Content(w)
  BY <1>1 DEF SInv, JobInv, NoIO
<1>4. /\ DiskFine(disk') /\ disk'[w].tmp = disk[w].tmp
      /\ \A v \in {"log", "cur"} : v # w => disk'[v] = disk[v]
  <2>1. CASE disk' = disk
    BY <1>1, <2>1
  <2>2. CASE disk' = [disk EXCEPT ![w].live = NoFile]
    <3>1. DiskFine(disk')
      BY <2>2, EmptyIsFine, PutIsFine
    <3>2. disk'[w].tmp = disk[w].tmp /\ \A v \in {"log", "cur"} : v # w => disk'[v] = disk[v]
      BY <1>1, <2>2 DEF DiskFine, Disks
    <3> QED BY <3>1, <3>2
  <2> QED BY <2>1, <2>2 DEF LiveRemoved
<1>5. Shapes' /\ FilesInv' /\ RingInv' /\ EntriesInv' /\ LogInv' /\ CleanInv'
  BY <1>1, <1>2, <1>3, <1>4, SideKeeps
<1>6. JobInv'
  BY <1>1, <1>3, <1>4 DEF JobInv, NoIO, Appending, MustCompact, Content
<1>7. SwapInv'
  <2>1. CASE w = "log"
    BY <1>1, <2>1 DEF SwapInv
  <2>2. CASE w = "cur"
    <3>1. disk'["log"] = disk["log"]
      BY <1>4, <2>2
    <3>2. MustCompact' <=> MustCompact
      BY <1>1 DEF MustCompact
    <3>3. io # <<"remove", "log">> /\ io # <<"rename", "log">> /\ io' # <<"write", "log">>
      BY <1>1, <2>2
    <3> QED BY <3>1, <3>2, <3>3, LogUntouched
  <2> QED BY <2>1, <2>2
<1> QED BY <1>5, <1>6, <1>7 DEF SInv

LEMMA TmpRenamedKeeps == ASSUME SInv, NEW w \in {"log", "cur"}, TmpRenamed(w) PROVE SInv'
<1>1. /\ io = <<"rename", w>> /\ io' = NoIO /\ rebooting' = NextStage
      /\ UNCHANGED <<ring, nextSeq, cursors, slotId, handed, excused, msgs>> /\ DiskFine(disk)
  BY RewriteHas DEF TmpRenamed, Done
<1>2. NextStage \in {"no", "log", "cur", "go"}
  BY StageIs
<1>3. book.dirty[w] /\ (w = "log" => MustCompact) /\ disk[w].tmp = Content(w)
  BY <1>1 DEF SInv, JobInv, NoIO
<1>4. JobInv'
  BY <1>1 DEF JobInv, NoIO, Appending
<1>5. CASE UNCHANGED <<disk, book>>
  <2>1. Shapes' /\ FilesInv' /\ RingInv' /\ EntriesInv' /\ LogInv' /\ CleanInv'
    BY <1>1, <1>2, <1>3, <1>5, SideKeeps
  <2>2. SwapInv'
    <3>1. CASE w = "log"
      BY <1>1, <1>3, <1>5, <3>1 DEF SwapInv, MustCompact, NoIO
    <3>2. CASE w = "cur"
      <4>1. disk'["log"] = disk["log"]
        BY <1>5
      <4>2. MustCompact' <=> MustCompact
        BY <1>1, <1>5 DEF MustCompact
      <4>3. io # <<"remove", "log">> /\ io # <<"rename", "log">> /\ io' # <<"write", "log">>
        BY <1>1, <3>2 DEF NoIO
      <4> QED BY <4>1, <4>2, <4>3, LogUntouched
    <3> QED BY <3>1, <3>2
  <2> QED BY <1>4, <2>1, <2>2 DEF SInv
<1>6. CASE disk' = [disk EXCEPT ![w] = [live |-> @.tmp, tmp |-> NoFile]] /\ book' = Swapped(w)
  <2>1. DiskFine(disk')
    BY <1>6, PutIsFine
  <2>2. FilesInv' /\ RingInv' /\ EntriesInv'
    BY <1>1, <2>1, OnlyFiles
  <2>3. /\ disk'[w].live = Content(w) /\ disk'[w].tmp = NoFile
        /\ \A v \in {"log", "cur"} : v # w => disk'[v] = disk[v]
    BY <1>1, <1>3, <1>6 DEF DiskFine, Disks
  <2>4. /\ ring \in Seq(Entries) /\ Len(ring) \in Nat /\ RingSize \in Nat /\ Rising(ring)
        /\ nextSeq \in Nat /\ cursors \in Cursors /\ Len(ring) <= RingSize
        /\ book \in [dirty : [log : BOOLEAN, cur : BOOLEAN], unflushed : 0 .. RingSize,
                     fileRecs : Nat, needCompact : BOOLEAN]
    BY FilesHave, SyncAssumption DEF SInv, Shapes
  <2>5. CASE w = "log"
    <3>1. /\ RecordsOf(disk'["log"].live) = ring /\ disk'["log"].live # NoFile
          /\ ~disk'["log"].live.torn /\ disk'["cur"] = disk["cur"]
      BY <2>3, <2>4, <2>5, LogFileIs DEF Content
    <3>2. book' = [dirty |-> [log |-> FALSE, cur |-> book.dirty.cur], unflushed |-> 0,
                   fileRecs |-> Len(ring), needCompact |-> FALSE]
      BY <1>6, <2>4, <2>5 DEF Swapped
    <3>3. Shapes'
      BY <1>1, <1>2, <2>4, <3>2 DEF SInv, Shapes
    <3>4. LogInv'
      <4>1. Lacking' = 0
        BY <1>1, <2>4, <3>2 DEF Lacking
      <4>2. \A i \in DOMAIN ring, k \in Len(ring) + 1 .. Len(ring) : ring[i].seq < ring[k].seq
        BY <2>4
      <4>3. Len(ring') - Lacking' = Len(ring) /\ \A i \in 1 .. Len(ring) : Len(ring) - Len(ring) + i = i
        BY <1>1, <2>4, <4>1
      <4>4. LogRel'
        BY <1>1, <2>4, <3>1, <4>2, <4>3 DEF LogRel
      <4> QED BY <4>4 DEF LogInv
    <3>5. CleanInv'
      <4>1. BootRing(disk') = ring
        BY <2>4, <3>1, RisingIsTaken DEF BootRing, BootFile, syncHistRecoverSwap, Newest
      <4> QED BY <1>1, <3>1, <3>2, <4>1 DEF SInv, CleanInv, BootFile
    <3>6. SwapInv'
      BY <3>1 DEF SwapInv
    <3> QED BY <1>4, <2>2, <3>3, <3>4, <3>5, <3>6 DEF SInv
  <2>6. CASE w = "cur"
    <3>1. /\ CursorsOf(disk'["cur"].live) = cursors /\ disk'["cur"].live # NoFile
          /\ disk'["log"] = disk["log"]
      BY <2>3, <2>4, <2>6, CurFileIs DEF Content
    <3>2. book' = [dirty |-> [log |-> book.dirty.log, cur |-> FALSE], unflushed |-> book.unflushed,
                   fileRecs |-> book.fileRecs, needCompact |-> book.needCompact]
      BY <1>6, <2>4, <2>6 DEF Swapped
    <3>3. Shapes'
      BY <1>1, <1>2, <2>4, <3>2 DEF SInv, Shapes
    <3>4. LogInv'
      <4>1. (MustCompact' <=> MustCompact) /\ Lacking' = Lacking
        BY <1>1, <3>2 DEF MustCompact, Lacking
      <4> QED BY <1>1, <3>1, <4>1 DEF SInv, LogInv, LogRel
    <3>5. CleanInv'
      <4>1. BootRing(disk') = BootRing(disk)
        BY <3>1 DEF BootRing, BootFile
      <4>2. CursorsOf(BootFile(disk', "cur")) = cursors
        BY <3>1 DEF BootFile, syncHistRecoverSwap
      <4> QED BY <1>1, <3>2, <4>1, <4>2 DEF SInv, CleanInv
    <3>6. SwapInv'
      <4>1. MustCompact' <=> MustCompact
        BY <1>1, <3>2 DEF MustCompact
      <4>2. io # <<"remove", "log">> /\ io # <<"rename", "log">> /\ io' # <<"write", "log">>
        BY <1>1, <2>6 DEF NoIO
      <4> QED BY <3>1, <4>1, <4>2, LogUntouched
    <3> QED BY <1>4, <2>2, <3>3, <3>4, <3>5, <3>6 DEF SInv
  <2> QED BY <2>5, <2>6
<1> QED BY <1>5, <1>6 DEF TmpRenamed

-----------------------------------------------------------------------------
(* Connections and the asking for a reboot.                                 *)

LEMMA ClientIdIs == ASSUME SInv, NEW s \in Slots PROVE ClientId(s) \in Ids
BY DEF SInv, Shapes, ClientId, Ids

LEMMA AsideKeeps ==
  ASSUME SInv, UNCHANGED <<ring, nextSeq, cursors, handed, excused, msgs, book, disk, io>>,
         slotId' \in [Slots -> NamedApps \cup {Nobody}], rebooting' \in {"no", "log", "cur", "go"}
  PROVE  SInv'
<1>1. DiskFine(disk')
  BY FilesHave DEF DiskFine
<1>2. FilesInv' /\ RingInv' /\ EntriesInv'
  BY <1>1, OnlyFiles
<1>3. Shapes' /\ JobInv'
  BY DEF SInv, Shapes, JobInv, MustCompact, Content
<1>4. LogInv' /\ CleanInv' /\ SwapInv'
  BY DEF SInv, LogInv, LogRel, MustCompact, Lacking, CleanInv, SwapInv
<1> QED BY <1>2, <1>3, <1>4 DEF SInv

LEMMA LinkKeeps ==
  ASSUME SInv,
         \/ \E s \in Slots, a \in Apps : AppStart(s, a)
         \/ \E s \in Slots : Disconnect(s)
         \/ RebootAsked \/ RebootSkips
  PROVE  SInv'
<1>1. slotId \in [Slots -> NamedApps \cup {Nobody}] /\ rebooting \in {"no", "log", "cur", "go"}
      /\ NextStage \in {"no", "log", "cur", "go"}
  BY StageIs DEF SInv, Shapes
<1>2. ASSUME NEW s \in Slots, NEW a \in Apps, AppStart(s, a) PROVE SInv'
  <2>1. slotId' \in [Slots -> NamedApps \cup {Nobody}]
    BY <1>1, <1>2 DEF AppStart
  <2> QED BY <1>1, <1>2, <2>1, AsideKeeps DEF AppStart, mesh, history
<1>3. ASSUME NEW s \in Slots, Disconnect(s) PROVE SInv'
  BY <1>1, <1>3, AsideKeeps DEF Disconnect, mesh, history
<1>4. CASE RebootAsked
  BY <1>1, <1>4, AsideKeeps DEF RebootAsked, mesh, link, history
<1>5. CASE RebootSkips
  BY <1>1, <1>5, AsideKeeps DEF RebootSkips, mesh, link, history
<1> QED BY <1>2, <1>3, <1>4, <1>5

-----------------------------------------------------------------------------
(* Asking for the next message.                                             *)

\* What is offered is the first entry beyond the cursor.
LEMMA OfferedIs ==
  ASSUME SInv, NEW last \in Int
  PROVE  /\ Offered(last) \subseteq Range(ring)
         /\ \A e \in Offered(last) : e.seq > last /\ e.seq \in Nat /\ e.seq < nextSeq
         /\ \A e \in Offered(last), f \in Range(ring) : f.seq <= e.seq => f.seq <= last \/ f = e
<1>1. /\ ring \in Seq(Entries) /\ Rising(ring) /\ Below(ring, nextSeq)
      /\ DOMAIN ring = 1 .. Len(ring) /\ Len(ring) \in Nat
      /\ \A i \in 1 .. Len(ring) : ring[i] \in Range(ring) /\ ring[i].seq \in Nat
      /\ \A e : e \in Range(ring) <=> \E i \in 1 .. Len(ring) : e = ring[i]
  BY FilesHave, RangeIs
<1>2. ASSUME NEW e \in Offered(last)
      PROVE  /\ e \in Range(ring) /\ e.seq > last /\ e.seq \in Nat /\ e.seq < nextSeq
             /\ \A f \in Range(ring) : f.seq <= e.seq => f.seq <= last \/ f = e
  <2>1. PICK i \in 1 .. Len(ring) : /\ e = ring[i] /\ ring[i].seq > last
                                    /\ \A k \in 1 .. i - 1 : ring[k].seq <= last
    BY <1>1 DEF Offered
  <2>2. e.seq < nextSeq
    BY <1>1, <2>1 DEF Below
  <2>3. ASSUME NEW f \in Range(ring), f.seq <= e.seq PROVE f.seq <= last \/ f = e
    <3>1. PICK j \in 1 .. Len(ring) : f = ring[j]
      BY <1>1
    <3>2. CASE j < i
      <4>1. j \in 1 .. i - 1
        BY <1>1, <3>2
      <4> QED BY <2>1, <3>1, <4>1
    <3>3. CASE j = i
      BY <2>1, <3>1, <3>3
    <3>4. CASE i < j
      <4>1. ring[i].seq < ring[j].seq /\ ring[i].seq \in Nat /\ ring[j].seq \in Nat
        BY <1>1, <3>4 DEF Rising
      <4> QED BY <2>1, <2>3, <3>1, <4>1
    <3> QED BY <3>2, <3>3, <3>4
  <2> QED BY <1>1, <2>1, <2>2, <2>3
<1> QED BY <1>2

\* The cursor made for a new client is below the next number.
LEMMA NewCursorIs == ASSUME SInv, ring # <<>> PROVE NewCursor \in Nat /\ NewCursor < nextSeq
<1>1. ring \in Seq(Entries) /\ Len(ring) \in Nat /\ nextSeq \in Nat /\ Below(ring, nextSeq)
  BY FilesHave
<1>2. Len(ring) > 0 /\ 1 \in DOMAIN ring /\ ring[1].seq \in Nat
  BY <1>1, RangeIs
<1>3. ring[1].seq < nextSeq
  BY <1>1, <1>2 DEF Below
<1> QED BY <1>1, <1>2, <1>3 DEF NewCursor

\* Where a step about one client may put its cursor: not beyond what that
\* client was given or is excused from.
LEMMA CursorMoves ==
  ASSUME SInv, UNCHANGED <<ring, nextSeq, disk, msgs, slotId, io, rebooting>>,
         NEW id \in Ids, NEW seq \in Int, seq < nextSeq,
         NEW given \in SUBSET Nat, NEW passed \in SUBSET Nat,
         cursors' = [cursors EXCEPT ![id] = seq],
         handed' = [handed EXCEPT ![id] = @ \cup given],
         excused' = [excused EXCEPT ![id] = @ \cup passed],
         book' = [book EXCEPT !.dirty.cur = @ \/ cursors' # cursors],
         io = NoIO,
         \A e \in AllEntries : e.seq <= seq => e.seq <= cursors[id] \/ e.msg \in given \cup passed
  PROVE  SInv'
<1>1. /\ cursors \in Cursors /\ handed \in [Ids -> SUBSET Nat] /\ excused \in [Ids -> SUBSET Nat]
      /\ book \in [dirty : [log : BOOLEAN, cur : BOOLEAN], unflushed : 0 .. RingSize,
                   fileRecs : Nat, needCompact : BOOLEAN]
      /\ disk \in Disks /\ nextSeq \in Nat
  BY DEF SInv, Shapes, FilesInv
<1>2. /\ cursors' \in Cursors /\ handed' \in [Ids -> SUBSET Nat] /\ excused' \in [Ids -> SUBSET Nat]
      /\ cursors'[id] = seq /\ \A i \in Ids : i # id => cursors'[i] = cursors[i]
      /\ \A i \in Ids : handed[i] \subseteq handed'[i] /\ excused[i] \subseteq excused'[i]
      /\ given \subseteq handed'[id] /\ passed \subseteq excused'[id]
  BY <1>1 DEF Cursors
<1>3. /\ book' = [dirty |-> [log |-> book.dirty.log, cur |-> book.dirty.cur \/ cursors' # cursors],
                  unflushed |-> book.unflushed, fileRecs |-> book.fileRecs,
                  needCompact |-> book.needCompact]
  BY <1>1
<1>4. /\ book' \in [dirty : [log : BOOLEAN, cur : BOOLEAN], unflushed : 0 .. RingSize,
                    fileRecs : Nat, needCompact : BOOLEAN]
      /\ book'.dirty.log = book.dirty.log /\ book'.needCompact = book.needCompact
      /\ book'.unflushed = book.unflushed /\ book'.fileRecs = book.fileRecs
      /\ ~book'.dirty.cur => ~book.dirty.cur /\ cursors' = cursors
  <2> DEFINE c == book.dirty.cur \/ cursors' # cursors
  <2>1. book.dirty.log \in BOOLEAN /\ c \in BOOLEAN
    BY <1>1
  <2>2. ~c => ~book.dirty.cur /\ cursors' = cursors
    OBVIOUS
  <2>5. book'.dirty = [log |-> book.dirty.log, cur |-> c]
    BY <1>3
  <2> HIDE DEF c
  <2>6. book'.dirty \in [log : BOOLEAN, cur : BOOLEAN] /\ book'.dirty.log = book.dirty.log
        /\ book'.dirty.cur = c
    BY <2>1, <2>5
  <2>3. book'.dirty \in [log : BOOLEAN, cur : BOOLEAN] /\ book'.dirty.log = book.dirty.log
        /\ (~book'.dirty.cur => ~book.dirty.cur /\ cursors' = cursors)
    BY <2>2, <2>6
  <2>4. book'.needCompact = book.needCompact /\ book'.unflushed = book.unflushed
        /\ book'.fileRecs = book.fileRecs
    BY <1>3
  <2> QED BY <1>1, <1>3, <2>3, <2>4
<1>5. AllEntries' = AllEntries
  BY DEF AllEntries
<1>6. Covered(cursors, AllEntries)'
  <2> SUFFICES ASSUME NEW i \in Ids, NEW e \in AllEntries, e.seq <= cursors'[i]
               PROVE  e.msg \in handed'[i] \cup excused'[i]
    BY <1>5 DEF Covered
  <2>1. e.seq <= cursors[i] => e.msg \in handed[i] \cup excused[i]
    BY DEF SInv, RingInv, Covered
  <2>2. CASE i = id
    BY <1>2, <2>1, <2>2
  <2>3. CASE i # id
    BY <1>2, <2>1, <2>3
  <2> QED BY <2>2, <2>3
<1>7. ASSUME NEW cur, Covered(cur, AllEntries) PROVE \A i \in Ids : \A e \in AllEntries' :
        e.seq <= cur[i] => e.msg \in handed'[i] \cup excused'[i]
  BY <1>2, <1>5, <1>7 DEF Covered
<1>8. ASSUME NEW w \in {"live", "tmp"} PROVE CurOk(disk["cur"][w])'
  <2>1. CurOk(disk["cur"][w])
    BY FilesHave DEF Disks
  <2> QED BY <1>7, <2>1 DEF CurOk, Covered
<1>9. FilesInv'
  BY <1>1, <1>8 DEF SInv, FilesInv, LogOk, Disks
<1>10. RingInv'
  BY <1>2, <1>6 DEF SInv, RingInv
<1>11. EntriesInv'
  BY <1>5 DEF SInv, EntriesInv
<1>12. Shapes'
  BY <1>2, <1>4 DEF SInv, Shapes
<1>13. (MustCompact' <=> MustCompact) /\ Lacking' = Lacking
  BY <1>4 DEF MustCompact, Lacking
<1>14. JobInv' /\ LogInv' /\ SwapInv'
  BY <1>13 DEF SInv, JobInv, LogInv, LogRel, SwapInv, NoIO, Appending
<1>15. CleanInv'
  BY <1>4 DEF SInv, CleanInv
<1> QED BY <1>9, <1>10, <1>11, <1>12, <1>14, <1>15 DEF SInv

LEMMA SyncKeeps == ASSUME SInv, NEW s \in Slots, NEW taken \in BOOLEAN, syncNext(s, taken) PROVE SInv'
<1> DEFINE id == ClientId(s)
           last == IF id \in Known THEN cursors[id] ELSE NewCursor
           next == Offered(last)
           given == IF taken THEN {e.msg : e \in next} ELSE {}
           passed == Gone \cup IF id \in Known THEN {} ELSE UpTo(ring, last)
<1>1. /\ ring # <<>> /\ io = NoIO /\ (taken => next # {})
      /\ UNCHANGED <<ring, nextSeq, disk, msgs, slotId, io, rebooting>>
  BY DEF syncNext, Idle, link
<1>2. id \in Ids /\ cursors \in Cursors /\ (Known \subseteq Ids) /\ nextSeq \in Nat /\ msgs \in Nat
  BY ClientIdIs DEF SInv, Shapes, Known
<1>3. last \in Int /\ last < nextSeq /\ (id \in Known => last = cursors[id])
  <2>1. NewCursor \in Nat /\ NewCursor < nextSeq
    BY <1>1, NewCursorIs
  <2>2. cursors[id] \in Int /\ cursors[id] < nextSeq
    BY <1>2 DEF SInv, RingInv, Cursors
  <2> QED BY <2>1, <2>2
<1>4. /\ next \subseteq Range(ring)
      /\ \A e \in next : e.seq > last /\ e.seq \in Nat /\ e.seq < nextSeq
      /\ \A e \in next, f \in Range(ring) : f.seq <= e.seq => f.seq <= last \/ f = e
  BY <1>3, OfferedIs
<1>5. PICK seq \in (IF next = {} THEN {last} ELSE {e.seq : e \in next}) :
        cursors' = [cursors EXCEPT ![id] = commitHistoryForClient(taken, last, seq)]
  BY DEF syncNext
<1>6. /\ handed' = [handed EXCEPT ![id] = @ \cup given]
      /\ book' = [book EXCEPT !.dirty.cur = @ \/ cursors' # cursors]
      /\ excused' = [excused EXCEPT ![id] = @ \cup Gone \cup
                       IF id \in Known THEN {} ELSE UpTo(ring, last)]
  BY DEF syncNext
<1>7. given \subseteq Nat /\ passed \subseteq Nat
  <2>1. Range(ring) \subseteq Entries /\ \A e \in Entries : e.msg \in Nat
    BY FilesHave DEF Entries
  <2>2. UpTo(ring, last) \subseteq {e.msg : e \in Range(ring)}
    BY DEF UpTo, Range
  <2>3. Gone \subseteq Nat
    BY <1>2 DEF Gone
  <2>4. \A e \in Range(ring) : e.msg \in Nat
    BY <2>1
  <2>5. given \subseteq Nat
    BY <1>4, <2>4
  <2>6. passed \subseteq Nat
    BY <2>2, <2>3, <2>4
  <2> QED BY <2>5, <2>6
<1>8. excused' = [excused EXCEPT ![id] = @ \cup passed]
  <2>1. excused[id] \cup Gone \cup (IF id \in Known THEN {} ELSE UpTo(ring, last)) = excused[id] \cup passed
    OBVIOUS
  <2> QED BY <1>6, <2>1
<1> DEFINE new == commitHistoryForClient(taken, last, seq)
<1>9. new \in Int /\ new < nextSeq
  BY <1>3, <1>4, <1>5 DEF commitHistoryForClient
<1>10. ASSUME NEW e \in AllEntries, e.seq <= new, ~(e.seq <= cursors[id])
       PROVE  e.msg \in given \cup passed
  <2>1. e.msg \in 1 .. msgs /\ e.seq \in Nat
    BY FilesHave DEF SInv, EntriesInv, Entries
  <2>2. CASE e.msg \notin Held
    BY <2>1, <2>2 DEF Gone
  <2>3. CASE e.msg \in Held
    <3>1. e \in Range(ring)
      <4>1. PICK f \in Range(ring) : e.msg = f.msg
        BY <2>3 DEF Held
      <4>2. f \in AllEntries
        BY DEF AllEntries
      <4> QED BY <4>1, <4>2 DEF SInv, EntriesInv
    <3>2. CASE e.seq <= last
      <4>1. id \notin Known
        BY <1>3, <1>10, <3>2
      <4>2. e.msg \in UpTo(ring, last)
        BY <3>1, <3>2 DEF UpTo, Range
      <4> QED BY <4>1, <4>2
    <3>3. CASE ~(e.seq <= last)
      <4>1. taken /\ next # {}
        BY <1>1, <1>10, <3>3 DEF commitHistoryForClient
      <4>2. PICK f \in next : f.seq = new
        BY <1>5, <4>1 DEF commitHistoryForClient
      <4>3. e = f
        BY <1>4, <1>10, <3>1, <3>3, <4>2
      <4> QED BY <4>1, <4>3
    <3> QED BY <3>2, <3>3
  <2> QED BY <2>2, <2>3
<1> HIDE DEF id, given, passed, new, last, next
<1>11. cursors' = [cursors EXCEPT ![id] = new]
  BY <1>5 DEF new
<1> QED BY <1>1, <1>2, <1>6, <1>7, <1>8, <1>9, <1>10, <1>11, CursorMoves

-----------------------------------------------------------------------------
(* A message that arrives.                                                  *)

NewEntry == [seq |-> nextSeq, msg |-> msgs + 1]
\* How many entries the ring loses to the new one.
Pushed == IF Len(ring) < RingSize THEN 0 ELSE 1

LEMMA RingGrows ==
  ASSUME SInv, ring' = Newest(Append(ring, NewEntry))
  PROVE  /\ ring' \in Seq(Entries) /\ Len(ring') = Len(ring) + 1 - Pushed /\ Len(ring') <= RingSize
         /\ \A i \in 1 .. Len(ring') : \/ i + Pushed \in 1 .. Len(ring) /\ ring'[i] = ring[i + Pushed]
                                       \/ i = Len(ring') /\ i + Pushed = Len(ring) + 1 /\ ring'[i] = NewEntry
         /\ Range(ring') \subseteq Range(ring) \cup {NewEntry}
         /\ Rising(ring') /\ Below(ring', nextSeq + 1)
<1> DEFINE all == Append(ring, NewEntry)
           one == <<NewEntry>>
<1>1. /\ ring \in Seq(Entries) /\ Len(ring) \in Nat /\ Len(ring) <= RingSize /\ Rising(ring)
      /\ Below(ring, nextSeq) /\ nextSeq \in Nat /\ nextSeq + 1 \in Nat /\ RingSize \in Nat
      /\ DOMAIN ring = 1 .. Len(ring)
      /\ \A i \in 1 .. Len(ring) : ring[i].seq \in Nat
  BY FilesHave, RangeIs, SyncAssumption DEF SInv, Shapes
<1>2. NewEntry \in Entries /\ NewEntry.seq = nextSeq
  BY DEF NewEntry, Entries, SInv, Shapes
<1>3. /\ one \in Seq(Entries) /\ Len(one) = 1 /\ one[1] = NewEntry /\ DOMAIN one = 1 .. 1
      /\ all = ring \o one
  BY <1>1, <1>2
<1>4. Rising(one) /\ Below(one, nextSeq + 1) /\ Range(one) = {NewEntry}
  BY <1>1, <1>2, <1>3 DEF Rising, Below, Range
<1>5. Below(ring, nextSeq + 1)
  <2>1. \A i \in 1 .. Len(ring) : ring[i].seq < nextSeq
    BY <1>1 DEF Below
  <2>2. \A i \in 1 .. Len(ring) : ring[i].seq < nextSeq + 1
    BY <1>1, <2>1
  <2> QED BY <1>1, <2>2 DEF Below
<1>6. \A i \in 1 .. Len(ring), k \in 1 .. Len(one) : ring[i].seq < one[k].seq
  BY <1>1, <1>2, <1>3 DEF Below
<1> HIDE DEF one, all
<1>7. /\ all \in Seq(Entries) /\ Len(all) = Len(ring) + 1
      /\ \A i \in 1 .. Len(ring) : all[i] = ring[i]
      /\ all[Len(ring) + 1] = NewEntry
  <2>1. /\ all \in Seq(Entries) /\ Len(all) = Len(ring) + Len(one)
        /\ \A i \in 1 .. Len(ring) : all[i] = ring[i]
        /\ \A i \in 1 .. Len(one) : all[Len(ring) + i] = one[i]
    BY <1>1, <1>3, JoinedIs
  <2> QED BY <1>3, <2>1
<1>8. Rising(all) /\ Below(all, nextSeq + 1) /\ Range(all) \subseteq Range(ring) \cup {NewEntry}
  BY <1>1, <1>3, <1>4, <1>5, <1>6, JoinedRises
<1>9. /\ ring' \in Seq(Entries) /\ Len(ring') = Shorter(Len(all), RingSize) /\ Len(ring') <= RingSize
      /\ \A i \in 1 .. Len(ring') : ring'[i] = all[Len(all) - Len(ring') + i]
      /\ Range(ring') \subseteq Range(all)
  BY <1>7, NewestIs DEF all
<1>10. Len(ring') = Len(ring) + 1 - Pushed
  <2>1. Len(ring') = IF Len(ring) + 1 <= RingSize THEN Len(ring) + 1 ELSE RingSize
    BY <1>7, <1>9 DEF Shorter
  <2>2. CASE Len(ring) < RingSize
    BY <1>1, <2>1, <2>2 DEF Pushed
  <2>3. CASE Len(ring) = RingSize
    BY <1>1, <2>1, <2>3 DEF Pushed
  <2>4. Len(ring) < RingSize \/ Len(ring) = RingSize
    <3>1. Len(ring) \in Nat /\ Len(ring) <= RingSize /\ RingSize \in Nat
      BY <1>1
    <3> QED BY <3>1
  <2> QED BY <2>2, <2>3, <2>4
<1>11. Rising(ring') /\ Below(ring', nextSeq + 1)
  BY <1>1, <1>7, <1>8, NewestRises DEF all
<1>12. ASSUME NEW i \in 1 .. Len(ring')
       PROVE  \/ i + Pushed \in 1 .. Len(ring) /\ ring'[i] = ring[i + Pushed]
              \/ i = Len(ring') /\ i + Pushed = Len(ring) + 1 /\ ring'[i] = NewEntry
  <2>1. Len(all) - Len(ring') + i = i + Pushed /\ i + Pushed \in 1 .. Len(ring) + 1
    BY <1>1, <1>7, <1>10 DEF Pushed
  <2>2. ring'[i] = all[i + Pushed]
    BY <1>9, <2>1
  <2>3. CASE i + Pushed \in 1 .. Len(ring)
    BY <1>7, <2>2, <2>3
  <2>4. CASE i + Pushed = Len(ring) + 1
    <3>1. i = Len(ring')
      BY <1>1, <1>10, <2>4 DEF Pushed
    <3> QED BY <1>7, <2>2, <2>4, <3>1
  <2> QED BY <1>1, <2>1, <2>3, <2>4
<1> QED BY <1>8, <1>9, <1>10, <1>11, <1>12

\* The log lacks one entry more.
LEMMA LogFallsBehind ==
  ASSUME SInv, LogRel, ring' = Newest(Append(ring, NewEntry)), disk' = disk,
         book'.unflushed = IF book.unflushed < RingSize THEN book.unflushed + 1 ELSE book.unflushed
  PROVE  LogRel'
<1> DEFINE recs == RecordsOf(disk["log"].live)
           kept == Len(ring) - Lacking
           new  == Len(ring') - Lacking'
<1>1. /\ Len(ring) \in Nat /\ Len(ring) <= RingSize /\ RingSize \in Nat \ {0} /\ nextSeq \in Nat
      /\ book.unflushed \in 0 .. RingSize /\ recs \in Seq(Entries) /\ Len(recs) \in Nat
      /\ Below(recs, nextSeq) /\ DOMAIN recs = 1 .. Len(recs)
      /\ \A i \in 1 .. Len(recs) : recs[i].seq \in Nat
      /\ \A i \in 1 .. Len(ring) : ring[i].seq \in Nat
  BY FilesHave, LogFilesAre, RangeIs, SyncAssumption DEF LogFine, LogOk, SInv, Shapes
<1>2. /\ ring' \in Seq(Entries) /\ Len(ring') = Len(ring) + 1 - Pushed /\ Len(ring') <= RingSize
      /\ \A i \in 1 .. Len(ring') : \/ i + Pushed \in 1 .. Len(ring) /\ ring'[i] = ring[i + Pushed]
                                    \/ i = Len(ring') /\ i + Pushed = Len(ring) + 1 /\ ring'[i] = NewEntry
  BY RingGrows
<1>3. /\ disk["log"].live.kind = "log" => ~disk["log"].live.torn
      /\ kept <= Len(recs)
      /\ Len(ring) < RingSize => kept = Len(recs)
      /\ \A i \in 1 .. kept : ring[i] = recs[Len(recs) - kept + i]
      /\ \A i \in DOMAIN recs, k \in kept + 1 .. Len(ring) : recs[i].seq < ring[k].seq
  BY DEF LogRel
<1>4. /\ kept \in Nat /\ new \in Nat /\ kept <= Len(ring) /\ new <= Len(ring')
      /\ Lacking' = (IF book'.unflushed < Len(ring') THEN book'.unflushed ELSE Len(ring'))
      /\ new = IF kept < Pushed THEN 0 ELSE kept - Pushed
  <2>1. /\ Lacking' = (IF book'.unflushed < Len(ring') THEN book'.unflushed ELSE Len(ring'))
        /\ Lacking = (IF book.unflushed < Len(ring) THEN book.unflushed ELSE Len(ring))
    BY DEF Lacking
  <2>0. /\ Len(ring) \in Nat /\ Len(ring) <= RingSize /\ RingSize \in Nat \ {0}
        /\ book.unflushed \in Nat /\ book.unflushed <= RingSize
    BY <1>1
  <2>2. CASE Len(ring) < RingSize
    <3>1. Pushed = 0 /\ Len(ring') = Len(ring) + 1
      BY <1>1, <1>2, <2>2 DEF Pushed
    <3>2. CASE book.unflushed < RingSize
      BY <2>0, <2>1, <2>2, <3>1, <3>2
    <3>3. CASE book.unflushed = RingSize
      <4>1. book'.unflushed = RingSize
        BY <2>0, <3>3
      <4>2. Lacking = Len(ring) /\ Lacking' = Len(ring')
        BY <2>0, <2>1, <2>2, <3>1, <3>3, <4>1
      <4> QED BY <2>0, <2>1, <3>1, <4>2
    <3> QED BY <2>0, <3>2, <3>3
  <2>3. CASE Len(ring) = RingSize
    <3>1. Pushed = 1 /\ Len(ring') = Len(ring)
      BY <1>1, <1>2, <2>3 DEF Pushed
    <3>2. CASE book.unflushed < RingSize
      BY <2>0, <2>1, <2>3, <3>1, <3>2
    <3>3. CASE book.unflushed = RingSize
      BY <2>0, <2>1, <2>3, <3>1, <3>3
    <3> QED BY <2>0, <3>2, <3>3
  <2> QED BY <2>0, <2>2, <2>3
<1>5. Pushed \in Nat /\ NewEntry.seq = nextSeq
  BY DEF Pushed, NewEntry
<1> HIDE DEF kept, new
<1>6. new <= Len(recs) /\ (Len(ring') < RingSize => new = Len(recs))
  BY <1>1, <1>2, <1>3, <1>4 DEF Pushed
<1>7. ASSUME NEW i \in 1 .. new PROVE ring'[i] = recs[Len(recs) - new + i]
  <2>1. /\ i \in 1 .. Len(ring') /\ i + Pushed \in 1 .. kept
        /\ Len(recs) - kept + (i + Pushed) = Len(recs) - new + i
    <3>1. /\ kept \in Nat /\ new \in Nat /\ Pushed \in Nat /\ Len(recs) \in Nat /\ Len(ring') \in Nat
          /\ new <= Len(ring')
      BY <1>1, <1>2, <1>4, <1>5
    <3>2. new = kept - Pushed
      BY <1>4, <3>1
    <3> QED BY <3>1, <3>2
  <2>2. ring'[i] = ring[i + Pushed]
    <3>1. ~(i + Pushed = Len(ring) + 1)
      BY <1>1, <1>4, <2>1
    <3> QED BY <1>2, <2>1, <3>1
  <2>3. ring[i + Pushed] = recs[Len(recs) - kept + (i + Pushed)]
    BY <1>3, <2>1
  <2> QED BY <2>1, <2>2, <2>3
<1>8. ASSUME NEW i \in DOMAIN recs, NEW k \in new + 1 .. Len(ring') PROVE recs[i].seq < ring'[k].seq
  <2>1. k \in 1 .. Len(ring') /\ k + Pushed > kept
    BY <1>1, <1>4, <1>5
  <2>2. CASE k + Pushed \in 1 .. Len(ring) /\ ring'[k] = ring[k + Pushed]
    <3>1. k + Pushed \in kept + 1 .. Len(ring)
      BY <1>1, <1>4, <1>5, <2>1, <2>2
    <3> QED BY <1>3, <2>2, <3>1
  <2>3. CASE ring'[k] = NewEntry
    BY <1>1, <1>5, <2>3 DEF Below
  <2> QED BY <1>2, <2>1, <2>2, <2>3
<1> QED BY <1>3, <1>6, <1>7, <1>8 DEF LogRel, new

LEMMA QueueKeeps == ASSUME SInv, queueMessage PROVE SInv'
<1>1. /\ io = NoIO /\ msgs' = msgs + 1 /\ ring' = Newest(Append(ring, NewEntry))
      /\ nextSeq' = nextSeq + 1 /\ UNCHANGED <<handed, slotId, disk, io, rebooting>>
      /\ book' = [book EXCEPT !.unflushed = IF @ < RingSize THEN @ + 1 ELSE @,
                              !.dirty.log = TRUE, !.dirty.cur = @ \/ cursors' # cursors]
  BY DEF queueMessage, Idle, NewEntry, link
<1>2. /\ cursors \in Cursors /\ excused \in [Ids -> SUBSET Nat] /\ handed \in [Ids -> SUBSET Nat]
      /\ nextSeq \in Nat /\ msgs \in Nat /\ disk \in Disks /\ RingSize \in Nat
      /\ book \in [dirty : [log : BOOLEAN, cur : BOOLEAN], unflushed : 0 .. RingSize,
                   fileRecs : Nat, needCompact : BOOLEAN]
  BY SyncAssumption DEF SInv, Shapes, FilesInv
<1>3. \A id \in Ids : cursors[id] \in Int /\ cursors[id] < nextSeq
  BY <1>2 DEF SInv, RingInv, Cursors
<1>4. /\ cursors' \in Cursors /\ excused' \in [Ids -> SUBSET Nat]
      /\ \A id \in Ids : excused[id] \subseteq excused'[id]
      /\ \A id \in Ids : \/ cursors'[id] = cursors[id]
                         \/ cursors'[id] = nextSeq /\ 1 .. msgs + 1 \subseteq excused'[id]
  <2>1. CASE UNCHANGED <<cursors, excused>>
    BY <1>2, <2>1
  <2>2. CASE /\ cursors' = advanceHistoryClientsAfterV3Broadcast(nextSeq)
             /\ excused' = [id \in Ids |-> excused[id] \cup
                              IF Advanced(id, nextSeq) THEN 1 .. msgs + 1 ELSE {}]
    <3>1. 1 .. msgs + 1 \subseteq Nat
      BY <1>2
    <3> QED BY <1>2, <2>2, <3>1 DEF advanceHistoryClientsAfterV3Broadcast, Cursors
  <2> QED BY <1>1, <2>1, <2>2 DEF queueMessage
<1>5. /\ book' = [dirty |-> [log |-> TRUE, cur |-> book.dirty.cur \/ cursors' # cursors],
                  unflushed |-> IF book.unflushed < RingSize THEN book.unflushed + 1 ELSE book.unflushed,
                  fileRecs |-> book.fileRecs, needCompact |-> book.needCompact]
  BY <1>1, <1>2
<1>6. /\ book' \in [dirty : [log : BOOLEAN, cur : BOOLEAN], unflushed : 0 .. RingSize,
                    fileRecs : Nat, needCompact : BOOLEAN]
      /\ book'.dirty.log /\ (~book'.dirty.cur => ~book.dirty.cur /\ cursors' = cursors)
      /\ book'.unflushed = (IF book.unflushed < RingSize THEN book.unflushed + 1 ELSE book.unflushed)
      /\ (MustCompact' <=> MustCompact)
  <2>1. (IF book.unflushed < RingSize THEN book.unflushed + 1 ELSE book.unflushed) \in 0 .. RingSize
    BY <1>2
  <2> HIDE <1>1
  <2> QED BY <1>2, <1>5, <2>1 DEF MustCompact
<1>7. /\ ring' \in Seq(Entries) /\ Len(ring') <= RingSize /\ Range(ring') \subseteq Range(ring) \cup {NewEntry}
      /\ Rising(ring') /\ Below(ring', nextSeq')
  BY <1>1, RingGrows
<1>8. NewEntry.seq = nextSeq /\ NewEntry.msg = msgs + 1
  BY DEF NewEntry
<1>9. AllEntries' \subseteq AllEntries \cup {NewEntry} /\ AllEntries \subseteq Entries
  BY <1>1, <1>7, FilesHave DEF AllEntries
<1>10. \A e \in AllEntries : e.seq \in Nat /\ e.msg \in 1 .. msgs
  BY <1>9 DEF SInv, EntriesInv, Entries
<1>11. EntriesInv'
  <2>1. \A e \in AllEntries' : e.msg \in 1 .. msgs + 1
    BY <1>2, <1>8, <1>9, <1>10
  <2>2. ASSUME NEW e \in AllEntries', NEW f \in AllEntries', e.msg = f.msg PROVE e = f
    <3>1. CASE e \in AllEntries /\ f \in AllEntries
      BY <2>2, <3>1 DEF SInv, EntriesInv
    <3>2. CASE e = NewEntry /\ f \in AllEntries
      BY <1>2, <1>8, <1>10, <2>2, <3>2
    <3>3. CASE e \in AllEntries /\ f = NewEntry
      BY <1>2, <1>8, <1>10, <2>2, <3>3
    <3> QED BY <1>9, <3>1, <3>2, <3>3
  <2> QED BY <1>1, <2>1, <2>2 DEF EntriesInv
<1>12. ASSUME NEW cur, Covered(cur, AllEntries), \A id \in Ids : cur[id] \in Int /\ cur[id] < nextSeq
       PROVE  \A id \in Ids : \A e \in AllEntries' : e.seq <= cur[id] => e.msg \in handed'[id] \cup excused'[id]
  <2> SUFFICES ASSUME NEW id \in Ids, NEW e \in AllEntries', e.seq <= cur[id]
               PROVE  e.msg \in handed'[id] \cup excused'[id]
    OBVIOUS
  <2>1. e # NewEntry
    BY <1>2, <1>8, <1>12
  <2> QED BY <1>1, <1>4, <1>9, <1>12, <2>1 DEF Covered
<1>13. RingInv'
  <2>1. \A id \in Ids : cursors'[id] < nextSeq'
    BY <1>1, <1>2, <1>3, <1>4
  <2>2. ASSUME NEW id \in Ids, NEW e \in AllEntries', e.seq <= cursors'[id]
        PROVE  e.msg \in handed'[id] \cup excused'[id]
    <3>1. CASE cursors'[id] = cursors[id]
      <4>1. Covered(cursors, AllEntries)
        BY DEF SInv, RingInv
      <4> QED BY <1>3, <1>12, <2>2, <3>1, <4>1
    <3>2. CASE 1 .. msgs + 1 \subseteq excused'[id]
      BY <1>1, <1>11, <3>2 DEF EntriesInv
    <3> QED BY <1>4, <3>1, <3>2
  <2> QED BY <1>7, <2>1, <2>2 DEF RingInv, Covered
<1>14. FilesInv'
  <2>1. ASSUME NEW f, CurOk(f)
        PROVE  /\ f \in CurFiles /\ NextOf(f) <= nextSeq' /\ \A id \in Ids : CursorsOf(f)[id] < NextOf(f)
               /\ \A id \in Ids : \A e \in AllEntries' :
                    e.seq <= CursorsOf(f)[id] => e.msg \in handed'[id] \cup excused'[id]
    <3>1. /\ f \in CurFiles /\ NextOf(f) \in Nat /\ NextOf(f) <= nextSeq /\ CursorsOf(f) \in Cursors
          /\ \A id \in Ids : CursorsOf(f)[id] < NextOf(f)
          /\ Covered(CursorsOf(f), AllEntries)
      BY <2>1, CurFilesAre DEF CurOk
    <3>2. \A id \in Ids : CursorsOf(f)[id] \in Int /\ CursorsOf(f)[id] < nextSeq
      BY <1>2, <3>1 DEF Cursors
    <3>3. NextOf(f) <= nextSeq'
      BY <1>1, <1>2, <3>1
    <3> QED BY <1>12, <3>1, <3>2, <3>3
  <2>2. CurOk(disk["cur"].live)' /\ CurOk(disk["cur"].tmp)'
    BY <1>1, <2>1, FilesHave DEF CurOk, Covered
  <2>3. ASSUME NEW f, LogOk(f) PROVE f \in LogFiles /\ Rising(RecordsOf(f)) /\ Below(RecordsOf(f), nextSeq')
    <3>1. RecordsOf(f) \in Seq(Entries)
      BY <2>3, LogFilesAre DEF LogOk
    <3>2. \A i \in DOMAIN RecordsOf(f) : RecordsOf(f)[i].seq \in Nat /\ RecordsOf(f)[i].seq < nextSeq
      BY <2>3, <3>1, RangeIs DEF LogOk, Below
    <3>3. \A i \in DOMAIN RecordsOf(f) : RecordsOf(f)[i].seq < nextSeq'
      BY <1>1, <1>2, <3>2
    <3> QED BY <2>3, <3>3 DEF LogOk, Below
  <2>4. LogOk(disk["log"].live)' /\ LogOk(disk["log"].tmp)'
    BY <1>1, <2>3, FilesHave DEF LogOk, LogFine
  <2> QED BY <1>1, <1>2, <2>2, <2>4 DEF FilesInv
<1>15. Shapes'
  BY <1>1, <1>2, <1>4, <1>6, <1>7 DEF SInv, Shapes
<1>16. JobInv'
  BY <1>1 DEF JobInv, NoIO, Appending
<1>17. LogInv'
  BY <1>1, <1>6, LogFallsBehind DEF SInv, LogInv
<1>18. CleanInv'
  BY <1>1, <1>6 DEF SInv, CleanInv
<1>19. SwapInv'
  BY <1>1 DEF SInv, SwapInv, MustCompact
<1> QED BY <1>11, <1>13, <1>14, <1>15, <1>16, <1>17, <1>18, <1>19 DEF SInv

-----------------------------------------------------------------------------
(* The invariant holds always.                                              *)

LEMMA SInit == Init => SInv
<1> SUFFICES ASSUME Init PROVE SInv
  OBVIOUS
<1>1. RingSize \in Nat \ {0}
  BY SyncAssumption
<1>2. /\ ring = <<>> /\ nextSeq = 0 /\ cursors = NoCursors /\ msgs = 0
      /\ disk["log"].live = NoFile /\ disk["log"].tmp = NoFile
      /\ disk["cur"].live = NoFile /\ disk["cur"].tmp = NoFile
      /\ book = [dirty |-> [log |-> FALSE, cur |-> FALSE], unflushed |-> 0,
                 fileRecs |-> 0, needCompact |-> FALSE]
      /\ io = NoIO /\ rebooting = "no"
  BY DEF Init
<1>3. disk \in Disks
  BY FileKinds DEF Init, Disks, AnyFiles
<1>4. AllEntries = {}
  BY <1>2, FileKinds, NoEntries DEF AllEntries
<1>5. NoCursors \in Cursors /\ \A id \in Ids : NoCursors[id] < 0
  BY DEF NoCursors, Cursors, None
<1>6. Shapes
  <2>1. ring \in Seq(Entries) /\ Len(ring) <= RingSize
    BY <1>1, <1>2, NoEntries
  <2>2. /\ slotId \in [Slots -> NamedApps \cup {Nobody}]
        /\ handed \in [Ids -> SUBSET Nat] /\ excused \in [Ids -> SUBSET Nat]
    BY DEF Init
  <2> QED BY <1>1, <1>2, <1>5, <2>1, <2>2 DEF Shapes
<1>7. FilesInv
  BY <1>2, <1>3, <1>4, <1>5, FileKinds, NoEntries DEF FilesInv, LogOk, CurOk, Covered
<1>8. RingInv
  BY <1>2, <1>4, <1>5, NoEntries DEF RingInv, Covered
<1>9. EntriesInv
  BY <1>4 DEF EntriesInv
<1>10. JobInv
  BY <1>2 DEF JobInv, NoIO, Appending
<1>11. LogInv
  <2>1. Len(ring) = 0 /\ Lacking = 0
    BY <1>2 DEF Lacking
  <2> QED BY <1>2, <2>1, FileKinds DEF LogInv, LogRel
<1>12. CleanInv
  <2>1. BootFile(disk, "log") = NoFile /\ BootFile(disk, "cur") = NoFile
    BY <1>2 DEF BootFile, syncHistRecoverSwap
  <2>2. BootRing(disk) = Newest(Ascending(<<>>))
    BY <2>1, FileKinds DEF BootRing
  <2>3. Ascending(<<>>) = <<>>
    BY NoEntries, RisingIsTaken
  <2>4. Newest(<<>>) = <<>>
    BY <1>1 DEF Newest
  <2> QED BY <1>2, <2>1, <2>2, <2>3, <2>4, FileKinds DEF CleanInv
<1>13. SwapInv
  BY <1>2, FileKinds DEF SwapInv
<1> QED BY <1>6, <1>7, <1>8, <1>9, <1>10, <1>11, <1>12, <1>13 DEF SInv

LEMMA FileKeeps == ASSUME SInv, NEW w \in {"log", "cur"}, File(w) PROVE SInv'
BY TmpOpensKeeps, TmpEndsKeeps, LiveRemovedKeeps, TmpRenamedKeeps DEF File

LEMMA SStep == SInv /\ [Next]_vars => SInv'
<1> SUFFICES ASSUME SInv, [Next]_vars PROVE SInv'
  OBVIOUS
<1>1. CASE \/ \E s \in Slots, a \in Apps : AppStart(s, a)
           \/ \E s \in Slots : Disconnect(s)
           \/ RebootAsked \/ RebootSkips
  BY <1>1, LinkKeeps
<1>2. ASSUME NEW s \in Slots, NEW taken \in BOOLEAN, syncNext(s, taken) PROVE SInv'
  BY <1>2, SyncKeeps
<1>3. CASE queueMessage
  BY <1>3, QueueKeeps
<1>4. CASE Log \/ File("cur")
  BY <1>4, AppendOpensKeeps, AppendEndsKeeps, FileKeeps DEF Log
<1>5. CASE Reboot \/ PowerCut
  BY <1>5, CutKeeps
<1>6. CASE UNCHANGED vars
  <2>1. /\ UNCHANGED <<ring, nextSeq, cursors, handed, excused, msgs, book, disk, io>>
        /\ slotId' \in [Slots -> NamedApps \cup {Nobody}] /\ rebooting' \in {"no", "log", "cur", "go"}
    BY <1>6 DEF vars, mesh, link, history, SInv, Shapes
  <2> QED BY <2>1, AsideKeeps
<1> QED BY <1>1, <1>2, <1>3, <1>4, <1>5, <1>6 DEF Next

\* Ring, cursors, log, cursor file and both .tmp files agree at every moment:
\* the log ends with what is flushed of the ring, a .tmp that replaces its file
\* is what RAM holds, and no file holds a cursor ahead of its messages.
THEOREM RingAndFilesAgree == Spec => []SInv
BY SInit, SStep, PTL DEF Spec

-----------------------------------------------------------------------------
(* What follows of it.                                                      *)

\* No cursor passes over a message of the ring that its id was not given,
\* other than by design, through all failures, reboots and power cuts.
THEOREM NothingElsePassedOverAlways == Spec => []NothingElsePassedOver
<1>1. SInv => NothingElsePassedOver
  <2> SUFFICES ASSUME SInv, NEW id \in Known, NEW m \in UpTo(ring, cursors[id])
               PROVE  m \in handed[id] \cup excused[id]
    BY DEF NothingElsePassedOver
  <2>1. PICK i \in DOMAIN ring : ring[i].seq <= cursors[id] /\ m = ring[i].msg
    BY DEF UpTo
  <2>2. ring[i] \in AllEntries
    BY <2>1 DEF AllEntries, Range
  <2> QED BY <2>1, <2>2 DEF SInv, RingInv, Covered, Known
<1> QED BY <1>1, RingAndFilesAgree, PTL

\* A number is never used again while an entry or a cursor knows it: not in
\* RAM, and not in what the next boot loads.
THEOREM NumbersAscendAlways == Spec => []NumbersAscend
<1>1. SInv => NumbersAscend
  <2> SUFFICES ASSUME SInv PROVE NumbersAscend
    OBVIOUS
  <2>1. Orderly(ring, nextSeq, cursors)
    BY DEF SInv, RingInv, Rising, Below, Orderly
  <2> DEFINE f == BootFile(disk, "log")
             g == BootFile(disk, "cur")
  <2>2. /\ LogFine(f) /\ CurOk(g) /\ RecordsOf(f) \in Seq(Entries)
        /\ BootRing(disk) = Newest(RecordsOf(f))
        /\ BootNext(disk) \in Nat /\ NextOf(g) <= BootNext(disk) /\ Below(RecordsOf(f), BootNext(disk))
        /\ BootCursors(disk) = CursorsOf(g) /\ CursorsOf(g) \in Cursors
    BY FilesHave, BootLoads DEF DiskFine
  <2>3. Rising(BootRing(disk)) /\ Below(BootRing(disk), BootNext(disk))
    BY <2>2, NewestRises DEF LogFine, LogOk
  <2>4. \A id \in Ids : CursorsOf(g)[id] < BootNext(disk)
    <3>1. NextOf(g) \in Nat /\ \A id \in Ids : CursorsOf(g)[id] \in Int /\ CursorsOf(g)[id] < NextOf(g)
      BY <2>2, CurFilesAre DEF CurOk, Cursors
    <3> QED BY <2>2, <3>1
  <2>5. Orderly(BootRing(disk), BootNext(disk), BootCursors(disk))
    BY <2>2, <2>3, <2>4 DEF Rising, Below, Orderly
  <2> QED BY <2>1, <2>5 DEF NumbersAscend
<1> QED BY <1>1, RingAndFilesAgree, PTL

\* When nothing is left to write, a boot loads exactly what RAM holds.
THEOREM CleanIsDurableAlways == Spec => []CleanIsDurable
<1>1. SInv => CleanIsDurable
  <2> SUFFICES ASSUME SInv PROVE CleanIsDurable
    OBVIOUS
  <2>1. BootCursors(disk) = CursorsOf(BootFile(disk, "cur"))
    BY FilesHave, BootLoads DEF DiskFine
  <2> QED BY <2>1 DEF SInv, CleanInv, CleanIsDurable
<1> QED BY <1>1, RingAndFilesAgree, PTL

-----------------------------------------------------------------------------
(* What is logged survives.                                                 *)

LEMMA InNewest ==
  ASSUME NEW s \in Seq(Entries), NEW j \in 1 .. Len(s), j > Len(s) - RingSize
  PROVE  s[j] \in Range(Newest(s))
<1> DEFINE t == Newest(s)
<1>1. /\ t \in Seq(Entries) /\ Len(t) = Shorter(Len(s), RingSize) /\ Len(t) <= Len(s)
      /\ \A i \in 1 .. Len(t) : t[i] = s[Len(s) - Len(t) + i]
  BY NewestIs
<1>2. Len(s) \in Nat /\ RingSize \in Nat /\ Len(t) \in Nat
  BY <1>1, SyncAssumption
<1> HIDE DEF t
<1>3. /\ j - (Len(s) - Len(t)) \in 1 .. Len(t)
      /\ Len(s) - Len(t) + (j - (Len(s) - Len(t))) = j
  <2>1. CASE Len(s) <= RingSize
    BY <1>1, <1>2, <2>1 DEF Shorter
  <2>2. CASE ~(Len(s) <= RingSize)
    BY <1>1, <1>2, <2>2 DEF Shorter
  <2> QED BY <2>1, <2>2
<1>4. t[j - (Len(s) - Len(t))] = s[j]
  BY <1>1, <1>3
<1> QED BY <1>1, <1>3, <1>4, RangeIs DEF t

\* When the log is not only in its .tmp, what a boot loads are its own records.
LEMMA LoadsTheLog ==
  ASSUME SInv, disk["log"].live = NoFile => RecordsOf(disk["log"].tmp) = <<>>
  PROVE  /\ BootRing(disk) = Newest(RecordsOf(disk["log"].live))
         /\ disk["log"].live = NoFile => RecordsOf(disk["log"].live) = <<>> /\ Loadable = {}
<1>1. DiskFine(disk)
  BY FilesHave DEF DiskFine
<1>2. BootRing(disk) = Newest(RecordsOf(BootFile(disk, "log")))
  BY <1>1, BootLoads
<1>3. CASE disk["log"].live # NoFile
  BY <1>2, <1>3 DEF BootFile, syncHistRecoverSwap
<1>4. CASE disk["log"].live = NoFile
  <2>1. BootFile(disk, "log") = disk["log"].tmp /\ RecordsOf(disk["log"].tmp) = <<>>
    BY <1>4 DEF BootFile, syncHistRecoverSwap
  <2>2. BootRing(disk) = Newest(<<>>) /\ RecordsOf(disk["log"].live) = <<>>
    BY <1>2, <1>4, <2>1, FileKinds
  <2>3. Range(Newest(<<>>)) = {}
    BY NoEntries, NewestIs
  <2> QED BY <2>2, <2>3 DEF Loadable
<1> QED BY <1>3, <1>4

\* However short an append is cut, it pushes nothing out of what a boot loads
\* that is still in the ring.
LEMMA PartOfAppend ==
  ASSUME SInv, LogRel, NEW k \in 0 .. Lacking
  PROVE  LET recs == RecordsOf(disk["log"].live)
             part == recs \o SubSeq(Unflushed, 1, k) IN
         {e.msg : e \in Range(Newest(recs))} \cap Held \subseteq {e.msg : e \in Range(Newest(part))}
<1> DEFINE recs == RecordsOf(disk["log"].live)
           v    == SubSeq(Unflushed, 1, k)
           part == recs \o v
           all  == recs \o Unflushed
<1>1. /\ all \in Seq(Entries) /\ Len(all) = Len(recs) + Lacking
      /\ Len(ring) <= Len(all)
      /\ \A i \in 1 .. Len(ring) : ring[i] = all[Len(all) - Len(ring) + i]
  BY JoinedTail
<1>2. Rising(all)
  BY AppendIsFine, <1>1, LogFileIs DEF LogFine, LogOk
<1>3. /\ recs \in Seq(Entries) /\ Len(recs) \in Nat /\ ring \in Seq(Entries) /\ Len(ring) \in Nat
      /\ Unflushed \in Seq(Entries) /\ Len(Unflushed) = Lacking /\ Lacking \in Nat
      /\ Len(ring) <= RingSize /\ RingSize \in Nat /\ Range(recs) \subseteq AllEntries
      /\ Range(ring) \subseteq AllEntries
  BY FilesHave, LogFilesAre, UnflushedIs, SyncAssumption DEF LogFine, LogOk, SInv, Shapes
<1>4. v \in Seq(Entries) /\ Len(v) = k /\ k \in Nat /\ k <= Lacking
  BY <1>3, FrontsIs
<1>5. /\ part \in Seq(Entries) /\ Len(part) = Len(recs) + k
      /\ \A i \in 1 .. Len(recs) : part[i] = recs[i] /\ all[i] = recs[i]
  BY <1>3, <1>4, JoinedIs
<1> HIDE DEF recs, v, part, all
<1>6. ASSUME NEW e \in Range(Newest(recs)), e.msg \in Held
      PROVE  e \in Range(Newest(part))
  <2>1. e \in Range(recs)
    BY <1>3, NewestIs
  <2>2. e \in Range(ring)
    <3>1. PICK f \in Range(ring) : f.msg = e.msg
      BY <1>6 DEF Held
    <3>2. e \in AllEntries /\ f \in AllEntries
      BY <1>3, <2>1
    <3> QED BY <3>1, <3>2 DEF SInv, EntriesInv
  <2>3. PICK j \in 1 .. Len(recs) : e = recs[j]
    BY <1>3, <2>1, RangeIs
  <2>4. PICK i \in 1 .. Len(ring) : e = ring[i]
    BY <1>3, <2>2, RangeIs
  <2> DEFINE at == Len(all) - Len(ring) + i
  <2>5. e = all[j] /\ e = all[at] /\ j \in 1 .. Len(all) /\ at \in 1 .. Len(all)
    <3>1. e = all[j]
      BY <1>5, <2>3
    <3>2. e = all[at]
      BY <1>1, <2>4
    <3>3. Len(recs) \in Nat /\ Lacking \in Nat /\ Len(ring) \in Nat /\ Len(ring) <= Len(all)
          /\ Len(all) = Len(recs) + Lacking
      BY <1>1, <1>3
    <3>4. j \in 1 .. Len(all) /\ at \in 1 .. Len(all)
      BY <3>3
    <3> QED BY <3>1, <3>2, <3>4
  <2> HIDE DEF at
  <2>6. j = at
    <3>1. DOMAIN all = 1 .. Len(all) /\ e.seq \in Nat
      BY <1>1, <2>5, RangeIs
    <3>2. \A a, b \in 1 .. Len(all) : a < b => all[a].seq < all[b].seq
      BY <1>2, <3>1 DEF Rising
    <3>3. ~(j < at) /\ ~(at < j)
      <4>1. ~(e.seq < e.seq)
        BY <3>1
      <4> QED BY <2>5, <3>2, <4>1
    <3>4. j \in Int /\ at \in Int
      BY <2>5
    <3> QED BY <3>3, <3>4
  <2>7. j \in 1 .. Len(part) /\ j > Len(part) - RingSize
    <3>1. /\ Len(recs) \in Nat /\ Lacking \in Nat /\ Len(ring) \in Nat /\ RingSize \in Nat
          /\ Len(ring) <= RingSize /\ Len(all) = Len(recs) + Lacking
          /\ Len(part) = Len(recs) + k /\ k \in Nat /\ k <= Lacking
      BY <1>1, <1>3, <1>4, <1>5
    <3>2. j = Len(all) - Len(ring) + i
      BY <2>6 DEF at
    <3> QED BY <3>1, <3>2
  <2>8. part[j] \in Range(Newest(part))
    BY <1>5, <2>7, InNewest
  <2> QED BY <1>5, <2>3, <2>8
<1>7. {e.msg : e \in Range(Newest(recs))} \cap Held \subseteq {e.msg : e \in Range(Newest(part))}
  BY <1>6
<1> QED BY <1>7 DEF part, v, recs

\* What is loaded of a log that an append left in the middle.
LEMMA CutAppendLoses ==
  ASSUME SInv, io = Appending,
         NEW f \in Cut(disk["log"].live, Unflushed), NEW d, d = [disk EXCEPT !["log"].live = f]
  PROVE  Loadable \cap Held \subseteq {e.msg : e \in Range(BootRing(d))}
<1>1. LogRel /\ (disk["log"].live = NoFile => RecordsOf(disk["log"].tmp) = <<>>)
  BY DEF SInv, JobInv, LogInv, SwapInv, Appending
<1>2. BootRing(disk) = Newest(RecordsOf(disk["log"].live))
  BY <1>1, LoadsTheLog
<1>3. PICK k \in 0 .. Lacking : /\ RecordsOf(f) = RecordsOf(disk["log"].live) \o SubSeq(Unflushed, 1, k)
                                /\ LogFine(f) /\ f # NoFile
  BY <1>1, AppendIsFine
<1>4. DiskFine(d) /\ BootFile(d, "log") = f
  BY <1>3, PutIsFine, FilesHave DEF BootFile, syncHistRecoverSwap, Disks
<1>5. BootRing(d) = Newest(RecordsOf(f))
  BY <1>4, BootLoads
<1> QED BY <1>1, <1>2, <1>3, <1>5, PartOfAppend DEF Loadable

LEMMA BootHolds == ASSUME SInv, NEW d, DiskFine(d), Boot(d) PROVE BootRing(disk') = BootRing(d)
<1>1. BootFile(disk', "log") = BootFile(d, "log")
  BY FileKinds DEF Boot, BootFile, syncHistRecoverSwap
<1> QED BY <1>1 DEF BootRing

LEMMA CutLoses ==
  ASSUME SInv, PowerCut \/ Reboot
  PROVE  Loadable \cap Held \subseteq Loadable'
<1>1. DiskFine(disk)
  BY FilesHave DEF DiskFine
<1>2. CASE Reboot
  <2>1. BootRing(disk') = BootRing(disk)
    BY <1>1, <1>2, BootHolds DEF Reboot
  <2> QED BY <2>1 DEF Loadable
<1>3. CASE PowerCut
  <2>1. PICK d \in CutShort : Boot(d)
    BY <1>3 DEF PowerCut
  <2>2. BootRing(disk') = BootRing(d)
    BY <2>1, CutShortIsFine, BootHolds
  <2>3. Loadable \cap Held \subseteq {e.msg : e \in Range(BootRing(d))}
    <3>1. CASE d = disk
      BY <3>1 DEF Loadable
    <3>2. CASE io = Appending
      <4>1. PICK f \in {disk["log"].live} \cup Cut(disk["log"].live, Unflushed) :
              d = [disk EXCEPT !["log"].live = f]
        BY <2>1, <3>2 DEF CutShort, Appending
      <4>2. CASE f = disk["log"].live
        BY <3>1, <4>1, <4>2, FilesHave DEF Disks
      <4> QED BY <3>2, <4>1, <4>2, CutAppendLoses
    <3>3. CASE io \in {<<"write", "log">>, <<"write", "cur">>}
      <4>0. PICK w \in {"log", "cur"} : io = <<"write", w>>
        BY <3>3
      <4>1. PICK f \in CutContent(w) : d = [disk EXCEPT ![w].tmp = f]
        <5>1. io # Appending /\ io[2] = w
          BY <4>0 DEF Appending
        <5>2. CutShort = {[disk EXCEPT ![w].tmp = f] : f \in CutContent(w)}
          BY <3>3, <5>1 DEF CutShort
        <5> QED BY <2>1, <5>2
      <4>2. CASE w = "cur"
        <5>1. d["log"] = disk["log"]
          BY <4>1, <4>2, FilesHave DEF Disks
        <5> QED BY <5>1 DEF BootRing, BootFile, Loadable
      <4>3. CASE w = "log" /\ disk["log"].live = NoFile
        <5>1. RecordsOf(disk["log"].tmp) = <<>>
          BY <4>0, <4>3 DEF SInv, SwapInv
        <5> QED BY <4>3, <5>1, LoadsTheLog
      <4>4. CASE w = "log" /\ disk["log"].live # NoFile
        <5>1. d["log"].live = disk["log"].live
          BY <3>3, <4>1, FilesHave DEF Disks
        <5>2. BootFile(d, "log") = BootFile(disk, "log")
          BY <4>4, <5>1 DEF BootFile, syncHistRecoverSwap
        <5> QED BY <5>2 DEF BootRing, Loadable
      <4> QED BY <4>2, <4>3, <4>4
    <3> QED BY <2>1, <3>1, <3>2, <3>3 DEF CutShort
  <2> QED BY <2>2, <2>3 DEF Loadable
<1> QED BY <1>2, <1>3

\* The steps of the log, one after another.
LEMMA LogLoses ==
  ASSUME SInv, Log, ~OnlyCopyReopened PROVE Loadable \cap Held' \subseteq Loadable'
<1>1. SInv' /\ disk \in Disks /\ ring' = ring /\ Held' = Held
  BY AppendOpensKeeps, AppendEndsKeeps, FileKeeps, FilesHave
     DEF Log, Held, AppendOpens, AppendEnds, File, TmpOpens, TmpEnds, LiveRemoved, TmpRenamed, Kept, mesh
<1>2. ASSUME ~book'.dirty.log PROVE Held' \subseteq Loadable'
  BY <1>1, <1>2 DEF SInv, CleanInv, Held, Loadable
<1>3. ASSUME BootFile(disk', "log") = BootFile(disk, "log") PROVE Loadable' = Loadable
  BY <1>3 DEF Loadable, BootRing
<1>4. CASE AppendOpens
  <2>1. io = NoIO /\ ~MustCompact
    BY <1>4 DEF AppendOpens, MayStart
  <2>2. CASE disk["log"].live = NoFile
    <3>1. RecordsOf(disk["log"].tmp) = <<>>
      BY <2>1, <2>2 DEF SInv, SwapInv, NoIO
    <3> QED BY <2>2, <3>1, LoadsTheLog
  <2>3. CASE disk["log"].live # NoFile
    <3>1. disk' = disk
      BY <1>1, <1>4, <2>3 DEF AppendOpens, Disks
    <3> QED BY <1>3, <3>1
  <2> QED BY <2>2, <2>3
<1>5. CASE AppendEnds
  <2>1. CASE book' = [book EXCEPT !.dirty.log = FALSE, !.unflushed = 0, !.fileRecs = @ + Len(Unflushed)]
    <3>1. ~book'.dirty.log
      BY <2>1 DEF SInv, Shapes
    <3> QED BY <1>2, <3>1
  <2>2. CASE \E f \in Cut(disk["log"].live, Unflushed) : disk' = [disk EXCEPT !["log"].live = f]
    <3>1. io = Appending
      BY <1>5 DEF AppendEnds
    <3> QED BY <1>1, <2>2, <3>1, CutAppendLoses DEF Loadable
  <2> QED BY <1>5, <2>1, <2>2 DEF AppendEnds
<1>6. CASE TmpOpens("log") \/ TmpEnds("log")
  <2>1. disk["log"].live = NoFile => RecordsOf(disk["log"].tmp) = <<>>
    <3>1. CASE TmpOpens("log")
      BY <3>1, FileKinds DEF OnlyCopyReopened
    <3>2. CASE TmpEnds("log")
      BY <3>2 DEF TmpEnds, SInv, SwapInv
    <3> QED BY <1>6, <3>1, <3>2
  <2>2. disk'["log"].live = disk["log"].live
    BY <1>1, <1>6 DEF TmpOpens, TmpEnds, Disks
  <2>3. CASE disk["log"].live = NoFile
    BY <2>1, <2>3, LoadsTheLog
  <2>4. CASE disk["log"].live # NoFile
    BY <1>3, <2>2, <2>4 DEF BootFile, syncHistRecoverSwap
  <2> QED BY <2>3, <2>4
<1>7. CASE LiveRemoved("log")
  <2>1. CASE disk' = disk
    BY <1>3, <2>1
  <2>2. CASE disk' = [disk EXCEPT !["log"].live = NoFile]
    <3>1. disk["log"].tmp = Content("log")
      BY <1>7 DEF LiveRemoved, SInv, JobInv
    <3>2. BootFile(disk', "log") = LogFile(ring, FALSE)
      BY <1>1, <2>2, <3>1 DEF BootFile, syncHistRecoverSwap, Disks, Content
    <3>3. ring \in Seq(Entries) /\ Rising(ring) /\ Len(ring) <= RingSize
      BY FilesHave DEF SInv, Shapes
    <3>4. BootRing(disk') = ring
      BY <3>2, <3>3, LogFileIs, RisingIsTaken DEF BootRing, Newest
    <3> QED BY <1>1, <3>4 DEF Held, Loadable
  <2> QED BY <1>7, <2>1, <2>2 DEF LiveRemoved
<1>8. CASE TmpRenamed("log")
  <2>1. CASE book' = Swapped("log")
    <3>1. ~book'.dirty.log
      BY <2>1 DEF Swapped, SInv, Shapes
    <3> QED BY <1>2, <3>1
  <2>2. CASE UNCHANGED disk
    BY <1>3, <2>2
  <2> QED BY <1>8, <2>1, <2>2 DEF TmpRenamed
<1> QED BY <1>4, <1>5, <1>6, <1>7, <1>8 DEF Log, File

LEMMA NothingLost ==
  ASSUME SInv, [Next]_vars, ~OnlyCopyReopened
  PROVE  StaysLoadable
<1> USE DEF StaysLoadable
<1>1. ASSUME disk' = disk \/ (disk \in Disks /\ disk'["log"] = disk["log"])
      PROVE  Loadable' = Loadable
  BY <1>1 DEF Loadable, BootRing, BootFile
<1>2. CASE PowerCut \/ Reboot
  BY <1>2, CutLoses
<1>3. CASE Log /\ ~(PowerCut \/ Reboot)
  BY <1>3, LogLoses
<1>4. CASE ~(PowerCut \/ Reboot) /\ File("cur")
  <2>1. disk \in Disks
    BY FilesHave
  <2>2. disk' = disk \/ disk'["log"] = disk["log"]
    BY <1>4, <2>1 DEF File, TmpOpens, TmpEnds, LiveRemoved, TmpRenamed, Disks
  <2> QED BY <1>1, <1>4, <2>1, <2>2
<1>5. CASE /\ ~(PowerCut \/ Reboot)
           /\ \/ \E s \in Slots, a \in Apps : AppStart(s, a)
              \/ \E s \in Slots : Disconnect(s)
              \/ \E s \in Slots, taken \in BOOLEAN : syncNext(s, taken)
              \/ queueMessage \/ RebootAsked \/ RebootSkips
              \/ UNCHANGED vars
  <2>1. disk' = disk
    BY <1>5 DEF AppStart, Disconnect, syncNext, queueMessage, RebootAsked, RebootSkips, vars
  <2> QED BY <1>1, <1>5, <2>1
<1> QED BY <1>2, <1>3, <1>4, <1>5 DEF Next

\* A message that is in the log stays loadable at every point of every append
\* and rewrite, and through every cut and reboot, for as long as the ring holds
\* it; only a rewrite that opens the .tmp a failed rename has left as the only
\* copy loses it.
THEOREM LoggedStaysAlways == Spec => LoggedStays
<1>1. SInv /\ [Next]_vars => [~OnlyCopyReopened => StaysLoadable]_vars
  BY NothingLost
<1> QED BY <1>1, RingAndFilesAgree, PTL DEF Spec, LoggedStays
===============================================================================
