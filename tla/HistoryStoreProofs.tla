-------------------------- MODULE HistoryStoreProofs --------------------------
(***************************************************************************)
(* Proofs about HistoryStore, for a ring and segments of every size and    *)
(* any number of events.                                                   *)
(*                                                                         *)
(* HInvariant, the inductive invariant, relates three copies of the        *)
(* history: the ring in memory, the files on the card, and the index the   *)
(* loop task keeps of them (the table and its watermark).  When no work is *)
(* out they agree (Book); while the worker or the loop task's own drain is *)
(* part way, the entries between agree with what the job will have written *)
(* (Planned, Landed).  Every action is shown to keep it, and the promises  *)
(* of HistoryStore follow from it (Promises).                              *)
(*                                                                         *)
(* The deleted messages have an invariant of their own (BuryInv): one that *)
(* still stands in a file stands where a rewrite is flagged or under way.  *)
(*                                                                         *)
(* The theorems have two hypotheses: Steady on the constants, Undisturbed  *)
(* on the history so far.  Each is stated where it is defined.  A cut at   *)
(* any step, inside a record too, is in; what follows a boot from a split  *)
(* record is not: there the code does not keep the promises.               *)
(***************************************************************************)
EXTENDS HistoryStore, FiniteSetTheorems, NaturalsInduction, TLAPS

Records  == [seq : Nat \ {0}, live : BOOLEAN, acked : BOOLEAN]

-----------------------------------------------------------------------------
(* Sets of numbers and of records.                                          *)

(* A set of numbers that is not empty has a least element.                  *)
LEMMA LeastOf == ASSUME NEW D \in SUBSET Nat, D # {}
                 PROVE  \E m \in D : \A k \in D : m <= k
<1>1. PICK m \in D : \A k \in D : <<k, m>> \notin OpToRel(<, Nat)
  BY WFMin, NatLessThanWellFounded, Zenon
<1>2. \A k \in D : ~(k < m)
  BY <1>1, Zenon DEF OpToRel
<1> QED BY <1>2

(* The smallest element of a set of numbers is one of them.                 *)
LEMMA MinOf == ASSUME NEW S \in SUBSET Nat, S # {}
               PROVE  Min(S) \in S /\ \A x \in S : Min(S) <= x
<1>1. \E m \in S : \A k \in S : m <= k
  BY LeastOf
<1> QED BY <1>1 DEF Min

(* So is the largest, when they are bounded.                                *)
LEMMA MaxOf == ASSUME NEW n \in Nat, NEW S \in SUBSET (0..n), S # {}
               PROVE  Max(S) \in S /\ \A x \in S : x <= Max(S)
<1> DEFINE D == {n - x : x \in S}
<1>1. D \in SUBSET Nat /\ D # {}
  OBVIOUS
<1>2. PICK d \in D : \A e \in D : d <= e
  BY <1>1, LeastOf
<1>3. PICK m \in S : d = n - m
  BY <1>2
<1>4. \A x \in S : x <= m
  <2> TAKE x \in S
  <2>1. d <= n - x
    BY <1>2
  <2> QED BY <1>3, <2>1
<1> HIDE DEF D
<1>5. \E y \in S : \A x \in S : y >= x
  BY <1>4
<1>6. Max(S) \in S /\ \A x \in S : Max(S) >= x
  BY <1>5 DEF Max
<1> QED BY <1>6

(* What is bounded is finite, and a part of it is not larger.               *)
LEMMA Part == ASSUME NEW n \in Nat, NEW T \in SUBSET (0..n), NEW S \in SUBSET T
              PROVE  /\ IsFiniteSet(S) /\ Cardinality(S) \in Nat /\ Cardinality(T) \in Nat
                     /\ Cardinality(S) <= Cardinality(T)
<1>1. IsFiniteSet(0..n)
  BY FS_Interval
<1>2. IsFiniteSet(T)
  BY <1>1, FS_Subset
<1>3. IsFiniteSet(S) /\ Cardinality(S) <= Cardinality(T)
  BY <1>2, FS_Subset
<1> QED BY <1>2, <1>3, FS_CardinalityType

(* Sequence numbers start at one.                                           *)
LEMMA SeqsOf == ASSUME NEW M \in SUBSET Records
                PROVE  Seqs(M) \in SUBSET (Nat \ {0}) /\ \A m \in M : m.seq \in Seqs(M)
BY DEF Seqs, Records

(* Fewer than c numbers lie below the least of S, so S has at most c ...    *)
LEMMA RankBound ==
  ASSUME NEW n \in Nat, NEW T \in SUBSET (0..n), NEW S \in SUBSET T, NEW c \in Nat,
         \A q \in S : Cardinality({x \in T : x < q}) < c
  PROVE  Cardinality(S) <= c
<1> DEFINE low(q) == {x \in T : x < q}
<1>0. /\ \A q \in S : Cardinality(low(q)) < c
      /\ \A q \in S : IsFiniteSet(low(q)) /\ Cardinality(low(q)) \in Nat
  BY Part
<1>1. CASE S = {}
  BY <1>1, FS_EmptySet
<1>2. CASE S # {}
  <2>1. Max(S) \in S /\ \A x \in S : x <= Max(S)
    BY <1>2, MaxOf
  <2> DEFINE top == Max(S)
           B == low(top)
  <2>3. top \in S /\ (\A x \in S : x <= top) /\ S \subseteq Nat /\ top \in Nat
    <3>1. top \in S /\ \A x \in S : x <= top
      BY <2>1
    <3> HIDE DEF top
    <3>2. \A x \in S : x \in 0..n
      OBVIOUS
    <3>3. S \subseteq Nat
      BY <3>2
    <3> QED BY <3>1, <3>3
  <2> HIDE DEF top
  <2>4. S \subseteq B \cup {top}
    <3> SUFFICES ASSUME NEW x \in S, x # top PROVE x \in B
      OBVIOUS
    <3>1. x \in Nat /\ top \in Nat /\ x <= top /\ x \in T
      BY <2>3
    <3>2. x < top
      BY <3>1
    <3> QED BY <3>1, <3>2
  <2> HIDE DEF low
  <2>2. IsFiniteSet(B) /\ Cardinality(B) \in Nat /\ Cardinality(B) < c
    BY <1>0, <2>3
  <2> HIDE DEF B
  <2> DEFINE E == B \cup {top}
  <2>5. IsFiniteSet(E) /\ (Cardinality(E) = Cardinality(B) \/ Cardinality(E) = Cardinality(B) + 1)
    <3>1. \A x : /\ IsFiniteSet(B \cup {x})
                 /\ Cardinality(B \cup {x}) =
                      IF x \in B THEN Cardinality(B) ELSE Cardinality(B) + 1
      BY <2>2, FS_AddElement
    <3> QED BY <3>1
  <2>6. Cardinality(S) <= Cardinality(E) /\ Cardinality(S) \in Nat
    <3>1. S \subseteq E
      BY <2>4
    <3> HIDE DEF E
    <3>2. Cardinality(S) <= Cardinality(E)
      BY <3>1, <2>5, FS_Subset
    <3>3. Cardinality(S) \in Nat
      BY Part
    <3> QED BY <3>2, <3>3
  <2>7. Cardinality(E) \in Nat
    BY <2>5, FS_CardinalityType
  <2> HIDE DEF E
  <2> QED BY <2>2, <2>5, <2>6, <2>7
<1> QED BY <1>1, <1>2

(* ... and so has it when fewer than c lie above each.                      *)
LEMMA RankBoundAbove ==
  ASSUME NEW n \in Nat, NEW T \in SUBSET (0..n), NEW S \in SUBSET T, NEW c \in Nat,
         \A q \in S : Cardinality({x \in T : x > q}) < c
  PROVE  Cardinality(S) <= c
<1> DEFINE high(q) == {x \in T : x > q}
<1>0. /\ \A q \in S : Cardinality(high(q)) < c
      /\ \A q \in S : IsFiniteSet(high(q)) /\ Cardinality(high(q)) \in Nat
  BY Part
<1>1. CASE S = {}
  BY <1>1, FS_EmptySet
<1>2. CASE S # {}
  <2>1. Min(S) \in S /\ \A x \in S : Min(S) <= x
    BY <1>2, MinOf
  <2> DEFINE top == Min(S)
           B == high(top)
  <2>3. top \in S /\ (\A x \in S : top <= x) /\ S \subseteq Nat /\ top \in Nat
    <3>1. top \in S /\ \A x \in S : top <= x
      BY <2>1
    <3> HIDE DEF top
    <3>2. \A x \in S : x \in 0..n
      OBVIOUS
    <3>3. S \subseteq Nat
      BY <3>2
    <3> QED BY <3>1, <3>3
  <2> HIDE DEF top
  <2>4. S \subseteq B \cup {top}
    <3> SUFFICES ASSUME NEW x \in S, x # top PROVE x \in B
      OBVIOUS
    <3>1. x \in Nat /\ top \in Nat /\ top <= x /\ x \in T
      BY <2>3
    <3>2. x > top
      BY <3>1
    <3> QED BY <3>1, <3>2
  <2> HIDE DEF high
  <2>2. IsFiniteSet(B) /\ Cardinality(B) \in Nat /\ Cardinality(B) < c
    BY <1>0, <2>3
  <2> HIDE DEF B
  <2> DEFINE E == B \cup {top}
  <2>5. IsFiniteSet(E) /\ (Cardinality(E) = Cardinality(B) \/ Cardinality(E) = Cardinality(B) + 1)
    <3>1. \A x : /\ IsFiniteSet(B \cup {x})
                 /\ Cardinality(B \cup {x}) =
                      IF x \in B THEN Cardinality(B) ELSE Cardinality(B) + 1
      BY <2>2, FS_AddElement
    <3> QED BY <3>1
  <2>6. Cardinality(S) <= Cardinality(E) /\ Cardinality(S) \in Nat
    <3>1. S \subseteq E
      BY <2>4
    <3> HIDE DEF E
    <3>2. Cardinality(S) <= Cardinality(E)
      BY <3>1, <2>5, FS_Subset
    <3>3. Cardinality(S) \in Nat
      BY Part
    <3> QED BY <3>2, <3>3
  <2>7. Cardinality(E) \in Nat
    BY <2>5, FS_CardinalityType
  <2> HIDE DEF E
  <2> QED BY <2>2, <2>5, <2>6, <2>7
<1> QED BY <1>1, <1>2

(* The oldest c records: at most c, none passed over, all when they fit.    *)
LEMMA OldestOf ==
  ASSUME NEW n \in Nat, NEW M \in SUBSET Records, Seqs(M) \subseteq 0..n, NEW c \in Nat
  PROVE  /\ Oldest(M, c) \subseteq M /\ Count(Oldest(M, c)) <= c
         /\ \A x \in Oldest(M, c), y \in M : y.seq <= x.seq => y \in Oldest(M, c)
         /\ Count(M) <= c => Oldest(M, c) = M
         /\ c > 0 /\ M # {} => Oldest(M, c) # {}
<1> DEFINE O == Oldest(M, c)
           T == Seqs(M)
           low(q) == {x \in T : x < q}
<1>0. O = {m \in M : Cardinality(low(m.seq)) < c} /\ T \in SUBSET (0..n)
  BY DEF Oldest
<1>1. O \subseteq M /\ Seqs(O) \in SUBSET T
  BY <1>0 DEF Seqs
<1>2. \A q \in Seqs(O) : Cardinality(low(q)) < c
  BY <1>0 DEF Seqs
<1>3. Cardinality(Seqs(O)) <= c
  BY <1>0, <1>1, <1>2, RankBound
<1>4. \A x \in O, y \in M : y.seq <= x.seq => y \in O
  <2> SUFFICES ASSUME NEW x \in O, NEW y \in M, y.seq <= x.seq PROVE y \in O
    OBVIOUS
  <2>1. x.seq \in T /\ y.seq \in T /\ x.seq \in Nat /\ y.seq \in Nat
    BY <1>1, SeqsOf
  <2>2. low(y.seq) \in SUBSET low(x.seq) /\ low(x.seq) \in SUBSET (0..n)
    BY <1>0, <2>1
  <2> HIDE DEF low
  <2>3. Cardinality(low(y.seq)) <= Cardinality(low(x.seq)) /\ Cardinality(low(x.seq)) \in Nat
        /\ Cardinality(low(y.seq)) \in Nat
    BY <2>2, Part
  <2> QED BY <1>0, <2>3
<1>5. ASSUME Count(M) <= c PROVE O = M
  <2> SUFFICES ASSUME NEW m \in M PROVE Cardinality(low(m.seq)) < c
    BY <1>0
  <2>1. m.seq \in T /\ m.seq \in Nat
    BY SeqsOf
  <2>2. low(m.seq) \in SUBSET (T \ {m.seq})
    BY <2>1
  <2>3. IsFiniteSet(T) /\ Cardinality(T) \in Nat
    BY <1>0, Part
  <2>4. IsFiniteSet(T \ {m.seq}) /\ Cardinality(T \ {m.seq}) = Cardinality(T) - 1
    BY <2>1, <2>3, FS_RemoveElement
  <2> HIDE DEF low
  <2>5. Cardinality(low(m.seq)) <= Cardinality(T) - 1 /\ Cardinality(low(m.seq)) \in Nat
    BY <2>2, <2>4, FS_Subset, FS_CardinalityType
  <2> QED BY <1>5, <2>3, <2>5 DEF Count
<1>6. ASSUME c > 0, M # {} PROVE O # {}
  <2>1. T # {} /\ T \in SUBSET Nat
    BY <1>6, SeqsOf
  <2>2. Min(T) \in T /\ \A x \in T : Min(T) <= x
    BY <2>1, MinOf
  <2>3. PICK m \in M : m.seq = Min(T)
    BY <2>2 DEF Seqs
  <2>4. low(m.seq) = {}
    BY <2>1, <2>2, <2>3
  <2> HIDE DEF low
  <2> QED BY <1>0, <1>6, <2>4, FS_EmptySet
<1> QED BY <1>1, <1>3, <1>4, <1>5, <1>6 DEF Count

(* The newest c records: what is dropped is older than all that is kept.    *)
LEMMA NewestOf ==
  ASSUME NEW n \in Nat, NEW M \in SUBSET Records, Seqs(M) \subseteq 0..n, NEW c \in Nat
  PROVE  /\ Newest(M, c) \subseteq M /\ Count(Newest(M, c)) <= c
         /\ \A x \in Newest(M, c), y \in M : y.seq >= x.seq => y \in Newest(M, c)
<1> DEFINE O == Newest(M, c)
           T == Seqs(M)
           high(q) == {x \in T : x > q}
<1>0. O = {m \in M : Cardinality(high(m.seq)) < c} /\ T \in SUBSET (0..n)
  BY DEF Newest
<1>1. O \subseteq M /\ Seqs(O) \in SUBSET T
  BY <1>0 DEF Seqs
<1>2. \A q \in Seqs(O) : Cardinality(high(q)) < c
  BY <1>0 DEF Seqs
<1>3. Cardinality(Seqs(O)) <= c
  BY <1>0, <1>1, <1>2, RankBoundAbove
<1>4. \A x \in O, y \in M : y.seq >= x.seq => y \in O
  <2> SUFFICES ASSUME NEW x \in O, NEW y \in M, y.seq >= x.seq PROVE y \in O
    OBVIOUS
  <2>1. x.seq \in T /\ y.seq \in T /\ x.seq \in Nat /\ y.seq \in Nat
    BY <1>1, SeqsOf
  <2>2. high(y.seq) \in SUBSET high(x.seq) /\ high(x.seq) \in SUBSET (0..n)
    BY <1>0, <2>1
  <2> HIDE DEF high
  <2>3. Cardinality(high(y.seq)) <= Cardinality(high(x.seq)) /\ Cardinality(high(x.seq)) \in Nat
        /\ Cardinality(high(y.seq)) \in Nat
    BY <2>2, Part
  <2> QED BY <1>0, <2>3
<1> QED BY <1>1, <1>3, <1>4 DEF Count

-----------------------------------------------------------------------------
(* The inductive invariant.  Its parts take what they speak of as arguments:*)
(* the ring R or the live sequence numbers L, the newest number n, the      *)
(* files F, the table t, the watermark w, and x, the one segment whose file *)
(* may be ahead of its entry (0 for none).                                  *)

Entries  == [last : Nat, disk : Nat, live : Nat, dirty : BOOLEAN, open : BOOLEAN]
Tables   == UNION {[D -> Entries] : D \in SUBSET Nat}
Jobs     == [kind : {"none", "append", "compact"}, first : Nat, last : Nat,
             create : BOOLEAN, repair : BOOLEAN, recs : SUBSET Records]
Segments == [hdr : BOOLEAN, recs : SUBSET Records, count : Nat, ragged : BOOLEAN]
Tasks    == [table : Tables, flushed : Nat, resync : {FALSE}, purge : {FALSE},
             dirty : BOOLEAN, ready : {TRUE}, job : Jobs, redirty : BOOLEAN]
Drains   == [pc : {"idle", "wait", "build", "write", "off"},
             from : {"none", "flush", "persist", "reboot"}, left : Nat, job : Jobs,
             failed : BOOLEAN]
Uses     == [deletes : Nat, acks : Nat, persists : Nat, reboots : Nat, remounts : Nat,
             workerFails : Nat, syncFails : Nat, powerCuts : Nat,
             late : SUBSET Nat, stray : BOOLEAN, odd : BOOLEAN]
LiveSeqs == Seqs(Live(ring))

RingInv(R, n) ==
  /\ R \subseteq Records /\ n \in Nat
  /\ \A m \in R : m.seq <= n
  /\ Count(R) <= RingCap

(* What a file or a batch holds the ring holds too, or has lost for good.   *)
Past(R, q)     == q \in Seqs(R) \/ \A m \in R : q < m.seq
Known(R, n, M) == \A x \in M : x.seq <= n /\ Past(R, x.seq)

OneFile(R, n, k, f) ==
  /\ f \in Segments /\ Known(R, n, f.recs)
  /\ \A x \in f.recs : k <= x.seq
  /\ MaxWorkerFails = 0 =>
       ~f.ragged /\ f.count = Count(f.recs) /\ Count(f.recs) <= SegRecords
FilesInv(R, n, F) ==
  /\ DOMAIN F \subseteq 1..n /\ F = [k \in DOMAIN F |-> F[k]]
  /\ Cardinality(DOMAIN F) <= SegMax
  /\ \A k \in DOMAIN F : OneFile(R, n, k, F[k])
  /\ \A k, e \in DOMAIN F : k < e => \A x \in F[k].recs : x.seq < e

OnCard(F, k, q) == k \in DOMAIN F /\ F[k].hdr /\ q \in Seqs(F[k].recs)
Exact(F, k, c)  == k \in DOMAIN F /\ F[k].hdr /\ ~F[k].ragged /\ F[k].count = c

TableInv(L, n, t, w) ==
  /\ w \in 0..n /\ DOMAIN t \subseteq 1..n /\ t \in [DOMAIN t -> Entries]
  /\ Cardinality(DOMAIN t) <= SegMax
  /\ \A k \in DOMAIN t :
       /\ t[k].disk <= SegRecords /\ t[k].last <= w
       /\ Cardinality({q \in L : q \in k..t[k].last}) <= t[k].disk
  /\ \A k, e \in DOMAIN t : k < e => t[k].last < e

(* Each live message up to the watermark has a segment, and its file.       *)
CoverInv(L, F, t, w) == \A q \in L : q <= w =>
  \E k \in DOMAIN t :
    /\ q \in k..t[k].last
    /\ OnCard(F, k, q) \/ (MaxWorkerFails # 0 /\ (t[k].dirty \/ t[k].open))

BelowInv(F, t, w, r, x) == \A k \in DOMAIN t : k # x =>
  /\ k <= w
  /\ ~t[k].open /\ k # r /\ k \in DOMAIN F => \A m \in F[k].recs : m.seq <= w

TrustInv(F, t, r, x) == \A k \in DOMAIN t :
  ~t[k].open /\ k # r /\ k # x /\ (MaxWorkerFails # 0 => ~t[k].dirty)
    => Exact(F, k, t[k].disk)

SpanInv(F, t) == \A k \in DOMAIN F, e \in DOMAIN t : k < e =>
  \A m \in F[k].recs : m.seq < e

Book(L, n, F, t, w, r, x) ==
  /\ TableInv(L, n, t, w) /\ CoverInv(L, F, t, w)
  /\ BelowInv(F, t, w, r, x) /\ TrustInv(F, t, r, x) /\ SpanInv(F, t)

Shape(R, n, j) ==
  /\ j \in Jobs /\ j.first \in 1..n /\ j.last <= n
  /\ Known(R, n, j.recs) /\ Count(j.recs) <= SegRecords
  /\ \A x \in j.recs : x.seq \in j.first..j.last

AppendPlan(L, t, w, j) ==
  /\ j.kind = "append" /\ j.recs # {} /\ w < j.last
  /\ \A x \in j.recs : w < x.seq
  /\ \A q \in L : w < q /\ q <= j.last => q \in Seqs(j.recs)
  /\ \A k \in DOMAIN t : ~t[k].open
  /\ j.create => /\ w < j.first /\ j.first \notin DOMAIN t
                 /\ Cardinality(DOMAIN t) < SegMax /\ Creates(t)
                 /\ \A q \in L : w < q => j.first <= q
  /\ ~j.create => /\ j.first \in DOMAIN t /\ j.first <= w /\ \A k \in DOMAIN t : k <= j.first
                  /\ t[j.first].disk + Count(j.recs) <= SegRecords
RewritePlan(L, t, w, j) ==
  /\ j.kind = "compact" /\ j.first \in DOMAIN t
  /\ \A q \in L : q \in j.first..t[j.first].last => q \in Seqs(j.recs)
  /\ \A k \in DOMAIN t : j.first < k => j.last < k
  /\ j.repair => \A q \in L : w < q /\ q <= j.last => q \in Seqs(j.recs)
  /\ ~j.repair => j.last <= w
Plan(L, t, w, j) ==
  \/ AppendPlan(L, t, w, j)
  \/ /\ RewritePlan(L, t, w, j) /\ ~j.create /\ j.first <= w
     /\ t[j.first].dirty \/ t[j.first].open

(* What the file of a job is once the job is done.                          *)
Landed(F, t, j) ==
  /\ j.kind = "compact" =>
       IF j.recs = {} THEN j.first \notin DOMAIN F
       ELSE j.first \in DOMAIN F /\ F[j.first] = NewFile(j.recs)
  /\ j.kind = "append" /\ j.create =>
       j.first \in DOMAIN F /\ F[j.first] = NewFile(j.recs)
  /\ j.kind = "append" /\ ~j.create /\ (MaxWorkerFails # 0 => ~t[j.first].dirty) =>
       /\ Exact(F, j.first, t[j.first].disk + Count(j.recs))
       /\ Seqs(j.recs) \subseteq Seqs(F[j.first].recs)
  /\ j.kind = "append" /\ j.first \in DOMAIN F =>
       \A m \in F[j.first].recs : m.seq <= j.last

Done  == h.job.kind # "none" /\ worker \in {"finishing", "idle"}
Ahead == IF Done /\ flushOk THEN h.job.first ELSE drain.job.first

JobInv ==
  /\ worker \in {"queued", "running"} => h.job.kind # "none"
  /\ h.job.kind = "none" => h.job = NoJob
  /\ h.job.kind # "none" =>
       /\ Shape(ring, latest, h.job) /\ Plan(LiveSeqs, h.table, h.flushed, h.job)
       /\ ~Done \/ flushOk => repair = 0
       /\ Done /\ flushOk => Landed(files, h.table, h.job)

(* The file of a create whose outcome was never seen: the next append, the  *)
(* first thing the drain does, creates the same segment again.              *)
Astray(s, k) ==
  /\ k \in LiveSeqs /\ s.flushed < k /\ \A q \in LiveSeqs : s.flushed < q => k <= q
  /\ Creates(s.table) /\ Cardinality(DOMAIN s.table) < SegMax
  /\ \A e \in DOMAIN s.table : ~s.table[e].open /\ e # repair
Stray(k) == drain.pc = "build" /\ drain.left > 0 /\ Astray(h, k)
StrayInv == \A k \in DOMAIN files \ DOMAIN h.table :
  \/ Done /\ flushOk /\ h.job.kind = "append" /\ h.job.create /\ k = h.job.first
  \/ Stray(k)

DrainInv ==
  /\ drain.pc \in {"build", "write"} => worker = "idle" /\ h.job = NoJob
  /\ drain.pc = "wait" => worker # "queued" /\ drain.from \in {"persist", "reboot"}
  /\ drain.pc = "write" =>
       /\ Shape(ring, latest, drain.job) /\ RewritePlan(LiveSeqs, h.table, h.flushed, drain.job)
       /\ repair = 0
  /\ drain.pc # "write" => drain.job = NoJob

OffInv ==
  /\ CutKeepsDurable
  /\ drain.from = "reboot" /\ ~drain.failed => \A m \in Live(ring) : Restores(m.seq)

Calm ==
  /\ marker = TRUE /\ used \in Uses /\ used.syncFails = 0
  /\ worker \in {"idle", "queued", "running", "finishing"} /\ flushOk \in BOOLEAN
  /\ repair \in Nat /\ drain \in Drains /\ h \in Tasks
  /\ MaxWorkerFails = 0 => flushOk /\ repair = 0
  /\ ~Powered \/ drain.from = "reboot" => MaxWorkerFails = 0

HInvariant ==
  /\ RingInv(ring, latest) /\ Calm
  /\ Powered \/ Orderly => FilesInv(ring, latest, files)
  /\ Powered => /\ ~h.dirty => latest <= h.flushed
                /\ Book(LiveSeqs, latest, files, h.table, h.flushed, repair, Ahead)
                /\ JobInv /\ StrayInv /\ DrainInv
  /\ ~Powered => OffInv

(* What the theorems leave out, of the constants: the gap between the       *)
(* worker's two stores, and cuts or reboots together with failing writes of *)
(* the worker's (the repair that is owed is then forgotten); ...            *)
Steady == ~PublishGap /\ (MaxWorkerFails = 0 \/ (MaxPowerCuts = 0 /\ MaxReboots = 0))
(* ... and of the behaviours what follows a remount, a failed write of the  *)
(* loop task's own, a save that strands a file, or a boot that finds files  *)
(* no save leaves.                                                          *)
Undisturbed == used.remounts = 0 /\ used.syncFails = 0 /\ ~used.stray /\ ~used.odd

-----------------------------------------------------------------------------
(* What the users of the ring may do to it and to the table.                *)

Later(R, n, R2, n2) ==
  /\ n \in Nat /\ n2 \in Nat /\ n <= n2
  /\ \A q \in Seqs(Live(R2)) : q <= n => q \in Seqs(Live(R))
  /\ \A q \in Nat : q <= n /\ Past(R, q) => Past(R2, q)
Raised(t, t2) ==
  /\ t2 \in [DOMAIN t -> Entries]
  /\ \A k \in DOMAIN t : /\ t2[k].last = t[k].last /\ t2[k].disk = t[k].disk
                         /\ t2[k].open = t[k].open /\ (t[k].dirty => t2[k].dirty)

(* What is known of old records stays known when the ring moves on, ...     *)
LEMMA KnownLater ==
  ASSUME NEW R, NEW n, NEW R2, NEW n2, Later(R, n, R2, n2),
         NEW M \in SUBSET Records, Known(R, n, M)
  PROVE  Known(R2, n2, M)
BY DEF Later, Known, Records

(* ... so good files stay good, ...                                         *)
LEMMA FilesLater ==
  ASSUME NEW R, NEW n, NEW R2, NEW n2, Later(R, n, R2, n2), NEW F, FilesInv(R, n, F)
  PROVE  FilesInv(R2, n2, F)
<1>1. DOMAIN F \subseteq 1..n2
  BY DEF FilesInv, Later
<1>2. \A k \in DOMAIN F : F[k].recs \in SUBSET Records
  BY DEF FilesInv, OneFile, Segments
<1>3. \A k \in DOMAIN F : Known(R2, n2, F[k].recs)
  BY <1>2, KnownLater DEF FilesInv, OneFile
<1> QED BY <1>1, <1>3 DEF FilesInv, OneFile

(* ... and a well-formed job well-formed.                                   *)
LEMMA ShapeLater ==
  ASSUME NEW R, NEW n, NEW R2, NEW n2, Later(R, n, R2, n2), NEW j, Shape(R, n, j)
  PROVE  Shape(R2, n2, j)
<1>1. j.recs \in SUBSET Records
  BY DEF Shape, Jobs
<1>2. Known(R2, n2, j.recs)
  BY <1>1, KnownLater DEF Shape
<1>3. j.first \in 1..n2 /\ j.last <= n2 /\ j.last \in Nat
  BY DEF Shape, Later, Jobs
<1> QED BY <1>2, <1>3 DEF Shape

(* The books hold when the ring moves on and entries are marked.            *)
LEMMA BookLater ==
  ASSUME NEW R, NEW n, NEW R2, NEW n2, Later(R, n, R2, n2), RingInv(R, n), RingInv(R2, n2),
         NEW F, NEW t, NEW t2, NEW w, NEW r, NEW x,
         Book(Seqs(Live(R)), n, F, t, w, r, x), Raised(t, t2)
  PROVE  Book(Seqs(Live(R2)), n2, F, t2, w, r, x)
<1> DEFINE L == Seqs(Live(R))
           L2 == Seqs(Live(R2))
<1>1. /\ n \in Nat /\ n2 \in Nat /\ n <= n2 /\ L \subseteq 0..n
      /\ \A q \in L2 : q <= n => q \in L
  BY DEF Later, RingInv, Seqs, Live, Records
<1>2. /\ DOMAIN t2 = DOMAIN t /\ t2 \in [DOMAIN t -> Entries]
      /\ \A k \in DOMAIN t : /\ t2[k].last = t[k].last /\ t2[k].disk = t[k].disk
                             /\ t2[k].open = t[k].open /\ (t[k].dirty => t2[k].dirty)
  BY DEF Raised
<1>3. L2 \subseteq Nat
  BY DEF RingInv, Seqs, Live, Records
<1> HIDE DEF L, L2
<1> USE DEF Book
<1>0. Book(L, n, F, t, w, r, x)
  BY DEF L
<1>4. TableInv(L2, n2, t2, w)
  <2>0. TableInv(L, n, t, w)
    BY <1>0
  <2>1. w \in 0..n2 /\ DOMAIN t \subseteq 1..n2 /\ w <= n
    BY <1>1, <2>0 DEF TableInv
  <2>2. ASSUME NEW k \in DOMAIN t
        PROVE  Cardinality({q \in L2 : q \in k..t[k].last}) <= t[k].disk
    <3>0. t[k] \in Entries /\ k \in Nat /\ t[k].last <= w
      <4>1. t \in [DOMAIN t -> Entries] /\ DOMAIN t \subseteq 1..n
        BY <2>0 DEF TableInv
      <4>2. t[k].last <= w
        BY <2>0 DEF TableInv
      <4> QED BY <4>1, <4>2
    <3>1. t[k].last <= w /\ t[k].last \in Nat /\ t[k].disk \in Nat /\ w \in Nat
      BY <3>0, <2>1 DEF Entries
    <3>2. {q \in L2 : q \in k..t[k].last} \in SUBSET {q \in L : q \in k..t[k].last}
      <4> SUFFICES ASSUME NEW q \in L2, q \in k..t[k].last PROVE q \in L
        OBVIOUS
      <4>1. q <= n
        BY <1>1, <1>3, <2>1, <3>0, <3>1
      <4> QED BY <1>1, <4>1
    <3>3. {q \in L : q \in k..t[k].last} \in SUBSET (0..n)
      BY <1>1
    <3> DEFINE A == {q \in L2 : q \in k..t[k].last}
               B == {q \in L : q \in k..t[k].last}
    <3>4. Cardinality(B) <= t[k].disk
      BY <2>0 DEF TableInv
    <3>5. A \in SUBSET B /\ B \in SUBSET (0..n)
      BY <3>2, <3>3
    <3> HIDE DEF A, B
    <3>6. Cardinality(A) \in Nat /\ Cardinality(B) \in Nat /\ Cardinality(A) <= Cardinality(B)
      BY <1>1, <3>5, Part
    <3>7. Cardinality(A) <= t[k].disk
      BY <3>1, <3>4, <3>6
    <3> QED BY <3>7 DEF A
  <2> QED BY <1>2, <2>0, <2>1, <2>2 DEF TableInv
<1>5. CoverInv(L2, F, t2, w)
  <2> SUFFICES ASSUME NEW q \in L2, q <= w
               PROVE  \E k \in DOMAIN t2 :
                        /\ q \in k..t2[k].last
                        /\ OnCard(F, k, q) \/ (MaxWorkerFails # 0 /\ (t2[k].dirty \/ t2[k].open))
    BY DEF CoverInv
  <2>1. q \in L
    BY <1>0, <1>1, <1>3 DEF TableInv
  <2>2. PICK k \in DOMAIN t :
          /\ q \in k..t[k].last
          /\ OnCard(F, k, q) \/ (MaxWorkerFails # 0 /\ (t[k].dirty \/ t[k].open))
    BY <1>0, <2>1 DEF CoverInv
  <2> QED BY <1>2, <2>2
<1>6. BelowInv(F, t2, w, r, x)
  BY <1>0, <1>2 DEF BelowInv
<1>7. TrustInv(F, t2, r, x)
  BY <1>0, <1>2 DEF TrustInv
<1>8. SpanInv(F, t2)
  BY <1>0, <1>2 DEF SpanInv
<1> QED BY <1>4, <1>5, <1>6, <1>7, <1>8 DEF L2

(* A plan stays right: a record that leaves the ring is missed by none.     *)
LEMMA PlanLater ==
  ASSUME NEW R, NEW n, NEW R2, NEW n2, Later(R, n, R2, n2), RingInv(R2, n2),
         NEW t, NEW t2, NEW w, NEW j, t \in [DOMAIN t -> Entries], DOMAIN t \subseteq 1..n,
         Shape(R, n, j), w \in 0..n, \A k \in DOMAIN t : t[k].last <= w,
         Raised(t, t2)
  PROVE  /\ AppendPlan(Seqs(Live(R)), t, w, j) => AppendPlan(Seqs(Live(R2)), t2, w, j)
         /\ RewritePlan(Seqs(Live(R)), t, w, j) => RewritePlan(Seqs(Live(R2)), t2, w, j)
         /\ Plan(Seqs(Live(R)), t, w, j) => Plan(Seqs(Live(R2)), t2, w, j)
<1> DEFINE L == Seqs(Live(R))
           L2 == Seqs(Live(R2))
<1>1. /\ n \in Nat /\ n2 \in Nat /\ n <= n2 /\ w \in Nat /\ w <= n
      /\ \A q \in L2 : q <= n => q \in L
  BY DEF Later
<1>2. /\ DOMAIN t2 = DOMAIN t /\ t2 \in [DOMAIN t -> Entries]
      /\ \A k \in DOMAIN t : /\ t2[k].last = t[k].last /\ t2[k].disk = t[k].disk
                             /\ t2[k].open = t[k].open /\ (t[k].dirty => t2[k].dirty)
  BY DEF Raised
<1>3. L2 \subseteq Nat
  BY DEF RingInv, Seqs, Live, Records
<1>4. j.first \in Nat /\ j.first <= n /\ j.last \in Nat /\ j.last <= n /\ j.create \in BOOLEAN /\ j.repair \in BOOLEAN
  BY <1>1 DEF Shape, Jobs
<1> HIDE DEF L, L2
<1>5. ASSUME AppendPlan(L, t, w, j) PROVE AppendPlan(L2, t2, w, j)
  <2>1. \A q \in L2 : w < q /\ q <= j.last => q \in Seqs(j.recs)
    BY <1>1, <1>3, <1>4, <1>5 DEF AppendPlan
  <2>2. Creates(t2) = Creates(t)
    <3>1. CASE DOMAIN t = {}
      BY <3>1, <1>2 DEF Creates
    <3>2. CASE DOMAIN t # {}
      <4>1. DOMAIN t \in SUBSET (0..n)
        BY <1>1
      <4>2. Active(t2) = Active(t)
        BY <1>2 DEF Active
      <4>3. Active(t) \in DOMAIN t
        BY <1>1, <3>2, <4>1, MaxOf DEF Active
      <4> QED BY <1>2, <4>2, <4>3, <3>2 DEF Creates
    <3> QED BY <3>1, <3>2
  <2>3. j.create => \A q \in L2 : w < q => j.first <= q
    BY <1>1, <1>3, <1>4, <1>5 DEF AppendPlan
  <2> QED BY <1>2, <1>5, <2>1, <2>2, <2>3 DEF AppendPlan
<1>6. ASSUME RewritePlan(L, t, w, j) PROVE RewritePlan(L2, t2, w, j)
  <2>1. t[j.first].last \in Nat /\ t[j.first].last <= n
    BY <1>1, <1>6 DEF RewritePlan, Entries
  <2>2. \A q \in L2 : q \in j.first..t2[j.first].last => q \in Seqs(j.recs)
    BY <1>1, <1>2, <1>3, <1>6, <2>1 DEF RewritePlan
  <2>3. j.repair => \A q \in L2 : w < q /\ q <= j.last => q \in Seqs(j.recs)
    BY <1>1, <1>3, <1>4, <1>6 DEF RewritePlan
  <2> QED BY <1>2, <1>6, <2>2, <2>3 DEF RewritePlan
<1>7. ASSUME Plan(L, t, w, j) PROVE Plan(L2, t2, w, j)
  BY <1>2, <1>5, <1>6, <1>7 DEF Plan, RewritePlan
<1> QED BY <1>5, <1>6, <1>7 DEF L, L2

(* Marking entries changes nothing about what a job has written.            *)
LEMMA LandedLater ==
  ASSUME NEW t, NEW t2, NEW F, NEW j, Raised(t, t2), Landed(F, t, j),
         j.kind = "append" /\ ~j.create => j.first \in DOMAIN t
  PROVE  Landed(F, t2, j)
BY DEF Raised, Landed

(* A table is a function on a set of keys.                                  *)
LEMMA TablesIn == \A t : t \in Tables <=> t \in [DOMAIN t -> Entries] /\ DOMAIN t \in SUBSET Nat
BY DEF Tables

(* Marking the entries of a table leaves a table.                           *)
LEMMA RaisedTables ==
  ASSUME NEW t \in Tables, NEW t2, Raised(t, t2)
  PROVE  t2 \in Tables
<1>1. t \in [DOMAIN t -> Entries] /\ DOMAIN t \in SUBSET Nat
  BY TablesIn
<1>2. DOMAIN t2 = DOMAIN t /\ t2 \in [DOMAIN t2 -> Entries]
  BY DEF Raised
<1> QED BY <1>1, <1>2, TablesIn

(* Marking twice is marking.                                                *)
LEMMA RaisedTwice ==
  ASSUME NEW t, NEW t2, NEW t3, Raised(t, t2), Raised(t2, t3)
  PROVE  Raised(t, t3)
BY DEF Raised

(* So is marking nothing.                                                   *)
LEMMA NotRaised ==
  ASSUME NEW t \in Tables
  PROVE  Raised(t, t)
BY TablesIn DEF Raised

(* The ring moves on step by step.                                          *)
LEMMA LaterTwice ==
  ASSUME NEW R, NEW n, NEW R2, NEW n2, NEW R3, NEW n3, RingInv(R3, n3),
         Later(R, n, R2, n2), Later(R2, n2, R3, n3)
  PROVE  Later(R, n, R3, n3)
<1>1. n \in Nat /\ n2 \in Nat /\ n3 \in Nat /\ n <= n3
  BY DEF Later
<1>2. Seqs(Live(R3)) \subseteq Nat
  BY DEF RingInv, Seqs, Live, Records
<1>3. ASSUME NEW q \in Seqs(Live(R3)), q <= n PROVE q \in Seqs(Live(R))
  <2>1. q \in Nat /\ q <= n2
    BY <1>1, <1>2, <1>3 DEF Later
  <2>2. q \in Seqs(Live(R2))
    BY <2>1 DEF Later
  <2> QED BY <1>3, <2>2 DEF Later
<1>4. ASSUME NEW q \in Nat, q <= n, Past(R, q) PROVE Past(R3, q)
  <2>1. q <= n2
    BY <1>1, <1>4 DEF Later
  <2>2. Past(R2, q)
    BY <1>4 DEF Later
  <2> QED BY <2>1, <2>2 DEF Later
<1> QED BY <1>1, <1>3, <1>4 DEF Later

(* The segment of a message is one of the table, and reaches to it.         *)
LEMMA OwnerIn ==
  ASSUME NEW t, DOMAIN t \in SUBSET Nat, NEW q
  PROVE  /\ Owner(t, q) # 0 => Owner(t, q) \in Owners(t, q)
         /\ Owner(t, q) \in Owners(t, q) => Owner(t, q) \in DOMAIN t
<1>1. Owners(t, q) \in SUBSET Nat /\ Owners(t, q) \in SUBSET DOMAIN t
  BY DEF Owners
<1>2. CASE Owners(t, q) = {}
  BY <1>1, <1>2 DEF Owner
<1>3. CASE Owners(t, q) # {}
  <2>1. Min(Owners(t, q)) \in Owners(t, q)
    BY <1>1, <1>3, MinOf
  <2> QED BY <1>1, <1>3, <2>1 DEF Owner
<1> QED BY <1>2, <1>3

(* segMarkSeqDirty marks entries and moves neither watermark nor job.       *)
LEMMA MarkDirtyRaises ==
  ASSUME NEW s \in Tasks, NEW q
  PROVE  /\ MarkDirty(s, q) \in Tasks /\ Raised(s.table, MarkDirty(s, q).table)
         /\ MarkDirty(s, q).flushed = s.flushed /\ MarkDirty(s, q).job = s.job
<1> DEFINE k == Owner(s.table, q)
           re == s.redirty \/ (s.job.kind = "compact" /\ s.job.first = k /\ worker # "idle")
           t2 == [s.table EXCEPT ![k].dirty = TRUE]
<1>1. s.table \in Tables
  BY DEF Tasks
<1>2. s.table \in [DOMAIN s.table -> Entries] /\ DOMAIN s.table \in SUBSET Nat
  BY <1>1, TablesIn
<1>3. Raised(s.table, s.table)
  BY <1>1, NotRaised
<1>4. k # 0 => k \in DOMAIN s.table
  BY <1>2, OwnerIn
<1>5. MarkDirty(s, q) = IF q > s.flushed \/ k = 0 THEN s
                        ELSE [s EXCEPT !.table = t2, !.redirty = re]
  BY DEF MarkDirty
<1>6. re \in BOOLEAN
  BY DEF Tasks
<1> HIDE DEF k, re
<1>7. ASSUME k # 0 PROVE Raised(s.table, t2)
  BY <1>2, <1>4, <1>7 DEF Raised, Entries
<1>8. ASSUME k # 0 PROVE t2 \in Tables
  BY <1>1, <1>7, <1>8, RaisedTables
<1> HIDE DEF t2
<1>9. CASE q > s.flushed \/ k = 0
  BY <1>3, <1>5, <1>9
<1>10. CASE ~(q > s.flushed \/ k = 0)
  <2>1. MarkDirty(s, q) = [s EXCEPT !.table = t2, !.redirty = re]
    BY <1>5, <1>10
  <2> QED BY <1>6, <1>7, <1>8, <1>10, <2>1 DEF Tasks
<1> QED BY <1>9, <1>10

(* segNoteEvicted counts down and marks, no more.                           *)
LEMMA NoteEvictedRaises ==
  ASSUME NEW t \in Tables, NEW q
  PROVE  Raised(t, NoteEvicted(t, q)) /\ NoteEvicted(t, q) \in Tables
<1> DEFINE k == Owner(t, q)
           left == IF t[k].live > 0 THEN t[k].live - 1 ELSE 0
           t2 == [t EXCEPT ![k].live = left, ![k].dirty = @ \/ left = 0]
<1>2. t \in [DOMAIN t -> Entries] /\ DOMAIN t \in SUBSET Nat
  BY TablesIn
<1>4. k # 0 => k \in DOMAIN t
  BY <1>2, OwnerIn
<1>5. NoteEvicted(t, q) = IF k = 0 THEN t ELSE t2
  BY DEF NoteEvicted
<1> HIDE DEF k
<1>6. k # 0 => left \in Nat
  BY <1>2, <1>4 DEF Entries
<1> HIDE DEF left
<1>7. ASSUME k # 0 PROVE Raised(t, t2)
  BY <1>2, <1>4, <1>6, <1>7 DEF Raised, Entries
<1>8. Raised(t, t)
  BY NotRaised
<1>9. Raised(t, NoteEvicted(t, q))
  BY <1>5, <1>7, <1>8
<1> QED BY <1>9, RaisedTables

(* A message that is deleted or acknowledged moves the ring on.             *)
LEMMA SwapLater ==
  ASSUME NEW R, NEW n, RingInv(R, n), NEW m \in R, NEW x \in Records,
         x.seq = m.seq, x.live => m.live
  PROVE  RingInv(Swap(R, m, x), n) /\ Later(R, n, Swap(R, m, x), n)
<1>1. Swap(R, m, x) \subseteq Records /\ n \in Nat
  BY DEF Swap, RingInv
<1>2. Seqs(Swap(R, m, x)) = Seqs(R)
  BY DEF Swap, Seqs
<1>3. Seqs(Live(Swap(R, m, x))) \subseteq Seqs(Live(R))
  BY DEF Swap, Seqs, Live
<1>4. \A y \in Swap(R, m, x) : \E z \in R : z.seq = y.seq
  BY DEF Swap
<1>5. RingInv(Swap(R, m, x), n)
  BY <1>1, <1>2, <1>4 DEF RingInv, Count
<1>6. \A q \in Nat : Past(R, q) => Past(Swap(R, m, x), q)
  BY <1>2, <1>4 DEF Past
<1> QED BY <1>1, <1>3, <1>5, <1>6 DEF Later

(* So does a message that arrives, whatever it overwrites.                  *)
LEMMA ReceivedLater ==
  ASSUME RingInv(ring, latest), SizesAssumption
  PROVE  RingInv(Received, latest + 1) /\ Later(ring, latest, Received, latest + 1)
<1> DEFINE new == [seq |-> latest + 1, live |-> TRUE, acked |-> FALSE]
           M == ring \cup {new}
<1>1. latest \in Nat /\ ring \subseteq Records /\ \A m \in ring : m.seq <= latest
  BY DEF RingInv
<1>2. new \in Records /\ new.seq = latest + 1
  BY <1>1 DEF Records
<1>0. Received = Newest(M, RingCap)
  BY DEF Received
<1> HIDE DEF new
<1>3. M \in SUBSET Records /\ \A m \in M : m.seq <= latest + 1 /\ m.seq \in Nat
  <2>1. \A m \in ring : m.seq <= latest + 1 /\ m.seq \in Nat
    BY <1>1 DEF Records
  <2>2. new.seq <= latest + 1 /\ new.seq \in Nat
    BY <1>1, <1>2
  <2> QED BY <1>1, <1>2, <2>1, <2>2
<1>4. Seqs(M) \subseteq 0..(latest + 1) /\ latest + 1 \in Nat
  BY <1>1, <1>3 DEF Seqs
<1>5. RingCap \in Nat
  BY DEF SizesAssumption
<1> HIDE DEF M
<1>6. /\ Received \subseteq M /\ Count(Received) <= RingCap
      /\ \A x \in Received, y \in M : y.seq >= x.seq => y \in Received
  BY <1>0, <1>3, <1>4, <1>5, NewestOf
<1>7. RingInv(Received, latest + 1)
  BY <1>3, <1>4, <1>6 DEF RingInv
<1>8. ASSUME NEW q \in Seqs(Live(Received)), q <= latest PROVE q \in Seqs(Live(ring))
  <2>1. PICK m \in Received : m.live /\ q = m.seq
    BY DEF Seqs, Live
  <2>2. m \in ring
    BY <1>1, <1>2, <1>6, <1>8, <2>1 DEF M
  <2> QED BY <2>1, <2>2 DEF Seqs, Live
<1>9. ASSUME NEW q \in Nat, q <= latest, Past(ring, q) PROVE Past(Received, q)
  <2>1. CASE \A m \in ring : q < m.seq
    <3>1. \A m \in M : q < m.seq
      BY <1>1, <1>2, <1>9, <2>1 DEF M
    <3> QED BY <1>6, <3>1 DEF Past
  <2>2. CASE q \in Seqs(ring)
    <3>1. PICK y \in ring : y.seq = q
      BY <2>2 DEF Seqs
    <3>2. y \in M
      BY DEF M
    <3>3. CASE y \in Received
      BY <3>1, <3>3 DEF Past, Seqs
    <3>4. CASE y \notin Received
      <4>1. \A x \in Received : ~(q >= x.seq) /\ x.seq \in Nat
        BY <1>3, <1>6, <3>1, <3>2, <3>4
      <4>2. \A x \in Received : q < x.seq
        BY <4>1
      <4> QED BY <4>2 DEF Past
    <3> QED BY <3>3, <3>4
  <2> QED BY <1>9, <2>1, <2>2 DEF Past
<1> QED BY <1>1, <1>4, <1>7, <1>8, <1>9 DEF Later

-----------------------------------------------------------------------------
(* The steps of the invariant.                                              *)

(* Whatever the users do to the ring and the table, the books still fit.    *)
LEMMA UserStep ==
  ASSUME HInvariant, LoopFree,
         RingInv(ring', latest'), Later(ring, latest, ring', latest'),
         h' \in Tasks, Raised(h.table, h'.table), h'.flushed = h.flushed,
         h'.job = h.job, h'.dirty, used' \in Uses, used'.syncFails = 0,
         UNCHANGED <<task, drain, disk>>
  PROVE  HInvariant'
<1>1. /\ worker' = worker /\ flushOk' = flushOk /\ repair' = repair /\ drain' = drain
      /\ files' = files /\ marker' = marker
  BY DEF task, disk
<1>2. /\ Powered /\ Powered' /\ drain.pc = "idle"
      /\ RingInv(ring, latest) /\ FilesInv(ring, latest, files) /\ Calm
      /\ Book(LiveSeqs, latest, files, h.table, h.flushed, repair, Ahead)
      /\ JobInv /\ StrayInv /\ DrainInv
  BY <1>1 DEF HInvariant, LoopFree, Powered
<1>3. Done' = Done /\ Ahead' = Ahead
  BY <1>1 DEF Done, Ahead
<1>4. FilesInv(ring, latest, files)'
  BY <1>1, <1>2, FilesLater
<1>5. Book(LiveSeqs, latest, files, h.table, h.flushed, repair, Ahead)'
  <2>1. Book(Seqs(Live(ring)), latest, files, h.table, h.flushed, repair, Ahead)
    BY <1>2 DEF LiveSeqs
  <2>2. Book(Seqs(Live(ring')), latest', files, h'.table, h.flushed, repair, Ahead)
    BY <1>2, <2>1, BookLater
  <2> QED BY <1>1, <1>3, <2>2 DEF LiveSeqs
<1>6. JobInv'
  <2>1. ASSUME h.job.kind # "none"
        PROVE  /\ Shape(ring', latest', h.job)
               /\ Plan(Seqs(Live(ring')), h'.table, h.flushed, h.job)
               /\ Done /\ flushOk => Landed(files, h'.table, h.job)
    <3>1. Shape(ring, latest, h.job) /\ Plan(Seqs(Live(ring)), h.table, h.flushed, h.job)
      BY <1>2, <2>1 DEF JobInv, LiveSeqs
    <3>2. Shape(ring', latest', h.job)
      BY <3>1, ShapeLater
    <3>3. /\ h.table \in [DOMAIN h.table -> Entries] /\ DOMAIN h.table \subseteq 1..latest
          /\ h.flushed \in 0..latest /\ \A k \in DOMAIN h.table : h.table[k].last <= h.flushed
      BY <1>2 DEF Book, TableInv
    <3>4. Plan(Seqs(Live(ring')), h'.table, h.flushed, h.job)
      BY <3>1, <3>3, PlanLater
    <3>5. h.job.kind = "append" /\ ~h.job.create => h.job.first \in DOMAIN h.table
      BY <3>1 DEF Plan, AppendPlan, RewritePlan
    <3>6. Done /\ flushOk => Landed(files, h'.table, h.job)
      BY <1>2, <2>1, <3>5, LandedLater DEF JobInv
    <3> QED BY <3>2, <3>4, <3>6
  <2> QED BY <1>1, <1>2, <1>3, <2>1 DEF JobInv, LiveSeqs
<1>7. StrayInv'
  <2>1. DOMAIN h'.table = DOMAIN h.table
    BY DEF Raised
  <2>2. \A k : ~Stray(k)
    BY <1>2 DEF Stray
  <2> QED BY <1>1, <1>2, <1>3, <2>1, <2>2 DEF StrayInv
<1>8. DrainInv'
  BY <1>1, <1>2 DEF DrainInv
<1>9. Calm'
  BY <1>1, <1>2 DEF Calm
<1> QED BY <1>1, <1>2, <1>4, <1>5, <1>6, <1>7, <1>8, <1>9 DEF HInvariant

(* The records of what happened keep their types.                           *)
LEMMA DeletingUses ==
  ASSUME used \in Uses, NEW m, m.seq \in Nat
  PROVE  /\ Deleting(m) \in Uses /\ Deleting(m).syncFails = used.syncFails
         /\ used.late \subseteq Deleting(m).late
         /\ TooLate(m) => m.seq \in Deleting(m).late
<1> DEFINE L == IF TooLate(m) THEN {m.seq} ELSE {}
           u == Spent("deletes")
<1>1. L \in SUBSET Nat
  OBVIOUS
<1> HIDE DEF L
<1>2. u \in Uses /\ u.syncFails = used.syncFails /\ u.late = used.late
  BY DEF Uses, Spent
<1> HIDE DEF u
<1>3. Deleting(m) = [u EXCEPT !.late = @ \cup L]
  BY DEF Deleting, L, u
<1>4. Deleting(m) \in Uses /\ Deleting(m).syncFails = u.syncFails /\ Deleting(m).late = u.late \cup L
  BY <1>1, <1>2, <1>3 DEF Uses
<1> QED BY <1>2, <1>4 DEF L

LEMMA SavingUses ==
  ASSUME NEW u \in Uses
  PROVE  /\ Saving(u) \in Uses /\ Saving(u).syncFails = u.syncFails
         /\ Saving(u).late = u.late /\ (~Saving(u).stray => ~Strands)
<1> DEFINE s == Strands
<1>1. Saving(u) = [u EXCEPT !.stray = u.stray \/ s]
  BY DEF Saving
<1> HIDE DEF s
<1>2. (u.stray \/ s) \in BOOLEAN
  OBVIOUS
<1>3. /\ Saving(u) \in Uses /\ Saving(u).syncFails = u.syncFails
      /\ Saving(u).late = u.late /\ Saving(u).stray = (u.stray \/ s)
  BY <1>1, <1>2 DEF Uses
<1> QED BY <1>3 DEF s

(* A delete keeps the invariant.                                            *)
LEMMA DeleteStep ==
  ASSUME HInvariant, NEW m \in ring, Delete(m)
  PROVE  HInvariant'
<1> DEFINE x == [m EXCEPT !.live = FALSE]
<1>1. /\ RingInv(ring, latest) /\ h \in Tasks /\ used \in Uses /\ used.syncFails = 0 /\ m \in Records
  BY DEF HInvariant, Calm, RingInv
<1>2. /\ LoopFree /\ ring' = Swap(ring, m, x) /\ latest' = latest
      /\ h' = [MarkDirty(h, m.seq) EXCEPT !.dirty = TRUE]
      /\ used' = Deleting(m) /\ UNCHANGED <<task, drain, disk>>
  BY DEF Delete
<1>3. x \in Records /\ x.seq = m.seq /\ ~x.live
  BY <1>1 DEF Records
<1> HIDE DEF x
<1>4. RingInv(ring', latest') /\ Later(ring, latest, ring', latest')
  BY <1>1, <1>2, <1>3, SwapLater
<1> DEFINE s == MarkDirty(h, m.seq)
<1>5. s \in Tasks /\ Raised(h.table, s.table) /\ s.flushed = h.flushed /\ s.job = h.job
  BY <1>1, MarkDirtyRaises
<1> HIDE DEF s
<1>6. h' \in Tasks /\ h'.table = s.table /\ h'.flushed = s.flushed /\ h'.job = s.job /\ h'.dirty
  BY <1>2, <1>5 DEF Tasks, s
<1>7. used' \in Uses /\ used'.syncFails = 0
  <2>1. m.seq \in Nat
    BY <1>1 DEF Records
  <2> QED BY <1>1, <1>2, <2>1, DeletingUses
<1> QED BY <1>2, <1>4, <1>5, <1>6, <1>7, UserStep

(* So does an acknowledgement.                                              *)
LEMMA AcknowledgeStep ==
  ASSUME HInvariant, NEW m \in ring, Acknowledge(m)
  PROVE  HInvariant'
<1> DEFINE x == [m EXCEPT !.acked = TRUE]
<1>1. /\ RingInv(ring, latest) /\ h \in Tasks /\ used \in Uses /\ used.syncFails = 0 /\ m \in Records
  BY DEF HInvariant, Calm, RingInv
<1>2. /\ LoopFree /\ ring' = Swap(ring, m, x) /\ latest' = latest
      /\ h' = [MarkDirty(h, m.seq) EXCEPT !.dirty = TRUE]
      /\ used' = [used EXCEPT !["acks"] = @ + 1] /\ UNCHANGED <<task, drain, disk>>
  BY DEF Acknowledge, Spend, Spent
<1>3. x \in Records /\ x.seq = m.seq /\ x.live = m.live
  BY <1>1 DEF Records
<1> HIDE DEF x
<1>4. RingInv(ring', latest') /\ Later(ring, latest, ring', latest')
  BY <1>1, <1>2, <1>3, SwapLater
<1> DEFINE s == MarkDirty(h, m.seq)
<1>5. s \in Tasks /\ Raised(h.table, s.table) /\ s.flushed = h.flushed /\ s.job = h.job
  BY <1>1, MarkDirtyRaises
<1> HIDE DEF s
<1>6. h' \in Tasks /\ h'.table = s.table /\ h'.flushed = s.flushed /\ h'.job = s.job /\ h'.dirty
  BY <1>2, <1>5 DEF Tasks, s
<1>7. used' \in Uses /\ used'.syncFails = 0
  BY <1>1, <1>2 DEF Uses
<1> QED BY <1>2, <1>4, <1>5, <1>6, <1>7, UserStep

(* The eviction a message causes only marks entries.                        *)
LEMMA NotedRaises ==
  ASSUME h \in Tasks
  PROVE  /\ Noted \in Tasks /\ Raised(h.table, Noted.table)
         /\ Noted.flushed = h.flushed /\ Noted.job = h.job
<1> DEFINE t2 == NoteEvicted(h.table, Min(Seqs(ring)))
<1>1. h.table \in Tables
  BY DEF Tasks
<1>2. t2 \in Tables /\ Raised(h.table, t2) /\ Raised(h.table, h.table)
  BY <1>1, NoteEvictedRaises, NotRaised
<1>3. Noted = h \/ Noted = [h EXCEPT !.table = t2]
  BY DEF Noted
<1> HIDE DEF t2
<1>4. CASE Noted = h
  BY <1>2, <1>4
<1>5. CASE Noted = [h EXCEPT !.table = t2]
  BY <1>2, <1>5 DEF Tasks
<1> QED BY <1>3, <1>4, <1>5

(* A message that arrives keeps the invariant, trimmed chat or not.         *)
LEMMA ReceiveStep ==
  ASSUME HInvariant, SizesAssumption, Receive
  PROVE  HInvariant'
<1>1. /\ RingInv(ring, latest) /\ h \in Tasks /\ used \in Uses /\ used.syncFails = 0
  BY DEF HInvariant, Calm
<1>2. LoopFree /\ latest' = latest + 1 /\ UNCHANGED <<task, drain, disk>>
  BY DEF Receive
<1>3. RingInv(Received, latest + 1) /\ Later(ring, latest, Received, latest + 1)
  BY <1>1, ReceivedLater
<1>4. /\ Noted \in Tasks /\ Raised(h.table, Noted.table)
      /\ Noted.flushed = h.flushed /\ Noted.job = h.job
  BY <1>1, NotedRaises
<1>5. CASE ring' = Received /\ h' = [Noted EXCEPT !.dirty = TRUE] /\ UNCHANGED used
  <2>1. /\ h' \in Tasks /\ h'.table = Noted.table /\ h'.flushed = Noted.flushed
        /\ h'.job = Noted.job /\ h'.dirty
    BY <1>4, <1>5 DEF Tasks
  <2> QED BY <1>1, <1>2, <1>3, <1>4, <1>5, <2>1, UserStep
<1>6. ASSUME NEW m \in Live(Received), used' = Deleting(m),
             ring' = Swap(Received, m, [m EXCEPT !.live = FALSE]),
             h' = [MarkDirty(Noted, m.seq) EXCEPT !.dirty = TRUE]
      PROVE  HInvariant'
  <2> DEFINE x == [m EXCEPT !.live = FALSE]
             s == MarkDirty(Noted, m.seq)
  <2>1. m \in Received /\ m \in Records
    BY <1>3 DEF Live, RingInv
  <2>2. x \in Records /\ x.seq = m.seq /\ ~x.live
    BY <2>1 DEF Records
  <2>0. ring' = Swap(Received, m, x) /\ h' = [s EXCEPT !.dirty = TRUE]
    BY <1>6
  <2> HIDE DEF x, s
  <2>3. RingInv(ring', latest') /\ Later(Received, latest + 1, ring', latest')
    BY <1>2, <1>3, <2>0, <2>1, <2>2, SwapLater
  <2>4. Later(ring, latest, ring', latest')
    BY <1>3, <2>3, LaterTwice
  <2>5. s \in Tasks /\ Raised(Noted.table, s.table) /\ s.flushed = Noted.flushed /\ s.job = Noted.job
    BY <1>4, MarkDirtyRaises DEF s
  <2>6. h' \in Tasks /\ h'.table = s.table /\ h'.flushed = s.flushed /\ h'.job = s.job /\ h'.dirty
    BY <2>0, <2>5 DEF Tasks
  <2>7. Raised(h.table, h'.table)
    BY <1>4, <2>5, <2>6, RaisedTwice
  <2>8. used' \in Uses /\ used'.syncFails = 0
    <3>1. m.seq \in Nat
      BY <2>1 DEF Records
    <3> QED BY <1>1, <1>6, <3>1, DeletingUses
  <2> QED BY <1>2, <1>4, <2>3, <2>4, <2>5, <2>6, <2>7, <2>8, UserStep
<1> QED BY <1>5, <1>6 DEF Receive

-----------------------------------------------------------------------------
(* Files that are written.                                                  *)

(* The records of a bounded set are finitely many.                          *)
LEMMA CountOf ==
  ASSUME NEW n \in Nat, NEW M \in SUBSET Records, \A x \in M : x.seq <= n
  PROVE  Seqs(M) \in SUBSET (0..n) /\ IsFiniteSet(Seqs(M)) /\ Count(M) \in Nat
<1>1. Seqs(M) \in SUBSET (0..n)
  BY DEF Seqs, Records
<1> QED BY <1>1, Part DEF Count

(* No records have no sequence numbers.                                     *)
LEMMA CountEmpty == Count({}) = 0 /\ Seqs({}) = {}
BY FS_EmptySet DEF Count, Seqs

(* Two batches with no number in common are counted one after the other.    *)
LEMMA CountBoth ==
  ASSUME NEW n \in Nat, NEW M \in SUBSET Records, NEW N \in SUBSET Records,
         \A x \in M : x.seq <= n, \A y \in N : y.seq <= n,
         \A x \in M, y \in N : x.seq < y.seq
  PROVE  Count(M \cup N) = Count(M) + Count(N)
<1>1. /\ IsFiniteSet(Seqs(M)) /\ IsFiniteSet(Seqs(N)) /\ Count(M) \in Nat /\ Count(N) \in Nat
      /\ Seqs(M) \in SUBSET (0..n)
  BY CountOf
<1>2. Seqs(M \cup N) = Seqs(M) \cup Seqs(N)
  BY DEF Seqs
<1>3. Seqs(M) \cap Seqs(N) = {}
  <2> SUFFICES ASSUME NEW q \in Seqs(M), q \in Seqs(N) PROVE FALSE
    OBVIOUS
  <2>1. PICK x \in M, y \in N : x.seq = q /\ y.seq = q
    BY DEF Seqs
  <2> QED BY <1>1, <2>1
<1>4. Cardinality(Seqs(M) \cup Seqs(N)) =
        Cardinality(Seqs(M)) + Cardinality(Seqs(N)) - Cardinality(Seqs(M) \cap Seqs(N))
  BY <1>1, FS_Union
<1>5. Cardinality(Seqs(M) \cap Seqs(N)) = 0
  BY <1>3, FS_EmptySet
<1>6. Count(M \cup N) = Cardinality(Seqs(M) \cup Seqs(N))
  BY <1>2 DEF Count
<1>7. Cardinality(Seqs(M)) = Count(M) /\ Cardinality(Seqs(N)) = Count(N)
  BY DEF Count
<1>8. Count(M \cup N) = Count(M) + Count(N) - 0
  BY <1>4, <1>5, <1>6, <1>7
<1> QED BY <1>1, <1>8

FitsIn(F, k, M) == \A e \in DOMAIN F :
  /\ e < k => \A x \in F[e].recs : x.seq < k
  /\ k < e => \A x \in M : x.seq < e

(* A good file put in its place among good files leaves good files.         *)
LEMMA PutFile ==
  ASSUME NEW R, NEW n \in Nat, NEW F, FilesInv(R, n, F), NEW k \in 1..n, NEW f, OneFile(R, n, k, f),
         FitsIn(F, k, f.recs), Cardinality(DOMAIN F \cup {k}) <= SegMax
  PROVE  FilesInv(R, n, With(F, k, f))
<1> DEFINE G == With(F, k, f)
<1>1. /\ DOMAIN G = DOMAIN F \cup {k} /\ G = [x \in DOMAIN G |-> G[x]]
      /\ G[k] = f /\ \A e \in DOMAIN F : e # k => G[e] = F[e]
  BY DEF With
<1> HIDE DEF G
<1>2. DOMAIN G \subseteq 1..n /\ Cardinality(DOMAIN G) <= SegMax
  BY <1>1 DEF FilesInv
<1>3. ASSUME NEW e \in DOMAIN G PROVE OneFile(R, n, e, G[e])
  BY <1>1 DEF FilesInv
<1>4. ASSUME NEW d \in DOMAIN G, NEW e \in DOMAIN G, d < e, NEW x \in G[d].recs PROVE x.seq < e
  <2>0. d \in Nat /\ e \in Nat
    BY <1>2
  <2>1. CASE d # k /\ e # k
    BY <1>1, <1>4, <2>1 DEF FilesInv
  <2>2. CASE d = k
    <3>1. e # k /\ e \in DOMAIN F
      BY <1>1, <1>4, <2>0, <2>2
    <3> QED BY <1>1, <1>4, <2>2, <3>1 DEF FitsIn
  <2>3. CASE d # k /\ e = k
    BY <1>1, <1>4, <2>3 DEF FitsIn
  <2> QED BY <2>1, <2>2, <2>3
<1>5. FilesInv(R, n, G)
  BY <1>1, <1>2, <1>3, <1>4 DEF FilesInv
<1> QED BY <1>5 DEF G

(* So does one taken away.                                                  *)
LEMMA DropFile ==
  ASSUME NEW R, NEW n \in Nat, NEW F, FilesInv(R, n, F), NEW k
  PROVE  FilesInv(R, n, Without(F, k))
<1> DEFINE G == Without(F, k)
<1>1. /\ DOMAIN G = DOMAIN F \ {k} /\ G = [x \in DOMAIN G |-> G[x]]
      /\ \A e \in DOMAIN G : G[e] = F[e]
  BY DEF Without
<1> HIDE DEF G
<1>2. DOMAIN F \in SUBSET (0..n)
  BY DEF FilesInv
<1>3. DOMAIN G \in SUBSET DOMAIN F
  BY <1>1
<1>4. /\ Cardinality(DOMAIN G) \in Nat /\ Cardinality(DOMAIN F) \in Nat
      /\ Cardinality(DOMAIN G) <= Cardinality(DOMAIN F)
  BY <1>2, <1>3, Part
<1>5. SegMax \in Nat
  BY SizesAssumption
<1>6. Cardinality(DOMAIN G) <= SegMax
  BY <1>4, <1>5 DEF FilesInv
<1>7. FilesInv(R, n, G)
  BY <1>1, <1>6 DEF FilesInv
<1> QED BY <1>7 DEF G

(* A file that takes more records keeps the ones it has.                    *)
Takes(k, f, M) ==
  /\ \A x \in M : k <= x.seq
  /\ MaxWorkerFails = 0 => /\ \A x \in f.recs, y \in M : x.seq < y.seq
                           /\ f.count + Count(M) <= SegRecords
Taken(f, M, g) ==
  /\ g.hdr = f.hdr /\ g.ragged = f.ragged
  /\ Seqs(f.recs) \subseteq Seqs(g.recs) /\ g.recs \subseteq f.recs \cup M
  /\ ~f.ragged /\ (\A x \in f.recs, y \in M : x.seq < y.seq) =>
       g.recs = f.recs \cup M /\ g.count = f.count + Count(M)

(* An append to a good file leaves a good file that holds both.             *)
LEMMA ExtendOne ==
  ASSUME NEW R, NEW n \in Nat, NEW k, NEW f, OneFile(R, n, k, f), NEW M \in SUBSET Records,
         Known(R, n, M), Takes(k, f, M)
  PROVE  OneFile(R, n, k, Extend(f, M)) /\ Taken(f, M, Extend(f, M))
<1>0. /\ \A x \in M : k <= x.seq
      /\ MaxWorkerFails = 0 => /\ \A x \in f.recs, y \in M : x.seq < y.seq
                               /\ f.count + Count(M) <= SegRecords
  BY DEF Takes
<1> DEFINE N == {m \in M : \A x \in f.recs : x.seq < m.seq}
           g == [f EXCEPT !.recs = f.recs \cup N, !.count = f.count + Count(M)]
<1>1. Extend(f, M) = IF f.ragged THEN f ELSE g
  BY DEF Extend
<1>2. f \in Segments /\ f.recs \in SUBSET Records /\ f.count \in Nat /\ f.ragged \in BOOLEAN
  BY DEF OneFile, Segments
<1>3. N \in SUBSET M
  OBVIOUS
<1>4. (\A x \in f.recs, y \in M : x.seq < y.seq) => N = M
  OBVIOUS
<1> HIDE DEF N
<1>5. \A x \in M : x.seq <= n
  BY DEF Known
<1>6. Count(M) \in Nat
  BY <1>5, CountOf
<1>7. /\ g \in Segments /\ g.recs = f.recs \cup N /\ g.count = f.count + Count(M)
      /\ g.hdr = f.hdr /\ g.ragged = f.ragged
  <2> DEFINE A == f.recs \cup N
             c == f.count + Count(M)
  <2>1. A \in SUBSET Records /\ c \in Nat
    BY <1>2, <1>3, <1>6
  <2>2. g = [f EXCEPT !.recs = A, !.count = c]
    OBVIOUS
  <2> HIDE DEF A, c, g
  <2>3. /\ g \in Segments /\ g.recs = A /\ g.count = c
        /\ g.hdr = f.hdr /\ g.ragged = f.ragged
    BY <1>2, <2>1, <2>2 DEF Segments
  <2> QED BY <2>3 DEF A, c
<1> HIDE DEF g
<1>8. Seqs(f.recs) \subseteq Seqs(g.recs)
  BY <1>7 DEF Seqs
<1>9. OneFile(R, n, k, g)
  <2>1. Known(R, n, g.recs) /\ \A x \in g.recs : k <= x.seq
    BY <1>0, <1>3, <1>7 DEF OneFile, Known
  <2>2. ASSUME MaxWorkerFails = 0
        PROVE  ~g.ragged /\ g.count = Count(g.recs) /\ Count(g.recs) <= SegRecords
    <3>1. N = M /\ f.count + Count(M) <= SegRecords /\ \A x \in f.recs, y \in M : x.seq < y.seq
      BY <1>0, <1>4, <2>2
    <3>2. \A x \in f.recs : x.seq <= n
      BY DEF OneFile, Known
    <3>3. Count(f.recs \cup M) = Count(f.recs) + Count(M)
      BY <1>2, <1>5, <3>1, <3>2, CountBoth
    <3> QED BY <1>7, <2>2, <3>1, <3>3 DEF OneFile
  <2> QED BY <1>7, <2>1, <2>2 DEF OneFile
<1>10. CASE f.ragged
  BY <1>1, <1>10 DEF Taken
<1>11. CASE ~f.ragged
  <2>1. Extend(f, M) = g
    BY <1>1, <1>11
  <2>2. Taken(f, M, g)
    BY <1>3, <1>4, <1>7, <1>8 DEF Taken
  <2> QED BY <1>9, <2>1, <2>2
<1> QED BY <1>2, <1>10, <1>11

(* A file written from records alone is good.                               *)
LEMMA NewOne ==
  ASSUME NEW R, NEW n \in Nat, NEW k, NEW M \in SUBSET Records, Known(R, n, M),
         \A x \in M : k <= x.seq, Count(M) <= SegRecords
  PROVE  /\ OneFile(R, n, k, NewFile(M))
         /\ NewFile(M).hdr /\ ~NewFile(M).ragged
         /\ NewFile(M).recs = M /\ NewFile(M).count = Count(M)
<1>1. \A x \in M : x.seq <= n
  BY DEF Known
<1>2. Count(M) \in Nat
  BY <1>1, CountOf
<1>3. /\ NewFile(M) \in Segments /\ NewFile(M).hdr /\ ~NewFile(M).ragged
      /\ NewFile(M).recs = M /\ NewFile(M).count = Count(M)
  BY <1>2 DEF NewFile, Segments
<1> QED BY <1>3 DEF OneFile

(* The file of a plan has its place between the others, and in the table.   *)
LEMMA RewriteFits ==
  ASSUME NEW R, NEW L, NEW n \in Nat, NEW F, NEW t, NEW w, NEW r, NEW x,
         Book(L, n, F, t, w, r, x), NEW j, Shape(R, n, j), RewritePlan(L, t, w, j),
         DOMAIN F \subseteq DOMAIN t
  PROVE  /\ FitsIn(F, j.first, j.recs) /\ Cardinality(DOMAIN F \cup {j.first}) <= SegMax
         /\ \A e \in DOMAIN t : j.first < e => \A y \in j.recs : y.seq < e
<1>1. /\ j.first \in DOMAIN t /\ \A k \in DOMAIN t : j.first < k => j.last < k
      /\ DOMAIN t \subseteq 1..n /\ Cardinality(DOMAIN t) <= SegMax
      /\ \A k \in DOMAIN F : k < j.first => \A m \in F[k].recs : m.seq < j.first
  BY DEF RewritePlan, Book, TableInv, SpanInv
<1>2. j.first \in Nat /\ j.last \in Nat /\ \A y \in j.recs : y.seq \in j.first..j.last
  BY DEF Shape, Jobs
<1>3. \A e \in DOMAIN t : j.first < e => \A y \in j.recs : y.seq < e
  BY <1>1, <1>2
<1>4. FitsIn(F, j.first, j.recs)
  BY <1>1, <1>3 DEF FitsIn
<1>5. DOMAIN F \cup {j.first} \in SUBSET DOMAIN t /\ DOMAIN t \in SUBSET (0..n)
  BY <1>1
<1>6. /\ Cardinality(DOMAIN F \cup {j.first}) <= Cardinality(DOMAIN t)
      /\ Cardinality(DOMAIN F \cup {j.first}) \in Nat /\ Cardinality(DOMAIN t) \in Nat
  BY <1>5, Part
<1>7. Cardinality(DOMAIN F \cup {j.first}) <= SegMax
  <2>1. SegMax \in Nat
    BY SizesAssumption
  <2> QED BY <1>1, <1>6, <2>1
<1> QED BY <1>3, <1>4, <1>7

(* The batch of an append lies beyond all that is on the card.              *)
LEMMA AppendFits ==
  ASSUME NEW R, NEW L, NEW n \in Nat, NEW F, FilesInv(R, n, F), NEW t, NEW w,
         Book(L, n, F, t, w, 0, 0), NEW j, Shape(R, n, j), AppendPlan(L, t, w, j),
         DOMAIN F \subseteq DOMAIN t
  PROVE  /\ FitsIn(F, j.first, j.recs) /\ Cardinality(DOMAIN F \cup {j.first}) <= SegMax
         /\ \A e \in DOMAIN t : e <= j.first
         /\ \A k \in DOMAIN F : \A m \in F[k].recs : m.seq <= w
         /\ w \in Nat /\ (j.create => j.first \notin DOMAIN F)
<1>1. /\ DOMAIN t \subseteq 1..n /\ Cardinality(DOMAIN t) <= SegMax /\ w \in 0..n
      /\ \A k \in DOMAIN F : k < j.first /\ j.first \in DOMAIN t =>
           \A m \in F[k].recs : m.seq < j.first
  BY DEF AppendPlan, Book, TableInv, SpanInv
<1>2. j.first \in Nat /\ j.last \in Nat /\ w \in Nat
  BY <1>1 DEF Shape, Jobs
<1>3. \A k \in DOMAIN t : k \in Nat /\ k <= w /\ k # 0 /\ ~t[k].open
  BY <1>1 DEF Book, BelowInv, AppendPlan
<1>4. \A k \in DOMAIN F : \A m \in F[k].recs : m.seq <= w /\ m.seq \in Nat
  <2>1. \A k \in DOMAIN F : \A m \in F[k].recs : m.seq <= w
    BY <1>3 DEF Book, BelowInv
  <2>2. \A k \in DOMAIN F : F[k].recs \subseteq Records
    BY DEF FilesInv, OneFile, Segments
  <2> QED BY <2>1, <2>2 DEF Records
<1>5. SegMax \in Nat
  BY SizesAssumption
<1>6. CASE j.create
  <2>1. w < j.first /\ j.first \notin DOMAIN t /\ Cardinality(DOMAIN t) < SegMax
    BY <1>6 DEF AppendPlan
  <2>2. \A e \in DOMAIN t : e <= j.first /\ ~(j.first < e)
    BY <1>2, <1>3, <2>1
  <2>3. \A k \in DOMAIN F : \A m \in F[k].recs : m.seq < j.first
    BY <1>2, <1>4, <2>1
  <2>4. FitsIn(F, j.first, j.recs)
    BY <2>2, <2>3 DEF FitsIn
  <2>5. DOMAIN F \in SUBSET (DOMAIN t) /\ DOMAIN t \in SUBSET (0..n)
    BY <1>1
  <2>6. IsFiniteSet(DOMAIN F) /\ Cardinality(DOMAIN F) <= Cardinality(DOMAIN t)
        /\ Cardinality(DOMAIN F) \in Nat /\ Cardinality(DOMAIN t) \in Nat
    BY <2>5, Part
  <2>7. Cardinality(DOMAIN F \cup {j.first}) = Cardinality(DOMAIN F) + 1
    BY <2>1, <2>5, <2>6, FS_AddElement
  <2>8. Cardinality(DOMAIN F \cup {j.first}) <= SegMax
    BY <1>5, <2>1, <2>6, <2>7
  <2> QED BY <1>2, <1>4, <2>1, <2>2, <2>4, <2>8
<1>7. CASE ~j.create
  <2>1. j.first \in DOMAIN t /\ \A k \in DOMAIN t : k <= j.first
    BY <1>7 DEF AppendPlan
  <2>2. \A e \in DOMAIN t : ~(j.first < e)
    BY <1>2, <1>3, <2>1
  <2>4. FitsIn(F, j.first, j.recs)
    BY <1>1, <2>1, <2>2 DEF FitsIn
  <2>5. DOMAIN F \cup {j.first} \in SUBSET DOMAIN t /\ DOMAIN t \in SUBSET (0..n)
    BY <1>1, <2>1
  <2>6. /\ Cardinality(DOMAIN F \cup {j.first}) <= Cardinality(DOMAIN t)
        /\ Cardinality(DOMAIN F \cup {j.first}) \in Nat /\ Cardinality(DOMAIN t) \in Nat
    BY <2>5, Part
  <2>8. Cardinality(DOMAIN F \cup {j.first}) <= SegMax
    BY <1>1, <1>5, <2>6
  <2> QED BY <1>2, <1>4, <1>7, <2>1, <2>4, <2>8
<1> QED BY <1>6, <1>7

(* Without leaves the other files alone.                                    *)
LEMMA WithoutIs ==
  ASSUME NEW F, NEW k
  PROVE  /\ DOMAIN Without(F, k) = DOMAIN F \ {k}
         /\ \A e \in DOMAIN F : e # k => Without(F, k)[e] = F[e]
BY DEF Without

(* A rewrite that is done: the books are ahead of one entry, no more.       *)
LEMMA RewriteLands ==
  ASSUME RingInv(ring, latest), FilesInv(ring, latest, files), NEW t, NEW w, NEW r, NEW j,
         Book(LiveSeqs, latest, files, t, w, r, j.first), Shape(ring, latest, j),
         RewritePlan(LiveSeqs, t, w, j), DOMAIN files \subseteq DOMAIN t
  PROVE  /\ FilesInv(ring, latest, Rewritten(j))
         /\ Book(LiveSeqs, latest, Rewritten(j), t, w, r, j.first)
         /\ Landed(Rewritten(j), t, j) /\ DOMAIN Rewritten(j) \subseteq DOMAIN t
<1> DEFINE F == files
           G == Rewritten(j)
           L == LiveSeqs
           k == j.first
<1>1. latest \in Nat /\ k \in 1..latest /\ k \in DOMAIN t /\ j.kind = "compact"
  BY DEF RingInv, Shape, RewritePlan
<1>2. /\ FitsIn(F, k, j.recs) /\ Cardinality(DOMAIN F \cup {k}) <= SegMax
      /\ \A e \in DOMAIN t : k < e => \A y \in j.recs : y.seq < e
  BY <1>1, RewriteFits
<1>3. j.recs \in SUBSET Records /\ Known(ring, latest, j.recs) /\ Count(j.recs) <= SegRecords
      /\ \A y \in j.recs : k <= y.seq
  <2>1. j.first \in Nat /\ j.last \in Nat /\ \A y \in j.recs : y.seq \in j.first..j.last
    BY DEF Shape, Jobs
  <2> QED BY <2>1 DEF Shape, Jobs
<1>4. /\ OneFile(ring, latest, k, NewFile(j.recs))
      /\ NewFile(j.recs).hdr /\ ~NewFile(j.recs).ragged
      /\ NewFile(j.recs).recs = j.recs /\ NewFile(j.recs).count = Count(j.recs)
  BY <1>1, <1>3, NewOne
<1>5. /\ FilesInv(ring, latest, G)
      /\ \A e \in DOMAIN F : e # k => e \in DOMAIN G /\ G[e] = F[e]
      /\ \A e \in DOMAIN G : e # k => e \in DOMAIN F /\ G[e] = F[e]
      /\ IF j.recs = {} THEN k \notin DOMAIN G ELSE k \in DOMAIN G /\ G[k] = NewFile(j.recs)
  <2>1. CASE j.recs = {}
    <3>1. G = Without(F, k)
      BY <2>1 DEF Rewritten
    <3>2. FilesInv(ring, latest, Without(F, k))
      BY <1>1, DropFile
    <3>3. DOMAIN G = DOMAIN F \ {k} /\ \A e \in DOMAIN F : e # k => G[e] = F[e]
      <4>1. /\ DOMAIN Without(F, k) = DOMAIN F \ {k}
            /\ \A e \in DOMAIN F : e # k => Without(F, k)[e] = F[e]
        BY WithoutIs
      <4> QED BY <3>1, <4>1
    <3>4. FilesInv(ring, latest, G)
      BY <3>1, <3>2
    <3> HIDE DEF G
    <3> QED BY <2>1, <3>3, <3>4
  <2>2. CASE j.recs # {}
    <3>1. G = With(F, k, NewFile(j.recs))
      BY <2>2 DEF Rewritten
    <3>2. FilesInv(ring, latest, With(F, k, NewFile(j.recs)))
      BY <1>1, <1>2, <1>4, PutFile
    <3>3. /\ DOMAIN G = DOMAIN F \cup {k} /\ G[k] = NewFile(j.recs)
          /\ \A e \in DOMAIN F : e # k => G[e] = F[e]
      <4> DEFINE f == NewFile(j.recs)
      <4>1. G = With(F, k, f)
        BY <3>1
      <4> HIDE DEF f
      <4>2. /\ DOMAIN With(F, k, f) = DOMAIN F \cup {k} /\ With(F, k, f)[k] = f
            /\ \A e \in DOMAIN F : e # k => With(F, k, f)[e] = F[e]
        BY DEF With
      <4>3. DOMAIN G = DOMAIN F \cup {k} /\ G[k] = f /\ \A e \in DOMAIN F : e # k => G[e] = F[e]
        BY <4>1, <4>2
      <4> QED BY <4>3 DEF f
    <3>4. FilesInv(ring, latest, G)
      BY <3>1, <3>2
    <3> HIDE DEF G
    <3> QED BY <2>2, <3>3, <3>4
  <2> QED BY <2>1, <2>2
<1> HIDE DEF G
<1>6. CoverInv(L, G, t, w)
  <2> SUFFICES ASSUME NEW q \in L, q <= w
               PROVE  \E e \in DOMAIN t :
                        /\ q \in e..t[e].last
                        /\ OnCard(G, e, q) \/ (MaxWorkerFails # 0 /\ (t[e].dirty \/ t[e].open))
    BY DEF CoverInv
  <2>1. PICK e \in DOMAIN t :
          /\ q \in e..t[e].last
          /\ OnCard(F, e, q) \/ (MaxWorkerFails # 0 /\ (t[e].dirty \/ t[e].open))
    BY DEF Book, CoverInv
  <2>2. CASE e # k
    BY <1>5, <2>1, <2>2 DEF OnCard
  <2>3. CASE e = k
    <3>1. q \in Seqs(j.recs)
      BY <2>1, <2>3 DEF RewritePlan
    <3>2. j.recs # {}
      BY <3>1 DEF Seqs
    <3>3. OnCard(G, k, q)
      BY <1>4, <1>5, <3>1, <3>2 DEF OnCard
    <3> QED BY <2>1, <2>3, <3>3
  <2> QED BY <2>2, <2>3
<1>7. BelowInv(G, t, w, r, k)
  BY <1>5 DEF Book, BelowInv
<1>8. TrustInv(G, t, r, k)
  BY <1>5 DEF Book, TrustInv, Exact
<1>9. SpanInv(G, t)
  <2> SUFFICES ASSUME NEW d \in DOMAIN G, NEW e \in DOMAIN t, d < e, NEW m \in G[d].recs
               PROVE  m.seq < e
    BY DEF SpanInv
  <2>1. CASE d # k
    BY <1>5, <2>1 DEF Book, SpanInv
  <2>2. CASE d = k
    BY <1>2, <1>4, <1>5, <2>2
  <2> QED BY <2>1, <2>2
<1>10. Landed(G, t, j)
  BY <1>1, <1>5 DEF Landed
<1>11. DOMAIN G \subseteq DOMAIN t
  BY <1>1, <1>5
<1> QED BY <1>5, <1>6, <1>7, <1>8, <1>9, <1>10, <1>11 DEF Book, G

(* Books that are exact are exact but for any one entry.                    *)
LEMMA BookAhead ==
  ASSUME NEW L, NEW n, NEW F, NEW t, NEW w, NEW r, NEW x, Book(L, n, F, t, w, r, 0)
  PROVE  Book(L, n, F, t, w, r, x)
<1>1. \A k \in DOMAIN t : k # 0
  BY DEF Book, TableInv
<1>2. BelowInv(F, t, w, r, x)
  BY <1>1 DEF Book, BelowInv
<1>3. TrustInv(F, t, r, x)
  BY <1>1 DEF Book, TrustInv
<1> QED BY <1>2, <1>3 DEF Book

Grown(F, G, j) ==
  /\ DOMAIN G = DOMAIN F \cup {j.first}
  /\ \A e \in DOMAIN F : e # j.first => G[e] = F[e]
  /\ \A q : OnCard(F, j.first, q) /\ ~j.create => OnCard(G, j.first, q)
  /\ \A m \in G[j.first].recs : m.seq <= j.last

(* An append, all of it or the first c records: what was there stays.       *)
LEMMA AppendLands ==
  ASSUME RingInv(ring, latest), FilesInv(ring, latest, files), NEW t, NEW w, NEW j,
         Book(LiveSeqs, latest, files, t, w, 0, 0), Shape(ring, latest, j),
         AppendPlan(LiveSeqs, t, w, j), DOMAIN files \subseteq DOMAIN t, NEW c \in Nat
  PROVE  /\ FilesInv(ring, latest, Appended(j, c))
         /\ Grown(files, Appended(j, c), j)
         /\ c = Count(j.recs) => Landed(Appended(j, c), t, j)
         /\ OneFile(ring, latest, j.first, Appended(j, c)[j.first])
         /\ FitsIn(files, j.first, Appended(j, c)[j.first].recs)
<1> DEFINE F == files
           k == j.first
           old == IF j.create THEN NewFile({}) ELSE IF k \in DOMAIN F THEN F[k] ELSE NoFile
           O == Oldest(j.recs, c)
           f == Extend(old, O)
           G == Appended(j, c)
<1>0. G = With(F, k, f)
  BY DEF Appended
<1>1. latest \in Nat /\ k \in 1..latest /\ k \in Nat /\ j.kind = "append" /\ j.create \in BOOLEAN
      /\ j.last \in Nat /\ w < j.last /\ \A y \in j.recs : w < y.seq
  BY DEF RingInv, Shape, AppendPlan, Jobs
<1>2. /\ FitsIn(F, k, j.recs) /\ Cardinality(DOMAIN F \cup {k}) <= SegMax
      /\ \A e \in DOMAIN t : e <= k
      /\ \A e \in DOMAIN F : \A m \in F[e].recs : m.seq <= w
      /\ w \in Nat /\ (j.create => k \notin DOMAIN F)
  BY <1>1, AppendFits
<1>3. /\ j.recs \in SUBSET Records /\ Known(ring, latest, j.recs) /\ Count(j.recs) <= SegRecords
      /\ \A y \in j.recs : k <= y.seq /\ y.seq <= j.last /\ y.seq \in Nat
  <2>1. j.first \in Nat /\ j.last \in Nat /\ \A y \in j.recs : y.seq \in j.first..j.last
    BY DEF Shape, Jobs
  <2> QED BY <2>1 DEF Shape, Jobs
<1>4. O \in SUBSET j.recs /\ O \in SUBSET Records /\ Known(ring, latest, O)
      /\ (c = Count(j.recs) => O = j.recs)
      /\ Count(O) \in Nat /\ Count(j.recs) \in Nat /\ Count(O) <= Count(j.recs)
  <2>1. \A y \in j.recs : y.seq <= latest
    BY <1>3 DEF Known
  <2>2. Seqs(j.recs) \in SUBSET (0..latest) /\ Count(j.recs) \in Nat
    BY <1>1, <1>3, <2>1, CountOf
  <2>3. O \subseteq j.recs /\ (Count(j.recs) <= c => O = j.recs)
    BY <1>1, <1>3, <2>2, OldestOf
  <2> HIDE DEF O
  <2>4. Seqs(O) \in SUBSET Seqs(j.recs)
    BY <2>3 DEF Seqs
  <2>5. Cardinality(Seqs(O)) <= Cardinality(Seqs(j.recs)) /\ Cardinality(Seqs(O)) \in Nat
    BY <1>1, <2>2, <2>4, Part
  <2> QED BY <1>3, <2>2, <2>3, <2>5 DEF Count, Known
<1>5. ASSUME MaxWorkerFails = 0 \/ ~t[k].dirty, ~j.create
      PROVE  Exact(F, k, t[k].disk)
  <2>1. k \in DOMAIN t /\ ~t[k].open /\ k # 0
    BY <1>1, <1>5 DEF AppendPlan
  <2> QED BY <1>5, <2>1 DEF Book, TrustInv
<1>6. /\ OneFile(ring, latest, k, old)
      /\ old.recs \in SUBSET Records
      /\ \A x \in old.recs : x.seq <= w /\ x.seq \in Nat
      /\ j.create => ~old.ragged /\ old.count = 0 /\ old.recs = {} /\ old.hdr
      /\ ~j.create /\ k \in DOMAIN F => old = F[k]
  <2>1. CASE j.create
    <3>1. /\ Known(ring, latest, {}) /\ {} \in SUBSET Records /\ Count({}) <= SegRecords
          /\ Count({}) = 0
      BY CountEmpty, SizesAssumption DEF Known
    <3>2. OneFile(ring, latest, k, NewFile({})) /\ ~NewFile({}).ragged /\ NewFile({}).recs = {}
          /\ NewFile({}).count = 0 /\ NewFile({}).hdr
      BY <1>1, <3>1, NewOne
    <3> QED BY <2>1, <3>2
  <2>2. CASE ~j.create /\ k \in DOMAIN F
    <3>1. old = F[k] /\ OneFile(ring, latest, k, F[k]) /\ F[k].recs \in SUBSET Records
      BY <2>2 DEF FilesInv, OneFile, Segments
    <3>2. \A x \in F[k].recs : x.seq <= w /\ x.seq \in Nat
      BY <1>2, <2>2, <3>1 DEF Records
    <3> QED BY <2>2, <3>1, <3>2
  <2>3. CASE ~j.create /\ k \notin DOMAIN F
    <3>1. old = NoFile
      BY <2>3
    <3>2. MaxWorkerFails # 0
      BY <1>5, <2>3 DEF Exact
    <3>3. NoFile \in Segments /\ NoFile.recs = {}
      BY DEF NoFile, Segments
    <3>4. OneFile(ring, latest, k, NoFile)
      BY <3>2, <3>3 DEF OneFile, Known
    <3> QED BY <2>3, <3>1, <3>3, <3>4
  <2> QED BY <2>1, <2>2, <2>3
<1> HIDE DEF old, O
<1>7. \A x \in old.recs, y \in O : x.seq < y.seq
  <2> SUFFICES ASSUME NEW x \in old.recs, NEW y \in O PROVE x.seq < y.seq
    OBVIOUS
  <2>1. x.seq <= w /\ x.seq \in Nat /\ w \in Nat
    BY <1>2, <1>6
  <2>2. y \in j.recs /\ w < y.seq /\ y.seq \in Nat
    BY <1>1, <1>3, <1>4
  <2> QED BY <2>1, <2>2
<1>8. MaxWorkerFails = 0 => old.count + Count(O) <= SegRecords
  <2>0. SegRecords \in Nat
    BY SizesAssumption
  <2>1. CASE j.create
    BY <1>3, <1>4, <1>6, <2>0, <2>1
  <2>2. CASE ~j.create
    <3>1. k \in DOMAIN t /\ t[k].disk + Count(j.recs) <= SegRecords
      BY <2>2 DEF AppendPlan
    <3>2. t[k].disk \in Nat
      <4>1. t \in [DOMAIN t -> Entries]
        BY DEF Book, TableInv
      <4> QED BY <3>1, <4>1 DEF Entries
    <3>3. ASSUME MaxWorkerFails = 0 PROVE old.count = t[k].disk
      BY <1>5, <1>6, <2>2, <3>3 DEF Exact
    <3> QED BY <1>4, <2>0, <3>1, <3>2, <3>3
  <2> QED BY <2>1, <2>2
<1>9. \A x \in O : k <= x.seq
  BY <1>3, <1>4
<1>10. /\ OneFile(ring, latest, k, f) /\ f.hdr = old.hdr
       /\ Seqs(old.recs) \subseteq Seqs(f.recs) /\ f.recs \subseteq old.recs \cup O
       /\ f.ragged = old.ragged
       /\ ~old.ragged => f.recs = old.recs \cup O /\ f.count = old.count + Count(O)
  <2>1. Takes(k, old, O)
    BY <1>7, <1>8, <1>9 DEF Takes
  <2>2. O \in SUBSET Records /\ Known(ring, latest, O) /\ OneFile(ring, latest, k, old)
        /\ latest \in Nat
    BY <1>1, <1>4, <1>6
  <2>3. OneFile(ring, latest, k, Extend(old, O)) /\ Taken(old, O, Extend(old, O))
    BY <2>1, <2>2, ExtendOne
  <2> QED BY <1>7, <2>3 DEF Taken
<1>11. f = NewFile(f.recs) \/ ~j.create \/ f.count # Count(f.recs)
  <2>1. CASE j.create /\ f.count = Count(f.recs)
    <3>1. f \in Segments /\ f.hdr /\ ~f.ragged
      BY <1>6, <1>10, <2>1 DEF OneFile
    <3> HIDE DEF f
    <3> QED BY <2>1, <3>1 DEF Segments, NewFile
  <2>2. j.create \in BOOLEAN
    BY <1>1
  <2> QED BY <2>1, <2>2
<1> HIDE DEF f
<1>12. FitsIn(F, k, f.recs)
  <2> SUFFICES ASSUME NEW e \in DOMAIN F, k < e, NEW x \in f.recs PROVE x.seq < e
    BY <1>2 DEF FitsIn
  <2>1. CASE x \in O
    BY <1>2, <1>4, <2>1 DEF FitsIn
  <2>2. CASE x \in old.recs
    <3>1. k \in DOMAIN F \/ old.recs = {}
      BY <1>6 DEF old, NoFile
    <3>2. ~j.create
      BY <1>6, <2>2
    <3>3. k \in DOMAIN F /\ x \in F[k].recs
      BY <1>6, <2>2, <3>1, <3>2
    <3> QED BY <3>3 DEF FilesInv
  <2> QED BY <1>10, <2>1, <2>2
<1>13. FilesInv(ring, latest, With(F, k, f))
  BY <1>1, <1>2, <1>10, <1>12, PutFile
<1>14. /\ DOMAIN G = DOMAIN F \cup {k} /\ G[k] = f
       /\ \A e \in DOMAIN F : e # k => G[e] = F[e]
  <2>1. /\ DOMAIN With(F, k, f) = DOMAIN F \cup {k} /\ With(F, k, f)[k] = f
        /\ \A e \in DOMAIN F : e # k => With(F, k, f)[e] = F[e]
    BY DEF With
  <2> QED BY <1>0, <2>1
<1>15. FilesInv(ring, latest, G)
  BY <1>0, <1>13
<1> HIDE DEF G
<1>16. ASSUME NEW q, OnCard(F, k, q), ~j.create PROVE OnCard(G, k, q)
  <2>1. old = F[k]
    BY <1>6, <1>16 DEF OnCard
  <2> QED BY <1>10, <1>14, <1>16, <2>1 DEF OnCard
<1>17. \A m \in f.recs : m.seq <= j.last
  <2>1. \A m \in old.recs : m.seq <= j.last
    <3> SUFFICES ASSUME NEW m \in old.recs PROVE m.seq <= j.last
      OBVIOUS
    <3>1. m.seq \in Nat /\ m.seq <= w /\ w \in Nat
      BY <1>2, <1>6
    <3> QED BY <1>1, <3>1
  <2>2. \A m \in O : m.seq <= j.last
    BY <1>3, <1>4
  <2> QED BY <1>10, <2>1, <2>2
<1>18. ASSUME c = Count(j.recs) PROVE Landed(G, t, j)
  <2>1. O = j.recs
    BY <1>4, <1>18
  <2>2. ASSUME j.create PROVE f = NewFile(j.recs)
    <3>1. f.recs = j.recs /\ f.count = Count(j.recs)
      <4>1. ~old.ragged /\ old.count = 0 /\ old.recs = {}
        BY <1>6, <2>2
      <4>2. f.recs = old.recs \cup O /\ f.count = old.count + Count(O)
        BY <1>10, <4>1
      <4>3. f.recs = j.recs
        BY <2>1, <4>1, <4>2
      <4>4. f.count = 0 + Count(j.recs)
        BY <2>1, <4>1, <4>2
      <4> QED BY <1>4, <4>3, <4>4
    <3> QED BY <1>11, <2>2, <3>1
  <2>3. ASSUME ~j.create, MaxWorkerFails # 0 => ~t[k].dirty
        PROVE  Exact(G, k, t[k].disk + Count(j.recs)) /\ Seqs(j.recs) \subseteq Seqs(G[k].recs)
    <3>1. Exact(F, k, t[k].disk)
      BY <1>5, <2>3
    <3>2. old = F[k] /\ ~old.ragged /\ old.hdr /\ old.count = t[k].disk
      BY <1>6, <2>3, <3>1 DEF Exact
    <3>3. f.recs = old.recs \cup O /\ f.count = t[k].disk + Count(j.recs) /\ f.hdr /\ ~f.ragged
      BY <1>10, <2>1, <3>2
    <3>4. Seqs(j.recs) \subseteq Seqs(f.recs)
      BY <2>1, <3>3 DEF Seqs
    <3> QED BY <1>14, <3>3, <3>4 DEF Exact
  <2> QED BY <1>1, <1>14, <1>17, <2>2, <2>3 DEF Landed
<1>19. Grown(F, G, j)
  BY <1>14, <1>16, <1>17 DEF Grown
<1> QED BY <1>10, <1>12, <1>14, <1>15, <1>18, <1>19 DEF G

(* One file is touched: the books hold but for that file's entry.           *)
LEMMA Touched ==
  ASSUME NEW L, NEW n, NEW F, NEW G, NEW t, NEW w, NEW k, Book(L, n, F, t, w, 0, 0),
         \A e : e # k => (e \in DOMAIN G <=> e \in DOMAIN F),
         \A e \in DOMAIN F : e # k => G[e] = F[e],
         \A q : k \in DOMAIN t /\ OnCard(F, k, q) =>
           OnCard(G, k, q) \/ (MaxWorkerFails # 0 /\ (t[k].dirty \/ t[k].open)),
         k \in DOMAIN G => \A e \in DOMAIN t : k < e => \A m \in G[k].recs : m.seq < e
  PROVE  /\ Book(L, n, G, t, w, 0, k) /\ Book(L, n, G, t, w, k, 0)
         /\ MaxWorkerFails # 0 /\ k \in DOMAIN t /\ (t[k].dirty \/ t[k].open) /\ k \notin DOMAIN G
              => Book(L, n, G, t, w, 0, 0)
<1>0. \A e \in DOMAIN t : e # 0
  BY DEF Book, TableInv
<1>1. CoverInv(L, G, t, w)
  <2> SUFFICES ASSUME NEW q \in L, q <= w
               PROVE  \E e \in DOMAIN t :
                        /\ q \in e..t[e].last
                        /\ OnCard(G, e, q) \/ (MaxWorkerFails # 0 /\ (t[e].dirty \/ t[e].open))
    BY DEF CoverInv
  <2>1. PICK e \in DOMAIN t :
          /\ q \in e..t[e].last
          /\ OnCard(F, e, q) \/ (MaxWorkerFails # 0 /\ (t[e].dirty \/ t[e].open))
    BY DEF Book, CoverInv
  <2>2. CASE e # k
    BY <2>1, <2>2 DEF OnCard
  <2>3. CASE e = k
    BY <2>1, <2>3
  <2> QED BY <2>2, <2>3
<1>2. \A e \in DOMAIN t : e # k /\ e \in DOMAIN G => e \in DOMAIN F /\ G[e] = F[e]
  OBVIOUS
<1>3. BelowInv(G, t, w, 0, k) /\ BelowInv(G, t, w, k, 0)
      /\ (k \notin DOMAIN G => BelowInv(G, t, w, 0, 0))
  BY <1>0, <1>2 DEF Book, BelowInv
<1>4. TrustInv(G, t, 0, k) /\ TrustInv(G, t, k, 0)
      /\ (MaxWorkerFails # 0 /\ k \in DOMAIN t /\ (t[k].dirty \/ t[k].open) => TrustInv(G, t, 0, 0))
  <2>1. \A e \in DOMAIN t : e # k /\ e # 0 =>
          (~t[e].open /\ (MaxWorkerFails # 0 => ~t[e].dirty) => Exact(G, e, t[e].disk))
    BY <1>2 DEF Book, TrustInv, Exact
  <2> QED BY <1>0, <2>1 DEF TrustInv
<1>5. SpanInv(G, t)
  BY DEF Book, SpanInv
<1> QED BY <1>1, <1>3, <1>4, <1>5 DEF Book

(* The worker takes the job, and at its end says so.                        *)
LEMMA ClaimStep ==
  ASSUME HInvariant, Powered, Claim \/ Finish
  PROVE  HInvariant'
<1>1. /\ UNCHANGED <<ring, latest, h, flushOk, repair, drain, files, marker, used>>
      /\ \/ worker = "queued" /\ worker' = "running"
         \/ worker = "finishing" /\ worker' = "idle"
  BY DEF Claim, Finish, ram, disk
<1>2. Done' = Done /\ Ahead' = Ahead /\ Powered'
  BY <1>1 DEF Done, Ahead, Powered
<1>3. /\ RingInv(ring, latest)' /\ FilesInv(ring, latest, files)' /\ Calm'
      /\ Book(LiveSeqs, latest, files, h.table, h.flushed, repair, Ahead)'
      /\ (~h.dirty => latest <= h.flushed)'
  BY <1>1, <1>2 DEF HInvariant, Calm, LiveSeqs, Powered
<1>4. JobInv'
  BY <1>1, <1>2 DEF HInvariant, JobInv, Done, LiveSeqs
<1>5. StrayInv'
  <2>1. \A k : Stray(k)' = Stray(k)
    BY <1>1 DEF Stray, Astray, LiveSeqs, Creates, Active
  <2> QED BY <1>1, <1>2, <2>1 DEF HInvariant, StrayInv
<1>6. DrainInv'
  BY <1>1, <1>2 DEF HInvariant, DrainInv, LiveSeqs
<1> QED BY <1>2, <1>3, <1>4, <1>5, <1>6 DEF HInvariant

(* What the worker can count on while it holds a job.                       *)
LEMMA AtWork ==
  ASSUME HInvariant, Powered, worker \in {"queued", "running"}
  PROVE  /\ h.job.kind # "none" /\ Shape(ring, latest, h.job) /\ repair = 0
         /\ Plan(LiveSeqs, h.table, h.flushed, h.job)
         /\ Book(LiveSeqs, latest, files, h.table, h.flushed, 0, 0)
         /\ DOMAIN files \subseteq DOMAIN h.table
         /\ drain.pc \notin {"build", "write"} /\ drain.job = NoJob
<1>1. /\ Book(LiveSeqs, latest, files, h.table, h.flushed, repair, Ahead)
      /\ JobInv /\ StrayInv /\ DrainInv
  BY DEF HInvariant
<1>2. ~Done
  BY DEF Done
<1>3. drain.pc \notin {"build", "write"} /\ drain.job = NoJob
  BY <1>1 DEF DrainInv
<1>4. Ahead = 0
  BY <1>2, <1>3 DEF Ahead, NoJob
<1>5. /\ h.job.kind # "none" /\ Shape(ring, latest, h.job) /\ repair = 0
      /\ Plan(LiveSeqs, h.table, h.flushed, h.job)
  BY <1>1, <1>2 DEF JobInv
<1>6. DOMAIN files \subseteq DOMAIN h.table
  BY <1>1, <1>2, <1>3 DEF StrayInv, Stray
<1> QED BY <1>1, <1>3, <1>4, <1>5, <1>6

(* The worker writes its file.                                              *)
LEMMA RunJobStep ==
  ASSUME HInvariant, Powered, RunJob
  PROVE  HInvariant'
<1> DEFINE j == h.job
           G == files'
<1>1. /\ worker = "running" /\ worker' = "finishing" /\ files' = Written(j) /\ flushOk' = TRUE
      /\ UNCHANGED <<ring, latest, h, repair, drain, marker, used>>
  BY DEF RunJob, ram
<1>2. /\ RingInv(ring, latest) /\ FilesInv(ring, latest, files) /\ Calm
      /\ (~h.dirty => latest <= h.flushed) /\ JobInv /\ DrainInv
  BY DEF HInvariant
<1>3. /\ j.kind # "none" /\ Shape(ring, latest, j) /\ repair = 0
      /\ Plan(LiveSeqs, h.table, h.flushed, j)
      /\ Book(LiveSeqs, latest, files, h.table, h.flushed, 0, 0)
      /\ DOMAIN files \subseteq DOMAIN h.table
      /\ drain.pc \notin {"build", "write"} /\ drain.job = NoJob
  BY <1>1, AtWork
<1>4. Done' /\ Ahead' = j.first /\ Powered'
  BY <1>1, <1>3 DEF Done, Ahead, Powered
<1>5. /\ FilesInv(ring, latest, G) /\ Landed(G, h.table, j)
      /\ Book(LiveSeqs, latest, G, h.table, h.flushed, 0, j.first)
      /\ \A k \in DOMAIN G \ DOMAIN h.table : j.kind = "append" /\ j.create /\ k = j.first
  <2>1. CASE RewritePlan(LiveSeqs, h.table, h.flushed, j)
    <3>1. G = Rewritten(j)
      BY <1>1, <2>1 DEF Written, RewritePlan
    <3>2. Book(LiveSeqs, latest, files, h.table, h.flushed, 0, j.first)
      BY <1>3, BookAhead
    <3>3. /\ FilesInv(ring, latest, Rewritten(j))
          /\ Book(LiveSeqs, latest, Rewritten(j), h.table, h.flushed, 0, j.first)
          /\ Landed(Rewritten(j), h.table, j) /\ DOMAIN Rewritten(j) \subseteq DOMAIN h.table
      BY <1>2, <1>3, <2>1, <3>2, RewriteLands
    <3> QED BY <3>1, <3>3
  <2>2. CASE AppendPlan(LiveSeqs, h.table, h.flushed, j)
    <3> DEFINE c == Count(j.recs)
               A == Appended(j, c)
    <3>1. G = A
      BY <1>1, <2>2 DEF Written, AppendPlan
    <3>2. c \in Nat /\ latest \in Nat
      <4>1. j.recs \in SUBSET Records /\ \A x \in j.recs : x.seq <= latest
        BY <1>3 DEF Shape, Jobs, Known
      <4> QED BY <1>2, <4>1, CountOf DEF RingInv
    <3> HIDE DEF c
    <3>0. /\ FilesInv(ring, latest, A) /\ Grown(files, A, j)
          /\ c = Count(j.recs) => Landed(A, h.table, j)
      BY <1>2, <1>3, <2>2, <3>2, AppendLands
    <3>3. /\ FilesInv(ring, latest, A) /\ DOMAIN A = DOMAIN files \cup {j.first}
          /\ \A e \in DOMAIN files : e # j.first => A[e] = files[e]
          /\ \A q : OnCard(files, j.first, q) /\ ~j.create => OnCard(A, j.first, q)
          /\ c = Count(j.recs) => Landed(A, h.table, j)
      BY <3>0 DEF Grown
    <3>4. \A e \in DOMAIN h.table : ~(j.first < e)
      <4>1. \A e \in DOMAIN h.table : e <= j.first
        BY <1>2, <1>3, <2>2, <3>2, AppendFits
      <4>2. j.first \in Nat /\ DOMAIN h.table \subseteq Nat
        BY <1>3 DEF Shape, Jobs, Book, TableInv
      <4> QED BY <4>1, <4>2
    <3>5. j.first \in DOMAIN h.table => ~j.create
      BY <2>2 DEF AppendPlan
    <3> HIDE DEF A
    <3>6. Book(LiveSeqs, latest, A, h.table, h.flushed, 0, j.first)
      BY <1>3, <3>3, <3>4, <3>5, Touched
    <3>7. Landed(A, h.table, j)
      BY <3>3 DEF c
    <3>8. j.kind = "append" /\ (~j.create => j.first \in DOMAIN h.table)
      BY <2>2 DEF AppendPlan
    <3>9. \A k \in DOMAIN A \ DOMAIN h.table : j.kind = "append" /\ j.create /\ k = j.first
      BY <1>3, <3>3, <3>8
    <3> QED BY <3>1, <3>3, <3>6, <3>7, <3>9
  <2> QED BY <1>3, <2>1, <2>2 DEF Plan
<1> HIDE DEF j
<1>6. (~h.dirty => latest <= h.flushed)' /\ RingInv(ring, latest)'
  BY <1>1, <1>2
<1>7. Calm'
  BY <1>1, <1>2, <1>4 DEF Calm
<1>8. JobInv'
  BY <1>1, <1>3, <1>4, <1>5 DEF JobInv, LiveSeqs, j
<1>9. StrayInv'
  BY <1>1, <1>4, <1>5 DEF StrayInv, j
<1>10. DrainInv'
  BY <1>1, <1>2, <1>3 DEF DrainInv
<1>11. Book(LiveSeqs, latest, files, h.table, h.flushed, repair, Ahead)'
  BY <1>1, <1>3, <1>4, <1>5 DEF LiveSeqs
<1>12. FilesInv(ring, latest, files)'
  BY <1>1, <1>5
<1> QED BY <1>4, <1>6, <1>7, <1>8, <1>9, <1>10, <1>11, <1>12 DEF HInvariant

(* What a failed write must leave for the invariant to hold.                *)
LEMMA FailStep ==
  ASSUME HInvariant, Powered, worker = "running", worker' = "finishing", flushOk' = FALSE,
         UNCHANGED <<ring, latest, h, drain, marker>>, used' \in Uses, used'.syncFails = 0,
         MaxWorkerFails # 0, repair' \in Nat, FilesInv(ring, latest, files'),
         Book(LiveSeqs, latest, files', h.table, h.flushed, repair', 0),
         DOMAIN files' \subseteq DOMAIN h.table
  PROVE  HInvariant'
<1>1. /\ RingInv(ring, latest) /\ Calm /\ (~h.dirty => latest <= h.flushed) /\ JobInv /\ DrainInv
  BY DEF HInvariant
<1>2. /\ h.job.kind # "none" /\ drain.pc \notin {"build", "write"} /\ drain.job = NoJob
      /\ Shape(ring, latest, h.job) /\ Plan(LiveSeqs, h.table, h.flushed, h.job)
  BY AtWork
<1>3. Done' /\ Ahead' = 0 /\ Powered'
  BY <1>2 DEF Done, Ahead, Powered, NoJob
<1>4. Calm'
  BY <1>1, <1>3 DEF Calm
<1>5. JobInv'
  BY <1>2, <1>3 DEF JobInv, LiveSeqs
<1>6. StrayInv'
  BY DEF StrayInv
<1>7. DrainInv'
  BY <1>1, <1>2 DEF DrainInv
<1>8. /\ RingInv(ring, latest)' /\ FilesInv(ring, latest, files)'
      /\ Book(LiveSeqs, latest, files, h.table, h.flushed, repair, Ahead)'
      /\ (~h.dirty => latest <= h.flushed)'
  BY <1>1, <1>3 DEF LiveSeqs
<1> QED BY <1>3, <1>4, <1>5, <1>6, <1>7, <1>8 DEF HInvariant

(* The worker fails, at any point of its write.                             *)
LEMMA RunJobFailsStep ==
  ASSUME HInvariant, Powered, RunJobFails
  PROVE  HInvariant'
<1> DEFINE j == h.job
           t == h.table
           w == h.flushed
           k == h.job.first
<1>1. /\ worker = "running" /\ worker' = "finishing" /\ flushOk' = FALSE
      /\ UNCHANGED <<ring, latest, h, drain, marker>>
      /\ used.workerFails < MaxWorkerFails /\ Spend("workerFails")
  BY DEF RunJobFails, ram
<1>2. /\ RingInv(ring, latest) /\ FilesInv(ring, latest, files) /\ latest \in Nat
      /\ used \in Uses /\ used.syncFails = 0
  BY DEF HInvariant, Calm, RingInv
<1>3. MaxWorkerFails # 0 /\ used' \in Uses /\ used'.syncFails = 0
  BY <1>1, <1>2 DEF Uses, Spend, Spent
<1>4. /\ j.kind # "none" /\ Shape(ring, latest, j) /\ repair = 0 /\ Plan(LiveSeqs, t, w, j)
      /\ Book(LiveSeqs, latest, files, t, w, 0, 0) /\ DOMAIN files \subseteq DOMAIN t
  BY <1>1, AtWork
<1>5. k \in 1..latest /\ k \in Nat
  BY <1>2, <1>4 DEF Shape
<1> HIDE DEF t, w, j, k
<1>6. CASE UNCHANGED <<files, repair>>
  BY <1>1, <1>2, <1>3, <1>4, <1>6, FailStep DEF t, w
<1> DEFINE Gone == Without(files, k)
<1>7. FilesInv(ring, latest, Gone) /\ DOMAIN Gone \subseteq DOMAIN t
  <2>1. FilesInv(ring, latest, Without(files, k))
    BY <1>2, DropFile
  <2> QED BY <1>4, <2>1 DEF Without
<1>8. /\ \A e : e # k => (e \in DOMAIN Gone <=> e \in DOMAIN files)
      /\ \A e \in DOMAIN files : e # k => Gone[e] = files[e]
      /\ k \notin DOMAIN Gone
  BY DEF Without
<1> HIDE DEF Gone
<1>9. CASE j.kind = "append" /\ repair' = k /\ j.create /\ files' = Gone
  <2>1. k \notin DOMAIN t
    BY <1>4, <1>9 DEF Plan, AppendPlan, RewritePlan, j, k
  <2>2. Book(LiveSeqs, latest, Gone, t, w, k, 0)
    BY <1>4, <1>8, <2>1, Touched
  <2> QED BY <1>1, <1>2, <1>3, <1>5, <1>7, <1>9, <2>2, FailStep DEF t, w
<1>10. CASE j.kind = "compact" /\ files' = Gone /\ UNCHANGED repair
  <2>1. k \in DOMAIN t /\ (t[k].dirty \/ t[k].open)
    BY <1>4, <1>10 DEF Plan, AppendPlan, RewritePlan, j, k
  <2>2. Book(LiveSeqs, latest, Gone, t, w, 0, 0)
    BY <1>3, <1>4, <1>8, <2>1, Touched
  <2> QED BY <1>1, <1>2, <1>3, <1>4, <1>7, <1>10, <2>2, FailStep DEF t, w
<1>11. ASSUME j.kind = "append", repair' = k, ~j.create, NEW c \in 0..(Count(j.recs) - 1),
              files' \in {Appended(j, c), Split(j, c)}
       PROVE  HInvariant'
  <2> DEFINE A == Appended(j, c)
             g == [A[k] EXCEPT !.ragged = TRUE]
  <2>1. AppendPlan(LiveSeqs, t, w, j) /\ k = j.first
    BY <1>4, <1>11 DEF Plan, RewritePlan, j, k
  <2>2. c \in Nat
    OBVIOUS
  <2>3. /\ FilesInv(ring, latest, A) /\ Grown(files, A, j)
        /\ OneFile(ring, latest, j.first, A[j.first])
        /\ FitsIn(files, j.first, A[j.first].recs)
    BY <1>2, <1>4, <2>1, <2>2, AppendLands
  <2>4. /\ DOMAIN A = DOMAIN files \cup {k}
        /\ \A e \in DOMAIN files : e # k => A[e] = files[e]
        /\ \A q : OnCard(files, k, q) => OnCard(A, k, q)
    BY <1>11, <2>1, <2>3 DEF Grown
  <2>5. k \in DOMAIN t /\ \A e \in DOMAIN t : ~(k < e)
    <3>1. k \in DOMAIN t /\ \A e \in DOMAIN t : e <= k
      BY <1>11, <2>1 DEF AppendPlan
    <3>2. DOMAIN t \subseteq Nat
      BY <1>4 DEF Book, TableInv
    <3> QED BY <1>5, <3>1, <3>2
  <2>6. DOMAIN A \subseteq DOMAIN t
    BY <1>4, <2>4, <2>5
  <2>7. Split(j, c) = With(files, k, g) /\ A = With(files, k, A[k])
    BY <2>1 DEF Split, Appended, With
  <2> HIDE DEF A
  <2>8. g \in Segments /\ g.recs = A[k].recs /\ g.hdr = A[k].hdr
    BY <2>1, <2>3 DEF OneFile, Segments
  <2>9. OneFile(ring, latest, k, g)
    BY <1>3, <2>1, <2>3, <2>8 DEF OneFile
  <2> DEFINE G == With(files, k, g)
  <2>10. /\ DOMAIN G = DOMAIN files \cup {k} /\ G[k] = g
         /\ \A e \in DOMAIN files : e # k => G[e] = files[e]
    BY DEF With
  <2>11. FilesInv(ring, latest, G)
    <3>1. Cardinality(DOMAIN files \cup {k}) <= SegMax
      BY <1>2, <1>4, <2>1, AppendFits
    <3> QED BY <1>2, <1>5, <2>1, <2>3, <2>8, <2>9, <3>1, PutFile
  <2> HIDE DEF g
  <2>12. \A q : OnCard(files, k, q) => OnCard(G, k, q)
    BY <2>4, <2>8, <2>10 DEF OnCard
  <2> HIDE DEF G
  <2>13. Book(LiveSeqs, latest, A, t, w, k, 0)
    BY <1>4, <2>4, <2>5, Touched
  <2>14. Book(LiveSeqs, latest, G, t, w, k, 0)
    BY <1>4, <2>5, <2>10, <2>12, Touched
  <2>15. DOMAIN G \subseteq DOMAIN t
    BY <2>4, <2>6, <2>10
  <2>16. files' = A \/ files' = G
    BY <1>11, <2>7 DEF A, G
  <2>17. CASE files' = A
    BY <1>1, <1>3, <1>5, <1>11, <2>3, <2>6, <2>13, <2>17, FailStep DEF t, w
  <2>18. CASE files' = G
    BY <1>1, <1>3, <1>5, <1>11, <2>11, <2>15, <2>14, <2>18, FailStep DEF t, w
  <2> QED BY <2>16, <2>17, <2>18
<1> QED BY <1>6, <1>9, <1>10, <1>11 DEF RunJobFails, j, k, Gone

-----------------------------------------------------------------------------
(* Entries that are written.                                                *)

(* A live message under the watermark and behind the name of a segment, but *)
(* not behind the next one, lies in that segment.                           *)
LEMMA NoGap ==
  ASSUME NEW L, L \subseteq Nat, NEW n \in Nat, NEW F, NEW t, NEW w, NEW r, NEW x,
         Book(L, n, F, t, w, r, x),
         NEW k \in DOMAIN t, NEW q \in L, k <= q, q <= w, \A e \in DOMAIN t : k < e => q < e
  PROVE  q \in k..t[k].last
<1>1. PICK e \in DOMAIN t : q \in e..t[e].last
  BY DEF Book, CoverInv
<1>2. DOMAIN t \subseteq 1..n /\ (e < k => t[e].last < k)
  BY DEF Book, TableInv
<1>3. e \in Nat /\ k \in Nat /\ q \in Nat /\ e <= q
  BY <1>1, <1>2
<1>4. t[e].last \in Nat
  <2>1. t \in [DOMAIN t -> Entries]
    BY DEF Book, TableInv
  <2> QED BY <2>1 DEF Entries
<1>5. ~(k < e)
  BY <1>3
<1>6. ~(e < k)
  BY <1>1, <1>2, <1>3, <1>4
<1> QED BY <1>1, <1>3, <1>5, <1>6

(* What an entry f put at the key k needs, for the watermark to move to w2. *)
EntryFits(L, n, F, t, w, k, f, w2) ==
  /\ f \in Entries /\ k \in 1..n /\ w2 \in 0..n /\ w <= w2
  /\ f.last <= w2 /\ f.disk <= SegRecords
  /\ Cardinality({q \in L : q \in k..f.last}) <= f.disk
  /\ Cardinality(DOMAIN t \cup {k}) <= SegMax
  /\ \A e \in DOMAIN t : (e < k => t[e].last < k) /\ (k < e => f.last < e)
  /\ \A d \in DOMAIN F : d < k => \A m \in F[d].recs : m.seq < k
  /\ \A q \in L : q <= w2 /\ (w < q \/ (k \in DOMAIN t /\ q \in k..t[k].last)) =>
       /\ q \in k..f.last
       /\ OnCard(F, k, q) \/ (MaxWorkerFails # 0 /\ (f.dirty \/ f.open))
EntryExact(F, k, f, w2) ==
  /\ k <= w2 /\ (k \in DOMAIN F => \A m \in F[k].recs : m.seq <= w2)
  /\ ~f.open /\ (MaxWorkerFails # 0 => ~f.dirty) => Exact(F, k, f.disk)

Puts(t, k, f, t2) ==
  DOMAIN t2 = DOMAIN t \cup {k} /\ t2 = [e \in DOMAIN t2 |-> IF e = k THEN f ELSE t[e]]

(* The books hold when one entry is put to what its file is.                *)
LEMMA PutEntry ==
  ASSUME NEW R, NEW L, L \subseteq Nat, NEW n \in Nat, NEW F, FilesInv(R, n, F),
         NEW t, NEW w, NEW r, NEW k, NEW f, NEW w2, NEW t2,
         Book(L, n, F, t, w, r, k), EntryFits(L, n, F, t, w, k, f, w2),
         Puts(t, k, f, t2)
  PROVE  /\ Book(L, n, F, t2, w2, r, k)
         /\ EntryExact(F, k, f, w2) => Book(L, n, F, t2, w2, r, 0)
<1>1. /\ t2[k] = f /\ \A e \in DOMAIN t : e # k => t2[e] = t[e]
      /\ DOMAIN t2 = DOMAIN t \cup {k} /\ t2 = [e \in DOMAIN t2 |-> IF e = k THEN f ELSE t[e]]
  BY DEF Puts
<1>2. /\ t \in [DOMAIN t -> Entries] /\ DOMAIN t \subseteq 1..n /\ w \in Nat
      /\ \A e \in DOMAIN t : t[e].last <= w
  <2>1. w \in 0..n /\ t \in [DOMAIN t -> Entries] /\ DOMAIN t \subseteq 1..n
    BY DEF Book, TableInv
  <2>2. \A e \in DOMAIN t : t[e].last <= w
    BY DEF Book, TableInv
  <2> QED BY <2>1, <2>2
<1>3. /\ f \in Entries /\ f.last \in Nat /\ f.disk \in Nat /\ k \in 1..n /\ k \in Nat
      /\ w2 \in 0..n /\ w2 \in Nat /\ w <= w2 /\ f.last <= w2 /\ f.disk <= SegRecords
      /\ \A e \in DOMAIN t : (e < k => t[e].last < k) /\ (k < e => f.last < e)
  BY DEF EntryFits, Entries
<1>4. TableInv(L, n, t2, w2)
  <2>1. t2 \in [DOMAIN t2 -> Entries] /\ DOMAIN t2 \subseteq 1..n
    BY <1>1, <1>2, <1>3
  <2>2. Cardinality(DOMAIN t2) <= SegMax
    BY <1>1 DEF EntryFits
  <2>3. ASSUME NEW e \in DOMAIN t2
        PROVE  /\ t2[e].disk <= SegRecords /\ t2[e].last <= w2
               /\ Cardinality({q \in L : q \in e..t2[e].last}) <= t2[e].disk
    <3>1. CASE e = k
      BY <1>1, <1>3, <3>1 DEF EntryFits
    <3>2. CASE e # k
      <4>1. e \in DOMAIN t /\ t2[e] = t[e]
        BY <1>1, <3>2
      <4>2. t[e].last <= w /\ t[e].last \in Nat
        BY <1>2, <4>1 DEF Entries
      <4>3. t[e].last <= w2
        BY <1>2, <1>3, <4>2
      <4> QED BY <4>1, <4>3 DEF Book, TableInv
    <3> QED BY <3>1, <3>2
  <2>4. ASSUME NEW d \in DOMAIN t2, NEW e \in DOMAIN t2, d < e PROVE t2[d].last < e
    <3>0. d # e
      BY <2>1, <2>4
    <3>1. CASE d = k
      BY <1>1, <1>3, <2>4, <3>0, <3>1
    <3>2. CASE e = k
      BY <1>1, <1>3, <2>4, <3>0, <3>2
    <3>3. CASE d # k /\ e # k
      BY <1>1, <2>4, <3>3 DEF Book, TableInv
    <3> QED BY <3>1, <3>2, <3>3
  <2> QED BY <1>3, <2>1, <2>2, <2>3, <2>4 DEF TableInv
<1>5. CoverInv(L, F, t2, w2)
  <2> SUFFICES ASSUME NEW q \in L, q <= w2
               PROVE  \E e \in DOMAIN t2 :
                        /\ q \in e..t2[e].last
                        /\ OnCard(F, e, q) \/ (MaxWorkerFails # 0 /\ (t2[e].dirty \/ t2[e].open))
    BY DEF CoverInv
  <2>1. CASE w < q \/ (k \in DOMAIN t /\ q \in k..t[k].last)
    BY <1>1, <2>1 DEF EntryFits
  <2>2. CASE ~(w < q \/ (k \in DOMAIN t /\ q \in k..t[k].last))
    <3>1. q <= w
      BY <1>2, <2>2
    <3>2. PICK e \in DOMAIN t :
            /\ q \in e..t[e].last
            /\ OnCard(F, e, q) \/ (MaxWorkerFails # 0 /\ (t[e].dirty \/ t[e].open))
      BY <3>1 DEF Book, CoverInv
    <3>3. e # k
      BY <2>2, <3>2
    <3> QED BY <1>1, <3>2, <3>3
  <2> QED BY <2>1, <2>2
<1>6. ASSUME NEW e \in DOMAIN t2, e # k
      PROVE  /\ e <= w2
             /\ ~t2[e].open /\ e # r /\ e \in DOMAIN F => \A m \in F[e].recs : m.seq <= w2
             /\ ~t2[e].open /\ e # r /\ (MaxWorkerFails # 0 => ~t2[e].dirty)
                  => Exact(F, e, t2[e].disk)
  <2>1. e \in DOMAIN t /\ t2[e] = t[e] /\ e \in Nat
    BY <1>1, <1>2, <1>6
  <2>2. e <= w /\ (~t[e].open /\ e # r /\ e \in DOMAIN F => \A m \in F[e].recs : m.seq <= w)
    BY <1>6, <2>1 DEF Book, BelowInv
  <2>3. e \in DOMAIN F => \A m \in F[e].recs : m.seq \in Nat
    BY DEF FilesInv, OneFile, Segments, Records
  <2>4. ~t[e].open /\ e # r /\ (MaxWorkerFails # 0 => ~t[e].dirty) => Exact(F, e, t[e].disk)
    BY <1>6, <2>1 DEF Book, TrustInv
  <2>5. e <= w2
    BY <1>2, <1>3, <2>1, <2>2
  <2>6. ~t[e].open /\ e # r /\ e \in DOMAIN F => \A m \in F[e].recs : m.seq <= w2
    BY <1>2, <1>3, <2>2, <2>3
  <2> QED BY <2>1, <2>4, <2>5, <2>6
<1>7. SpanInv(F, t2)
  <2> SUFFICES ASSUME NEW d \in DOMAIN F, NEW e \in DOMAIN t2, d < e, NEW m \in F[d].recs
               PROVE  m.seq < e
    BY DEF SpanInv
  <2>1. CASE e = k
    BY <2>1 DEF EntryFits
  <2>2. CASE e # k
    BY <1>1, <2>2 DEF Book, SpanInv
  <2> QED BY <2>1, <2>2
<1>8. BelowInv(F, t2, w2, r, k) /\ TrustInv(F, t2, r, k)
  BY <1>6 DEF BelowInv, TrustInv
<1>9. ASSUME EntryExact(F, k, f, w2) PROVE BelowInv(F, t2, w2, r, 0) /\ TrustInv(F, t2, r, 0)
  <2>1. \A e \in DOMAIN t2 : e = k \/ e # k
    OBVIOUS
  <2>2. BelowInv(F, t2, w2, r, 0)
    BY <1>1, <1>6, <1>9, <2>1 DEF BelowInv, EntryExact
  <2>3. TrustInv(F, t2, r, 0)
    BY <1>1, <1>6, <1>9, <2>1 DEF TrustInv, EntryExact
  <2> QED BY <2>2, <2>3
<1> QED BY <1>4, <1>5, <1>7, <1>8, <1>9 DEF Book

(* An entry is dropped, when no live message is behind it.                  *)
LEMMA DropEntry ==
  ASSUME NEW L, NEW n \in Nat, NEW F, NEW t, NEW w, NEW r, NEW k, Book(L, n, F, t, w, r, k),
         k \in DOMAIN t, \A q \in L : q \notin k..t[k].last
  PROVE  Book(L, n, F, Without(t, k), w, r, 0)
<1> DEFINE t2 == Without(t, k)
<1>1. /\ DOMAIN t2 = DOMAIN t \ {k} /\ t2 = [e \in DOMAIN t2 |-> t2[e]]
      /\ \A e \in DOMAIN t2 : t2[e] = t[e]
  BY DEF Without
<1> HIDE DEF t2
<1>2. TableInv(L, n, t2, w)
  <2>1. DOMAIN t \in SUBSET (0..n) /\ DOMAIN t2 \in SUBSET DOMAIN t
    BY <1>1 DEF Book, TableInv
  <2>2. /\ Cardinality(DOMAIN t2) <= Cardinality(DOMAIN t)
        /\ Cardinality(DOMAIN t2) \in Nat /\ Cardinality(DOMAIN t) \in Nat
    BY <2>1, Part
  <2>3. Cardinality(DOMAIN t2) <= SegMax
    <3>1. Cardinality(DOMAIN t) <= SegMax /\ SegMax \in Nat
      BY SizesAssumption DEF Book, TableInv
    <3> QED BY <2>2, <3>1
  <2>4. t2 \in [DOMAIN t2 -> Entries] /\ DOMAIN t2 \subseteq 1..n
    <3>1. t \in [DOMAIN t -> Entries] /\ DOMAIN t \subseteq 1..n
      BY DEF Book, TableInv
    <3>2. \A e \in DOMAIN t2 : t2[e] \in Entries /\ e \in 1..n
      BY <1>1, <3>1
    <3> QED BY <1>1, <3>2
  <2> QED BY <1>1, <2>3, <2>4 DEF Book, TableInv
<1>3. CoverInv(L, F, t2, w)
  BY <1>1 DEF Book, CoverInv
<1>4. BelowInv(F, t2, w, r, 0)
  BY <1>1 DEF Book, BelowInv
<1>5. TrustInv(F, t2, r, 0)
  BY <1>1 DEF Book, TrustInv
<1>6. SpanInv(F, t2)
  BY <1>1 DEF Book, SpanInv
<1> QED BY <1>2, <1>3, <1>4, <1>5, <1>6 DEF Book, t2

(* The live sequence numbers are bounded by the newest.                     *)
LEMMA LiveNat ==
  ASSUME RingInv(ring, latest)
  PROVE  LiveSeqs \subseteq Nat /\ LiveSeqs \subseteq 0..latest /\ latest \in Nat
BY DEF RingInv, LiveSeqs, Seqs, Live, Records

(* The batch of a plan counts every live message its entry comes to span.   *)
LEMMA AppendCounts ==
  ASSUME RingInv(ring, latest), NEW F, NEW t, NEW w, NEW r, NEW x, NEW j,
         Book(LiveSeqs, latest, F, t, w, r, x), Shape(ring, latest, j),
         AppendPlan(LiveSeqs, t, w, j)
  PROVE  Cardinality({q \in LiveSeqs : q \in j.first..j.last}) <=
           (IF j.create THEN 0 ELSE t[j.first].disk) + Count(j.recs)
<1> DEFINE L == LiveSeqs
           k == j.first
           A == IF j.create THEN {} ELSE {q \in L : q \in k..t[k].last}
           B == Seqs(j.recs)
           C == {q \in L : q \in k..j.last}
           d == IF j.create THEN 0 ELSE t[k].disk
<1>1. L \subseteq Nat /\ L \subseteq 0..latest /\ latest \in Nat
  BY LiveNat
<1>2. /\ DOMAIN t \subseteq 1..latest /\ w \in Nat /\ t \in [DOMAIN t -> Entries]
  <2>1. DOMAIN t \subseteq 1..latest /\ w \in 0..latest /\ t \in [DOMAIN t -> Entries]
    BY DEF Book, TableInv
  <2> QED BY <1>1, <2>1
<1>3. /\ k \in Nat /\ j.last \in Nat /\ j.create \in BOOLEAN /\ j.recs \in SUBSET Records
      /\ \A m \in j.recs : m.seq <= latest
  BY <1>1 DEF Shape, Jobs, Known
<1>4. /\ w < j.last /\ \A q \in L : w < q /\ q <= j.last => q \in B
      /\ (j.create => w < k)
      /\ (~j.create => k \in DOMAIN t /\ \A e \in DOMAIN t : e <= k)
  BY DEF AppendPlan
<1>5. C \subseteq A \cup B
  <2> SUFFICES ASSUME NEW q \in L, q \in k..j.last PROVE q \in A \cup B
    OBVIOUS
  <2>0. q \in Nat /\ k <= q /\ q <= j.last
    BY <1>1, <1>3
  <2>1. CASE w < q
    BY <1>4, <2>0, <2>1
  <2>2. CASE q <= w
    <3>1. ~j.create
      BY <1>2, <1>3, <1>4, <2>0, <2>2
    <3>2. k \in DOMAIN t /\ \A e \in DOMAIN t : k < e => q < e
      <4>1. \A e \in DOMAIN t : e <= k /\ e \in Nat
        BY <1>2, <1>4, <3>1
      <4> QED BY <1>3, <1>4, <3>1, <4>1
    <3> HIDE DEF L
    <3>3. q \in k..t[k].last
      BY <1>1, <2>0, <2>2, <3>2, NoGap DEF L
    <3> QED BY <3>1, <3>3
  <2> QED BY <1>2, <2>0, <2>1, <2>2
<1>6. IsFiniteSet(B) /\ Cardinality(B) = Count(j.recs) /\ Cardinality(B) \in Nat
  <2>1. IsFiniteSet(Seqs(j.recs)) /\ Count(j.recs) \in Nat
    BY <1>1, <1>3, CountOf
  <2> QED BY <2>1 DEF Count
<1>7. IsFiniteSet(A) /\ Cardinality(A) \in Nat /\ Cardinality(A) <= d /\ d \in Nat
  <2>1. CASE j.create
    BY <2>1, FS_EmptySet
  <2>2. CASE ~j.create
    <3>1. A \in SUBSET L /\ A = {q \in L : q \in k..t[k].last}
      BY <2>2
    <3>2. k \in DOMAIN t /\ Cardinality({q \in L : q \in k..t[k].last}) <= t[k].disk
      BY <1>4, <2>2 DEF Book, TableInv
    <3>3. t[k].disk \in Nat
      BY <1>2, <3>2 DEF Entries
    <3>4. Cardinality(A) <= t[k].disk
      BY <3>1, <3>2
    <3> HIDE DEF A, L
    <3>5. IsFiniteSet(A) /\ Cardinality(A) \in Nat
      <4>1. A \in SUBSET L /\ L \in SUBSET (0..latest)
        BY <1>1, <3>1
      <4> QED BY <1>1, <4>1, Part
    <3> QED BY <2>2, <3>3, <3>4, <3>5
  <2> QED BY <2>1, <2>2
<1> HIDE DEF A, B, C, d, L
<1>8. /\ IsFiniteSet(A \cup B) /\ Cardinality(A \cup B) \in Nat
      /\ Cardinality(A \cup B) <= Cardinality(A) + Cardinality(B)
  <2>1. IsFiniteSet(A \cup B) /\ Cardinality(A \cup B) =
          Cardinality(A) + Cardinality(B) - Cardinality(A \cap B)
    BY <1>6, <1>7, FS_Union
  <2>2. A \cap B \in SUBSET A
    OBVIOUS
  <2>3. IsFiniteSet(A \cap B)
    BY <1>7, <2>2, FS_Subset
  <2>4. Cardinality(A \cap B) \in Nat /\ Cardinality(A \cup B) \in Nat
    BY <2>1, <2>3, FS_CardinalityType
  <2> QED BY <1>6, <1>7, <2>1, <2>4
<1>9. Cardinality(C) <= Cardinality(A \cup B) /\ Cardinality(C) \in Nat
  BY <1>5, <1>8, FS_Subset, FS_CardinalityType
<1>10. Cardinality(C) <= d + Count(j.recs)
  BY <1>6, <1>7, <1>8, <1>9
<1> QED BY <1>10 DEF C, d, L

(* segCommitJob after an append.                                            *)
LEMMA CommitAppendBook ==
  ASSUME RingInv(ring, latest), FilesInv(ring, latest, files), NEW s \in Tasks, NEW j,
         Book(LiveSeqs, latest, files, s.table, s.flushed, 0, j.first),
         Shape(ring, latest, j), AppendPlan(LiveSeqs, s.table, s.flushed, j),
         Landed(files, s.table, j), DOMAIN files \subseteq DOMAIN s.table \cup {j.first}
  PROVE  LET c == CommitAppend(s, j) IN
         /\ c \in Tasks /\ c.job = s.job /\ c.dirty = s.dirty
         /\ Book(LiveSeqs, latest, files, c.table, c.flushed, 0, 0)
         /\ s.flushed <= c.flushed /\ DOMAIN files \subseteq DOMAIN c.table
<1> DEFINE t == s.table
           w == s.flushed
           k == j.first
           n == Count(j.recs)
           t1 == Enter(t, j)
           old == IF j.create THEN Segment(0, 0, FALSE) ELSE t[k]
           f == [old EXCEPT !.disk = @ + n, !.live = @ + n, !.last = j.last]
           t2 == [t1 EXCEPT ![k].disk = @ + n, ![k].live = @ + n, ![k].last = Larger(@, j.last)]
           c == CommitAppend(s, j)
<1>0. LiveSeqs \subseteq Nat /\ latest \in Nat
  BY LiveNat
<1>1. /\ t \in Tables /\ t \in [DOMAIN t -> Entries] /\ DOMAIN t \subseteq 1..latest
      /\ w \in Nat /\ w <= latest /\ \A e \in DOMAIN t : t[e].last <= w
  <2>1. t \in Tables
    BY DEF Tasks
  <2>2. t \in [DOMAIN t -> Entries] /\ DOMAIN t \subseteq 1..latest /\ w \in 0..latest
    BY DEF Book, TableInv
  <2>3. \A e \in DOMAIN t : t[e].last <= w
    BY DEF Book, TableInv
  <2> QED BY <1>0, <2>1, <2>2, <2>3
<1>2. /\ k \in 1..latest /\ k \in Nat /\ j.last \in Nat /\ j.last <= latest /\ j.create \in BOOLEAN
      /\ j.recs \in SUBSET Records /\ n <= SegRecords
      /\ \A m \in j.recs : k <= m.seq /\ m.seq <= j.last /\ m.seq \in Nat
  <2>1. k \in Nat /\ j.last \in Nat /\ \A y \in j.recs : y.seq \in k..j.last
    BY DEF Shape, Jobs
  <2> QED BY <2>1 DEF Shape, Jobs
<1>3. n \in Nat
  <2>1. \A m \in j.recs : m.seq <= latest
    BY DEF Shape, Known
  <2> QED BY <1>0, <1>2, <2>1, CountOf
<1>4. /\ j.kind = "append" /\ j.recs # {} /\ w < j.last
      /\ \A q \in LiveSeqs : w < q /\ q <= j.last => q \in Seqs(j.recs)
      /\ \A e \in DOMAIN t : ~t[e].open
  BY DEF AppendPlan
<1>5. j.create => /\ w < k /\ k \notin DOMAIN t /\ Cardinality(DOMAIN t) < SegMax
  BY DEF AppendPlan
<1>6. ~j.create => /\ k \in DOMAIN t /\ \A e \in DOMAIN t : e <= k
                   /\ t[k].disk + n <= SegRecords
  BY DEF AppendPlan
<1>7. DOMAIN t1 = DOMAIN t \cup {k} /\ t1[k] = old /\ \A e \in DOMAIN t : e # k => t1[e] = t[e]
  <2>1. CASE j.create
    <3>1. t1 = With(t, k, Segment(0, 0, FALSE))
      BY <1>5, <2>1 DEF Enter
    <3> QED BY <2>1, <3>1 DEF With
  <2>2. CASE ~j.create
    BY <1>6, <2>2 DEF Enter
  <2> QED BY <2>1, <2>2
<1>8. old \in Entries /\ old.last <= w /\ old.disk = (IF j.create THEN 0 ELSE t[k].disk)
      /\ ~old.open /\ (j.create => ~old.dirty)
  <2>1. CASE j.create
    <3>1. old = Segment(0, 0, FALSE)
      BY <2>1
    <3> HIDE DEF old
    <3> QED BY <1>1, <2>1, <3>1 DEF Segment, Entries
  <2>2. CASE ~j.create
    <3>1. old = t[k] /\ k \in DOMAIN t
      BY <1>6, <2>2
    <3> QED BY <1>1, <1>4, <2>2, <3>1
  <2> QED BY <2>1, <2>2
<1> HIDE DEF old, t1, n
<1>9. /\ f \in Entries /\ f.disk = old.disk + n /\ f.last = j.last
      /\ f.dirty = old.dirty /\ f.open = old.open
  <2> DEFINE a == old.disk + n
             b == old.live + n
  <2>1. a \in Nat /\ b \in Nat /\ old \in Entries
    BY <1>3, <1>8 DEF Entries
  <2>2. f = [old EXCEPT !.disk = a, !.live = b, !.last = j.last]
    OBVIOUS
  <2> HIDE DEF a, b, f
  <2>3. f \in Entries /\ f.disk = a /\ f.last = j.last /\ f.dirty = old.dirty /\ f.open = old.open
    BY <1>2, <2>1, <2>2 DEF Entries
  <2> QED BY <2>3 DEF a
<1>10. DOMAIN t2 = DOMAIN t \cup {k} /\ t2 = [e \in DOMAIN t2 |-> IF e = k THEN f ELSE t[e]]
  <2>1. Larger(old.last, j.last) = j.last
    BY <1>1, <1>2, <1>4, <1>8 DEF Larger, Entries
  <2>2. DOMAIN t2 = DOMAIN t1 /\ t2[k] = f /\ \A e \in DOMAIN t1 : e # k => t2[e] = t1[e]
    BY <1>7, <1>8, <2>1 DEF Entries
  <2>3. t2 = [e \in DOMAIN t2 |-> t2[e]]
    OBVIOUS
  <2> HIDE DEF t2, f
  <2> QED BY <1>7, <2>2, <2>3
<1>11. Larger(w, j.last) = j.last
  BY <1>1, <1>2, <1>4 DEF Larger
<1>12. c = [s EXCEPT !.table = t2, !.flushed = j.last]
  BY <1>7, <1>11 DEF CommitAppend, t1, n
<1> HIDE DEF f
<1>14. ASSUME MaxWorkerFails # 0 => ~f.dirty
       PROVE  Exact(files, k, f.disk) /\ Seqs(j.recs) \subseteq Seqs(files[k].recs)
  <2>1. CASE j.create
    <3>1. k \in DOMAIN files /\ files[k] = NewFile(j.recs)
      BY <1>4, <2>1 DEF Landed
    <3>2. f.disk = 0 + n
      BY <1>8, <1>9, <2>1
    <3> QED BY <1>3, <3>1, <3>2 DEF Exact, NewFile, n
  <2>2. CASE ~j.create
    <3>1. old = t[k]
      BY <2>2 DEF old
    <3>2. f.disk = t[k].disk + Count(j.recs)
      BY <1>9, <3>1 DEF n
    <3>3. /\ Exact(files, k, t[k].disk + Count(j.recs))
          /\ Seqs(j.recs) \subseteq Seqs(files[k].recs)
      BY <1>4, <1>9, <1>14, <2>2, <3>1 DEF Landed
    <3> QED BY <3>2, <3>3
  <2> QED BY <2>1, <2>2
<1>15. Cardinality(DOMAIN t \cup {k}) <= SegMax
  <2>1. /\ DOMAIN t \in SUBSET (0..latest) /\ SegMax \in Nat
        /\ Cardinality(DOMAIN t) <= SegMax
    BY <1>1, SizesAssumption DEF Book, TableInv
  <2>2. IsFiniteSet(DOMAIN t) /\ Cardinality(DOMAIN t) \in Nat
    BY <1>0, <2>1, Part
  <2>3. CASE j.create
    <3>1. Cardinality(DOMAIN t \cup {k}) = Cardinality(DOMAIN t) + 1
      BY <1>5, <2>2, <2>3, FS_AddElement
    <3> QED BY <1>5, <2>1, <2>2, <2>3, <3>1
  <2>4. CASE ~j.create
    <3>1. DOMAIN t \cup {k} = DOMAIN t
      BY <1>6, <2>4
    <3> QED BY <2>1, <3>1
  <2> QED BY <2>3, <2>4
<1>16. \A e \in DOMAIN t : (e < k => t[e].last < k) /\ (k < e => f.last < e)
  <2> SUFFICES ASSUME NEW e \in DOMAIN t PROVE (e < k => t[e].last < k) /\ (k < e => f.last < e)
    OBVIOUS
  <2>0. e \in Nat /\ t[e].last <= w /\ t[e].last \in Nat
    BY <1>1 DEF Entries
  <2>1. CASE j.create
    <3>1. e <= w
      <4>1. e # k
        BY <1>5, <2>1
      <4> QED BY <4>1 DEF Book, BelowInv
    <3> QED BY <1>1, <1>2, <1>5, <2>0, <2>1, <3>1
  <2>2. CASE ~j.create
    <3>1. k \in DOMAIN t /\ e <= k
      BY <1>6, <2>2
    <3>2. e < k => t[e].last < k
      BY <3>1 DEF Book, TableInv
    <3> QED BY <1>2, <2>0, <3>1, <3>2
  <2> QED BY <2>1, <2>2
<1>17. \A d \in DOMAIN files : d < k => \A m \in files[d].recs : m.seq < k
  <2> SUFFICES ASSUME NEW d \in DOMAIN files, d < k, NEW m \in files[d].recs PROVE m.seq < k
    OBVIOUS
  <2>1. CASE j.create
    <3>1. d \in DOMAIN t /\ d # k
      BY <1>1, <1>2, <2>1
    <3>2. d # 0
      BY <1>1, <3>1
    <3>3. m.seq <= w
      BY <1>4, <3>1, <3>2 DEF Book, BelowInv
    <3>4. m.seq \in Nat
      BY DEF FilesInv, OneFile, Segments, Records
    <3> QED BY <1>1, <1>2, <1>5, <2>1, <3>3, <3>4
  <2>2. CASE ~j.create
    BY <1>6, <2>2 DEF Book, SpanInv
  <2> QED BY <2>1, <2>2
<1>18. ASSUME NEW q \in LiveSeqs, q <= j.last, w < q \/ (k \in DOMAIN t /\ q \in k..t[k].last)
       PROVE  /\ q \in k..f.last
              /\ OnCard(files, k, q) \/ (MaxWorkerFails # 0 /\ (f.dirty \/ f.open))
  <2>0. q \in Nat
    BY <1>0
  <2>1. CASE w < q
    <3>1. q \in Seqs(j.recs)
      BY <1>4, <1>18, <2>1
    <3>2. q \in k..f.last
      BY <1>2, <1>9, <1>18, <2>0, <3>1 DEF Seqs
    <3>3. (MaxWorkerFails # 0 /\ f.dirty) \/ OnCard(files, k, q)
      BY <1>14, <3>1 DEF OnCard, Exact
    <3> QED BY <3>2, <3>3
  <2>2. CASE ~(w < q)
    <3>1. k \in DOMAIN t /\ q \in k..t[k].last
      BY <1>18, <2>2
    <3>2. ~j.create /\ old = t[k]
      BY <1>5, <3>1 DEF old
    <3>3. q \in k..f.last
      BY <1>1, <1>2, <1>9, <1>18, <2>0, <3>1 DEF Entries
    <3>4. PICK e \in DOMAIN t :
            /\ q \in e..t[e].last
            /\ OnCard(files, e, q) \/ (MaxWorkerFails # 0 /\ (t[e].dirty \/ t[e].open))
      <4>1. q <= w
        BY <1>1, <2>0, <2>2
      <4> QED BY <4>1 DEF Book, CoverInv
    <3>5. e = k
      <4>1. e \in Nat /\ t[e].last \in Nat /\ t[k].last \in Nat
        BY <1>1, <3>1 DEF Entries
      <4>2. (e < k => t[e].last < k) /\ (k < e => t[k].last < e)
        BY <3>1 DEF Book, TableInv
      <4> QED BY <1>2, <2>0, <3>1, <3>4, <4>1, <4>2
    <3> QED BY <1>9, <3>2, <3>3, <3>4, <3>5
  <2> QED BY <2>1, <2>2
<1>19. f.disk <= SegRecords /\ Cardinality({q \in LiveSeqs : q \in k..f.last}) <= f.disk
  <2>1. Cardinality({q \in LiveSeqs : q \in k..j.last}) <= (IF j.create THEN 0 ELSE t[k].disk) + n
    BY AppendCounts DEF n
  <2>2. f.disk = (IF j.create THEN 0 ELSE t[k].disk) + n
    BY <1>8, <1>9
  <2>3. f.disk <= SegRecords
    <3>1. CASE j.create
      BY <1>2, <1>3, <2>2, <3>1 DEF n
    <3>2. CASE ~j.create
      BY <1>6, <2>2, <3>2 DEF n
    <3> QED BY <3>1, <3>2
  <2> QED BY <1>9, <2>1, <2>2, <2>3
<1>20. EntryFits(LiveSeqs, latest, files, t, w, k, f, j.last)
  <2>1. j.last \in 0..latest /\ w <= j.last /\ f.last <= j.last
    BY <1>0, <1>1, <1>2, <1>4, <1>9
  <2> QED BY <1>2, <1>9, <1>15, <1>16, <1>17, <1>18, <1>19, <2>1 DEF EntryFits
<1>21. EntryExact(files, k, f, j.last)
  <2>1. k <= j.last
    BY <1>2, <1>4
  <2>2. k \in DOMAIN files => \A m \in files[k].recs : m.seq <= j.last
    BY <1>4 DEF Landed
  <2> QED BY <1>14, <2>1, <2>2 DEF EntryExact
<1> HIDE DEF t2
<1>22. Book(LiveSeqs, latest, files, t2, j.last, 0, 0)
  <2>1. Puts(t, k, f, t2)
    BY <1>10 DEF Puts
  <2> QED BY <1>0, <1>20, <1>21, <2>1, PutEntry
<1>23. t2 \in Tables
  <2>1. t2 \in [DOMAIN t2 -> Entries] /\ DOMAIN t2 \subseteq 1..latest
    BY <1>22 DEF Book, TableInv
  <2> QED BY <2>1, TablesIn
<1>24. c \in Tasks /\ c.table = t2 /\ c.flushed = j.last /\ c.job = s.job /\ c.dirty = s.dirty
  BY <1>2, <1>12, <1>23 DEF Tasks
<1>25. s.flushed <= j.last /\ DOMAIN files \subseteq DOMAIN t2
  BY <1>1, <1>2, <1>4, <1>10
<1> HIDE DEF c
<1> QED BY <1>22, <1>24, <1>25 DEF c

(* segCommitJob after a compaction or a repair.                             *)
LEMMA CommitCompactBook ==
  ASSUME RingInv(ring, latest), NEW F, FilesInv(ring, latest, F), NEW s \in Tasks, NEW j,
         Book(LiveSeqs, latest, F, s.table, s.flushed, 0, j.first),
         Shape(ring, latest, j), RewritePlan(LiveSeqs, s.table, s.flushed, j),
         Landed(F, s.table, j), DOMAIN F \subseteq DOMAIN s.table
  PROVE  LET c == CommitCompact(s, j) IN
         /\ c \in Tasks /\ c.job = s.job /\ c.dirty = s.dirty
         /\ Book(LiveSeqs, latest, F, c.table, c.flushed, 0, 0)
         /\ s.flushed <= c.flushed /\ DOMAIN F \subseteq DOMAIN c.table
<1> DEFINE t == s.table
           w == s.flushed
           k == j.first
           n == Count(j.recs)
           w2 == IF j.repair THEN Larger(w, j.last) ELSE w
           f == [t[k] EXCEPT !.disk = n, !.live = n, !.last = j.last,
                             !.dirty = s.redirty, !.open = t[k].open /\ ~j.repair]
           c == CommitCompact(s, j)
<1>0. LiveSeqs \subseteq Nat /\ LiveSeqs \subseteq 0..latest /\ latest \in Nat
  BY LiveNat
<1>1. /\ t \in Tables /\ t \in [DOMAIN t -> Entries] /\ DOMAIN t \subseteq 1..latest
      /\ w \in Nat /\ w <= latest /\ \A e \in DOMAIN t : t[e].last <= w
  <2>1. t \in Tables
    BY DEF Tasks
  <2>2. t \in [DOMAIN t -> Entries] /\ DOMAIN t \subseteq 1..latest /\ w \in 0..latest
    BY DEF Book, TableInv
  <2>3. \A e \in DOMAIN t : t[e].last <= w
    BY DEF Book, TableInv
  <2> QED BY <1>0, <2>1, <2>2, <2>3
<1>2. /\ k \in 1..latest /\ k \in Nat /\ j.last \in Nat /\ j.last <= latest /\ j.repair \in BOOLEAN
      /\ j.recs \in SUBSET Records /\ n <= SegRecords
      /\ \A m \in j.recs : k <= m.seq /\ m.seq <= j.last /\ m.seq \in Nat
  <2>1. k \in Nat /\ j.last \in Nat /\ \A y \in j.recs : y.seq \in k..j.last
    BY DEF Shape, Jobs
  <2> QED BY <2>1 DEF Shape, Jobs
<1>3. n \in Nat /\ IsFiniteSet(Seqs(j.recs)) /\ n = Cardinality(Seqs(j.recs))
      /\ Seqs(j.recs) \in SUBSET (0..latest)
  <2>1. \A m \in j.recs : m.seq <= latest
    BY DEF Shape, Known
  <2> QED BY <1>0, <1>2, <2>1, CountOf DEF Count
<1>4. /\ j.kind = "compact" /\ k \in DOMAIN t
      /\ \A q \in LiveSeqs : q \in k..t[k].last => q \in Seqs(j.recs)
      /\ \A e \in DOMAIN t : k < e => j.last < e
      /\ j.repair => \A q \in LiveSeqs : w < q /\ q <= j.last => q \in Seqs(j.recs)
      /\ ~j.repair => j.last <= w
  BY DEF RewritePlan
<1>5. n = 0 <=> j.recs = {}
  <2>1. n = 0 <=> Seqs(j.recs) = {}
    BY <1>3, FS_EmptySet
  <2>2. Seqs(j.recs) = {} <=> j.recs = {}
    BY DEF Seqs
  <2> QED BY <2>1, <2>2
<1>6. CASE j.recs = {}
  <2> DEFINE t2 == Without(t, k)
  <2>1. c = [s EXCEPT !.table = t2]
    BY <1>4, <1>5, <1>6 DEF CommitCompact
  <2>2. \A q \in LiveSeqs : q \notin k..t[k].last
    BY <1>4, <1>6 DEF Seqs
  <2>3. Book(LiveSeqs, latest, F, t2, w, 0, 0)
    BY <1>0, <1>4, <2>2, DropEntry
  <2>4. DOMAIN F \subseteq DOMAIN t2
    <3>1. k \notin DOMAIN F
      BY <1>4, <1>6 DEF Landed
    <3> QED BY <3>1 DEF Without
  <2> HIDE DEF t2
  <2>5. t2 \in Tables
    <3>1. t2 \in [DOMAIN t2 -> Entries] /\ DOMAIN t2 \subseteq 1..latest
      BY <2>3 DEF Book, TableInv
    <3> QED BY <3>1, TablesIn
  <2>6. c \in Tasks /\ c.table = t2 /\ c.flushed = w /\ c.job = s.job /\ c.dirty = s.dirty
    BY <2>1, <2>5 DEF Tasks
  <2> HIDE DEF c
  <2> QED BY <1>1, <2>3, <2>4, <2>6 DEF c
<1>7. CASE j.recs # {}
  <2> DEFINE t2 == [t EXCEPT ![k] = f]
  <2>1. c = [s EXCEPT !.table = t2, !.flushed = w2]
    BY <1>4, <1>5, <1>7 DEF CommitCompact
  <2>2. PICK m \in j.recs : k <= m.seq /\ m.seq <= j.last /\ m.seq \in Nat
    BY <1>2, <1>7
  <2>3. w2 \in Nat /\ w <= w2 /\ j.last <= w2 /\ w2 <= latest /\ (w2 = w \/ (j.repair /\ w2 = j.last))
    BY <1>1, <1>2, <1>4 DEF Larger
  <2> HIDE DEF w2
  <2>4. /\ f \in Entries /\ f.disk = n /\ f.last = j.last
    <3> DEFINE b == t[k].open /\ ~j.repair
    <3>1. b \in BOOLEAN /\ s.redirty \in BOOLEAN /\ t[k] \in Entries
      BY <1>1, <1>4 DEF Tasks
    <3>2. f = [t[k] EXCEPT !.disk = n, !.live = n, !.last = j.last,
                           !.dirty = s.redirty, !.open = b]
      OBVIOUS
    <3> HIDE DEF n, b, f
    <3> QED BY <1>2, <1>3, <3>1, <3>2 DEF Entries
  <2> HIDE DEF f, n
  <2>5. DOMAIN t2 = DOMAIN t \cup {k} /\ t2 = [e \in DOMAIN t2 |-> IF e = k THEN f ELSE t[e]]
    BY <1>1, <1>4
  <2>6. k \in DOMAIN F /\ F[k] = NewFile(j.recs)
    BY <1>4, <1>7 DEF Landed
  <2>7. /\ F[k].hdr /\ ~F[k].ragged /\ F[k].recs = j.recs
        /\ F[k].count = n
    BY <2>6 DEF NewFile, n
  <2>8. ASSUME NEW q \in LiveSeqs, q <= w2, w < q \/ (k \in DOMAIN t /\ q \in k..t[k].last)
        PROVE  /\ q \in k..f.last
               /\ OnCard(F, k, q) \/ (MaxWorkerFails # 0 /\ (f.dirty \/ f.open))
    <3>0. q \in Nat
      BY <1>0
    <3>1. q \in Seqs(j.recs)
      <4>1. CASE w < q
        <5>1. j.repair /\ q <= j.last
          BY <1>1, <2>3, <2>8, <3>0, <4>1
        <5> QED BY <1>4, <4>1, <5>1
      <4>2. CASE q \in k..t[k].last
        BY <1>4, <4>2
      <4> QED BY <2>8, <4>1, <4>2
    <3>2. q \in k..f.last
      BY <1>2, <2>4, <3>0, <3>1 DEF Seqs
    <3> QED BY <2>6, <2>7, <3>1, <3>2 DEF OnCard
  <2>9. Cardinality({q \in LiveSeqs : q \in k..f.last}) <= f.disk
    <3> DEFINE C == {q \in LiveSeqs : q \in k..j.last}
    <3>1. C \subseteq Seqs(j.recs)
      <4> SUFFICES ASSUME NEW q \in LiveSeqs, q \in k..j.last PROVE q \in Seqs(j.recs)
        OBVIOUS
      <4>0. q \in Nat /\ k <= q /\ q <= j.last
        BY <1>0, <1>2
      <4>1. CASE w < q
        <5>1. j.repair
          BY <1>1, <1>2, <1>4, <4>0, <4>1
        <5> QED BY <1>4, <4>0, <4>1, <5>1
      <4>2. CASE q <= w
        <5>1. \A e \in DOMAIN t : k < e => q < e
          <6> SUFFICES ASSUME NEW e \in DOMAIN t, k < e PROVE q < e
            OBVIOUS
          <6>1. e \in Nat /\ j.last < e
            BY <1>1, <1>4
          <6> QED BY <1>2, <4>0, <6>1
        <5>2. q \in k..t[k].last
          BY <1>0, <1>4, <4>0, <4>2, <5>1, NoGap
        <5> QED BY <1>4, <5>2
      <4> QED BY <1>1, <4>0, <4>1, <4>2
    <3> HIDE DEF C
    <3>2. Cardinality(C) <= Cardinality(Seqs(j.recs))
      BY <1>3, <3>1, FS_Subset
    <3>3. Cardinality(C) <= n
      BY <1>3, <3>2 DEF n
    <3> QED BY <2>4, <3>3 DEF C
  <2>10. Cardinality(DOMAIN t \cup {k}) <= SegMax
    <3>1. DOMAIN t \cup {k} = DOMAIN t
      BY <1>4
    <3> QED BY <3>1 DEF Book, TableInv
  <2>11. EntryFits(LiveSeqs, latest, F, t, w, k, f, w2)
    <3>1. w2 \in 0..latest /\ f.last <= w2 /\ f.disk <= SegRecords
      BY <1>0, <1>2, <2>3, <2>4 DEF n
    <3>2. \A e \in DOMAIN t : (e < k => t[e].last < k) /\ (k < e => f.last < e)
      BY <1>4, <2>4 DEF Book, TableInv
    <3>3. \A d \in DOMAIN F : d < k => \A x \in F[d].recs : x.seq < k
      BY <1>4 DEF Book, SpanInv
    <3> QED BY <1>2, <2>3, <2>4, <2>8, <2>9, <2>10, <3>1, <3>2, <3>3 DEF EntryFits
  <2>12. EntryExact(F, k, f, w2)
    <3>1. k <= w2
      BY <1>2, <2>2, <2>3
    <3>2. \A x \in F[k].recs : x.seq <= w2
      BY <1>2, <2>3, <2>7
    <3>3. Exact(F, k, f.disk)
      BY <2>4, <2>6, <2>7 DEF Exact
    <3> QED BY <3>1, <3>2, <3>3 DEF EntryExact
  <2> HIDE DEF t2
  <2>13. Book(LiveSeqs, latest, F, t2, w2, 0, 0)
    <3>1. Puts(t, k, f, t2)
      BY <2>5 DEF Puts
    <3> QED BY <1>0, <2>11, <2>12, <3>1, PutEntry
  <2>14. t2 \in Tables
    <3>1. t2 \in [DOMAIN t2 -> Entries] /\ DOMAIN t2 \subseteq 1..latest
      BY <2>13 DEF Book, TableInv
    <3> QED BY <3>1, TablesIn
  <2>15. c \in Tasks /\ c.table = t2 /\ c.flushed = w2 /\ c.job = s.job /\ c.dirty = s.dirty
    BY <2>1, <2>3, <2>14 DEF Tasks
  <2>16. DOMAIN F \subseteq DOMAIN t2
    BY <2>5
  <2> HIDE DEF c
  <2> QED BY <2>3, <2>13, <2>15, <2>16 DEF c
<1> QED BY <1>6, <1>7

(* The books hold when entries are marked.                                  *)
LEMMA BookRaised ==
  ASSUME RingInv(ring, latest), NEW F, NEW t, NEW t2, NEW w, NEW r, NEW x,
         Book(LiveSeqs, latest, F, t, w, r, x), Raised(t, t2)
  PROVE  Book(LiveSeqs, latest, F, t2, w, r, x)
<1>1. Later(ring, latest, ring, latest)
  BY DEF RingInv, Later
<1>2. Book(Seqs(Live(ring)), latest, F, t, w, r, x)
  BY DEF LiveSeqs
<1>3. Book(Seqs(Live(ring)), latest, F, t2, w, r, x)
  BY <1>1, <1>2, BookLater
<1> QED BY <1>3 DEF LiveSeqs

(* Deletes that raced the write only mark entries.                          *)
LEMMA ReDeleteRaises ==
  ASSUME NEW s \in Tasks, NEW old
  PROVE  LET d == ReDelete(s, old) IN
         /\ d \in Tasks /\ Raised(s.table, d.table) /\ d.flushed = s.flushed /\ d.job = s.job
         /\ s.dirty => d.dirty
<1> DEFINE gone == {m.seq : m \in {x \in ring : ~x.live /\ x.seq > old /\ x.seq <= s.flushed}}
           hit(k) == \E q \in gone : Owner(s.table, q) = k
           t2 == [k \in DOMAIN s.table |-> [s.table[k] EXCEPT !.dirty = s.table[k].dirty \/ hit(k)]]
           b == s.dirty \/ gone # {}
           d == ReDelete(s, old)
<1>1. d = [s EXCEPT !.table = t2, !.dirty = b]
  BY DEF ReDelete
<1>2. s.table \in Tables /\ s.table \in [DOMAIN s.table -> Entries] /\ b \in BOOLEAN
  BY TablesIn DEF Tasks
<1>3. \A k : hit(k) \in BOOLEAN
  OBVIOUS
<1> HIDE DEF hit
<1>4. Raised(s.table, t2)
  BY <1>2, <1>3 DEF Raised, Entries
<1>5. t2 \in Tables
  BY <1>2, <1>4, RaisedTables
<1>6. s.dirty => b
  OBVIOUS
<1> HIDE DEF t2, b, gone, d
<1>7. d \in Tasks /\ d.table = t2 /\ d.flushed = s.flushed /\ d.job = s.job /\ d.dirty = b
  BY <1>1, <1>2, <1>5 DEF Tasks
<1> QED BY <1>4, <1>6, <1>7 DEF d

(* The empty job is a job.                                                  *)
LEMMA NoJobIn == NoJob \in Jobs
BY DEF NoJob, Jobs

(* Nothing is in the worker's hands: the books are exact.                   *)
Settles(s) ==
  /\ s \in Tasks /\ s.job = NoJob /\ (~s.dirty => latest <= s.flushed)
  /\ Book(LiveSeqs, latest, files, s.table, s.flushed, repair, 0)
  /\ DOMAIN files \subseteq DOMAIN s.table

(* flushHistoryIfDue sees the worker idle: the books are exact again.       *)
LEMMA ObserveSettles ==
  ASSUME HInvariant, LoopFree, worker = "idle"
  PROVE  Settles(Observe(h))
<1> DEFINE j == h.job
           done == j.kind # "none"
           c == Commit(h, j)
           told == IF done /\ flushOk THEN ReDelete(c, h.flushed) ELSE h
           o == Observe(h)
<1>1. /\ Powered /\ drain.pc = "idle"
  BY DEF LoopFree, Powered
<1>2. /\ RingInv(ring, latest) /\ FilesInv(ring, latest, files) /\ h \in Tasks
      /\ Book(LiveSeqs, latest, files, h.table, h.flushed, repair, Ahead)
      /\ JobInv /\ StrayInv /\ DrainInv /\ (~h.dirty => latest <= h.flushed)
      /\ flushOk \in BOOLEAN
  BY <1>1 DEF HInvariant, Calm
<1>3. drain.job = NoJob /\ \A k : ~Stray(k)
  BY <1>1, <1>2 DEF DrainInv, Stray
<1>4. Done = done
  BY DEF Done
<1>5. /\ told \in Tasks /\ (~told.dirty => latest <= told.flushed)
      /\ Book(LiveSeqs, latest, files, told.table, told.flushed, repair, 0)
      /\ DOMAIN files \subseteq DOMAIN told.table
  <2>1. CASE ~(done /\ flushOk)
    <3>0. told = h /\ Ahead = drain.job.first
      BY <1>4, <2>1 DEF Ahead
    <3>1. told = h /\ Ahead = 0
      BY <1>3, <3>0 DEF NoJob
    <3>2. DOMAIN files \subseteq DOMAIN h.table
      BY <1>2, <1>3, <1>4, <2>1 DEF StrayInv
    <3> QED BY <1>2, <3>1, <3>2
  <2>2. CASE done /\ flushOk
    <3>1. /\ Ahead = j.first /\ repair = 0 /\ Shape(ring, latest, j)
          /\ Plan(LiveSeqs, h.table, h.flushed, j) /\ Landed(files, h.table, j)
      BY <1>2, <1>4, <2>2 DEF JobInv, Ahead
    <3>2. Book(LiveSeqs, latest, files, h.table, h.flushed, 0, j.first)
      BY <1>2, <3>1
    <3>3. \A k \in DOMAIN files \ DOMAIN h.table :
            j.kind = "append" /\ j.create /\ k = j.first
      BY <1>2, <1>3 DEF StrayInv
    <3>4. /\ c \in Tasks /\ c.job = h.job /\ c.dirty = h.dirty
          /\ Book(LiveSeqs, latest, files, c.table, c.flushed, 0, 0)
          /\ h.flushed <= c.flushed /\ DOMAIN files \subseteq DOMAIN c.table
      <4>1. CASE AppendPlan(LiveSeqs, h.table, h.flushed, j)
        <5>1. c = CommitAppend(h, j)
          BY <4>1 DEF Commit, AppendPlan
        <5>2. DOMAIN files \subseteq DOMAIN h.table \cup {j.first}
          BY <3>3
        <5>3. LET x == CommitAppend(h, j) IN
              /\ x \in Tasks /\ x.job = h.job /\ x.dirty = h.dirty
              /\ Book(LiveSeqs, latest, files, x.table, x.flushed, 0, 0)
              /\ h.flushed <= x.flushed /\ DOMAIN files \subseteq DOMAIN x.table
          BY <1>2, <3>1, <3>2, <4>1, <5>2, CommitAppendBook
        <5> HIDE DEF c
        <5> QED BY <5>1, <5>3
      <4>2. CASE RewritePlan(LiveSeqs, h.table, h.flushed, j)
        <5>1. c = CommitCompact(h, j)
          BY <4>2 DEF Commit, RewritePlan
        <5>2. DOMAIN files \subseteq DOMAIN h.table
          BY <3>3, <4>2 DEF RewritePlan
        <5>3. LET x == CommitCompact(h, j) IN
              /\ x \in Tasks /\ x.job = h.job /\ x.dirty = h.dirty
              /\ Book(LiveSeqs, latest, files, x.table, x.flushed, 0, 0)
              /\ h.flushed <= x.flushed /\ DOMAIN files \subseteq DOMAIN x.table
          BY <1>2, <3>1, <3>2, <4>2, <5>2, CommitCompactBook
        <5> HIDE DEF c
        <5> QED BY <5>1, <5>3
      <4> QED BY <3>1, <4>1, <4>2 DEF Plan
    <3> HIDE DEF c
    <3>5. told = ReDelete(c, h.flushed)
      BY <2>2
    <3>6. /\ told \in Tasks /\ Raised(c.table, told.table) /\ told.flushed = c.flushed
          /\ (c.dirty => told.dirty)
      BY <3>4, <3>5, ReDeleteRaises
    <3> HIDE DEF told
    <3>7. Book(LiveSeqs, latest, files, told.table, told.flushed, repair, 0)
      BY <1>2, <3>1, <3>4, <3>6, BookRaised
    <3>8. DOMAIN files \subseteq DOMAIN told.table
      BY <3>4, <3>6 DEF Raised
    <3>9. ~told.dirty => latest <= told.flushed
      <4>1. latest \in Nat /\ h.flushed \in Nat /\ c.flushed \in Nat
        BY <1>2, <3>4 DEF RingInv, Tasks
      <4> QED BY <1>2, <3>4, <3>6, <4>1
    <3> QED BY <3>6, <3>7, <3>8, <3>9
  <2> QED BY <2>1, <2>2
<1> DEFINE jj == IF done THEN NoJob ELSE told.job
           rr == told.redirty /\ ~done
           dd == told.dirty \/ ~flushOk
<1>6. o = [told EXCEPT !.job = jj, !.redirty = rr, !.dirty = dd]
  BY DEF Observe
<1>7. jj = NoJob
  BY <1>2 DEF JobInv
<1>8. rr \in BOOLEAN /\ dd \in BOOLEAN /\ (~dd => ~told.dirty)
  BY <1>2, <1>5 DEF Tasks
<1> HIDE DEF told, jj, rr, dd
<1>9. /\ o \in Tasks /\ o.job = NoJob /\ o.table = told.table /\ o.flushed = told.flushed
      /\ o.dirty = dd
  BY <1>5, <1>6, <1>7, <1>8, NoJobIn DEF Tasks
<1> HIDE DEF o
<1>10. Settles(o)
  BY <1>5, <1>8, <1>9 DEF Settles
<1> QED BY <1>10 DEF o

(* The loop task goes on, with nothing in the worker's hands.               *)
LEMMA RestStep ==
  ASSUME HInvariant, Powered, h' \in Tasks, h'.job = NoJob, ~h'.dirty => latest <= h'.flushed,
         Book(LiveSeqs, latest, files, h'.table, h'.flushed, repair', 0),
         \A k \in DOMAIN files \ DOMAIN h'.table : Stray(k)',
         UNCHANGED <<ring, latest, files, marker>>, worker' = "idle",
         flushOk' \in BOOLEAN, repair' \in Nat, MaxWorkerFails = 0 => flushOk' /\ repair' = 0,
         drain' \in Drains, drain'.pc \in {"idle", "build"}, drain'.job = NoJob,
         drain'.from = "reboot" => MaxWorkerFails = 0,
         used' \in Uses, used'.syncFails = 0
  PROVE  HInvariant'
<1>1. /\ ring' = ring /\ latest' = latest /\ files' = files /\ marker' = marker
      /\ Powered' /\ LiveSeqs' = LiveSeqs
  BY DEF Powered, LiveSeqs
<1>2. RingInv(ring, latest) /\ FilesInv(ring, latest, files) /\ Calm
  BY DEF HInvariant
<1>3. h'.job.kind = "none" /\ ~Done' /\ Ahead' = drain'.job.first
  BY DEF NoJob, Done, Ahead
<1>4. Ahead' = 0
  BY <1>3 DEF NoJob
<1>5. Book(LiveSeqs, latest, files, h.table, h.flushed, repair, Ahead)'
  BY <1>1, <1>4
<1>6. JobInv'
  BY <1>3 DEF JobInv
<1>7. StrayInv'
  BY <1>1 DEF StrayInv
<1>8. DrainInv'
  BY <1>3 DEF DrainInv
<1>9. Calm'
  BY <1>1, <1>2 DEF Calm
<1>10. RingInv(ring, latest)' /\ FilesInv(ring, latest, files)'
  BY <1>1, <1>2
<1> QED BY <1>1, <1>5, <1>6, <1>7, <1>8, <1>9, <1>10 DEF HInvariant

(* A tick keeps the invariant.                                              *)
LEMMA TickStep ==
  ASSUME HInvariant, Steady, Tick
  PROVE  HInvariant'
<1>1. /\ LoopFree /\ worker # "finishing" /\ h' = Observe(h) /\ flushOk' = TRUE
      /\ ring' = ring /\ latest' = latest /\ worker' = worker /\ repair' = repair
      /\ drain' = drain /\ files' = files /\ marker' = marker /\ used' = used
  BY DEF Tick, TickRuns, Steady, ram, disk
<1>2. /\ Powered /\ Powered' /\ drain.pc = "idle" /\ \A k : ~Stray(k)
      /\ RingInv(ring, latest) /\ FilesInv(ring, latest, files) /\ Calm
      /\ Book(LiveSeqs, latest, files, h.table, h.flushed, repair, Ahead)
      /\ JobInv /\ StrayInv /\ DrainInv /\ (~h.dirty => latest <= h.flushed)
  BY <1>1 DEF HInvariant, LoopFree, Powered, Stray
<1>3. CASE worker = "idle"
  <2>1. Settles(Observe(h))
    BY <1>1, <1>3, ObserveSettles
  <2>2. /\ h' \in Tasks /\ h'.job = NoJob /\ (~h'.dirty => latest <= h'.flushed)
        /\ Book(LiveSeqs, latest, files, h'.table, h'.flushed, repair', 0)
        /\ DOMAIN files \subseteq DOMAIN h'.table
    BY <1>1, <2>1 DEF Settles
  <2>3. /\ drain' \in Drains /\ drain'.pc \in {"idle", "build"} /\ drain'.job = NoJob
        /\ (drain'.from = "reboot" => MaxWorkerFails = 0)
    BY <1>1, <1>2 DEF Calm, DrainInv
  <2>4. /\ flushOk' \in BOOLEAN /\ repair' \in Nat /\ (MaxWorkerFails = 0 => flushOk' /\ repair' = 0)
        /\ used' \in Uses /\ used'.syncFails = 0
    BY <1>1, <1>2 DEF Calm
  <2>5. \A k \in DOMAIN files \ DOMAIN h'.table : Stray(k)'
    BY <2>2
  <2> QED BY <1>1, <1>2, <1>3, <2>2, <2>3, <2>4, <2>5, RestStep
<1>4. CASE worker # "idle"
  <2> DEFINE dd == h.dirty \/ ~flushOk
  <2>1. ~Done /\ ~Done'
    <3>1. worker \in {"queued", "running"}
      BY <1>1, <1>2, <1>4 DEF Calm
    <3> QED BY <1>1, <3>1 DEF Done
  <2>2. h' = [h EXCEPT !.job = h.job, !.redirty = h.redirty /\ TRUE, !.dirty = dd]
    BY <1>1, <1>4 DEF Observe
  <2>3. h.redirty \in BOOLEAN /\ dd \in BOOLEAN /\ h \in Tasks
    BY <1>2 DEF Calm, Tasks
  <2> HIDE DEF dd
  <2>4. /\ h' \in Tasks /\ h'.table = h.table /\ h'.flushed = h.flushed /\ h'.job = h.job
        /\ h'.dirty = dd
    BY <2>2, <2>3 DEF Tasks
  <2>5. Ahead' = Ahead /\ LiveSeqs' = LiveSeqs
    BY <1>1, <2>1 DEF Ahead, LiveSeqs
  <2>6. Book(LiveSeqs, latest, files, h.table, h.flushed, repair, Ahead)'
    BY <1>1, <1>2, <2>4, <2>5
  <2>7. JobInv'
    BY <1>1, <1>2, <2>1, <2>4, <2>5 DEF JobInv
  <2>8. StrayInv'
    BY <1>1, <1>2, <2>1, <2>4 DEF StrayInv
  <2>9. DrainInv'
    BY <1>1, <1>2, <2>4 DEF DrainInv
  <2>10. Calm'
    BY <1>1, <1>2, <2>4 DEF Calm
  <2>11. ~h'.dirty => latest' <= h'.flushed
    BY <1>1, <1>2, <2>4 DEF dd
  <2>12. RingInv(ring, latest)' /\ FilesInv(ring, latest, files)'
    BY <1>1, <1>2
  <2> QED BY <1>1, <1>2, <2>6, <2>7, <2>8, <2>9, <2>10, <2>11, <2>12 DEF HInvariant
<1> QED BY <1>3, <1>4

(* What is not trusted any more need not be exact, nor exactly known.       *)
LEMMA DistrustIs ==
  ASSUME NEW t \in Tables, NEW r
  PROVE  LET t2 == Distrust(t, r) IN
         /\ t2 \in Tables /\ DOMAIN t2 = DOMAIN t
         /\ \A k \in DOMAIN t : /\ t2[k].last = t[k].last /\ t2[k].disk = t[k].disk
                                /\ t2[k].dirty = t[k].dirty
                                /\ t2[k].open = (t[k].open \/ k = r)
<1> DEFINE t2 == Distrust(t, r)
<1>1. t \in [DOMAIN t -> Entries] /\ DOMAIN t \in SUBSET Nat
  BY TablesIn
<1>2. CASE r \notin DOMAIN t
  <2>1. t2 = t
    BY <1>2 DEF Distrust
  <2>2. \A k \in DOMAIN t : k # r /\ t[k].open \in BOOLEAN
    BY <1>1, <1>2 DEF Entries
  <2> QED BY <2>1, <2>2
<1>3. CASE r \in DOMAIN t
  <2>1. t2 = [t EXCEPT ![r].open = TRUE]
    BY <1>3 DEF Distrust
  <2>2. DOMAIN t2 = DOMAIN t /\ t2 \in [DOMAIN t -> Entries]
    BY <1>1, <1>3, <2>1 DEF Entries
  <2>3. \A k \in DOMAIN t : /\ t2[k].last = t[k].last /\ t2[k].disk = t[k].disk
                            /\ t2[k].dirty = t[k].dirty
                            /\ t2[k].open = (t[k].open \/ k = r)
    <3> TAKE k \in DOMAIN t
    <3>1. CASE k = r
      BY <1>1, <1>3, <2>1, <3>1 DEF Entries
    <3>2. CASE k # r
      <4>1. t2[k] = t[k] /\ t[k].open \in BOOLEAN
        BY <1>1, <1>3, <2>1, <3>2 DEF Entries
      <4> QED BY <3>2, <4>1
    <3> QED BY <3>1, <3>2
  <2> HIDE DEF t2
  <2>4. t2 \in Tables
    BY <1>1, <2>2, TablesIn
  <2> QED BY <2>2, <2>3, <2>4 DEF t2
<1> QED BY <1>2, <1>3

(* An entry distrusted needs no exact file, be it the repair or the one     *)
(* ahead.                                                                   *)
LEMMA DistrustBook ==
  ASSUME NEW L, NEW n, NEW F, NEW t \in Tables, NEW w, NEW r, NEW x, NEW k, NEW r2, NEW x2,
         Book(L, n, F, t, w, r, x), k = r \/ r2 = r, k = x \/ x2 = x,
         x \in DOMAIN t => x <= w
  PROVE  Book(L, n, F, Distrust(t, k), w, r2, x2)
<1> DEFINE t2 == Distrust(t, k)
<1>1. /\ t2 \in Tables /\ DOMAIN t2 = DOMAIN t
      /\ \A e \in DOMAIN t : /\ t2[e].last = t[e].last /\ t2[e].disk = t[e].disk
                             /\ t2[e].dirty = t[e].dirty
                             /\ t2[e].open = (t[e].open \/ e = k)
  BY DistrustIs
<1> HIDE DEF t2
<1>2. t2 \in [DOMAIN t -> Entries]
  BY <1>1, TablesIn
<1>3. TableInv(L, n, t2, w)
  <2>1. TableInv(L, n, t, w)
    BY DEF Book
  <2>2. ASSUME NEW e \in DOMAIN t
        PROVE  /\ t2[e].disk <= SegRecords /\ t2[e].last <= w
               /\ Cardinality({q \in L : q \in e..t2[e].last}) <= t2[e].disk
    <3>1. t2[e].last = t[e].last /\ t2[e].disk = t[e].disk
      BY <1>1
    <3>2. /\ t[e].disk <= SegRecords /\ t[e].last <= w
          /\ Cardinality({q \in L : q \in e..t[e].last}) <= t[e].disk
      BY <2>1 DEF TableInv
    <3> QED BY <3>1, <3>2
  <2>3. \A e, f \in DOMAIN t2 : e < f => t2[e].last < f
    BY <1>1, <2>1 DEF TableInv
  <2> QED BY <1>1, <1>2, <2>1, <2>2, <2>3 DEF TableInv
<1>4. CoverInv(L, F, t2, w)
  <2> SUFFICES ASSUME NEW q \in L, q <= w
               PROVE  \E e \in DOMAIN t2 :
                        /\ q \in e..t2[e].last
                        /\ OnCard(F, e, q) \/ (MaxWorkerFails # 0 /\ (t2[e].dirty \/ t2[e].open))
    BY DEF CoverInv
  <2>1. PICK e \in DOMAIN t :
          /\ q \in e..t[e].last
          /\ OnCard(F, e, q) \/ (MaxWorkerFails # 0 /\ (t[e].dirty \/ t[e].open))
    BY DEF Book, CoverInv
  <2> QED BY <1>1, <2>1
<1>5. BelowInv(F, t2, w, r2, x2)
  BY <1>1 DEF Book, BelowInv
<1>6. TrustInv(F, t2, r2, x2)
  BY <1>1 DEF Book, TrustInv
<1>7. SpanInv(F, t2)
  BY <1>1 DEF Book, SpanInv
<1> QED BY <1>3, <1>4, <1>5, <1>6, <1>7 DEF Book, t2

(* The watermark passes what is not live.                                   *)
LEMMA BookUp ==
  ASSUME NEW L \in SUBSET Nat, NEW n \in Nat, NEW F, NEW t, NEW w, NEW r, NEW x, Book(L, n, F, t, w, r, x),
         FilesInv(ring, n, F), NEW w2 \in 0..n, w <= w2, \A q \in L : ~(w < q /\ q <= w2)
  PROVE  Book(L, n, F, t, w2, r, x)
<1>1. w \in Nat /\ w2 \in Nat
  BY DEF Book, TableInv
<1>2. t \in [DOMAIN t -> Entries] /\ DOMAIN t \subseteq 1..n
  BY DEF Book, TableInv
<1>3. \A k \in DOMAIN t : k \in Nat /\ t[k].last \in Nat
  BY <1>2 DEF Entries
<1>9. \A k \in DOMAIN t : t[k].last <= w
  BY DEF Book, TableInv
<1>4. \A k \in DOMAIN t : t[k].last <= w2
  BY <1>1, <1>3, <1>9
<1>5. TableInv(L, n, t, w2)
  BY <1>4 DEF Book, TableInv
<1>6. CoverInv(L, F, t, w2)
  BY <1>1 DEF Book, CoverInv
<1>7. \A k \in DOMAIN F : \A m \in F[k].recs : m.seq \in Nat
  BY DEF FilesInv, OneFile, Segments, Records
<1>8. BelowInv(F, t, w2, r, x)
  BY <1>1, <1>3, <1>7 DEF Book, BelowInv
<1> QED BY <1>5, <1>6, <1>8 DEF Book, TrustInv

(* What a rewrite gathers: records of its range, the oldest first.          *)
LEMMA GatherOf ==
  ASSUME RingInv(ring, latest), SizesAssumption, NEW lo \in Nat \ {0}, NEW hi \in Nat, hi <= latest,
         NEW b \in BOOLEAN
  PROVE  LET j == Compaction(lo, hi, b) IN
         /\ j \in Jobs /\ j.kind = "compact" /\ j.first = lo /\ ~j.create /\ j.repair = b
         /\ j.last <= hi /\ j.last <= latest /\ Known(ring, latest, j.recs)
         /\ Count(j.recs) <= SegRecords
         /\ \A x \in j.recs : x.seq \in lo..j.last
         /\ \A q \in LiveSeqs : q \in lo..hi /\ q <= j.last => q \in Seqs(j.recs)
         /\ \A q \in LiveSeqs :
              /\ q \in lo..hi
              /\ Cardinality({x \in LiveSeqs : x \in lo..hi /\ x < q}) < SegRecords
              => q \in Seqs(j.recs)
<1> DEFINE M == {m \in Live(ring) : m.seq \in lo..hi}
           O == Oldest(M, SegRecords)
           l == LastOf(O)
           j == Compaction(lo, hi, b)
<1>1. latest \in Nat /\ ring \subseteq Records /\ \A m \in ring : m.seq <= latest
  BY DEF RingInv
<1>2. M \in SUBSET Records /\ M \subseteq ring /\ Seqs(M) \subseteq 0..latest /\ SegRecords \in Nat
      /\ \A m \in M : m.seq \in lo..hi
  BY <1>1 DEF Live, Seqs, SizesAssumption, Records
<1>3. /\ O \subseteq M /\ Count(O) <= SegRecords
      /\ \A x \in O, y \in M : y.seq <= x.seq => y \in O
  BY <1>1, <1>2, OldestOf
<1>4. O \in SUBSET Records /\ Seqs(O) \subseteq 0..latest /\ \A x \in O : x.seq \in Seqs(O)
  BY <1>2, <1>3, SeqsOf DEF Seqs
<1>5. j = [NoJob EXCEPT !.kind = "compact", !.first = lo, !.repair = b, !.recs = O, !.last = l]
  BY DEF Compaction, Gather
<1> HIDE DEF O
<1>6. {0} \cup Seqs(O) \in SUBSET (0..latest) /\ {0} \cup Seqs(O) # {}
  BY <1>1, <1>4
<1>7. l \in {0} \cup Seqs(O) /\ \A x \in {0} \cup Seqs(O) : x <= l
  BY <1>1, <1>6, MaxOf DEF LastOf
<1>8. l \in Nat /\ l <= hi /\ l <= latest
  <2>1. \A x \in Seqs(O) : x \in Nat /\ x <= hi /\ x <= latest
    BY <1>1, <1>2, <1>3, <1>4 DEF Seqs
  <2> QED BY <1>1, <1>7, <2>1
<1> HIDE DEF l
<1>9. /\ j.kind = "compact" /\ j.first = lo /\ ~j.create /\ j.repair = b /\ j.recs = O /\ j.last = l
      /\ j.create = FALSE
  BY <1>5 DEF NoJob
<1>10. j \in Jobs
  BY <1>4, <1>5, <1>8 DEF NoJob, Jobs
<1> HIDE DEF j
<1>11. Known(ring, latest, O)
  <2> SUFFICES ASSUME NEW x \in O PROVE x.seq <= latest /\ Past(ring, x.seq)
    BY DEF Known
  <2>1. x \in ring
    BY <1>2, <1>3
  <2> QED BY <1>1, <2>1 DEF Past, Seqs
<1>12. \A x \in O : x.seq \in lo..l
  <2> TAKE x \in O
  <2>1. x.seq \in lo..hi /\ x.seq <= l
    BY <1>2, <1>3, <1>4, <1>7
  <2> QED BY <1>8, <2>1
<1>13. ASSUME NEW q \in LiveSeqs, q \in lo..hi, q <= l PROVE q \in Seqs(O)
  <2>1. PICK m \in Live(ring) : m.seq = q
    BY <1>13 DEF LiveSeqs, Seqs
  <2>2. m \in M
    BY <1>13, <2>1
  <2>3. l \in Seqs(O)
    BY <1>7, <1>13
  <2>4. PICK y \in O : y.seq = l
    BY <2>3 DEF Seqs
  <2>5. m \in O
    BY <1>3, <1>13, <2>1, <2>2, <2>4
  <2> QED BY <2>1, <2>5 DEF Seqs
<1>14. ASSUME NEW q \in LiveSeqs, q \in lo..hi,
              Cardinality({x \in LiveSeqs : x \in lo..hi /\ x < q}) < SegRecords
       PROVE  q \in Seqs(O)
  <2>1. PICK m \in Live(ring) : m.seq = q
    BY <1>14 DEF LiveSeqs, Seqs
  <2>2. m \in M
    BY <1>14, <2>1
  <2>3. Seqs(M) = {x \in LiveSeqs : x \in lo..hi}
    BY DEF LiveSeqs, Seqs
  <2>4. {x \in Seqs(M) : x < m.seq} = {x \in LiveSeqs : x \in lo..hi /\ x < q}
    BY <2>1, <2>3
  <2>5. m \in O
    <3>1. O = {y \in M : Cardinality({x \in Seqs(M) : x < y.seq}) < SegRecords}
      BY DEF O, Oldest
    <3> HIDE DEF M
    <3> QED BY <1>14, <2>2, <2>4, <3>1
  <2> QED BY <2>1, <2>5 DEF Seqs
<1> QED BY <1>3, <1>8, <1>9, <1>10, <1>11, <1>12, <1>13, <1>14 DEF j

(* A segment's own live messages are no more than a segment holds.          *)
FewIn(lo, hi)   == Cardinality({x \in LiveSeqs : x \in lo..hi}) <= SegRecords
Early(lo, hi, q) == Cardinality({x \in LiveSeqs : x \in lo..hi /\ x < q}) < SegRecords

(* The messages of one segment are among the first a gather takes.          *)
LEMMA OwnFit ==
  ASSUME RingInv(ring, latest), SizesAssumption, NEW k \in Nat, NEW l \in Nat, NEW hi \in Nat, l <= hi,
         FewIn(k, l), NEW q \in LiveSeqs, q \in k..l
  PROVE  Early(k, hi, q)
<1> DEFINE A == {x \in LiveSeqs : x \in k..hi /\ x < q}
           B == {x \in LiveSeqs : x \in k..l}
<1>1. latest \in Nat /\ LiveSeqs \subseteq 0..latest /\ SegRecords \in Nat
  BY DEF RingInv, LiveSeqs, Live, Seqs, Records, SizesAssumption
<1>2. Cardinality(B) <= SegRecords
  BY DEF FewIn
<1>3. A \in SUBSET (B \ {q}) /\ B \in SUBSET (0..latest) /\ q \in B
  <2>1. \A x \in LiveSeqs : x \in k..hi /\ x < q => x \in k..l /\ x # q
    <3> TAKE x \in LiveSeqs
    <3>1. x \in Nat /\ q \in Nat
      BY <1>1
    <3> QED BY <3>1
  <2> QED BY <1>1, <2>1
<1> HIDE DEF A, B
<1>4. IsFiniteSet(B) /\ Cardinality(B) \in Nat
  BY <1>1, <1>3, Part
<1>5. IsFiniteSet(B \ {q}) /\ Cardinality(B \ {q}) = Cardinality(B) - 1
  BY <1>3, <1>4, FS_RemoveElement
<1>6. Cardinality(A) <= Cardinality(B \ {q}) /\ Cardinality(A) \in Nat
  BY <1>3, <1>5, FS_Subset, FS_CardinalityType
<1>7. Cardinality(A) < SegRecords
  BY <1>1, <1>2, <1>4, <1>5, <1>6
<1> QED BY <1>7 DEF A, Early

Gathers(t, w, k, j) ==
  /\ Shape(ring, latest, j) /\ RewritePlan(LiveSeqs, t, w, j)
  /\ j.kind = "compact" /\ ~j.create /\ j.first = k

(* A gather over a segment, as far as the next one, is a right plan.        *)
LEMMA CompactionPlan ==
  ASSUME RingInv(ring, latest), SizesAssumption, NEW t \in Tables, NEW w \in Nat,
         TableInv(LiveSeqs, latest, t, w), NEW k \in DOMAIN t, k <= w,
         NEW hi \in Nat, hi <= latest, t[k].last <= hi, \A e \in DOMAIN t : k < e => hi < e,
         NEW b \in BOOLEAN, b \/ hi <= w
  PROVE  Gathers(t, w, k, Compaction(k, hi, b))
<1> DEFINE j == Compaction(k, hi, b)
<1>1. latest \in Nat /\ LiveSeqs \subseteq Nat /\ k \in 1..latest
  BY DEF RingInv, LiveSeqs, Live, Seqs, Records, TableInv
<1>2. t \in [DOMAIN t -> Entries] /\ DOMAIN t \in SUBSET Nat
  BY TablesIn
<1>3. k \in Nat \ {0} /\ k \in Nat /\ t[k].last \in Nat
  BY <1>1, <1>2 DEF Entries
<1>0. FewIn(k, t[k].last)
  <2> DEFINE c == Cardinality({x \in LiveSeqs : x \in k..t[k].last})
  <2>1. {x \in LiveSeqs : x \in k..t[k].last} \in SUBSET (0..latest)
    BY LiveNat
  <2>2. c \in Nat
    BY <1>1, <2>1, Part
  <2>3. c <= t[k].disk /\ t[k].disk <= SegRecords
    BY DEF TableInv
  <2>4. t[k].disk \in Nat /\ SegRecords \in Nat
    BY <1>2 DEF Entries, SizesAssumption
  <2> HIDE DEF c
  <2>5. c <= SegRecords
    BY <2>2, <2>3, <2>4
  <2> QED BY <2>5 DEF c, FewIn
<1>4. /\ j \in Jobs /\ j.kind = "compact" /\ j.first = k /\ ~j.create /\ j.repair = b
      /\ j.last <= hi /\ j.last <= latest /\ Known(ring, latest, j.recs)
      /\ Count(j.recs) <= SegRecords
      /\ \A x \in j.recs : x.seq \in k..j.last
      /\ \A q \in LiveSeqs : q \in k..hi /\ q <= j.last => q \in Seqs(j.recs)
      /\ \A q \in LiveSeqs :
           /\ q \in k..hi
           /\ Cardinality({x \in LiveSeqs : x \in k..hi /\ x < q}) < SegRecords
           => q \in Seqs(j.recs)
  BY <1>3, GatherOf
<1> HIDE DEF j
<1>5. j.last \in Nat
  BY <1>4 DEF Jobs
<1>6. Shape(ring, latest, j)
  BY <1>1, <1>4 DEF Shape
<1>7. ASSUME NEW q \in LiveSeqs, q \in k..t[k].last PROVE q \in Seqs(j.recs)
  <2>1. Early(k, hi, q)
    BY <1>0, <1>3, <1>7, OwnFit
  <2>2. q \in k..hi
    BY <1>1, <1>3, <1>7
  <2> QED BY <1>4, <2>1, <2>2 DEF Early
<1>8. \A e \in DOMAIN t : k < e => j.last < e
  BY <1>2, <1>4, <1>5
<1>9. ASSUME NEW q \in LiveSeqs, w < q, q <= j.last PROVE q \in Seqs(j.recs)
  <2>1. q \in k..hi
    BY <1>1, <1>3, <1>4, <1>5, <1>9
  <2> QED BY <1>4, <1>9, <2>1
<1>10. b \/ j.last <= w
  BY <1>4, <1>5
<1>11. RewritePlan(LiveSeqs, t, w, j)
  BY <1>4, <1>7, <1>8, <1>9, <1>10 DEF RewritePlan
<1> QED BY <1>4, <1>6, <1>11 DEF j, Gathers

(* segBuildJob, its repair: the range up to the next segment.               *)
LEMMA RepairPlan ==
  ASSUME RingInv(ring, latest), SizesAssumption, NEW t \in Tables, NEW w \in Nat, w <= latest,
         TableInv(LiveSeqs, latest, t, w), NEW k \in DOMAIN t, k <= w
  PROVE  Gathers(t, w, k, RepairJob(t, k))
<1> DEFINE later == {x \in DOMAIN t : x > k}
           hi == IF later = {} THEN latest ELSE Min(later) - 1
<1>1. RepairJob(t, k) = Compaction(k, hi, TRUE)
  BY DEF RepairJob
<1>2. latest \in Nat /\ DOMAIN t \in SUBSET (1..latest) /\ k \in Nat
  BY DEF RingInv, TableInv
<1>3. t \in [DOMAIN t -> Entries]
  BY TablesIn
<1>4. t[k].last \in Nat /\ t[k].last <= w
  BY <1>3 DEF Entries, TableInv
<1>5. hi \in Nat /\ hi <= latest /\ t[k].last <= hi /\ \A e \in DOMAIN t : k < e => hi < e
  <2>1. CASE later = {}
    BY <1>2, <1>4, <2>1
  <2>2. CASE later # {}
    <3> DEFINE m == Min(later)
    <3>1. later \in SUBSET Nat
      BY <1>2
    <3>2. m \in later /\ \A x \in later : m <= x
      BY <2>2, <3>1, MinOf
    <3>3. hi = m - 1
      BY <2>2
    <3> HIDE DEF m, hi
    <3>4. m \in DOMAIN t /\ m \in 1..latest /\ k < m
      BY <1>2, <3>2
    <3>5. t[k].last < m
      BY <3>4 DEF TableInv
    <3>6. \A e \in DOMAIN t : k < e => m <= e /\ e \in Nat
      BY <1>2, <3>2
    <3> QED BY <1>2, <1>4, <3>3, <3>4, <3>5, <3>6
  <2> QED BY <2>1, <2>2
<1> HIDE DEF hi
<1>6. Gathers(t, w, k, Compaction(k, hi, TRUE))
  <2>1. TRUE \in BOOLEAN /\ (TRUE \/ hi <= w)
    OBVIOUS
  <2> QED BY <1>5, <2>1, CompactionPlan
<1> QED BY <1>1, <1>6

(* ... its compaction: the segment as it is.                                *)
LEMMA CompactPlan ==
  ASSUME RingInv(ring, latest), SizesAssumption, NEW t \in Tables, NEW w \in Nat, w <= latest,
         TableInv(LiveSeqs, latest, t, w), NEW k \in DOMAIN t, k <= w
  PROVE  Gathers(t, w, k, CompactJob(t, k))
<1> DEFINE hi == t[k].last
<1>1. CompactJob(t, k) = Compaction(k, hi, FALSE)
  BY DEF CompactJob
<1>2. latest \in Nat
  BY DEF RingInv
<1>3. t \in [DOMAIN t -> Entries]
  BY TablesIn
<1>4. hi \in Nat /\ hi <= w /\ hi <= latest
  <2>1. hi \in Nat /\ hi <= w
    BY <1>3 DEF Entries, TableInv
  <2> QED BY <1>2, <2>1
<1>5. \A e \in DOMAIN t : k < e => hi < e
  BY DEF TableInv
<1> HIDE DEF hi
<1>6. t[k].last <= hi
  BY <1>4 DEF hi
<1>7. Gathers(t, w, k, Compaction(k, hi, FALSE))
  <2>1. FALSE \in BOOLEAN /\ (FALSE \/ hi <= w)
    BY <1>4
  <2> QED BY <1>4, <1>5, <1>6, <2>1, CompactionPlan
<1> QED BY <1>1, <1>7

(* segBuildJob, its append: the batch, and how far the watermark will go.   *)
LEMMA RoomOf ==
  ASSUME SizesAssumption, NEW t \in Tables, NEW n \in Nat, DOMAIN t \subseteq 1..n,
         \A k \in DOMAIN t : t[k].disk <= SegRecords
  PROVE  /\ Room(t) \in Nat /\ 0 < Room(t) /\ Room(t) <= SegRecords
         /\ ~Creates(t) => /\ Active(t) \in DOMAIN t /\ \A k \in DOMAIN t : k <= Active(t)
                           /\ t[Active(t)].disk + Room(t) <= SegRecords
<1>1. t \in [DOMAIN t -> Entries] /\ SegRecords \in Nat \ {0}
  BY TablesIn DEF SizesAssumption
<1>2. CASE Creates(t)
  BY <1>1, <1>2 DEF Room
<1>3. CASE ~Creates(t)
  <2>0. DOMAIN t # {}
    BY <1>3 DEF Creates
  <2>1. DOMAIN t # {} /\ DOMAIN t \in SUBSET (0..n)
    <3>1. \A k \in DOMAIN t : k \in 0..n
      OBVIOUS
    <3> QED BY <2>0, <3>1
  <2>2. Active(t) \in DOMAIN t /\ \A k \in DOMAIN t : k <= Active(t)
    BY <2>1, MaxOf DEF Active
  <2>3. t[Active(t)].disk \in Nat /\ ~(t[Active(t)].disk >= SegRecords)
    BY <1>1, <1>3, <2>2 DEF Entries, Creates
  <2>4. Room(t) = SegRecords - t[Active(t)].disk
    BY <1>3 DEF Room
  <2> QED BY <1>1, <1>3, <2>2, <2>3, <2>4
<1> QED BY <1>2, <1>3

(* The batch: what is pending, oldest first, as far as there is room.       *)
LEMMA BatchOf ==
  ASSUME RingInv(ring, latest), SizesAssumption, NEW s \in Tasks, s.flushed <= latest,
         TableInv(LiveSeqs, latest, s.table, s.flushed)
  PROVE  /\ Batch(s) \subseteq Live(Fresh(s)) /\ Batch(s) \subseteq Live(ring)
         /\ \A x \in Batch(s) : s.flushed < x.seq /\ x.seq <= Reach(s)
         /\ \A x \in Live(Fresh(s)) : x.seq <= Reach(s) => x \in Batch(s)
         /\ \A x \in Batch(s), y \in Live(Fresh(s)) : y.seq <= x.seq => y \in Batch(s)
         /\ Count(Batch(s)) <= Room(s.table)
         /\ Live(Fresh(s)) # {} => Batch(s) # {}
         /\ Reach(s) \in Nat /\ s.flushed <= Reach(s) /\ Reach(s) <= latest
<1> DEFINE M == Live(Fresh(s))
           O == Batch(s)
           w == s.flushed
           P == {x \in Fresh(s) : \A y \in M \ O : x.seq < y.seq}
           S == {w} \cup {m.seq : m \in P}
<1>1. latest \in Nat /\ ring \subseteq Records /\ \A m \in ring : m.seq <= latest
  BY DEF RingInv
<1>2. w \in Nat /\ s.table \in Tables /\ w <= latest
  BY DEF Tasks
<1>3. DOMAIN s.table \subseteq 1..latest /\ \A k \in DOMAIN s.table : s.table[k].disk <= SegRecords
  BY DEF TableInv
<1>4. Room(s.table) \in Nat /\ 0 < Room(s.table)
  BY <1>1, <1>2, <1>3, RoomOf
<1>5. /\ \A m \in Fresh(s) : m \in ring /\ w < m.seq /\ m.seq \in Nat /\ m.seq <= latest
      /\ M \subseteq Fresh(s) /\ M \subseteq Live(ring) /\ M \in SUBSET Records
      /\ Seqs(M) \subseteq 0..latest
  BY <1>1 DEF Fresh, Live, Records, Seqs
<1>6. O = Oldest(M, Room(s.table))
  BY DEF Batch
<1>7. Reach(s) = Max(S)
  BY DEF Reach
<1> HIDE DEF O
<1>8. /\ O \subseteq M /\ Count(O) <= Room(s.table)
      /\ \A x \in O, y \in M : y.seq <= x.seq => y \in O
      /\ Room(s.table) > 0 /\ M # {} => O # {}
  BY <1>1, <1>4, <1>5, <1>6, OldestOf
<1>9. S \in SUBSET (0..latest) /\ S # {}
  BY <1>1, <1>2, <1>5
<1>10. Max(S) \in S /\ \A x \in S : x <= Max(S)
  <2> HIDE DEF S
  <2> QED BY <1>1, <1>9, MaxOf
<1>11. Reach(s) \in Nat /\ w <= Reach(s) /\ Reach(s) <= latest
  <2>1. w \in S
    OBVIOUS
  <2> HIDE DEF S
  <2>2. Max(S) \in 0..latest /\ w <= Max(S)
    BY <1>9, <1>10, <2>1
  <2> QED BY <1>1, <1>7, <2>2
<1>12. ASSUME NEW x \in O PROVE w < x.seq /\ x.seq <= Reach(s)
  <2>1. x \in Fresh(s) /\ x \in M
    BY <1>5, <1>8
  <2>2. \A y \in M \ O : x.seq < y.seq
    <3> TAKE y \in M \ O
    <3>1. ~(y.seq <= x.seq)
      BY <1>8
    <3>2. y.seq \in Nat /\ x.seq \in Nat
      BY <1>5, <2>1
    <3> QED BY <3>1, <3>2
  <2>3. x.seq \in S
    BY <2>1, <2>2
  <2> HIDE DEF S
  <2> QED BY <1>5, <1>7, <1>10, <2>1, <2>3
<1>13. ASSUME NEW x \in M, x.seq <= Reach(s) PROVE x \in O
  <2>1. SUFFICES ASSUME x \notin O PROVE FALSE
    OBVIOUS
  <2>2. w < x.seq /\ x.seq \in Nat
    BY <1>5
  <2>3. \A e \in S : e < x.seq
    BY <2>1, <2>2
  <2> HIDE DEF S
  <2>4. Max(S) < x.seq
    BY <1>10, <2>3
  <2> QED BY <1>7, <1>11, <1>13, <2>2, <2>4
<1> HIDE DEF M, w
<1>14. O \subseteq Live(ring) /\ (M # {} => O # {})
  BY <1>4, <1>5, <1>8
<1> QED BY <1>8, <1>11, <1>12, <1>13, <1>14 DEF O, M, w

(* So an append is a right plan.                                            *)
LEMMA AppendJobPlan ==
  ASSUME RingInv(ring, latest), SizesAssumption, NEW s \in Tasks, s.flushed <= latest,
         TableInv(LiveSeqs, latest, s.table, s.flushed),
         \A k \in DOMAIN s.table : k <= s.flushed /\ ~s.table[k].open,
         ~AtCap(s.table), Live(Fresh(s)) # {}
  PROVE  LET j == AppendJob(s) IN
         /\ Shape(ring, latest, j) /\ AppendPlan(LiveSeqs, s.table, s.flushed, j)
         /\ j.create => j.first \in LiveSeqs /\ s.flushed < j.first
                        /\ \A q \in LiveSeqs : s.flushed < q => j.first <= q
<1> DEFINE j == AppendJob(s)
           O == Batch(s)
           w == s.flushed
           t == s.table
           f == IF Creates(t) THEN Min(Seqs(O)) ELSE Active(t)
<1>1. latest \in Nat /\ ring \subseteq Records /\ \A m \in ring : m.seq <= latest
  BY DEF RingInv
<1>2. w \in Nat /\ t \in Tables /\ w <= latest
  BY DEF Tasks
<1>3. /\ DOMAIN t \subseteq 1..latest /\ Cardinality(DOMAIN t) <= SegMax
      /\ \A k \in DOMAIN t : t[k].disk <= SegRecords
  BY DEF TableInv
<1>4. /\ Room(t) \in Nat /\ 0 < Room(t) /\ Room(t) <= SegRecords
      /\ ~Creates(t) => /\ Active(t) \in DOMAIN t /\ \A k \in DOMAIN t : k <= Active(t)
                        /\ t[Active(t)].disk + Room(t) <= SegRecords
  BY <1>1, <1>2, <1>3, RoomOf
<1>5. /\ O \subseteq Live(Fresh(s)) /\ O \subseteq Live(ring)
      /\ \A x \in O : w < x.seq /\ x.seq <= Reach(s)
      /\ \A x \in Live(Fresh(s)) : x.seq <= Reach(s) => x \in O
      /\ \A x \in O, y \in Live(Fresh(s)) : y.seq <= x.seq => y \in O
      /\ Count(O) <= Room(t) /\ O # {}
      /\ Reach(s) \in Nat /\ w <= Reach(s) /\ Reach(s) <= latest
  BY BatchOf
<1>6. /\ j = [NoJob EXCEPT !.kind = "append", !.recs = O, !.last = Reach(s),
                !.create = Creates(t), !.first = f]
  BY DEF AppendJob
<1> HIDE DEF O
<1>7. O \in SUBSET Records /\ Seqs(O) \in SUBSET (Nat \ {0}) /\ Seqs(O) # {}
      /\ (\A x \in O : x.seq \in Seqs(O)) /\ Seqs(O) \subseteq LiveSeqs
      /\ \A x \in O : x \in ring /\ x.seq <= latest
  <2>1. O \in SUBSET Records /\ \A x \in O : x \in ring /\ x.seq <= latest
    BY <1>1, <1>5 DEF Live
  <2>2. Seqs(O) \in SUBSET (Nat \ {0}) /\ \A x \in O : x.seq \in Seqs(O)
    BY <2>1, SeqsOf
  <2>3. Seqs(O) # {} /\ Seqs(O) \subseteq LiveSeqs
    BY <1>5 DEF Seqs, LiveSeqs
  <2> QED BY <2>1, <2>2, <2>3
<1>8. Min(Seqs(O)) \in Seqs(O) /\ \A q \in Seqs(O) : Min(Seqs(O)) <= q
  BY <1>7, MinOf
<1>9. Creates(t) => f = Min(Seqs(O))
  OBVIOUS
<1>10. ~Creates(t) => f = Active(t)
  OBVIOUS
<1>11. Creates(t) \in BOOLEAN
  BY DEF Creates
<1> HIDE DEF f
<1>12. f \in 1..latest /\ (\A x \in O : f <= x.seq)
  <2>1. CASE Creates(t)
    <3>1. PICK y \in O : y.seq = f
      BY <1>8, <1>9, <2>1 DEF Seqs
    <3>2. f \in Nat \ {0} /\ f <= latest
      BY <1>7, <3>1
    <3> QED BY <1>1, <1>7, <1>8, <1>9, <2>1, <3>2
  <2>2. CASE ~Creates(t)
    <3>1. f \in DOMAIN t /\ f <= w
      BY <1>4, <1>10, <2>2
    <3>2. f \in 1..latest
      BY <1>3, <3>1
    <3>3. \A x \in O : w < x.seq /\ x.seq \in Nat
      BY <1>5, <1>7
    <3> QED BY <1>1, <1>2, <3>1, <3>2, <3>3
  <2> QED BY <2>1, <2>2
<1>13. /\ j.kind = "append" /\ j.recs = O /\ j.last = Reach(s) /\ j.create = Creates(t)
       /\ j.first = f
  BY <1>6 DEF NoJob
<1>14. j \in Jobs
  <2>1. \A c \in BOOLEAN, r \in Nat, k \in Nat, M \in SUBSET Records :
          [NoJob EXCEPT !.kind = "append", !.recs = M, !.last = r, !.create = c, !.first = k] \in Jobs
    BY DEF NoJob, Jobs
  <2>2. f \in Nat
    BY <1>12
  <2>3. Reach(s) \in Nat /\ O \in SUBSET Records
    BY <1>5, <1>7
  <2>4. [NoJob EXCEPT !.kind = "append", !.recs = O, !.last = Reach(s),
           !.create = Creates(t), !.first = f] \in Jobs
    BY <1>11, <2>1, <2>2, <2>3, Zenon
  <2> QED BY <1>6, <2>4
<1> HIDE DEF j
<1>15. Count(O) \in Nat /\ Count(O) <= SegRecords
  <2>1. Count(O) \in Nat
    BY <1>1, <1>7, CountOf
  <2> QED BY <1>4, <1>5, <2>1 DEF SizesAssumption
<1>16. Shape(ring, latest, j)
  <2>1. Known(ring, latest, O)
    BY <1>7 DEF Known, Past, Seqs
  <2>2. \A x \in O : x.seq \in f..Reach(s)
    BY <1>5, <1>7, <1>12
  <2> QED BY <1>5, <1>12, <1>13, <1>14, <1>15, <2>1, <2>2 DEF Shape
<1>17. \A q \in LiveSeqs : w < q => \E x \in Live(Fresh(s)) : x.seq = q
  BY DEF LiveSeqs, Live, Seqs, Fresh
<1>18. ASSUME NEW q \in LiveSeqs, w < q, q <= Reach(s) PROVE q \in Seqs(O)
  BY <1>5, <1>7, <1>17, <1>18
<1>19. w < Reach(s)
  <2>1. PICK x \in O : TRUE
    BY <1>5
  <2>2. x.seq \in Nat
    BY <1>7
  <2> QED BY <1>2, <1>5, <2>1, <2>2
<1>20. ASSUME Creates(t)
       PROVE  /\ w < f /\ f \notin DOMAIN t /\ Cardinality(DOMAIN t) < SegMax
              /\ f \in LiveSeqs /\ \A q \in LiveSeqs : w < q => f <= q
  <2>1. f \in Seqs(O) /\ \A q \in Seqs(O) : f <= q
    BY <1>8, <1>9, <1>20
  <2>2. PICK y \in O : y.seq = f
    BY <2>1 DEF Seqs
  <2>3. w < f
    BY <1>5, <2>2
  <2>4. f \notin DOMAIN t
    BY <1>2, <1>12, <2>3
  <2>5. Cardinality(DOMAIN t) < SegMax
    <3>1. ~(Cardinality(DOMAIN t) >= SegMax)
      BY <1>20 DEF AtCap
    <3>2. DOMAIN t \in SUBSET (0..latest)
      BY <1>3
    <3>3. Cardinality(DOMAIN t) \in Nat
      BY <1>1, <3>2, Part
    <3> QED BY <3>1, <3>3 DEF SizesAssumption
  <2>6. ASSUME NEW q \in LiveSeqs, w < q PROVE f <= q
    <3>1. PICK x \in Live(Fresh(s)) : x.seq = q
      BY <1>17, <2>6
    <3>2. CASE x \in O
      BY <1>7, <2>1, <3>1, <3>2
    <3>3. CASE x \notin O
      <4>1. ~(x.seq <= y.seq)
        BY <1>5, <3>3
      <4>2. x.seq \in Nat /\ y.seq \in Nat
        BY <1>1, <1>7 DEF Live, Fresh, Records
      <4> QED BY <2>2, <3>1, <4>1, <4>2
    <3> QED BY <3>2, <3>3
  <2> QED BY <1>7, <2>1, <2>3, <2>4, <2>5, <2>6
<1>21. ASSUME ~Creates(t)
       PROVE  /\ f \in DOMAIN t /\ f <= w /\ \A k \in DOMAIN t : k <= f
              /\ t[f].disk + Count(O) <= SegRecords
  <2>1. f \in DOMAIN t /\ (\A k \in DOMAIN t : k <= f) /\ t[f].disk + Room(t) <= SegRecords
    BY <1>4, <1>10, <1>21
  <2>2. t[f].disk \in Nat
    BY <1>2, <2>1, TablesIn DEF Entries
  <2>3. t[f].disk + Count(O) <= SegRecords
    BY <1>4, <1>5, <1>15, <2>1, <2>2 DEF SizesAssumption
  <2> QED BY <2>1, <2>3
<1>22. AppendPlan(LiveSeqs, t, w, j)
  BY <1>5, <1>13, <1>18, <1>19, <1>20, <1>21 DEF AppendPlan
<1> QED BY <1>13, <1>16, <1>20, <1>22 DEF j

(* segBuildJob keeps the books, and the job it plans fits them.             *)
Builds(s, b) ==
  /\ b.h \in Tasks /\ b.h.job = s.job /\ b.h.dirty = s.dirty /\ s.flushed <= b.h.flushed
  /\ DOMAIN b.h.table = DOMAIN s.table
  /\ Book(LiveSeqs, latest, files, b.h.table, b.h.flushed, 0, 0)
  /\ b.job.kind # "none" =>
       Shape(ring, latest, b.job) /\ Plan(LiveSeqs, b.h.table, b.h.flushed, b.job)
  /\ b.job.kind = "none" => b.job = NoJob
  /\ \A k \in DOMAIN files \ DOMAIN b.h.table :
       b.job.kind = "append" /\ b.job.create /\ k = b.job.first

(* segBuildJob leaves the books exact and its job a right plan.             *)
LEMMA BuildBook ==
  ASSUME RingInv(ring, latest), SizesAssumption, FilesInv(ring, latest, files), NEW s0 \in Tasks,
         Book(LiveSeqs, latest, files, s0.table, s0.flushed, repair, 0),
         \A k \in DOMAIN files \ DOMAIN s0.table : Astray(s0, k)
  PROVE  Builds(s0, Build(s0))
<1> DEFINE t == Distrust(s0.table, repair)
           w == s0.flushed
           s == [s0 EXCEPT !.table = t]
           b == Build(s0)
           broken  == {k \in DOMAIN t : t[k].open}
           stale   == {k \in DOMAIN t : t[k].dirty}
           appends == ~AtCap(t) /\ Live(Fresh(s)) # {}
           up      == [s EXCEPT !.flushed = Reach(s)]
           passed  == IF AtCap(t) THEN s ELSE up
<1>1. s0.table \in Tables /\ w \in Nat
  BY DEF Tasks
<1>2. latest \in Nat /\ LiveSeqs \in SUBSET Nat
  BY DEF RingInv, LiveSeqs, Live, Seqs, Records
<1>3. /\ t \in Tables /\ DOMAIN t = DOMAIN s0.table
      /\ \A k \in DOMAIN t : t[k].disk = s0.table[k].disk
                             /\ t[k].open = (s0.table[k].open \/ k = repair)
  BY <1>1, DistrustIs
<1>4. Book(LiveSeqs, latest, files, t, w, 0, 0)
  <2>1. 0 \in DOMAIN s0.table => 0 <= w
    BY <1>1
  <2> QED BY <1>1, <2>1, DistrustBook
<1>5. s \in Tasks /\ s.table = t /\ s.flushed = w /\ s.job = s0.job /\ s.dirty = s0.dirty
  BY <1>3 DEF Tasks
<1>6. b = CASE broken # {} -> [h |-> s, job |-> RepairJob(t, Min(broken))]
            [] broken = {} /\ appends -> [h |-> s, job |-> AppendJob(s)]
            [] broken = {} /\ ~appends /\ stale # {} ->
                 [h |-> passed, job |-> CompactJob(t, Min(stale))]
            [] OTHER -> [h |-> passed, job |-> NoJob]
  BY <1>5 DEF Build
<1> SUFFICES Builds(s0, b)
  OBVIOUS
<1> HIDE DEF b, t, s
<1>7. /\ TableInv(LiveSeqs, latest, t, w) /\ w \in 0..latest /\ w <= latest
      /\ \A k \in DOMAIN t : k <= w /\ k \in Nat
      /\ broken \in SUBSET Nat /\ stale \in SUBSET Nat
  <2>1. TableInv(LiveSeqs, latest, t, w) /\ BelowInv(files, t, w, 0, 0)
    BY <1>4 DEF Book
  <2>2. w \in 0..latest /\ DOMAIN t \subseteq 1..latest
    BY <2>1 DEF TableInv
  <2>3. \A k \in DOMAIN t : k <= w
    BY <2>1, <2>2 DEF BelowInv
  <2> QED BY <1>2, <2>1, <2>2, <2>3
<1>8. ASSUME NEW k \in DOMAIN files \ DOMAIN t
      PROVE  /\ broken = {} /\ appends /\ Creates(t) /\ k \in LiveSeqs /\ w < k
             /\ \A q \in LiveSeqs : w < q => k <= q
  <2>1. Astray(s0, k)
    BY <1>3
  <2>2. /\ k \in LiveSeqs /\ w < k /\ (\A q \in LiveSeqs : w < q => k <= q)
        /\ Creates(s0.table) /\ Cardinality(DOMAIN s0.table) < SegMax
        /\ \A e \in DOMAIN s0.table : ~s0.table[e].open /\ e # repair
    BY <2>1 DEF Astray
  <2>3. broken = {}
    BY <1>3, <2>2
  <2>4. Creates(t)
    <3>1. CASE DOMAIN t = {}
      BY <3>1 DEF Creates
    <3>2. CASE DOMAIN t # {}
      <4>1. DOMAIN t \in SUBSET (0..latest)
        BY <1>7 DEF TableInv
      <4>2. Active(t) \in DOMAIN t
        BY <1>2, <3>2, <4>1, MaxOf DEF Active
      <4>3. Active(s0.table) = Active(t)
        BY <1>3 DEF Active
      <4> QED BY <1>3, <2>2, <3>2, <4>2, <4>3 DEF Creates
    <3> QED BY <3>1, <3>2
  <2>5. ~AtCap(t)
    <3>1. DOMAIN t \in SUBSET (0..latest)
      BY <1>7 DEF TableInv
    <3>2. Cardinality(DOMAIN t) \in Nat /\ SegMax \in Nat
      BY <1>2, <3>1, Part DEF SizesAssumption
    <3> QED BY <1>3, <2>2, <3>2 DEF AtCap
  <2>6. Live(Fresh(s)) # {}
    <3>1. PICK m \in Live(ring) : m.seq = k
      BY <2>2 DEF LiveSeqs, Seqs
    <3>2. m \in Live(Fresh(s))
      BY <1>5, <2>2, <3>1 DEF Live, Fresh, RingInv, Records
    <3> QED BY <3>2
  <2> QED BY <2>2, <2>3, <2>4, <2>5, <2>6
<1>9. CASE broken # {}
  <2> DEFINE k == Min(broken)
             j == RepairJob(t, k)
  <2>1. k \in broken
    BY <1>7, <1>9, MinOf
  <2> HIDE DEF k
  <2>2. k \in DOMAIN t /\ t[k].open /\ k <= w
    BY <1>7, <2>1
  <2>3. Gathers(t, w, k, j)
    BY <1>1, <1>3, <1>7, <2>2, RepairPlan
  <2> HIDE DEF j
  <2>4. b = [h |-> s, job |-> j]
    BY <1>6, <1>9 DEF j, k
  <2>5. b.h = s /\ b.job = j
    BY <2>4
  <2>6. Shape(ring, latest, j) /\ Plan(LiveSeqs, t, w, j) /\ j.kind # "none"
    BY <2>2, <2>3 DEF Gathers, Plan
  <2>7. DOMAIN files \subseteq DOMAIN t
    BY <1>8, <1>9
  <2> QED BY <1>1, <1>3, <1>4, <1>5, <2>5, <2>6, <2>7 DEF Builds
<1>10. CASE broken = {} /\ appends
  <2> DEFINE j == AppendJob(s)
  <2>1. \A k \in DOMAIN s.table : k <= s.flushed /\ ~s.table[k].open
    BY <1>5, <1>7, <1>10
  <2>2. /\ Shape(ring, latest, j) /\ AppendPlan(LiveSeqs, s.table, s.flushed, j)
        /\ j.create => j.first \in LiveSeqs /\ s.flushed < j.first
                        /\ \A q \in LiveSeqs : s.flushed < q => j.first <= q
    BY <1>5, <1>7, <1>10, <2>1, AppendJobPlan
  <2>0. j.create = Creates(t)
    BY <1>5 DEF AppendJob, NoJob
  <2> HIDE DEF j
  <2>3. b = [h |-> s, job |-> j]
    BY <1>6, <1>10 DEF j
  <2>4. b.h = s /\ b.job = j
    BY <2>3
  <2>5. Plan(LiveSeqs, t, w, j) /\ j.kind = "append"
    BY <1>5, <2>2 DEF Plan, AppendPlan
  <2>6. ASSUME NEW k \in DOMAIN files \ DOMAIN t PROVE j.create /\ k = j.first
    <3>1. Creates(t) /\ k \in LiveSeqs /\ w < k /\ \A q \in LiveSeqs : w < q => k <= q
      BY <1>8
    <3>2. j.create /\ j.first \in LiveSeqs /\ w < j.first
          /\ \A q \in LiveSeqs : w < q => j.first <= q
      BY <1>5, <2>0, <2>2, <3>1
    <3>3. k <= j.first /\ j.first <= k /\ k \in Nat /\ j.first \in Nat
      BY <1>2, <3>1, <3>2
    <3> QED BY <3>2, <3>3
  <2> QED BY <1>1, <1>3, <1>4, <1>5, <2>2, <2>4, <2>5, <2>6 DEF Builds
<1>11. CASE broken = {} /\ ~appends
  <2> DEFINE w2 == passed.flushed
  <2>1. Reach(s) \in Nat /\ w <= Reach(s) /\ Reach(s) <= latest
        /\ \A x \in Live(Fresh(s)) : x.seq <= Reach(s) => x \in Batch(s)
    BY <1>5, <1>7, BatchOf
  <2>2. up \in Tasks /\ up.table = t /\ up.flushed = Reach(s) /\ up.job = s0.job /\ up.dirty = s0.dirty
    BY <1>5, <2>1 DEF Tasks
  <2>4. /\ passed \in Tasks /\ passed.table = t /\ passed.job = s0.job /\ passed.dirty = s0.dirty
        /\ w2 \in Nat /\ w <= w2 /\ w2 <= latest
        /\ \A q \in LiveSeqs : ~(w < q /\ q <= w2)
    <3>1. CASE AtCap(t)
      <4>1. passed = s
        BY <3>1
      <4>2. \A q \in LiveSeqs : ~(w < q /\ q <= w)
        BY <1>1, <1>2
      <4> HIDE DEF passed
      <4> QED BY <1>1, <1>5, <1>7, <4>1, <4>2
    <3>2. CASE ~AtCap(t)
      <4>1. passed = up /\ Live(Fresh(s)) = {}
        BY <1>11, <3>2
      <4>2. \A q \in LiveSeqs : ~(w < q)
        <5> SUFFICES ASSUME NEW q \in LiveSeqs, w < q PROVE FALSE
          OBVIOUS
        <5>1. PICK m \in Live(ring) : m.seq = q
          BY DEF LiveSeqs, Seqs
        <5>2. m \in Live(Fresh(s))
          BY <1>5, <5>1 DEF Live, Fresh
        <5> QED BY <4>1, <5>2
      <4> HIDE DEF up
      <4> QED BY <2>1, <2>2, <4>1, <4>2
    <3> QED BY <3>1, <3>2
  <2> HIDE DEF passed
  <2>5. Book(LiveSeqs, latest, files, t, w2, 0, 0)
    <3>1. w2 \in 0..latest
      BY <1>2, <2>4
    <3> HIDE DEF w2
    <3> QED BY <1>2, <1>4, <2>4, <3>1, BookUp
  <2>6. DOMAIN files \subseteq DOMAIN t
    BY <1>8, <1>11
  <2>7. CASE stale # {}
    <3> DEFINE k == Min(stale)
               j == CompactJob(t, k)
    <3>1. k \in stale
      BY <1>7, <2>7, MinOf
    <3> HIDE DEF k
    <3>2. k \in DOMAIN t /\ t[k].dirty /\ k <= w2
      BY <1>1, <1>7, <2>4, <3>1
    <3>3. TableInv(LiveSeqs, latest, t, w2)
      BY <2>5 DEF Book
    <3>4. Gathers(t, w2, k, j)
      <4> HIDE DEF w2
      <4> QED BY <1>3, <2>4, <3>2, <3>3, CompactPlan
    <3> HIDE DEF j
    <3>5. b = [h |-> passed, job |-> j]
      BY <1>6, <1>11, <2>7 DEF j, k
    <3>6. b.h = passed /\ b.job = j
      BY <3>5
    <3>7. Shape(ring, latest, j) /\ Plan(LiveSeqs, t, w2, j) /\ j.kind # "none"
      BY <3>2, <3>4 DEF Gathers, Plan
    <3> QED BY <1>3, <2>4, <2>5, <2>6, <3>6, <3>7 DEF Builds
  <2>8. CASE stale = {}
    <3>1. b = [h |-> passed, job |-> NoJob]
      BY <1>6, <1>11, <2>8
    <3>2. b.h = passed /\ b.job = NoJob /\ NoJob.kind = "none"
      BY <3>1 DEF NoJob
    <3> QED BY <1>3, <2>4, <2>5, <2>6, <3>2 DEF Builds
  <2> QED BY <2>7, <2>8
<1> QED BY <1>9, <1>10, <1>11

(* flushHistoryIfDue plans its job from books that are exact.               *)
LEMMA PlannedBook ==
  ASSUME HInvariant, SizesAssumption, Steady, Due
  PROVE  /\ worker = "idle" /\ LoopFree /\ Powered /\ drain.job = NoJob /\ drain \in Drains
         /\ Settles(Observe(h)) /\ ~Observe(h).resync /\ ~Planned.h.resync /\ ~Planned.h.purge
         /\ Builds(Observe(h), Planned) /\ Planned.h \in Tasks /\ Planned.h.job = NoJob
         /\ DOMAIN files \subseteq DOMAIN Planned.h.table
         /\ latest \in Nat /\ Planned.h.flushed \in Nat
         /\ (~Planned.h.dirty => latest <= Planned.h.flushed)
         /\ drain.from = "reboot" => MaxWorkerFails = 0
<1> DEFINE o == Observe(h)
           p == Planned
<1>1. /\ worker = "idle" /\ LoopFree /\ Powered
      /\ RingInv(ring, latest) /\ FilesInv(ring, latest, files) /\ DrainInv /\ Calm
  BY DEF Due, TickRuns, HInvariant, LoopFree, Powered
<1>2. Settles(o)
  BY <1>1, ObserveSettles
<1>3. ~o.resync
  BY <1>2 DEF Settles, Tasks
<1>4. p = Build(o)
  BY <1>3 DEF Planned
<1> HIDE DEF p, o
<1>5. /\ o \in Tasks /\ Book(LiveSeqs, latest, files, o.table, o.flushed, repair, 0)
      /\ DOMAIN files \subseteq DOMAIN o.table /\ o.job = NoJob /\ (~o.dirty => latest <= o.flushed)
  BY <1>2 DEF Settles
<1>6. Builds(o, p)
  <2>1. \A k \in DOMAIN files \ DOMAIN o.table : Astray(o, k)
    BY <1>5
  <2>2. Builds(o, Build(o))
    BY <1>1, <1>5, <2>1, BuildBook
  <2> QED BY <1>4, <2>2
<1>7. /\ p.h \in Tasks /\ p.h.job = NoJob /\ DOMAIN files \subseteq DOMAIN p.h.table
      /\ p.h.dirty = o.dirty /\ o.flushed <= p.h.flushed
  BY <1>5, <1>6 DEF Builds
<1>8. ~p.h.resync /\ ~p.h.purge /\ p.h.flushed \in Nat /\ o.flushed \in Nat /\ latest \in Nat
  BY <1>1, <1>5, <1>7 DEF Tasks, RingInv
<1>9. ~p.h.dirty => latest <= p.h.flushed
  BY <1>5, <1>7, <1>8
<1>10. drain.job = NoJob /\ drain \in Drains /\ (drain.from = "reboot" => MaxWorkerFails = 0)
  BY <1>1 DEF DrainInv, LoopFree, Calm
<1> QED BY <1>1, <1>2, <1>3, <1>6, <1>7, <1>8, <1>9, <1>10 DEF p, o

(* The loop task hands the worker a job.                                    *)
LEMMA ArmStep ==
  ASSUME HInvariant, SizesAssumption, Steady, Arm
  PROVE  HInvariant'
<1> DEFINE p == Planned
           d == MoreWork(p.h) \/ p.h.purge
<1>1. /\ Due /\ p.job.kind # "none" /\ worker' = "queued"
      /\ h' = [p.h EXCEPT !.job = p.job, !.redirty = FALSE, !.dirty = d]
      /\ flushOk' = TRUE /\ repair' = 0 /\ ring' = ring /\ latest' = latest
      /\ drain' = drain /\ files' = files /\ marker' = marker /\ used' = used
  BY DEF Arm, Healthy, ram, disk
<1>2. /\ LoopFree /\ Powered /\ drain.job = NoJob /\ Builds(Observe(h), p)
      /\ p.h \in Tasks /\ DOMAIN files \subseteq DOMAIN p.h.table
      /\ latest \in Nat /\ p.h.flushed \in Nat
  BY <1>1, PlannedBook
<1>3. ~d => latest <= p.h.flushed
  BY <1>2 DEF MoreWork
<1>4. d \in BOOLEAN
  BY <1>2 DEF MoreWork, Tasks
<1>5. /\ Book(LiveSeqs, latest, files, p.h.table, p.h.flushed, 0, 0)
      /\ Shape(ring, latest, p.job) /\ Plan(LiveSeqs, p.h.table, p.h.flushed, p.job)
  BY <1>1, <1>2 DEF Builds
<1>6. p.job \in Jobs
  BY <1>5 DEF Shape
<1> HIDE DEF d, p
<1>7. /\ h' \in Tasks /\ h'.table = p.h.table /\ h'.flushed = p.h.flushed
      /\ h'.job = p.job /\ h'.dirty = d
  BY <1>1, <1>2, <1>4, <1>6 DEF Tasks
<1>8. /\ RingInv(ring, latest) /\ FilesInv(ring, latest, files) /\ Calm /\ DrainInv
      /\ drain.pc = "idle"
  BY <1>2 DEF HInvariant, LoopFree
<1>9. LiveSeqs' = LiveSeqs /\ Powered' /\ ~Done' /\ Ahead' = drain.job.first
  BY <1>1, <1>2 DEF LiveSeqs, Powered, Done, Ahead
<1>10. Ahead' = 0
  BY <1>2, <1>9 DEF NoJob
<1>11. Book(LiveSeqs, latest, files, h.table, h.flushed, repair, Ahead)'
  BY <1>1, <1>5, <1>7, <1>9, <1>10
<1>12. JobInv'
  BY <1>1, <1>5, <1>7, <1>9 DEF JobInv
<1>13. StrayInv'
  BY <1>1, <1>2, <1>7 DEF StrayInv
<1>14. DrainInv'
  BY <1>1, <1>2, <1>8 DEF DrainInv
<1>15. Calm'
  BY <1>1, <1>7, <1>8, <1>9 DEF Calm
<1>16. RingInv(ring, latest)' /\ FilesInv(ring, latest, files)'
  BY <1>1, <1>8
<1> QED BY <1>1, <1>3, <1>7, <1>9, <1>11, <1>12, <1>13, <1>14, <1>15, <1>16 DEF HInvariant

(* The drain begins where the loop task stands.                             *)
LEMMA BeginDrainIs ==
  ASSUME NEW s \in Tasks, NEW from, BeginDrain(s, from), SizesAssumption,
         from \in {"flush", "persist", "reboot"}
  PROVE  /\ h' = s /\ drain' \in Drains /\ drain'.pc = "build" /\ drain'.job = NoJob
         /\ drain'.from = from /\ drain'.left > 0
<1>1. ~s.resync
  BY DEF Tasks
<1>2. h' = s
  BY <1>1 DEF BeginDrain
<1>3. drain' = [pc |-> "build", from |-> from, left |-> SegMax + 4, job |-> NoJob, failed |-> FALSE]
  BY DEF BeginDrain, Idle
<1>4. SegMax + 4 \in Nat /\ SegMax + 4 > 0
  BY DEF SizesAssumption
<1> QED BY <1>2, <1>3, <1>4, NoJobIn DEF Drains

(* The flush that needs no worker: the drain begins, or there is nothing to *)
(* do.                                                                      *)
LEMMA FlushStep ==
  ASSUME HInvariant, SizesAssumption, Steady, TickDegraded \/ TickNoWorker \/ Settle
  PROVE  HInvariant'
<1> DEFINE o == Observe(h)
           p == Planned
<1>1. /\ Due /\ flushOk' = TRUE /\ ring' = ring /\ latest' = latest /\ worker' = worker
  BY DEF TickDegraded, TickNoWorker, Settle, Healthy, ram
<1>2. /\ worker = "idle" /\ LoopFree /\ Powered /\ drain.job = NoJob /\ drain \in Drains
      /\ Settles(o) /\ ~p.h.resync /\ ~p.h.purge
      /\ Builds(o, p) /\ p.h \in Tasks /\ p.h.job = NoJob
      /\ DOMAIN files \subseteq DOMAIN p.h.table
      /\ latest \in Nat /\ p.h.flushed \in Nat
      /\ (~p.h.dirty => latest <= p.h.flushed)
      /\ (drain.from = "reboot" => MaxWorkerFails = 0)
  BY <1>1, PlannedBook
<1>3. /\ o \in Tasks /\ Book(LiveSeqs, latest, files, o.table, o.flushed, repair, 0)
      /\ DOMAIN files \subseteq DOMAIN o.table /\ o.job = NoJob /\ (~o.dirty => latest <= o.flushed)
  BY <1>2 DEF Settles
<1>4. Book(LiveSeqs, latest, files, p.h.table, p.h.flushed, 0, 0)
  BY <1>2 DEF Builds
<1>5. Calm /\ drain.pc = "idle"
  BY <1>2 DEF HInvariant, LoopFree
<1> HIDE DEF o, p
<1>6. CASE TickDegraded
  <2>1. /\ BeginDrain(o, "flush") /\ repair' = repair /\ files' = files /\ marker' = marker
        /\ used' = used
    BY <1>6 DEF TickDegraded, disk, o
  <2>2. /\ h' = o /\ drain' \in Drains /\ drain'.pc = "build" /\ drain'.job = NoJob
        /\ drain'.from = "flush"
    BY <1>3, <2>1, BeginDrainIs
  <2>3. Book(LiveSeqs, latest, files, h'.table, h'.flushed, repair', 0)
    BY <1>3, <2>1, <2>2
  <2>4. \A k \in DOMAIN files \ DOMAIN h'.table : Stray(k)'
    BY <1>3, <2>2
  <2>5. /\ flushOk' \in BOOLEAN /\ repair' \in Nat /\ (MaxWorkerFails = 0 => flushOk' /\ repair' = 0)
        /\ used' \in Uses /\ used'.syncFails = 0
    BY <1>1, <1>5, <2>1 DEF Calm
  <2> QED BY <1>1, <1>2, <1>3, <2>1, <2>2, <2>3, <2>4, <2>5, RestStep
<1>7. CASE TickNoWorker
  <2>1. /\ BeginDrain(p.h, "flush") /\ repair' = 0 /\ files' = files /\ marker' = marker
        /\ used' = used
    BY <1>7 DEF TickNoWorker, disk, p
  <2>2. /\ h' = p.h /\ drain' \in Drains /\ drain'.pc = "build" /\ drain'.job = NoJob
        /\ drain'.from = "flush"
    BY <1>2, <2>1, BeginDrainIs
  <2>3. Book(LiveSeqs, latest, files, h'.table, h'.flushed, repair', 0)
    BY <1>4, <2>1, <2>2
  <2>4. \A k \in DOMAIN files \ DOMAIN h'.table : Stray(k)'
    BY <1>2, <2>2
  <2>5. /\ flushOk' \in BOOLEAN /\ repair' \in Nat /\ (MaxWorkerFails = 0 => flushOk' /\ repair' = 0)
        /\ used' \in Uses /\ used'.syncFails = 0
    BY <1>1, <1>5, <2>1 DEF Calm
  <2> QED BY <1>1, <1>2, <2>1, <2>2, <2>3, <2>4, <2>5, RestStep
<1>8. CASE Settle
  <2>1. /\ repair' = 0 /\ drain' = drain
        /\ \/ ~MoreWork(p.h) /\ FinishResync(p.h, [p.h EXCEPT !.dirty = FALSE])
           \/ MoreWork(p.h) /\ h' = p.h /\ UNCHANGED <<disk, fails, used>>
    BY <1>2, <1>8 DEF Settle, ResyncFails, p
  <2>2. /\ h' \in Tasks /\ h'.job = NoJob /\ (~h'.dirty => latest <= h'.flushed)
        /\ h'.table = p.h.table /\ h'.flushed = p.h.flushed
        /\ files' = files /\ marker' = marker /\ used' = used
    <3>1. CASE ~MoreWork(p.h) /\ FinishResync(p.h, [p.h EXCEPT !.dirty = FALSE])
      <4>1. /\ h' = [p.h EXCEPT !.dirty = FALSE] /\ UNCHANGED disk /\ used' = used
        BY <1>2, <3>1 DEF FinishResync
      <4>2. latest <= p.h.flushed
        BY <1>2, <3>1 DEF MoreWork
      <4>3. h' \in Tasks /\ h'.job = p.h.job /\ h'.table = p.h.table /\ h'.flushed = p.h.flushed
        BY <1>2, <4>1 DEF Tasks
      <4> QED BY <1>2, <4>1, <4>2, <4>3 DEF disk
    <3>2. CASE MoreWork(p.h) /\ h' = p.h /\ UNCHANGED <<disk, fails, used>>
      BY <1>2, <3>2 DEF disk
    <3> QED BY <2>1, <3>1, <3>2
  <2>3. Book(LiveSeqs, latest, files, h'.table, h'.flushed, repair', 0)
    BY <1>4, <2>1, <2>2
  <2>4. \A k \in DOMAIN files \ DOMAIN h'.table : Stray(k)'
    BY <1>2, <2>2
  <2>5. /\ flushOk' \in BOOLEAN /\ repair' \in Nat /\ (MaxWorkerFails = 0 => flushOk' /\ repair' = 0)
        /\ used' \in Uses /\ used'.syncFails = 0
    BY <1>1, <1>5, <2>1, <2>2 DEF Calm
  <2>6. drain' \in Drains /\ drain'.pc \in {"idle", "build"} /\ drain'.job = NoJob
        /\ (drain'.from = "reboot" => MaxWorkerFails = 0)
    BY <1>2, <1>5, <2>1
  <2> QED BY <1>1, <1>2, <2>2, <2>3, <2>4, <2>5, <2>6, RestStep
<1> QED BY <1>6, <1>7, <1>8

(* The drain writes an append as a rewrite, of a segment it enters first.   *)
LEMMA AsRewriteBook ==
  ASSUME RingInv(ring, latest), SizesAssumption, FilesInv(ring, latest, files), NEW t \in Tables,
         NEW w \in Nat, Book(LiveSeqs, latest, files, t, w, 0, 0), NEW j, Shape(ring, latest, j),
         AppendPlan(LiveSeqs, t, w, j), DOMAIN files \subseteq DOMAIN t \cup {j.first}
  PROVE  /\ AsRewrite(j).first = j.first
         /\ Enter(t, j) \in Tables /\ DOMAIN Enter(t, j) = DOMAIN t \cup {j.first}
         /\ Book(LiveSeqs, latest, files, Enter(t, j), w, 0, j.first)
         /\ Shape(ring, latest, AsRewrite(j))
         /\ RewritePlan(LiveSeqs, Enter(t, j), w, AsRewrite(j))
<1> DEFINE k == j.first
           hi == j.last
           C == Compaction(k, hi, TRUE)
           O == Gather(k, hi)
           J == AsRewrite(j)
           t2 == Enter(t, j)
           L == LiveSeqs
           f == Segment(0, 0, FALSE)
<1>1. L \subseteq Nat /\ latest \in Nat
  BY LiveNat
<1>2. /\ t \in [DOMAIN t -> Entries] /\ DOMAIN t \subseteq 1..latest /\ w \in 0..latest
      /\ Cardinality(DOMAIN t) <= SegMax
  BY DEF Book, TableInv
<1>3. /\ k \in 1..latest /\ k \in Nat \ {0} /\ k \in Nat /\ hi \in Nat /\ hi <= latest /\ j.create \in BOOLEAN
      /\ Count(j.recs) <= SegRecords /\ j \in Jobs
  BY DEF Shape, Jobs
<1>4. Count(j.recs) \in Nat
  <2>1. j.recs \in SUBSET Records /\ \A m \in j.recs : m.seq <= latest
    BY DEF Shape, Known, Jobs
  <2> QED BY <1>1, <2>1, CountOf
<1>5. /\ j.kind = "append" /\ w < hi
      /\ \A q \in L : w < q /\ q <= hi => q \in Seqs(j.recs)
      /\ j.create => /\ w < k /\ k \notin DOMAIN t /\ Cardinality(DOMAIN t) < SegMax
      /\ ~j.create => /\ k \in DOMAIN t /\ (\A e \in DOMAIN t : e <= k)
                      /\ t[k].disk + Count(j.recs) <= SegRecords
  BY DEF AppendPlan
<1>6. FewIn(k, hi)
  <2> DEFINE c == Cardinality({q \in L : q \in k..hi})
             d == IF j.create THEN 0 ELSE t[k].disk
  <2>1. c <= d + Count(j.recs)
    BY AppendCounts
  <2>2. d \in Nat /\ d + Count(j.recs) <= SegRecords
    <3>1. ~j.create => t[k].disk \in Nat
      BY <1>2, <1>5 DEF Entries
    <3> QED BY <1>3, <1>4, <1>5, <3>1
  <2>3. c \in Nat
    <3>1. {q \in L : q \in k..hi} \in SUBSET (0..latest)
      BY LiveNat
    <3> QED BY <1>1, <3>1, Part
  <2>4. SegRecords \in Nat
    BY DEF SizesAssumption
  <2> HIDE DEF c, d
  <2>5. c <= SegRecords
    BY <1>4, <2>1, <2>2, <2>3, <2>4
  <2> QED BY <2>5 DEF c, FewIn
<1>7. /\ C \in Jobs /\ C.last <= hi /\ Known(ring, latest, C.recs) /\ Count(C.recs) <= SegRecords
      /\ \A x \in C.recs : x.seq \in k..C.last
      /\ \A q \in L :
           /\ q \in k..hi
           /\ Cardinality({x \in L : x \in k..hi /\ x < q}) < SegRecords
           => q \in Seqs(C.recs)
  <2>1. TRUE \in BOOLEAN
    OBVIOUS
  <2> QED BY <1>3, <2>1, GatherOf
<1>8. C.recs = O
  BY DEF Compaction, NoJob
<1>9. J = [j EXCEPT !.kind = "compact", !.repair = TRUE, !.recs = O]
  BY <1>5 DEF AsRewrite
<1> HIDE DEF C, O, J
<1>10. O \in SUBSET Records /\ C.last \in Nat
  BY <1>7, <1>8 DEF Jobs
<1>11. /\ J \in Jobs /\ J.kind = "compact" /\ J.first = k /\ J.last = hi /\ J.recs = O /\ J.repair
  BY <1>3, <1>9, <1>10 DEF Jobs
<1>12. Shape(ring, latest, J)
  <2>1. \A x \in O : x.seq \in k..hi
    <3> TAKE x \in O
    <3>1. x.seq \in k..C.last
      BY <1>7, <1>8
    <3> QED BY <1>3, <1>7, <1>10, <3>1
  <2> QED BY <1>3, <1>7, <1>8, <1>11, <2>1 DEF Shape
<1>13. ASSUME NEW q \in L, q \in k..hi PROVE q \in Seqs(O)
  <2>1. Early(k, hi, q)
    <3>1. hi <= hi
      BY <1>3
    <3> HIDE DEF k, hi
    <3> QED BY <1>3, <1>6, <1>13, <3>1, OwnFit
  <2> QED BY <1>7, <1>8, <1>13, <2>1 DEF Early
<1>14. CASE ~j.create
  <2>1. t2 = t /\ DOMAIN t2 = DOMAIN t \cup {k} /\ t2 \in Tables
    BY <1>5, <1>14 DEF Enter
  <2> HIDE DEF t2
  <2>2. Book(L, latest, files, t2, w, 0, k)
    BY <2>1, BookAhead
  <2>3. t[k].last \in Nat /\ t[k].last <= w
    <3>1. k \in DOMAIN t
      BY <1>5, <1>14
    <3>2. t[k].last <= w
      BY <3>1 DEF Book, TableInv
    <3> QED BY <1>2, <3>1, <3>2 DEF Entries
  <2>4. ASSUME NEW q \in L, q \in k..t[k].last PROVE q \in Seqs(O)
    <3>1. q \in k..hi
      BY <1>1, <1>3, <1>5, <2>3, <2>4
    <3> QED BY <1>13, <3>1
  <2>5. ASSUME NEW q \in L, w < q, q <= hi PROVE q \in Seqs(O)
    <3>1. \A e \in DOMAIN t : e <= w
      <4>1. \A e \in DOMAIN t : e # 0
        BY <1>2
      <4> QED BY <4>1 DEF Book, BelowInv
    <3>2. k <= w
      BY <1>5, <1>14, <3>1
    <3>3. q \in k..hi
      BY <1>1, <1>3, <2>5, <3>2
    <3> QED BY <1>13, <3>3
  <2>6. \A e \in DOMAIN t : ~(k < e)
    BY <1>2, <1>3, <1>5, <1>14
  <2>7. RewritePlan(L, t2, w, J)
    BY <1>5, <1>11, <1>14, <2>1, <2>4, <2>5, <2>6 DEF RewritePlan
  <2> QED BY <1>11, <1>12, <2>1, <2>2, <2>7 DEF J, t2
<1>15. CASE j.create
  <2>1. t2 = With(t, k, f)
    BY <1>5, <1>15 DEF Enter
  <2>2. DOMAIN t2 = DOMAIN t \cup {k} /\ t2 = [e \in DOMAIN t2 |-> IF e = k THEN f ELSE t[e]]
    BY <2>1 DEF With
  <2>3. /\ f \in Entries /\ f.last = 0 /\ f.disk = 0 /\ ~f.open /\ ~f.dirty
    BY DEF Segment, Entries
  <2> HIDE DEF t2, f
  <2>4. Book(L, latest, files, t, w, 0, k)
    BY BookAhead
  <2>5. {q \in L : q \in k..f.last} = {} /\ Cardinality({q \in L : q \in k..f.last}) <= f.disk
    <3> DEFINE Z == {q \in L : q \in k..f.last}
    <3>0. \A q \in L : q \notin k..f.last
      <4> TAKE q \in L
      <4>1. q \in Nat
        BY <1>1
      <4> QED BY <1>3, <2>3, <4>1
    <3>1. Z = {}
      BY <3>0
    <3> HIDE DEF Z
    <3>2. Cardinality({}) = 0
      BY FS_EmptySet
    <3>3. Z = {} /\ Cardinality(Z) <= f.disk
      BY <2>3, <3>1, <3>2
    <3> QED BY <3>3 DEF Z
  <2>6. Cardinality(DOMAIN t \cup {k}) <= SegMax
    <3>1. DOMAIN t \in SUBSET (0..latest) /\ SegMax \in Nat
      BY <1>2 DEF SizesAssumption
    <3>2. IsFiniteSet(DOMAIN t) /\ Cardinality(DOMAIN t) \in Nat
      BY <1>1, <3>1, Part
    <3>3. k \notin DOMAIN t /\ Cardinality(DOMAIN t) < SegMax
      BY <1>5, <1>15
    <3> HIDE DEF k
    <3>4. Cardinality(DOMAIN t \cup {k}) = Cardinality(DOMAIN t) + 1
      BY <3>2, <3>3, FS_AddElement
    <3> QED BY <3>1, <3>2, <3>3, <3>4
  <2>7. \A e \in DOMAIN t : e <= w /\ e \in Nat /\ t[e].last \in Nat /\ t[e].last <= w
    <3>1. \A e \in DOMAIN t : e # 0 /\ e \in Nat /\ t[e].last \in Nat
      BY <1>2 DEF Entries
    <3>2. \A e \in DOMAIN t : e <= w
      BY <3>1 DEF Book, BelowInv
    <3>3. \A e \in DOMAIN t : t[e].last <= w
      BY DEF Book, TableInv
    <3> QED BY <3>1, <3>2, <3>3
  <2>8. \A e \in DOMAIN t : (e < k => t[e].last < k) /\ (k < e => f.last < e)
    BY <1>2, <1>3, <1>5, <1>15, <2>3, <2>7
  <2>9. \A d \in DOMAIN files : d < k => \A m \in files[d].recs : m.seq < k
    <3> SUFFICES ASSUME NEW d \in DOMAIN files, d < k, NEW m \in files[d].recs PROVE m.seq < k
      OBVIOUS
    <3>1. d \in DOMAIN t /\ d # 0
      BY <1>2, <1>3
    <3>2. ~t[d].open
      BY <3>1 DEF AppendPlan
    <3>3. m.seq <= w
      BY <3>1, <3>2 DEF Book, BelowInv
    <3>4. m.seq \in Nat
      BY DEF FilesInv, OneFile, Segments, Records
    <3> QED BY <1>3, <1>5, <1>15, <3>3, <3>4
  <2>10. EntryFits(L, latest, files, t, w, k, f, w)
    <3>1. f.last <= w /\ f.disk <= SegRecords /\ w <= w
      BY <2>3 DEF SizesAssumption
    <3>2. \A q \in L : ~(q <= w /\ (w < q \/ (k \in DOMAIN t /\ q \in k..t[k].last)))
      BY <1>1, <1>5, <1>15
    <3> QED BY <1>2, <1>3, <2>3, <2>5, <2>6, <2>8, <2>9, <3>1, <3>2 DEF EntryFits
  <2>11. Book(L, latest, files, t2, w, 0, k)
    <3>1. Puts(t, k, f, t2)
      BY <2>2 DEF Puts
    <3> QED BY <1>1, <2>4, <2>10, <3>1, PutEntry
  <2>12. t2 \in Tables
    <3>1. t2 \in [DOMAIN t2 -> Entries] /\ DOMAIN t2 \subseteq 1..latest
      BY <2>11 DEF Book, TableInv
    <3> QED BY <3>1, TablesIn
  <2>13. t2[k] = f /\ \A e \in DOMAIN t2 : ~(k < e)
    BY <1>2, <1>3, <1>5, <1>15, <2>2, <2>7
  <2>14. ASSUME NEW q \in L, w < q, q <= hi PROVE q \in Seqs(O)
    <3>1. k <= q
      BY <1>15, <2>14 DEF AppendPlan
    <3>2. q \in k..hi
      BY <1>1, <1>3, <2>14, <3>1
    <3> QED BY <1>13, <3>2
  <2>15. RewritePlan(L, t2, w, J)
    <3>1. \A q \in L : q \notin k..t2[k].last
      BY <2>5, <2>13
    <3> QED BY <1>11, <2>2, <2>13, <2>14, <3>1 DEF RewritePlan
  <2> QED BY <1>11, <1>12, <2>2, <2>11, <2>12, <2>15 DEF J, t2
<1> QED BY <1>3, <1>14, <1>15

(* The drain.  While it builds and writes there is no job of the worker's.  *)
LEMMA DrainBuildStep ==
  ASSUME HInvariant, SizesAssumption, DrainBuild
  PROVE  HInvariant'
<1> DEFINE b == Build(h)
           T == Tabled(b.h, b.job)
           J == AsRewrite(b.job)
           L == LiveSeqs
<1>1. /\ drain.pc = "build" /\ drain.left > 0 /\ b.job.kind # "none"
      /\ h' = T /\ drain' = [drain EXCEPT !.pc = "write", !.left = drain.left - 1, !.job = J]
      /\ repair' = 0 /\ ring' = ring /\ latest' = latest /\ worker' = worker
      /\ flushOk' = flushOk /\ files' = files /\ marker' = marker /\ used' = used
  BY DEF DrainBuild, ram, disk
<1>2. /\ Powered /\ RingInv(ring, latest) /\ FilesInv(ring, latest, files) /\ Calm
      /\ (~h.dirty => latest <= h.flushed)
      /\ Book(L, latest, files, h.table, h.flushed, repair, Ahead)
      /\ StrayInv /\ DrainInv
  BY <1>1 DEF HInvariant, Powered
<1>3. worker = "idle" /\ h.job = NoJob /\ drain.job = NoJob
  BY <1>1, <1>2 DEF DrainInv
<1>4. ~Done /\ Ahead = drain.job.first
  BY <1>3 DEF Done, Ahead, NoJob
<1>5. Ahead = 0
  BY <1>3, <1>4 DEF NoJob
<1>6. h \in Tasks /\ drain \in Drains
  BY <1>2 DEF Calm
<1>7. \A k \in DOMAIN files \ DOMAIN h.table : Astray(h, k)
  BY <1>2, <1>4 DEF StrayInv, Stray
<1>8. Builds(h, b)
  BY <1>2, <1>5, <1>6, <1>7, BuildBook
<1> HIDE DEF b
<1> DEFINE t == b.h.table
           w == b.h.flushed
<1>9. /\ b.h \in Tasks /\ b.h.job = NoJob /\ (~b.h.dirty => latest <= w) /\ t \in Tables /\ w \in Nat
      /\ Book(L, latest, files, t, w, 0, 0)
      /\ Shape(ring, latest, b.job) /\ Plan(L, t, w, b.job)
      /\ \A k \in DOMAIN files \ DOMAIN t :
           b.job.kind = "append" /\ b.job.create /\ k = b.job.first
  <2>1. /\ b.h \in Tasks /\ b.h.job = h.job /\ b.h.dirty = h.dirty /\ h.flushed <= b.h.flushed
    BY <1>8 DEF Builds
  <2>2. latest \in Nat /\ h.flushed \in Nat /\ t \in Tables /\ w \in Nat
    BY <1>2, <1>6, <2>1 DEF RingInv, Tasks
  <2>3. ~b.h.dirty => latest <= w
    BY <1>2, <2>1, <2>2
  <2> QED BY <1>1, <1>3, <1>8, <2>1, <2>2, <2>3 DEF Builds
<1>10. /\ T \in Tasks /\ T.job = NoJob /\ T.dirty = b.h.dirty /\ T.flushed = w
       /\ DOMAIN files \subseteq DOMAIN T.table
       /\ Book(L, latest, files, T.table, w, 0, J.first)
       /\ Shape(ring, latest, J) /\ RewritePlan(L, T.table, w, J)
  <2>1. CASE AppendPlan(L, t, w, b.job)
    <3> DEFINE t2 == Enter(t, b.job)
    <3>1. b.job.kind = "append"
      BY <2>1 DEF AppendPlan
    <3>2. T = [b.h EXCEPT !.table = t2]
      BY <3>1 DEF Tabled
    <3>3. DOMAIN files \subseteq DOMAIN t \cup {b.job.first}
      BY <1>9
    <3>4. /\ J.first = b.job.first
          /\ t2 \in Tables /\ DOMAIN t2 = DOMAIN t \cup {b.job.first}
          /\ Book(LiveSeqs, latest, files, t2, w, 0, b.job.first)
          /\ Shape(ring, latest, J)
          /\ RewritePlan(LiveSeqs, t2, w, J)
      BY <1>2, <1>9, <2>1, <3>3, AsRewriteBook
    <3> HIDE DEF t2, T, J
    <3>5. T \in Tasks /\ T.job = b.h.job /\ T.dirty = b.h.dirty /\ T.flushed = w /\ T.table = t2
      BY <1>9, <3>2, <3>4 DEF Tasks
    <3> QED BY <1>9, <3>3, <3>4, <3>5
  <2>2. CASE RewritePlan(L, t, w, b.job)
    <3>1. b.job.kind = "compact"
      BY <2>2 DEF RewritePlan
    <3>2. J = b.job
      BY <3>1 DEF AsRewrite
    <3>3. T = [b.h EXCEPT !.table = t]
      BY <3>1 DEF Tabled
    <3>4. Book(L, latest, files, t, w, 0, b.job.first)
      BY <1>9, BookAhead
    <3>5. DOMAIN files \subseteq DOMAIN t
      BY <1>9, <3>1
    <3> HIDE DEF J, T
    <3>6. T \in Tasks /\ T.job = b.h.job /\ T.dirty = b.h.dirty /\ T.flushed = w /\ T.table = t
      BY <1>9, <3>3 DEF Tasks
    <3> QED BY <1>9, <2>2, <3>2, <3>4, <3>5, <3>6
  <2> QED BY <1>9, <2>1, <2>2 DEF Plan
<1> HIDE DEF T, J
<1>11. J \in Jobs
  BY <1>10 DEF Shape
<1>12. /\ drain' \in Drains /\ drain'.pc = "write" /\ drain'.job = J /\ drain'.from = drain.from
  <2>1. drain.left - 1 \in Nat
    BY <1>1, <1>6 DEF Drains
  <2> QED BY <1>1, <1>6, <1>11, <2>1 DEF Drains
<1>13. /\ LiveSeqs' = L /\ Powered' /\ ~Done' /\ Ahead' = J.first
  BY <1>1, <1>10, <1>12 DEF LiveSeqs, Powered, Done, Ahead, NoJob
<1>14. Book(LiveSeqs, latest, files, h.table, h.flushed, repair, Ahead)'
  BY <1>1, <1>10, <1>13
<1>15. JobInv'
  BY <1>1, <1>3, <1>10 DEF JobInv, NoJob
<1>16. StrayInv'
  BY <1>1, <1>10 DEF StrayInv
<1>17. DrainInv'
  BY <1>1, <1>3, <1>10, <1>12, <1>13 DEF DrainInv
<1>18. Calm'
  BY <1>1, <1>2, <1>10, <1>12, <1>13 DEF Calm
<1>19. ~h'.dirty => latest' <= h'.flushed
  BY <1>1, <1>9, <1>10
<1>20. RingInv(ring, latest)' /\ FilesInv(ring, latest, files)'
  BY <1>1, <1>2
<1> QED BY <1>13, <1>14, <1>15, <1>16, <1>17, <1>18, <1>19, <1>20 DEF HInvariant

(* The drain writes its file and commits it.                                *)
LEMMA DrainWriteStep ==
  ASSUME HInvariant, DrainWrite
  PROVE  HInvariant'
<1> DEFINE J == drain.job
           F == Rewritten(J)
           c == CommitCompact(h, J)
           L == LiveSeqs
           t == h.table
           w == h.flushed
<1>1. /\ drain.pc = "write" /\ files' = F /\ h' = Commit(h, J)
      /\ drain' = [drain EXCEPT !.pc = "build", !.job = NoJob]
      /\ repair' = repair /\ ring' = ring /\ latest' = latest /\ worker' = worker
      /\ flushOk' = flushOk /\ marker' = marker /\ used' = used
  BY DEF DrainWrite, ram
<1>2. /\ Powered /\ RingInv(ring, latest) /\ FilesInv(ring, latest, files) /\ Calm
      /\ (~h.dirty => latest <= h.flushed)
      /\ Book(L, latest, files, t, w, repair, Ahead)
      /\ StrayInv /\ DrainInv
  BY <1>1 DEF HInvariant, Powered
<1>3. /\ worker = "idle" /\ h.job = NoJob /\ repair = 0
      /\ Shape(ring, latest, J) /\ RewritePlan(L, t, w, J)
  BY <1>1, <1>2 DEF DrainInv
<1>4. ~Done /\ Ahead = J.first
  BY <1>3 DEF Done, Ahead, NoJob
<1>5. h \in Tasks /\ drain \in Drains /\ latest \in Nat
  BY <1>2 DEF Calm, RingInv
<1>6. DOMAIN files \subseteq DOMAIN t
  BY <1>1, <1>2, <1>4 DEF StrayInv, Stray
<1>7. h' = c
  BY <1>1, <1>3 DEF Commit, RewritePlan
<1> HIDE DEF F, c, J
<1>8. /\ FilesInv(ring, latest, F)
      /\ Book(L, latest, F, t, w, 0, J.first)
      /\ Landed(F, t, J) /\ DOMAIN F \subseteq DOMAIN t
  BY <1>2, <1>3, <1>4, <1>6, RewriteLands DEF F
<1>9. /\ c \in Tasks /\ c.job = h.job /\ c.dirty = h.dirty
      /\ Book(L, latest, F, c.table, c.flushed, 0, 0)
      /\ h.flushed <= c.flushed /\ DOMAIN F \subseteq DOMAIN c.table
  BY <1>2, <1>3, <1>5, <1>8, CommitCompactBook DEF c
<1>10. /\ drain' \in Drains /\ drain'.pc = "build" /\ drain'.job = NoJob /\ drain'.from = drain.from
  BY <1>1, <1>5, NoJobIn DEF Drains
<1>11. LiveSeqs' = L /\ Powered' /\ ~Done' /\ Ahead' = 0
  <2>1. LiveSeqs' = L /\ Powered' /\ ~Done' /\ Ahead' = drain'.job.first
    BY <1>1, <1>3, <1>7, <1>9, <1>10 DEF LiveSeqs, Powered, Done, Ahead, NoJob
  <2> QED BY <1>10, <2>1 DEF NoJob
<1>12. Book(LiveSeqs, latest, files, h.table, h.flushed, repair, Ahead)'
  BY <1>1, <1>3, <1>7, <1>9, <1>11
<1>13. JobInv'
  BY <1>1, <1>3, <1>7, <1>9 DEF JobInv, NoJob
<1>14. StrayInv'
  BY <1>1, <1>7, <1>9 DEF StrayInv
<1>15. DrainInv'
  BY <1>1, <1>3, <1>7, <1>9, <1>10 DEF DrainInv
<1>16. Calm'
  BY <1>1, <1>2, <1>3, <1>7, <1>9, <1>10, <1>11 DEF Calm
<1>17. ~h'.dirty => latest' <= h'.flushed
  <2>1. h.flushed \in Nat /\ c.flushed \in Nat
    BY <1>5, <1>9 DEF Tasks
  <2> QED BY <1>1, <1>2, <1>5, <1>7, <1>9, <2>1
<1>18. RingInv(ring, latest)' /\ FilesInv(ring, latest, files)'
  BY <1>1, <1>2, <1>8
<1> QED BY <1>11, <1>12, <1>13, <1>14, <1>15, <1>16, <1>17, <1>18 DEF HInvariant

-----------------------------------------------------------------------------
(* What a boot makes of the files F.                                        *)
LegibleOf(F)   == {k \in Listed(F) : F[k].hdr}
LoadedOf(F, k) == {m \in F[k].recs :
                     \A e \in LegibleOf(F) : e < k => \A x \in F[e].recs : x.seq < m.seq}
RestoredOf(F)  == UNION {LoadedOf(F, k) : k \in LegibleOf(F)}
RestoresOf(F, q) == q \in Seqs(Newest(RestoredOf(F), RingCap))

(* The loader finds every file, and reads all of its records.               *)
LEMMA AllListed ==
  ASSUME SizesAssumption, NEW R, NEW n \in Nat, NEW F, FilesInv(R, n, F)
  PROVE  Listed(F) = DOMAIN F /\ LegibleOf(F) = {k \in DOMAIN F : F[k].hdr}
<1>1. DOMAIN F \in SUBSET (0..n) /\ Cardinality(DOMAIN F) <= SegMax /\ SegMax \in Nat
  BY DEF FilesInv, SizesAssumption
<1>2. IsFiniteSet(DOMAIN F) /\ Cardinality(DOMAIN F) \in Nat
  BY <1>1, Part
<1>3. ASSUME NEW k \in DOMAIN F PROVE Cardinality({x \in DOMAIN F : x < k}) < SegMax
  <2> DEFINE A == {x \in DOMAIN F : x < k}
             B == DOMAIN F \ {k}
  <2>1. A \in SUBSET B
    BY <1>1
  <2>2. IsFiniteSet(B) /\ Cardinality(B) = Cardinality(DOMAIN F) - 1
    BY <1>2, FS_RemoveElement
  <2> HIDE DEF A, B
  <2>3. Cardinality(A) <= Cardinality(B) /\ Cardinality(A) \in Nat
    BY <2>1, <2>2, FS_Subset, FS_CardinalityType
  <2>4. Cardinality(A) < SegMax
    BY <1>1, <1>2, <2>2, <2>3
  <2> QED BY <2>4 DEF A
<1>4. Listed(F) = DOMAIN F
  BY <1>3 DEF Listed
<1> QED BY <1>4 DEF LegibleOf

(* ... none of its records is behind those of an earlier file.              *)
LEMMA AllLoaded ==
  ASSUME SizesAssumption, NEW R, NEW n \in Nat, NEW F, FilesInv(R, n, F), NEW k \in LegibleOf(F)
  PROVE  LoadedOf(F, k) = F[k].recs
<1>1. LegibleOf(F) = {e \in DOMAIN F : F[e].hdr}
  BY AllListed
<1>2. ASSUME NEW m \in F[k].recs, NEW e \in DOMAIN F, e < k, NEW x \in F[e].recs
      PROVE  x.seq < m.seq
  <2>1. k \in DOMAIN F /\ DOMAIN F \subseteq Nat
    BY <1>1 DEF FilesInv
  <2>2. x.seq < k /\ k <= m.seq
    BY <1>2, <2>1 DEF FilesInv, OneFile
  <2>3. x.seq \in Nat /\ m.seq \in Nat /\ k \in Nat
    BY <1>2, <2>1 DEF FilesInv, OneFile, Segments, Records
  <2> QED BY <2>2, <2>3
<1> QED BY <1>1, <1>2 DEF LoadedOf

(* What is restored is known to the ring, and is all that is on the card.   *)
LEMMA RestoredIs ==
  ASSUME SizesAssumption, NEW R, NEW n \in Nat, NEW F, FilesInv(R, n, F)
  PROVE  /\ RestoredOf(F) \in SUBSET Records
         /\ \A x \in RestoredOf(F) : x.seq <= n /\ Past(R, x.seq)
         /\ \A k, q : OnCard(F, k, q) => q \in Seqs(RestoredOf(F))
<1>1. LegibleOf(F) = {e \in DOMAIN F : F[e].hdr}
  BY AllListed
<1>2. \A k \in LegibleOf(F) : LoadedOf(F, k) = F[k].recs
  BY AllLoaded
<1>3. \A k \in LegibleOf(F) : F[k].recs \in SUBSET Records /\ Known(R, n, F[k].recs)
  BY <1>1 DEF FilesInv, OneFile, Segments
<1>4. \A x \in RestoredOf(F) : \E k \in LegibleOf(F) : x \in F[k].recs
  BY <1>2 DEF RestoredOf
<1>5. ASSUME NEW k, NEW q, OnCard(F, k, q) PROVE q \in Seqs(RestoredOf(F))
  <2>1. k \in LegibleOf(F) /\ q \in Seqs(F[k].recs)
    BY <1>1, <1>5 DEF OnCard
  <2>2. PICK m \in F[k].recs : m.seq = q
    BY <2>1 DEF Seqs
  <2>3. m \in RestoredOf(F)
    BY <1>2, <2>1, <2>2 DEF RestoredOf
  <2> QED BY <2>2, <2>3 DEF Seqs
<1> QED BY <1>3, <1>4, <1>5 DEF Known

(* A boot restores what the ring holds and a file has: the ring is never    *)
(* full of newer messages that the files have besides.                      *)
LEMMA Restoring ==
  ASSUME SizesAssumption, NEW R, NEW n, NEW F, RingInv(R, n), FilesInv(R, n, F),
         NEW k, NEW q \in Seqs(R), OnCard(F, k, q)
  PROVE  RestoresOf(F, q)
<1> DEFINE M == RestoredOf(F)
           A == {x \in Seqs(M) : x > q}
           B == Seqs(R)
<1>1. n \in Nat /\ R \in SUBSET Records /\ (\A m \in R : m.seq <= n) /\ Count(R) <= RingCap
      /\ RingCap \in Nat
  BY DEF RingInv, SizesAssumption
<1>2. /\ M \in SUBSET Records /\ (\A x \in M : x.seq <= n /\ Past(R, x.seq)) /\ q \in Seqs(M)
  BY <1>1, RestoredIs
<1> HIDE DEF M
<1>3. B \in SUBSET (0..n) /\ IsFiniteSet(B) /\ Cardinality(B) \in Nat /\ Cardinality(B) <= RingCap
  <2>1. Seqs(R) \in SUBSET (0..n) /\ IsFiniteSet(Seqs(R)) /\ Count(R) \in Nat
    BY <1>1, CountOf
  <2> QED BY <1>1, <2>1 DEF Count
<1>4. A \in SUBSET (B \ {q})
  <2> SUFFICES ASSUME NEW x \in Seqs(M), x > q PROVE x \in Seqs(R) /\ x # q
    OBVIOUS
  <2>1. x \in Nat /\ q \in Nat /\ Past(R, x)
    BY <1>2, <1>3 DEF Seqs, Records
  <2>2. PICK m \in R : m.seq = q
    BY DEF Seqs
  <2>3. ~(x < m.seq)
    BY <2>1, <2>2
  <2> QED BY <2>1, <2>3 DEF Past
<1> HIDE DEF A
<1>5. IsFiniteSet(B \ {q}) /\ Cardinality(B \ {q}) = Cardinality(B) - 1
  <2> HIDE DEF B
  <2>1. q \in B
    BY DEF B
  <2> QED BY <1>3, <2>1, FS_RemoveElement
<1> HIDE DEF B
<1>6. Cardinality(A) <= Cardinality(B \ {q}) /\ Cardinality(A) \in Nat
  BY <1>4, <1>5, FS_Subset, FS_CardinalityType
<1>7. Cardinality(A) < RingCap
  BY <1>1, <1>3, <1>5, <1>6
<1>8. PICK m \in M : m.seq = q
  BY <1>2 DEF Seqs
<1>9. m \in Newest(M, RingCap)
  BY <1>7, <1>8 DEF Newest, A
<1> QED BY <1>8, <1>9 DEF RestoresOf, Seqs, M

-----------------------------------------------------------------------------
(* What a cut leaves: good files, and of what was on the card only the      *)
(* segment that was being rewritten may be missing.                         *)
Keeps(F, G, t, k) == \A e \in DOMAIN t : e # k => \A q : OnCard(F, e, q) => OnCard(G, e, q)

(* What a cut leaves holds what a good set of files holds; the two are the  *)
(* same unless a record is split.                                           *)
Holds(F, G) ==
  /\ DOMAIN F = DOMAIN G
  /\ \A k \in DOMAIN F : F[k].recs = G[k].recs /\ F[k].hdr = G[k].hdr
  /\ F = G \/ \E k \in DOMAIN F : F[k].ragged
LeftBy(F, t, k) ==
  \E G : FilesInv(ring, latest, G) /\ Keeps(files, G, t, k) /\ Holds(F, G)

(* A torn append loses nothing.                                             *)
LEMMA TornAppend ==
  ASSUME RingInv(ring, latest), SizesAssumption, FilesInv(ring, latest, files), NEW t, NEW w, NEW j,
         Book(LiveSeqs, latest, files, t, w, 0, 0), Shape(ring, latest, j),
         AppendPlan(LiveSeqs, t, w, j), DOMAIN files \subseteq DOMAIN t,
         NEW H \in Torn(j)
  PROVE  LeftBy(H, t, 0)
<1> DEFINE k == j.first
           N == With(files, k, NoFile)
<1>1. /\ latest \in Nat /\ k \in 1..latest /\ j.kind = "append" /\ j.create \in BOOLEAN
      /\ (j.create => k \notin DOMAIN t)
  BY DEF RingInv, Shape, AppendPlan, Jobs
<1>2. Count(j.recs) \in Nat
  <2>1. j.recs \in SUBSET Records /\ \A x \in j.recs : x.seq <= latest
    BY DEF Shape, Jobs, Known
  <2> QED BY <1>1, <2>1, CountOf
<1>3. PICK G : /\ G = files \/ (\E c \in Nat : G = Appended(j, c)) \/ (j.create /\ G = N)
               /\ Holds(H, G)
  <2>1. H \in {files} \cup {Appended(j, n) : n \in 0..Count(j.recs)}
                 \cup (IF j.create THEN {N} ELSE {})
                 \cup (IF RaggedTails THEN {Split(j, n) : n \in 0..(Count(j.recs) - 1)} ELSE {})
    BY <1>1 DEF Torn
  <2>2. Holds(H, H)
    BY DEF Holds
  <2>3. CASE H = files \/ (\E n \in 0..Count(j.recs) : H = Appended(j, n)) \/ (j.create /\ H = N)
    BY <1>2, <2>2, <2>3
  <2>4. ASSUME NEW n \in 0..(Count(j.recs) - 1), H = Split(j, n)
        PROVE  Holds(H, Appended(j, n)) /\ n \in Nat
    <3> DEFINE A == Appended(j, n)
    <3>1. k \in DOMAIN A
      BY DEF Appended, With
    <3>2. H = [A EXCEPT ![k].ragged = TRUE]
      BY <2>4 DEF Split
    <3>3. A[k] \in Segments
      <4>1. FilesInv(ring, latest, A)
        BY <1>2, AppendLands
      <4> HIDE DEF A
      <4> QED BY <3>1, <4>1 DEF FilesInv, OneFile
    <3> HIDE DEF A
    <3>4. DOMAIN H = DOMAIN A /\ H[k].ragged
      BY <3>1, <3>2, <3>3 DEF Segments
    <3>5. \A e \in DOMAIN A : H[e].recs = A[e].recs /\ H[e].hdr = A[e].hdr
      BY <3>1, <3>2, <3>3 DEF Segments
    <3>6. Holds(H, A)
      BY <3>1, <3>4, <3>5 DEF Holds
    <3> QED BY <1>2, <3>6 DEF A
  <2> QED BY <2>1, <2>3, <2>4
<1> SUFFICES FilesInv(ring, latest, G) /\ Keeps(files, G, t, 0)
  BY <1>3 DEF LeftBy
<1>4. CASE G = files
  BY <1>4 DEF Keeps
<1>5. ASSUME NEW c \in Nat, G = Appended(j, c) PROVE FilesInv(ring, latest, G) /\ Keeps(files, G, t, 0)
  <2>1. FilesInv(ring, latest, Appended(j, c)) /\ Grown(files, Appended(j, c), j)
    BY AppendLands
  <2>2. Grown(files, G, j)
    BY <1>5, <2>1
  <2>3. ASSUME NEW e \in DOMAIN t, NEW q, OnCard(files, e, q) PROVE OnCard(G, e, q)
    <3>1. CASE e = k
      BY <1>1, <2>2, <2>3, <3>1 DEF Grown
    <3>2. CASE e # k
      BY <2>2, <2>3, <3>2 DEF Grown, OnCard
    <3> QED BY <3>1, <3>2
  <2> QED BY <1>5, <2>1, <2>3 DEF Keeps
<1>6. CASE j.create /\ G = N
  <2>1. NoFile \in Segments /\ NoFile.recs = {} /\ NoFile.count = 0 /\ ~NoFile.ragged
    BY DEF NoFile, Segments
  <2>2. Count({}) = 0 /\ SegRecords \in Nat
    BY CountEmpty, SizesAssumption
  <2>3. OneFile(ring, latest, k, NoFile)
    BY <2>1, <2>2 DEF OneFile, Known
  <2>4. FitsIn(files, k, NoFile.recs) /\ Cardinality(DOMAIN files \cup {k}) <= SegMax
    <3>1. FitsIn(files, j.first, j.recs) /\ Cardinality(DOMAIN files \cup {j.first}) <= SegMax
      BY <1>1, AppendFits
    <3> QED BY <2>1, <3>1 DEF FitsIn
  <2>5. FilesInv(ring, latest, With(files, k, NoFile))
    BY <1>1, <2>3, <2>4, PutFile
  <2>6. /\ DOMAIN N = DOMAIN files \cup {k}
        /\ \A e \in DOMAIN files : e # k => N[e] = files[e]
    BY DEF With
  <2>7. ASSUME NEW e \in DOMAIN t, NEW q, OnCard(files, e, q) PROVE OnCard(N, e, q)
    BY <1>1, <1>6, <2>6, <2>7 DEF OnCard
  <2> QED BY <1>6, <2>5, <2>7 DEF Keeps
<1> QED BY <1>3, <1>4, <1>5, <1>6

(* A torn rewrite loses at most the segment it replaces.                    *)
LEMMA TornRewrite ==
  ASSUME RingInv(ring, latest), FilesInv(ring, latest, files), NEW t, NEW w, NEW r, NEW j,
         Book(LiveSeqs, latest, files, t, w, r, j.first), Shape(ring, latest, j),
         RewritePlan(LiveSeqs, t, w, j), DOMAIN files \subseteq DOMAIN t, NEW G \in Torn(j)
  PROVE  LeftBy(G, t, j.first)
<1>1. j.kind = "compact" /\ latest \in Nat
  BY DEF RewritePlan, RingInv
<1>2. G \in {files, Without(files, j.first), Rewritten(j)}
  BY <1>1 DEF Torn
<1>3. FilesInv(ring, latest, Without(files, j.first))
  BY <1>1, DropFile
<1>4. FilesInv(ring, latest, Rewritten(j))
  BY RewriteLands
<1>5. \A e \in DOMAIN files : e # j.first => e \in DOMAIN G /\ G[e] = files[e]
  BY <1>2 DEF Rewritten, Without, With
<1>6. FilesInv(ring, latest, G) /\ Keeps(files, G, t, j.first)
  BY <1>2, <1>3, <1>4, <1>5 DEF Keeps, OnCard
<1> QED BY <1>6 DEF LeftBy, Holds

(* What a cut leaves at any time.                                           *)
LEMMA TornFiles ==
  ASSUME HInvariant, SizesAssumption, Powered, MaxWorkerFails = 0, NEW G \in Torn(InFlight)
  PROVE  LeftBy(G, h.table, Replaced)
<1>1. /\ RingInv(ring, latest) /\ FilesInv(ring, latest, files) /\ Calm
      /\ Book(LiveSeqs, latest, files, h.table, h.flushed, repair, Ahead)
      /\ JobInv /\ StrayInv /\ DrainInv
  BY DEF HInvariant
<1>2. CASE worker = "running"
  <2> DEFINE j == h.job
  <2>1. /\ Shape(ring, latest, j) /\ Plan(LiveSeqs, h.table, h.flushed, j)
        /\ Book(LiveSeqs, latest, files, h.table, h.flushed, 0, 0)
        /\ DOMAIN files \subseteq DOMAIN h.table /\ drain.job = NoJob /\ G \in Torn(j)
    BY <1>2, AtWork DEF InFlight
  <2>2. CASE AppendPlan(LiveSeqs, h.table, h.flushed, j)
    <3>1. Replaced = 0
      BY <2>1, <2>2 DEF Replaced, AppendPlan, NoJob
    <3>2. LeftBy(G, h.table, 0)
      BY <1>1, <2>1, <2>2, TornAppend
    <3> QED BY <3>1, <3>2
  <2>3. CASE RewritePlan(LiveSeqs, h.table, h.flushed, j)
    <3>1. Replaced = j.first
      BY <1>2, <2>3 DEF Replaced, RewritePlan
    <3>2. Book(LiveSeqs, latest, files, h.table, h.flushed, 0, j.first)
      BY <2>1, BookAhead
    <3>3. LeftBy(G, h.table, j.first)
      BY <1>1, <2>1, <2>3, <3>2, TornRewrite
    <3> QED BY <3>1, <3>3
  <2> QED BY <2>1, <2>2, <2>3 DEF Plan
<1>3. CASE worker # "running" /\ drain.pc = "write"
  <2> DEFINE j == drain.job
  <2>1. /\ Shape(ring, latest, j) /\ RewritePlan(LiveSeqs, h.table, h.flushed, j)
        /\ G \in Torn(j) /\ worker = "idle" /\ h.job = NoJob
    BY <1>1, <1>3 DEF DrainInv, InFlight
  <2>2. ~Done /\ Ahead = j.first /\ Replaced = j.first
    BY <1>3, <2>1 DEF Done, Ahead, NoJob, Replaced
  <2>3. DOMAIN files \subseteq DOMAIN h.table
    BY <1>1, <1>3, <2>2 DEF StrayInv, Stray
  <2>4. Book(LiveSeqs, latest, files, h.table, h.flushed, repair, j.first)
    BY <1>1, <2>2
  <2>5. LeftBy(G, h.table, j.first)
    BY <1>1, <2>1, <2>3, <2>4, TornRewrite
  <2> QED BY <2>2, <2>5
<1>4. CASE worker # "running" /\ drain.pc # "write"
  <2>1. InFlight = NoJob
    BY <1>4 DEF InFlight
  <2>2. G = files
    BY <2>1 DEF Torn, NoJob
  <2> QED BY <1>1, <2>2 DEF LeftBy, Keeps, Holds
<1> QED BY <1>2, <1>3, <1>4

(* Power is off, by a cut or at the end of a reboot: the files hold what    *)
(* the watermark promised.                                                  *)
LEMMA OffStep ==
  ASSUME RingInv(ring, latest), SizesAssumption, MaxWorkerFails = 0, ~Powered', Calm',
         UNCHANGED <<ring, latest>>, NEW t, LeftBy(files', t, Replaced'),
         CoverInv(LiveSeqs, files, t, h'.flushed),
         DOMAIN t = DOMAIN h'.table, \A k \in DOMAIN t : t[k].last = h'.table[k].last,
         drain'.from = "reboot" /\ ~drain'.failed => latest <= h'.flushed /\ files' = files
  PROVE  HInvariant'
<1>1. ring' = ring /\ latest' = latest /\ marker' = TRUE
  BY DEF Calm
<1>2. \A q : Restores(q)' <=> RestoresOf(files', q)
  BY <1>1 DEF Restores, BootRing, Restored, Loaded, Legible, RestoresOf, RestoredOf, LoadedOf, LegibleOf
<1>0. PICK G : FilesInv(ring, latest, G) /\ Keeps(files, G, t, Replaced') /\ Holds(files', G)
  BY DEF LeftBy
<1>3. ASSUME NEW k, NEW q \in LiveSeqs, OnCard(G, k, q) PROVE Restores(q)'
  <2>1. q \in Seqs(ring)
    BY DEF LiveSeqs, Seqs, Live
  <2>2. RestoresOf(G, q)
    BY <1>0, <1>3, <2>1, Restoring
  <2>3. LegibleOf(files') = LegibleOf(G) /\ LegibleOf(G) \subseteq DOMAIN G
    BY <1>0 DEF LegibleOf, Listed, Holds
  <2>4. \A e : LoadedOf(files', e) = LoadedOf(G, e) \/ e \notin DOMAIN G
    BY <1>0, <2>3 DEF LoadedOf, Holds
  <2>5. RestoredOf(files') = RestoredOf(G)
    BY <2>3, <2>4 DEF RestoredOf
  <2> QED BY <1>2, <2>2, <2>5 DEF RestoresOf
<1>4. \A m \in Live(ring) : m.seq \in LiveSeqs
  BY DEF LiveSeqs, Seqs
<1>5. ASSUME NEW m \in ring, m.live, m.seq <= h'.flushed
      PROVE  \E k \in DOMAIN t : m.seq \in k..t[k].last /\ OnCard(files, k, m.seq)
  <2>1. m.seq \in LiveSeqs
    BY <1>4, <1>5 DEF Live
  <2> QED BY <1>5, <2>1 DEF CoverInv
<1>6. ASSUME NEW m \in ring', m.live, m.seq <= h'.flushed
      PROVE  Restores(m.seq)' \/ Replaced' \in Owners(h'.table, m.seq)
  <2>1. PICK k \in DOMAIN t : m.seq \in k..t[k].last /\ OnCard(files, k, m.seq)
    BY <1>1, <1>5, <1>6
  <2>2. m.seq \in LiveSeqs
    BY <1>1, <1>4, <1>6 DEF Live
  <2>3. CASE k = Replaced'
    BY <2>1, <2>3 DEF Owners
  <2>4. CASE k # Replaced'
    <3>1. OnCard(G, k, m.seq)
      BY <1>0, <2>1, <2>4 DEF Keeps
    <3> QED BY <1>3, <2>2, <3>1
  <2> QED BY <2>3, <2>4
<1>7. CutKeepsDurable'
  BY <1>6 DEF CutKeepsDurable
<1>8. ASSUME drain'.from = "reboot", ~drain'.failed, NEW m \in Live(ring)'
      PROVE  Restores(m.seq)'
  <2>1. m \in Live(ring) /\ m \in ring /\ m.live
    BY <1>1 DEF Live
  <2>2. m.seq \in Nat /\ latest \in Nat /\ m.seq <= latest /\ h'.flushed \in Nat
    BY <2>1 DEF RingInv, Records, Calm, Tasks
  <2>3. m.seq <= h'.flushed /\ files' = files
    BY <1>8, <2>2
  <2>4. PICK k \in DOMAIN t : OnCard(files, k, m.seq)
    BY <1>5, <2>1, <2>3
  <2>5. m.seq \in LiveSeqs
    BY <1>4, <2>1
  <2>6. OnCard(G, k, m.seq)
    BY <1>0, <2>3, <2>4 DEF Holds, OnCard
  <2> QED BY <1>3, <2>5, <2>6
<1>9. OffInv'
  BY <1>7, <1>8 DEF OffInv
<1>10. Orderly' => FilesInv(ring, latest, files')
  BY <1>0 DEF Orderly, Holds
<1> QED BY <1>1, <1>9, <1>10 DEF HInvariant

(* A power cut keeps the invariant.                                         *)
LEMMA PowerCutStep ==
  ASSUME HInvariant, SizesAssumption, Steady, PowerCut
  PROVE  HInvariant'
<1>1. /\ Powered /\ used.powerCuts < MaxPowerCuts /\ Spend("powerCuts")
      /\ files' \in Torn(InFlight) /\ drain' = [drain EXCEPT !.pc = "off", !.from = "none"]
      /\ ring' = ring /\ latest' = latest /\ h' = h /\ worker' = worker /\ flushOk' = flushOk
      /\ repair' = repair /\ marker' = marker
  BY DEF PowerCut, ram, task
<1>2. /\ RingInv(ring, latest) /\ FilesInv(ring, latest, files) /\ Calm
      /\ Book(LiveSeqs, latest, files, h.table, h.flushed, repair, Ahead) /\ DrainInv
  BY <1>1 DEF HInvariant
<1>3. MaxWorkerFails = 0 /\ used' \in Uses /\ used'.syncFails = 0
  BY <1>1, <1>2 DEF Steady, Calm, Uses, Spend, Spent
<1>4. LeftBy(files', h.table, Replaced)
  BY <1>1, <1>2, <1>3, TornFiles
<1>5. drain' \in Drains /\ drain'.pc = "off" /\ drain'.from = "none" /\ drain'.job = drain.job
  BY <1>1, <1>2 DEF Calm, Drains
<1>6. Replaced' = Replaced
  BY <1>1, <1>5 DEF Replaced
<1>7. Calm' /\ ~Powered'
  BY <1>1, <1>2, <1>3, <1>5 DEF Calm, Powered
<1>8. CoverInv(LiveSeqs, files, h.table, h'.flushed)
  BY <1>1, <1>2 DEF Book
<1> QED BY <1>1, <1>2, <1>3, <1>4, <1>5, <1>6, <1>7, <1>8, OffStep

(* The wait for the worker times out: a reboot goes down and reports it, a  *)
(* save gives up.                                                           *)
LEMMA WaitTimeoutStep ==
  ASSUME HInvariant, SizesAssumption, Steady, WaitTimeout
  PROVE  HInvariant'
<1>1. /\ drain.pc = "wait" /\ worker # "idle" /\ Leave(TRUE)
      /\ IF drain.from = "reboot" /\ worker = "running" THEN files' \in Torn(h.job)
         ELSE files' = files
      /\ ring' = ring /\ latest' = latest /\ h' = h /\ worker' = worker /\ flushOk' = flushOk
      /\ repair' = repair /\ marker' = marker /\ used' = used
  BY DEF WaitTimeout, ram, task
<1>2. /\ Powered /\ RingInv(ring, latest) /\ FilesInv(ring, latest, files) /\ Calm
      /\ Book(LiveSeqs, latest, files, h.table, h.flushed, repair, Ahead)
      /\ JobInv /\ StrayInv /\ DrainInv /\ (~h.dirty => latest <= h.flushed)
  BY <1>1 DEF HInvariant, Powered
<1>3. CASE drain.from = "reboot"
  <2>1. MaxWorkerFails = 0
    BY <1>2, <1>3 DEF Calm
  <2>2. drain' = [drain EXCEPT !.pc = "off", !.failed = TRUE]
    BY <1>1, <1>3 DEF Leave
  <2>3. /\ drain' \in Drains /\ drain'.pc = "off" /\ drain'.failed /\ drain'.job = drain.job
        /\ drain'.from = "reboot"
    BY <1>2, <1>3, <2>2 DEF Calm, Drains
  <2>4. LeftBy(files', h.table, Replaced)
    <3>1. CASE worker = "running"
      <4>1. files' \in Torn(InFlight)
        BY <1>1, <1>3, <3>1 DEF InFlight
      <4> QED BY <1>2, <2>1, <4>1, TornFiles
    <3>2. CASE worker # "running"
      BY <1>1, <1>2, <3>2 DEF LeftBy, Keeps, Holds
    <3> QED BY <3>1, <3>2
  <2>5. Replaced' = Replaced
    BY <1>1, <2>3 DEF Replaced
  <2>6. Calm' /\ ~Powered'
    BY <1>1, <1>2, <2>1, <2>3 DEF Calm, Powered
  <2>7. CoverInv(LiveSeqs, files, h.table, h'.flushed)
    BY <1>1, <1>2 DEF Book
  <2> QED BY <1>1, <1>2, <2>1, <2>3, <2>4, <2>5, <2>6, <2>7, OffStep
<1>4. CASE drain.from # "reboot"
  <2>1. /\ drain' = Idle /\ files' = files
    BY <1>1, <1>4 DEF Leave
  <2>2. /\ drain' \in Drains /\ drain'.pc = "idle" /\ drain'.job = NoJob /\ drain'.from = "none"
    BY <2>1, NoJobIn DEF Idle, Drains
  <2>3. drain.job = NoJob
    BY <1>1, <1>2 DEF DrainInv
  <2>4. Done' = Done /\ Ahead' = Ahead /\ LiveSeqs' = LiveSeqs /\ Powered'
    BY <1>1, <2>2, <2>3 DEF Done, Ahead, LiveSeqs, Powered
  <2>5. Book(LiveSeqs, latest, files, h.table, h.flushed, repair, Ahead)'
    BY <1>1, <1>2, <2>1, <2>4
  <2>6. JobInv'
    BY <1>1, <1>2, <2>1, <2>4 DEF JobInv
  <2>7. StrayInv'
    BY <1>1, <1>2, <2>1, <2>4 DEF StrayInv, Stray
  <2>8. DrainInv'
    BY <2>2 DEF DrainInv
  <2>9. Calm'
    BY <1>1, <1>2, <2>2, <2>4 DEF Calm
  <2>10. RingInv(ring, latest)' /\ FilesInv(ring, latest, files)' /\ (~h.dirty => latest <= h.flushed)'
    BY <1>1, <1>2, <2>1
  <2> QED BY <2>4, <2>5, <2>6, <2>7, <2>8, <2>9, <2>10 DEF HInvariant
<1> QED BY <1>3, <1>4

(* The drain is over.                                                       *)
LEMMA DrainEndStep ==
  ASSUME HInvariant, SizesAssumption, DrainEnd
  PROVE  HInvariant'
<1> DEFINE b == IF drain.left > 0 THEN Build(h) ELSE [h |-> h, job |-> NoJob]
           done == drain.from # "flush"
<1>1. /\ drain.pc = "build" /\ b.job.kind = "none"
      /\ \/ /\ ~MoreWork(b.h) /\ FinishResync(b.h, Saved(b.h))
            /\ Leave(b.h.purge /\ ~Clean(b.h.table))
         \/ ResyncFails(b.h)
         \/ h' = b.h /\ Leave(TRUE) /\ UNCHANGED <<disk, fails, used>>
      /\ repair' = (IF drain.left > 0 THEN 0 ELSE repair)
      /\ ring' = ring /\ latest' = latest /\ worker' = worker /\ flushOk' = flushOk
  BY DEF DrainEnd, ram
<1>2. /\ Powered /\ RingInv(ring, latest) /\ FilesInv(ring, latest, files) /\ Calm
      /\ (~h.dirty => latest <= h.flushed) /\ StrayInv /\ DrainInv
      /\ Book(LiveSeqs, latest, files, h.table, h.flushed, repair, Ahead)
  BY <1>1 DEF HInvariant, Powered
<1>3. worker = "idle" /\ h.job = NoJob /\ drain.job = NoJob /\ ~Done
  BY <1>1, <1>2 DEF DrainInv, Done, NoJob
<1>4. Ahead = 0
  <2>1. Ahead = drain.job.first
    BY <1>3 DEF Ahead
  <2> QED BY <1>3, <2>1 DEF NoJob
<1>5. h \in Tasks /\ drain \in Drains /\ latest \in Nat
  BY <1>2 DEF Calm, RingInv
<1>6. /\ b.h \in Tasks /\ b.h.job = NoJob /\ (~b.h.dirty => latest <= b.h.flushed)
      /\ Book(LiveSeqs, latest, files, b.h.table, b.h.flushed, repair', 0)
      /\ DOMAIN files \subseteq DOMAIN b.h.table
  <2>1. CASE drain.left > 0
    <3>1. b = Build(h)
      BY <2>1
    <3>2. \A k \in DOMAIN files \ DOMAIN h.table : Astray(h, k)
      BY <1>2, <1>3 DEF StrayInv, Stray
    <3>3. Book(LiveSeqs, latest, files, h.table, h.flushed, repair, 0)
      BY <1>2, <1>4
    <3>4. Builds(h, Build(h))
      BY <1>2, <1>5, <3>2, <3>3, BuildBook
    <3>5. Builds(h, b)
      BY <3>1, <3>4
    <3>6. repair' = 0
      BY <1>1, <2>1
    <3> HIDE DEF b
    <3>7. /\ b.h \in Tasks /\ b.h.job = h.job /\ b.h.dirty = h.dirty /\ h.flushed <= b.h.flushed
          /\ Book(LiveSeqs, latest, files, b.h.table, b.h.flushed, 0, 0)
          /\ DOMAIN files \subseteq DOMAIN b.h.table
      BY <1>1, <3>5 DEF Builds
    <3>8. h.flushed \in Nat /\ b.h.flushed \in Nat
      BY <1>5, <3>7 DEF Tasks
    <3> QED BY <1>2, <1>3, <1>5, <3>6, <3>7, <3>8
  <2>2. CASE ~(drain.left > 0)
    <3>1. b.h = h /\ repair' = repair
      BY <1>1, <2>2
    <3> HIDE DEF b
    <3>2. DOMAIN files \subseteq DOMAIN h.table
      BY <1>2, <1>3, <2>2 DEF StrayInv, Stray
    <3> QED BY <1>2, <1>3, <1>4, <1>5, <3>1, <3>2
  <2> QED BY <2>1, <2>2
<1> HIDE DEF b
<1>7. ~b.h.purge /\ b.h.dirty \in BOOLEAN /\ b.h.flushed \in Nat
  BY <1>6 DEF Tasks
<1>8. /\ files' = files /\ marker' = marker /\ used' = used
      /\ \/ h' = Saved(b.h) /\ Leave(FALSE) /\ ~MoreWork(b.h)
         \/ h' = b.h /\ Leave(TRUE)
  BY <1>1, <1>7 DEF FinishResync, ResyncFails, disk
<1>9. ~MoreWork(b.h) => latest <= b.h.flushed
  BY <1>5, <1>7 DEF MoreWork
<1>10. /\ h' \in Tasks /\ h'.job = NoJob /\ h'.table = b.h.table /\ h'.flushed = b.h.flushed
       /\ (~h'.dirty => latest <= h'.flushed)
  <2>1. CASE h' = Saved(b.h) /\ ~MoreWork(b.h)
    <3>1. h' = [b.h EXCEPT !.dirty = b.h.dirty /\ done]
      BY <2>1 DEF Saved
    <3>2. (b.h.dirty /\ done) \in BOOLEAN
      BY <1>7
    <3>3. h' \in Tasks /\ h'.job = b.h.job /\ h'.table = b.h.table /\ h'.flushed = b.h.flushed
      BY <1>6, <3>1, <3>2 DEF Tasks
    <3> QED BY <1>6, <1>9, <2>1, <3>3
  <2>2. CASE h' = b.h
    BY <1>6, <2>2
  <2> QED BY <1>8, <2>1, <2>2
<1>11. /\ repair' \in Nat /\ flushOk' \in BOOLEAN /\ (MaxWorkerFails = 0 => flushOk' /\ repair' = 0)
       /\ used' \in Uses /\ used'.syncFails = 0 /\ marker' = TRUE
  BY <1>1, <1>2, <1>8 DEF Calm
<1>12. CASE drain.from = "reboot"
  <2>1. MaxWorkerFails = 0
    BY <1>2, <1>12 DEF Calm
  <2>2. PICK f \in BOOLEAN : /\ drain' = [drain EXCEPT !.pc = "off", !.failed = f]
                             /\ ~f => latest <= h'.flushed
    BY <1>8, <1>9, <1>10, <1>12 DEF Leave
  <2>3. /\ drain' \in Drains /\ drain'.pc = "off" /\ drain'.failed = f
    BY <1>5, <2>2 DEF Drains
  <2>4. Calm' /\ ~Powered'
    BY <1>1, <1>2, <1>10, <1>11, <2>1, <2>3 DEF Calm, Powered
  <2>5. CoverInv(LiveSeqs, files, h'.table, h'.flushed)
    BY <1>6, <1>10 DEF Book
  <2>6. LeftBy(files', h'.table, Replaced')
    BY <1>2, <1>8 DEF LeftBy, Keeps, Holds
  <2>8. UNCHANGED <<ring, latest>>
    BY <1>1
  <2>9. drain'.from = "reboot" /\ ~drain'.failed => latest <= h'.flushed /\ files' = files
    BY <1>8, <2>2, <2>3
  <2> QED BY <1>2, <2>1, <2>4, <2>5, <2>6, <2>8, <2>9, OffStep
<1>13. CASE drain.from # "reboot"
  <2>1. drain' = Idle
    BY <1>8, <1>13 DEF Leave
  <2>2. drain' \in Drains /\ drain'.pc = "idle" /\ drain'.job = NoJob /\ drain'.from = "none"
    BY <2>1, NoJobIn DEF Idle, Drains
  <2>3. Book(LiveSeqs, latest, files, h'.table, h'.flushed, repair', 0)
    BY <1>6, <1>10
  <2>4. \A k \in DOMAIN files \ DOMAIN h'.table : Stray(k)'
    BY <1>6, <1>10
  <2>5. UNCHANGED <<ring, latest, files, marker>> /\ worker' = "idle"
    BY <1>1, <1>3, <1>8
  <2> QED BY <1>2, <1>10, <1>11, <2>2, <2>3, <2>4, <2>5, RestStep
<1> QED BY <1>12, <1>13

(* persistHistoryNow and rebootDevice: a job whose outcome nobody settles   *)
(* leaves its segment distrusted, and a file it created is found again.     *)
LEMMA DroppedIs ==
  ASSUME HInvariant, ~Strands, worker = "idle", drain.pc \in {"idle", "wait"}
  PROVE  LET d == Dropped(h) IN
         /\ d \in Tasks /\ d.job = NoJob /\ d.dirty = h.dirty /\ d.flushed = h.flushed
         /\ Book(LiveSeqs, latest, files, d.table, d.flushed, repair, 0)
         /\ \A k \in DOMAIN files \ DOMAIN d.table : Astray(d, k)
<1> DEFINE j == h.job
           k == j.first
           t == h.table
           w == h.flushed
           d == Dropped(h)
           T == IF j.kind # "none" THEN Distrust(t, k) ELSE t
<1>1. /\ Powered /\ RingInv(ring, latest) /\ FilesInv(ring, latest, files) /\ Calm
      /\ JobInv /\ StrayInv /\ DrainInv
      /\ Book(LiveSeqs, latest, files, t, w, repair, Ahead)
  BY DEF HInvariant, Powered
<1>2. h \in Tasks /\ drain.job = NoJob /\ t \in Tables /\ w \in Nat /\ latest \in Nat
  BY <1>1 DEF Calm, DrainInv, Tasks, RingInv
<1>3. d = [h EXCEPT !.job = NoJob, !.redirty = FALSE, !.table = T]
  BY DEF Dropped
<1>4. T \in Tables
  BY <1>2, DistrustIs
<1> HIDE DEF d, T
<1>5. d \in Tasks /\ d.job = NoJob /\ d.dirty = h.dirty /\ d.flushed = w /\ d.table = T
  BY <1>2, <1>3, <1>4, NoJobIn DEF Tasks
<1>6. ASSUME j.kind # "none"
      PROVE  /\ Shape(ring, latest, j) /\ Plan(LiveSeqs, t, w, j) /\ Done /\ k \in Nat \ {0}
             /\ (flushOk => repair = 0) /\ (k \in DOMAIN t => k <= w)
  <2>1. Done
    BY <1>6 DEF Done
  <2>2. Shape(ring, latest, j) /\ Plan(LiveSeqs, t, w, j) /\ (flushOk => repair = 0)
    BY <1>1, <1>6, <2>1 DEF JobInv
  <2>3. k \in Nat \ {0}
    BY <1>2, <2>2 DEF Shape
  <2>4. j.create \in BOOLEAN
    BY <2>2 DEF Shape, Jobs
  <2>5. k \in DOMAIN t => k <= w
    BY <2>2, <2>4 DEF Plan, AppendPlan
  <2> QED BY <2>1, <2>2, <2>3, <2>5
<1>7. Ahead = IF j.kind # "none" /\ flushOk THEN k ELSE 0
  <2>1. Ahead = IF Done /\ flushOk THEN k ELSE drain.job.first
    BY DEF Ahead
  <2>2. drain.job.first = 0
    BY <1>2 DEF NoJob
  <2>3. Done <=> j.kind # "none"
    BY DEF Done
  <2> QED BY <2>1, <2>2, <2>3
<1>8. Book(LiveSeqs, latest, files, T, w, repair, 0)
  <2>1. CASE j.kind = "none"
    BY <1>1, <1>7, <2>1 DEF T
  <2>2. CASE j.kind # "none"
    <3>1. Ahead = k \/ Ahead = 0
      BY <1>7
    <3>2. Ahead \in DOMAIN t => Ahead <= w
      <4>1. 0 \notin DOMAIN t
        BY <1>1 DEF Book, TableInv
      <4> QED BY <1>6, <2>2, <3>1, <4>1
    <3>3. Book(LiveSeqs, latest, files, Distrust(t, k), w, repair, 0)
      BY <1>1, <1>2, <3>1, <3>2, DistrustBook
    <3> QED BY <2>2, <3>3 DEF T
  <2> QED BY <2>1, <2>2
<1>9. ASSUME NEW e \in DOMAIN files \ DOMAIN T PROVE Astray(d, e)
  <2>1. DOMAIN T = DOMAIN t
    BY <1>2, DistrustIs DEF T
  <2>2. Done /\ flushOk /\ j.kind = "append" /\ j.create /\ e = k
    BY <1>1, <1>9, <2>1 DEF StrayInv, Stray
  <2>3. repair = 0 /\ Plan(LiveSeqs, t, w, j)
    BY <1>6, <2>2
  <2>4. AppendPlan(LiveSeqs, t, w, j)
    BY <2>2, <2>3 DEF Plan, RewritePlan
  <2>5. T = t
    BY <1>9, <2>1, <2>2 DEF T, Distrust
  <2>6. e \in LiveSeqs
    BY <1>9, <2>2 DEF Strands, LiveSeqs
  <2>7. \A x \in DOMAIN t : x # repair
    BY <1>1, <2>3 DEF Book, TableInv
  <2>8. /\ w < e /\ \A q \in LiveSeqs : w < q => e <= q
        /\ Creates(t) /\ Cardinality(DOMAIN t) < SegMax /\ \A x \in DOMAIN t : ~t[x].open
    BY <2>2, <2>4 DEF AppendPlan
  <2> QED BY <1>5, <2>5, <2>6, <2>7, <2>8 DEF Astray
<1> QED BY <1>5, <1>8, <1>9 DEF d

(* A save with the worker idle begins the drain, or a clean reboot goes     *)
(* down.                                                                    *)
LEMMA SaveStep ==
  ASSUME HInvariant, SizesAssumption, ~Strands, worker = "idle", drain.pc \in {"idle", "wait"},
         NEW from \in {"persist", "reboot"}, from = "reboot" => MaxWorkerFails = 0,
         SaveOrGoDown(Dropped(h), from), used' \in Uses, used'.syncFails = 0,
         UNCHANGED <<ring, latest, worker, flushOk, repair, files, marker>>
  PROVE  HInvariant'
<1> DEFINE d == Dropped(h)
<1>1. /\ Powered /\ RingInv(ring, latest) /\ FilesInv(ring, latest, files) /\ Calm
      /\ (~h.dirty => latest <= h.flushed)
  BY DEF HInvariant, Powered
<1>2. /\ d \in Tasks /\ d.job = NoJob /\ d.dirty = h.dirty /\ d.flushed = h.flushed
      /\ Book(LiveSeqs, latest, files, d.table, d.flushed, repair, 0)
      /\ \A k \in DOMAIN files \ DOMAIN d.table : Astray(d, k)
  BY DroppedIs
<1>3. \/ ~d.dirty /\ from = "reboot" /\ h' = d /\ drain' = [Idle EXCEPT !.pc = "off", !.from = from]
      \/ BeginDrain(d, from)
  BY DEF SaveOrGoDown
<1>4. /\ flushOk' \in BOOLEAN /\ repair' \in Nat /\ (MaxWorkerFails = 0 => flushOk' /\ repair' = 0)
      /\ marker' = TRUE
  BY <1>1 DEF Calm
<1> HIDE DEF d
<1>5. CASE ~d.dirty /\ from = "reboot" /\ h' = d /\ drain' = [Idle EXCEPT !.pc = "off", !.from = from]
  <2>1. drain' \in Drains /\ drain'.pc = "off" /\ drain'.from = "reboot" /\ ~drain'.failed
    BY <1>5, NoJobIn DEF Idle, Drains
  <2>2. ~Powered' /\ MaxWorkerFails = 0
    BY <1>5, <2>1 DEF Powered
  <2>3. Calm'
    BY <1>1, <1>2, <1>4, <1>5, <2>1, <2>2 DEF Calm
  <2>4. CoverInv(LiveSeqs, files, h'.table, h'.flushed)
    BY <1>2, <1>5 DEF Book
  <2>5. LeftBy(files', h'.table, Replaced')
    BY <1>1 DEF LeftBy, Keeps, Holds
  <2>6. latest <= h'.flushed /\ files' = files
    BY <1>1, <1>2, <1>5
  <2> QED BY <1>1, <2>2, <2>3, <2>4, <2>5, <2>6, OffStep
<1>6. CASE BeginDrain(d, from)
  <2>1. /\ h' = d /\ drain' \in Drains /\ drain'.pc = "build" /\ drain'.job = NoJob
        /\ drain'.from = from /\ drain'.left > 0
    BY <1>2, <1>6, BeginDrainIs
  <2>2. ASSUME NEW k \in DOMAIN files \ DOMAIN h'.table PROVE Stray(k)'
    <3>1. Astray(d, k)
      BY <1>2, <2>1, <2>2
    <3>2. Astray(h, k)'
      BY <2>1, <3>1 DEF Astray, LiveSeqs, Creates, Active
    <3> QED BY <2>1, <3>2 DEF Stray
  <2>3. Book(LiveSeqs, latest, files, h'.table, h'.flushed, repair', 0)
    BY <1>2, <2>1
  <2> QED BY <1>1, <1>2, <1>4, <2>1, <2>2, <2>3, RestStep
<1> QED BY <1>3, <1>5, <1>6

(* The wait for the worker ends well.                                       *)
LEMMA WaitOverStep ==
  ASSUME HInvariant, SizesAssumption, WaitOver, ~used'.stray
  PROVE  HInvariant'
<1>1. /\ drain.pc = "wait" /\ worker = "idle" /\ SaveOrGoDown(Dropped(h), drain.from)
      /\ UNCHANGED <<ring, latest, worker, flushOk, repair, files, marker>> /\ used' = Saving(used)
  BY DEF WaitOver, ram, task, disk
<1>3. ~Strands
  BY <1>1 DEF HInvariant, Calm, Saving, Uses
<1>2. /\ used' \in Uses /\ used'.syncFails = 0 /\ (drain.from = "reboot" => MaxWorkerFails = 0)
      /\ drain.from \in {"persist", "reboot"}
  BY <1>1 DEF HInvariant, Calm, DrainInv, Powered, Saving, Uses
<1> QED BY <1>1, <1>2, <1>3, SaveStep

(* A save or a reboot: cancel the job, drop it, or wait for the worker.     *)
LEMMA SaveNowStep ==
  ASSUME HInvariant, SizesAssumption, ~Strands, NEW from \in {"persist", "reboot"},
         from = "reboot" => MaxWorkerFails = 0, SaveNow(from),
         used' \in Uses, used'.syncFails = 0
  PROVE  HInvariant'
<1>1. /\ drain.pc = "idle" /\ UNCHANGED <<ring, latest, flushOk, repair, files, marker>>
      /\ \/ /\ worker = "queued" /\ worker' = "idle"
            /\ BeginDrain([Dropped(h) EXCEPT !.dirty = Dropped(h).dirty \/ from = "reboot"], from)
         \/ worker = "idle" /\ UNCHANGED worker /\ SaveOrGoDown(Dropped(h), from)
         \/ /\ worker \in {"running", "finishing"}
            /\ drain' = [Idle EXCEPT !.pc = "wait", !.from = from] /\ UNCHANGED <<h, worker>>
  BY DEF SaveNow, LoopFree, ram, disk
<1>2. /\ Powered /\ RingInv(ring, latest) /\ FilesInv(ring, latest, files) /\ Calm
      /\ (~h.dirty => latest <= h.flushed)
      /\ Book(LiveSeqs, latest, files, h.table, h.flushed, repair, Ahead)
      /\ JobInv /\ StrayInv /\ DrainInv
  BY <1>1 DEF HInvariant, Powered
<1>3. /\ flushOk' \in BOOLEAN /\ repair' \in Nat /\ (MaxWorkerFails = 0 => flushOk' /\ repair' = 0)
      /\ marker' = TRUE
  BY <1>1, <1>2 DEF Calm
<1>4. CASE worker = "idle" /\ UNCHANGED worker /\ SaveOrGoDown(Dropped(h), from)
  BY <1>1, <1>4, SaveStep
<1>5. ASSUME worker = "queued", worker' = "idle",
             BeginDrain([Dropped(h) EXCEPT !.dirty = Dropped(h).dirty \/ from = "reboot"], from)
      PROVE  HInvariant'
  <2> DEFINE v == h.dirty \/ from = "reboot"
             d == [h EXCEPT !.job = NoJob, !.redirty = FALSE, !.table = h.table]
             s == [d EXCEPT !.dirty = v]
  <2>1. Dropped(h) = d
    BY <1>5 DEF Dropped
  <2>2. d.dirty = h.dirty
    BY <1>2 DEF Calm, Tasks
  <2>3. BeginDrain(s, from)
    BY <1>5, <2>1, <2>2
  <2>4. h \in Tasks /\ v \in BOOLEAN
    BY <1>2 DEF Calm, Tasks
  <2> HIDE DEF v
  <2>5. s \in Tasks /\ s.job = NoJob /\ s.dirty = v /\ s.flushed = h.flushed /\ s.table = h.table
    BY <2>4, NoJobIn DEF Tasks
  <2> HIDE DEF s, d
  <2>6. /\ h' = s /\ drain' \in Drains /\ drain'.pc = "build" /\ drain'.job = NoJob
        /\ drain'.from = from
    BY <2>3, <2>5, BeginDrainIs
  <2>7. /\ repair = 0 /\ Book(LiveSeqs, latest, files, h.table, h.flushed, 0, 0)
        /\ DOMAIN files \subseteq DOMAIN h.table
    BY <1>2, <1>5, AtWork
  <2>8. Book(LiveSeqs, latest, files, h'.table, h'.flushed, repair', 0)
    BY <1>1, <2>5, <2>6, <2>7
  <2>9. \A k \in DOMAIN files \ DOMAIN h'.table : Stray(k)'
    BY <2>5, <2>6, <2>7
  <2>10. ~h'.dirty => latest <= h'.flushed
    BY <1>2, <2>5, <2>6 DEF v
  <2>11. UNCHANGED <<ring, latest, files, marker>>
    BY <1>1
  <2> QED BY <1>2, <1>3, <1>5, <2>5, <2>6, <2>8, <2>9, <2>10, <2>11, RestStep
<1>6. CASE /\ worker \in {"running", "finishing"}
           /\ drain' = [Idle EXCEPT !.pc = "wait", !.from = from] /\ UNCHANGED <<h, worker>>
  <2>1. drain' \in Drains /\ drain'.pc = "wait" /\ drain'.job = NoJob /\ drain'.from = from
    BY <1>6, NoJobIn DEF Idle, Drains
  <2>2. drain.job = NoJob
    BY <1>1, <1>2 DEF DrainInv
  <2>3. Done' = Done /\ Ahead' = Ahead /\ LiveSeqs' = LiveSeqs /\ Powered'
    BY <1>1, <1>6, <2>1, <2>2 DEF Done, Ahead, LiveSeqs, Powered
  <2>4. Book(LiveSeqs, latest, files, h.table, h.flushed, repair, Ahead)'
    BY <1>1, <1>2, <1>6, <2>3
  <2>5. JobInv'
    BY <1>1, <1>2, <1>6, <2>3 DEF JobInv
  <2>6. StrayInv'
    BY <1>1, <1>2, <1>6, <2>1, <2>3 DEF StrayInv, Stray
  <2>7. DrainInv'
    BY <1>6, <2>1 DEF DrainInv
  <2>8. Calm'
    BY <1>1, <1>2, <1>6, <2>1, <2>3 DEF Calm
  <2>9. RingInv(ring, latest)' /\ FilesInv(ring, latest, files)' /\ (~h.dirty => latest <= h.flushed)'
    BY <1>1, <1>2, <1>6
  <2> QED BY <2>3, <2>4, <2>5, <2>6, <2>7, <2>8, <2>9 DEF HInvariant
<1> QED BY <1>1, <1>4, <1>5, <1>6

-----------------------------------------------------------------------------
(* The boot.                                                                *)

(* The last sequence number of a set of records.                            *)
LEMMA LastOfIs ==
  ASSUME NEW n \in Nat, NEW M \in SUBSET Records, \A x \in M : x.seq <= n
  PROVE  /\ LastOf(M) \in 0..n /\ \A x \in M : x.seq <= LastOf(M)
         /\ M # {} => LastOf(M) \in Seqs(M)
<1> DEFINE S == {0} \cup Seqs(M)
<1>1. Seqs(M) \in SUBSET (Nat \ {0}) /\ \A x \in M : x.seq \in Seqs(M)
  BY SeqsOf
<1>2. S \in SUBSET (0..n) /\ S # {}
  BY CountOf
<1>3. Max(S) \in S /\ \A x \in S : x <= Max(S)
  BY <1>2, MaxOf
<1>4. LastOf(M) = Max(S)
  BY DEF LastOf
<1>5. ASSUME M # {} PROVE Max(S) # 0
  <2>1. PICK x \in M : TRUE
    BY <1>5
  <2>2. x.seq \in S /\ x.seq \in Nat \ {0}
    BY <1>1, <2>1
  <2>3. x.seq <= Max(S)
    BY <1>3, <2>2
  <2> QED BY <2>2, <2>3
<1> HIDE DEF S
<1>6. \A x \in M : x.seq <= Max(S)
  BY <1>1, <1>3 DEF S
<1>7. Max(S) # 0 => Max(S) \in Seqs(M)
  BY <1>3 DEF S
<1>8. Max(S) \in 0..n
  BY <1>2, <1>3
<1> QED BY <1>4, <1>5, <1>6, <1>7, <1>8

(* The ring the boot restores, and what is on the card, known to it.        *)
LEMMA BootRingIs ==
  ASSUME SizesAssumption, NEW R, NEW n \in Nat, NEW F, FilesInv(R, n, F)
  PROVE  LET M == RestoredOf(F)
             N == Newest(M, RingCap)
         IN /\ RingInv(N, LastOf(M)) /\ N \subseteq M /\ M \in SUBSET Records
            /\ \A k \in LegibleOf(F) : F[k].recs \subseteq M /\ Known(N, LastOf(M), F[k].recs)
            /\ \A x \in M : \E k \in LegibleOf(F) : x \in F[k].recs
<1> DEFINE M == RestoredOf(F)
           N == Newest(M, RingCap)
           w == LastOf(M)
<1>1. M \in SUBSET Records /\ \A x \in M : x.seq <= n
  BY RestoredIs
<1>2. \A k \in LegibleOf(F) : LoadedOf(F, k) = F[k].recs
  BY AllLoaded
<1>3. /\ \A k \in LegibleOf(F) : F[k].recs \subseteq M
      /\ \A x \in M : \E k \in LegibleOf(F) : x \in F[k].recs
  BY <1>2 DEF RestoredOf
<1> HIDE DEF M
<1>4. Seqs(M) \subseteq 0..n /\ RingCap \in Nat
  BY <1>1, CountOf, SizesAssumption
<1>5. /\ N \subseteq M /\ Count(N) <= RingCap
      /\ \A x \in N, y \in M : y.seq >= x.seq => y \in N
  BY <1>1, <1>4, NewestOf
<1>6. w \in Nat /\ \A x \in M : x.seq <= w
  BY <1>1, LastOfIs
<1> HIDE DEF N, w
<1>7. RingInv(N, w)
  BY <1>1, <1>5, <1>6 DEF RingInv
<1>8. ASSUME NEW x \in M PROVE x.seq <= w /\ Past(N, x.seq)
  <2>1. ASSUME x.seq \notin Seqs(N), NEW m \in N PROVE x.seq < m.seq
    <3>1. x \notin N
      BY <2>1 DEF Seqs
    <3>2. m \in M /\ m.seq \in Nat /\ x.seq \in Nat
      BY <1>1, <1>5 DEF Records
    <3>3. ~(x.seq >= m.seq)
      BY <1>5, <3>1
    <3> QED BY <3>2, <3>3
  <2> QED BY <1>6, <2>1 DEF Past
<1>9. \A k \in LegibleOf(F) : Known(N, w, F[k].recs)
  BY <1>3, <1>8 DEF Known
<1> QED BY <1>1, <1>3, <1>5, <1>7, <1>9 DEF M, N, w

Kept(F, N) == {k \in LegibleOf(F) : F[k].recs \cap N # {}}
(* The table of the files F made from the ring N, and what it must be.      *)
EntriesOf(F, N, t) ==
  /\ t \in [Kept(F, N) -> Entries]
  /\ \A k \in Kept(F, N) : /\ t[k].last = LastOf(F[k].recs) /\ t[k].disk = Count(F[k].recs)
                            /\ ~t[k].open
Boots(N, w, G, t) ==
  /\ RingInv(N, w) /\ FilesInv(N, w, G) /\ Book(Seqs(Live(N)), w, G, t, w, 0, 0)
  /\ DOMAIN G = DOMAIN t

(* The files that stay and the table made of them are exact books.          *)
LEMMA BootBook ==
  ASSUME SizesAssumption, MaxWorkerFails = 0, NEW R, NEW n \in Nat, NEW F, FilesInv(R, n, F),
         NEW N, N = Newest(RestoredOf(F), RingCap), NEW w, w = LastOf(RestoredOf(F)),
         NEW G, G = OnlyOf(F, Kept(F, N)), NEW t, EntriesOf(F, N, t)
  PROVE  Boots(N, w, G, t)
<1> DEFINE M == RestoredOf(F)
           K == Kept(F, N)
           L == Seqs(Live(N))
<1>1. LegibleOf(F) = {k \in DOMAIN F : F[k].hdr}
  BY AllListed
<1>2. /\ RingInv(N, w) /\ N \subseteq M /\ M \in SUBSET Records
      /\ \A k \in LegibleOf(F) : F[k].recs \subseteq M /\ Known(N, w, F[k].recs)
      /\ \A x \in M : \E k \in LegibleOf(F) : x \in F[k].recs
  BY BootRingIs
<1> HIDE DEF M
<1>3. w \in Nat /\ N \in SUBSET Records /\ (\A m \in N : m.seq <= w)
  BY <1>2 DEF RingInv
<1>4. /\ K \subseteq LegibleOf(F) /\ K \subseteq DOMAIN F
      /\ \A k \in K : F[k].hdr /\ F[k].recs \cap N # {}
      /\ \A k \in LegibleOf(F) : F[k].recs \cap N # {} => k \in K
  BY <1>1 DEF Kept
<1> HIDE DEF K
<1>5. /\ DOMAIN G = K /\ G = [k \in DOMAIN G |-> G[k]] /\ \A k \in K : G[k] = F[k]
  BY <1>4 DEF OnlyOf, K
<1>6. t \in [K -> Entries] /\ DOMAIN t = K
      /\ \A k \in K : /\ t[k].last = LastOf(F[k].recs) /\ t[k].disk = Count(F[k].recs)
                      /\ ~t[k].open
  BY DEF EntriesOf, K
<1>7. ASSUME NEW k \in K
      PROVE  /\ OneFile(R, n, k, F[k]) /\ Known(N, w, F[k].recs) /\ F[k] \in Segments
             /\ F[k].recs \in SUBSET Records /\ F[k].recs # {}
             /\ \A x \in F[k].recs : k <= x.seq /\ x.seq <= w /\ x.seq \in Nat
             /\ ~F[k].ragged /\ F[k].count = Count(F[k].recs) /\ Count(F[k].recs) <= SegRecords
             /\ k \in 1..w
  <2>1. OneFile(R, n, k, F[k]) /\ k \in Nat \ {0}
    BY <1>4 DEF FilesInv
  <2>2. Known(N, w, F[k].recs)
    BY <1>2, <1>4
  <2>3. F[k] \in Segments /\ F[k].recs \in SUBSET Records
    BY <2>1 DEF OneFile, Segments
  <2>4. F[k].recs # {}
    BY <1>4
  <2>5. \A x \in F[k].recs : k <= x.seq /\ x.seq <= w /\ x.seq \in Nat
    BY <2>1, <2>2, <2>3 DEF OneFile, Known, Records
  <2>6. k \in 1..w
    <3>1. PICK x \in F[k].recs : TRUE
      BY <2>4
    <3>2. k <= x.seq /\ x.seq <= w /\ x.seq \in Nat
      BY <2>5
    <3> QED BY <1>3, <2>1, <3>2
  <2> QED BY <2>1, <2>2, <2>3, <2>4, <2>5, <2>6 DEF OneFile
<1>8. \A k, e \in K : k < e => \A x \in F[k].recs : x.seq < e
  BY <1>4 DEF FilesInv
<1>9. IsFiniteSet(K) /\ Cardinality(K) <= SegMax
  <2>1. DOMAIN F \in SUBSET (0..n) /\ Cardinality(DOMAIN F) <= SegMax /\ SegMax \in Nat
    BY DEF FilesInv, SizesAssumption
  <2>2. K \in SUBSET DOMAIN F
    BY <1>4
  <2>3. IsFiniteSet(K) /\ Cardinality(K) \in Nat /\ Cardinality(DOMAIN F) \in Nat
        /\ Cardinality(K) <= Cardinality(DOMAIN F)
    BY <2>1, <2>2, Part
  <2> QED BY <2>1, <2>3
<1>10. \A k \in K : OneFile(N, w, k, F[k])
  BY <1>7 DEF OneFile
<1>11. FilesInv(N, w, G)
  BY <1>5, <1>7, <1>8, <1>9, <1>10 DEF FilesInv
<1>12. ASSUME NEW k \in K
       PROVE  LastOf(F[k].recs) \in Seqs(F[k].recs) /\ LastOf(F[k].recs) \in 0..w
              /\ \A x \in F[k].recs : x.seq <= LastOf(F[k].recs)
  BY <1>3, <1>7, LastOfIs
<1>13. \A k, e \in K : k < e => t[k].last < e
  <2> SUFFICES ASSUME NEW k \in K, NEW e \in K, k < e PROVE LastOf(F[k].recs) < e
    BY <1>6
  <2>1. PICK x \in F[k].recs : x.seq = LastOf(F[k].recs)
    BY <1>12 DEF Seqs
  <2> QED BY <1>8, <2>1
<1>14. ASSUME NEW q \in L
       PROVE  \E k \in K : q \in Seqs(F[k].recs) /\ q \in k..t[k].last
  <2>1. PICK m \in N : m.seq = q
    BY DEF Seqs, Live
  <2>2. PICK k \in LegibleOf(F) : m \in F[k].recs
    BY <1>2
  <2>3. k \in K
    BY <1>4, <2>2
  <2>4. k <= q /\ q \in Nat /\ k \in Nat /\ q <= LastOf(F[k].recs) /\ LastOf(F[k].recs) \in Nat
    BY <1>7, <1>12, <2>1, <2>2, <2>3
  <2>5. q \in Seqs(F[k].recs)
    BY <2>1, <2>2 DEF Seqs
  <2> QED BY <1>6, <2>3, <2>4, <2>5
<1>15. ASSUME NEW k \in K
       PROVE  Cardinality({q \in L : q \in k..t[k].last}) <= t[k].disk
  <2> DEFINE A == {q \in L : q \in k..t[k].last}
             B == Seqs(F[k].recs)
  <2>1. A \in SUBSET B
    <3> SUFFICES ASSUME NEW q \in L, q \in k..t[k].last PROVE q \in B
      OBVIOUS
    <3>1. PICK e \in K : q \in Seqs(F[e].recs) /\ q \in e..t[e].last
      BY <1>14
    <3>2. k \in Nat /\ e \in Nat /\ q \in Nat /\ t[k].last \in Nat /\ t[e].last \in Nat
      BY <1>6, <1>7 DEF Entries
    <3>3. ~(e < k) /\ ~(k < e)
      BY <1>13, <3>1, <3>2
    <3>4. e = k
      BY <3>2, <3>3
    <3> QED BY <3>1, <3>4
  <2>2. B \in SUBSET (0..w)
    BY <1>3, <1>7, CountOf
  <2> HIDE DEF A, B
  <2>3. Cardinality(A) <= Cardinality(B)
    BY <1>3, <2>1, <2>2, Part
  <2>4. t[k].disk = Cardinality(B)
    BY <1>6 DEF Count, B
  <2> QED BY <2>3, <2>4 DEF A
<1>16. TableInv(L, w, t, w)
  <2>1. \A k \in K : t[k].disk <= SegRecords /\ t[k].last <= w
    BY <1>6, <1>7, <1>12
  <2>2. K \subseteq 1..w /\ w \in 0..w
    BY <1>3, <1>7
  <2> HIDE DEF L
  <2> QED BY <1>6, <1>9, <1>13, <1>15, <2>1, <2>2 DEF TableInv
<1>17. CoverInv(L, G, t, w)
  BY <1>4, <1>5, <1>6, <1>14 DEF CoverInv, OnCard
<1>18. BelowInv(G, t, w, 0, 0)
  BY <1>5, <1>6, <1>7 DEF BelowInv
<1>19. TrustInv(G, t, 0, 0)
  BY <1>4, <1>5, <1>6, <1>7 DEF TrustInv, Exact
<1>20. SpanInv(G, t)
  BY <1>5, <1>6, <1>8 DEF SpanInv
<1> QED BY <1>2, <1>5, <1>6, <1>11, <1>16, <1>17, <1>18, <1>19, <1>20 DEF Book, Boots

(* A boot makes the ring and the table from the files, with exact books.    *)
LEMMA PowerOnStep ==
  ASSUME HInvariant, SizesAssumption, Steady, PowerOn, ~used'.odd
  PROVE  HInvariant'
<1> DEFINE M == RestoredOf(files)
           N == Newest(M, RingCap)
           w == LastOf(M)
           t == BootTable
           L == Seqs(Live(N))
<1>1. ~Powered /\ Boot
  BY DEF PowerOn, Powered
<1>2. /\ RingInv(ring, latest) /\ FilesInv(ring, latest, files) /\ Calm /\ marker = TRUE
      /\ MaxWorkerFails = 0 /\ latest \in Nat
  <2>1. used' = [used EXCEPT !.late = {}, !.odd = used.odd \/ (marker /\ ~Orderly)]
    BY <1>1 DEF Boot
  <2>2. marker = TRUE /\ used \in Uses
    BY DEF HInvariant, Calm
  <2>3. Orderly
    BY <2>1, <2>2 DEF Uses
  <2> QED BY <1>1, <2>3 DEF HInvariant, Calm, RingInv
<1>3. /\ Restored = M /\ BootRing = N /\ Legible = LegibleOf(files)
      /\ \A k : Loaded(k) = LoadedOf(files, k)
  BY <1>2 DEF Restored, BootRing, Legible, Loaded, RestoredOf, LoadedOf, LegibleOf
<1>0. h' = Booted(t, w, TRUE)
  BY <1>1, <1>2, <1>3 DEF Boot
<1>4. /\ ring' = N /\ latest' = w /\ files' = BootFiles
      /\ marker' = TRUE /\ worker' = "idle" /\ flushOk' = TRUE /\ repair' = 0
      /\ drain' = Idle /\ used' \in Uses /\ used'.syncFails = 0
  <2>1. used' = [used EXCEPT !.late = {}, !.odd = used.odd \/ (marker /\ ~Orderly)]
    BY <1>1 DEF Boot
  <2>2. used' \in Uses /\ used'.syncFails = 0
    BY <1>2, <2>1 DEF Calm, Uses
  <2> QED BY <1>1, <1>2, <1>3, <2>2 DEF Boot
<1>5. Listed(files) = DOMAIN files /\ LegibleOf(files) = {k \in DOMAIN files : files[k].hdr}
  BY <1>2, AllListed
<1>6. \A k \in LegibleOf(files) : LoadedOf(files, k) = files[k].recs
  BY <1>2, AllLoaded
<1> HIDE DEF M
<1>7. DOMAIN t = Kept(files, N)
  BY <1>3, <1>6 DEF BootTable, Kept
<1> HIDE DEF N
<1>8. ASSUME NEW k \in Kept(files, N)
      PROVE  /\ t[k] \in Entries /\ t[k].last = LastOf(files[k].recs)
             /\ t[k].disk = Count(files[k].recs) /\ ~t[k].open
  <2> DEFINE f == files[k]
             c == Count(f.recs)
             o == c < f.count
             d == \A m \in N : k < m.seq
             l == LastOf(f.recs)
  <2>1. k \in LegibleOf(files) /\ OneFile(ring, latest, k, f)
    BY <1>2, <1>5 DEF Kept, FilesInv
  <2>2. f.recs \in SUBSET Records /\ (\A x \in f.recs : x.seq <= latest) /\ f.count = c
    BY <1>2, <2>1 DEF OneFile, Segments, Known
  <2>3. c \in Nat /\ l \in Nat
    BY <1>2, <2>2, CountOf, LastOfIs
  <2>4. ~o
    BY <2>2, <2>3
  <2>5. t[k] = [Segment(l, c, FALSE) EXCEPT !.open = o, !.dirty = d]
    BY <1>3, <1>6, <1>7, <2>1 DEF BootTable, Kept
  <2> HIDE DEF c, l, o, d, f
  <2> DEFINE e == Segment(l, c, FALSE)
  <2>6. e \in Entries /\ e.last = l /\ e.disk = c
    BY <2>3 DEF Segment, Entries
  <2> HIDE DEF e
  <2>7. d \in BOOLEAN /\ o = FALSE
    BY <2>4 DEF d, o
  <2>8. \A b \in BOOLEAN : LET x == [e EXCEPT !.open = FALSE, !.dirty = b] IN
          x \in Entries /\ x.last = e.last /\ x.disk = e.disk /\ x.open = FALSE
    BY <2>6 DEF Entries
  <2>10. t[k] = [e EXCEPT !.open = FALSE, !.dirty = d]
    BY <2>5, <2>7, Zenon DEF e
  <2>9. t[k] \in Entries /\ t[k].last = l /\ t[k].disk = c /\ ~t[k].open
    BY <2>6, <2>7, <2>8, <2>10, Zenon
  <2> QED BY <2>9 DEF c, l, f
<1>9. t \in [Kept(files, N) -> Entries]
  <2>1. t = [k \in DOMAIN t |-> t[k]]
    BY DEF BootTable
  <2> HIDE DEF t
  <2> QED BY <1>7, <1>8, <2>1
<1>10. BootFiles = OnlyOf(files, Kept(files, N))
  BY <1>5, <1>7 DEF BootFiles
<1>11. N = Newest(RestoredOf(files), RingCap) /\ w = LastOf(RestoredOf(files))
  BY DEF N, M
<1> HIDE DEF t, w, L
<1>12. /\ RingInv(N, w) /\ FilesInv(N, w, BootFiles) /\ DOMAIN BootFiles = DOMAIN t
       /\ Book(Seqs(Live(N)), w, BootFiles, t, w, 0, 0)
  <2>1. EntriesOf(files, N, t)
    BY <1>8, <1>9 DEF EntriesOf
  <2>2. Boots(N, w, BootFiles, t)
    BY <1>2, <1>10, <1>11, <2>1, BootBook
  <2> QED BY <2>2 DEF Boots
<1>13. t \in Tables /\ w \in Nat
  <2>1. DOMAIN t \subseteq Nat
    BY <1>12 DEF Book, TableInv
  <2> QED BY <1>7, <1>9, <1>12, <2>1 DEF Tables, RingInv
<1>14. /\ h' \in Tasks /\ h'.table = t /\ h'.flushed = w /\ h'.job = NoJob /\ ~h'.dirty
  BY <1>0, <1>13, NoJobIn DEF Booted, Tasks
<1>15. drain' \in Drains /\ drain'.pc = "idle" /\ drain'.job = NoJob /\ drain'.from = "none"
  BY <1>4, NoJobIn DEF Idle, Drains
<1>16. LiveSeqs' = L /\ Powered' /\ ~Done' /\ Ahead' = 0
  <2>1. LiveSeqs' = L /\ Powered' /\ ~Done' /\ Ahead' = drain'.job.first
    BY <1>4, <1>14, <1>15 DEF LiveSeqs, L, Powered, Done, Ahead, NoJob
  <2> QED BY <1>15, <2>1 DEF NoJob
<1>17. Book(LiveSeqs, latest, files, h.table, h.flushed, repair, Ahead)'
  BY <1>4, <1>12, <1>14, <1>16 DEF L
<1>18. JobInv'
  BY <1>4, <1>14 DEF JobInv, NoJob
<1>19. StrayInv'
  BY <1>4, <1>12, <1>14 DEF StrayInv
<1>20. DrainInv'
  BY <1>15 DEF DrainInv
<1>21. Calm'
  BY <1>2, <1>4, <1>14, <1>15, <1>16 DEF Calm
<1>22. RingInv(ring, latest)' /\ FilesInv(ring, latest, files)' /\ (~h.dirty => latest <= h.flushed)'
  BY <1>4, <1>12, <1>13, <1>14
<1> QED BY <1>16, <1>17, <1>18, <1>19, <1>20, <1>21, <1>22 DEF HInvariant

-----------------------------------------------------------------------------
(* The invariant holds, and the promises follow.                            *)

(* The invariant holds at the first start.                                  *)
LEMMA InitHolds ==
  ASSUME SizesAssumption, Init
  PROVE  HInvariant
<1>0. h = Booted(Nothing, 0, TRUE)
  BY DEF Init
<1>1. /\ ring = {} /\ latest = 0 /\ worker = "idle" /\ flushOk = TRUE /\ repair = 0
      /\ drain = Idle /\ files = Nothing /\ marker = TRUE
  BY DEF Init
<1>2. used \in Uses /\ used.syncFails = 0
  BY DEF Init, Uses
<1>3. DOMAIN Nothing = {} /\ Nothing = [k \in DOMAIN Nothing |-> Nothing[k]]
      /\ Nothing \in Tables /\ Nothing \in [DOMAIN Nothing -> Entries]
  <2>1. DOMAIN Nothing = {} /\ Nothing = [k \in DOMAIN Nothing |-> Nothing[k]]
    BY DEF Nothing
  <2>2. Nothing \in [DOMAIN Nothing -> Entries]
    BY <2>1
  <2> QED BY <2>1, <2>2, TablesIn
<1>4. /\ RingCap \in Nat /\ SegMax \in Nat
  BY SizesAssumption
<1>5. /\ h \in Tasks /\ h.table = Nothing /\ h.flushed = 0 /\ h.job = NoJob /\ h.dirty = FALSE
  BY <1>0, <1>3, NoJobIn DEF Booted, Tasks
<1>6. drain \in Drains /\ drain.pc = "idle" /\ drain.job = NoJob /\ drain.from = "none"
  BY <1>1, NoJobIn DEF Idle, Drains
<1>7. Live({}) = {}
  BY DEF Live
<1>8. LiveSeqs = {} /\ Count({}) = 0 /\ Cardinality({}) = 0
  BY <1>1, <1>7, CountEmpty, FS_EmptySet DEF LiveSeqs
<1>9. RingInv(ring, latest)
  BY <1>1, <1>4, <1>8 DEF RingInv
<1>10. FilesInv(ring, latest, files)
  BY <1>1, <1>3, <1>4, <1>8 DEF FilesInv
<1>11. ~Done /\ Powered /\ Ahead = drain.job.first
  BY <1>5, <1>6 DEF Done, Ahead, NoJob, Powered
<1>12. Book(LiveSeqs, latest, files, h.table, h.flushed, repair, Ahead)
  BY <1>1, <1>3, <1>4, <1>5, <1>8 DEF Book, TableInv, CoverInv, BelowInv, TrustInv, SpanInv
<1>13. JobInv
  BY <1>1, <1>5 DEF JobInv, NoJob
<1>14. StrayInv
  BY <1>1, <1>3 DEF StrayInv
<1>15. DrainInv
  BY <1>6 DEF DrainInv
<1>16. Calm
  BY <1>1, <1>2, <1>5, <1>6, <1>11 DEF Calm
<1> QED BY <1>1, <1>5, <1>9, <1>10, <1>11, <1>12, <1>13, <1>14, <1>15, <1>16 DEF HInvariant

(* It holds while nothing happens.                                          *)
LEMMA RestsHere ==
  ASSUME HInvariant, UNCHANGED vars
  PROVE  HInvariant'
<1>1. UNCHANGED <<ring, latest, h, worker, flushOk, repair, fails, drain, files, marker, used>>
  BY DEF vars
<1>2. Done' = Done /\ Ahead' = Ahead /\ Powered' = Powered
  BY <1>1 DEF Done, Ahead, Powered
<1>3. /\ RingInv(ring, latest)' /\ Calm'
      /\ (Powered \/ Orderly => FilesInv(ring, latest, files))'
  BY <1>1, <1>2 DEF HInvariant, Calm, Powered, Orderly
<1>4. CASE Powered
  <2>1. /\ Book(LiveSeqs, latest, files, h.table, h.flushed, repair, Ahead)'
        /\ (~h.dirty => latest <= h.flushed)'
    BY <1>1, <1>2, <1>4 DEF HInvariant, LiveSeqs
  <2>2. JobInv'
    BY <1>1, <1>2, <1>4 DEF HInvariant, JobInv, LiveSeqs
  <2>3. \A k : Stray(k)' = Stray(k)
    BY <1>1 DEF Stray, Astray, LiveSeqs, Creates, Active
  <2>4. StrayInv'
    BY <1>1, <1>2, <1>4, <2>3 DEF HInvariant, StrayInv
  <2>5. DrainInv'
    BY <1>1, <1>2, <1>4 DEF HInvariant, DrainInv, LiveSeqs
  <2> QED BY <1>2, <1>3, <1>4, <2>1, <2>2, <2>4, <2>5 DEF HInvariant
<1>5. CASE ~Powered
  <2>1. OffInv
    BY <1>5 DEF HInvariant
  <2>2. \A q : Restores(q)' = Restores(q)
    BY <1>1 DEF Restores, BootRing, Restored, Loaded, Legible
  <2>3. OffInv'
    BY <1>1, <1>2, <2>1, <2>2 DEF OffInv, CutKeepsDurable, Replaced, Regular
  <2> QED BY <1>2, <1>3, <1>5, <2>3 DEF HInvariant
<1> QED BY <1>4, <1>5

(* What the environment has spent is never given back, and what a promise   *)
(* leaves out is not forgotten.                                             *)
Fields == {"deletes", "acks", "persists", "reboots", "remounts", "workerFails", "syncFails",
           "powerCuts", "late", "stray", "odd"}
Tallied(u) == /\ DOMAIN u = Fields /\ u.syncFails \in Nat /\ u.remounts \in Nat
              /\ u.stray \in BOOLEAN /\ u.odd \in BOOLEAN
Tallies(u, v) == /\ Tallied(v) /\ u.syncFails <= v.syncFails /\ u.remounts <= v.remounts
                 /\ (u.stray => v.stray) /\ (u.odd => v.odd)
LEMMA UsedStep ==
  ASSUME Tallied(used), [Next]_vars
  PROVE  Tallies(used, used')
<1> DEFINE Kinds == {"acks", "persists", "reboots", "remounts", "workerFails", "syncFails",
                     "powerCuts", "deletes"}
<1>1. Tallies(used, used)
  BY DEF Tallied, Tallies
<1>2. ASSUME NEW x \in Kinds PROVE Tallies(used, Spent(x))
  BY DEF Tallied, Tallies, Spent, Fields
<1>3. ASSUME NEW u, Tallies(used, u) PROVE Tallies(used, Saving(u))
  BY <1>3 DEF Tallied, Tallies, Saving, Fields
<1>4. ASSUME NEW m PROVE Tallies(used, Deleting(m))
  BY DEF Tallied, Tallies, Deleting, Spent, Fields
<1>5. \/ used' = used \/ (\E x \in Kinds : used' = Spent(x) \/ used' = Saving(Spent(x)))
      \/ used' = Saving(used) \/ (\E m : used' = Deleting(m)) \/ Boot
  <2>1. CASE User
    BY <2>1 DEF User, Receive, Delete, Acknowledge, Spend
  <2>2. CASE Worker
    BY <2>2 DEF Worker, Claim, RunJob, RunJobFails, Finish, Spend
  <2>3. CASE Flush
    BY <2>3 DEF Flush, Tick, TickDegraded, Arm, TickNoWorker, Settle, FinishResync, ResyncFails, Spend
  <2>4. CASE PersistNow \/ Reboot
    BY <2>4 DEF PersistNow, Reboot
  <2>5. CASE WaitOver \/ WaitTimeout \/ DrainMigrate \/ DrainBuild \/ DrainWrite \/ DrainWriteFails
    BY <2>5 DEF WaitOver, WaitTimeout, DrainMigrate, DrainBuild, DrainWrite, DrainWriteFails, Spend
  <2>6. CASE DrainEnd
    BY <2>6 DEF DrainEnd, FinishResync, ResyncFails, Spend
  <2>7. CASE Remount \/ PowerCut
    BY <2>7 DEF Remount, PowerCut, Spend
  <2>8. CASE PowerOn
    BY <2>8 DEF PowerOn
  <2>9. CASE UNCHANGED vars
    BY <2>9 DEF vars
  <2> QED BY <2>1, <2>2, <2>3, <2>4, <2>5, <2>6, <2>7, <2>8, <2>9 DEF Next, Drain
<1>6. CASE Boot
  <2>1. used' = [used EXCEPT !.late = {}, !.odd = used.odd \/ (marker /\ ~Orderly)]
    BY <1>6 DEF Boot
  <2> QED BY <2>1 DEF Tallied, Tallies, Fields
<1> QED BY <1>1, <1>2, <1>3, <1>4, <1>5, <1>6

(* Every step keeps it.                                                     *)
LEMMA NextStep ==
  ASSUME HInvariant, SizesAssumption, Steady, Next, Undisturbed, Undisturbed'
  PROVE  HInvariant'
<1>0. used \in Uses /\ used.syncFails = 0 /\ h \in Tasks
  BY DEF HInvariant, Calm
<1>1. CASE User
  <2>1. CASE Receive
    BY <2>1, ReceiveStep
  <2>2. ASSUME NEW m \in ring, Delete(m) PROVE HInvariant'
    BY <2>2, DeleteStep
  <2>3. ASSUME NEW m \in ring, Acknowledge(m) PROVE HInvariant'
    BY <2>3, AcknowledgeStep
  <2> QED BY <1>1, <2>1, <2>2, <2>3 DEF User
<1>2. CASE Worker
  <2>1. Powered /\ (Claim \/ RunJob \/ RunJobFails \/ Finish)
    BY <1>2 DEF Worker
  <2> QED BY <2>1, ClaimStep, RunJobStep, RunJobFailsStep
<1>3. CASE Flush
  BY <1>3, TickStep, FlushStep, ArmStep DEF Flush
<1>4. CASE PersistNow
  <2>1. SaveNow("persist") /\ used' \in Uses /\ used'.syncFails = 0 /\ ~Strands
    <3>1. /\ SaveNow("persist") /\ used' = Saving(Spent("persists"))
          /\ Spent("persists") \in Uses /\ Spent("persists").syncFails = 0
      BY <1>0, <1>4 DEF PersistNow, Spent, Uses, Undisturbed
    <3> QED BY <3>1, SavingUses DEF Undisturbed
  <2> QED BY <2>1, SaveNowStep
<1>5. CASE Reboot
  <2>1. SaveNow("reboot") /\ used' \in Uses /\ used'.syncFails = 0 /\ ~Strands
    <3>1. /\ SaveNow("reboot") /\ used' = Saving(Spent("reboots"))
          /\ Spent("reboots") \in Uses /\ Spent("reboots").syncFails = 0
      BY <1>0, <1>5 DEF Reboot, Spent, Uses, Undisturbed
    <3> QED BY <3>1, SavingUses DEF Undisturbed
  <2>2. MaxWorkerFails = 0
    BY <1>0, <1>5 DEF Reboot, Steady, Uses
  <2> QED BY <2>1, <2>2, SaveNowStep
<1>6. CASE Drain
  <2>1. ~DrainMigrate
    BY <1>0 DEF DrainMigrate, Tasks
  <2>2. ~DrainWriteFails
    <3>1. DrainWriteFails => Spend("syncFails")
      BY DEF DrainWriteFails
    <3>2. ~Spend("syncFails")
      BY <1>0 DEF Spend, Spent, Uses, Undisturbed
    <3> QED BY <3>1, <3>2
  <2>3. ~used'.stray
    BY DEF Undisturbed
  <2> QED BY <1>6, <2>1, <2>2, <2>3, WaitOverStep, WaitTimeoutStep, DrainBuildStep, DrainWriteStep,
             DrainEndStep DEF Drain
<1>7. CASE Remount
  BY <1>0, <1>7 DEF Remount, Spend, Spent, Uses, Undisturbed
<1>8. CASE PowerCut
  BY <1>8, PowerCutStep
<1>9. CASE PowerOn
  BY <1>9, PowerOnStep DEF Undisturbed
<1> QED BY <1>1, <1>2, <1>3, <1>4, <1>5, <1>6, <1>7, <1>8, <1>9 DEF Next

(* A file the invariant speaks of is one the next boot reads.               *)
LEMMA CardRestores ==
  ASSUME HInvariant, SizesAssumption, Powered
  PROVE  \A k, q : q \in LiveSeqs /\ OnCard(files, k, q) => Restores(q)
<1>1. RingInv(ring, latest) /\ FilesInv(ring, latest, files) /\ marker = TRUE
  BY DEF HInvariant, Calm
<1>2. \A q : Restores(q) <=> RestoresOf(files, q)
  BY <1>1 DEF Restores, BootRing, Restored, Loaded, Legible, RestoresOf, RestoredOf, LoadedOf, LegibleOf
<1>3. ASSUME NEW k, NEW q \in LiveSeqs, OnCard(files, k, q) PROVE Restores(q)
  <2>1. q \in Seqs(ring)
    BY DEF LiveSeqs, Seqs, Live
  <2>2. RestoresOf(files, q)
    BY <1>1, <1>3, <2>1, Restoring
  <2> QED BY <1>2, <2>2
<1> QED BY <1>3

(* It implies what the history promises.                                    *)
LEMMA Promises ==
  ASSUME HInvariant, SizesAssumption
  PROVE  WatermarkIsDurable /\ TrustedEntryMatchesFile /\ CutKeepsDurable /\ RebootSavesAll
<1>1. WatermarkIsDurable
  <2> SUFFICES ASSUME Settled, NEW m \in ring, m.live, m.seq <= h.flushed
               PROVE  Awaited(m.seq) \/ Restores(m.seq)
    BY DEF WatermarkIsDurable
  <2>1. Book(LiveSeqs, latest, files, h.table, h.flushed, repair, Ahead) /\ Powered
    BY DEF Settled, HInvariant
  <2>2. m.seq \in LiveSeqs
    BY DEF LiveSeqs, Seqs, Live
  <2>3. PICK k \in DOMAIN h.table :
          /\ m.seq \in k..h.table[k].last
          /\ OnCard(files, k, m.seq)
             \/ (MaxWorkerFails # 0 /\ (h.table[k].dirty \/ h.table[k].open))
    BY <2>1, <2>2 DEF Book, CoverInv
  <2>4. CASE OnCard(files, k, m.seq)
    BY <2>1, <2>2, <2>4, CardRestores
  <2>5. CASE h.table[k].dirty \/ h.table[k].open
    BY <2>3, <2>5 DEF Awaited, Owners, Trusted
  <2> QED BY <2>3, <2>4, <2>5
<1>2. TrustedEntryMatchesFile
  <2> SUFFICES ASSUME Settled, NEW k \in DOMAIN h.table, Trusted(k),
                      k # h.job.first, k # drain.job.first
               PROVE  /\ k \in DOMAIN files
                      /\ files[k].hdr /\ ~files[k].ragged
                      /\ files[k].count = h.table[k].disk
    BY DEF TrustedEntryMatchesFile
  <2>1. Book(LiveSeqs, latest, files, h.table, h.flushed, repair, Ahead)
    BY DEF Settled, HInvariant
  <2>2. k # Ahead
    BY DEF Ahead
  <2>3. Exact(files, k, h.table[k].disk)
    BY <2>1, <2>2 DEF Book, TrustInv, Trusted
  <2> QED BY <2>3 DEF Exact
<1>3. CutKeepsDurable
  <2>1. CASE Powered
    BY <2>1 DEF CutKeepsDurable
  <2>2. CASE ~Powered
    BY <2>2 DEF HInvariant, OffInv
  <2> QED BY <2>1, <2>2
<1>4. RebootSavesAll
  <2>1. CASE Powered
    BY <2>1 DEF RebootSavesAll, Powered
  <2>2. CASE ~Powered
    BY <2>2 DEF HInvariant, OffInv, RebootSavesAll
  <2> QED BY <2>1, <2>2
<1> QED BY <1>1, <1>2, <1>3, <1>4

(* The inductive invariant, through cuts at any step and the boots that     *)
(* follow, until the first remount, failed write of the loop task's, save   *)
(* that strands a file, or boot that finds a split record.                  *)
THEOREM HInvariantHolds ==
  Steady => (Spec => [](Undisturbed => HInvariant))
<1> SUFFICES ASSUME Steady PROVE Spec => [](Undisturbed => HInvariant)
  OBVIOUS
<1> DEFINE I == Tallied(used) /\ (Undisturbed => HInvariant)
<1>1. Init => I
  BY InitHolds, SizesAssumption DEF Init, Tallied, Fields
<1>2. I /\ [Next]_vars => I'
  <2> SUFFICES ASSUME I, [Next]_vars PROVE I'
    OBVIOUS
  <2>1. Tallies(used, used')
    BY UsedStep
  <2>2. Undisturbed' => Undisturbed
    BY <2>1 DEF Undisturbed, Tallies, Tallied
  <2>3. ASSUME Undisturbed' PROVE HInvariant'
    BY <2>2, <2>3, NextStep, RestsHere, SizesAssumption
  <2>4. Tallied(used)'
    BY <2>1 DEF Tallies, Tallied
  <2> QED BY <2>3, <2>4
<1>3. I => (Undisturbed => HInvariant)
  OBVIOUS
<1> HIDE DEF I
<1> QED BY <1>1, <1>2, <1>3, PTL DEF Spec

(* A message the watermark covers is restored by the next boot, or its      *)
(* segment is flagged for the rewrite that saves it (s_seg_flushed_seq).    *)
THEOREM WatermarkHolds ==
  Steady => (Spec => [](Undisturbed => WatermarkIsDurable))
<1> SUFFICES ASSUME Steady PROVE Spec => [](Undisturbed => WatermarkIsDurable)
  OBVIOUS
<1>1. HInvariant => WatermarkIsDurable
  BY Promises, SizesAssumption
<1>2. Spec => [](Undisturbed => HInvariant)
  BY HInvariantHolds
<1> QED BY <1>1, <1>2, PTL

(* An entry no rewrite is due on describes its file: the room an append     *)
(* reckons with is there.                                                   *)
THEOREM TrustHolds ==
  Steady => (Spec => [](Undisturbed => TrustedEntryMatchesFile))
<1> SUFFICES ASSUME Steady PROVE Spec => [](Undisturbed => TrustedEntryMatchesFile)
  OBVIOUS
<1>1. HInvariant => TrustedEntryMatchesFile
  BY Promises, SizesAssumption
<1>2. Spec => [](Undisturbed => HInvariant)
  BY HInvariantHolds
<1> QED BY <1>1, <1>2, PTL

(* A power cut at any step, inside a record too, costs no message the       *)
(* watermark covered but in the segment being replaced (uiSegAppendRecords, *)
(* uiSegCompactWrite), up to the first remount and the rest of Undisturbed. *)
THEOREM CutHolds ==
  Steady => (Spec => [](Undisturbed => CutKeepsDurable))
<1> SUFFICES ASSUME Steady PROVE Spec => [](Undisturbed => CutKeepsDurable)
  OBVIOUS
<1>1. HInvariant => CutKeepsDurable
  BY Promises, SizesAssumption
<1>2. Spec => [](Undisturbed => HInvariant)
  BY HInvariantHolds
<1> QED BY <1>1, <1>2, PTL

(* A reboot that reports no failure has saved every message (rebootDevice). *)
THEOREM RebootHolds ==
  Steady => (Spec => [](Undisturbed => RebootSavesAll))
<1> SUFFICES ASSUME Steady PROVE Spec => [](Undisturbed => RebootSavesAll)
  OBVIOUS
<1>1. HInvariant => RebootSavesAll
  BY Promises, SizesAssumption
<1>2. Spec => [](Undisturbed => HInvariant)
  BY HInvariantHolds
<1> QED BY <1>1, <1>2, PTL

-----------------------------------------------------------------------------
(* The deleted messages.  A message deleted in the ring may stand in a file *)
(* only where something is still due that takes it out: a rewrite that is   *)
(* flagged or under way, or the commit of the append that has just brought  *)
(* it there, which flags one.  A file without entry goes by StrayInv.  The  *)
(* deletes of used.late are left out: the commit forgets their mark.        *)

DeadSeqs  == {m.seq : m \in {x \in ring : ~x.live}} \ used.late
Single(M) == \A x, y \in M : x.seq = y.seq => x = y
Sound(M)  == M \subseteq Records /\ Single(M) /\ \A x \in M : x.live

(* Only live messages are written, and each number once.                    *)
Contents ==
  /\ Single(ring) /\ Sound(h.job.recs) /\ Sound(drain.job.recs)
  /\ \A k \in DOMAIN files : Sound(files[k].recs)

Flagged(t, r, k) == k \in DOMAIN t => t[k].dirty \/ t[k].open \/ k = r
JustAppended(k, q) ==
  Done /\ flushOk /\ h.job.kind = "append" /\ k = h.job.first /\ h.flushed < q
Replacing(k) == drain.pc = "write" /\ k = drain.job.first
GhostInv == \A q \in DeadSeqs, k \in DOMAIN files : OnCard(files, k, q) =>
  Flagged(h.table, repair, k) \/ JustAppended(k, q) \/ Replacing(k)

NoGhosts == \A q \in DeadSeqs, k \in DOMAIN files : ~OnCard(files, k, q)

BuryInv ==
  /\ Contents
  /\ Powered =>
       /\ GhostInv
       /\ h.job.kind = "compact" =>
            \A q \in DeadSeqs \cap Seqs(h.job.recs) : h.redirty \/ h.flushed < q
       /\ DeadSeqs \cap Seqs(drain.job.recs) = {}
       /\ ~h.dirty => h.job.kind = "none" /\ NoGhosts
       /\ drain.pc \in {"build", "write"} /\ drain.left = 0 => repair = 0

-----------------------------------------------------------------------------
(* What the files and the batches hold.                                     *)

(* A part of a sound set is sound; live messages of the ring are.           *)
LEMMA SoundPart ==
  ASSUME NEW M, NEW N, N \subseteq M, 
         Sound(M) \/ (Single(M) /\ M \subseteq Records /\ N \subseteq Live(M))
  PROVE  Sound(N)
BY DEF Sound, Single, Live

(* Each job is made of live messages of the ring.                           *)
LEMMA GatherLive ==
  ASSUME NEW k, NEW hi, NEW b
  PROVE  Compaction(k, hi, b).recs \subseteq Live(ring)
<1>1. Gather(k, hi) \subseteq Live(ring)
  BY DEF Gather, Oldest
<1>2. Compaction(k, hi, b).recs = Gather(k, hi)
  BY DEF Compaction, NoJob
<1> QED BY <1>1, <1>2

(* So is each batch that is built, and its rewrite.                         *)
LEMMA BuildLive ==
  ASSUME NEW s0
  PROVE  /\ Build(s0).job.recs \subseteq Live(ring)
         /\ AsRewrite(Build(s0).job).recs \subseteq Live(ring)
<1> DEFINE s == [s0 EXCEPT !.table = Distrust(@, repair)]
           j == Build(s0).job
<1>1. \A t : \A k : RepairJob(t, k).recs \subseteq Live(ring)
  BY GatherLive DEF RepairJob
<1>2. \A t : \A k : CompactJob(t, k).recs \subseteq Live(ring)
  BY GatherLive DEF CompactJob
<1>3. AppendJob(s).recs \subseteq Live(ring)
  <2>1. Batch(s) \subseteq Live(ring)
    BY DEF Batch, Oldest, Live, Fresh
  <2>2. AppendJob(s).recs = Batch(s)
    BY DEF AppendJob, NoJob
  <2> QED BY <2>1, <2>2
<1>4. NoJob.recs \subseteq Live(ring)
  BY DEF NoJob
<1>5. j.recs \subseteq Live(ring)
  <2>1. \/ \E t, k : j = RepairJob(t, k)
        \/ \E t, k : j = CompactJob(t, k)
        \/ j = AppendJob(s) \/ j = NoJob
    BY DEF Build
  <2> QED BY <1>1, <1>2, <1>3, <1>4, <2>1
<1>6. \A jj : jj.recs \subseteq Live(ring) => AsRewrite(jj).recs \subseteq Live(ring)
  <2> TAKE jj
  <2>1. CASE jj.kind = "append"
    <3>1. Gather(jj.first, jj.last) \subseteq Live(ring)
      BY DEF Gather, Oldest
    <3> QED BY <2>1, <3>1 DEF AsRewrite
  <2>2. CASE jj.kind # "append"
    BY <2>2 DEF AsRewrite
  <2> QED BY <2>1, <2>2
<1> QED BY <1>5, <1>6, Zenon

(* What is written to a file leaves it sound.                               *)
LEMMA WrittenSound ==
  ASSUME \A k \in DOMAIN files : Sound(files[k].recs), NEW j, Sound(j.recs)
  PROVE  /\ \A k \in DOMAIN Rewritten(j) : Sound(Rewritten(j)[k].recs)
         /\ \A n : \A k \in DOMAIN Appended(j, n) : Sound(Appended(j, n)[k].recs)
         /\ \A n : \A k \in DOMAIN Split(j, n) : Sound(Split(j, n)[k].recs)
         /\ \A x : \A k \in DOMAIN Without(files, x) : Sound(Without(files, x)[k].recs)
         /\ \A k \in DOMAIN With(files, j.first, NoFile) :
              Sound(With(files, j.first, NoFile)[k].recs)
<1>1. Sound({})
  BY DEF Sound, Single
<1>2. \A x : \A k \in DOMAIN Without(files, x) : Sound(Without(files, x)[k].recs)
  BY DEF Without
<1>3. \A x, f : Sound(f.recs) => \A k \in DOMAIN With(files, x, f) : Sound(With(files, x, f)[k].recs)
  BY DEF With
<1>4. NoFile.recs = {} /\ \A M : NewFile(M).recs = M
  BY DEF NoFile, NewFile
<1>5. \A f, M : Sound(f.recs) /\ Sound(M) => Sound(Extend(f, M).recs)
  <2> SUFFICES ASSUME NEW f, NEW M, Sound(f.recs), Sound(M) PROVE Sound(Extend(f, M).recs)
    OBVIOUS
  <2> DEFINE A == {m \in M : \A x \in f.recs : x.seq < m.seq}
  <2>1. CASE f.ragged
    BY <2>1 DEF Extend
  <2>2. CASE ~f.ragged
    <3>1. Extend(f, M).recs \subseteq f.recs \cup A
      BY <2>2 DEF Extend
    <3>2. Sound(f.recs \cup A)
      <4>0. f.recs \cup A \subseteq Records
        BY DEF Sound
      <4>1. \A x \in f.recs \cup A : x.live
        BY DEF Sound
      <4>2. ASSUME NEW x \in f.recs \cup A, NEW y \in f.recs \cup A, x.seq = y.seq PROVE x = y
        <5>1. CASE x \in f.recs /\ y \in f.recs
          BY <4>2, <5>1 DEF Sound, Single
        <5>2. CASE x \in A /\ y \in A
          BY <4>2, <5>2 DEF Sound, Single
        <5>3. x.seq \in Nat /\ y.seq \in Nat
          BY <4>0 DEF Records
        <5> QED BY <4>2, <5>1, <5>2, <5>3
      <4> QED BY <4>0, <4>1, <4>2 DEF Sound, Single
    <3> QED BY <3>1, <3>2, SoundPart
  <2> QED BY <2>1, <2>2
<1>6. \A f : f.recs = {} => Sound(f.recs)
  BY <1>1
<1>7. \A n : Sound(Oldest(j.recs, n))
  <2>1. \A n : Oldest(j.recs, n) \subseteq j.recs
    BY DEF Oldest
  <2> QED BY <2>1, SoundPart
<1>8. \A k \in DOMAIN Rewritten(j) : Sound(Rewritten(j)[k].recs)
  <2>1. Sound(NewFile(j.recs).recs)
    BY <1>4
  <2> QED BY <1>2, <1>3, <2>1 DEF Rewritten
<1>9. \A n : \A k \in DOMAIN Appended(j, n) : Sound(Appended(j, n)[k].recs)
  <2> TAKE n
  <2> DEFINE old == IF j.create THEN NewFile({})
                    ELSE IF j.first \in DOMAIN files THEN files[j.first] ELSE NoFile
  <2>1. Sound(old.recs)
    BY <1>1, <1>4
  <2>2. Sound(Extend(old, Oldest(j.recs, n)).recs)
    BY <1>5, <1>7, <2>1
  <2>3. Appended(j, n) = With(files, j.first, Extend(old, Oldest(j.recs, n)))
    BY DEF Appended
  <2> HIDE DEF old
  <2> QED BY <1>3, <2>2, <2>3
<1>10. \A n : \A k \in DOMAIN Split(j, n) : Sound(Split(j, n)[k].recs)
  <2> TAKE n
  <2> DEFINE A == Appended(j, n)
  <2>1. Split(j, n) = [A EXCEPT ![j.first].ragged = TRUE]
    BY DEF Split
  <2>2. \A k \in DOMAIN A : Sound(A[k].recs)
    BY <1>9
  <2> HIDE DEF A
  <2> QED BY <2>1, <2>2
<1> QED BY <1>1, <1>2, <1>3, <1>4, <1>8, <1>9, <1>10

-----------------------------------------------------------------------------
(* The users: a message deleted where it is stored is marked.               *)

(* A number lies in the range of one entry, its owner.                      *)
LEMMA OwnerIs ==
  ASSUME NEW t, DOMAIN t \in SUBSET Nat, \A k, e \in DOMAIN t : k < e => t[k].last < e,
         NEW k \in DOMAIN t, t[k].last \in Nat, NEW q \in Nat, q \in k..t[k].last,
         \A e \in DOMAIN t : t[e].last \in Nat
  PROVE  Owner(t, q) = k
<1>1. \A e \in Owners(t, q) : e = k
  <2> TAKE e \in Owners(t, q)
  <2>1. e \in DOMAIN t /\ e <= q /\ q <= t[e].last /\ k <= q /\ q <= t[k].last
    BY DEF Owners
  <2>2. e \in Nat /\ k \in Nat /\ t[e].last \in Nat
    BY <2>1
  <2>3. ~(e < k) /\ ~(k < e)
    BY <2>1, <2>2
  <2> QED BY <2>2, <2>3
<1>2. k \in Owners(t, q)
  BY DEF Owners
<1>3. Owners(t, q) \in SUBSET Nat
  BY DEF Owners
<1>4. Min(Owners(t, q)) = k
  BY <1>1, <1>2, <1>3, MinOf
<1> QED BY <1>2, <1>4 DEF Owner

(* A live message on the card has its file's entry for owner, ...           *)
LEMMA Homes ==
  ASSUME HInvariant, LoopFree, NEW q \in LiveSeqs, NEW k \in DOMAIN h.table, OnCard(files, k, q)
  PROVE  /\ q <= h.flushed => q \in k..h.table[k].last
         /\ h.flushed < q => Flagged(h.table, repair, k) \/ (Done /\ flushOk /\ k = h.job.first)
<1>1. Powered /\ drain.pc = "idle"
  BY DEF LoopFree, Powered
<1>2. /\ Book(LiveSeqs, latest, files, h.table, h.flushed, repair, Ahead)
      /\ FilesInv(ring, latest, files) /\ RingInv(ring, latest) /\ DrainInv
  BY <1>1 DEF HInvariant
<1>3. /\ TableInv(LiveSeqs, latest, h.table, h.flushed)
      /\ CoverInv(LiveSeqs, files, h.table, h.flushed)
      /\ BelowInv(files, h.table, h.flushed, repair, Ahead) /\ SpanInv(files, h.table)
  BY <1>2 DEF Book
<1>4. PICK m \in files[k].recs : m.seq = q
  BY DEF OnCard, Seqs
<1>5. k \in DOMAIN files /\ k \in 1..latest /\ latest \in Nat /\ k <= q /\ q \in Nat
  <2>1. latest \in Nat /\ q \in Nat
    BY <1>2, LiveNat
  <2>2. k \in DOMAIN files /\ k \in 1..latest
    BY <1>2 DEF OnCard, FilesInv
  <2>3. OneFile(ring, latest, k, files[k])
    BY <1>2, <2>2 DEF FilesInv
  <2> QED BY <1>4, <2>1, <2>2, <2>3 DEF OneFile
<1>6. ASSUME q <= h.flushed PROVE q \in k..h.table[k].last
  <2>1. PICK e \in DOMAIN h.table : q \in e..h.table[e].last
    BY <1>3, <1>6 DEF CoverInv
  <2>2. e \in 1..latest /\ h.table[e].last \in Nat
    BY <1>3, <2>1 DEF TableInv, Entries
  <2>3. ~(e < k)
    <3>1. e < k => h.table[e].last < k
      BY <1>3, <2>1 DEF TableInv
    <3> QED BY <1>5, <2>1, <2>2, <3>1
  <2>4. ~(k < e)
    <3>1. k < e => m.seq < e
      BY <1>3, <1>4, <1>5, <2>1 DEF SpanInv
    <3> QED BY <1>4, <1>5, <2>1, <2>2, <3>1
  <2>5. e = k
    BY <1>5, <2>2, <2>3, <2>4
  <2> QED BY <2>1, <2>5
<1>7. ASSUME h.flushed < q PROVE Flagged(h.table, repair, k) \/ (Done /\ flushOk /\ k = h.job.first)
  <2>1. h.flushed \in Nat
    BY <1>3, <1>5 DEF TableInv
  <2>2. CASE k = Ahead
    <3>1. drain.job.first = 0
      BY <1>1, <1>2 DEF DrainInv, NoJob
    <3> QED BY <1>5, <2>2, <3>1 DEF Ahead
  <2>3. CASE k # Ahead
    <3>1. ~h.table[k].open /\ k # repair => m.seq <= h.flushed
      BY <1>3, <1>4, <1>5, <2>3 DEF BelowInv
    <3> QED BY <1>4, <1>5, <1>7, <2>1, <3>1 DEF Flagged
  <2> QED BY <2>2, <2>3
<1> QED BY <1>6, <1>7

(* ... and one in a rewrite the entry that is rewritten.                    *)
LEMMA JobHome ==
  ASSUME HInvariant, Powered, h.job.kind = "compact", NEW q \in LiveSeqs, q \in Seqs(h.job.recs),
         q <= h.flushed
  PROVE  h.job.first \in DOMAIN h.table /\ q \in h.job.first..h.table[h.job.first].last
<1> DEFINE j == h.job
<1>1. /\ Book(LiveSeqs, latest, files, h.table, h.flushed, repair, Ahead)
      /\ RingInv(ring, latest) /\ JobInv
  BY DEF HInvariant
<1>2. /\ TableInv(LiveSeqs, latest, h.table, h.flushed)
      /\ CoverInv(LiveSeqs, files, h.table, h.flushed)
  BY <1>1 DEF Book
<1>3. Shape(ring, latest, j) /\ Plan(LiveSeqs, h.table, h.flushed, j)
  BY <1>1 DEF JobInv
<1>4. RewritePlan(LiveSeqs, h.table, h.flushed, j)
  BY <1>3 DEF Plan, AppendPlan
<1>5. q \in Nat /\ latest \in Nat /\ q \in j.first..j.last /\ j.first \in Nat /\ j.last \in Nat
  <2>1. q \in Nat /\ latest \in Nat
    BY <1>1, LiveNat
  <2>2. j \in Jobs /\ \A x \in j.recs : x.seq \in j.first..j.last
    BY <1>3 DEF Shape
  <2> QED BY <2>1, <2>2 DEF Seqs, Jobs
<1>6. PICK e \in DOMAIN h.table : q \in e..h.table[e].last
  BY <1>2 DEF CoverInv
<1>7. e \in 1..latest /\ h.table[e].last \in Nat /\ j.first \in DOMAIN h.table
  BY <1>2, <1>4, <1>6 DEF TableInv, Entries, RewritePlan
<1>8. ~(e < j.first)
  <2>1. e < j.first => h.table[e].last < j.first
    BY <1>2, <1>6, <1>7 DEF TableInv
  <2> QED BY <1>5, <1>6, <1>7, <2>1
<1>9. ~(j.first < e)
  <2>1. j.first < e => j.last < e
    BY <1>4, <1>6 DEF RewritePlan
  <2> QED BY <1>5, <1>6, <1>7, <2>1
<1>10. e = j.first
  BY <1>5, <1>7, <1>8, <1>9
<1> QED BY <1>6, <1>7, <1>10

(* A message is marked where it is stored.                                  *)
Marks(q) ==
  /\ q \in LiveSeqs
  /\ q <= h.flushed => \A k \in DOMAIN h.table : q \in k..h.table[k].last =>
       /\ h'.table[k].dirty
       /\ h.job.kind = "compact" /\ h.job.first = k /\ q \in Seqs(h.job.recs) => h'.redirty

(* What a user does keeps the invariant, if what is deleted is marked.      *)
LEMMA UserBuries ==
  ASSUME HInvariant, BuryInv, LoopFree, Single(ring'), Raised(h.table, h'.table),
         h'.flushed = h.flushed, h'.job = h.job, h'.dirty, h.redirty => h'.redirty,
         UNCHANGED <<task, drain, disk>>, \A q \in DeadSeqs' : q \in DeadSeqs \/ Marks(q)
  PROVE  BuryInv'
<1>1. /\ worker' = worker /\ flushOk' = flushOk /\ repair' = repair
      /\ drain' = drain /\ files' = files
  BY DEF task, disk
<1>2. Powered /\ drain.pc = "idle" /\ Powered' /\ drain'.pc = "idle"
  BY <1>1 DEF LoopFree, Powered
<1>3. /\ RingInv(ring, latest) /\ DrainInv /\ h.flushed \in Nat
      /\ Book(LiveSeqs, latest, files, h.table, h.flushed, repair, Ahead)
  BY <1>2 DEF HInvariant, Calm, Tasks
<1>4. Contents'
  BY <1>1 DEF BuryInv, Contents
<1>5. LiveSeqs \subseteq Nat
  BY <1>3, LiveNat
<1>6. \A k : Flagged(h.table, repair, k) => Flagged(h'.table, repair', k)
  <2>1. DOMAIN h'.table = DOMAIN h.table
    BY DEF Raised
  <2> QED BY <1>1, <2>1 DEF Flagged, Raised
<1>7. Done' = Done
  BY <1>1 DEF Done
<1>8. ASSUME NEW q \in DeadSeqs', NEW k \in DOMAIN files, OnCard(files, k, q)
      PROVE  Flagged(h'.table, repair', k) \/ JustAppended(k, q)'
  <2>1. JustAppended(k, q) => JustAppended(k, q)'
    BY <1>1, <1>7 DEF JustAppended
  <2>2. CASE q \in DeadSeqs
    <3>1. Flagged(h.table, repair, k) \/ JustAppended(k, q) \/ Replacing(k)
      BY <1>2, <1>8, <2>2 DEF BuryInv, GhostInv
    <3>2. ~Replacing(k)
      BY <1>2 DEF Replacing
    <3> QED BY <1>6, <2>1, <3>1, <3>2
  <2>3. CASE Marks(q)
    <3>0. DOMAIN h'.table = DOMAIN h.table
      BY DEF Raised
    <3>1. CASE k \notin DOMAIN h.table
      BY <3>0, <3>1 DEF Flagged
    <3>2. CASE k \in DOMAIN h.table /\ q <= h.flushed
      <4>1. q \in k..h.table[k].last
        BY <1>8, <2>3, <3>2, Homes DEF Marks
      <4>2. h'.table[k].dirty
        BY <2>3, <3>2, <4>1 DEF Marks
      <4> QED BY <4>2 DEF Flagged
    <3>3. CASE k \in DOMAIN h.table /\ h.flushed < q
      <4>1. Flagged(h.table, repair, k) \/ (Done /\ flushOk /\ k = h.job.first)
        BY <1>8, <2>3, <3>3, Homes DEF Marks
      <4>2. CASE Flagged(h.table, repair, k)
        BY <1>6, <4>2
      <4>3. CASE Done /\ flushOk /\ k = h.job.first
        <5>1. CASE h.job.kind = "append"
          <6>1. JustAppended(k, q)
            BY <3>3, <4>3, <5>1 DEF JustAppended
          <6> QED BY <2>1, <6>1
        <5>2. CASE h.job.kind # "append"
          <6>1. h.job.kind # "none" /\ JobInv
            BY <1>2, <4>3 DEF Done, HInvariant
          <6>2. Plan(LiveSeqs, h.table, h.flushed, h.job)
            BY <6>1 DEF JobInv
          <6>3. h.table[k].dirty \/ h.table[k].open
            BY <4>3, <5>2, <6>2 DEF Plan, AppendPlan
          <6>4. Flagged(h.table, repair, k)
            BY <6>3 DEF Flagged
          <6> QED BY <1>6, <6>4
        <5> QED BY <5>1, <5>2
      <4> QED BY <4>1, <4>2, <4>3
    <3>4. q \in Nat
      BY <1>5, <2>3 DEF Marks
    <3> QED BY <1>3, <3>1, <3>2, <3>3, <3>4
  <2> QED BY <2>2, <2>3
<1>9. GhostInv'
  <2> SUFFICES ASSUME NEW q \in DeadSeqs', NEW k \in DOMAIN files', OnCard(files', k, q)
               PROVE  Flagged(h'.table, repair', k) \/ JustAppended(k, q)' \/ Replacing(k)'
    BY DEF GhostInv
  <2> QED BY <1>1, <1>8
<1>10. ASSUME h'.job.kind = "compact", NEW q \in DeadSeqs' \cap Seqs(h'.job.recs)
       PROVE  h'.redirty \/ h'.flushed < q
  <2>0. h.job.kind = "compact" /\ q \in Seqs(h.job.recs)
    BY <1>10
  <2>1. CASE q \in DeadSeqs
    BY <1>2, <2>0, <2>1 DEF BuryInv
  <2>2. CASE Marks(q)
    <3>1. q \in Nat
      BY <1>5, <2>2 DEF Marks
    <3>2. ASSUME q <= h.flushed PROVE h'.redirty
      <4>1. h.job.first \in DOMAIN h.table /\ q \in h.job.first..h.table[h.job.first].last
        BY <1>2, <2>0, <2>2, <3>2, JobHome DEF Marks
      <4> QED BY <2>0, <2>2, <3>2, <4>1 DEF Marks
    <3> QED BY <1>3, <3>1, <3>2
  <2> QED BY <2>1, <2>2
<1>11. DeadSeqs' \cap Seqs(drain'.job.recs) = {}
  <2>1. drain.job = NoJob
    BY <1>2, <1>3 DEF DrainInv
  <2> QED BY <1>1, <2>1 DEF NoJob, Seqs
<1> QED BY <1>2, <1>4, <1>9, <1>10, <1>11 DEF BuryInv

(* A mark is made where it must be.                                         *)
LEMMA MarkedFor ==
  ASSUME HInvariant, LoopFree, NEW s \in Tasks, Raised(h.table, s.table), s.flushed = h.flushed,
         s.job = h.job, NEW q \in LiveSeqs, h' = [MarkDirty(s, q) EXCEPT !.dirty = TRUE]
  PROVE  /\ s.redirty => h'.redirty
         /\ ~(h.job.kind = "compact" /\ worker = "idle" /\ q \in Seqs(h.job.recs)) => Marks(q)
<1>1. /\ Book(LiveSeqs, latest, files, h.table, h.flushed, repair, Ahead)
      /\ RingInv(ring, latest)
  BY DEF HInvariant, LoopFree, Powered
<1>2. TableInv(LiveSeqs, latest, h.table, h.flushed)
  BY <1>1 DEF Book
<1>3. q \in Nat /\ latest \in Nat /\ s.flushed \in Nat
  BY <1>1, LiveNat DEF Tasks
<1>4. /\ DOMAIN s.table = DOMAIN h.table /\ \A k \in DOMAIN h.table : s.table[k].last = h.table[k].last
      /\ s.table \in [DOMAIN h.table -> Entries]
  BY DEF Raised
<1>5. /\ DOMAIN s.table \in SUBSET Nat /\ \A k \in DOMAIN s.table : s.table[k].last \in Nat
      /\ \A k, e \in DOMAIN s.table : k < e => s.table[k].last < e
  BY <1>2, <1>3, <1>4 DEF TableInv, Entries
<1> DEFINE o  == Owner(s.table, q)
           re == s.redirty \/ (s.job.kind = "compact" /\ s.job.first = o /\ worker # "idle")
           t2 == [s.table EXCEPT ![o].dirty = TRUE]
           d  == MarkDirty(s, q)
<1>6. d = IF q > s.flushed \/ o = 0 THEN s ELSE [s EXCEPT !.table = t2, !.redirty = re]
  BY DEF MarkDirty
<1>7. d \in Tasks
  BY MarkDirtyRaises
<1>8. h'.table = d.table /\ h'.redirty = d.redirty
  <2>1. h' = [d EXCEPT !.dirty = TRUE]
    OBVIOUS
  <2> HIDE DEF d
  <2> QED BY <1>7, <2>1 DEF Tasks
<1> HIDE DEF d
<1>9. s.redirty => d.redirty
  BY <1>6 DEF Tasks
<1>10. ASSUME q <= h.flushed, NEW k \in DOMAIN h.table, q \in k..h.table[k].last
       PROVE  /\ d.table[k].dirty
              /\ h.job.kind = "compact" /\ worker # "idle" /\ h.job.first = k => d.redirty
  <2>1. o = k
    BY <1>3, <1>4, <1>5, <1>10, OwnerIs
  <2>2. k # 0
    BY <1>2, <1>3, <1>10 DEF TableInv
  <2> HIDE DEF o
  <2>3. d = [s EXCEPT !.table = t2, !.redirty = re]
    BY <1>3, <1>6, <1>10, <2>1, <2>2
  <2>4. d.table = t2 /\ d.redirty = re
    BY <2>3 DEF Tasks
  <2>5. t2[k].dirty
    BY <1>4, <1>10, <2>1 DEF Entries
  <2> QED BY <2>1, <2>4, <2>5
<1>11. ~(h.job.kind = "compact" /\ worker = "idle" /\ q \in Seqs(h.job.recs)) => Marks(q)
  BY <1>8, <1>10 DEF Marks
<1> QED BY <1>8, <1>9, <1>11

(* A deletion swaps one record for its tombstone.                           *)
LEMMA SwapDead ==
  ASSUME NEW R, Single(R), NEW m \in R, NEW x, x.seq = m.seq
  PROVE  /\ Single(Swap(R, m, x))
         /\ x.live = m.live => {y.seq : y \in {z \in Swap(R, m, x) : ~z.live}}
                                 \subseteq {y.seq : y \in {z \in R : ~z.live}}
         /\ {y.seq : y \in {z \in Swap(R, m, x) : ~z.live}}
              \subseteq {y.seq : y \in {z \in R : ~z.live}} \cup {m.seq}
BY DEF Swap, Single

(* A delete marks what it deletes.                                          *)
LEMMA DeleteBuries ==
  ASSUME HInvariant, BuryInv, NEW m \in ring, Delete(m)
  PROVE  BuryInv'
<1> DEFINE x == [m EXCEPT !.live = FALSE]
<1>1. RingInv(ring, latest) /\ h \in Tasks /\ used \in Uses /\ m \in Records /\ Single(ring)
  BY DEF HInvariant, Calm, RingInv, BuryInv, Contents
<1>2. /\ LoopFree /\ ring' = Swap(ring, m, x) /\ m.live
      /\ h' = [MarkDirty(h, m.seq) EXCEPT !.dirty = TRUE]
      /\ used' = Deleting(m) /\ UNCHANGED <<task, drain, disk>>
  BY DEF Delete
<1>3. x.seq = m.seq /\ m.seq \in Nat
  BY <1>1 DEF Records
<1> HIDE DEF x
<1>4. used.late \subseteq used'.late /\ (TooLate(m) => m.seq \in used'.late)
  BY <1>1, <1>2, <1>3, DeletingUses
<1>5. m.seq \in LiveSeqs
  BY <1>2 DEF LiveSeqs, Live, Seqs
<1>6. Raised(h.table, h.table)
  BY <1>1, NotRaised DEF Tasks
<1>7. (~TooLate(m) => Marks(m.seq)) /\ (h.redirty => h'.redirty)
  BY <1>1, <1>2, <1>5, <1>6, MarkedFor DEF TooLate
<1>8. Single(ring') /\ \A q \in DeadSeqs' : q \in DeadSeqs \/ Marks(q)
  BY <1>1, <1>2, <1>3, <1>4, <1>7, SwapDead DEF DeadSeqs
<1> DEFINE s == MarkDirty(h, m.seq)
<1>9. s \in Tasks /\ Raised(h.table, s.table) /\ s.flushed = h.flushed /\ s.job = h.job
  BY <1>1, MarkDirtyRaises
<1>10. h' = [s EXCEPT !.dirty = TRUE]
  BY <1>2
<1> HIDE DEF s
<1>11. h'.table = s.table /\ h'.flushed = s.flushed /\ h'.job = s.job /\ h'.dirty
  BY <1>9, <1>10 DEF Tasks
<1> QED BY <1>2, <1>7, <1>8, <1>9, <1>11, UserBuries

(* An acknowledgement deletes nothing.                                      *)
LEMMA AcknowledgeBuries ==
  ASSUME HInvariant, BuryInv, NEW m \in ring, Acknowledge(m)
  PROVE  BuryInv'
<1> DEFINE x == [m EXCEPT !.acked = TRUE]
<1>1. RingInv(ring, latest) /\ h \in Tasks /\ used \in Uses /\ m \in Records /\ Single(ring)
  BY DEF HInvariant, Calm, RingInv, BuryInv, Contents
<1>2. /\ LoopFree /\ ring' = Swap(ring, m, x)
      /\ h' = [MarkDirty(h, m.seq) EXCEPT !.dirty = TRUE] /\ UNCHANGED <<task, drain, disk>>
      /\ used'.late = used.late
  BY <1>1 DEF Acknowledge, Spend, Spent, Uses
<1>3. x.seq = m.seq /\ x.live = m.live
  BY <1>1 DEF Records
<1> HIDE DEF x
<1>4. Single(ring') /\ \A q \in DeadSeqs' : q \in DeadSeqs
  BY <1>1, <1>2, <1>3, SwapDead DEF DeadSeqs
<1> DEFINE s == MarkDirty(h, m.seq)
<1>5. s \in Tasks /\ Raised(h.table, s.table) /\ s.flushed = h.flushed /\ s.job = h.job
  BY <1>1, MarkDirtyRaises
<1>6. h.redirty => s.redirty
  BY <1>1 DEF MarkDirty, Tasks
<1>7. h' = [s EXCEPT !.dirty = TRUE]
  BY <1>2
<1> HIDE DEF s
<1>8. h'.table = s.table /\ h'.flushed = s.flushed /\ h'.job = s.job /\ h'.dirty
      /\ (h.redirty => h'.redirty)
  BY <1>5, <1>6, <1>7 DEF Tasks
<1> QED BY <1>2, <1>4, <1>5, <1>8, UserBuries

(* So does a message that arrives, whether its chat is trimmed or not.      *)
LEMMA ReceiveBuries ==
  ASSUME HInvariant, BuryInv, SizesAssumption, Receive
  PROVE  BuryInv'
<1> DEFINE new == [seq |-> latest + 1, live |-> TRUE, acked |-> FALSE]
<1>1. /\ RingInv(ring, latest) /\ h \in Tasks /\ used \in Uses /\ Single(ring)
      /\ latest \in Nat
  BY DEF HInvariant, Calm, RingInv, BuryInv, Contents
<1>2. LoopFree /\ latest' = latest + 1 /\ UNCHANGED <<task, drain, disk>>
  BY DEF Receive
<1>3. /\ Noted \in Tasks /\ Raised(h.table, Noted.table)
      /\ Noted.flushed = h.flushed /\ Noted.job = h.job
  BY <1>1, NotedRaises
<1>4. Noted.redirty = h.redirty
  BY <1>1 DEF Noted, Tasks
<1>5. Received \subseteq ring \cup {new}
  BY DEF Received, Newest
<1>6. Single(Received)
  <2> SUFFICES ASSUME NEW x \in Received, NEW y \in Received, x.seq = y.seq PROVE x = y
    BY DEF Single
  <2>1. \A z \in ring : z.seq \in Nat /\ z.seq <= latest
    BY <1>1 DEF RingInv, Records
  <2>2. \A z \in ring : z.seq # new.seq
    BY <1>1, <2>1
  <2> HIDE DEF new
  <2> QED BY <1>1, <1>5, <2>2 DEF Single
<1>7. {y.seq : y \in {z \in Received : ~z.live}} \subseteq DeadSeqs \cup used.late
  BY <1>5 DEF DeadSeqs
<1>8. CASE ring' = Received /\ h' = [Noted EXCEPT !.dirty = TRUE] /\ used' = used
  <2>1. /\ h'.table = Noted.table /\ h'.flushed = Noted.flushed
        /\ h'.job = Noted.job /\ h'.dirty /\ h'.redirty = Noted.redirty
    BY <1>3, <1>8 DEF Tasks
  <2>2. \A q \in DeadSeqs' : q \in DeadSeqs
    BY <1>7, <1>8 DEF DeadSeqs
  <2> QED BY <1>2, <1>3, <1>4, <1>6, <1>8, <2>1, <2>2, UserBuries
<1>9. ASSUME NEW m \in Live(Received), m.seq <= latest, used' = Deleting(m),
             ring' = Swap(Received, m, [m EXCEPT !.live = FALSE]),
             h' = [MarkDirty(Noted, m.seq) EXCEPT !.dirty = TRUE]
      PROVE  BuryInv'
  <2> DEFINE x == [m EXCEPT !.live = FALSE]
             s == MarkDirty(Noted, m.seq)
  <2>1. m \in ring /\ m.live /\ m \in Received /\ m \in Records
    <3>1. m \in Received /\ m.live
      BY DEF Live
    <3>2. m # new
      BY <1>1, <1>9
    <3> HIDE DEF new
    <3> QED BY <1>1, <1>5, <3>1, <3>2 DEF RingInv
  <2>2. x.seq = m.seq /\ m.seq \in Nat /\ ring' = Swap(Received, m, x)
    BY <1>9, <2>1 DEF Records
  <2> HIDE DEF x
  <2>3. used.late \subseteq used'.late /\ (TooLate(m) => m.seq \in used'.late)
    BY <1>1, <1>9, <2>2, DeletingUses
  <2>4. m.seq \in LiveSeqs
    BY <2>1 DEF LiveSeqs, Live, Seqs
  <2>5. (~TooLate(m) => Marks(m.seq)) /\ (Noted.redirty => h'.redirty)
    BY <1>2, <1>3, <1>9, <2>4, MarkedFor DEF TooLate
  <2>6. Single(ring') /\ \A q \in DeadSeqs' : q \in DeadSeqs \/ Marks(q)
    BY <1>6, <1>7, <2>1, <2>2, <2>3, <2>5, SwapDead DEF DeadSeqs
  <2>7. s \in Tasks /\ Raised(Noted.table, s.table) /\ s.flushed = Noted.flushed /\ s.job = Noted.job
    BY <1>3, MarkDirtyRaises
  <2>8. h' = [s EXCEPT !.dirty = TRUE]
    BY <1>9
  <2> HIDE DEF s
  <2>9. h'.table = s.table /\ h'.flushed = s.flushed /\ h'.job = s.job /\ h'.dirty
    BY <2>7, <2>8 DEF Tasks
  <2>10. Raised(h.table, h'.table)
    BY <1>3, <2>7, <2>9, RaisedTwice
  <2> QED BY <1>2, <1>3, <1>4, <2>5, <2>6, <2>7, <2>9, <2>10, UserBuries
<1> QED BY <1>8, <1>9 DEF Receive

-----------------------------------------------------------------------------
(* The worker: what it brings to the card.                                  *)

(* A write brings to its file what the job holds, and nowhere else anything.*)
LEMMA Brings ==
  ASSUME NEW j, NEW k, NEW q
  PROVE  /\ OnCard(Rewritten(j), k, q) =>
              IF k = j.first THEN q \in Seqs(j.recs) ELSE OnCard(files, k, q)
         /\ \A n : OnCard(Appended(j, n), k, q) =>
              OnCard(files, k, q) \/ (k = j.first /\ q \in Seqs(j.recs))
         /\ \A n : OnCard(Split(j, n), k, q) =>
              OnCard(files, k, q) \/ (k = j.first /\ q \in Seqs(j.recs))
         /\ \A x : OnCard(Without(files, x), k, q) => k # x /\ OnCard(files, k, q)
<1>1. \A x : OnCard(Without(files, x), k, q) => k # x /\ OnCard(files, k, q)
  BY DEF Without, OnCard
<1>2. OnCard(Rewritten(j), k, q) =>
              IF k = j.first THEN q \in Seqs(j.recs) ELSE OnCard(files, k, q)
  <2>1. CASE j.recs = {}
    BY <1>1, <2>1 DEF Rewritten
  <2>2. CASE j.recs # {}
    BY <2>2 DEF Rewritten, With, NewFile, OnCard
  <2> QED BY <2>1, <2>2
<1>3. \A n : OnCard(Appended(j, n), k, q) =>
              OnCard(files, k, q) \/ (k = j.first /\ q \in Seqs(j.recs))
  <2> SUFFICES ASSUME NEW n, OnCard(Appended(j, n), k, q)
               PROVE  OnCard(files, k, q) \/ (k = j.first /\ q \in Seqs(j.recs))
    OBVIOUS
  <2> DEFINE old == IF j.create THEN NewFile({})
                    ELSE IF j.first \in DOMAIN files THEN files[j.first] ELSE NoFile
             new == Extend(old, Oldest(j.recs, n))
  <2>1. Appended(j, n) = With(files, j.first, new)
    BY DEF Appended
  <2>2. CASE k # j.first
    <3> HIDE DEF new
    <3> QED BY <2>1, <2>2 DEF With, OnCard
  <2>3. CASE k = j.first
    <3>1. new.hdr /\ q \in Seqs(new.recs)
      <4> HIDE DEF new
      <4> QED BY <2>1, <2>3 DEF With, OnCard
    <3>2. \A o : (o = NewFile({}) \/ o = NoFile) => o.recs = {} /\ Extend(o, Oldest(j.recs, n)).recs \subseteq j.recs
      <4>1. \A o : (o = NewFile({}) \/ o = NoFile) => o.recs = {} /\ ~o.ragged
        BY DEF NewFile, NoFile
      <4>2. \A o : o = [hdr |-> o.hdr, recs |-> o.recs, count |-> o.count, ragged |-> o.ragged] /\ ~o.ragged
               => Extend(o, Oldest(j.recs, n)).recs \subseteq o.recs \cup j.recs
        BY DEF Extend, Oldest
      <4>3. \A o : (o = NewFile({}) \/ o = NoFile) =>
               o = [hdr |-> o.hdr, recs |-> o.recs, count |-> o.count, ragged |-> o.ragged]
        BY DEF NewFile, NoFile
      <4> QED BY <4>1, <4>2, <4>3
    <3>3. CASE j.create
      <4>1. new.recs \subseteq j.recs
        BY <3>2, <3>3
      <4> QED BY <2>3, <3>1, <4>1 DEF Seqs
    <3>4. CASE ~j.create /\ j.first \notin DOMAIN files
      <4>1. new.recs \subseteq j.recs
        BY <3>2, <3>4
      <4> QED BY <2>3, <3>1, <4>1 DEF Seqs
    <3>5. CASE ~j.create /\ j.first \in DOMAIN files
      <4> DEFINE f == files[j.first]
      <4>1. new = Extend(f, Oldest(j.recs, n))
        BY <3>5
      <4>2. CASE f.ragged
        BY <2>3, <3>1, <3>5, <4>1, <4>2 DEF Extend, OnCard
      <4>3. CASE ~f.ragged
        <5> DEFINE A == {m \in Oldest(j.recs, n) : \A x \in f.recs : x.seq < m.seq}
        <5>1. new = [f EXCEPT !.recs = @ \cup A, !.count = @ + Count(Oldest(j.recs, n))]
          BY <4>1, <4>3 DEF Extend
        <5>2. A \subseteq j.recs
          BY DEF Oldest
        <5> HIDE DEF A, f, new
        <5>3. f.hdr /\ q \in Seqs(f.recs \cup A)
          BY <3>1, <5>1 DEF Seqs
        <5> QED BY <2>3, <3>5, <5>2, <5>3 DEF OnCard, Seqs, f
      <4> QED BY <4>2, <4>3
    <3> QED BY <3>3, <3>4, <3>5
  <2> QED BY <2>2, <2>3
<1>4. \A n : OnCard(Split(j, n), k, q) => OnCard(Appended(j, n), k, q)
  <2> SUFFICES ASSUME NEW n, OnCard(Split(j, n), k, q) PROVE OnCard(Appended(j, n), k, q)
    OBVIOUS
  <2> DEFINE A == Appended(j, n)
  <2>1. Split(j, n) = [A EXCEPT ![j.first].ragged = TRUE]
    BY DEF Split
  <2> HIDE DEF A
  <2>2. k \in DOMAIN A /\ Split(j, n)[k].hdr /\ q \in Seqs(Split(j, n)[k].recs)
    BY <2>1 DEF OnCard
  <2>3. A[k].hdr
    BY <2>1, <2>2
  <2>4. Split(j, n)[k].recs = A[k].recs
    BY <2>1, <2>2
  <2> QED BY <2>2, <2>3, <2>4 DEF OnCard, A
<1> QED BY <1>1, <1>2, <1>3, <1>4

(* No segment is named 0, which stands for none.                            *)
LEMMA KeysAreNot0 == HInvariant /\ Powered => 0 \notin DOMAIN h.table
BY DEF HInvariant, Book, TableInv

(* The steps of the worker keep the invariant.                              *)
LEMMA WorkBuries ==
  ASSUME HInvariant, BuryInv, Powered, worker \in {"queued", "running"},
         UNCHANGED <<ring, latest, h, drain>>, used'.late = used.late,
         \A k \in DOMAIN files' : Sound(files'[k].recs),
         \A q \in DeadSeqs, k \in DOMAIN files' : OnCard(files', k, q) =>
           Flagged(h.table, repair', k) \/ JustAppended(k, q)'
  PROVE  BuryInv'
<1>1. /\ h.job.kind # "none" /\ drain.pc \notin {"build", "write"}
  BY AtWork
<1>2. DeadSeqs' = DeadSeqs /\ Powered'
  BY DEF DeadSeqs, Powered
<1>3. Contents'
  BY DEF BuryInv, Contents
<1>4. GhostInv'
  BY <1>2 DEF GhostInv
<1> QED BY <1>1, <1>2, <1>3, <1>4 DEF BuryInv

(* Before the write every deleted message on the card is flagged.           *)
LEMMA BeforeWrite ==
  ASSUME HInvariant, BuryInv, Powered, worker \in {"queued", "running"}
  PROVE  /\ \A q \in DeadSeqs : \A k : OnCard(files, k, q) => Flagged(h.table, 0, k)
         /\ Sound(h.job.recs) /\ \A k \in DOMAIN files : Sound(files[k].recs)
<1>1. repair = 0 /\ drain.pc \notin {"build", "write"}
  BY AtWork
<1>2. ~Done
  BY DEF Done
<1>3. \A k, q : ~JustAppended(k, q) /\ ~Replacing(k)
  BY <1>1, <1>2 DEF JustAppended, Replacing
<1>4. GhostInv /\ Contents
  BY DEF BuryInv
<1>5. \A q \in DeadSeqs : \A k : OnCard(files, k, q) => Flagged(h.table, 0, k)
  BY <1>1, <1>3, <1>4 DEF GhostInv, OnCard
<1> QED BY <1>4, <1>5 DEF Contents

(* A claim writes nothing yet.                                              *)
LEMMA ClaimBuries ==
  ASSUME HInvariant, BuryInv, Powered, Claim
  PROVE  BuryInv'
<1>1. /\ worker = "queued" /\ UNCHANGED <<ring, latest, h, drain, repair, files, used>>
  BY DEF Claim, ram, disk
<1>2. repair = 0
  BY <1>1, AtWork
<1> QED BY <1>1, <1>2, BeforeWrite, WorkBuries

(* Publishing Idle writes no more.                                          *)
LEMMA FinishBuries ==
  ASSUME HInvariant, BuryInv, Powered, Finish
  PROVE  BuryInv'
<1>1. /\ worker = "finishing" /\ worker' = "idle"
      /\ UNCHANGED <<ring, latest, h, drain, flushOk, repair, files, used>>
  BY DEF Finish, ram, disk
<1>2. DeadSeqs' = DeadSeqs /\ Powered' /\ Done' = Done
  BY <1>1 DEF DeadSeqs, Powered, Done
<1>3. Contents'
  BY <1>1 DEF BuryInv, Contents
<1>4. GhostInv'
  BY <1>1, <1>2 DEF BuryInv, GhostInv, JustAppended, Replacing
<1>5. NoGhosts' = NoGhosts
  BY <1>1, <1>2 DEF NoGhosts
<1> QED BY <1>1, <1>2, <1>3, <1>4, <1>5 DEF BuryInv

(* A write brings nothing deleted to the card but what its commit marks.    *)
LEMMA RunJobBuries ==
  ASSUME HInvariant, BuryInv, Powered, RunJob
  PROVE  BuryInv'
<1> DEFINE j == h.job
<1>1. /\ worker = "running" /\ worker' = "finishing" /\ flushOk' = TRUE /\ files' = Written(j)
      /\ UNCHANGED <<ring, latest, h, drain, repair, used>>
  BY DEF RunJob, ram
<1>2. /\ repair = 0 /\ h.job.kind # "none" /\ Plan(LiveSeqs, h.table, h.flushed, j)
  BY <1>1, AtWork
<1>3. /\ \A q \in DeadSeqs : \A k : OnCard(files, k, q) => Flagged(h.table, 0, k)
      /\ Sound(j.recs) /\ \A k \in DOMAIN files : Sound(files[k].recs)
  BY <1>1, BeforeWrite
<1>4. \A k \in DOMAIN files' : Sound(files'[k].recs)
  BY <1>1, <1>3, WrittenSound DEF Written
<1>5. ASSUME NEW q \in DeadSeqs, NEW k \in DOMAIN files', OnCard(files', k, q)
      PROVE  Flagged(h.table, repair', k) \/ JustAppended(k, q)'
  <2>1. CASE OnCard(files, k, q)
    BY <1>1, <1>2, <1>3, <2>1
  <2>2. CASE ~OnCard(files, k, q)
    <3>1. k = j.first /\ q \in Seqs(j.recs)
      BY <1>1, <1>5, <2>2, Brings DEF Written
    <3>2. CASE AppendPlan(LiveSeqs, h.table, h.flushed, j)
      <4>1. h.flushed < q /\ j.kind = "append"
        BY <3>1, <3>2 DEF AppendPlan, Seqs
      <4>2. Done'
        BY <1>1, <1>2 DEF Done
      <4> QED BY <1>1, <3>1, <4>1, <4>2 DEF JustAppended
    <3>3. CASE ~AppendPlan(LiveSeqs, h.table, h.flushed, j)
      <4>1. h.table[k].dirty \/ h.table[k].open
        BY <1>2, <3>1, <3>3 DEF Plan
      <4> QED BY <4>1 DEF Flagged
    <3> QED BY <3>2, <3>3
  <2> QED BY <2>1, <2>2
<1> QED BY <1>1, <1>4, <1>5, WorkBuries

(* A write that fails owes the repair of all it brought.                    *)
LEMMA RunJobFailsBuries ==
  ASSUME HInvariant, BuryInv, Powered, RunJobFails
  PROVE  BuryInv'
<1> DEFINE j == h.job
<1>1. worker = "running" /\ UNCHANGED <<ring, latest, h, drain>> /\ used'.late = used.late
  <2>1. used \in Uses
    BY DEF HInvariant, Calm
  <2> QED BY <2>1 DEF RunJobFails, ram, Spend, Spent, Uses
<1>2. repair = 0
  BY <1>1, AtWork
<1>3. /\ \A q \in DeadSeqs : \A k : OnCard(files, k, q) => Flagged(h.table, 0, k)
      /\ Sound(j.recs) /\ \A k \in DOMAIN files : Sound(files[k].recs)
  BY <1>1, BeforeWrite
<1>4. \/ files' = files /\ repair' = repair
      \/ files' = Without(files, j.first) /\ repair' \in {repair, j.first}
      \/ \E n : files' \in {Appended(j, n), Split(j, n)} /\ repair' = j.first
  BY DEF RunJobFails
<1>5. \A k \in DOMAIN files' : Sound(files'[k].recs)
  BY <1>3, <1>4, WrittenSound
<1>6. ASSUME NEW q \in DeadSeqs, NEW k \in DOMAIN files', OnCard(files', k, q)
      PROVE  Flagged(h.table, repair', k)
  <2>1. CASE k = repair'
    BY <2>1 DEF Flagged
  <2>2. CASE k # repair'
    <3>1. OnCard(files, k, q)
      BY <1>4, <1>6, <2>2, Brings
    <3>2. Flagged(h.table, 0, k) /\ (k \in DOMAIN h.table => k # 0)
      BY <1>3, <3>1, KeysAreNot0, Zenon
    <3> QED BY <3>2 DEF Flagged
  <2> QED BY <2>1, <2>2
<1> QED BY <1>1, <1>5, <1>6, WorkBuries

-----------------------------------------------------------------------------
(* The loop task: a commit flags what it finds deleted.                     *)

(* Nothing is under way: what is deleted and on the card is flagged.        *)
Plain(t, r) == \A q \in DeadSeqs : \A k : OnCard(files, k, q) => Flagged(t, r, k)

(* What an append's commit makes of the table, ...                          *)
LEMMA CommitAppendIs ==
  ASSUME NEW s \in Tasks, NEW j, j.first \in Nat, j.last \in Nat, NEW n \in Nat,
         TableInv(LiveSeqs, n, s.table, s.flushed), AppendPlan(LiveSeqs, s.table, s.flushed, j),
         j.create \in BOOLEAN
  PROVE  LET c == CommitAppend(s, j) IN
         /\ c.flushed = j.last /\ j.first \in DOMAIN c.table /\ c.table[j.first].last = j.last
         /\ \A e \in DOMAIN c.table : e # j.first => e \in DOMAIN s.table /\ c.table[e] = s.table[e]
         /\ ~j.create => /\ c.table[j.first].dirty = s.table[j.first].dirty
                         /\ c.table[j.first].open = s.table[j.first].open
<1> DEFINE t == s.table
           w == s.flushed
           k == j.first
           m == Count(j.recs)
           t1 == Enter(t, j)
           t2 == [t1 EXCEPT ![k].disk = @ + m, ![k].live = @ + m, ![k].last = Larger(@, j.last)]
           c == CommitAppend(s, j)
<1>1. /\ t \in [DOMAIN t -> Entries] /\ w \in Nat /\ w < j.last
      /\ \A e \in DOMAIN t : t[e].last <= w /\ t[e].last \in Nat
  <2>1. t \in [DOMAIN t -> Entries] /\ \A e \in DOMAIN t : t[e].last <= w
    BY DEF TableInv
  <2>2. w \in 0..n /\ w < j.last
    BY DEF AppendPlan, TableInv
  <2> QED BY <2>1, <2>2 DEF Entries
<1>2. /\ DOMAIN t1 = DOMAIN t \cup {k} /\ t1[k] = (IF j.create THEN Segment(0, 0, FALSE) ELSE t[k])
      /\ \A e \in DOMAIN t : e # k => t1[e] = t[e]
  <2>1. CASE j.create
    <3>1. t1 = With(t, k, Segment(0, 0, FALSE))
      BY <2>1 DEF Enter, AppendPlan
    <3> QED BY <2>1, <3>1 DEF With
  <2>2. CASE ~j.create
    BY <2>2 DEF Enter, AppendPlan
  <2> QED BY <2>1, <2>2
<1>3. t1[k] \in Entries /\ t1[k].last <= w /\ t1[k].last \in Nat
  <2>1. CASE j.create
    <3>1. t1[k] = Segment(0, 0, FALSE)
      BY <1>2, <2>1
    <3> HIDE DEF t1
    <3> QED BY <1>1, <3>1 DEF Segment, Entries
  <2>2. CASE ~j.create
    <3>1. t1[k] = t[k] /\ k \in DOMAIN t
      BY <1>2, <2>2 DEF AppendPlan
    <3> HIDE DEF t1
    <3> QED BY <1>1, <3>1
  <2> QED BY <2>1, <2>2
<1> HIDE DEF t1, m
<1>4. Larger(t1[k].last, j.last) = j.last /\ Larger(w, j.last) = j.last
  BY <1>1, <1>3 DEF Larger
<1>5. c = [s EXCEPT !.table = t2, !.flushed = j.last]
  BY <1>2, <1>4 DEF CommitAppend, t1, m
<1>6. /\ DOMAIN t2 = DOMAIN t1 /\ \A e \in DOMAIN t1 : e # k => t2[e] = t1[e]
      /\ t2[k].last = j.last /\ t2[k].dirty = t1[k].dirty /\ t2[k].open = t1[k].open
  BY <1>2, <1>3, <1>4 DEF Entries
<1> HIDE DEF t2
<1>7. c.table = t2 /\ c.flushed = j.last
  BY <1>5 DEF Tasks
<1> HIDE DEF c
<1>8. ~j.create => t1[k].dirty = t[k].dirty /\ t1[k].open = t[k].open
  BY <1>2
<1> QED BY <1>2, <1>6, <1>7, <1>8 DEF c

(* ... and a rewrite's.                                                     *)
LEMMA CommitCompactIs ==
  ASSUME NEW s \in Tasks, NEW j, j.first \in DOMAIN s.table, s.table[j.first] \in Entries
  PROVE  LET c == CommitCompact(s, j) IN
         /\ \A e \in DOMAIN c.table : e # j.first => e \in DOMAIN s.table /\ c.table[e] = s.table[e]
         /\ j.first \in DOMAIN c.table =>
              /\ c.table[j.first].last = j.last /\ c.table[j.first].dirty = s.redirty
              /\ c.flushed = IF j.repair THEN Larger(s.flushed, j.last) ELSE s.flushed
<1> DEFINE t == s.table
           k == j.first
           n == Count(j.recs)
           b == t[k].open /\ ~j.repair
           f == [t[k] EXCEPT !.disk = n, !.live = n, !.last = j.last, !.dirty = s.redirty, !.open = b]
           w2 == IF j.repair THEN Larger(s.flushed, j.last) ELSE s.flushed
           t2 == [t EXCEPT ![k] = f]
           c == CommitCompact(s, j)
<1>1. CASE n = 0
  <2>1. c = [s EXCEPT !.table = Without(t, k)]
    BY <1>1 DEF CommitCompact
  <2>2. c.table = Without(t, k)
    BY <2>1 DEF Tasks
  <2> HIDE DEF c
  <2>3. \A e \in DOMAIN c.table : e # k /\ e \in DOMAIN t /\ c.table[e] = t[e]
    BY <2>2 DEF Without
  <2> QED BY <2>3 DEF c
<1>2. CASE n # 0
  <2>1. c = [s EXCEPT !.table = t2, !.flushed = w2]
    BY <1>2 DEF CommitCompact
  <2>2. f.last = j.last /\ f.dirty = s.redirty
    BY DEF Entries
  <2>3. DOMAIN t2 = DOMAIN t /\ t2[k] = f /\ \A e \in DOMAIN t : e # k => t2[e] = t[e]
    BY Zenon
  <2> HIDE DEF t2, f, w2
  <2>4. c.table = t2 /\ c.flushed = w2
    BY <2>1 DEF Tasks
  <2> HIDE DEF c
  <2> QED BY <2>2, <2>3, <2>4 DEF c, w2
<1> QED BY <1>1, <1>2

(* A delete that raced the write and is now covered is marked.              *)
LEMMA ReDeleteMarks ==
  ASSUME NEW s \in Tasks, NEW n \in Nat, TableInv(LiveSeqs, n, s.table, s.flushed), NEW old \in Nat,
         NEW q \in DeadSeqs, q \in Nat, old < q, q <= s.flushed,
         NEW k \in DOMAIN s.table, q \in k..s.table[k].last
  PROVE  ReDelete(s, old).table[k].dirty
<1> DEFINE gone == {m.seq : m \in {x \in ring : ~x.live /\ x.seq > old /\ x.seq <= s.flushed}}
           hit(e) == \E x \in gone : Owner(s.table, x) = e
           t2 == [e \in DOMAIN s.table |-> [s.table[e] EXCEPT !.dirty = s.table[e].dirty \/ hit(e)]]
           b == s.dirty \/ gone # {}
           d == ReDelete(s, old)
<1>1. d = [s EXCEPT !.table = t2, !.dirty = b]
  BY DEF ReDelete
<1>2. Owner(s.table, q) = k
  <2>1. DOMAIN s.table \in SUBSET Nat /\ \A e \in DOMAIN s.table : s.table[e].last \in Nat
    BY DEF TableInv, Entries
  <2>2. \A e, g \in DOMAIN s.table : e < g => s.table[e].last < g
    BY DEF TableInv
  <2> QED BY <2>1, <2>2, OwnerIs
<1>3. PICK m \in ring : ~m.live /\ m.seq = q
  BY DEF DeadSeqs
<1>4. q \in gone
  <2>1. s.flushed \in Nat
    BY DEF TableInv
  <2>2. m.seq > old /\ m.seq <= s.flushed
    BY <1>3, <2>1
  <2> QED BY <1>3, <2>2
<1>5. hit(k)
  BY <1>2, <1>4
<1>6. s.table[k] \in Entries
  BY DEF TableInv
<1> HIDE DEF hit, b
<1>7. t2[k].dirty
  BY <1>5, <1>6 DEF Entries
<1> HIDE DEF t2
<1>8. d.table = t2
  BY <1>1 DEF Tasks
<1> QED BY <1>7, <1>8

(* The commit of a job that succeeded leaves exact books, ...               *)
LEMMA CommittedIs ==
  ASSUME HInvariant, LoopFree, worker = "idle", h.job.kind # "none", flushOk
  PROVE  LET c == Commit(h, h.job) IN
         /\ c \in Tasks /\ c.dirty = h.dirty
         /\ Book(LiveSeqs, latest, files, c.table, c.flushed, 0, 0)
<1> DEFINE j == h.job
           c == Commit(h, j)
           right == /\ c \in Tasks /\ c.dirty = h.dirty
                    /\ Book(LiveSeqs, latest, files, c.table, c.flushed, 0, 0)
<1>1. /\ Powered /\ drain.pc = "idle" /\ Done
  BY DEF LoopFree, Powered, Done
<1>2. /\ RingInv(ring, latest) /\ FilesInv(ring, latest, files) /\ h \in Tasks
      /\ Book(LiveSeqs, latest, files, h.table, h.flushed, repair, Ahead)
      /\ JobInv /\ StrayInv
  BY <1>1 DEF HInvariant, Calm
<1>3. /\ Shape(ring, latest, j) /\ Plan(LiveSeqs, h.table, h.flushed, j) /\ Landed(files, h.table, j)
      /\ Book(LiveSeqs, latest, files, h.table, h.flushed, 0, j.first)
  BY <1>1, <1>2 DEF JobInv, Ahead
<1>4. \A k \in DOMAIN files \ DOMAIN h.table : j.kind = "append" /\ j.create /\ k = j.first
  BY <1>1, <1>2 DEF StrayInv, Stray
<1>5. ASSUME AppendPlan(LiveSeqs, h.table, h.flushed, j) PROVE right
  <2>1. c = CommitAppend(h, j)
    BY <1>5 DEF Commit, AppendPlan
  <2>2. DOMAIN files \subseteq DOMAIN h.table \cup {j.first}
    BY <1>4
  <2>3. LET x == CommitAppend(h, j) IN
        x \in Tasks /\ x.dirty = h.dirty /\ Book(LiveSeqs, latest, files, x.table, x.flushed, 0, 0)
    BY <1>2, <1>3, <1>5, <2>2, CommitAppendBook
  <2> HIDE DEF c
  <2> QED BY <2>1, <2>3
<1>6. ASSUME RewritePlan(LiveSeqs, h.table, h.flushed, j) PROVE right
  <2>1. c = CommitCompact(h, j)
    BY <1>6 DEF Commit, RewritePlan
  <2>2. DOMAIN files \subseteq DOMAIN h.table
    BY <1>4, <1>6 DEF RewritePlan
  <2>3. LET x == CommitCompact(h, j) IN
        x \in Tasks /\ x.dirty = h.dirty /\ Book(LiveSeqs, latest, files, x.table, x.flushed, 0, 0)
    BY <1>2, <1>3, <1>6, <2>2, CommitCompactBook
  <2> HIDE DEF c
  <2> QED BY <2>1, <2>3
<1> QED BY <1>3, <1>5, <1>6 DEF Plan

(* ... marks what was deleted while the job was out, ...                    *)
LEMMA CommitBuries ==
  ASSUME HInvariant, BuryInv, LoopFree, worker = "idle", h.job.kind # "none", flushOk
  PROVE  Plain(ReDelete(Commit(h, h.job), h.flushed).table, 0)
<1> DEFINE j == h.job
           w == h.flushed
           c == Commit(h, j)
           told == ReDelete(c, w)
<1>1. /\ Powered /\ drain.pc = "idle" /\ Done
  BY DEF LoopFree, Powered, Done
<1>2. /\ RingInv(ring, latest) /\ FilesInv(ring, latest, files) /\ h \in Tasks
      /\ Book(LiveSeqs, latest, files, h.table, w, repair, Ahead)
      /\ JobInv /\ StrayInv
  BY <1>1 DEF HInvariant, Calm
<1>3. /\ Ahead = j.first /\ repair = 0 /\ Shape(ring, latest, j)
      /\ Plan(LiveSeqs, h.table, w, j) /\ Landed(files, h.table, j)
  BY <1>1, <1>2 DEF JobInv, Ahead
<1>4. /\ Book(LiveSeqs, latest, files, h.table, w, 0, j.first)
      /\ TableInv(LiveSeqs, latest, h.table, w) /\ w \in Nat /\ latest \in Nat
      /\ \A k \in DOMAIN h.table : k # 0
  BY <1>2, <1>3 DEF Book, TableInv, RingInv, Tasks
<1>5. \A k \in DOMAIN files \ DOMAIN h.table : j.kind = "append" /\ j.create /\ k = j.first
  BY <1>1, <1>2 DEF StrayInv, Stray
<1>6. /\ j.first \in Nat /\ j.last \in Nat /\ j.create \in BOOLEAN /\ j.repair \in BOOLEAN
      /\ \A x \in j.recs : x.seq \in j.first..j.last
  <2>1. j \in Jobs /\ \A x \in j.recs : x.seq \in j.first..j.last
    BY <1>3 DEF Shape
  <2> QED BY <2>1 DEF Jobs
<1>7. c \in Tasks /\ Book(LiveSeqs, latest, files, c.table, c.flushed, 0, 0)
  BY CommittedIs
<1> HIDE DEF c
<1>8. Raised(c.table, told.table) /\ DOMAIN told.table = DOMAIN c.table
  <2>1. Raised(c.table, told.table)
    BY <1>7, ReDeleteRaises
  <2> HIDE DEF told
  <2> QED BY <2>1 DEF Raised
<1>9. ASSUME NEW q \in Nat, q \in DeadSeqs, w < q, q <= c.flushed,
             NEW k \in DOMAIN c.table, q \in k..c.table[k].last
      PROVE  told.table[k].dirty
  <2>1. TableInv(LiveSeqs, latest, c.table, c.flushed)
    BY <1>7 DEF Book
  <2> QED BY <1>4, <1>7, <1>9, <2>1, ReDeleteMarks
<1> HIDE DEF told
<1>10. ASSUME NEW k \in DOMAIN c.table, c.table[k].dirty \/ c.table[k].open
       PROVE  Flagged(told.table, 0, k)
  BY <1>8, <1>10 DEF Flagged, Raised
<1>11. ASSUME NEW q \in DeadSeqs, NEW k, OnCard(files, k, q)
       PROVE  /\ Flagged(h.table, 0, k) \/ JustAppended(k, q)
              /\ k \in DOMAIN files /\ k \in Nat /\ q \in Nat /\ k <= q
  <2>1. k \in DOMAIN files
    BY <1>11 DEF OnCard
  <2>2. Flagged(h.table, repair, k) \/ JustAppended(k, q) \/ Replacing(k)
    BY <1>1, <1>11, <2>1 DEF BuryInv, GhostInv
  <2>3. OneFile(ring, latest, k, files[k]) /\ k \in 1..latest
    BY <1>2, <2>1 DEF FilesInv
  <2>4. PICK m \in files[k].recs : m.seq = q
    BY <1>11 DEF OnCard, Seqs
  <2>5. m \in Records /\ k <= m.seq
    BY <2>3, <2>4 DEF OneFile, Segments
  <2> QED BY <1>1, <1>3, <1>4, <2>1, <2>2, <2>3, <2>4, <2>5 DEF Replacing, Records
<1>12. ASSUME AppendPlan(LiveSeqs, h.table, w, j) PROVE Plain(told.table, 0)
  <2>1. c = CommitAppend(h, j)
    BY <1>12 DEF Commit, AppendPlan, c
  <2>2. /\ c.flushed = j.last /\ j.first \in DOMAIN c.table /\ c.table[j.first].last = j.last
        /\ \A e \in DOMAIN c.table : e # j.first => e \in DOMAIN h.table /\ c.table[e] = h.table[e]
        /\ ~j.create => /\ c.table[j.first].dirty = h.table[j.first].dirty
                        /\ c.table[j.first].open = h.table[j.first].open
    BY <1>2, <1>4, <1>6, <1>12, <2>1, CommitAppendIs
  <2> SUFFICES ASSUME NEW q \in DeadSeqs, NEW k, OnCard(files, k, q), k \in DOMAIN c.table
               PROVE  Flagged(told.table, 0, k)
    BY <1>8 DEF Plain, Flagged
  <2>3. CASE k # j.first
    <3>1. ~JustAppended(k, q)
      BY <2>3 DEF JustAppended
    <3>2. k \in DOMAIN h.table /\ c.table[k] = h.table[k]
      BY <2>2, <2>3
    <3>3. h.table[k].dirty \/ h.table[k].open
      BY <1>4, <1>11, <3>1, <3>2 DEF Flagged
    <3> QED BY <1>10, <3>2, <3>3
  <2>4. CASE k = j.first /\ w < q
    <3>1. q <= j.last
      BY <1>3, <1>11, <1>12, <2>4 DEF Landed, AppendPlan, OnCard, Seqs
    <3>2. told.table[k].dirty
      BY <1>6, <1>9, <1>11, <2>2, <2>4, <3>1
    <3> QED BY <3>2 DEF Flagged
  <2>5. CASE k = j.first /\ ~(w < q)
    <3>1. ~j.create
      <4>1. j.create => files[k] = NewFile(j.recs)
        BY <1>3, <1>12, <2>5 DEF Landed, AppendPlan
      <4>2. NewFile(j.recs).recs = j.recs
        BY DEF NewFile
      <4>3. ~(q \in Seqs(j.recs))
        BY <1>12, <2>5 DEF AppendPlan, Seqs
      <4> QED BY <4>1, <4>2, <4>3 DEF OnCard
    <3>2. ~JustAppended(k, q)
      BY <2>5 DEF JustAppended
    <3>3. k \in DOMAIN h.table
      BY <1>12, <2>5, <3>1 DEF AppendPlan
    <3>4. h.table[k].dirty \/ h.table[k].open
      BY <1>4, <1>11, <3>2, <3>3 DEF Flagged
    <3> QED BY <1>10, <2>2, <2>5, <3>1, <3>4
  <2> QED BY <2>3, <2>4, <2>5
<1>13. ASSUME RewritePlan(LiveSeqs, h.table, w, j) PROVE Plain(told.table, 0)
  <2>1. c = CommitCompact(h, j) /\ j.kind = "compact"
    BY <1>13 DEF Commit, RewritePlan, c
  <2>2. j.first \in DOMAIN h.table /\ h.table[j.first] \in Entries
    BY <1>4, <1>13 DEF RewritePlan, TableInv
  <2>3. /\ \A e \in DOMAIN c.table : e # j.first => e \in DOMAIN h.table /\ c.table[e] = h.table[e]
        /\ j.first \in DOMAIN c.table =>
             /\ c.table[j.first].last = j.last /\ c.table[j.first].dirty = h.redirty
             /\ c.flushed = IF j.repair THEN Larger(w, j.last) ELSE w
    BY <1>2, <2>1, <2>2, CommitCompactIs
  <2> SUFFICES ASSUME NEW q \in DeadSeqs, NEW k, OnCard(files, k, q), k \in DOMAIN c.table
               PROVE  Flagged(told.table, 0, k)
    BY <1>8 DEF Plain, Flagged
  <2>4. CASE k # j.first
    <3>1. ~JustAppended(k, q)
      BY <2>4 DEF JustAppended
    <3>2. k \in DOMAIN h.table /\ c.table[k] = h.table[k]
      BY <2>3, <2>4
    <3>3. h.table[k].dirty \/ h.table[k].open
      BY <1>4, <1>11, <3>1, <3>2 DEF Flagged
    <3> QED BY <1>10, <3>2, <3>3
  <2>5. CASE k = j.first
    <3>1. q \in Seqs(j.recs)
      <4>1. j.recs # {} => files[k] = NewFile(j.recs)
        BY <1>3, <2>1, <2>5 DEF Landed
      <4>2. j.recs # {}
        BY <1>3, <1>11, <2>1, <2>5 DEF Landed
      <4>3. NewFile(j.recs).recs = j.recs
        BY DEF NewFile
      <4> QED BY <4>1, <4>2, <4>3 DEF OnCard
    <3>2. q \in j.first..j.last
      BY <1>6, <3>1 DEF Seqs
    <3>3. h.redirty \/ w < q
      BY <1>1, <2>1, <3>1 DEF BuryInv
    <3>4. CASE h.redirty
      BY <1>10, <2>3, <2>5, <3>4
    <3>5. CASE w < q
      <4>1. j.repair
        BY <1>4, <1>6, <1>11, <1>13, <3>2, <3>5 DEF RewritePlan
      <4>2. c.flushed = Larger(w, j.last) /\ c.table[k].last = j.last
        BY <2>3, <2>5, <4>1
      <4>3. q <= c.flushed
        BY <1>4, <1>6, <1>11, <3>2, <4>2 DEF Larger
      <4>4. told.table[k].dirty
        BY <1>9, <1>11, <2>5, <3>2, <3>5, <4>2, <4>3
      <4> QED BY <4>4 DEF Flagged
    <3> QED BY <3>3, <3>4, <3>5
  <2> QED BY <2>4, <2>5
<1>14. Plain(told.table, 0)
  BY <1>3, <1>12, <1>13 DEF Plan
<1> QED BY <1>14 DEF told, c

(* ... so once the worker's outcome is settled, what is deleted and on the  *)
(* card is flagged.                                                         *)
LEMMA ObserveBuries ==
  ASSUME HInvariant, BuryInv, LoopFree, worker = "idle"
  PROVE  Plain(Observe(h).table, repair) /\ (~Observe(h).dirty => NoGhosts)
<1> DEFINE j == h.job
           done == j.kind # "none"
           c == Commit(h, j)
           told == IF done /\ flushOk THEN ReDelete(c, h.flushed) ELSE h
           o == Observe(h)
<1>1. /\ Powered /\ drain.pc = "idle" /\ Done = done
  BY DEF LoopFree, Powered, Done
<1>2. /\ h \in Tasks /\ JobInv
  BY <1>1 DEF HInvariant, Calm
<1>3. Plain(told.table, repair)
  <2>1. CASE done /\ flushOk
    <3>1. repair = 0 /\ told = ReDelete(c, h.flushed)
      BY <1>1, <1>2, <2>1 DEF JobInv
    <3> HIDE DEF told
    <3> QED BY <2>1, <3>1, CommitBuries
  <2>2. CASE ~(done /\ flushOk)
    <3>1. told = h
      BY <2>2
    <3>2. \A q, k : ~JustAppended(k, q) /\ ~Replacing(k)
      BY <1>1, <2>2 DEF JustAppended, Replacing
    <3> HIDE DEF told
    <3> QED BY <1>1, <3>1, <3>2 DEF BuryInv, GhostInv, Plain, OnCard
  <2> QED BY <2>1, <2>2
<1> DEFINE jj == IF done THEN NoJob ELSE told.job
           rr == told.redirty /\ ~done
           dd == told.dirty \/ ~flushOk
<1>4. o = [told EXCEPT !.job = jj, !.redirty = rr, !.dirty = dd]
  BY DEF Observe
<1>5. ~dd => NoGhosts
  <2>1. CASE done /\ flushOk
    <3>1. h.dirty
      BY <1>1, <2>1 DEF BuryInv
    <3>2. c \in Tasks /\ c.dirty = h.dirty
      BY <2>1, CommittedIs
    <3> HIDE DEF c
    <3>3. told = ReDelete(c, h.flushed)
      BY <2>1
    <3> HIDE DEF told
    <3>4. told.dirty
      BY <3>1, <3>2, <3>3, ReDeleteRaises
    <3> QED BY <3>4
  <2>2. CASE ~(done /\ flushOk)
    <3>1. told = h
      BY <2>2
    <3> HIDE DEF told
    <3> QED BY <1>1, <3>1 DEF BuryInv
  <2> QED BY <2>1, <2>2
<1>6. told \in Tasks
  BY <1>2, CommittedIs, ReDeleteRaises
<1>7. jj \in Jobs /\ rr \in BOOLEAN /\ dd \in BOOLEAN
  BY <1>2, <1>6, NoJobIn DEF Tasks, HInvariant, Calm
<1> HIDE DEF told, jj, rr, dd
<1>8. o.table = told.table /\ o.dirty = dd
  BY <1>4, <1>6, <1>7 DEF Tasks
<1> HIDE DEF o
<1> QED BY <1>3, <1>5, <1>8 DEF o

-----------------------------------------------------------------------------
(* A flush: what is planned deals with every deleted message on the card.   *)

(* Live messages are sound, and none of them is deleted.                    *)
LEMMA LiveIsNotDead ==
  ASSUME RingInv(ring, latest), Single(ring), NEW M, M \subseteq Live(ring)
  PROVE  Sound(M) /\ DeadSeqs \cap Seqs(M) = {}
<1>1. Sound(M)
  <2>1. M \subseteq ring /\ ring \subseteq Records
    BY DEF Live, RingInv
  <2> QED BY <2>1, SoundPart
<1>2. \A x, y \in ring : x.seq = y.seq => x = y
  BY DEF Single
<1>3. DeadSeqs \cap Seqs(M) = {}
  BY <1>2 DEF DeadSeqs, Seqs, Live
<1> QED BY <1>1, <1>3

(* What is planned keeps every flag, and a job leaves more to do.           *)
LEMMA BuildBuries ==
  ASSUME RingInv(ring, latest), NEW s0 \in Tasks, Builds(s0, Build(s0)), Plain(s0.table, repair)
  PROVE  /\ Plain(Build(s0).h.table, 0)
         /\ Build(s0).job.kind # "none" => MoreWork(Build(s0).h)
<1> DEFINE d == Distrust(s0.table, repair)
           s == [s0 EXCEPT !.table = d]
           b == Build(s0)
<1>1. d \in Tables /\ DOMAIN d = DOMAIN s0.table
      /\ \A k \in DOMAIN d : d[k].dirty = s0.table[k].dirty /\ d[k].open = (s0.table[k].open \/ k = repair)
  BY DistrustIs DEF Tasks
<1>2. b.h.table = d
  <2>1. b.h = s \/ \E x : b.h = [s EXCEPT !.flushed = x]
    BY DEF Build
  <2> HIDE DEF d, b
  <2> QED BY <2>1 DEF Tasks
<1> HIDE DEF d, b
<1>3. Plain(b.h.table, 0)
  BY <1>1, <1>2 DEF Plain, Flagged
<1>4. ASSUME b.job.kind # "none" PROVE MoreWork(b.h)
  <2>1. Shape(ring, latest, b.job) /\ Plan(LiveSeqs, b.h.table, b.h.flushed, b.job) /\ b.h \in Tasks
    BY <1>4 DEF Builds, b
  <2>2. latest \in Nat /\ b.h.flushed \in Nat /\ b.job.last \in Nat /\ b.job.last <= latest
    BY <2>1 DEF Shape, Tasks, Jobs, RingInv
  <2>3. CASE AppendPlan(LiveSeqs, b.h.table, b.h.flushed, b.job)
    BY <2>2, <2>3 DEF AppendPlan, MoreWork
  <2>4. CASE RewritePlan(LiveSeqs, b.h.table, b.h.flushed, b.job)
             /\ (b.h.table[b.job.first].dirty \/ b.h.table[b.job.first].open)
    BY <2>4 DEF RewritePlan, MoreWork
  <2> QED BY <2>1, <2>3, <2>4 DEF Plan
<1> QED BY <1>3, <1>4 DEF b

(* Where nothing is flagged, nothing deleted is on the card.                *)
LEMMA NothingFlagged ==
  ASSUME NEW L, NEW n, NEW w, NEW t, TableInv(L, n, t, w), Plain(t, 0),
         DOMAIN files \subseteq DOMAIN t, \A k \in DOMAIN t : ~t[k].dirty /\ ~t[k].open
  PROVE  NoGhosts
<1>1. 0 \notin DOMAIN t
  BY DEF TableInv
<1> QED BY <1>1 DEF NoGhosts, Plain, Flagged

(* With nothing out, flags on all that is deleted are the whole invariant.  *)
LEMMA RestBuries ==
  ASSUME BuryInv, h'.job = NoJob, drain'.job = NoJob, UNCHANGED <<ring, files>>, used'.late = used.late,
         drain'.pc # "write", Plain(h'.table, repair'), ~h'.dirty => NoGhosts,
         drain'.pc = "build" /\ drain'.left = 0 => repair' = 0
  PROVE  BuryInv'
<1>1. ring' = ring /\ files' = files /\ DeadSeqs' = DeadSeqs /\ (NoGhosts' = NoGhosts)
  BY DEF DeadSeqs, NoGhosts
<1>2. NoJob.recs = {} /\ NoJob.kind = "none" /\ Sound({}) /\ Seqs({}) = {}
  BY DEF NoJob, Sound, Single, Seqs
<1>3. Contents'
  BY <1>1, <1>2 DEF BuryInv, Contents
<1>4. GhostInv'
  BY <1>1 DEF GhostInv, Plain
<1> QED BY <1>1, <1>2, <1>3, <1>4 DEF BuryInv

(* The plan of a flush.                                                     *)
LEMMA PlannedBuries ==
  ASSUME HInvariant, BuryInv, SizesAssumption, Steady, Due
  PROVE  /\ Plain(Planned.h.table, 0) /\ Planned.job.recs \subseteq Live(ring)
         /\ Planned.job.kind # "none" => MoreWork(Planned.h)
         /\ Planned.h.dirty /\ Plain(Observe(h).table, repair)
<1> DEFINE o == Observe(h)
<1>1. /\ worker = "idle" /\ LoopFree /\ Settles(o) /\ ~o.resync /\ Builds(o, Planned)
      /\ RingInv(ring, latest)
  BY PlannedBook DEF HInvariant
<1>2. Planned = Build(o) /\ o \in Tasks
  BY <1>1 DEF Planned, Settles
<1>3. Plain(o.table, repair) /\ o.dirty
  BY <1>1, ObserveBuries DEF Due
<1>4. Planned.h.dirty
  BY <1>1, <1>3 DEF Builds
<1> HIDE DEF o
<1>5. /\ Plain(Planned.h.table, 0) /\ Planned.job.recs \subseteq Live(ring)
      /\ Planned.job.kind # "none" => MoreWork(Planned.h)
  BY <1>1, <1>2, <1>3, BuildBuries, BuildLive
<1> QED BY <1>3, <1>4, <1>5 DEF o

(* The steps of a flush keep the invariant.                                 *)
LEMMA TickBuries ==
  ASSUME HInvariant, BuryInv, Steady, Tick
  PROVE  BuryInv'
<1>1. /\ LoopFree /\ worker # "finishing" /\ h' = Observe(h) /\ flushOk' = TRUE
      /\ ring' = ring /\ worker' = worker /\ repair' = repair
      /\ drain' = drain /\ files' = files /\ used' = used
  BY DEF Tick, TickRuns, Steady, ram, disk
<1>2. /\ Powered /\ drain.pc = "idle" /\ DrainInv /\ Calm /\ JobInv
  BY <1>1 DEF HInvariant, LoopFree, Powered
<1>3. CASE worker = "idle"
  <2>1. h'.job = NoJob /\ Plain(h'.table, repair') /\ (~h'.dirty => NoGhosts)
    BY <1>1, <1>3, ObserveSettles, ObserveBuries DEF Settles
  <2> QED BY <1>1, <1>2, <2>1, RestBuries DEF DrainInv
<1>4. CASE worker # "idle"
  <2> DEFINE dd == h.dirty \/ ~flushOk
  <2>1. ~Done /\ ~Done'
    <3>1. worker \in {"queued", "running"}
      BY <1>1, <1>2, <1>4 DEF Calm
    <3> QED BY <1>1, <3>1 DEF Done
  <2>2. h' = [h EXCEPT !.job = h.job, !.redirty = h.redirty /\ TRUE, !.dirty = dd]
    BY <1>1, <1>4 DEF Observe
  <2>3. h.redirty \in BOOLEAN /\ dd \in BOOLEAN /\ h \in Tasks
    BY <1>2 DEF Calm, Tasks
  <2> HIDE DEF dd
  <2>4. /\ h'.table = h.table /\ h'.flushed = h.flushed /\ h'.job = h.job
        /\ h'.dirty = dd /\ h'.redirty = h.redirty
    BY <2>2, <2>3 DEF Tasks
  <2>5. DeadSeqs' = DeadSeqs /\ (NoGhosts' = NoGhosts) /\ Powered'
    BY <1>1, <1>2 DEF DeadSeqs, NoGhosts, Powered
  <2>6. Contents'
    BY <1>1, <2>4 DEF BuryInv, Contents
  <2>7. GhostInv'
    BY <1>1, <1>2, <2>1, <2>4, <2>5 DEF BuryInv, GhostInv, JustAppended, Replacing
  <2>8. ~h'.dirty => h'.job.kind = "none" /\ NoGhosts
    BY <1>2, <2>4 DEF BuryInv, dd
  <2> QED BY <1>1, <1>2, <2>4, <2>5, <2>6, <2>7, <2>8 DEF BuryInv
<1> QED BY <1>3, <1>4

(* A job that is armed takes nothing deleted along.                         *)
LEMMA ArmBuries ==
  ASSUME HInvariant, BuryInv, SizesAssumption, Steady, Arm
  PROVE  BuryInv'
<1> DEFINE j == Planned.job
           dd == MoreWork(Planned.h) \/ Planned.h.purge
<1>1. /\ Due /\ j.kind # "none" /\ worker' = "queued" /\ repair' = 0
      /\ h' = [Planned.h EXCEPT !.job = j, !.redirty = FALSE, !.dirty = dd]
      /\ UNCHANGED <<ring, drain, files, used>>
  BY DEF Arm, Healthy, ram, disk
<1>2. /\ LoopFree /\ Planned.h \in Tasks /\ drain.job = NoJob /\ RingInv(ring, latest) /\ Single(ring)
      /\ ~Planned.h.purge
  BY <1>1, PlannedBook DEF HInvariant, BuryInv, Contents
<1>3. /\ Plain(Planned.h.table, 0) /\ j.recs \subseteq Live(ring) /\ MoreWork(Planned.h)
  BY <1>1, PlannedBuries
<1>4. Sound(j.recs) /\ DeadSeqs \cap Seqs(j.recs) = {}
  BY <1>2, <1>3, LiveIsNotDead
<1> HIDE DEF j, dd
<1>5. h'.table = Planned.h.table /\ h'.job = j /\ h'.dirty = dd
  BY <1>1, <1>2 DEF Tasks
<1>6. h'.dirty
  BY <1>3, <1>5 DEF dd
<1>7. DeadSeqs' = DeadSeqs /\ Powered' /\ drain'.pc = "idle"
  BY <1>1, <1>2 DEF DeadSeqs, LoopFree, Powered
<1>8. Contents'
  BY <1>1, <1>4, <1>5 DEF BuryInv, Contents
<1>9. GhostInv'
  BY <1>1, <1>3, <1>5, <1>7 DEF GhostInv, Plain
<1>10. DeadSeqs' \cap Seqs(drain'.job.recs) = {}
  BY <1>1, <1>2 DEF NoJob, Seqs
<1> QED BY <1>4, <1>5, <1>6, <1>7, <1>8, <1>9, <1>10 DEF BuryInv

(* A flush that the loop task drains itself, or that has nothing to do.     *)
LEMMA FlushBuries ==
  ASSUME HInvariant, BuryInv, SizesAssumption, Steady, TickDegraded \/ TickNoWorker \/ Settle
  PROVE  BuryInv'
<1>1. Due
  BY DEF TickDegraded, TickNoWorker, Settle, Healthy
<1>2. /\ LoopFree /\ drain.job = NoJob /\ drain.pc = "idle"
      /\ Settles(Observe(h)) /\ Builds(Observe(h), Planned)
      /\ ~Planned.h.purge /\ Planned.h \in Tasks /\ Planned.h.job = NoJob
      /\ DOMAIN files \subseteq DOMAIN Planned.h.table
  BY <1>1, PlannedBook DEF LoopFree
<1>3. /\ Plain(Planned.h.table, 0) /\ Planned.h.dirty /\ Plain(Observe(h).table, repair)
  BY <1>1, PlannedBuries
<1>4. CASE TickDegraded
  <2>1. BeginDrain(Observe(h), "flush") /\ UNCHANGED <<ring, files, repair, used>>
    BY <1>4 DEF TickDegraded, ram, disk
  <2>2. Observe(h) \in Tasks /\ Observe(h).dirty
    BY <1>1, <1>2 DEF Due, Settles
  <2>3. /\ h' = Observe(h) /\ drain'.pc = "build" /\ drain'.job = NoJob /\ drain'.left > 0
    BY <2>1, <2>2, BeginDrainIs
  <2>4. h'.job = NoJob /\ h'.dirty /\ Plain(h'.table, repair')
    BY <1>2, <1>3, <2>1, <2>2, <2>3 DEF Settles
  <2> QED BY <2>1, <2>3, <2>4, RestBuries
<1>5. CASE TickNoWorker
  <2>1. BeginDrain(Planned.h, "flush") /\ UNCHANGED <<ring, files, used>> /\ repair' = 0
    BY <1>5 DEF TickNoWorker, ram, disk
  <2>2. /\ h' = Planned.h /\ drain'.pc = "build" /\ drain'.job = NoJob
    BY <1>2, <2>1, BeginDrainIs
  <2> QED BY <1>2, <1>3, <2>1, <2>2, RestBuries
<1>6. CASE Settle
  <2>1. UNCHANGED <<ring, drain>> /\ repair' = 0
    BY <1>6 DEF Settle, ram
  <2>2. \/ ~MoreWork(Planned.h) /\ FinishResync(Planned.h, [Planned.h EXCEPT !.dirty = FALSE])
        \/ ~MoreWork(Planned.h) /\ ResyncFails(Planned.h)
        \/ MoreWork(Planned.h) /\ h' = Planned.h /\ UNCHANGED <<disk, fails, used>>
    BY <1>6 DEF Settle
  <2>3. CASE ~MoreWork(Planned.h) /\ FinishResync(Planned.h, [Planned.h EXCEPT !.dirty = FALSE])
    <3>1. h' = [Planned.h EXCEPT !.dirty = FALSE] /\ files' = files /\ used' = used
      BY <1>2, <2>3 DEF FinishResync, disk
    <3>2. h'.table = Planned.h.table /\ h'.job = NoJob
      BY <1>2, <3>1 DEF Tasks
    <3>3. \A k \in DOMAIN Planned.h.table : ~Planned.h.table[k].dirty /\ ~Planned.h.table[k].open
      BY <2>3 DEF MoreWork
    <3>4. TableInv(LiveSeqs, latest, Planned.h.table, Planned.h.flushed)
      BY <1>2 DEF Builds, Book
    <3>5. NoGhosts
      BY <1>2, <1>3, <3>3, <3>4, NothingFlagged
    <3> QED BY <1>2, <1>3, <2>1, <3>1, <3>2, <3>5, RestBuries
  <2>4. CASE ResyncFails(Planned.h)
    BY <1>2, <2>4 DEF ResyncFails
  <2>5. CASE h' = Planned.h /\ UNCHANGED <<disk, fails, used>>
    <3>1. files' = files /\ used' = used
      BY <2>5 DEF disk
    <3> QED BY <1>2, <1>3, <2>1, <2>5, <3>1, RestBuries
  <2> QED BY <2>2, <2>3, <2>4, <2>5
<1> QED BY <1>4, <1>5, <1>6

-----------------------------------------------------------------------------
(* Saves, reboots and cuts.                                                 *)

(* A job that is dropped leaves its segment flagged.                        *)
LEMMA DroppedBuries ==
  ASSUME HInvariant, BuryInv, ~Strands, worker = "idle", drain.pc \in {"idle", "wait"}
  PROVE  /\ Plain(Dropped(h).table, repair) /\ (~Dropped(h).dirty => NoGhosts)
         /\ Dropped(h) \in Tasks /\ Dropped(h).job = NoJob
<1> DEFINE d == Dropped(h)
           out == h.job.kind # "none"
           t2 == IF out /\ worker # "queued" THEN Distrust(h.table, h.job.first) ELSE h.table
<1>1. Powered /\ h \in Tasks
  BY DEF Powered, HInvariant, Calm
<1>2. d \in Tasks /\ d.job = NoJob /\ d.dirty = h.dirty
  BY DroppedIs
<1>3. d.table = t2
  <2>1. d = [h EXCEPT !.job = NoJob, !.redirty = FALSE, !.table = t2]
    BY DEF Dropped
  <2> HIDE DEF t2, d
  <2> QED BY <1>1, <2>1 DEF Tasks
<1> HIDE DEF d
<1>4. /\ DOMAIN t2 = DOMAIN h.table
      /\ \A k \in DOMAIN h.table : /\ t2[k].dirty = h.table[k].dirty
                                   /\ h.table[k].open \/ (out /\ k = h.job.first) => t2[k].open
  <2>1. h.table \in Tables
    BY <1>1 DEF Tasks
  <2>2. CASE out
    <3>1. t2 = Distrust(h.table, h.job.first)
      BY <2>2
    <3> HIDE DEF t2
    <3>2. /\ DOMAIN t2 = DOMAIN h.table
          /\ \A k \in DOMAIN h.table : /\ t2[k].dirty = h.table[k].dirty
                                       /\ t2[k].open = (h.table[k].open \/ k = h.job.first)
      BY <2>1, <3>1, DistrustIs
    <3> QED BY <3>2
  <2>3. CASE ~out
    BY <2>3
  <2> QED BY <2>2, <2>3
<1> HIDE DEF t2
<1>5. ASSUME NEW q \in DeadSeqs, NEW k, OnCard(files, k, q), k \in DOMAIN t2
      PROVE  t2[k].dirty \/ t2[k].open \/ k = repair
  <2>1. k \in DOMAIN files
    BY <1>5 DEF OnCard
  <2>2. Flagged(h.table, repair, k) \/ JustAppended(k, q)
    BY <1>1, <1>5, <2>1 DEF BuryInv, GhostInv, Replacing
  <2>3. JustAppended(k, q) => out /\ k = h.job.first
    BY DEF JustAppended
  <2> QED BY <1>4, <1>5, <2>2, <2>3 DEF Flagged
<1>6. Plain(d.table, repair)
  BY <1>3, <1>5 DEF Plain, Flagged
<1>7. ~d.dirty => NoGhosts
  BY <1>1, <1>2 DEF BuryInv
<1> QED BY <1>2, <1>6, <1>7 DEF d

(* With the power off only sound files matter.                              *)
LEMMA OffBuries ==
  ASSUME BuryInv, ~Powered', UNCHANGED ring, Sound(h'.job.recs), Sound(drain'.job.recs),
         NEW j, j.kind \in {"none", "append", "compact"}, Sound(j.recs),
         files' = files \/ files' \in Torn(j)
  PROVE  BuryInv'
<1>1. \A k \in DOMAIN files : Sound(files[k].recs)
  BY DEF BuryInv, Contents
<1>2. \A k \in DOMAIN files' : Sound(files'[k].recs)
  <2>1. CASE files' = files
    BY <1>1, <2>1
  <2>2. CASE files' # files
    <3>1. \/ \E n : files' \in {Appended(j, n), Split(j, n)}
          \/ files' \in {With(files, j.first, NoFile), Without(files, j.first), Rewritten(j)}
      BY <2>2 DEF Torn
    <3> QED BY <1>1, <3>1, WrittenSound
  <2> QED BY <2>1, <2>2
<1>3. Contents'
  BY <1>2 DEF BuryInv, Contents
<1> QED BY <1>3 DEF BuryInv

(* What is kept while the loop task begins or ends a wait.                  *)
LEMMA DrainMoves ==
  ASSUME BuryInv, Powered, Powered', drain.pc # "write", drain'.pc \in {"idle", "wait"},
         drain'.job = NoJob, used'.late = used.late,
         UNCHANGED <<ring, h, worker, flushOk, repair, files>>
  PROVE  BuryInv'
<1>1. DeadSeqs' = DeadSeqs /\ (NoGhosts' = NoGhosts) /\ Done' = Done
  BY DEF DeadSeqs, NoGhosts, Done
<1>2. Sound({}) /\ NoJob.recs = {} /\ Seqs({}) = {}
  BY DEF NoJob, Sound, Single, Seqs
<1>3. Contents'
  BY <1>2 DEF BuryInv, Contents
<1>4. GhostInv'
  BY <1>1 DEF BuryInv, GhostInv, JustAppended, Replacing
<1> QED BY <1>1, <1>2, <1>3, <1>4 DEF BuryInv

(* The save itself, or going down with nothing to save.                     *)
LEMMA SaveBuries ==
  ASSUME BuryInv, SizesAssumption, NEW s \in Tasks, s.job = NoJob, Plain(s.table, repair),
         ~s.dirty => NoGhosts, NEW from \in {"persist", "reboot"},
         SaveOrGoDown(s, from) \/ BeginDrain(s, from), UNCHANGED <<ring, files, repair>>,
         used'.late = used.late
  PROVE  BuryInv'
<1>1. CASE BeginDrain(s, from)
  <2>1. h' = s /\ drain'.pc = "build" /\ drain'.job = NoJob /\ drain'.left > 0
    BY <1>1, BeginDrainIs
  <2> QED BY <2>1, RestBuries
<1>2. CASE h' = s /\ drain' = [Idle EXCEPT !.pc = "off", !.from = from]
  <2>1. drain'.pc = "off" /\ drain'.job = NoJob
    BY <1>2 DEF Idle
  <2>2. NoJob.kind = "none" /\ Sound(NoJob.recs)
    BY DEF NoJob, Sound, Single
  <2> QED BY <1>2, <2>1, <2>2, OffBuries DEF Powered
<1> QED BY <1>1, <1>2 DEF SaveOrGoDown

(* A wait that ends well drops the job and saves.                           *)
LEMMA WaitOverBuries ==
  ASSUME HInvariant, BuryInv, SizesAssumption, WaitOver, ~used'.stray
  PROVE  BuryInv'
<1>1. /\ drain.pc = "wait" /\ worker = "idle" /\ SaveOrGoDown(Dropped(h), drain.from)
      /\ UNCHANGED <<ring, files, repair>> /\ used' = Saving(used)
  BY DEF WaitOver, ram, task, disk
<1>2. drain.from \in {"persist", "reboot"}
  BY <1>1 DEF HInvariant, DrainInv, Powered
<1>3. used'.late = used.late /\ ~Strands
  BY <1>1, SavingUses DEF HInvariant, Calm
<1> QED BY <1>1, <1>2, <1>3, DroppedBuries, SaveBuries

(* A save or a reboot cancels the job, drops it, or waits for it.           *)
LEMMA SaveNowBuries ==
  ASSUME HInvariant, BuryInv, SizesAssumption, NEW from \in {"persist", "reboot"},
         SaveNow(from), used'.late = used.late, ~Strands
  PROVE  BuryInv'
<1>1. /\ drain.pc = "idle" /\ UNCHANGED <<ring, flushOk, repair, files>>
      /\ \/ /\ worker = "queued" /\ worker' = "idle"
            /\ BeginDrain([Dropped(h) EXCEPT !.dirty = Dropped(h).dirty \/ from = "reboot"], from)
         \/ worker = "idle" /\ UNCHANGED worker /\ SaveOrGoDown(Dropped(h), from)
         \/ /\ worker \in {"running", "finishing"}
            /\ drain' = [Idle EXCEPT !.pc = "wait", !.from = from] /\ UNCHANGED <<h, worker>>
  BY DEF SaveNow, LoopFree, ram, disk
<1>2. Powered /\ h \in Tasks
  BY <1>1 DEF Powered, HInvariant, Calm
<1>3. CASE worker = "idle" /\ SaveOrGoDown(Dropped(h), from)
  BY <1>1, <1>3, DroppedBuries, SaveBuries
<1>4. ASSUME worker = "queued",
             BeginDrain([Dropped(h) EXCEPT !.dirty = Dropped(h).dirty \/ from = "reboot"], from)
      PROVE  BuryInv'
  <2> DEFINE v == h.dirty \/ from = "reboot"
             d == [h EXCEPT !.job = NoJob, !.redirty = FALSE, !.table = h.table]
             s == [d EXCEPT !.dirty = v]
  <2>1. Dropped(h) = d
    BY <1>4 DEF Dropped
  <2>2. d.dirty = h.dirty
    BY <1>2 DEF Tasks
  <2>3. BeginDrain(s, from)
    BY <1>4, <2>1, <2>2
  <2>4. v \in BOOLEAN
    BY <1>2 DEF Tasks
  <2> HIDE DEF v
  <2>5. s \in Tasks /\ s.job = NoJob /\ s.dirty = v /\ s.table = h.table
    BY <1>2, <2>4, NoJobIn DEF Tasks
  <2> HIDE DEF s, d
  <2>6. repair = 0 /\ Plain(h.table, repair)
    BY <1>2, <1>4, AtWork, BeforeWrite DEF Plain
  <2>7. ~s.dirty => NoGhosts
    BY <1>2, <2>5 DEF BuryInv, v
  <2> QED BY <1>1, <2>3, <2>5, <2>6, <2>7, SaveBuries
<1>5. CASE /\ worker \in {"running", "finishing"}
           /\ drain' = [Idle EXCEPT !.pc = "wait", !.from = from] /\ UNCHANGED <<h, worker>>
  <2>1. drain'.pc = "wait" /\ drain'.job = NoJob
    BY <1>5 DEF Idle
  <2> QED BY <1>1, <1>2, <1>5, <2>1, DrainMoves DEF Powered
<1> QED BY <1>1, <1>3, <1>4, <1>5

(* A wait that times out leaves all as it was, or goes down.                *)
LEMMA WaitTimeoutBuries ==
  ASSUME HInvariant, BuryInv, WaitTimeout
  PROVE  BuryInv'
<1>1. /\ drain.pc = "wait" /\ Leave(TRUE) /\ (drain.from # "reboot" => files' = files)
      /\ files' = files \/ files' \in Torn(h.job)
      /\ UNCHANGED <<ring, h, worker, flushOk, repair, used>>
  BY DEF WaitTimeout, ram, task
<1>2. Powered /\ drain.job = NoJob /\ h.job \in Jobs /\ drain \in Drains
  BY <1>1 DEF Powered, HInvariant, DrainInv, Calm, Tasks
<1>3. CASE drain.from = "reboot"
  <2>1. drain' = [drain EXCEPT !.pc = "off", !.failed = TRUE]
    BY <1>1, <1>3 DEF Leave
  <2>2. drain'.pc = "off" /\ drain'.job = drain.job
    BY <1>2, <2>1 DEF Drains
  <2>3. Sound(h.job.recs) /\ Sound(drain.job.recs) /\ h.job.kind \in {"none", "append", "compact"}
    BY <1>2 DEF BuryInv, Contents, Jobs
  <2> QED BY <1>1, <2>2, <2>3, OffBuries DEF Powered
<1>4. CASE drain.from # "reboot"
  <2>1. drain'.pc = "idle" /\ drain'.job = NoJob
    BY <1>1, <1>4 DEF Leave, Idle
  <2> QED BY <1>1, <1>2, <1>4, <2>1, DrainMoves DEF Powered
<1> QED BY <1>3, <1>4

(* A cut leaves sound files.                                                *)
LEMMA PowerCutBuries ==
  ASSUME HInvariant, BuryInv, PowerCut
  PROVE  BuryInv'
<1>1. /\ files' \in Torn(InFlight) /\ drain' = [drain EXCEPT !.pc = "off", !.from = "none"]
      /\ UNCHANGED <<ring, h>>
  BY DEF PowerCut, ram
<1>2. h.job \in Jobs /\ drain \in Drains /\ drain.job \in Jobs
  BY DEF HInvariant, Calm, Tasks, Drains
<1>3. drain'.pc = "off" /\ drain'.job = drain.job
  BY <1>1, <1>2 DEF Drains
<1>4. Sound(h.job.recs) /\ Sound(drain.job.recs) /\ Sound(NoJob.recs) /\ NoJob.kind = "none"
  BY DEF BuryInv, Contents, NoJob, Sound, Single
<1>5. InFlight.kind \in {"none", "append", "compact"} /\ Sound(InFlight.recs)
  BY <1>2, <1>4 DEF InFlight, Jobs
<1> QED BY <1>1, <1>3, <1>4, <1>5, OffBuries DEF Powered

-----------------------------------------------------------------------------
(* The drain.                                                               *)

(* While the drain builds, all that is deleted and on the card is flagged,  *)
(* and what it builds next is right.                                        *)
LEMMA DrainPlans ==
  ASSUME HInvariant, BuryInv, SizesAssumption, drain.pc = "build"
  PROVE  /\ Powered /\ h \in Tasks /\ drain \in Drains /\ h.job = NoJob /\ drain.job = NoJob
         /\ RingInv(ring, latest) /\ Single(ring) /\ Plain(h.table, repair)
         /\ Book(LiveSeqs, latest, files, h.table, h.flushed, repair, 0)
         /\ (~h.dirty => NoGhosts) /\ (drain.left = 0 => repair = 0)
         /\ DOMAIN files \subseteq DOMAIN h.table \/ drain.left > 0
         /\ drain.left > 0 => Builds(h, Build(h))
<1>1. /\ Powered /\ RingInv(ring, latest) /\ FilesInv(ring, latest, files) /\ Calm
      /\ Book(LiveSeqs, latest, files, h.table, h.flushed, repair, Ahead)
      /\ StrayInv /\ DrainInv
  BY DEF HInvariant, Powered
<1>2. h.job = NoJob /\ drain.job = NoJob /\ ~Done
  BY <1>1 DEF DrainInv, Done, NoJob
<1>3. Ahead = 0
  <2>1. Ahead = drain.job.first
    BY <1>2 DEF Ahead
  <2> QED BY <1>2, <2>1 DEF NoJob
<1>4. Plain(h.table, repair)
  <2>1. \A k, q : ~JustAppended(k, q) /\ ~Replacing(k)
    BY <1>2 DEF JustAppended, Replacing
  <2> QED BY <1>1, <2>1 DEF BuryInv, GhostInv, Plain, OnCard
<1>5. \A k \in DOMAIN files \ DOMAIN h.table : drain.left > 0 /\ Astray(h, k)
  BY <1>1, <1>2 DEF StrayInv, Stray
<1>6. h \in Tasks /\ drain \in Drains
  BY <1>1 DEF Calm
<1>7. drain.left > 0 => Builds(h, Build(h))
  BY <1>1, <1>3, <1>5, <1>6, BuildBook
<1> QED BY <1>1, <1>2, <1>3, <1>4, <1>5, <1>6, <1>7 DEF BuryInv, Contents

(* The drain builds a rewrite that takes nothing deleted along.             *)
LEMMA DrainBuildBuries ==
  ASSUME HInvariant, BuryInv, SizesAssumption, DrainBuild
  PROVE  BuryInv'
<1> DEFINE b == Build(h)
           T == Tabled(b.h, b.job)
           J == AsRewrite(b.job)
           t == b.h.table
<1>1. /\ drain.pc = "build" /\ drain.left > 0 /\ b.job.kind # "none"
      /\ h' = T /\ drain' = [drain EXCEPT !.pc = "write", !.left = drain.left - 1, !.job = J]
      /\ repair' = 0 /\ UNCHANGED <<ring, worker, flushOk, files, used>>
  BY DEF DrainBuild, ram, disk
<1>2. /\ Powered /\ h \in Tasks /\ drain \in Drains /\ h.job = NoJob
      /\ RingInv(ring, latest) /\ Single(ring) /\ Plain(h.table, repair)
      /\ (~h.dirty => NoGhosts) /\ Builds(h, b)
  BY <1>1, DrainPlans
<1>3. Plain(t, 0)
  BY <1>2, BuildBuries
<1>4. Sound(J.recs) /\ DeadSeqs \cap Seqs(J.recs) = {}
  BY <1>2, BuildLive, LiveIsNotDead
<1> HIDE DEF b
<1>5. b.h \in Tasks /\ b.h.job = NoJob /\ b.h.dirty = h.dirty
  BY <1>2 DEF Builds
<1>6. /\ T.job = NoJob /\ T.dirty = b.h.dirty
      /\ \A k \in DOMAIN T.table : k # J.first => k \in DOMAIN t /\ T.table[k] = t[k]
  <2> DEFINE t2 == IF b.job.kind = "append" THEN Enter(t, b.job) ELSE t
  <2>1. T = [b.h EXCEPT !.table = t2]
    BY DEF Tabled
  <2>2. J.first = b.job.first
    <3>1. CASE b.job.kind = "append"
      <4>1. b.job \in Jobs
        BY <1>1, <1>2 DEF Builds, Shape
      <4> QED BY <3>1, <4>1 DEF AsRewrite, Jobs
    <3>2. CASE b.job.kind # "append"
      BY <3>2 DEF AsRewrite
    <3> QED BY <3>1, <3>2
  <2>3. \A k \in DOMAIN t2 : k # b.job.first => k \in DOMAIN t /\ t2[k] = t[k]
    BY DEF Enter, With
  <2> HIDE DEF t2, T, J
  <2>4. T.table = t2 /\ T.job = b.h.job /\ T.dirty = b.h.dirty
    BY <1>5, <2>1 DEF Tasks
  <2> QED BY <1>5, <2>2, <2>3, <2>4
<1> HIDE DEF T, J
<1>7. drain'.pc = "write" /\ drain'.job = J
  BY <1>1, <1>2 DEF Drains
<1>8. DeadSeqs' = DeadSeqs /\ (NoGhosts' = NoGhosts)
  BY <1>1 DEF DeadSeqs, NoGhosts
<1>9. Contents'
  <2>1. Sound(NoJob.recs)
    BY DEF NoJob, Sound, Single
  <2> QED BY <1>1, <1>4, <1>6, <1>7, <2>1 DEF BuryInv, Contents
<1>10. GhostInv'
  <2> SUFFICES ASSUME NEW q \in DeadSeqs, NEW k \in DOMAIN files, OnCard(files, k, q), k # J.first
               PROVE  Flagged(T.table, 0, k)
    BY <1>1, <1>7, <1>8 DEF GhostInv, Replacing
  <2>1. Flagged(t, 0, k)
    BY <1>3 DEF Plain
  <2> QED BY <1>6, <2>1 DEF Flagged
<1>11. h'.job.kind = "none"
  BY <1>1, <1>6 DEF NoJob
<1> QED BY <1>1, <1>2, <1>4, <1>5, <1>6, <1>7, <1>8, <1>9, <1>10, <1>11 DEF BuryInv

(* Its write takes the deleted out of the file.                             *)
LEMMA DrainWriteBuries ==
  ASSUME HInvariant, BuryInv, DrainWrite
  PROVE  BuryInv'
<1> DEFINE J == drain.job
           c == CommitCompact(h, J)
<1>1. /\ drain.pc = "write" /\ files' = Rewritten(J) /\ h' = Commit(h, J)
      /\ drain' = [drain EXCEPT !.pc = "build", !.job = NoJob]
      /\ UNCHANGED <<ring, worker, flushOk, repair, used>>
  BY DEF DrainWrite, ram
<1>2. /\ Powered /\ Calm /\ DrainInv /\ h \in Tasks /\ drain \in Drains
      /\ Book(LiveSeqs, latest, files, h.table, h.flushed, repair, Ahead)
  BY <1>1 DEF HInvariant, Powered, Calm
<1>3. h.job = NoJob /\ repair = 0 /\ RewritePlan(LiveSeqs, h.table, h.flushed, J)
  BY <1>1, <1>2 DEF DrainInv
<1>4. h' = c /\ J.first \in DOMAIN h.table /\ h.table[J.first] \in Entries
  BY <1>1, <1>2, <1>3 DEF Commit, RewritePlan, Book, TableInv
<1>5. c.job = h.job /\ c.dirty = h.dirty
  BY <1>2 DEF CommitCompact, Tasks
<1>6. \A e \in DOMAIN c.table : e # J.first => e \in DOMAIN h.table /\ c.table[e] = h.table[e]
  BY <1>2, <1>4, CommitCompactIs
<1> HIDE DEF c
<1>7. drain'.pc = "build" /\ drain'.job = NoJob
  BY <1>1, <1>2 DEF Drains
<1>8. /\ DeadSeqs' = DeadSeqs /\ DeadSeqs \cap Seqs(J.recs) = {}
      /\ GhostInv /\ (~h.dirty => NoGhosts) /\ Contents
  BY <1>1, <1>2 DEF BuryInv, DeadSeqs
<1>9. ASSUME NEW q \in DeadSeqs, NEW k, OnCard(files', k, q)
      PROVE  k # J.first /\ OnCard(files, k, q)
  BY <1>1, <1>8, <1>9, Brings
<1>10. ~h'.dirty => h'.job.kind = "none" /\ NoGhosts'
  BY <1>3, <1>4, <1>5, <1>8, <1>9 DEF NoGhosts, NoJob, OnCard
<1>11. GhostInv'
  <2> SUFFICES ASSUME NEW q \in DeadSeqs, NEW k, OnCard(files', k, q)
               PROVE  Flagged(c.table, 0, k)
    BY <1>1, <1>3, <1>4, <1>8 DEF GhostInv
  <2>1. k # J.first /\ OnCard(files, k, q)
    BY <1>9
  <2>2. Flagged(h.table, 0, k)
    <3>1. ~JustAppended(k, q)
      BY <1>3 DEF JustAppended, NoJob
    <3> QED BY <1>3, <1>8, <2>1, <3>1 DEF GhostInv, Replacing, OnCard
  <2> QED BY <1>6, <2>1, <2>2 DEF Flagged
<1>12. Contents'
  <2>1. Sound(NoJob.recs)
    BY DEF NoJob, Sound, Single
  <2>2. \A k \in DOMAIN files' : Sound(files'[k].recs)
    BY <1>1, <1>8, WrittenSound DEF Contents
  <2> QED BY <1>1, <1>3, <1>4, <1>5, <1>7, <1>8, <2>1, <2>2 DEF Contents
<1>13. h'.job.kind = "none" /\ Seqs(NoJob.recs) = {}
  BY <1>3, <1>4, <1>5 DEF NoJob, Seqs
<1> QED BY <1>1, <1>3, <1>7, <1>10, <1>11, <1>12, <1>13 DEF BuryInv

(* A drain that ends leaves flags on all that is left.                      *)
LEMMA DrainEndBuries ==
  ASSUME HInvariant, BuryInv, SizesAssumption, DrainEnd
  PROVE  BuryInv'
<1> DEFINE b == IF drain.left > 0 THEN Build(h) ELSE [h |-> h, job |-> NoJob]
           unsaved == drain.from # "flush"
<1>1. /\ drain.pc = "build" /\ b.job.kind = "none"
      /\ \/ /\ ~MoreWork(b.h) /\ FinishResync(b.h, Saved(b.h))
            /\ Leave(b.h.purge /\ ~Clean(b.h.table))
         \/ ResyncFails(b.h)
         \/ h' = b.h /\ Leave(TRUE) /\ UNCHANGED <<disk, fails, used>>
      /\ repair' = (IF drain.left > 0 THEN 0 ELSE repair)
      /\ ring' = ring
  BY DEF DrainEnd, ram
<1>2. /\ Powered /\ h \in Tasks /\ drain \in Drains /\ h.job = NoJob /\ drain.job = NoJob
      /\ RingInv(ring, latest) /\ Plain(h.table, repair)
      /\ Book(LiveSeqs, latest, files, h.table, h.flushed, repair, 0)
      /\ (~h.dirty => NoGhosts) /\ (drain.left = 0 => repair = 0)
      /\ DOMAIN files \subseteq DOMAIN h.table \/ drain.left > 0
      /\ (drain.left > 0 => Builds(h, Build(h)))
  BY <1>1, DrainPlans
<1>3. /\ b.h \in Tasks /\ b.h.job = NoJob /\ b.h.dirty = h.dirty
      /\ TableInv(LiveSeqs, latest, b.h.table, b.h.flushed)
      /\ DOMAIN files \subseteq DOMAIN b.h.table
      /\ Plain(b.h.table, 0) /\ repair' = 0
  <2>1. CASE drain.left > 0
    <3>1. b = Build(h) /\ repair' = 0
      BY <1>1, <2>1
    <3>2. Builds(h, b) /\ Plain(b.h.table, 0)
      <4>1. Builds(h, Build(h)) /\ Plain(Build(h).h.table, 0)
        BY <1>2, <2>1, BuildBuries
      <4> QED BY <3>1, <4>1
    <3> HIDE DEF b
    <3> QED BY <1>1, <1>2, <3>1, <3>2 DEF Builds, Book
  <2>2. CASE ~(drain.left > 0)
    <3>1. b.h = h /\ repair' = repair
      BY <1>1, <2>2
    <3>2. repair = 0
      BY <1>2, <2>2 DEF Drains
    <3> HIDE DEF b
    <3> QED BY <1>2, <2>2, <3>1, <3>2 DEF Book
  <2> QED BY <2>1, <2>2
<1> HIDE DEF b
<1>4. ~b.h.purge /\ b.h.dirty \in BOOLEAN
  BY <1>3 DEF Tasks
<1>5. /\ files' = files /\ used' = used
      /\ \/ h' = Saved(b.h) /\ Leave(FALSE) /\ ~MoreWork(b.h)
         \/ h' = b.h /\ Leave(TRUE)
  BY <1>1, <1>4 DEF FinishResync, ResyncFails, disk
<1>6. h'.job = NoJob /\ h'.table = b.h.table /\ (~h'.dirty => NoGhosts)
  <2>1. CASE h' = Saved(b.h) /\ ~MoreWork(b.h)
    <3>1. h' = [b.h EXCEPT !.dirty = b.h.dirty /\ unsaved]
      BY <2>1 DEF Saved
    <3>2. h'.job = b.h.job /\ h'.table = b.h.table
      BY <1>3, <3>1 DEF Tasks
    <3>3. \A k \in DOMAIN b.h.table : ~b.h.table[k].dirty /\ ~b.h.table[k].open
      BY <2>1 DEF MoreWork
    <3>4. NoGhosts
      BY <1>3, <3>3, NothingFlagged
    <3> QED BY <1>3, <3>2, <3>4
  <2>2. CASE h' = b.h
    BY <1>2, <1>3, <2>2
  <2> QED BY <1>5, <2>1, <2>2
<1>7. drain'.pc \in {"idle", "off"} /\ drain'.job = NoJob
  <2>1. PICK f : Leave(f)
    BY <1>5
  <2>2. CASE drain' = [drain EXCEPT !.pc = "off", !.failed = f]
    <3>1. drain'.pc = "off" /\ drain'.job = drain.job
      BY <1>2, <2>2 DEF Drains
    <3> QED BY <1>2, <3>1
  <2>3. CASE drain' = Idle
    BY <2>3 DEF Idle
  <2> QED BY <2>1, <2>2, <2>3 DEF Leave
<1>8. CASE drain'.pc = "off"
  <2>1. NoJob.kind = "none" /\ Sound(NoJob.recs)
    BY DEF NoJob, Sound, Single
  <2> QED BY <1>1, <1>5, <1>6, <1>7, <1>8, <2>1, OffBuries DEF Powered
<1>9. CASE drain'.pc = "idle"
  BY <1>1, <1>3, <1>5, <1>6, <1>7, <1>9, RestBuries
<1> QED BY <1>7, <1>8, <1>9

(* A boot reads live messages only, and each number once.                   *)
LEMMA PowerOnBuries ==
  ASSUME HInvariant, BuryInv, SizesAssumption, PowerOn, ~used'.odd
  PROVE  BuryInv'
<1> DEFINE M == RestoredOf(files)
           N == Newest(M, RingCap)
<1>1. /\ FilesInv(ring, latest, files) /\ latest \in Nat /\ marker = TRUE
      /\ \A k \in DOMAIN files : Sound(files[k].recs)
  <2>1. used' = [used EXCEPT !.late = {}, !.odd = used.odd \/ (marker /\ ~Orderly)]
    BY DEF PowerOn, Boot
  <2>2. marker = TRUE /\ used \in Uses
    BY DEF HInvariant, Calm
  <2>3. Orderly
    BY <2>1, <2>2 DEF Uses
  <2> QED BY <2>2, <2>3 DEF HInvariant, RingInv, BuryInv, Contents
<1>2. Restored = M /\ BootRing = N
  BY <1>1 DEF Restored, BootRing, Legible, Loaded, RestoredOf, LoadedOf, LegibleOf
<1>3. /\ ring' = N /\ files' = BootFiles /\ repair' = 0 /\ drain' = Idle
      /\ h' = Booted(BootTable, LastOf(M), TRUE)
  BY <1>1, <1>2 DEF PowerOn, Boot
<1>4. /\ N \subseteq M /\ M \in SUBSET Records
      /\ \A x \in M : \E k \in DOMAIN files : x \in files[k].recs
  <2>1. LegibleOf(files) \subseteq DOMAIN files
    BY <1>1, AllListed
  <2>2. N \subseteq M /\ M \in SUBSET Records /\ \A x \in M : \E k \in LegibleOf(files) : x \in files[k].recs
    BY <1>1, BootRingIs
  <2> HIDE DEF M, N
  <2> QED BY <2>1, <2>2
<1> HIDE DEF M, N
<1>5. \A x \in N : x.live
  BY <1>1, <1>4 DEF Sound
<1>6. ASSUME NEW x \in N, NEW y \in N, x.seq = y.seq PROVE x = y
  <2>1. PICK k \in DOMAIN files : x \in files[k].recs
    BY <1>4
  <2>2. PICK e \in DOMAIN files : y \in files[e].recs
    BY <1>4
  <2>3. /\ k \in Nat /\ e \in Nat /\ k <= x.seq /\ e <= y.seq /\ x.seq \in Nat /\ y.seq \in Nat
        /\ (k < e => x.seq < e) /\ (e < k => y.seq < k)
    <3>1. k \in 1..latest /\ e \in 1..latest
          /\ OneFile(ring, latest, k, files[k]) /\ OneFile(ring, latest, e, files[e])
      BY <1>1, <2>1, <2>2 DEF FilesInv
    <3>2. (k < e => x.seq < e) /\ (e < k => y.seq < k)
      BY <1>1, <2>1, <2>2 DEF FilesInv
    <3>3. x.seq \in Nat /\ y.seq \in Nat
      BY <1>4 DEF Records
    <3> QED BY <1>1, <2>1, <2>2, <3>1, <3>2, <3>3 DEF OneFile
  <2>4. k = e
    BY <1>6, <2>3
  <2> QED BY <1>1, <1>6, <2>1, <2>2, <2>4 DEF Sound, Single
<1>7. DeadSeqs' = {} /\ Single(ring')
  BY <1>3, <1>5, <1>6 DEF DeadSeqs, Single
<1>8. h'.job = NoJob /\ drain'.job = NoJob /\ drain'.pc = "idle"
  BY <1>3 DEF Booted, Idle
<1>9. \A k \in DOMAIN files' : Sound(files'[k].recs)
  BY <1>1, <1>3 DEF BootFiles, OnlyOf
<1>10. NoJob.kind = "none" /\ Sound(NoJob.recs)
  BY DEF NoJob, Sound, Single
<1> QED BY <1>7, <1>8, <1>9, <1>10 DEF BuryInv, Contents, GhostInv, NoGhosts

-----------------------------------------------------------------------------
(* The deleted stay deleted.                                                *)

(* No message is deleted at the first start, and no file is there.          *)
LEMMA InitBuries ==
  ASSUME Init
  PROVE  BuryInv
<1>1. ring = {} /\ h.job = NoJob /\ drain.job = NoJob /\ drain.pc = "idle" /\ DOMAIN files = {}
  BY DEF Init, Booted, Idle, Nothing
<1>2. NoJob.kind = "none" /\ Sound(NoJob.recs)
  BY DEF NoJob, Sound, Single
<1> QED BY <1>1, <1>2 DEF BuryInv, Contents, Single, GhostInv, NoGhosts, DeadSeqs

(* Nothing changes while nothing happens.                                   *)
LEMMA BuriedRests ==
  ASSUME BuryInv, UNCHANGED vars
  PROVE  BuryInv'
BY DEF vars, BuryInv, Contents, Powered, GhostInv, NoGhosts, DeadSeqs, JustAppended, Done, Replacing

(* Every step keeps it.                                                     *)
LEMMA NextBuries ==
  ASSUME HInvariant, BuryInv, SizesAssumption, Steady, Next, Undisturbed, Undisturbed'
  PROVE  BuryInv'
<1>0. used \in Uses /\ h \in Tasks
  BY DEF HInvariant, Calm
<1>1. CASE User
  BY <1>1, ReceiveBuries, DeleteBuries, AcknowledgeBuries DEF User
<1>2. CASE Worker
  BY <1>2, ClaimBuries, RunJobBuries, RunJobFailsBuries, FinishBuries DEF Worker
<1>3. CASE Flush
  BY <1>3, TickBuries, FlushBuries, ArmBuries DEF Flush
<1>4. CASE PersistNow \/ Reboot
  <2>1. PICK x \in {"persists", "reboots"} :
          /\ used' = Saving(Spent(x)) /\ Spent(x) \in Uses /\ Spent(x).late = used.late
          /\ SaveNow("persist") \/ SaveNow("reboot")
    <3>1. \A x \in {"persists", "reboots"} : Spent(x) \in Uses /\ Spent(x).late = used.late
      BY <1>0 DEF Spent, Uses
    <3> QED BY <1>4, <3>1 DEF PersistNow, Reboot
  <2>2. used'.late = used.late /\ ~Strands
    BY <2>1, SavingUses DEF Undisturbed
  <2> QED BY <2>1, <2>2, SaveNowBuries
<1>5. CASE Drain
  <2>1. ~DrainMigrate
    BY <1>0 DEF DrainMigrate, Tasks
  <2>2. ~DrainWriteFails
    <3>1. DrainWriteFails => Spend("syncFails")
      BY DEF DrainWriteFails
    <3>2. ~Spend("syncFails")
      BY <1>0 DEF Spend, Spent, Uses, Undisturbed
    <3> QED BY <3>1, <3>2
  <2>3. ~used'.stray
    BY DEF Undisturbed
  <2> QED BY <1>5, <2>1, <2>2, <2>3, WaitOverBuries, WaitTimeoutBuries, DrainBuildBuries,
             DrainWriteBuries, DrainEndBuries DEF Drain
<1>6. CASE Remount
  BY <1>0, <1>6 DEF Remount, Spend, Spent, Uses, Undisturbed
<1>7. CASE PowerCut
  BY <1>7, PowerCutBuries
<1>8. CASE PowerOn
  BY <1>8, PowerOnBuries DEF Undisturbed
<1> QED BY <1>1, <1>2, <1>3, <1>4, <1>5, <1>6, <1>7, <1>8 DEF Next

(* What the next boot restores stands in a file.                            *)
LEMMA QuietBuries ==
  ASSUME HInvariant, BuryInv, SizesAssumption
  PROVE  QuietDropsDeleted
<1> SUFFICES ASSUME Quiet, NEW m \in ring, ~m.live, m.seq \notin used.late, Restores(m.seq)
             PROVE  FALSE
  BY DEF QuietDropsDeleted
<1> DEFINE M == RestoredOf(files)
           N == Newest(M, RingCap)
<1>1. NoGhosts /\ m.seq \in DeadSeqs
  BY DEF Quiet, LoopFree, Powered, BuryInv, DeadSeqs
<1>2. FilesInv(ring, latest, files) /\ latest \in Nat /\ marker = TRUE
  BY DEF Quiet, LoopFree, Powered, HInvariant, RingInv, Calm
<1>3. BootRing = N
  BY <1>2 DEF Restored, BootRing, Legible, Loaded, RestoredOf, LoadedOf, LegibleOf
<1>4. N \subseteq M /\ \A x \in M : \E k \in LegibleOf(files) : x \in files[k].recs
  BY <1>2, BootRingIs
<1> HIDE DEF M, N
<1>5. PICK x \in N : x.seq = m.seq
  BY <1>3 DEF Restores, Seqs
<1>6. PICK k \in LegibleOf(files) : x \in files[k].recs
  BY <1>4, <1>5
<1>7. k \in DOMAIN files /\ files[k].hdr
  BY <1>2, AllListed
<1> QED BY <1>1, <1>5, <1>6, <1>7 DEF NoGhosts, OnCard, Seqs

(* With nothing left to do, no message deleted in the ring comes back with  *)
(* the next boot (segMarkSeqDirty, segCommitJob), until the first remount,  *)
(* failed write of the loop task's, save that strands a file, or boot from  *)
(* files no save leaves; what is deleted in the tick between the end of a   *)
(* rewrite and its commit is left out (used.late).                          *)
THEOREM QuietHolds ==
  Steady => (Spec => [](Undisturbed => QuietDropsDeleted))
<1> SUFFICES ASSUME Steady PROVE Spec => [](Undisturbed => QuietDropsDeleted)
  OBVIOUS
<1> DEFINE I == Tallied(used) /\ (Undisturbed => HInvariant /\ BuryInv)
<1>1. Init => I
  BY InitHolds, InitBuries, SizesAssumption DEF Init, Tallied, Fields
<1>2. I /\ [Next]_vars => I'
  <2> SUFFICES ASSUME I, [Next]_vars PROVE I'
    OBVIOUS
  <2>1. Tallies(used, used')
    BY UsedStep
  <2>2. Undisturbed' => Undisturbed
    BY <2>1 DEF Undisturbed, Tallies, Tallied
  <2>3. ASSUME Undisturbed' PROVE HInvariant' /\ BuryInv'
    <3>1. CASE UNCHANGED vars
      BY <2>2, <2>3, <3>1, RestsHere, BuriedRests
    <3>2. CASE Next
      BY <2>2, <2>3, <3>2, NextStep, NextBuries, SizesAssumption
    <3> QED BY <3>1, <3>2
  <2>4. Tallied(used)'
    BY <2>1 DEF Tallies, Tallied
  <2> QED BY <2>3, <2>4
<1>3. I => (Undisturbed => QuietDropsDeleted)
  BY QuietBuries, SizesAssumption
<1> HIDE DEF I
<1> QED BY <1>1, <1>2, <1>3, PTL DEF Spec
=============================================================================
