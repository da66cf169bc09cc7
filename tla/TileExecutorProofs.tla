-------------------------- MODULE TileExecutorProofs --------------------------
(***************************************************************************)
(* Proofs about TileExecutor, for every number of tiles, every capacity of *)
(* the queue and of the ring, and every token space that is larger than    *)
(* both.  The invariant follows each request through the hands of the UI   *)
(* thread, the queue and the worker.                                       *)
(***************************************************************************)
EXTENDS TileExecutor, FiniteSetTheorems, WellFoundedInduction, TLAPS

Slots    == 0 .. (RecentCapacity - 1)
OrNoWork == Work \cup {NoWork}

Shapes ==
  /\ active \subseteq Work /\ IsFiniteSet(active)
  /\ recent \in [Slots -> OrNoWork] /\ head \in Slots
  /\ nextToken \in 0 .. (TokenSpace - 1)
  /\ queue \in Seq(Work) /\ Len(queue) <= QueueCapacity
  /\ uiPC \in {"idle", "reserved", "full"} /\ uiWork \in OrNoWork
  /\ workerPC \in {"loop", "polled", "have", "done"} /\ workerWork \in OrNoWork
  /\ retained \in BOOLEAN

(* Who has a request in hand, by where it is in its code.                   *)
Hands ==
  /\ uiPC = "idle" <=> uiWork = NoWork
  /\ workerPC \in {"have", "done"} \/ retained <=> workerWork # NoWork
  /\ retained => workerPC # "done"

(* A request is in one place.                                               *)
OnePlace ==
  /\ uiWork # NoWork => uiWork # workerWork
  /\ \A p \in 1 .. Len(queue) : queue[p] # uiWork /\ queue[p] # workerWork
  /\ \A p, q \in 1 .. Len(queue) : queue[p] = queue[q] => p = q

Counted ==
  /\ active = Held \cup Queued
  /\ pending = Cardinality(active)
  /\ Cardinality(active) = Cardinality(Held) + Len(queue)
  /\ Cardinality(active) <= ActiveCapacity

TInv == Shapes /\ Hands /\ OnePlace /\ Counted /\ NoDoubleFetch

LEMMA CountFromOne == \A b \in Nat : b >= 1 => IsFiniteSet(1 .. b) /\ Cardinality(1 .. b) = b
<1> SUFFICES ASSUME NEW b \in Nat, b >= 1 PROVE IsFiniteSet(1 .. b) /\ Cardinality(1 .. b) = b
  OBVIOUS
<1>1. 1 \in Int /\ b \in Int
  OBVIOUS
<1>2. IsFiniteSet(1 .. b) /\ Cardinality(1 .. b) = IF 1 > b THEN 0 ELSE b - 1 + 1
  BY <1>1, FS_Interval, Zenon
<1> QED BY <1>2

USE TileAssumption, NoWorkAssumption DEF ActiveCapacity

-----------------------------------------------------------------------------
(* Tokens.                                                                  *)

LEMMA Wrap ==
  ASSUME NEW T \in Nat, T > 0, NEW a \in Nat, a < 2 * T
  PROVE  a % T = IF a < T THEN a ELSE a - T
<1> DEFINE q == a \div T
           r == a % T
<1>1. /\ q \in Int /\ r \in Int /\ a = T * q + r /\ 0 <= r /\ r < T
  OBVIOUS
<1>2. q >= 0
  BY <1>1
<1>3. q < 2
  BY <1>1
<1>4. q = 0 \/ q = 1
  BY <1>1, <1>2, <1>3
<1> HIDE DEF q, r
<1>5. (q = 0 => r = a) /\ (q = 1 => r = a - T)
  BY <1>1
<1>6. r = IF a < T THEN a ELSE a - T
  BY <1>1, <1>4, <1>5
<1> QED BY <1>6 DEF r

LEMMA LeastOf == ASSUME NEW D \in SUBSET Nat, D # {}
                 PROVE  \E m \in D : \A k \in D : ~(k < m)
<1>1. PICK m \in D : \A k \in D : <<k, m>> \notin OpToRel(<, Nat)
  BY WFMin, NatLessThanWellFounded, Zenon
<1>2. \A k \in D : ~(k < m)
  BY <1>1, Zenon DEF OpToRel
<1> QED BY <1>2

(* Fewer tokens are in use than there are, so the loop of reserve() ends,   *)
(* and ends on a token that neither a request nor a mark carries.           *)
LEMMA FreshTokenIsFresh ==
  ASSUME Shapes, Cardinality(active) < ActiveCapacity
  PROVE  FreshToken \in Tokens /\ \A w \in active \cup Marks : w.token # FreshToken
<1> DEFINE S == active \cup Marks
           used == {w.token : w \in S}
           after(d) == (nextToken + d) % TokenSpace
           fresh(d) == after(d) # 0 /\ after(d) \notin used
           marked == {recent[j] : j \in Slots}
<1> USE DEF Shapes
<1>1. IsFiniteSet(Slots) /\ Cardinality(Slots) = RecentCapacity
  BY FS_Interval DEF Slots
<1>2. IsFiniteSet(marked) /\ Cardinality(marked) <= RecentCapacity
  <2>1. recent \in Surjection(Slots, marked)
    BY DEF Surjection
  <2> QED BY <1>1, <2>1, FS_Surjection
<1>3. IsFiniteSet(Marks) /\ Cardinality(Marks) <= RecentCapacity
  <2>1. Marks \in SUBSET marked
    BY DEF Marks, Slots
  <2> QED BY <1>2, <2>1, FS_Subset, FS_CardinalityType
<1>4. IsFiniteSet(S) /\ Cardinality(S) <= Cardinality(active) + Cardinality(Marks)
  <2>1. IsFiniteSet(active \cap Marks)
    BY FS_Subset
  <2>2. /\ Cardinality(active) \in Nat /\ Cardinality(Marks) \in Nat
        /\ Cardinality(active \cap Marks) \in Nat
    BY <1>3, <2>1, FS_CardinalityType
  <2>3. /\ IsFiniteSet(active \cup Marks)
        /\ Cardinality(active \cup Marks)
             = Cardinality(active) + Cardinality(Marks) - Cardinality(active \cap Marks)
    BY <1>3, FS_Union
  <2> QED BY <2>2, <2>3
<1>5. IsFiniteSet(used) /\ Cardinality(used) <= Cardinality(S)
  <2> DEFINE f == [w \in S |-> w.token]
  <2>1. f \in Surjection(S, used)
    BY DEF Surjection
  <2> QED BY <1>4, <2>1, FS_Surjection
<1>6. IsFiniteSet(Tokens) /\ Cardinality(Tokens) = TokenSpace - 1
  <2>1. TokenSpace - 1 \in Nat /\ TokenSpace - 1 >= 1
    OBVIOUS
  <2> QED BY <2>1, CountFromOne DEF Tokens
<1>7. PICK t \in Tokens : t \notin used
  <2> SUFFICES ASSUME Tokens \in SUBSET used PROVE FALSE
    OBVIOUS
  <2>1. Cardinality(Tokens) <= Cardinality(used)
    BY <1>5, FS_Subset
  <2>2. /\ Cardinality(active) \in Nat /\ Cardinality(Marks) \in Nat
        /\ Cardinality(S) \in Nat /\ Cardinality(used) \in Nat
    BY <1>3, <1>4, <1>5, FS_CardinalityType
  <2> QED BY <1>3, <1>4, <1>5, <1>6, <2>1, <2>2
<1>8. \A d \in 1 .. TokenSpace : after(d) \in 0 .. (TokenSpace - 1)
  BY Wrap
<1>9. \E d \in 1 .. TokenSpace : after(d) = t
  <2> DEFINE d == IF t > nextToken THEN t - nextToken ELSE t - nextToken + TokenSpace
  <2>1. d \in 1 .. TokenSpace /\ nextToken + d = IF t > nextToken THEN t ELSE t + TokenSpace
    BY DEF Tokens
  <2>2. after(d) = t
    BY <2>1, Wrap DEF Tokens
  <2> QED BY <2>1, <2>2
<1> DEFINE D == {d \in 1 .. TokenSpace : fresh(d)}
<1>10. D \in SUBSET Nat /\ D # {}
  <2>1. t # 0
    BY DEF Tokens
  <2>2. \E d \in 1 .. TokenSpace : fresh(d)
    BY <1>7, <1>9, <2>1
  <2>3. 1 .. TokenSpace \subseteq Nat
    OBVIOUS
  <2> HIDE DEF fresh
  <2> QED BY <2>2, <2>3
<1>11. PICK m \in D : \A k \in D : ~(k < m)
  BY <1>10, LeastOf
<1>12. m \in 1 .. TokenSpace /\ fresh(m) /\ \A e \in 1 .. (m - 1) : ~fresh(e)
  BY <1>11
<1> DEFINE c == CHOOSE d \in 1 .. TokenSpace : fresh(d) /\ \A e \in 1 .. (d - 1) : ~fresh(e)
<1>13. c \in 1 .. TokenSpace /\ fresh(c)
  BY <1>12
<1>14. FreshToken = after(c)
  BY DEF FreshToken
<1>15. FreshToken \in Tokens
  <2>1. after(c) \in 0 .. (TokenSpace - 1) /\ after(c) # 0
    BY <1>8, <1>13
  <2> HIDE DEF after, c
  <2> QED BY <1>14, <2>1 DEF Tokens
<1>16. FreshToken \notin used
  BY <1>13, <1>14
<1> QED BY <1>15, <1>16

-----------------------------------------------------------------------------
(* Where requests are.                                                      *)

LEMMA QueuedRange == ASSUME queue \in Seq(Work) PROVE Queued = {queue[p] : p \in 1 .. Len(queue)}
BY DEF Queued

LEMMA HeldFinite == ASSUME Shapes, Counted
                    PROVE  /\ IsFiniteSet(Held) /\ Cardinality(Held) \in Nat
                           /\ Held \subseteq active /\ Queued \subseteq active
                           /\ Cardinality(active) \in Nat /\ Len(queue) \in Nat
<1>1. Held \in SUBSET active /\ Queued \subseteq active
  BY DEF Counted
<1>2. IsFiniteSet(Held)
  BY <1>1, FS_Subset DEF Shapes
<1> QED BY <1>1, <1>2, FS_CardinalityType DEF Shapes

(* Retiring the token of a request in hand removes that request alone.      *)
LEMMA RetireOne ==
  ASSUME TInv, NEW w \in active, NEW forgetRecent, Retire(w.token, forgetRecent)
  PROVE  /\ active' = active \ {w} /\ pending' = pending - 1
         /\ IsFiniteSet(active') /\ Cardinality(active') = Cardinality(active) - 1
         /\ recent' \in [Slots -> OrNoWork] /\ UNCHANGED <<head, nextToken>>
<1> DEFINE retired == {v \in active : v.token = w.token}
<1>1. retired = {w}
  BY DEF TInv, NoDoubleFetch
<1>2. Cardinality(retired) = 1
  BY <1>1, FS_Singleton
<1>3. active' = active \ retired /\ pending' = pending - Cardinality(retired)
  BY DEF Retire
<1>4. IsFiniteSet(active)
  BY DEF TInv, Shapes
<1>5. /\ IsFiniteSet(active \ {w}) /\ Cardinality(active \ {w}) = Cardinality(active) - 1
  BY <1>4, FS_RemoveElement
<1>6. DOMAIN recent = Slots /\ \A j \in Slots : recent[j] \in OrNoWork
  BY DEF TInv, Shapes
<1>7. recent' \in [Slots -> OrNoWork]
  BY <1>6 DEF Retire, OrNoWork
<1>8. UNCHANGED <<head, nextToken>>
  BY DEF Retire
<1> HIDE DEF retired
<1> QED BY <1>1, <1>2, <1>3, <1>5, <1>7, <1>8

LEMMA TInitInv == Init => TInv
<1> SUFFICES ASSUME Init PROVE TInv
  OBVIOUS
<1>1. Shapes
  <2>1. active \subseteq Work /\ IsFiniteSet(active)
    BY FS_EmptySet DEF Init
  <2>2. /\ recent \in [Slots -> OrNoWork] /\ head \in Slots
        /\ nextToken \in 0 .. (TokenSpace - 1)
    BY DEF Init, Slots, OrNoWork
  <2>3. queue \in Seq(Work) /\ Len(queue) = 0
    BY DEF Init
  <2>4. /\ uiPC = "idle" /\ uiWork = NoWork /\ workerPC = "loop" /\ workerWork = NoWork
        /\ retained = FALSE
    BY DEF Init
  <2>5. uiWork \in OrNoWork /\ workerWork \in OrNoWork
    BY <2>4 DEF OrNoWork
  <2>6. Len(queue) <= QueueCapacity
    BY <2>3
  <2> QED BY <2>1, <2>2, <2>3, <2>4, <2>5, <2>6 DEF Shapes
<1>2. Hands /\ OnePlace /\ NoDoubleFetch
  BY DEF Init, Hands, OnePlace, NoDoubleFetch
<1>3. Held = {} /\ Queued = {}
  BY DEF Init, Held, Queued
<1>4. Counted
  BY <1>3, FS_EmptySet DEF Init, Counted
<1> QED BY <1>1, <1>2, <1>4 DEF TInv

(* A step that moves no request.                                            *)
LEMMA StillInv ==
  ASSUME TInv, UNCHANGED <<active, pending, queue, uiWork, workerWork>>, Shapes', Hands'
  PROVE  TInv'
BY DEF TInv, OnePlace, Counted, Held, Queued, NoDoubleFetch

LEMMA EnqueueTileInv == ASSUME TInv, NEW k \in Keys, EnqueueTile(k) PROVE TInv'
<1> DEFINE w == [key |-> k, token |-> FreshToken]
<1>1. Shapes /\ Hands /\ OnePlace /\ Counted /\ NoDoubleFetch
  BY DEF TInv
<1>2. Cardinality(active) < ActiveCapacity /\ ~Seen(k)
  BY DEF EnqueueTile, Reservable
<1>3. FreshToken \in Tokens /\ \A v \in active \cup Marks : v.token # FreshToken
  BY <1>1, <1>2, FreshTokenIsFresh
<1> HIDE DEF w
<1>4. w \in Work /\ w.key = k /\ w.token = FreshToken
  BY <1>3 DEF w, Work
<1>5. /\ active' = active \cup {w} /\ pending' = pending + 1
      /\ recent' = [recent EXCEPT ![head] = w] /\ head' = (head + 1) % RecentCapacity
      /\ nextToken' = FreshToken /\ uiWork = NoWork /\ uiWork' = w /\ uiPC' = "reserved"
      /\ UNCHANGED <<queue, workerPC, workerWork, retained>>
  BY <1>1, <1>4 DEF EnqueueTile, Reserve, w, Hands, worker
<1>6. w \notin active /\ w # NoWork
  BY <1>3, <1>4
<1>7. /\ IsFiniteSet(active') /\ Cardinality(active') = Cardinality(active) + 1
      /\ Cardinality(active) \in Nat
  BY <1>1, <1>5, <1>6, FS_AddElement, FS_CardinalityType DEF Shapes
<1>8. Shapes'
  <2>1. head' \in Slots
    BY <1>1, <1>5 DEF Shapes, Slots
  <2>2. recent' \in [Slots -> OrNoWork]
    BY <1>1, <1>4, <1>5 DEF Shapes, OrNoWork
  <2>3. nextToken' \in 0 .. (TokenSpace - 1) /\ uiWork' \in OrNoWork
    BY <1>3, <1>4, <1>5 DEF Tokens, OrNoWork
  <2> QED BY <1>1, <1>4, <1>5, <1>7, <2>1, <2>2, <2>3 DEF Shapes
<1>9. Hands'
  BY <1>1, <1>5, <1>6 DEF Hands
<1>10. workerWork \in active \cup {NoWork} /\ Queued \subseteq active
  BY <1>1 DEF Counted, Held
<1>11. OnePlace'
  <2>1. \A p \in 1 .. Len(queue) : queue[p] \in active
    BY <1>1, <1>10, QueuedRange DEF Shapes
  <2> QED BY <1>1, <1>5, <1>6, <1>10, <2>1 DEF OnePlace
<1>12. Counted'
  <2>1. Held' = Held \cup {w} /\ Queued' = Queued /\ w \notin Held
    BY <1>1, <1>5, <1>6, <1>10 DEF Held, Queued
  <2>2. IsFiniteSet(Held) /\ Cardinality(Held) \in Nat /\ Len(queue) \in Nat
    BY <1>1, HeldFinite
  <2>3. Cardinality(Held') = Cardinality(Held) + 1
    BY <2>1, <2>2, FS_AddElement
  <2> QED BY <1>1, <1>2, <1>5, <1>7, <2>1, <2>2, <2>3 DEF Counted
<1>13. NoDoubleFetch'
  BY <1>1, <1>2, <1>3, <1>4, <1>5 DEF NoDoubleFetch, Seen
<1> QED BY <1>8, <1>9, <1>11, <1>12, <1>13 DEF TInv

LEMMA QueueSendInv == ASSUME TInv, QueueSend PROVE TInv'
<1>1. Shapes /\ Hands /\ OnePlace /\ Counted /\ NoDoubleFetch
  BY DEF TInv
<1>2. /\ uiPC = "reserved" /\ Len(queue) < QueueCapacity /\ queue' = Append(queue, uiWork)
      /\ uiPC' = "idle" /\ uiWork' = NoWork /\ uiWork \in Work
      /\ UNCHANGED <<active, recent, head, pending, nextToken, workerPC, workerWork, retained>>
  BY <1>1 DEF QueueSend, Shapes, Hands, OrNoWork, ledger, worker
<1>3. /\ queue' \in Seq(Work) /\ Len(queue') = Len(queue) + 1 /\ Len(queue) \in Nat
      /\ \A p \in 1 .. Len(queue) : queue'[p] = queue[p]
      /\ queue'[Len(queue) + 1] = uiWork
  BY <1>1, <1>2 DEF Shapes
<1>4. Shapes' /\ Hands'
  BY <1>1, <1>2, <1>3 DEF Shapes, Hands, OrNoWork
<1>5. \A p \in 1 .. Len(queue') : queue'[p] # NoWork
  BY <1>3
<1>6. OnePlace'
  <2>1. \A p \in 1 .. Len(queue') : queue'[p] # workerWork
    BY <1>1, <1>2, <1>3 DEF OnePlace
  <2>2. \A p, q \in 1 .. Len(queue') : queue'[p] = queue'[q] => p = q
    BY <1>1, <1>2, <1>3 DEF OnePlace
  <2> QED BY <1>2, <1>5, <2>1, <2>2 DEF OnePlace
<1>7. Counted'
  <2>1. Held' = Held \ {uiWork} /\ uiWork \in Held
    BY <1>1, <1>2 DEF Held, OnePlace
  <2>2. Queued' = Queued \cup {uiWork}
    <3>1. Queued = {queue[p] : p \in 1 .. Len(queue)}
      BY <1>1, QueuedRange DEF Shapes
    <3>2. Queued' = {queue'[p] : p \in 1 .. Len(queue')}
      BY <1>3 DEF Queued
    <3> QED BY <1>3, <3>1, <3>2
  <2>3. IsFiniteSet(Held) /\ Cardinality(Held) \in Nat
    BY <1>1, HeldFinite
  <2>4. Cardinality(Held') = Cardinality(Held) - 1
    BY <2>1, <2>3, FS_RemoveElement
  <2> QED BY <1>1, <1>2, <1>3, <2>1, <2>2, <2>3, <2>4 DEF Counted
<1>8. NoDoubleFetch'
  BY <1>1, <1>2 DEF NoDoubleFetch
<1> QED BY <1>4, <1>6, <1>7, <1>8 DEF TInv

LEMMA RollbackInv == ASSUME TInv, Rollback PROVE TInv'
<1>1. Shapes /\ Hands /\ OnePlace /\ Counted /\ NoDoubleFetch
  BY DEF TInv
<1>2. /\ uiPC' = "idle" /\ uiWork' = NoWork /\ uiWork \in Work
      /\ Retire(uiWork.token, TRUE)
      /\ UNCHANGED <<queue, workerPC, workerWork, retained>>
  BY <1>1 DEF Rollback, Shapes, Hands, OrNoWork, worker
<1>3. uiWork \in Held /\ uiWork \in active
  BY <1>1, <1>2 DEF Held, Counted
<1>4. /\ active' = active \ {uiWork} /\ pending' = pending - 1
      /\ IsFiniteSet(active') /\ Cardinality(active') = Cardinality(active) - 1
      /\ recent' \in [Slots -> OrNoWork] /\ UNCHANGED <<head, nextToken>>
  BY <1>2, <1>3, RetireOne
<1>5. Shapes' /\ Hands'
  BY <1>1, <1>2, <1>4 DEF Shapes, Hands, OrNoWork
<1>6. \A p \in 1 .. Len(queue) : queue[p] \in Work
  BY <1>1 DEF Shapes
<1>7. OnePlace'
  BY <1>1, <1>2, <1>6 DEF OnePlace
<1>8. Counted'
  <2>1. Held' = Held \ {uiWork} /\ Queued' = Queued /\ uiWork \notin Queued
    BY <1>1, <1>2, QueuedRange DEF Held, Queued, OnePlace, Shapes
  <2>2. IsFiniteSet(Held) /\ Cardinality(Held) \in Nat /\ Len(queue) \in Nat
        /\ Cardinality(active) \in Nat
    BY <1>1, HeldFinite
  <2>3. Cardinality(Held') = Cardinality(Held) - 1
    BY <1>3, <2>1, <2>2, FS_RemoveElement
  <2> QED BY <1>1, <1>2, <1>4, <2>1, <2>2, <2>3 DEF Counted
<1>9. NoDoubleFetch'
  BY <1>1, <1>4 DEF NoDoubleFetch
<1> QED BY <1>5, <1>7, <1>8, <1>9 DEF TInv

LEMMA CompleteInv == ASSUME TInv, Complete PROVE TInv'
<1>1. Shapes /\ Hands /\ OnePlace /\ Counted /\ NoDoubleFetch
  BY DEF TInv
<1>2. /\ workerPC = "done" /\ workerPC' = "loop" /\ workerWork' = NoWork /\ workerWork \in Work
      /\ UNCHANGED <<queue, uiPC, uiWork, retained>>
  BY <1>1 DEF Complete, Shapes, Hands, OrNoWork, ui
<1>3. workerWork \in Held /\ workerWork \in active
  BY <1>1, <1>2 DEF Held, Counted
<1>4. /\ active' = active \ {workerWork} /\ pending' = pending - 1
      /\ IsFiniteSet(active') /\ Cardinality(active') = Cardinality(active) - 1
      /\ recent' \in [Slots -> OrNoWork] /\ UNCHANGED <<head, nextToken>>
  BY <1>3, RetireOne DEF Complete
<1>5. Shapes' /\ Hands'
  BY <1>1, <1>2, <1>4 DEF Shapes, Hands, OrNoWork
<1>6. \A p \in 1 .. Len(queue) : queue[p] \in Work
  BY <1>1 DEF Shapes
<1>7. OnePlace'
  BY <1>1, <1>2, <1>6 DEF OnePlace
<1>8. Counted'
  <2>1. Held' = Held \ {workerWork} /\ Queued' = Queued /\ workerWork \notin Queued
    BY <1>1, <1>2, QueuedRange DEF Held, Queued, OnePlace, Shapes
  <2>2. IsFiniteSet(Held) /\ Cardinality(Held) \in Nat /\ Len(queue) \in Nat
        /\ Cardinality(active) \in Nat
    BY <1>1, HeldFinite
  <2>3. Cardinality(Held') = Cardinality(Held) - 1
    BY <1>3, <2>1, <2>2, FS_RemoveElement
  <2> QED BY <1>1, <1>2, <1>4, <2>1, <2>2, <2>3 DEF Counted
<1>9. NoDoubleFetch'
  BY <1>1, <1>4 DEF NoDoubleFetch
<1> QED BY <1>5, <1>7, <1>8, <1>9 DEF TInv

LEMMA QueueReceiveInv == ASSUME TInv, QueueReceive PROVE TInv'
<1>1. Shapes /\ Hands /\ OnePlace /\ Counted /\ NoDoubleFetch
  BY DEF TInv
<1>2. CASE queue = <<>>
  <2>1. Shapes' /\ Hands'
    BY <1>1, <1>2 DEF QueueReceive, Shapes, Hands, ledger, ui
  <2> QED BY <1>2, <2>1, StillInv DEF QueueReceive, ledger, ui
<1>3. CASE queue # <<>>
  <2>1. /\ workerPC' = "have" /\ workerWork' = Head(queue) /\ queue' = Tail(queue)
        /\ workerWork = NoWork
        /\ UNCHANGED <<active, recent, head, pending, nextToken, uiPC, uiWork, retained>>
    BY <1>1, <1>3 DEF QueueReceive, Hands, ledger, ui
  <2>2. /\ Len(queue) \in Nat /\ Len(queue) > 0 /\ queue[1] \in Work
        /\ workerWork' = queue[1] /\ workerWork' # NoWork
        /\ queue' \in Seq(Work) /\ Len(queue') = Len(queue) - 1
        /\ \A p \in 1 .. Len(queue') : queue'[p] = queue[p + 1]
    BY <1>1, <1>3, <2>1 DEF Shapes
  <2>3. Shapes' /\ Hands'
    BY <1>1, <2>1, <2>2 DEF Shapes, Hands, OrNoWork, QueueReceive
  <2>4. OnePlace'
    BY <1>1, <2>1, <2>2 DEF OnePlace
  <2>5. Counted'
    <3>1. Held' = Held \cup {queue[1]} /\ queue[1] \notin Held
      BY <1>1, <2>1, <2>2 DEF Held, OnePlace
    <3>2. Queued = Queued' \cup {queue[1]}
      <4>1. Queued = {queue[p] : p \in 1 .. Len(queue)}
        BY <1>1, QueuedRange DEF Shapes
      <4>2. Queued' = {queue[p + 1] : p \in 1 .. Len(queue')}
        BY <2>2 DEF Queued
      <4>3. \A p \in 1 .. Len(queue) : p = 1 \/ \E q \in 1 .. Len(queue') : p = q + 1
        <5> SUFFICES ASSUME NEW p \in 1 .. Len(queue), p # 1
                     PROVE  \E q \in 1 .. Len(queue') : p = q + 1
          OBVIOUS
        <5>1. p - 1 \in 1 .. Len(queue') /\ p = (p - 1) + 1
          BY <2>2
        <5> QED BY <5>1
      <4>4. \A q \in 1 .. Len(queue') : q + 1 \in 1 .. Len(queue)
        BY <2>2
      <4>5. Queued' \subseteq Queued /\ queue[1] \in Queued
        BY <2>2, <4>1, <4>2, <4>4
      <4>6. \A v \in Queued : v = queue[1] \/ v \in Queued'
        BY <4>1, <4>2, <4>3
      <4> QED BY <4>5, <4>6
    <3>3. IsFiniteSet(Held) /\ Cardinality(Held) \in Nat
      BY <1>1, HeldFinite
    <3>4. Cardinality(Held') = Cardinality(Held) + 1
      BY <3>1, <3>3, FS_AddElement
    <3> QED BY <1>1, <2>1, <2>2, <3>1, <3>2, <3>3, <3>4 DEF Counted
  <2>6. NoDoubleFetch'
    BY <1>1, <2>1 DEF NoDoubleFetch
  <2> QED BY <2>3, <2>4, <2>5, <2>6 DEF TInv
<1> QED BY <1>2, <1>3

LEMMA TNextInv == TInv /\ [Next]_vars => TInv'
<1> SUFFICES ASSUME TInv, [Next]_vars PROVE TInv'
  OBVIOUS
<1>1. Shapes /\ Hands
  BY DEF TInv
<1> USE DEF ledger, ui, worker, env
<1>2. CASE \E k \in Keys : EnqueueTile(k)
  BY <1>2, EnqueueTileInv
<1>3. CASE QueueSend \/ Rollback \/ QueueReceive \/ Complete
  BY <1>3, QueueSendInv, RollbackInv, QueueReceiveInv, CompleteInv
<1>4. CASE RollbackFull
  <2>1. Shapes' /\ Hands'
    BY <1>1, <1>4 DEF RollbackFull, Shapes, Hands
  <2> QED BY <1>4, <2>1, StillInv DEF RollbackFull
<1>5. CASE ClearRecent \/ \E k \in Keys : Forget(k)
  <2>1. DOMAIN recent = Slots /\ \A j \in Slots : recent[j] \in OrNoWork
    BY <1>1 DEF Shapes
  <2>2. recent' \in [Slots -> OrNoWork] /\ head' \in Slots
    <3>1. CASE ClearRecent
      BY <2>1, <3>1 DEF ClearRecent, OrNoWork, Slots
    <3>2. CASE \E k \in Keys : Forget(k)
      BY <1>1, <2>1, <3>2 DEF Forget, OrNoWork, Shapes
    <3> QED BY <1>5, <3>1, <3>2
  <2>3. UNCHANGED <<active, pending, nextToken, queue, uiPC, uiWork, workerPC, workerWork, retained>>
    BY <1>5 DEF ClearRecent, Forget
  <2>4. Shapes' /\ Hands'
    BY <1>1, <2>2, <2>3 DEF Shapes, Hands
  <2> QED BY <2>3, <2>4, StillInv
<1>6. CASE EnsureRunning \/ PostJob \/ RunPriority \/ EnvNext \/ UNCHANGED vars
  <2>1. UNCHANGED <<active, recent, head, pending, nextToken, queue, uiPC, uiWork,
                    workerPC, workerWork, retained>>
    BY <1>6 DEF EnsureRunning, PostJob, RunPriority, EnvNext, CloseGate, OpenGate, RequestSwap,
       FinishSwap, vars
  <2>2. Shapes' /\ Hands'
    BY <1>1, <2>1 DEF Shapes, Hands
  <2> QED BY <2>1, <2>2, StillInv
<1>7. CASE NoPriority \/ UseRetained \/ Deferred \/ RunTile \/ NoWifi
  <2>1. UNCHANGED <<active, recent, head, pending, nextToken, queue, uiPC, uiWork, workerWork>>
    BY <1>7 DEF NoPriority, UseRetained, Deferred, RunTile, NoWifi
  <2>2. /\ workerPC' \in {"loop", "polled", "have", "done"} /\ retained' \in BOOLEAN
        /\ workerPC' \in {"have", "done"} \/ retained' <=> workerWork # NoWork
        /\ retained' => workerPC' # "done"
    <3>1. CASE NoPriority \/ UseRetained
      BY <1>1, <3>1 DEF NoPriority, UseRetained, Shapes, Hands
    <3>2. CASE Deferred
      BY <1>1, <3>2 DEF Deferred, Shapes, Hands
    <3>3. CASE RunTile \/ NoWifi
      BY <1>1, <3>3 DEF RunTile, NoWifi, Shapes, Hands
    <3> QED BY <1>7, <3>1, <3>2, <3>3
  <2>3. Shapes' /\ Hands'
    BY <1>1, <2>1, <2>2 DEF Shapes, Hands
  <2> QED BY <2>1, <2>3, StillInv
<1> QED BY <1>2, <1>3, <1>4, <1>5, <1>6, <1>7 DEF Next, UiNext, WorkerNext, WorkerStep

(* Every reachable state meets the invariant.                               *)
THEOREM TInvariance == Spec => []TInv
BY TInitInv, TNextInv, PTL DEF Spec

-----------------------------------------------------------------------------
(* However long the queue and the ring are, and however often the counter   *)
(* of tokens has wrapped, no tile is fetched twice at a time and no token   *)
(* names two requests.                                                      *)
THEOREM NoDoubleFetchEver == Spec => []NoDoubleFetch
<1>1. TInv => NoDoubleFetch
  BY DEF TInv
<1> QED BY <1>1, TInvariance, PTL

(* The ledger holds exactly the requests that are on their way, each in one *)
(* place, and the pending count is their number, whatever the interleaving  *)
(* of the UI thread and the worker.                                         *)
THEOREM LedgerIsExact == Spec => []LedgerExact
<1>1. TInv => LedgerExact
  BY DEF TInv, Counted, LedgerExact
<1> QED BY <1>1, TInvariance, PTL

(* A step of the reservation always finds a token: fewer are in use than    *)
(* there are.                                                               *)
THEOREM TokenAlwaysFound ==
  Spec => [](Cardinality(active) < ActiveCapacity => FreshToken \in Tokens)
<1>1. TInv => (Cardinality(active) < ActiveCapacity => FreshToken \in Tokens)
  BY FreshTokenIsFresh DEF TInv
<1> QED BY <1>1, TInvariance, PTL
===============================================================================
