--------------------------- MODULE StorageAccess ---------------------------
(***************************************************************************)
(* platform/StorageAccess.{h,cpp}: the lock-free gate between filesystem   *)
(* users (Reader, the StorageLease of the workers) and lifecycle work      *)
(* (Transition: mount, unmount, restore, backup, power-off).               *)
(*                                                                         *)
(* One action is one access to the shared atomics: `word` is _state (the   *)
(* two writer bits and the reader count), `owner` is _owner.  Every object *)
(* belongs to one task and a task runs one gate operation at a time;       *)
(* operations of different tasks interleave at every step.                 *)
(***************************************************************************)
EXTENDS Naturals, FiniteSets

CONSTANTS
  Tasks,        (* FreeRTOS tasks: their handles are the contexts          *)
  NoTask,       (* the context 0                                           *)
  Readers,      (* Reader objects                                          *)
  Transitions,  (* Transition objects                                      *)
  TaskOf,       (* the task that constructs and destroys each object       *)
  MaxReaders    (* kReaderMask: the largest reader count the word can hold *)

Objects == Readers \cup Transitions

ASSUME GateAssumption ==
  /\ NoTask \notin Tasks
  /\ Readers \cap Transitions = {}
  /\ IsFiniteSet(Readers)
  /\ TaskOf \in [Objects -> Tasks]
  /\ MaxReaders \in Nat \ {0}

VARIABLES
  word,         (* _state: requested, active, reader count                 *)
  owner,        (* _owner                                                  *)
  pc,           (* how far each object's current operation has come        *)
  seen          (* the local copy of the word in Reader() and request()    *)

vars == <<word, owner, pc, seen>>

Word == [requested : BOOLEAN, active : BOOLEAN, readers : 0..MaxReaders]

OpenWord == [requested |-> FALSE, active |-> FALSE, readers |-> 0]
ReservedWord == [requested |-> TRUE, active |-> FALSE, readers |-> 0]
ActiveWord == [requested |-> TRUE, active |-> TRUE, readers |-> 0]

\* Inside an operation, between two accesses to the atomics.
MidOp == {"loaded", "retry", "owned", "claimed", "drained", "ready", "releasing"}
ReaderPC == {"idle", "loaded", "owned", "counted", "borrowed"}
TransitionPC == MidOp \cup {"idle", "reserved", "active", "borrowed"}

\* The task is between two gate operations, so it may start one.
Free(t) == \A o \in Objects : TaskOf[o] = t => pc[o] \notin MidOp

Step(o, from, to) ==
  /\ pc[o] \in from
  /\ pc' = [pc EXCEPT ![o] = to]

\* The local copy goes out of scope with the constructor or request().
Drop(o) == seen' = [seen EXCEPT ![o] = OpenWord]

-----------------------------------------------------------------------------
(* Shared by Reader() and request(): the first load, and the nested borrow *)
(* of an object made by the task that is in its own exclusive phase.       *)

Load(o) ==
  /\ Free(TaskOf[o])
  /\ Step(o, {"idle"}, "loaded")
  /\ seen' = [seen EXCEPT ![o] = word]
  /\ UNCHANGED <<word, owner>>

\* Mutation: the nested borrow forgets that the owner must be active.
MutLendableReserved(o) ==
  seen[o].requested /\ seen[o].readers = 0

Lendable(o) ==
  seen[o].requested /\ seen[o].active /\ seen[o].readers = 0

OwnerMatches(o) ==
  /\ Lendable(o)
  /\ owner = TaskOf[o]
  /\ Step(o, {"loaded"}, "owned")
  /\ UNCHANGED <<word, owner, seen>>

Borrow(o) ==
  /\ word = seen[o]
  /\ Step(o, {"owned"}, "borrowed")
  /\ Drop(o)
  /\ UNCHANGED <<word, owner>>

\* Some other task holds the reservation, or the owner is not active yet.
Refused(o) ==
  /\ \/ /\ pc[o] = "loaded" /\ seen[o].requested
        /\ ~(Lendable(o) /\ owner = TaskOf[o])
     \/ pc[o] = "retry" /\ seen[o].requested
     \/ pc[o] = "owned" /\ word # seen[o]
  /\ Step(o, {"loaded", "retry", "owned"}, "idle")
  /\ Drop(o)
  /\ UNCHANGED <<word, owner>>

\* A borrowed Reader or Transition releases nothing but itself.
ReturnBorrowed(o) ==
  /\ Free(TaskOf[o])
  /\ Step(o, {"borrowed"}, "idle")
  /\ UNCHANGED <<word, owner, seen>>

-----------------------------------------------------------------------------
(* Reader                                                                  *)

\* if ((state & kReaderMask) == kReaderMask) return;
ReaderFull(r) ==
  /\ ~seen[r].requested /\ seen[r].readers = MaxReaders
  /\ Step(r, {"loaded"}, "idle")
  /\ Drop(r)
  /\ UNCHANGED <<word, owner>>

\* Mutation: the writer bit is not tested before the increment.
MutAdmitRequested(r) ==
  /\ seen[r].readers < MaxReaders
  /\ word = seen[r]
  /\ word' = [word EXCEPT !.readers = @ + 1]
  /\ Drop(r)
  /\ Step(r, {"loaded"}, "counted")
  /\ UNCHANGED owner

ReaderAdmit(r) ==
  /\ ~seen[r].requested /\ seen[r].readers < MaxReaders
  /\ word = seen[r]
  /\ word' = [word EXCEPT !.readers = @ + 1]
  /\ Step(r, {"loaded"}, "counted")
  /\ Drop(r)
  /\ UNCHANGED owner

\* A failed compare_exchange reloads the snapshot and the loop starts over.
ReaderRetry(r) ==
  /\ ~seen[r].requested /\ seen[r].readers < MaxReaders
  /\ word # seen[r]
  /\ seen' = [seen EXCEPT ![r] = word]
  /\ Step(r, {"loaded"}, "loaded")
  /\ UNCHANGED <<word, owner>>

ReaderRelease(r) ==
  /\ Free(TaskOf[r])
  /\ word' = [word EXCEPT !.readers = @ - 1]
  /\ Step(r, {"counted"}, "idle")
  /\ UNCHANGED <<owner, seen>>

-----------------------------------------------------------------------------
(* Transition                                                              *)

\* Mutation: the reservation sets both writer bits at once.
MutClaimActive(w) ==
  /\ ~seen[w].requested
  /\ word = seen[w]
  /\ word' = [word EXCEPT !.requested = TRUE, !.active = TRUE]
  /\ Drop(w)
  /\ Step(w, {"loaded", "retry"}, "claimed")
  /\ UNCHANGED owner

\* request(): the CAS that closes admission ...
Claim(w) ==
  /\ ~seen[w].requested
  /\ word = seen[w]
  /\ word' = [word EXCEPT !.requested = TRUE]
  /\ Step(w, {"loaded", "retry"}, "claimed")
  /\ Drop(w)
  /\ UNCHANGED owner

ClaimRetry(w) ==
  /\ ~seen[w].requested
  /\ word # seen[w]
  /\ seen' = [seen EXCEPT ![w] = word]
  /\ Step(w, {"loaded", "retry"}, "retry")
  /\ UNCHANGED <<word, owner>>

\* Mutation: the owner is never published.
MutPublishNothing(w) ==
  /\ Step(w, {"claimed"}, "reserved")
  /\ UNCHANGED <<word, owner, seen>>

\* ... and only then the store that publishes the owner.
Publish(w) ==
  /\ owner' = TaskOf[w]
  /\ Step(w, {"claimed"}, "reserved")
  /\ UNCHANGED <<word, seen>>

\* enter(): ready() loads the word, then the owner; then the CAS.  While the
\* word is not drained enter() returns false and is called again later.  The
\* owner always matches and the CAS never fails (OwnerOfHolder below); if one
\* did, the operation would stick here and ReservationServed would show it.
ReadyWord(w) ==
  /\ Free(TaskOf[w])
  /\ word \in {ReservedWord, ActiveWord}
  /\ Step(w, {"reserved"}, "drained")
  /\ UNCHANGED <<word, owner, seen>>

ReadyOwner(w) ==
  /\ owner = TaskOf[w]
  /\ Step(w, {"drained"}, "ready")
  /\ UNCHANGED <<word, owner, seen>>

EnterCas(w) ==
  /\ word \in {ReservedWord, ActiveWord}
  /\ word' = ActiveWord
  /\ Step(w, {"ready"}, "active")
  /\ UNCHANGED <<owner, seen>>

\* The scope of everything borrowed lies inside the outer Transition's
\* (the callers nest them as C++ scopes; Reader() states the obligation).
Borrowing(t) == \E o \in Objects : TaskOf[o] = t /\ pc[o] = "borrowed"

\* release() of the owning Transition, entered or cancelled before.
ReleaseOwner(w) ==
  /\ Free(TaskOf[w])
  /\ ~Borrowing(TaskOf[w])
  /\ owner' = NoTask
  /\ Step(w, {"reserved", "active"}, "releasing")
  /\ UNCHANGED <<word, seen>>

\* Mutation: the whole word is stored, not the writer bits cleared.
MutReleaseStore(w) ==
  /\ word' = OpenWord
  /\ Step(w, {"releasing"}, "idle")
  /\ UNCHANGED <<owner, seen>>

ReleaseBits(w) ==
  /\ word' = [word EXCEPT !.requested = FALSE, !.active = FALSE]
  /\ Step(w, {"releasing"}, "idle")
  /\ UNCHANGED <<owner, seen>>

-----------------------------------------------------------------------------

Init ==
  /\ word = OpenWord
  /\ owner = NoTask
  /\ pc = [o \in Objects |-> "idle"]
  /\ seen = [o \in Objects |-> OpenWord]

SharedStep(o) ==
  Load(o) \/ OwnerMatches(o) \/ Borrow(o) \/ Refused(o) \/ ReturnBorrowed(o)

ReaderStep(r) ==
  ReaderFull(r) \/ ReaderAdmit(r) \/ ReaderRetry(r) \/ ReaderRelease(r)

TransitionStep(w) ==
  \/ Claim(w) \/ ClaimRetry(w) \/ Publish(w)
  \/ ReadyWord(w) \/ ReadyOwner(w) \/ EnterCas(w)
  \/ ReleaseOwner(w) \/ ReleaseBits(w)

Next ==
  \/ \E o \in Objects : SharedStep(o)
  \/ \E r \in Readers : ReaderStep(r)
  \/ \E w \in Transitions : TransitionStep(w)

Spec == Init /\ [][Next]_vars

-----------------------------------------------------------------------------
(* Fairness: a task scheduled by FreeRTOS finishes the operation it is in; *)
(* every lease and every borrowed scope ends (they are C++ scopes around   *)
(* bounded file work); a reservation is polled again on each event loop    *)
(* tick (StorageMaintenance::Attempt).  The task may run other operations  *)
(* in between, so the last three are strong.                               *)

Continue(o) ==
  \/ OwnerMatches(o) \/ Borrow(o) \/ Refused(o)
  \/ o \in Readers /\ (ReaderFull(o) \/ ReaderAdmit(o) \/ ReaderRetry(o))
  \/ o \in Transitions /\ (\/ Claim(o) \/ ClaimRetry(o) \/ Publish(o)
                           \/ ReadyOwner(o) \/ EnterCas(o)
                           \/ ReleaseBits(o))

Fairness ==
  /\ \A o \in Objects : WF_vars(Continue(o)) /\ SF_vars(ReturnBorrowed(o))
  /\ \A r \in Readers : SF_vars(ReaderRelease(r))
  /\ \A w \in Transitions : SF_vars(ReadyWord(w))

FairSpec == Spec /\ Fairness

-----------------------------------------------------------------------------
(* Properties                                                              *)

Holding == {"claimed", "reserved", "drained", "ready", "active", "releasing"}
Leased == {r \in Readers : pc[r] = "counted"}

TypeOK ==
  /\ word \in Word
  /\ owner \in Tasks \cup {NoTask}
  /\ pc \in [Objects -> TransitionPC \cup ReaderPC]
  /\ \A r \in Readers : pc[r] \in ReaderPC
  /\ \A w \in Transitions : pc[w] \in TransitionPC
  /\ seen \in [Objects -> Word]

\* While a transition is in its exclusive phase no lease is out anywhere, and
\* whatever is borrowed from it is used by its own task: the filesystem is
\* never unmounted or migrated under an open file of another task.
ExclusivePhase ==
  \A w \in Transitions : pc[w] = "active" =>
    /\ Leased = {}
    /\ \A o \in Objects : pc[o] = "borrowed" => TaskOf[o] = TaskOf[w]

\* Reservations never overlap, and the writer bits stand exactly while one
\* does, whatever the interleaving of request, enter, cancel and release.
OneReservation ==
  /\ \A v, w \in Transitions : pc[v] \in Holding /\ pc[w] \in Holding => v = w
  /\ word.requested <=> \E w \in Transitions : pc[w] \in Holding
  /\ word.active => \E w \in Transitions : pc[w] \in {"active", "releasing"}

\* The counter in the word is the number of leases that are out: none is lost
\* when a reservation is placed, entered, cancelled or released around it.
CountIsExact == word.readers = Cardinality(Leased)

\* A task borrows only inside its own exclusive phase, and keeps what it
\* borrowed no longer than that phase.
BorrowedInside ==
  \A o \in Objects : pc[o] = "borrowed" =>
    \E w \in Transitions : pc[w] = "active" /\ TaskOf[w] = TaskOf[o]

\* Once admission is closed the number of leases can only go down.
DrainsMonotonically ==
  [][word.requested /\ word'.requested => word'.readers <= word.readers]_vars

\* A reservation that is polled gets its exclusive phase or is given up: leases
\* arriving all the time cannot hold it off, since admission is closed.
ReservationServed ==
  \A w \in Transitions : pc[w] = "reserved" ~> pc[w] \in {"active", "releasing"}

-----------------------------------------------------------------------------
(* The inductive invariant of StorageAccessProofs.tla: the properties above *)
(* and what they rest on.                                                   *)

\* A task is in at most one gate operation.
Sequential ==
  \A o1, o2 \in Objects :
    TaskOf[o1] = TaskOf[o2] /\ pc[o1] \in MidOp /\ pc[o2] \in MidOp => o1 = o2

\* _owner names the task of the holder from Publish to ReleaseOwner.
OwnerOfHolder ==
  /\ \A w \in Transitions :
       pc[w] \in {"reserved", "drained", "ready", "active"} => owner = TaskOf[w]
  /\ \A w \in Transitions : pc[w] \in {"claimed", "releasing"} => owner = NoTask
  /\ owner # NoTask => word.requested

\* The exclusive phase starts drained and stays so.
ActiveIsDrained ==
  /\ word.active => word.requested /\ word.readers = 0
  /\ \A w \in Transitions : pc[w] = "active" => word.active

\* The owner matched an active word; it stays the owner through its own call.
OwnedIsOwner ==
  \A o \in Objects : pc[o] = "owned" => owner = TaskOf[o] /\ Lendable(o)

IInv ==
  /\ TypeOK /\ Sequential /\ OneReservation /\ CountIsExact
  /\ OwnerOfHolder /\ ActiveIsDrained /\ OwnedIsOwner /\ BorrowedInside

-----------------------------------------------------------------------------
(* The promise: StorageGate.tla, under this refinement mapping.            *)

Gate == INSTANCE StorageGate WITH
  leases <- Leased,
  borrowers <- {o \in Objects : pc[o] = "borrowed"},
  holders <- {w \in Transitions : pc[w] \in Holding},
  exclusive <- word.active

\* Every step of the atomic word is a step of the gate it promises, or none.
ImplementsGate == Gate!GateSpec
=============================================================================
