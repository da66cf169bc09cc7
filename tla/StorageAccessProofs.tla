------------------------ MODULE StorageAccessProofs ------------------------
(***************************************************************************)
(* Theorems about StorageAccess for any number of tasks, leases and        *)
(* transitions and any width of the reader count.                          *)
(***************************************************************************)
EXTENDS StorageAccess, FiniteSetTheorems, TLAPS

USE GateAssumption

\* What every other conjunct speaks of: the fields of the word.
LEMMA WordFields ==
  ASSUME word \in Word
  PROVE  /\ word.requested \in BOOLEAN /\ word.active \in BOOLEAN
         /\ word.readers \in 0..MaxReaders
BY DEF Word

\* A step that leaves the set of leases alone leaves its size alone.
LEMMA SameLeases ==
  ASSUME \A r \in Readers : pc'[r] = "counted" <=> pc[r] = "counted"
  PROVE  Leased' = Leased
BY DEF Leased

LEMMA LeasedFinite == IsFiniteSet(Leased)
BY FS_Subset DEF Leased

LEMMA InitInv == Init => IInv
<1> SUFFICES ASSUME Init PROVE IInv
  OBVIOUS
<1> USE DEF Init, OpenWord
<1>1. TypeOK
  BY DEF TypeOK, Word, ReaderPC, TransitionPC, Objects
<1>2. CountIsExact
  <2>1. Leased = {}
    BY DEF Leased, Objects
  <2> QED BY <2>1, FS_EmptySet DEF CountIsExact
<1>3. Sequential /\ OneReservation /\ OwnerOfHolder /\ ActiveIsDrained
      /\ OwnedIsOwner /\ BorrowedInside
  BY DEF Sequential, OneReservation, OwnerOfHolder, ActiveIsDrained, OwnedIsOwner,
         BorrowedInside, MidOp, Holding, Objects
<1> QED BY <1>1, <1>2, <1>3 DEF IInv

(* Every conjunct but the count, one lemma per group of actions. *)
Rest == /\ TypeOK /\ Sequential /\ OneReservation
        /\ OwnerOfHolder /\ ActiveIsDrained /\ OwnedIsOwner /\ BorrowedInside

LEMMA SharedStepRest ==
  ASSUME IInv, NEW o \in Objects, SharedStep(o)
  PROVE  Rest'
<1> USE DEF IInv, TypeOK, Sequential, OneReservation, OwnerOfHolder, ActiveIsDrained,
            OwnedIsOwner, BorrowedInside, Rest, Objects, Step, Free, Drop, Lendable,
            MidOp, Holding, ReaderPC, TransitionPC, OpenWord, Word
<1>1. CASE Load(o)
  BY <1>1 DEF Load
<1>2. CASE OwnerMatches(o)
  BY <1>2 DEF OwnerMatches
<1>3. CASE Borrow(o)
  BY <1>3 DEF Borrow
<1>4. CASE Refused(o)
  BY <1>4 DEF Refused
<1>5. CASE ReturnBorrowed(o)
  BY <1>5 DEF ReturnBorrowed
<1> QED BY <1>1, <1>2, <1>3, <1>4, <1>5 DEF SharedStep

LEMMA ReaderStepRest ==
  ASSUME IInv, NEW r \in Readers, ReaderStep(r)
  PROVE  Rest'
<1> USE DEF IInv, TypeOK, Sequential, OneReservation, OwnerOfHolder, ActiveIsDrained,
            OwnedIsOwner, BorrowedInside, Rest, Objects, Step, Free, Drop, Lendable,
            MidOp, Holding, ReaderPC, TransitionPC, OpenWord, Word
<1>1. CASE ReaderFull(r)
  BY <1>1 DEF ReaderFull
<1>2. CASE ReaderAdmit(r)
  BY <1>2 DEF ReaderAdmit
<1>3. CASE ReaderRetry(r)
  BY <1>3 DEF ReaderRetry
<1>4. CASE ReaderRelease(r)
  <2>1. r \in Leased
    BY <1>4 DEF ReaderRelease, Leased
  <2>2. word.readers # 0
    BY <2>1, LeasedFinite, FS_EmptySet DEF CountIsExact
  <2>3. word.readers \in 1..MaxReaders
    BY <2>2 DEF Word
  <2>4. word' = [requested |-> word.requested, active |-> word.active,
                 readers |-> word.readers - 1]
    BY <1>4 DEF ReaderRelease
  <2>5. ~word.active
    BY <2>3
  <2>6. word' \in Word
    BY <2>3, <2>4
  <2>7. TypeOK' /\ Sequential' /\ OwnedIsOwner'
    BY <1>4, <2>6 DEF ReaderRelease
  <2>8. OneReservation' /\ ActiveIsDrained'
    BY <1>4, <2>4, <2>5 DEF ReaderRelease
  <2>9. OwnerOfHolder' /\ BorrowedInside'
    BY <1>4, <2>4 DEF ReaderRelease
  <2> QED BY <2>7, <2>8, <2>9
<1> QED BY <1>1, <1>2, <1>3, <1>4 DEF ReaderStep

LEMMA TransitionStepRest ==
  ASSUME IInv, NEW w \in Transitions, TransitionStep(w)
  PROVE  Rest'
<1> USE DEF IInv, TypeOK, Sequential, OneReservation, OwnerOfHolder, ActiveIsDrained,
            OwnedIsOwner, BorrowedInside, Rest, Objects, Step, Free, Drop, Lendable,
            MidOp, Holding, ReaderPC, TransitionPC, OpenWord, Word
<1>1. CASE Claim(w)
  <2>1. ~word.requested /\ ~word.active
    BY <1>1 DEF Claim
  <2>2. word' = [requested |-> TRUE, active |-> word.active, readers |-> word.readers]
    BY <1>1 DEF Claim
  <2>3. TypeOK' /\ Sequential' /\ OwnedIsOwner'
    <3>1. word' \in Word
      BY <2>2
    <3>2. TypeOK'
      BY <1>1, <3>1 DEF Claim
    <3>3. Sequential'
      BY <1>1 DEF Claim
    <3>4. OwnedIsOwner'
      BY <1>1 DEF Claim
    <3> QED BY <3>2, <3>3, <3>4
  <2>4. \A v \in Transitions : pc[v] \notin Holding
    BY <2>1
  <2>5. \A v \in Transitions : pc'[v] \in Holding <=> v = w
    BY <1>1, <2>4 DEF Claim
  <2>6. OneReservation'
    BY <2>1, <2>2, <2>5
  <2>8. ActiveIsDrained'
    <3>1. pc'[w] = "claimed" /\ word'.active = word.active
      BY <1>1, <2>2 DEF Claim
    <3> QED BY <2>1, <2>5, <3>1
  <2>7. OwnerOfHolder' /\ BorrowedInside'
    BY <1>1, <2>1, <2>2, <2>5 DEF Claim
  <2> QED BY <2>3, <2>6, <2>7, <2>8
<1>2. CASE ClaimRetry(w)
  BY <1>2 DEF ClaimRetry
<1>3. CASE Publish(w)
  BY <1>3 DEF Publish
<1>4. CASE ReadyWord(w)
  BY <1>4 DEF ReadyWord
<1>5. CASE ReadyOwner(w)
  BY <1>5 DEF ReadyOwner
<1>6. CASE EnterCas(w)
  BY <1>6 DEF EnterCas, ReservedWord, ActiveWord
<1>8. CASE ReleaseOwner(w)
  BY <1>8 DEF ReleaseOwner, Borrowing
<1>9. CASE ReleaseBits(w)
  <2>1. word' = [requested |-> FALSE, active |-> FALSE, readers |-> word.readers]
    BY <1>9 DEF ReleaseBits
  <2>2. TypeOK' /\ Sequential' /\ OwnedIsOwner'
    <3>1. word' \in Word
      BY <2>1
    <3> QED BY <1>9, <3>1 DEF ReleaseBits
  <2>3. \A v \in Transitions : pc'[v] \notin Holding
    BY <1>9 DEF ReleaseBits
  <2>4. OneReservation' /\ ActiveIsDrained'
    BY <1>9, <2>1, <2>3
  <2>5. OwnerOfHolder' /\ BorrowedInside'
    BY <1>9, <2>1, <2>3 DEF ReleaseBits
  <2> QED BY <2>2, <2>4, <2>5
<1> QED
  BY <1>1, <1>2, <1>3, <1>4, <1>5, <1>6, <1>8, <1>9 DEF TransitionStep

(* The count. *)

LEMMA CountStep ==
  ASSUME IInv, Next
  PROVE  CountIsExact'
<1> USE DEF IInv, TypeOK, CountIsExact
<1>1. ASSUME NEW o \in Objects, SharedStep(o)
      PROVE  CountIsExact'
  <2>1. \A r \in Readers : pc'[r] = "counted" <=> pc[r] = "counted"
    BY <1>1 DEF SharedStep, Load, OwnerMatches, Borrow, Refused, ReturnBorrowed, Step, Objects
  <2>2. word' = word
    BY <1>1 DEF SharedStep, Load, OwnerMatches, Borrow, Refused, ReturnBorrowed
  <2> QED BY <2>1, <2>2, SameLeases
<1>2. ASSUME NEW r \in Readers, ReaderFull(r) \/ ReaderRetry(r)
      PROVE  CountIsExact'
  <2>1. \A q \in Readers : pc'[q] = "counted" <=> pc[q] = "counted"
    BY <1>2 DEF ReaderFull, ReaderRetry, Step, Objects
  <2>2. word' = word
    BY <1>2 DEF ReaderFull, ReaderRetry
  <2> QED BY <2>1, <2>2, SameLeases
<1>3. ASSUME NEW r \in Readers, ReaderAdmit(r)
      PROVE  CountIsExact'
  <2>1. Leased' = Leased \cup {r} /\ r \notin Leased
    BY <1>3 DEF ReaderAdmit, Step, Leased, Objects
  <2>2. word'.readers = word.readers + 1
    BY <1>3 DEF ReaderAdmit, Word
  <2> QED BY <2>1, <2>2, LeasedFinite, FS_AddElement
<1>4. ASSUME NEW r \in Readers, ReaderRelease(r)
      PROVE  CountIsExact'
  <2>1. Leased' = Leased \ {r} /\ r \in Leased
    BY <1>4 DEF ReaderRelease, Step, Leased, Objects
  <2>2. word'.readers = word.readers - 1
    BY <1>4 DEF ReaderRelease, Word
  <2> QED BY <2>1, <2>2, LeasedFinite, FS_RemoveElement
<1>5. ASSUME NEW w \in Transitions, TransitionStep(w)
      PROVE  CountIsExact'
  <2> USE DEF TransitionStep, Claim, ClaimRetry, Publish, ReadyWord, ReadyOwner, EnterCas,
              ReleaseOwner, ReleaseBits
  <2>1. \A r \in Readers : pc'[r] = "counted" <=> pc[r] = "counted"
    BY <1>5 DEF Step, Objects
  <2>2. word'.readers = word.readers
    <3>1. CASE EnterCas(w)
      BY <3>1 DEF ReservedWord, ActiveWord
    <3>2. CASE ~EnterCas(w)
      BY <1>5, <3>2 DEF Word
    <3> QED BY <3>1, <3>2
  <2> QED BY <2>1, <2>2, SameLeases
<1> QED
  BY <1>1, <1>2, <1>3, <1>4, <1>5 DEF Next, ReaderStep

LEMMA StepInv == IInv /\ [Next]_vars => IInv'
<1> SUFFICES ASSUME IInv, [Next]_vars PROVE IInv'
  OBVIOUS
<1>1. CASE Next
  <2>1. Rest'
    BY <1>1, SharedStepRest, ReaderStepRest, TransitionStepRest DEF Next
  <2> QED BY <1>1, <2>1, CountStep DEF Rest, IInv
<1>2. CASE UNCHANGED vars
  BY <1>2 DEF vars, IInv, TypeOK, Sequential, OneReservation, CountIsExact, Leased,
              OwnerOfHolder, ActiveIsDrained, OwnedIsOwner, Lendable, BorrowedInside
<1> QED BY <1>1, <1>2

\* The inductive invariant holds in every state.
THEOREM Invariant == Spec => []IInv
BY InitInv, StepInv, PTL DEF Spec

-----------------------------------------------------------------------------
(* What follows from the invariant.                                        *)

LEMMA ExclusiveState == IInv => ExclusivePhase
<1> SUFFICES ASSUME IInv, NEW w \in Transitions, pc[w] = "active"
             PROVE  /\ Leased = {}
                    /\ \A o \in Objects : pc[o] = "borrowed" => TaskOf[o] = TaskOf[w]
  BY DEF ExclusivePhase
<1> USE DEF IInv
<1>1. Leased = {}
  <2>1. Cardinality(Leased) = 0
    BY DEF ActiveIsDrained, CountIsExact
  <2> QED BY <2>1, LeasedFinite, FS_EmptySet
<1>2. \A o \in Objects : pc[o] = "borrowed" => TaskOf[o] = TaskOf[w]
  BY DEF BorrowedInside, OneReservation, Holding
<1> QED BY <1>1, <1>2

\* StorageAccess keeps its atomics, local copies and operation states in range.
THEOREM TypeCorrect == Spec => []TypeOK
BY Invariant, PTL DEF IInv

\* Reader, request and enter: no lease is out, and nothing is lent to another
\* task, while a transition is in its exclusive phase.
THEOREM Exclusion == Spec => []ExclusivePhase
BY Invariant, ExclusiveState, PTL

\* request and release: reservations never overlap.
THEOREM SingleReservation == Spec => []OneReservation
BY Invariant, PTL DEF IInv

\* Reader() and its release: the word counts the leases that are out.
THEOREM ExactCount == Spec => []CountIsExact
BY Invariant, PTL DEF IInv

\* The nested borrow of Reader() and request() stays inside its owner's phase.
THEOREM BorrowsInside == Spec => []BorrowedInside
BY Invariant, PTL DEF IInv

LEMMA DrainStep ==
  ASSUME IInv, [Next]_vars, word.requested, word'.requested
  PROVE  word'.readers <= word.readers
<1> USE DEF IInv, TypeOK
<1>1. word.readers \in Nat
  BY DEF Word
<1>2. CASE word' = word
  BY <1>1, <1>2
<1>3. ASSUME NEW r \in Readers, ReaderAdmit(r) PROVE FALSE
  BY <1>3 DEF ReaderAdmit
<1>4. ASSUME NEW r \in Readers, ReaderRelease(r)
      PROVE  word'.readers <= word.readers
  BY <1>4, <1>1 DEF ReaderRelease, Word
<1>5. ASSUME NEW w \in Transitions, Claim(w) PROVE FALSE
  BY <1>5 DEF Claim
<1>6. ASSUME NEW w \in Transitions, EnterCas(w)
      PROVE  word'.readers <= word.readers
  BY <1>6 DEF EnterCas, ActiveWord, ReservedWord
<1>7. ASSUME NEW w \in Transitions, ReleaseBits(w) PROVE FALSE
  BY <1>7 DEF ReleaseBits, Word
<1> QED
  BY <1>2, <1>3, <1>4, <1>5, <1>6, <1>7
     DEF Next, vars, SharedStep, Load, OwnerMatches, Borrow, Refused, ReturnBorrowed,
         ReaderStep, ReaderFull, ReaderRetry, TransitionStep, ClaimRetry, Publish,
         ReadyWord, ReadyOwner, ReleaseOwner

\* Reader(): nothing is admitted between request() and release().
THEOREM Draining == Spec => DrainsMonotonically
<1>1. IInv /\ [Next]_vars
        => [word.requested /\ word'.requested => word'.readers <= word.readers]_vars
  BY DrainStep
<1> QED BY <1>1, Invariant, PTL DEF Spec, DrainsMonotonically

-----------------------------------------------------------------------------
(* The refinement: one lemma per kind of step.                             *)

Borrowed == {o \in Objects : pc[o] = "borrowed"}
Holders == {w \in Transitions : pc[w] \in Holding}

LEMMA GateInitial == Init => Gate!GateInit
BY DEF Init, Gate!GateInit, Leased, Holding, OpenWord, Objects

LEMMA SharedRefines ==
  ASSUME IInv, IInv', NEW o \in Objects, SharedStep(o)
  PROVE  [Gate!GateNext]_(Gate!gateVars)
<1> USE DEF IInv, TypeOK
<1>0. Leased' = Leased /\ Holders' = Holders /\ word' = word
  BY DEF SharedStep, Load, OwnerMatches, Borrow, Refused, ReturnBorrowed, Step, Leased,
         Holders, Holding, Objects, ReaderPC
<1>1. CASE Load(o) \/ OwnerMatches(o) \/ Refused(o)
  <2>1. Borrowed' = Borrowed
    BY <1>1 DEF Load, OwnerMatches, Refused, Step, Borrowed
  <2> QED BY <1>0, <2>1 DEF Gate!gateVars, Borrowed, Holders
<1>2. CASE Borrow(o)
  <2>1. Borrowed' = Borrowed \cup {o}
    BY <1>2 DEF Borrow, Step, Borrowed
  <2>2. PICK w \in Transitions : pc[w] = "active" /\ TaskOf[w] = TaskOf[o]
    <3>1. pc'[o] = "borrowed"
      BY <1>2 DEF Borrow, Step
    <3>2. PICK w \in Transitions : pc'[w] = "active" /\ TaskOf[w] = TaskOf[o]
      BY <3>1 DEF BorrowedInside
    <3>3. pc[w] = "active"
      BY <1>2, <3>1, <3>2 DEF Borrow, Step, Objects
    <3> QED BY <3>2, <3>3
  <2>3. word.active /\ \A v \in Holders : TaskOf[v] = TaskOf[o]
    BY <2>2 DEF ActiveIsDrained, OneReservation, Holders, Holding
  <2>4. Gate!Borrow(o)
    BY <1>0, <2>1, <2>3 DEF Gate!Borrow, Borrowed, Holders
  <2> QED BY <2>4 DEF Gate!GateNext, Objects
<1>3. CASE ReturnBorrowed(o)
  <2>1. Borrowed' = Borrowed \ {o} /\ o \in Borrowed
    BY <1>3 DEF ReturnBorrowed, Step, Borrowed
  <2>2. Gate!Return(o)
    BY <1>0, <2>1 DEF Gate!Return, Borrowed, Holders
  <2> QED BY <2>2 DEF Gate!GateNext, Objects
<1> QED BY <1>1, <1>2, <1>3 DEF SharedStep

LEMMA ReaderRefines ==
  ASSUME IInv, NEW r \in Readers, ReaderStep(r)
  PROVE  [Gate!GateNext]_(Gate!gateVars)
<1> USE DEF IInv, TypeOK
<1>0. Borrowed' = Borrowed /\ Holders' = Holders /\ word'.active = word.active
  BY DEF ReaderStep, ReaderFull, ReaderAdmit, ReaderRetry, ReaderRelease, Step, Borrowed,
         Holders, Holding, Objects, Word
<1>1. CASE ReaderFull(r) \/ ReaderRetry(r)
  <2>1. Leased' = Leased
    BY <1>1 DEF ReaderFull, ReaderRetry, Step, Leased, Objects
  <2> QED BY <1>0, <2>1 DEF Gate!gateVars, Borrowed, Holders
<1>2. CASE ReaderAdmit(r)
  <2>1. Leased' = Leased \cup {r} /\ r \notin Leased
    BY <1>2 DEF ReaderAdmit, Step, Leased, Objects
  <2>2. Holders = {}
    BY <1>2 DEF ReaderAdmit, OneReservation, Holders
  <2>3. Gate!Admit(r)
    BY <1>0, <2>1, <2>2 DEF Gate!Admit, Borrowed, Holders
  <2> QED BY <2>3 DEF Gate!GateNext
<1>3. CASE ReaderRelease(r)
  <2>1. Leased' = Leased \ {r} /\ r \in Leased
    BY <1>3 DEF ReaderRelease, Step, Leased, Objects
  <2>2. Gate!Leave(r)
    BY <1>0, <2>1 DEF Gate!Leave, Borrowed, Holders
  <2> QED BY <2>2 DEF Gate!GateNext
<1> QED BY <1>1, <1>2, <1>3 DEF ReaderStep

LEMMA TransitionRefines ==
  ASSUME IInv, NEW w \in Transitions, TransitionStep(w)
  PROVE  [Gate!GateNext]_(Gate!gateVars)
<1> USE DEF IInv, TypeOK
<1>0. Leased' = Leased /\ Borrowed' = Borrowed
  BY DEF TransitionStep, Claim, ClaimRetry, Publish, ReadyWord, ReadyOwner, EnterCas,
         ReleaseOwner, ReleaseBits, Step, Leased, Borrowed, Objects
<1>1. CASE Claim(w)
  <2>1. Holders = {} /\ Holders' = {w}
    BY <1>1 DEF Claim, Step, OneReservation, Holders, Holding, Objects
  <2>2. word'.active = word.active
    BY <1>1 DEF Claim, Word
  <2>3. Gate!Close(w)
    BY <1>0, <2>1, <2>2 DEF Gate!Close, Borrowed, Holders
  <2> QED BY <2>3 DEF Gate!GateNext
<1>2. CASE EnterCas(w)
  <2>1. Holders = {w} /\ Holders' = {w}
    BY <1>2 DEF EnterCas, Step, OneReservation, Holders, Holding, Objects
  <2>2. word.readers = 0 /\ word'.active = TRUE
    BY <1>2 DEF EnterCas, ReservedWord, ActiveWord
  <2>3. Leased = {}
    BY <2>2, LeasedFinite, FS_EmptySet DEF CountIsExact
  <2>4. Gate!Enter(w)
    BY <1>0, <2>1, <2>2, <2>3 DEF Gate!Enter, Borrowed, Holders
  <2> QED BY <2>4 DEF Gate!GateNext
<1>3. CASE ReleaseBits(w)
  <2>1. Holders = {w} /\ Holders' = {}
    BY <1>3 DEF ReleaseBits, Step, OneReservation, Holders, Holding, Objects
  <2>2. word'.active = FALSE
    BY <1>3 DEF ReleaseBits, Word
  <2>3. Borrowed = {}
    BY <1>3, <2>1 DEF ReleaseBits, Step, BorrowedInside, Borrowed, Holders, Holding
  <2>4. Gate!Reopen(w)
    BY <1>0, <2>1, <2>2, <2>3 DEF Gate!Reopen, Borrowed, Holders
  <2> QED BY <2>4 DEF Gate!GateNext
<1>4. CASE \/ ClaimRetry(w) \/ Publish(w) \/ ReadyWord(w) \/ ReadyOwner(w)
           \/ ReleaseOwner(w)
  <2>1. Holders' = Holders /\ word' = word
    BY <1>4 DEF ClaimRetry, Publish, ReadyWord, ReadyOwner, ReleaseOwner, Step,
                Holders, Holding, Objects
  <2> QED BY <1>0, <2>1 DEF Gate!gateVars, Borrowed, Holders
<1> QED BY <1>1, <1>2, <1>3, <1>4 DEF TransitionStep

LEMMA StepRefines ==
  ASSUME IInv, IInv', [Next]_vars
  PROVE  [Gate!GateNext]_(Gate!gateVars)
<1>1. CASE Next
  BY <1>1, SharedRefines, ReaderRefines, TransitionRefines DEF Next
<1>2. CASE UNCHANGED vars
  BY <1>2 DEF vars, Gate!gateVars, Leased
<1> QED BY <1>1, <1>2

\* The CAS-level word implements the gate of StorageGate.tla: every access to
\* the atomics is one step of the gate or leaves it as it was.
THEOREM Refinement == Spec => ImplementsGate
<1>1. IInv /\ IInv' /\ [Next]_vars => [Gate!GateNext]_(Gate!gateVars)
  BY StepRefines
<1> QED BY <1>1, GateInitial, Invariant, PTL DEF Spec, ImplementsGate, Gate!GateSpec
=============================================================================
