---------------------------- MODULE AppStoreProofs ----------------------------
(***************************************************************************)
(* Proofs about AppStore and the StagedInstall it extends.                 *)
(*                                                                         *)
(* First StagedInstall alone, for any number of files and installs.  The   *)
(* inductive invariant says in which of four conditions every entry is, in *)
(* each phase of the install: untouched, moved to its backup, replaced,    *)
(* replaced with the backup gone, or dropped (the user removed the file    *)
(* once it was published, which only AppStore does).                       *)
(*                                                                         *)
(* Then AppStore, for any number of installs, scans, removals and          *)
(* restarts.  The install keeps the same invariant; the list of apps is    *)
(* related to the card as it was before the install under way (Was), to    *)
(* which a failed install goes back.  A removal may come at any step of    *)
(* the install: CrossInv says that it is then marked as crossed, and what  *)
(* it may still rely on when it is not.                                    *)
(***************************************************************************)
EXTENDS AppStore, TLAPS

Untouched(p) == p \notin backed /\ p \notin installed /\ final[p] = orig[p] /\ back[p] = Absent
BackedUp(p)  == IF p \in backed THEN back[p] = orig[p] /\ orig[p] # Absent
                ELSE back[p] = Absent /\ orig[p] = Absent
Moved(p)     == BackedUp(p) /\ p \notin installed /\ final[p] = Absent
Replaced(p)  == BackedUp(p) /\ p \in installed /\ final[p] = edition
Cleaned(p)   == p \notin backed /\ p \in installed /\ final[p] = edition /\ back[p] = Absent
Dropped(p)   == p \in installed /\ final[p] = Absent /\ orig[p] = Gone
                /\ (p \notin backed => back[p] = Absent)
Public(p) == Replaced(p) \/ Dropped(p)
Finished(p)  == Cleaned(p) \/ (Dropped(p) /\ p \notin backed)

Ready(p) == p \in staged /\ temp[p] = edition

StageInv ==
  /\ error = "None" /\ staged = Used
  /\ pc = "write" => count > 0
  /\ \A p \in Used : Untouched(p) /\ (~(pc = "write" /\ p = count) => temp[p] = edition)
BackupInv ==
  /\ error = "None" /\ i \in Used
  /\ \A p \in Used : /\ Ready(p)
                     /\ p < i => Moved(p)
                     /\ p >= i => Untouched(p)
PublishInv ==
  /\ error = "None" /\ i \in Used
  /\ \A p \in Used : /\ p < i => Public(p)
                     /\ p >= i => Moved(p) /\ Ready(p)
CleanInv ==
  /\ error = "None" /\ i \in Used
  /\ \A p \in Used : /\ p < i => Public(p) \/ Finished(p)
                     /\ p >= i => Public(p)
RollbackInv ==
  /\ error \in {"CommitFailed", "RecoveryRequired"} /\ i \in Used
  /\ \A p \in Used : /\ Untouched(p) \/ Moved(p) \/ Public(p)
                     /\ p > i /\ error = "CommitFailed" => Untouched(p)
  /\ pc = "restore" => i \notin installed
SettledInv ==
  /\ error = "CleanupFailed" =>
       count > 0 /\ \A p \in Used : Public(p) \/ Finished(p)
  /\ error = "None" => (\A p \in Used : Untouched(p)) \/ (\A p \in Used : Finished(p))
  /\ error = "RecoveryRequired" =>
       \A p \in Used : Untouched(p) \/ Moved(p) \/ Public(p)
  /\ error \notin {"None", "CleanupFailed", "RecoveryRequired"} =>
       \A p \in Used : Untouched(p)

(* Entries not yet staged are as they were found.                           *)
Found == \A p \in Entries \ Used :
  orig[p] = Held(p)

PhaseInv ==
  /\ Found
  /\ pc \in {"stage", "write"} => StageInv
  /\ pc = "backup" => BackupInv
  /\ pc = "publish" => PublishInv
  /\ pc = "clean" => CleanInv
  /\ pc \in {"remove", "restore"} => RollbackInv
  /\ pc \in {"destroy", "done"} => SettledInv

IInv ==
  /\ TypeOK
  /\ pc # "off" => PhaseInv
  /\ pc = "off" => OldOrNewSurvives

USE NAssumption, MaxEditionsAssumption DEF Absent, Partial, Gone, Entries, Used

-----------------------------------------------------------------------------
(* What the phases say of the files is enough to keep the originals.        *)
LEMMA PhasesKeepOriginals == IInv => OldOrNewSurvives
<1> SUFFICES ASSUME IInv, pc # "off", NEW p \in Entries, orig[p] \notin {Absent, Gone}
             PROVE  final[p] \in {orig[p], edition} \/ back[p] = orig[p]
  BY DEF IInv, OldOrNewSurvives
<1> USE DEF IInv, TypeOK, PhaseInv, Phases
<1>1. CASE p \notin Used
  BY <1>1 DEF Found, Held
<1>2. CASE p \in Used
  <2>1. CASE Untouched(p)
    BY <2>1 DEF Untouched
  <2>2. CASE Moved(p)
    BY <2>2 DEF Moved, BackedUp
  <2>3. CASE Public(p) \/ Finished(p)
    BY <2>3 DEF Replaced, Public, Dropped, Cleaned, Finished
  <2>4. Untouched(p) \/ Moved(p) \/ Public(p) \/ Finished(p)
    <3>1. CASE pc \in {"stage", "write"}
      BY <1>2, <3>1 DEF StageInv
    <3>2. CASE pc = "backup"
      BY <1>2, <3>2 DEF BackupInv
    <3>3. CASE pc \in {"publish", "clean"}
      BY <1>2, <3>3 DEF PublishInv, CleanInv
    <3>4. CASE pc \in {"remove", "restore"}
      BY <1>2, <3>4 DEF RollbackInv
    <3>5. CASE pc \in {"destroy", "done"}
      BY <1>2, <3>5 DEF SettledInv
    <3> QED BY <3>1, <3>2, <3>3, <3>4, <3>5
  <2> QED BY <2>1, <2>2, <2>3, <2>4
<1> QED BY <1>1, <1>2

LEMMA InitInv == Init => IInv
BY DEF Init, IInv, TypeOK, OldOrNewSurvives, Phases, Errors

-----------------------------------------------------------------------------
(* One lemma per action: the types, the entries that are not staged, and    *)
(* the condition of the phase the step leads to.                            *)

LEMMA BeginInv == IInv /\ Begin => IInv'
<1> SUFFICES ASSUME IInv, Begin PROVE IInv'
  OBVIOUS
<1> USE DEF Begin, Held, files, IInv, PhaseInv
<1>1. TypeOK'
  BY DEF TypeOK, Phases, Errors
<1>2. Found'
  BY DEF TypeOK, Found
<1>3. ASSUME pc' \in {"stage", "write"} PROVE StageInv'
  BY <1>3 DEF TypeOK, Errors, StageInv, Untouched
<1> QED BY <1>1, <1>2, <1>3 DEF TypeOK, Phases

LEMMA StageRefusedInv == IInv /\ StageRefused => IInv'
<1> SUFFICES ASSUME IInv, StageRefused PROVE IInv'
  OBVIOUS
<1> USE DEF StageRefused, Destroy, files, IInv, PhaseInv
<1>1. TypeOK'
  <2>1. error' \in Errors /\ pc' \in Phases
    BY DEF Errors, Phases
  <2>2. i' \in Entries /\ UNCHANGED <<files, count, flags, edition, orig>>
    BY DEF flags
  <2> QED BY <2>1, <2>2 DEF TypeOK, flags
<1>2. Found'
  BY DEF TypeOK, Found, Held, StageInv
<1>3. ASSUME pc' \in {"destroy", "done"} PROVE SettledInv'
  BY <1>3 DEF TypeOK, Errors, StageInv, SettledInv, Untouched
<1> QED BY <1>1, <1>2, <1>3 DEF TypeOK, Phases

LEMMA StageFailsInv == IInv /\ StageFails => IInv'
<1> SUFFICES ASSUME IInv, StageFails PROVE IInv'
  OBVIOUS
<1> USE DEF StageFails, Destroy, files, IInv, PhaseInv
<1>1. TypeOK'
  <2>1. error' \in Errors /\ pc' \in Phases
    BY DEF Errors, Phases
  <2>2. i' \in Entries /\ UNCHANGED <<files, count, flags, edition, orig>>
    BY DEF flags
  <2> QED BY <2>1, <2>2 DEF TypeOK, flags
<1>2. Found'
  BY DEF TypeOK, Found, Held, StageInv
<1>3. ASSUME pc' \in {"destroy", "done"} PROVE SettledInv'
  BY <1>3 DEF TypeOK, Errors, StageInv, SettledInv, Untouched
<1> QED BY <1>1, <1>2, <1>3 DEF TypeOK, Phases

LEMMA StageOpenInv == IInv /\ StageOpen => IInv'
<1> SUFFICES ASSUME IInv, StageOpen PROVE IInv'
  OBVIOUS
<1> USE DEF StageOpen, Leftover, IInv, PhaseInv
<1>1. TypeOK'
  <2>1. temp' \in [Entries -> Nat \cup {Partial}]
    BY DEF TypeOK
  <2>2. pc' \in Phases /\ count' \in 0..N /\ staged' \subseteq Used'
    BY DEF TypeOK, Phases, StageInv
  <2> QED BY <2>1, <2>2 DEF TypeOK, StageInv
<1>2. Found'
  BY DEF TypeOK, Found, Held, StageInv
<1>3. StageInv'
  <2>1. StageInv /\ Found /\ count \in 0..N /\ count + 1 \in Entries \ Used
    BY NAssumption DEF TypeOK
  <2>2. Used' = Used \cup {count + 1} /\ pc' = "write" /\ count' = count + 1
    BY <2>1
  <2>3. error' = "None" /\ staged' = Used' /\ count' > 0
    BY <2>1, <2>2 DEF StageInv
  <2>4. ASSUME NEW p \in Used PROVE Untouched(p)' /\ p # count' /\ temp'[p] = edition'
    <3>1. Untouched(p) /\ temp[p] = edition /\ p # count + 1
      BY <2>1 DEF StageInv
    <3>2. temp'[p] = temp[p]
      BY <3>1, <2>1 DEF TypeOK
    <3> QED BY <3>1, <3>2, <2>2 DEF Untouched
  <2>5. ASSUME NEW q \in Entries \ Used, q = count + 1 PROVE Untouched(q)'
    <3>1. q \notin backed /\ q \notin installed
      BY DEF TypeOK
    <3>2. back[q] = Absent /\ final[q] = orig[q]
      BY <2>1, <2>5 DEF Found, Held, TypeOK
    <3> QED BY <3>1, <3>2 DEF Untouched
  <2>6. \A p \in Used' : Untouched(p)' /\ (p # count' => temp'[p] = edition')
    BY <2>1, <2>2, <2>4, <2>5
  <2> QED BY <2>2, <2>3, <2>6 DEF StageInv
<1> QED BY <1>1, <1>2, <1>3 DEF TypeOK, Phases

LEMMA StageWrittenInv == IInv /\ StageWritten => IInv'
<1> SUFFICES ASSUME IInv, StageWritten PROVE IInv'
  OBVIOUS
<1> USE DEF StageWritten, flags, IInv, PhaseInv
<1>1. TypeOK'
  <2>1. temp' \in [Entries -> Nat \cup {Partial}]
    BY DEF TypeOK
  <2>2. pc' \in Phases /\ count' \in 0..N /\ staged' \subseteq Used'
    BY DEF TypeOK, Phases, StageInv
  <2> QED BY <2>1, <2>2 DEF TypeOK, StageInv
<1>2. Found'
  BY DEF TypeOK, Found, Held, StageInv
<1>3. ASSUME pc' \in {"stage", "write"} PROVE StageInv'
  BY <1>3 DEF TypeOK, Errors, StageInv, Untouched
<1> QED BY <1>1, <1>2, <1>3 DEF TypeOK, Phases

LEMMA StageWriteFailsInv == IInv /\ StageWriteFails => IInv'
<1> SUFFICES ASSUME IInv, StageWriteFails PROVE IInv'
  OBVIOUS
<1> USE DEF StageWriteFails, Destroy, files, IInv, PhaseInv
<1>1. TypeOK'
  BY SMTT(30) DEF TypeOK, Phases, Errors, StageInv
<1>2. Found'
  BY DEF TypeOK, Found, Held, StageInv
<1>3. ASSUME pc' \in {"destroy", "done"} PROVE SettledInv'
  BY <1>3 DEF TypeOK, Errors, StageInv, SettledInv, Untouched
<1> QED BY <1>1, <1>2, <1>3 DEF TypeOK, Phases

LEMMA AbandonInv == IInv /\ Abandon => IInv'
<1> SUFFICES ASSUME IInv, Abandon PROVE IInv'
  OBVIOUS
<1> USE DEF Abandon, Destroy, files, IInv, PhaseInv
<1>1. TypeOK'
  BY SMTT(30) DEF TypeOK, Phases, Errors, StageInv
<1>2. Found'
  BY DEF TypeOK, Found, Held, StageInv
<1>3. ASSUME pc' \in {"destroy", "done"} PROVE SettledInv'
  BY <1>3 DEF TypeOK, Errors, StageInv, SettledInv, Untouched
<1> QED BY <1>1, <1>2, <1>3 DEF TypeOK, Phases

LEMMA CommitInv == IInv /\ Commit => IInv'
<1> SUFFICES ASSUME IInv, Commit PROVE IInv'
  OBVIOUS
<1> USE DEF Commit, files, flags, IInv, PhaseInv
<1>1. TypeOK'
  BY DEF TypeOK, Phases, Errors, StageInv
<1>2. Found'
  BY DEF TypeOK, Found, Held, StageInv
<1>3. ASSUME pc' = "backup" PROVE BackupInv'
  BY <1>3 DEF TypeOK, Errors, StageInv, BackupInv, Untouched, Ready
<1> QED BY <1>1, <1>2, <1>3 DEF TypeOK, Phases

LEMMA BackupSkipInv == IInv /\ BackupSkip => IInv'
<1> SUFFICES ASSUME IInv, BackupSkip PROVE IInv'
  OBVIOUS
<1> USE DEF BackupSkip, Advance, files, flags, IInv, PhaseInv
<1>1. TypeOK'
  BY SMTT(30) DEF TypeOK, Phases, Errors, BackupInv
<1>2. Found'
  BY DEF TypeOK, Found, Held, BackupInv
<1>3. ASSUME pc' = "backup" PROVE BackupInv'
  BY <1>3 DEF TypeOK, Errors, BackupInv, Untouched, Moved, BackedUp, Replaced, Public, Dropped, Ready
<1>4. ASSUME pc' = "publish" PROVE PublishInv'
  BY <1>4 DEF TypeOK, Errors, BackupInv, PublishInv, Untouched, Moved, BackedUp, Replaced, Public, Dropped, Ready
<1> QED BY <1>1, <1>2, <1>3, <1>4 DEF TypeOK, Phases

LEMMA BackupStepInv == IInv /\ Backup => IInv'
<1> SUFFICES ASSUME IInv, Backup PROVE IInv'
  OBVIOUS
<1> USE DEF Backup, Advance, IInv, PhaseInv
<1>1. TypeOK'
  BY SMTT(30) DEF TypeOK, Phases, Errors, BackupInv
<1>2. Found'
  BY DEF TypeOK, Found, Held, BackupInv
<1>3. ASSUME pc' = "backup" PROVE BackupInv'
  BY <1>3, SMTT(30) DEF TypeOK, Errors, BackupInv, Untouched, Moved, BackedUp, Replaced, Public, Dropped, Ready
<1>4. ASSUME pc' = "publish" PROVE PublishInv'
  BY <1>4 DEF TypeOK, Errors, BackupInv, PublishInv, Untouched, Moved, BackedUp, Replaced, Public, Dropped, Ready
<1> QED BY <1>1, <1>2, <1>3, <1>4 DEF TypeOK, Phases

LEMMA BackupFailsInv == IInv /\ BackupFails => IInv'
<1> SUFFICES ASSUME IInv, BackupFails PROVE IInv'
  OBVIOUS
<1> USE DEF BackupFails, Failed, files, flags, IInv, PhaseInv
<1>1. TypeOK'
  BY SMTT(30) DEF TypeOK, Phases, Errors, BackupInv
<1>2. Found'
  BY DEF TypeOK, Found, Held, BackupInv
<1>3. ASSUME pc' \in {"remove", "restore"} PROVE RollbackInv'
  BY <1>3 DEF TypeOK, Errors, BackupInv, RollbackInv, Untouched, Moved, BackedUp, Replaced, Public, Dropped
<1> QED BY <1>1, <1>2, <1>3 DEF TypeOK, Phases

LEMMA PublishStepInv == IInv /\ Publish => IInv'
<1> SUFFICES ASSUME IInv, Publish PROVE IInv'
  OBVIOUS
<1> USE DEF Publish, Advance, IInv, PhaseInv
<1>1. TypeOK'
  <2>1. temp[i] \in Nat
    BY DEF TypeOK, PublishInv, Ready
  <2>2. final' \in [Entries -> Nat] /\ temp' \in [Entries -> Nat \cup {Partial}]
    BY <2>1 DEF TypeOK
  <2>3. pc' \in Phases /\ i' \in Entries
    BY DEF TypeOK, Phases, PublishInv
  <2>4. staged' \subseteq Used' /\ installed' \subseteq Used'
    BY DEF TypeOK, PublishInv
  <2> QED BY <2>2, <2>3, <2>4 DEF TypeOK
<1>2. Found'
  BY DEF TypeOK, Found, Held, PublishInv
<1>3. ASSUME pc' = "publish" PROVE PublishInv'
  BY <1>3 DEF TypeOK, Errors, PublishInv, Untouched, Moved, BackedUp, Replaced, Public, Dropped, Ready
<1>4. ASSUME pc' = "clean" PROVE CleanInv'
  BY <1>4 DEF TypeOK, Errors, PublishInv, CleanInv, Untouched, Moved, BackedUp, Replaced, Public, Dropped, Cleaned, Finished, Ready
<1> QED BY <1>1, <1>2, <1>3, <1>4 DEF TypeOK, Phases

LEMMA PublishFailsInv == IInv /\ PublishFails => IInv'
<1> SUFFICES ASSUME IInv, PublishFails PROVE IInv'
  OBVIOUS
<1> USE DEF PublishFails, Failed, files, flags, IInv, PhaseInv
<1>1. TypeOK'
  BY DEF TypeOK, Phases, Errors, PublishInv
<1>2. Found'
  BY DEF TypeOK, Found, Held, PublishInv
<1>3. ASSUME pc' \in {"remove", "restore"} PROVE RollbackInv'
  BY <1>3 DEF TypeOK, Errors, PublishInv, RollbackInv, Untouched, Moved, BackedUp, Replaced, Public, Dropped
<1> QED BY <1>1, <1>2, <1>3 DEF TypeOK, Phases

LEMMA CleanStepInv == IInv /\ Clean => IInv'
<1> SUFFICES ASSUME IInv, Clean PROVE IInv'
  OBVIOUS
<1> USE DEF Clean, Advance, IInv, PhaseInv
<1>1. \/ back' = back /\ backed' = backed
      \/ i \in backed /\ back' = [back EXCEPT ![i] = Absent] /\ backed' = backed \ {i}
  <2>1. i \notin backed => backed \ {i} = backed
    OBVIOUS
  <2> QED BY <2>1
<1>2. TypeOK'
  <2>1. back' \in [Entries -> Nat]
    <3>1. back \in [Entries -> Nat]
      BY DEF TypeOK
    <3>2. CASE back' = back
      BY <3>1, <3>2
    <3>3. CASE back' = [back EXCEPT ![i] = Absent]
      BY <3>1, <3>3
    <3> QED BY <1>1, <3>2, <3>3
  <2>2. backed' \subseteq Used'
    BY <1>1 DEF TypeOK
  <2>3. pc' \in Phases /\ i' \in Entries
    BY DEF TypeOK, Phases, CleanInv
  <2>4. error' \in Errors
    BY DEF TypeOK, Errors
  <2> QED BY <2>1, <2>2, <2>3, <2>4 DEF TypeOK
<1>3. Found'
  <2>1. \A p \in Entries \ Used : back'[p] = back[p]
    BY <1>1 DEF TypeOK, CleanInv
  <2> QED BY <2>1 DEF Found, Held
<1>4. \A p \in Used : Public(p) \/ Finished(p) => Public(p)' \/ Finished(p)'
  <2> SUFFICES ASSUME NEW p \in Used, Public(p) \/ Finished(p)
               PROVE  Public(p)' \/ Finished(p)'
    OBVIOUS
  <2>1. CASE back' = back /\ backed' = backed
    BY <2>1 DEF Replaced, Public, Dropped, Cleaned, Finished, BackedUp
  <2>2. CASE i \in backed /\ back' = [back EXCEPT ![i] = Absent] /\ backed' = backed \ {i}
    <3>1. back'[p] = IF p = i THEN Absent ELSE back[p]
      BY <2>2 DEF TypeOK
    <3>2. UNCHANGED <<final, installed, orig, edition>> /\ backed' = backed \ {i}
      BY <2>2
    <3>3. CASE p = i
      BY <2>2, <3>1, <3>2, <3>3
         DEF Replaced, Public, Dropped, Cleaned, Finished, BackedUp
    <3>4. CASE p # i
      BY <3>1, <3>2, <3>4 DEF Replaced, Public, Dropped, Cleaned, Finished, BackedUp
    <3> QED BY <3>3, <3>4
  <2> QED BY <1>1, <2>1, <2>2
<1>5. \A p \in Used : p > i /\ Public(p) => Public(p)'
  BY <1>1 DEF Replaced, Public, Dropped, BackedUp, TypeOK, CleanInv
<1>6. ASSUME pc' = "clean" PROVE CleanInv'
  BY <1>4, <1>5, <1>6 DEF TypeOK, CleanInv
<1>7. ASSUME pc' \in {"destroy", "done"} PROVE SettledInv'
  <2>1. i = count /\ error = "None"
    BY <1>7 DEF TypeOK, CleanInv
  <2>2. \A p \in Used : Public(p)' \/ Finished(p)'
    BY <1>4, <2>1 DEF TypeOK, CleanInv
  <2>3. CASE backed' # {}
    BY <2>1, <2>2, <2>3 DEF SettledInv, CleanInv, TypeOK
  <2>4. CASE backed' = {}
    BY <2>1, <2>2, <2>4 DEF SettledInv, Replaced, Public, Dropped, Cleaned, Finished, BackedUp
  <2> QED BY <2>3, <2>4
<1> QED BY <1>2, <1>3, <1>6, <1>7 DEF TypeOK, Phases

LEMMA RemoveInstalledInv == IInv /\ RemoveInstalled => IInv'
<1> SUFFICES ASSUME IInv, RemoveInstalled PROVE IInv'
  OBVIOUS
<1> USE DEF RemoveInstalled, IInv, PhaseInv
<1>1. TypeOK'
  BY DEF TypeOK, Phases, Errors, RollbackInv
<1>2. Found'
  BY DEF TypeOK, Found, Held, RollbackInv
<1>3. \A p \in Used : Untouched(p) => Untouched(p)'
  BY DEF TypeOK, Untouched
<1>4. \A p \in Used : Moved(p) => Moved(p)'
  BY DEF TypeOK, Moved, BackedUp
<1>5. \A p \in Used : Public(p) => Moved(p)' \/ Public(p)'
  <2> SUFFICES ASSUME NEW p \in Used, Public(p) PROVE Moved(p)' \/ Public(p)'
    OBVIOUS
  <2>1. CASE p = i
    <3>1. p \in installed /\ Replaced(p)
      BY <2>1 DEF Public, Replaced, Dropped
    <3> QED BY <2>1, <3>1 DEF TypeOK, Moved, Replaced, BackedUp
  <2>2. CASE p # i
    BY <2>2 DEF TypeOK, Public, Replaced, Dropped, BackedUp
  <2> QED BY <2>1, <2>2
<1>6. RollbackInv'
  BY <1>3, <1>4, <1>5 DEF RollbackInv
<1> QED BY <1>1, <1>2, <1>6 DEF TypeOK, Phases

LEMMA RemoveFailsInv == IInv /\ RemoveFails => IInv'
<1> SUFFICES ASSUME IInv, RemoveFails PROVE IInv'
  OBVIOUS
<1> USE DEF RemoveFails, Retreat, files, flags, IInv, PhaseInv
<1>1. TypeOK'
  BY SMTT(30) DEF TypeOK, Phases, Errors, RollbackInv
<1>2. Found'
  BY DEF TypeOK, Found, Held, RollbackInv
<1>3. ASSUME pc' \in {"remove", "restore"} PROVE RollbackInv'
  BY <1>3 DEF TypeOK, Errors, RollbackInv, Untouched, Moved, BackedUp, Replaced, Public, Dropped
<1>4. ASSUME pc' \in {"destroy", "done"} PROVE SettledInv'
  BY <1>4 DEF TypeOK, Errors, RollbackInv, SettledInv, Untouched, Moved, BackedUp, Replaced, Public, Dropped
<1> QED BY <1>1, <1>2, <1>3, <1>4 DEF TypeOK, Phases

LEMMA RestoreStepInv == IInv /\ Restore => IInv'
<1> SUFFICES ASSUME IInv, Restore PROVE IInv'
  OBVIOUS
<1> USE DEF Restore, Retreat, IInv, PhaseInv
<1>1. TypeOK'
  <2>1. final' \in [Entries -> Nat] /\ back' \in [Entries -> Nat]
    BY DEF TypeOK
  <2>2. pc' \in Phases /\ i' \in Entries /\ backed' \subseteq Used'
    BY DEF TypeOK, Phases, RollbackInv
  <2> QED BY <2>1, <2>2 DEF TypeOK
<1>2. Found'
  BY DEF TypeOK, Found, Held, RollbackInv
<1>3. ASSUME NEW p \in Used, p = i, Untouched(p) \/ Moved(p) PROVE Untouched(p)'
  <2>1. p \notin backed' /\ installed' = installed /\ orig' = orig /\ p \in Entries
    BY <1>1, <1>3 DEF TypeOK
  <2>2. CASE p \in backed
    <3>1. final'[p] = back[p] /\ back'[p] = Absent
      BY <1>3, <2>1, <2>2 DEF TypeOK
    <3> QED BY <1>3, <2>1, <2>2, <3>1 DEF Untouched, Moved, BackedUp
  <2>3. CASE p \notin backed
    <3>1. final' = final /\ back' = back
      BY <1>3, <2>3
    <3> QED BY <1>3, <2>1, <2>3, <3>1 DEF Untouched, Moved, BackedUp
  <2> QED BY <2>2, <2>3
<1>4. \A p \in Used : p # i =>
        /\ Untouched(p) => Untouched(p)'
        /\ Moved(p) => Moved(p)'
        /\ Public(p) => Public(p)'
  <2> SUFFICES ASSUME NEW p \in Used, p # i
               PROVE  /\ Untouched(p) => Untouched(p)'
                      /\ Moved(p) => Moved(p)'
                      /\ Public(p) => Public(p)'
    OBVIOUS
  <2>1. final'[p] = final[p] /\ back'[p] = back[p] /\ (p \in backed' <=> p \in backed)
    BY DEF TypeOK
  <2> QED BY <2>1 DEF Untouched, Moved, BackedUp, Replaced, Public, Dropped
<1>5. \A p \in Used : p = i => Untouched(p)'
  BY <1>3 DEF RollbackInv, Replaced, Public, Dropped
<1>6. ASSUME pc' \in {"remove", "restore"} PROVE RollbackInv'
  <2>1. i' = i - 1 /\ i' \in Used' /\ pc' = "remove" /\ count' = count /\ error' = error
    BY <1>6 DEF TypeOK, RollbackInv
  <2>2. \A p \in Used : Untouched(p)' \/ Moved(p)' \/ Public(p)'
    BY <1>4, <1>5 DEF RollbackInv
  <2>3. ASSUME NEW p \in Used, p > i', error = "CommitFailed" PROVE Untouched(p)'
    <3>1. CASE p = i
      BY <1>5, <3>1
    <3>2. CASE p # i
      <4>1. p > i
        BY <2>1, <2>3, <3>2 DEF TypeOK
      <4> QED BY <1>4, <2>3, <3>2, <4>1 DEF RollbackInv
    <3> QED BY <3>1, <3>2
  <2> QED BY <2>1, <2>2, <2>3 DEF RollbackInv
<1>7. ASSUME pc' \in {"destroy", "done"} PROVE SettledInv'
  <2>1. i = 1 /\ count' = count /\ error' = error /\ RollbackInv
    BY <1>7 DEF TypeOK
  <2>2. \A p \in Used : Untouched(p)' \/ Moved(p)' \/ Public(p)'
    BY <1>4, <1>5, <2>1 DEF RollbackInv
  <2>3. error = "CommitFailed" => \A p \in Used : Untouched(p)'
    BY <1>4, <1>5, <2>1 DEF RollbackInv
  <2>4. error \in {"CommitFailed", "RecoveryRequired"}
    BY <2>1 DEF RollbackInv
  <2> QED BY <2>1, <2>2, <2>3, <2>4 DEF SettledInv
<1> QED BY <1>1, <1>2, <1>6, <1>7 DEF TypeOK, Phases

LEMMA RestoreFailsInv == IInv /\ RestoreFails => IInv'
<1> SUFFICES ASSUME IInv, RestoreFails PROVE IInv'
  OBVIOUS
<1> USE DEF RestoreFails, Retreat, files, flags, IInv, PhaseInv
<1>1. TypeOK'
  BY SMTT(30) DEF TypeOK, Phases, Errors, RollbackInv
<1>2. Found'
  BY DEF TypeOK, Found, Held, RollbackInv
<1>3. ASSUME pc' \in {"remove", "restore"} PROVE RollbackInv'
  BY <1>3 DEF TypeOK, Errors, RollbackInv, Untouched, Moved, BackedUp, Replaced, Public, Dropped
<1>4. ASSUME pc' \in {"destroy", "done"} PROVE SettledInv'
  BY <1>4 DEF TypeOK, Errors, RollbackInv, SettledInv, Untouched, Moved, BackedUp, Replaced, Public, Dropped
<1> QED BY <1>1, <1>2, <1>3, <1>4 DEF TypeOK, Phases

LEMMA DestructorInv == IInv /\ Destructor => IInv'
<1> SUFFICES ASSUME IInv, Destructor PROVE IInv'
  OBVIOUS
<1> USE DEF Destructor, flags, IInv, PhaseInv
<1>1. TypeOK'
  <2>1. temp' \in [Entries -> Nat \cup {Partial}]
    <3>1. temp \in [Entries -> Nat \cup {Partial}]
      BY DEF TypeOK
    <3>2. CASE temp' = temp
      BY <3>1, <3>2
    <3>3. CASE temp' = [temp EXCEPT ![i] = Absent]
      BY <3>1, <3>3
    <3> QED BY <3>2, <3>3
  <2>2. pc' \in Phases /\ i' \in Entries
    BY DEF TypeOK, Phases
  <2> QED BY <2>1, <2>2 DEF TypeOK
<1>2. Found'
  BY DEF TypeOK, Found, Held, SettledInv
<1>3. ASSUME pc' \in {"destroy", "done"} PROVE SettledInv'
  BY <1>3 DEF TypeOK, Errors, SettledInv, Untouched, Moved, BackedUp, Replaced, Public, Dropped, Cleaned, Finished
<1> QED BY <1>1, <1>2, <1>3 DEF TypeOK, Phases

LEMMA ForgetInv == IInv /\ Forget => IInv'
<1> SUFFICES ASSUME IInv, Forget PROVE IInv'
  OBVIOUS
<1>1. OldOrNewSurvives
  BY PhasesKeepOriginals
<1> QED BY <1>1, SMTT(30) DEF Forget, IInv, TypeOK, Phases, Errors, OldOrNewSurvives, files, flags

LEMMA PowerCutInv == IInv /\ PowerCut => IInv'
BY ForgetInv DEF PowerCut

LEMMA StutterInv == IInv /\ UNCHANGED vars => IInv'
BY SMTT(30) DEF vars, files, flags, IInv, TypeOK, OldOrNewSurvives, PhaseInv, Found, Held, StageInv, BackupInv,
       PublishInv, CleanInv, RollbackInv, SettledInv, Untouched, Moved, BackedUp, Replaced, Public, Dropped,
       Cleaned, Finished, Ready

LEMMA NextInv == IInv /\ [Next]_vars => IInv'
<1> SUFFICES ASSUME IInv, [Next]_vars PROVE IInv'
  OBVIOUS
<1>1. CASE Begin
  BY <1>1, BeginInv
<1>2. CASE Stage
  BY <1>2, StageRefusedInv, StageFailsInv, StageOpenInv, StageWrittenInv, StageWriteFailsInv,
     AbandonInv DEF Stage
<1>3. CASE Install
  BY <1>3, CommitInv, BackupSkipInv, BackupStepInv, BackupFailsInv, PublishStepInv,
     PublishFailsInv, CleanStepInv DEF Install
<1>4. CASE Rollback
  BY <1>4, RemoveInstalledInv, RemoveFailsInv, RestoreStepInv, RestoreFailsInv DEF Rollback
<1>5. CASE Destructor
  BY <1>5, DestructorInv
<1>6. CASE PowerCut
  BY <1>6, PowerCutInv
<1>7. CASE UNCHANGED vars
  BY <1>7, StutterInv
<1> QED BY <1>1, <1>2, <1>3, <1>4, <1>5, <1>6, <1>7 DEF Next

(* The condition every reachable state meets, from which the rest follows.  *)
THEOREM Invariance == Spec => []IInv
BY InitInv, NextInv, PTL DEF Spec

-----------------------------------------------------------------------------
(* The shapes: what a file holds, and flags only for entries in use.        *)
THEOREM TypeCorrect == Spec => []TypeOK
<1>1. IInv => TypeOK
  BY DEF IInv
<1> QED BY <1>1, Invariance, PTL

(* However many files one install replaces, whatever call fails and at      *)
(* whatever point power is lost, no original is lost: a target holds its    *)
(* old or its new edition, or the old one is its backup.                    *)
THEOREM OriginalsSurvive == Spec => []OldOrNewSurvives
BY PhasesKeepOriginals, Invariance, PTL

(* The error a finished install reports follows from how it left the files. *)
LEMMA OutcomeFollows == IInv => OutcomeIsTruthful
<1> SUFFICES ASSUME IInv, pc = "done" PROVE OutcomeIsTruthful
  BY DEF OutcomeIsTruthful
<1>1. SettledInv /\ TypeOK
  BY DEF IInv, PhaseInv
<1>2. installed # {} => \E p \in Used : p \in installed
  BY <1>1 DEF TypeOK
<1>3. error = "None" /\ installed # {} => \A p \in Used : Finished(p)
  BY <1>1, <1>2 DEF SettledInv, Untouched
<1>4. error \notin {"None", "CleanupFailed", "RecoveryRequired"} => installed = {}
  BY <1>1, <1>2 DEF SettledInv, Untouched
<1>5. error = "None" /\ installed = {} => \A p \in Used : Untouched(p)
  BY <1>1 DEF SettledInv, Cleaned, Dropped, Finished
<1>6. error = "CleanupFailed" => \A p \in Used : final[p] = edition \/ orig[p] = Gone
  BY <1>1 DEF SettledInv, Replaced, Public, Dropped, Cleaned, Finished
<1>7. error \notin {"CleanupFailed", "RecoveryRequired"} /\ installed = {} =>
        \A p \in Used : Untouched(p)
  BY <1>1, <1>5 DEF SettledInv
<1>8. error = "None" /\ installed # {} =>
        \A p \in Used : (final[p] = edition \/ orig[p] = Gone) /\ back[p] = Absent
  BY <1>3 DEF Finished, Cleaned, Dropped
<1>9. error \notin {"CleanupFailed", "RecoveryRequired"} /\ installed = {} =>
        \A p \in Used : final[p] = orig[p] /\ back[p] = Absent
  BY <1>7 DEF Untouched
<1> QED BY <1>4, <1>6, <1>8, <1>9 DEF OutcomeIsTruthful

(* The error a finished install reports is true of the files.               *)
THEOREM OutcomeIsTrue == Spec => []OutcomeIsTruthful
BY OutcomeFollows, Invariance, PTL

(* What an earlier install left behind is not touched by a later one.       *)
THEOREM LeftoversStay == Spec => LeftoversUntouched
<1> DEFINE Kept == \A p \in Entries :
             /\ temp[p] # Absent /\ p \notin staged => temp'[p] = temp[p]
             /\ back[p] # Absent /\ p \notin backed => back'[p] = back[p]
<1>1. IInv /\ [Next]_vars => [Kept]_vars
  <2> SUFFICES ASSUME IInv, Next PROVE Kept
    OBVIOUS
  <2> USE DEF IInv, TypeOK
  <2>1. CASE Begin \/ PowerCut
    BY <2>1 DEF Begin, PowerCut, Forget, files
  <2>2. CASE Stage
    <3>1. CASE StageOpen
      BY <3>1 DEF StageOpen, Leftover
    <3>2. CASE StageWritten
      <4>1. count \in staged
        BY <3>2 DEF StageWritten, PhaseInv, StageInv
      <4> QED BY <3>2, <4>1 DEF StageWritten
    <3>3. CASE StageRefused \/ StageFails \/ StageWriteFails \/ Abandon
      BY <3>3 DEF StageRefused, StageFails, StageWriteFails, Abandon, files
    <3> QED BY <2>2, <3>1, <3>2, <3>3 DEF Stage
  <2>3. CASE Commit \/ BackupSkip \/ BackupFails \/ PublishFails
    BY <2>3 DEF Commit, BackupSkip, BackupFails, PublishFails, Failed, files
  <2>4. CASE Backup
    BY <2>4 DEF Backup, PhaseInv, BackupInv, Untouched
  <2>5. CASE Publish
    BY <2>5 DEF Publish, PhaseInv, PublishInv, Ready
  <2>6. CASE Clean
    BY <2>6 DEF Clean
  <2>7. CASE Rollback
    BY <2>7 DEF Rollback, RemoveInstalled, RemoveFails, Restore, RestoreFails, files
  <2>8. CASE Destructor
    BY <2>8 DEF Destructor
  <2> QED BY <2>1, <2>2, <2>3, <2>4, <2>5, <2>6, <2>7, <2>8 DEF Next, Install
<1> QED BY <1>1, Invariance, PTL DEF Spec, LeftoversUntouched

-----------------------------------------------------------------------------
(* The app store around the install.                                        *)
Jobs       == {"idle", "queued", "running", "ready", "failed", "ok"}
Removals   == {"no", "source", "manifest", "end"}
ListStates == {"idle", "queued", "manifests", "sources", "ready"}
Lists == [state : ListStates, row : Int, valid : BOOLEAN, rescan : BOOLEAN,
          discard : BOOLEAN]
Doubts == {"files", "crossed"}
Snapshots == [row : Int, valid : BOOLEAN]

Shapes ==
  /\ catalog \in Jobs /\ app \in Jobs /\ lang \in Jobs
  /\ shown \in {-1, 0, 1} /\ removal \in Removals
  /\ inv \in Lists /\ seen \in Snapshots
  /\ open \in BOOLEAN /\ busy \in BOOLEAN /\ up \in BOOLEAN
  /\ gone \in BOOLEAN /\ removed \in BOOLEAN /\ doubt \in SUBSET Doubts
  /\ edition > 0

(* One job at a time.                                                       *)
OneAtATime ==
  /\ pc # "off" <=> app = "running"
  /\ app = "running" => inv.state \notin {"manifests", "sources"}
  /\ open => (busy <=> DownloadsActive)
  /\ pc \in {"backup", "publish", "clean", "remove", "restore"} => count = 2
  /\ pc \in {"destroy", "done"} /\ installed # {} => count = 2

(* A removal next to a download of the app is marked; one that is not finds *)
(* the files it has removed absent until it ends, and an install without    *)
(* such a mark has all of its files.                                        *)
CrossInv ==
  /\ removal # "no" => app = "idle" \/ "crossed" \in doubt
  /\ app = "running" /\ "crossed" \notin doubt => orig[1] # Gone /\ orig[2] # Gone
  /\ app = "idle" /\ removed =>
       /\ removal \in {"manifest", "end"} => final[1] = Absent
       /\ removal = "end" => final[2] = Absent

(* What the card held before the install under way.                         *)
Was(p) == IF pc # "off" /\ p \in Used THEN orig[p] ELSE final[p]
WasListing == IF Was(2) # Absent THEN Was(2) ELSE IF Was(1) # Absent THEN Dev ELSE Absent

Scanning == {"manifests", "sources", "ready"}
Known == doubt = {} /\ removal = "no" /\ app # "ok"
RowsInv ==
  /\ Known /\ inv.valid =>
       \/ inv.row = WasListing
       \/ inv.state \in Scanning /\ ~inv.discard
  /\ Known /\ ~inv.discard =>
       /\ inv.state = "sources" => seen.row = Was(2)
       /\ inv.state = "ready" /\ seen.valid => seen.row = WasListing
  /\ app = "ok" /\ "crossed" \notin doubt => Listing = edition

GoneInv ==
  gone => /\ inv.row = Absent /\ removal = "no" /\ app = "idle" /\ Listing = Absent
          /\ inv.state \in Scanning => inv.discard \/ seen.row = Absent

AppInv == Shapes /\ OneAtATime /\ CrossInv /\ RowsInv /\ GoneInv /\ WaitsAreServed

HIDE MaxEditionsAssumption
HIDE NAssumption
HIDE DEF Partial, Entries, Used
USE TwoFiles DEF Absent, install, vars, files, flags, ask, list, screen, allVars

-----------------------------------------------------------------------------
(* The operations of the list.                                              *)
LEMMA ListOps ==
  ASSUME seen \in Snapshots
  PROVE  \A v \in Lists :
           /\ Requested(v) \in Lists /\ Cancelled(v) \in Lists /\ Polled(v) \in Lists
           /\ Prepared(v, TRUE) \in Lists /\ Prepared(v, FALSE) \in Lists
           /\ \A k \in Int : Installed(v, k) \in Lists
           /\ Removed(v) \in Lists
<1>1. \A w \in Lists : Requested(w) \in Lists
  BY DEF Requested, Active, Lists, ListStates
<1>2. \A w \in Lists : Polled(w) \in Lists
  <2> SUFFICES ASSUME NEW w \in Lists PROVE Polled(w) \in Lists
    OBVIOUS
  <2>1. Published(w) \in Lists
    BY DEF Published, Lists, Snapshots
  <2> DEFINE free == [Published(w) EXCEPT !.state = "idle", !.discard = FALSE, !.rescan = FALSE]
  <2>2. free \in Lists
    BY <2>1 DEF Lists, ListStates
  <2> QED BY <1>1, <2>2 DEF Polled
<1>3. \A w \in Lists : Cancelled(w) \in Lists /\ Invalidated(w) \in Lists
  <2>1. ASSUME NEW w \in Lists PROVE Cancelled(w) \in Lists
    BY DEF Cancelled, Lists, ListStates
  <2>2. ASSUME NEW w \in Lists PROVE Invalidated(w) \in Lists
    BY DEF Invalidated, Active, Lists, ListStates
  <2> QED BY <2>1, <2>2
<1>4. \A v \in Lists : Prepared(v, TRUE) \in Lists /\ Prepared(v, FALSE) \in Lists
  BY <1>1, <1>2, <1>3 DEF Prepared
<1>5. \A v \in Lists : \A k \in Int : Installed(v, k) \in Lists
  <2> SUFFICES ASSUME NEW v \in Lists, NEW k \in Int PROVE Installed(v, k) \in Lists
    OBVIOUS
  <2>1. (v.discard \/ Active(v)) \in BOOLEAN
    BY DEF Lists, Active
  <2> QED BY <2>1 DEF Installed, Lists
<1>6. \A v \in Lists : Removed(v) \in Lists
  <2> SUFFICES ASSUME NEW v \in Lists PROVE Removed(v) \in Lists
    OBVIOUS
  <2> DEFINE d == v.discard \/ Active(v)
             w == [v EXCEPT !.discard = d]
  <2>1. d \in BOOLEAN
    BY DEF Lists, Active
  <2>2. w \in Lists
    BY <2>1 DEF Lists
  <2>3. Removed(v) = [w EXCEPT !.row = 0]
    BY DEF Removed
  <2> HIDE DEF w
  <2> QED BY <2>2, <2>3 DEF Lists
<1> QED BY <1>1, <1>2, <1>3, <1>4, <1>5, <1>6

LEMMA ScanShapes ==
  ASSUME NEW v \in Lists, seen \in Snapshots, NEW force \in BOOLEAN, up \in BOOLEAN,
         ~up => v.state = "idle", ScanInstalled(v, force)
  PROVE  /\ inv' \in Lists /\ seen' \in Snapshots /\ up' \in BOOLEAN
         /\ up => up'
         /\ ~up' => inv'.state = "idle"
<1> DEFINE w == Prepared(v, force)
<1>1. w \in Lists
  BY ListOps
<1>2. Cancelled(w) \in Lists
  BY <1>1, ListOps
<1>3. up' \in {up, TRUE} /\ inv' = IF up' THEN w ELSE Cancelled(w)
  BY DEF ScanInstalled, StartWorker
<1>4. seen' \in Snapshots
  BY DEF ScanInstalled, NoScan, Snapshots
<1>5. ~up => w.state \in {"idle", "queued"}
  BY DEF Prepared, Polled, Invalidated, Requested, Active, Lists
<1>6. w.state = "queued" => Cancelled(w).state = "idle"
  BY <1>1 DEF Cancelled, Lists
<1>7. w.state = "idle" => Cancelled(w) = w
  BY DEF Cancelled
<1> QED BY <1>1, <1>2, <1>3, <1>4, <1>5, <1>6, <1>7

(* A forced scan leaves nothing of an earlier one to be published.          *)
LEMMA ForcedScan ==
  ASSUME NEW v \in Lists, seen \in Snapshots, up \in BOOLEAN, ScanInstalled(v, TRUE)
  PROVE  /\ ~inv'.valid
         /\ inv'.state # "ready"
         /\ inv'.state \in {"manifests", "sources"} => inv'.discard
         /\ v.row = Absent /\ (Active(v) => v.discard) => inv'.row = Absent
<1> DEFINE q == Polled(v)
           w == Prepared(v, TRUE)
<1>1. q \in Lists /\ w \in Lists
  BY ListOps
<1>2. q.state # "ready"
  BY DEF Polled, Published, Requested, Active, Lists
<1>3. v.row = Absent /\ (Active(v) => v.discard) => q.row = Absent
  BY DEF Polled, Published, Requested, Active, Lists
<1>4. /\ ~w.valid /\ w.row = q.row /\ w.state # "ready"
      /\ w.state \in {"manifests", "sources"} => w.discard
  BY <1>1, <1>2 DEF Prepared, Invalidated, Requested, Active, Lists
<1>5. inv' = w \/ inv' = Cancelled(w)
  BY DEF ScanInstalled
<1>6. /\ Cancelled(w).valid = w.valid /\ Cancelled(w).row = w.row
      /\ Cancelled(w).state \in {w.state, "idle"}
      /\ Cancelled(w).state = w.state => Cancelled(w) = w
  BY <1>1 DEF Cancelled, Lists
<1> QED BY <1>3, <1>4, <1>5, <1>6

-----------------------------------------------------------------------------
(* The install inside keeps its invariant: a removal, at whatever step it   *)
(* comes, leaves an entry in a condition the invariant knows.               *)
LEMMA RemoveFileInv == AppInv /\ IInv /\ RemoveFile => IInv'
<1> SUFFICES ASSUME AppInv, IInv, RemoveFile PROVE IInv'
  OBVIOUS
<1> USE DEF Entries
<1>1. UNCHANGED <<temp, back, pc, i, count, staged, backed, installed, error, edition>>
  BY DEF RemoveFile
<1>2. CASE UNCHANGED <<final, orig>>
  BY <1>1, <1>2, StutterInv
<1>3. ASSUME NEW p \in {1, 2}, final[p] # Absent, final' = [final EXCEPT ![p] = Absent],
             orig' = [orig EXCEPT ![p] = IF p \in installed THEN Gone ELSE back[p]]
      PROVE  IInv'
  <2>1. TypeOK /\ Entries = {1, 2}
    BY DEF IInv
  <2>2. TypeOK'
    <3>1. back[p] \in Nat
      BY <2>1 DEF TypeOK
    <3>2. final' \in [Entries -> Nat] /\ orig' \in [Entries -> Nat \cup {Gone}]
      BY <1>3, <2>1, <3>1 DEF TypeOK
    <3> QED BY <1>1, <2>1, <3>2 DEF TypeOK, Used
  <2>3. \A q \in Entries \ {p} : final'[q] = final[q] /\ orig'[q] = orig[q]
    BY <1>3, <2>1 DEF TypeOK
  <2>4. final'[p] = Absent /\ orig'[p] = IF p \in installed THEN Gone ELSE back[p]
    BY <1>3, <2>1 DEF TypeOK
  <2>5. ASSUME NEW q \in Entries
        PROVE  /\ Untouched(q) => Untouched(q)'
               /\ Moved(q) => Moved(q)'
               /\ Public(q) => Public(q)'
               /\ Finished(q) => Finished(q)'
    <3>1. CASE q # p
      BY <1>1, <2>3, <3>1
         DEF Untouched, Moved, BackedUp, Public, Replaced, Dropped, Finished, Cleaned
    <3>2. CASE q = p
      BY <1>1, <1>3, <2>4, <3>2
         DEF Untouched, Moved, BackedUp, Public, Replaced, Dropped, Finished, Cleaned
    <3> QED BY <3>1, <3>2
  <2>6. Used \subseteq Entries /\ Used' = Used
    BY <1>1, <2>1 DEF TypeOK, Used
  <2>7. CASE pc = "off"
    <3>1. OldOrNewSurvives'
      BY <1>1, <2>3, <2>4, <2>7 DEF IInv, OldOrNewSurvives
    <3> QED BY <1>1, <2>2, <2>7, <3>1 DEF IInv
  <2>8. CASE pc # "off"
    <3>1. Found'
      <4> SUFFICES ASSUME NEW q \in Entries \ Used PROVE orig'[q] = Held(q)'
        BY <2>6 DEF Found
      <4>1. orig[q] = Held(q) /\ q \notin installed
        BY <2>1, <2>8 DEF IInv, PhaseInv, Found, TypeOK
      <4>2. CASE q = p
        BY <1>1, <2>4, <4>1, <4>2 DEF Held
      <4>3. CASE q # p
        BY <1>1, <2>3, <4>1, <4>3 DEF Held
      <4> QED BY <4>2, <4>3
    <3>2. pc \in {"stage", "write"} => StageInv'
      BY <1>1, <2>5, <2>6, <2>8 DEF IInv, PhaseInv, StageInv
    <3>3. pc = "backup" => BackupInv'
      BY <1>1, <2>5, <2>6, <2>8 DEF IInv, PhaseInv, BackupInv, Ready
    <3>4. pc = "publish" => PublishInv'
      BY <1>1, <2>5, <2>6, <2>8 DEF IInv, PhaseInv, PublishInv, Ready
    <3>5. pc = "clean" => CleanInv'
      BY <1>1, <2>5, <2>6, <2>8 DEF IInv, PhaseInv, CleanInv
    <3>6. pc \in {"remove", "restore"} => RollbackInv'
      BY <1>1, <2>5, <2>6, <2>8 DEF IInv, PhaseInv, RollbackInv
    <3>7. pc \in {"destroy", "done"} => SettledInv'
      BY <1>1, <2>5, <2>6, <2>8 DEF IInv, PhaseInv, SettledInv
    <3> QED BY <1>1, <2>2, <2>8, <3>1, <3>2, <3>3, <3>4, <3>5, <3>6, <3>7 DEF IInv, PhaseInv
  <2> QED BY <2>7, <2>8
<1> QED BY <1>2, <1>3 DEF RemoveFile

LEMMA InstallStep == IInv /\ AppInv /\ [AppNext]_allVars => IInv'
<1> SUFFICES ASSUME IInv, AppInv, [AppNext]_allVars PROVE IInv'
  OBVIOUS
<1>1. CASE UNCHANGED vars
  BY <1>1, StutterInv
<1>2. CASE ClaimApp
  BY <1>2, NextInv DEF ClaimApp, Next
<1>3. CASE InstallApp
  BY <1>3, NextInv DEF InstallApp, Next
<1>4. CASE AppEnds \/ Restart
  BY <1>4, <1>1, ForgetInv DEF AppEnds, Restart
<1>5. CASE RemoveFile
  BY <1>5, RemoveFileInv
<1>6. CASE User \/ Poll \/ RemoveEnds
  <2>1. UNCHANGED vars
    BY <1>6 DEF User, Poll, Open, Close, OpenDrawer, TapInstall, TapLanguage, TapRemove,
                RemoveEnds, TakeCatalog, TakeLanguage, TakeApp, PollInventory
  <2> QED BY <1>1, <2>1
<1>7. CASE ClaimCatalog \/ CatalogEnds \/ ClaimLanguage \/ LanguageEnds
           \/ ClaimScan \/ ScanFails \/ ScanManifests \/ ScanSources
  <2>1. UNCHANGED vars
    BY <1>7 DEF ClaimCatalog, CatalogEnds, ClaimLanguage, LanguageEnds,
                ClaimScan, ScanFails, ScanManifests, ScanSources, ScanEnds
  <2> QED BY <1>1, <2>1
<1>8. CASE UNCHANGED allVars
  BY <1>8, <1>1
<1> QED BY <1>2, <1>3, <1>4, <1>5, <1>6, <1>7, <1>8 DEF AppNext, Worker, Remove

-----------------------------------------------------------------------------
(* The shapes, and what goes on at the same time.                           *)
LEMMA OpenShapes == AppInv /\ Open =>
  /\ inv' \in Lists /\ up' \in BOOLEAN /\ (up => up')
  /\ ~up' => inv'.state = "idle"
<1> SUFFICES ASSUME AppInv, Open
             PROVE  /\ inv' \in Lists /\ up' \in BOOLEAN /\ (up => up')
                    /\ ~up' => inv'.state = "idle"
  OBVIOUS
<1> DEFINE w == Requested(inv)
<1>1. inv \in Lists /\ seen \in Snapshots /\ up \in BOOLEAN /\ (~up => inv.state = "idle")
  BY DEF AppInv, Shapes, WaitsAreServed
<1>2. w \in Lists
  BY <1>1, ListOps
<1>3. Cancelled(w) \in Lists
  BY <1>1, <1>2, ListOps
<1>4. up' \in {up, TRUE} /\ inv' = IF up' THEN w ELSE Cancelled(w)
  BY DEF Open, StartWorker
<1>5. ~up => w.state = "queued"
  BY <1>1 DEF Requested, Active, Lists
<1>6. w.state = "queued" => Cancelled(w).state = "idle"
  BY <1>2 DEF Cancelled, Lists
<1> QED BY <1>1, <1>2, <1>3, <1>4, <1>5, <1>6

LEMMA ShapesStep == IInv /\ AppInv /\ [AppNext]_allVars => Shapes'
<1> SUFFICES ASSUME IInv, AppInv, [AppNext]_allVars PROVE Shapes'
  OBVIOUS
<1> USE DEF Shapes, Jobs, Removals
<1>1. Shapes /\ WaitsAreServed /\ edition \in Nat
  BY DEF AppInv, IInv, TypeOK
<1>2. CASE Open
  <2>1. inv' \in Lists /\ up' \in BOOLEAN
    BY <1>2, OpenShapes
  <2>2. /\ open' = TRUE /\ busy' \in BOOLEAN /\ shown' \in {-1, 0, 1} /\ catalog' \in Jobs
        /\ UNCHANGED <<app, lang, seen, removal, removed, gone, doubt, edition>>
    BY <1>1, <1>2 DEF Open, DownloadsActive
  <2> QED BY <1>1, <2>1, <2>2
<1>3. CASE OpenDrawer
  <2>1. inv' \in Lists /\ seen' \in Snapshots /\ up' \in BOOLEAN
    BY <1>1, <1>3, ScanShapes DEF OpenDrawer, WaitsAreServed
  <2> QED BY <1>1, <1>3, <2>1 DEF OpenDrawer
<1>4. CASE Close \/ TapInstall \/ TapLanguage \/ TapRemove
  <2>1. CASE Close \/ TapLanguage
    BY <1>1, <2>1 DEF Close, TapLanguage
  <2>2. CASE TapInstall
    BY <1>1, <2>2, ZenonT(30) DEF TapInstall, StartWorker, Queued
  <2>3. CASE TapRemove
    <3>1. doubt' \in SUBSET Doubts
      BY <1>1, <2>3 DEF TapRemove, Doubts
    <3> QED BY <1>1, <2>3, <3>1 DEF TapRemove
  <2> QED BY <1>4, <2>1, <2>2, <2>3
<1>5. CASE RemoveFile
  <2>1. removed' \in BOOLEAN /\ removal' \in Removals
    BY <1>1, <1>5 DEF RemoveFile
  <2> QED BY <1>1, <1>5, <2>1 DEF RemoveFile
<1>6. CASE RemoveEnds
  <2> DEFINE v == IF removed THEN Removed(inv) ELSE inv
  <2>1. v \in Lists
    BY <1>1, ListOps
  <2>2. ~up => v.state = "idle"
    BY <1>1 DEF WaitsAreServed, Removed, Lists
  <2>3. ScanInstalled(v, TRUE)
    BY <1>6 DEF RemoveEnds
  <2>4. inv' \in Lists /\ seen' \in Snapshots /\ up' \in BOOLEAN
    BY <1>1, <2>1, <2>2, <2>3, ScanShapes
  <2>5. gone' \in BOOLEAN
    BY <1>1, <1>6 DEF RemoveEnds
  <2>6. /\ removal' = "no" /\ removed' = FALSE /\ doubt' = doubt /\ edition' = edition
        /\ UNCHANGED <<catalog, shown, app, lang, open, busy>>
    BY <1>6 DEF RemoveEnds
  <2>7. catalog \in Jobs /\ app \in Jobs /\ lang \in Jobs /\ shown \in {-1, 0, 1}
    BY <1>1
  <2>8. open \in BOOLEAN /\ busy \in BOOLEAN /\ doubt \in SUBSET Doubts
    BY <1>1, Zenon
  <2>9. /\ catalog' \in Jobs /\ app' \in Jobs /\ lang' \in Jobs
        /\ shown' \in {-1, 0, 1} /\ removal' \in Removals /\ edition' > 0
    BY <1>1, <2>6, <2>7
  <2>10. open' \in BOOLEAN /\ busy' \in BOOLEAN /\ doubt' \in SUBSET Doubts
    BY <2>6, <2>8, Zenon
  <2>11. removed' \in BOOLEAN
    BY <2>6
  <2> QED BY <2>4, <2>5, <2>9, <2>10, <2>11 DEF Shapes
<1>7. CASE TakeCatalog \/ TakeLanguage
  BY <1>1, <1>7, ZenonT(30) DEF TakeCatalog, TakeLanguage
<1>8. CASE TakeApp
  <2>1. Installed(inv, edition) \in Lists
    <3>1. inv \in Lists /\ seen \in Snapshots /\ edition \in Int
      BY <1>1
    <3>2. \A v \in Lists : \A k \in Int : Installed(v, k) \in Lists
      BY <3>1, ListOps
    <3> QED BY <3>1, <3>2
  <2>2. inv' \in Lists
    BY <1>1, <1>8, <2>1 DEF TakeApp
  <2> QED BY <1>1, <1>8, <2>2 DEF TakeApp
<1>9. CASE PollInventory
  <2>1. Polled(inv) \in Lists
    BY <1>1, ListOps
  <2>2. NoScan \in Snapshots
    BY DEF NoScan, Snapshots
  <2> QED BY <1>1, <1>9, <2>1, <2>2 DEF PollInventory
<1>10. CASE ClaimCatalog \/ CatalogEnds \/ ClaimLanguage \/ LanguageEnds
  BY <1>1, <1>10 DEF ClaimCatalog, CatalogEnds, ClaimLanguage, LanguageEnds
<1>11. CASE ClaimApp
  BY <1>1, <1>11 DEF ClaimApp, Begin
<1>12. CASE InstallApp
  <2>1. edition' = edition
    BY <1>12 DEF InstallApp, Stage, StageRefused, StageFails, StageOpen, StageWritten,
       StageWriteFails, Abandon, Destroy, Install, Commit, BackupSkip, Backup, BackupFails,
       Publish, PublishFails, Failed, Clean, Rollback, RemoveInstalled, RemoveFails, Restore,
       RestoreFails, Destructor
  <2> QED BY <1>1, <1>12, <2>1 DEF InstallApp
<1>13. CASE AppEnds
  <2>1. doubt' \in SUBSET Doubts
    BY <1>1, <1>13 DEF AppEnds, Doubts
  <2> QED BY <1>1, <1>13, <2>1 DEF AppEnds, Forget
<1>14. CASE ClaimScan
  <2>1. inv' \in Lists /\ seen' \in Snapshots
    BY <1>1, <1>14 DEF ClaimScan, NoScan, Snapshots, Lists, ListStates
  <2>2. doubt' \in SUBSET Doubts
    BY <1>1, <1>14 DEF ClaimScan, Doubts
  <2> QED BY <1>1, <1>14, <2>1, <2>2 DEF ClaimScan
<1>15. CASE ScanFails \/ ScanManifests \/ ScanSources
  <2>1. final[1] \in Nat /\ final[2] \in Nat
    BY DEF IInv, TypeOK, Entries
  <2>2. inv' \in Lists
    BY <1>1, <1>15 DEF ScanFails, ScanManifests, ScanSources, ScanEnds, Lists, ListStates
  <2>3. CASE ScanFails
    <3>1. seen' = [seen EXCEPT !.valid = FALSE]
      BY <2>3 DEF ScanFails, ScanEnds
    <3>2. seen' \in Snapshots
      BY <1>1, <3>1 DEF Snapshots
    <3> QED BY <1>1, <2>2, <2>3, <3>2 DEF ScanFails, ScanEnds
  <2>4. CASE ScanManifests
    BY <1>1, <2>1, <2>2, <2>4 DEF ScanManifests, Snapshots
  <2>5. CASE ScanSources
    <3>1. PICK r \in Int : seen' = [seen EXCEPT !.row = r]
      BY <1>1, <2>5 DEF ScanSources, ScanEnds, Snapshots, Dev
    <3>2. seen' \in Snapshots
      BY <1>1, <3>1 DEF Snapshots
    <3> QED BY <1>1, <2>2, <2>5, <3>2 DEF ScanSources, ScanEnds
  <2> QED BY <1>15, <2>3, <2>4, <2>5
<1>16. CASE Restart
  <2>1. edition' = edition
    BY <1>16 DEF Restart, Forget
  <2>2. Fresh \in Lists /\ NoScan \in Snapshots
    BY DEF Fresh, NoScan, Lists, ListStates, Snapshots
  <2>3. Requested(Fresh) \in Lists
    BY <1>1, <2>2, ListOps
  <2>4. inv' \in Lists /\ seen' \in Snapshots /\ up' \in BOOLEAN
    BY <1>16, <2>2, <2>3 DEF Restart, Booted
  <2>5. doubt' \in SUBSET Doubts /\ removed' \in BOOLEAN
    BY <1>16 DEF Restart, Booted
  <2> QED BY <1>1, <1>16, <2>1, <2>4, <2>5 DEF Restart, Booted
<1>17. CASE UNCHANGED allVars
  BY <1>1, <1>17
<1> QED BY <1>2, <1>3, <1>4, <1>5, <1>6, <1>7, <1>8, <1>9, <1>10, <1>11, <1>12, <1>13,
           <1>14, <1>15, <1>16, <1>17 DEF AppNext, User, Remove, Poll, Worker

LEMMA OneStep == IInv /\ AppInv /\ [AppNext]_allVars => OneAtATime'
<1> SUFFICES ASSUME IInv, AppInv, [AppNext]_allVars PROVE OneAtATime'
  OBVIOUS
<1> USE DEF OneAtATime, DownloadsActive
<1>1. /\ OneAtATime /\ TypeOK /\ inv \in Lists
      /\ removal \in Removals /\ app \in Jobs /\ lang \in Jobs
      /\ open \in BOOLEAN /\ busy \in BOOLEAN
  BY DEF AppInv, IInv, Shapes
<1>2. CASE Open \/ Close \/ TapInstall \/ TapLanguage \/ TapRemove
  <2>1. UNCHANGED <<pc, count, installed>> /\ (app' = app \/ pc = "off")
    BY <1>2 DEF Open, Close, TapInstall, TapLanguage, TapRemove, UiFree
  <2>2. CASE Open
    <3>1. app # "running"
      BY <1>1, <2>2 DEF Open, UiFree
    <3> QED BY <1>1, <2>1, <2>2, <3>1 DEF Open, UiFree
  <2>3. CASE Close \/ TapInstall \/ TapLanguage \/ TapRemove
    BY <1>1, <2>1, <2>3 DEF Close, TapInstall, TapLanguage, TapRemove, UiFree, Queued
  <2> QED BY <1>2, <2>2, <2>3
<1>3. CASE OpenDrawer \/ RemoveEnds \/ PollInventory \/ TakeCatalog
  <2>1. /\ UNCHANGED <<pc, count, installed, app, lang, open, busy>>
    BY <1>3 DEF OpenDrawer, RemoveEnds, PollInventory, TakeCatalog
  <2>2. CASE app = "running"
    <3>1. RemoveEnds /\ inv.state \notin {"manifests", "sources"} /\ seen \in Snapshots
      BY <1>1, <1>3, <2>2 DEF OpenDrawer, PollInventory, TakeCatalog, UiFree, AppInv, Shapes
    <3> DEFINE v == IF removed THEN Removed(inv) ELSE inv
    <3>2. v \in Lists /\ v.state = inv.state
      <4>1. inv \in Lists /\ Removed(inv) \in Lists
        BY <1>1, <3>1, ListOps
      <4>2. Removed(inv).state = inv.state
        BY <1>1 DEF Removed, Lists
      <4> QED BY <4>1, <4>2
    <3>3. ScanInstalled(v, TRUE)
      BY <3>1 DEF RemoveEnds
    <3>4. inv'.state \notin {"manifests", "sources"}
      <4> DEFINE w == Prepared(v, TRUE)
      <4>1. w \in Lists
        BY <3>1, <3>2, ListOps
      <4>2. w.state \notin {"manifests", "sources"}
        <5> HIDE DEF v
        <5> QED BY <3>1, <3>2 DEF Prepared, Polled, Published, Invalidated, Requested, Active, Lists
      <4>3. inv' = w \/ inv' = Cancelled(w)
        BY <3>3 DEF ScanInstalled
      <4> HIDE DEF w
      <4> QED BY <4>1, <4>2, <4>3 DEF Cancelled, Lists
    <3> QED BY <1>1, <2>1, <3>4
  <2> QED BY <1>1, <2>1, <2>2
<1>4. CASE TakeApp \/ TakeLanguage
  BY <1>1, <1>4 DEF TakeApp, TakeLanguage, UiFree
<1>5. CASE RemoveFile
  BY <1>1, <1>5 DEF RemoveFile
<1>6. CASE ClaimCatalog \/ CatalogEnds \/ ClaimLanguage \/ LanguageEnds
  BY <1>1, <1>6 DEF ClaimCatalog, CatalogEnds, ClaimLanguage, LanguageEnds
<1>7. CASE ClaimApp
  BY <1>1, <1>7 DEF ClaimApp, Free, Begin
<1>8. CASE InstallApp
  <2>1. app = "running" /\ pc # "off" /\ UNCHANGED <<ask, list, screen>>
    BY <1>1, <1>8 DEF InstallApp
  <2>2. pc \in {"stage", "write"} => installed = {}
    BY <2>1 DEF IInv, TypeOK, PhaseInv, StageInv, Untouched
  <2>3. CASE Stage
    BY <1>1, <1>8, <2>1, <2>2, <2>3 DEF InstallApp, Stage, StageRefused, StageFails, StageOpen,
       StageWritten, StageWriteFails, Abandon, Destroy
  <2>4. CASE Install
    BY <1>1, <1>8, <2>1, <2>4 DEF InstallApp, Install, Commit, BackupSkip, Backup, BackupFails,
       Publish, PublishFails, Failed, Clean, Advance
  <2>5. CASE Rollback
    BY <1>1, <2>1, <2>5 DEF Rollback, RemoveInstalled, RemoveFails, Restore, RestoreFails, Retreat
  <2>6. CASE Destructor
    BY <1>1, <2>1, <2>6 DEF Destructor
  <2> QED BY <1>8, <2>3, <2>4, <2>5, <2>6 DEF InstallApp
<1>9. CASE AppEnds
  BY <1>1, <1>9 DEF AppEnds, Forget
<1>10. CASE ClaimScan \/ ScanFails \/ ScanManifests \/ ScanSources
  BY <1>1, <1>10 DEF ClaimScan, ScanFails, ScanManifests, ScanSources, ScanEnds, Free, Lists
<1>11. CASE Restart
  <2>1. /\ pc' = "off" /\ app' = "idle" /\ removal' = "no" /\ open' = FALSE
    BY <1>1, <1>11 DEF Restart, Forget, Booted
  <2>2. inv'.state \notin {"manifests", "sources"}
    BY <1>11 DEF Restart, Booted, Fresh, Requested, Active
  <2> QED BY <2>1, <2>2
<1>12. CASE UNCHANGED allVars
  BY <1>1, <1>12
<1> QED BY <1>2, <1>3, <1>4, <1>5, <1>6, <1>7, <1>8, <1>9, <1>10, <1>11, <1>12
        DEF AppNext, User, Remove, Poll, Worker

(* What is waited for has a job.                                            *)
LEMMA WaitsStep == IInv /\ AppInv /\ [AppNext]_allVars => WaitsAreServed'
<1> SUFFICES ASSUME IInv, AppInv, [AppNext]_allVars PROVE WaitsAreServed'
  OBVIOUS
<1> USE DEF WaitsAreServed, DownloadsActive
<1>1. /\ WaitsAreServed /\ OneAtATime /\ inv \in Lists /\ seen \in Snapshots
      /\ catalog \in Jobs /\ app \in Jobs /\ lang \in Jobs /\ shown \in {-1, 0, 1}
      /\ open \in BOOLEAN /\ busy \in BOOLEAN /\ up \in BOOLEAN
  BY DEF AppInv, Shapes
<1>2. CASE Open
  <2>1. up' \in BOOLEAN /\ (up => up') /\ (~up' => inv'.state = "idle")
    BY <1>2, OpenShapes
  <2>2. app' = app /\ lang' = lang /\ busy' = DownloadsActive
    BY <1>2 DEF Open
  <2>3. open' /\ shown' = 0 => catalog' # "idle"
    BY <1>1, <1>2 DEF Open, Jobs
  <2>4. ~up' => catalog' # "queued"
    BY <1>2 DEF Open
  <2> QED BY <1>1, <2>1, <2>2, <2>3, <2>4
<1>3. CASE OpenDrawer
  <2>1. up' \in BOOLEAN /\ (up => up') /\ (~up' => inv'.state = "idle")
    BY <1>1, <1>3, ScanShapes DEF OpenDrawer
  <2> QED BY <1>1, <1>3, <2>1 DEF OpenDrawer
<1>4. CASE Close \/ TapInstall \/ TapLanguage \/ TapRemove
  <2>1. CASE Close \/ TapRemove
    BY <1>1, <2>1 DEF Close, TapRemove
  <2>2. CASE TapInstall
    <3>1. /\ shown = 1 /\ app' = Queued /\ up' \in {up, TRUE}
          /\ UNCHANGED <<shown, catalog, lang, inv>>
      BY <2>2 DEF TapInstall, StartWorker
    <3>2. app' \in {"queued", "failed"}
      BY <3>1 DEF Queued
    <3>3. up' \in BOOLEAN
      BY <1>1, <3>1
    <3>4. CASE up' = FALSE
      <4>1. up = FALSE
        BY <3>1, <3>4
      <4>2. app' = "failed"
        BY <3>1, <3>4 DEF Queued
      <4>3. inv.state = "idle" /\ "queued" \notin {catalog, app, lang}
        BY <1>1, <4>1
      <4> QED BY <1>1, <3>1, <3>4, <4>2, <4>3
    <3>5. CASE up' = TRUE
      BY <1>1, <3>1, <3>2, <3>5
    <3> QED BY <3>3, <3>4, <3>5
  <2>3. CASE TapLanguage
    BY <1>1, <2>3 DEF TapLanguage
  <2> QED BY <1>4, <2>1, <2>2, <2>3
<1>5. CASE RemoveFile
  BY <1>1, <1>5 DEF RemoveFile
<1>6. CASE RemoveEnds
  <2> DEFINE v == IF removed THEN Removed(inv) ELSE inv
  <2>1. v \in Lists
    BY <1>1, ListOps
  <2>2. ~up => v.state = "idle"
    BY <1>1 DEF Removed, Lists
  <2>3. ScanInstalled(v, TRUE)
    BY <1>6 DEF RemoveEnds
  <2>4. up' \in BOOLEAN /\ (up => up') /\ (~up' => inv'.state = "idle")
    BY <1>1, <2>1, <2>2, <2>3, ScanShapes
  <2> QED BY <1>1, <1>6, <2>4 DEF RemoveEnds
<1>7. CASE TakeCatalog \/ TakeLanguage
  <2>1. CASE TakeCatalog
    <3>1. /\ shown' \in {1, -1} /\ catalog' = "idle"
          /\ UNCHANGED <<app, lang, inv, open, busy, up>>
      BY <2>1 DEF TakeCatalog
    <3> QED BY <1>1, <3>1
  <2>2. CASE TakeLanguage
    <3>1. /\ lang' = "idle" /\ busy' = (app # "idle")
          /\ UNCHANGED <<catalog, shown, app, inv, open, up>>
      BY <2>2 DEF TakeLanguage
    <3> QED BY <1>1, <3>1
  <2> QED BY <1>7, <2>1, <2>2
<1>8. CASE TakeApp
  <2>1. inv'.state = inv.state
    BY <1>1, <1>8 DEF TakeApp, Installed, Lists
  <2> QED BY <1>1, <1>8, <2>1 DEF TakeApp
<1>9. CASE PollInventory
  BY <1>1, <1>9 DEF PollInventory
<1>10. CASE ClaimCatalog \/ CatalogEnds \/ ClaimLanguage \/ LanguageEnds
  BY <1>1, <1>10 DEF ClaimCatalog, CatalogEnds, ClaimLanguage, LanguageEnds, Free
<1>11. CASE ClaimApp \/ InstallApp \/ AppEnds
  BY <1>1, <1>11 DEF ClaimApp, InstallApp, AppEnds, Free
<1>12. CASE ClaimScan \/ ScanFails \/ ScanManifests \/ ScanSources
  BY <1>1, <1>12 DEF ClaimScan, ScanFails, ScanManifests, ScanSources, ScanEnds, Free
<1>13. CASE Restart
  BY <1>13 DEF Restart, Booted, Fresh
<1>14. CASE UNCHANGED allVars
  BY <1>1, <1>14
<1> QED BY <1>2, <1>3, <1>4, <1>5, <1>6, <1>7, <1>8, <1>9, <1>10, <1>11, <1>12, <1>13, <1>14
        DEF AppNext, User, Remove, Poll, Worker

-----------------------------------------------------------------------------
(* The list and the card.                                                   *)

(* A request, a cancellation and a poll keep a scan that is under way as it *)
(* is; a poll of a finished one publishes it unless it is marked.           *)
Outcome(v) == IF v.state = "ready" /\ ~v.discard THEN seen ELSE v

ScanKept(v) ==
  /\ Requested(v).row = v.row /\ Requested(v).valid = v.valid
  /\ Requested(v).discard = v.discard
  /\ Requested(v).state = IF Active(v) THEN v.state ELSE "queued"
  /\ Polled(v).row = Outcome(v).row /\ Polled(v).valid = Outcome(v).valid
  /\ v.state # "ready" => Polled(v) = v
  /\ v.state = "ready" => Polled(v).state \in {"idle", "queued"}
  /\ Cancelled(v).row = v.row /\ Cancelled(v).valid = v.valid
  /\ Cancelled(v).state = IF v.state = "queued" THEN "idle" ELSE v.state
  /\ v.state # "queued" => Cancelled(v) = v

LEMMA KeptScan == ASSUME seen \in Snapshots PROVE \A v \in Lists : ScanKept(v)
<1> SUFFICES ASSUME NEW v \in Lists PROVE ScanKept(v)
  OBVIOUS
<1> USE DEF ScanKept, Outcome
<1>1. /\ Requested(v).row = v.row /\ Requested(v).valid = v.valid
      /\ Requested(v).discard = v.discard
      /\ Requested(v).state = IF Active(v) THEN v.state ELSE "queued"
  BY DEF Requested, Lists
<1>2. /\ Cancelled(v).row = v.row /\ Cancelled(v).valid = v.valid
      /\ Cancelled(v).state = IF v.state = "queued" THEN "idle" ELSE v.state
      /\ v.state # "queued" => Cancelled(v) = v
  BY DEF Cancelled, Lists
<1>3. CASE v.state # "ready"
  <2>1. Polled(v) = v
    BY <1>3 DEF Polled
  <2> QED BY <1>1, <1>2, <1>3, <2>1
<1>4. CASE v.state = "ready"
  <2> DEFINE w == IF v.discard THEN v ELSE seen
             free == [Published(v) EXCEPT !.state = "idle", !.discard = FALSE, !.rescan = FALSE]
  <2>1. Published(v) \in Lists /\ Published(v).row = w.row /\ Published(v).valid = w.valid
    BY DEF Published, Lists, Snapshots
  <2>2. free.row = w.row /\ free.valid = w.valid /\ free.state = "idle" /\ free \in Lists
    BY <2>1 DEF Lists, ListStates
  <2>3. Polled(v) = IF v.rescan THEN Requested(free) ELSE free
    BY <1>4 DEF Polled
  <2> HIDE DEF free
  <2>4. /\ Requested(free).row = w.row /\ Requested(free).valid = w.valid
        /\ Requested(free).state = "queued"
    BY <2>2 DEF Requested, Active, Lists
  <2> QED BY <1>1, <1>2, <1>4, <2>2, <2>3, <2>4
<1> QED BY <1>3, <1>4

LEMMA QuietScan ==
  ASSUME NEW v \in Lists, seen \in Snapshots, ScanInstalled(v, FALSE)
  PROVE  /\ inv'.row = Outcome(v).row /\ inv'.valid = Outcome(v).valid
         /\ inv'.state \in Scanning => inv' = v /\ v.state # "ready" /\ seen' = seen
<1> DEFINE q == Polled(v)
           w == Prepared(v, FALSE)
<1>1. q \in Lists /\ w \in Lists
  BY ListOps
<1>2. ScanKept(v) /\ ScanKept(q) /\ ScanKept(w)
  BY <1>1, KeptScan
<1>3. w = IF q.valid \/ Active(q) THEN q ELSE Requested(q)
  BY DEF Prepared
<1>4. w.row = Outcome(v).row /\ w.valid = Outcome(v).valid
  BY <1>2, <1>3 DEF ScanKept
<1>5. w.state \in Scanning => w = v /\ v.state # "ready"
  BY <1>2, <1>3 DEF ScanKept, Scanning, Active
<1>6. inv' \in {w, Cancelled(w)} /\ (w.state \notin {"idle", "queued"} => seen' = seen)
  BY DEF ScanInstalled
<1> HIDE DEF w
<1>7. inv'.row = w.row /\ inv'.valid = w.valid
  BY <1>2, <1>6 DEF ScanKept
<1>8. inv'.state \in Scanning => inv' = w
  BY <1>2, <1>6 DEF ScanKept, Scanning
<1> QED BY <1>4, <1>5, <1>6, <1>7, <1>8 DEF Scanning

(* A scan that runs is neither dropped nor taken away from the worker.      *)
LEMMA BusyScan ==
  ASSUME NEW v \in Lists, seen \in Snapshots, ScanInstalled(v, FALSE),
         v.state \in {"manifests", "sources"}
  PROVE  inv' = v
<1> DEFINE w == Prepared(v, FALSE)
<1>1. w = v
  BY DEF Prepared, Polled, Active
<1>2. Cancelled(v) = v
  BY DEF Cancelled
<1> QED BY <1>1, <1>2 DEF ScanInstalled

LEMMA OpenScan == AppInv /\ Open =>
  /\ inv'.row = inv.row /\ inv'.valid = inv.valid
  /\ inv'.state \in Scanning \/ inv.state \in Scanning =>
       inv'.state = inv.state /\ inv'.discard = inv.discard
<1> SUFFICES ASSUME AppInv, Open
    PROVE /\ inv'.row = inv.row /\ inv'.valid = inv.valid
          /\ inv'.state \in Scanning \/ inv.state \in Scanning =>
               inv'.state = inv.state /\ inv'.discard = inv.discard
  OBVIOUS
<1> DEFINE w == Requested(inv)
<1>1. inv \in Lists /\ seen \in Snapshots
  BY DEF AppInv, Shapes
<1>2. w \in Lists
  BY <1>1, ListOps
<1>3. ScanKept(inv) /\ ScanKept(w)
  BY <1>1, <1>2, KeptScan
<1>4. inv' \in {w, Cancelled(w)}
  BY DEF Open
<1> QED BY <1>3, <1>4 DEF ScanKept, Scanning, Active

(* A removal and a download of the app.                                     *)
LEMMA CrossStep == IInv /\ AppInv /\ [AppNext]_allVars => CrossInv'
<1> SUFFICES ASSUME IInv, AppInv, [AppNext]_allVars PROVE CrossInv'
  OBVIOUS
<1> USE DEF CrossInv
<1>1. /\ CrossInv /\ OneAtATime /\ removal \in Removals /\ app \in Jobs
      /\ removed \in BOOLEAN /\ doubt \in SUBSET Doubts
  BY DEF AppInv, Shapes
<1>2. CASE Open \/ Close \/ OpenDrawer \/ TapLanguage \/ TakeCatalog \/ TakeLanguage
           \/ PollInventory
  <2>1. UNCHANGED <<removal, removed, app, doubt, final, orig>>
    BY <1>2 DEF Open, Close, OpenDrawer, TapLanguage, TakeCatalog, TakeLanguage, PollInventory
  <2> QED BY <1>1, <2>1
<1>3. CASE TapInstall \/ TakeApp
  <2>1. removal' = "no" /\ app' # "running"
    BY <1>3 DEF TapInstall, TakeApp, UiFree, Queued
  <2> QED BY <2>1
<1>4. CASE TapRemove
  BY <1>1, <1>4 DEF TapRemove
<1>5. CASE RemoveFile
  <2> DEFINE p == IF removal = "source" THEN 1 ELSE 2
  <2>1. /\ UNCHANGED <<app, doubt>> /\ removal \in {"source", "manifest"}
        /\ removal' = IF p = 1 THEN "manifest" ELSE "end"
    BY <1>5 DEF RemoveFile
  <2>2. removed' => removed /\ final'[p] = Absent
    <3>1. final \in [{1, 2} -> Nat]
      BY DEF IInv, TypeOK, Entries
    <3> QED BY <1>5, <3>1 DEF RemoveFile
  <2>3. p = 2 => final'[1] = final[1]
    <3>1. final \in [{1, 2} -> Nat]
      BY DEF IInv, TypeOK, Entries
    <3> QED BY <1>5, <3>1 DEF RemoveFile
  <2>4. app = "idle" \/ "crossed" \in doubt
    BY <1>1, <2>1
  <2> QED BY <1>1, <2>1, <2>2, <2>3, <2>4
<1>6. CASE RemoveEnds
  <2>1. UNCHANGED <<app, doubt, orig>> /\ removal' = "no"
    BY <1>6 DEF RemoveEnds
  <2> QED BY <1>1, <2>1
<1>7. CASE ClaimCatalog \/ CatalogEnds \/ ClaimLanguage \/ LanguageEnds
           \/ ScanFails \/ ScanManifests \/ ScanSources
  <2>1. UNCHANGED <<removal, removed, app, doubt, final, orig>>
    BY <1>7 DEF ClaimCatalog, CatalogEnds, ClaimLanguage, LanguageEnds, ScanFails,
                ScanManifests, ScanSources, ScanEnds
  <2> QED BY <1>1, <2>1
<1>8. CASE ClaimApp
  <2>1. /\ app = "queued" /\ app' = "running" /\ UNCHANGED <<removal, doubt>>
        /\ orig' = [p \in Entries |-> Held(p)]
    BY <1>8 DEF ClaimApp, Begin
  <2>2. orig'[1] # Gone /\ orig'[2] # Gone
    BY <2>1 DEF IInv, TypeOK, Held, Entries, Gone
  <2> QED BY <1>1, <2>1, <2>2
<1>9. CASE InstallApp
  <2>1. app = "running" /\ UNCHANGED <<app, removal, doubt>>
    BY <1>9 DEF InstallApp
  <2>2. orig' = orig
    BY <1>9 DEF InstallApp, Stage, StageRefused, StageFails, StageOpen, StageWritten,
       StageWriteFails, Abandon, Destroy, Install, Commit, BackupSkip, Backup, BackupFails,
       Publish, PublishFails, Failed, Clean, Rollback, RemoveInstalled, RemoveFails, Restore,
       RestoreFails, Destructor
  <2> QED BY <1>1, <2>1, <2>2
<1>10. CASE AppEnds
  BY <1>1, <1>10 DEF AppEnds
<1>11. CASE ClaimScan
  <2>1. UNCHANGED <<removal, removed, app, final, orig>> /\ app # "running"
    BY <1>1, <1>11 DEF ClaimScan, Free
  <2>2. "crossed" \in doubt /\ app # "idle" => "crossed" \in doubt'
    BY <1>11 DEF ClaimScan
  <2> QED BY <1>1, <2>1, <2>2
<1>12. CASE Restart
  <2>1. removal' = "no" /\ app' = "idle" /\ removed' = FALSE
    BY <1>12 DEF Restart, Booted
  <2> QED BY <2>1
<1>13. CASE UNCHANGED allVars
  BY <1>1, <1>13
<1> QED BY <1>2, <1>3, <1>4, <1>5, <1>6, <1>7, <1>8, <1>9, <1>10, <1>11, <1>12, <1>13
        DEF AppNext, User, Remove, Poll, Worker

(* A removed app stays out of the list.                                     *)
LEMMA GoneStep == IInv /\ AppInv /\ [AppNext]_allVars => GoneInv'
<1> SUFFICES ASSUME IInv, AppInv, [AppNext]_allVars PROVE GoneInv'
  OBVIOUS
<1> USE DEF GoneInv
<1>1. GoneInv /\ OneAtATime /\ inv \in Lists /\ seen \in Snapshots /\ up \in BOOLEAN
  BY DEF AppInv, Shapes
<1>2. CASE Open
  <2>1. UNCHANGED <<gone, removal, app, seen, final>>
    BY <1>2 DEF Open
  <2> QED BY <1>1, <1>2, <2>1, OpenScan DEF Listing
<1>3. CASE OpenDrawer
  <2>1. UNCHANGED <<gone, removal, app, final>> /\ ScanInstalled(inv, FALSE)
    BY <1>3 DEF OpenDrawer
  <2>2. /\ inv'.row = Outcome(inv).row
        /\ inv'.state \in Scanning => inv' = inv /\ seen' = seen
    BY <1>1, <2>1, QuietScan
  <2>3. gone => Outcome(inv).row = Absent
    BY <1>1 DEF Outcome, Scanning
  <2> QED BY <1>1, <2>1, <2>2, <2>3 DEF Listing
<1>4. CASE Close \/ TapLanguage \/ TakeCatalog \/ TakeLanguage
  BY <1>1, <1>4 DEF Close, TapLanguage, TakeCatalog, TakeLanguage, Listing
<1>5. CASE TapInstall
  BY <1>5 DEF TapInstall
<1>6. CASE TapRemove \/ RemoveFile
  BY <1>1, <1>6 DEF TapRemove, RemoveFile
<1>7. CASE RemoveEnds
  <2> DEFINE v == IF removed THEN Removed(inv) ELSE inv
  <2>1. /\ app' = app /\ final' = final /\ removal = "end" /\ removal' = "no"
        /\ gone' = (gone \/ (removed /\ app = "idle"))
    BY <1>7 DEF RemoveEnds
  <2>2. ~gone /\ (gone' => removed /\ app = "idle" /\ Listing = Absent)
    <3>1. ~gone
      BY <1>1, <2>1
    <3>2. removed /\ app = "idle" => final[1] = Absent /\ final[2] = Absent
      BY <2>1 DEF AppInv, CrossInv
    <3> QED BY <2>1, <3>1, <3>2 DEF Listing
  <2>3. v \in Lists
    BY <1>1, ListOps
  <2>4. ScanInstalled(v, TRUE)
    BY <1>7 DEF RemoveEnds
  <2>5. removed => v.row = Absent /\ (Active(v) => v.discard)
    BY <1>1 DEF Removed, Active, Lists
  <2>6. /\ inv'.state # "ready"
        /\ inv'.state \in {"manifests", "sources"} => inv'.discard
        /\ v.row = Absent /\ (Active(v) => v.discard) => inv'.row = Absent
    BY <1>1, <2>3, <2>4, ForcedScan
  <2> QED BY <2>1, <2>2, <2>5, <2>6 DEF Listing, Scanning
<1>8. CASE TakeApp \/ ClaimApp \/ InstallApp \/ AppEnds
  BY <1>1, <1>8 DEF TakeApp, ClaimApp, InstallApp, AppEnds
<1>9. CASE PollInventory
  <2>1. UNCHANGED <<gone, removal, app, final>> /\ inv' = Polled(inv) /\ inv.state = "ready"
    BY <1>9 DEF PollInventory
  <2>2. ScanKept(inv)
    BY <1>1, KeptScan
  <2>3. gone => Outcome(inv).row = Absent
    BY <1>1 DEF Outcome, Scanning
  <2> QED BY <1>1, <2>1, <2>2, <2>3 DEF ScanKept, Scanning, Listing
<1>10. CASE ClaimCatalog \/ CatalogEnds \/ ClaimLanguage \/ LanguageEnds
  BY <1>1, <1>10 DEF ClaimCatalog, CatalogEnds, ClaimLanguage, LanguageEnds, Listing
<1>11. CASE ClaimScan
  <2>1. inv'.row = inv.row /\ seen'.row = Absent
    BY <1>1, <1>11 DEF ClaimScan, NoScan, Lists
  <2> QED BY <1>1, <1>11, <2>1 DEF ClaimScan, Listing
<1>12. CASE ScanFails \/ ScanManifests \/ ScanSources
  <2>1. /\ UNCHANGED <<gone, removal, app, final>>
        /\ inv'.row = inv.row /\ inv'.discard = inv.discard
        /\ inv.state \in Scanning
    BY <1>1, <1>12 DEF ScanFails, ScanManifests, ScanSources, ScanEnds, Lists, Scanning
  <2>2. gone => inv.discard \/ seen'.row = Absent
    <3>1. CASE ScanFails
      BY <1>1, <2>1, <3>1 DEF ScanFails, ScanEnds, Snapshots
    <3>2. CASE ScanManifests
      BY <1>1, <3>2 DEF ScanManifests, Listing
    <3>3. CASE ScanSources
      BY <1>1, <2>1, <3>3 DEF ScanSources, ScanEnds, Snapshots, Listing, Dev
    <3> QED BY <1>12, <3>1, <3>2, <3>3
  <2> QED BY <1>1, <2>1, <2>2 DEF Listing
<1>13. CASE Restart
  <2>1. gone' = gone /\ removal' = "no" /\ app' = "idle" /\ final' = final
    BY <1>13 DEF Restart, Booted, Forget
  <2>2. inv'.row = Absent /\ inv'.state \notin Scanning
    BY <1>13 DEF Restart, Booted, Fresh, Requested, Active, Scanning
  <2> QED BY <1>1, <2>1, <2>2 DEF Listing
<1>14. CASE UNCHANGED allVars
  BY <1>1, <1>14 DEF Listing
<1> QED BY <1>2, <1>3, <1>4, <1>5, <1>6, <1>7, <1>8, <1>9, <1>10, <1>11, <1>12, <1>13, <1>14
        DEF AppNext, User, Remove, Poll, Worker

(* What the card held before the install does not change while it runs, and *)
(* is what the card holds again when the install fails without doubt.       *)
LEMMA WasKept == IInv /\ InstallApp => \A p \in {1, 2} : Was(p)' = Was(p)
<1> SUFFICES ASSUME IInv, InstallApp, NEW p \in {1, 2} PROVE Was(p)' = Was(p)
  OBVIOUS
<1> USE DEF Was, Used, Entries, IInv, TypeOK
<1>1. CASE StageOpen
  <2>1. p = count + 1 => orig[p] = final[p]
    BY <1>1 DEF StageOpen, Leftover, PhaseInv, Found, Held
  <2> QED BY <1>1, <2>1 DEF StageOpen
<1>2. CASE StageRefused \/ StageFails \/ StageWritten \/ StageWriteFails \/ Abandon
  BY <1>2 DEF StageRefused, StageFails, StageWritten, StageWriteFails, Abandon, Destroy
<1>3. CASE Commit \/ BackupSkip \/ BackupFails \/ PublishFails \/ Clean
  BY <1>3 DEF Commit, BackupSkip, BackupFails, PublishFails, Failed, Clean, Advance
<1>4. CASE Backup \/ Publish
  BY <1>4 DEF Backup, Publish, Advance, PhaseInv, BackupInv, PublishInv
<1>5. CASE Rollback
  BY <1>5 DEF Rollback, RemoveInstalled, RemoveFails, Restore, RestoreFails, Retreat,
     PhaseInv, RollbackInv
<1>6. CASE Destructor
  BY <1>6 DEF Destructor
<1> QED BY <1>1, <1>2, <1>3, <1>4, <1>5, <1>6 DEF InstallApp, Stage, Install

LEMMA EndOfInstall == IInv /\ AppInv /\ AppEnds =>
  /\ app' = "ok" /\ "crossed" \notin doubt' => Listing' = edition'
  /\ app' # "ok" /\ doubt' = {} => \A p \in {1, 2} : Was(p)' = Was(p)
<1> SUFFICES ASSUME IInv, AppInv, AppEnds
    PROVE /\ app' = "ok" /\ "crossed" \notin doubt' => Listing' = edition'
          /\ app' # "ok" /\ doubt' = {} => \A p \in {1, 2} : Was(p)' = Was(p)
  OBVIOUS
<1>1. /\ pc = "done" /\ OutcomeIsTruthful /\ TypeOK
      /\ pc' = "off" /\ final' = final /\ edition' = edition
  BY OutcomeFollows DEF AppEnds, Forget, IInv
<1>2. ASSUME app' = "ok", "crossed" \notin doubt' PROVE Listing' = edition'
  <2>1. error = "None" /\ installed # {} /\ app = "running" /\ "crossed" \notin doubt
    BY <1>2 DEF AppEnds
  <2>2. count = 2
    BY <1>1, <2>1 DEF AppInv, OneAtATime
  <2>3. final[2] = edition
    <3>1. orig[2] # Gone
      BY <2>1 DEF AppInv, CrossInv
    <3> QED BY <1>1, <2>1, <2>2, <3>1 DEF OutcomeIsTruthful, Used
  <2> QED BY <1>1, <2>3 DEF Listing, AppInv, Shapes
<1>3. ASSUME app' # "ok", doubt' = {}, NEW p \in {1, 2} PROVE Was(p)' = Was(p)
  <2>1. error \notin {"CleanupFailed", "RecoveryRequired"} /\ (error # "None" \/ installed = {})
    BY <1>3 DEF AppEnds
  <2>2. installed = {}
    BY <1>1, <2>1 DEF OutcomeIsTruthful
  <2>3. p \in Used => final[p] = orig[p]
    BY <1>1, <2>1, <2>2 DEF OutcomeIsTruthful
  <2> QED BY <1>1, <2>3 DEF Was
<1> QED BY <1>2, <1>3

LEMMA RowsStep == IInv /\ AppInv /\ [AppNext]_allVars => RowsInv'
<1> SUFFICES ASSUME IInv, AppInv, [AppNext]_allVars PROVE RowsInv'
  OBVIOUS
<1> USE DEF RowsInv, Known
<1>1. RowsInv /\ OneAtATime /\ inv \in Lists /\ seen \in Snapshots /\ up \in BOOLEAN
  BY DEF AppInv, Shapes
<1>2. (\A p \in {1, 2} : Was(p)' = Was(p)) => WasListing' = WasListing
  BY DEF WasListing
<1>3. UNCHANGED <<final, pc, count, orig>> =>
        /\ \A p \in {1, 2} : Was(p)' = Was(p)
        /\ Listing' = Listing
  BY DEF Was, Used, Listing
<1>4. CASE Open
  <2>1. UNCHANGED <<final, pc, count, orig, edition, app, removal, doubt, seen>>
    BY <1>4 DEF Open
  <2>2. /\ inv'.row = inv.row /\ inv'.valid = inv.valid
        /\ inv'.state \in Scanning \/ inv.state \in Scanning =>
             inv'.state = inv.state /\ inv'.discard = inv.discard
    BY <1>4, OpenScan
  <2> QED BY <1>1, <1>2, <1>3, <2>1, <2>2 DEF Scanning
<1>5. CASE OpenDrawer
  <2>1. /\ UNCHANGED <<final, pc, count, orig, edition, app, removal, doubt>>
        /\ ScanInstalled(inv, FALSE)
    BY <1>5 DEF OpenDrawer
  <2>2. /\ inv'.row = Outcome(inv).row /\ inv'.valid = Outcome(inv).valid
        /\ inv'.state \in Scanning => inv' = inv /\ inv.state # "ready" /\ seen' = seen
    BY <1>1, <2>1, QuietScan
  <2>3. Known /\ Outcome(inv).valid =>
          \/ Outcome(inv).row = WasListing
          \/ inv.state \in {"manifests", "sources"} /\ ~inv.discard
    BY <1>1 DEF Outcome, Scanning
  <2>4. inv.state \in {"manifests", "sources"} => inv' = inv
    BY <1>1, <2>1, BusyScan
  <2> QED BY <1>1, <1>2, <1>3, <2>1, <2>2, <2>3, <2>4 DEF Scanning
<1>6. CASE Close \/ TapLanguage \/ TakeCatalog \/ TakeLanguage
  <2>1. UNCHANGED <<final, pc, count, orig, edition, app, removal, doubt, inv, seen>>
    BY <1>6 DEF Close, TapLanguage, TakeCatalog, TakeLanguage
  <2> QED BY <1>1, <1>2, <1>3, <2>1
<1>7. CASE TapInstall
  <2>1. /\ UNCHANGED <<final, pc, count, orig, edition, removal, doubt, inv, seen>>
        /\ app = "idle" /\ app' # "ok"
    BY <1>7 DEF TapInstall, Queued, DownloadsActive
  <2> QED BY <1>1, <1>2, <1>3, <2>1
<1>8. CASE TapRemove \/ RemoveFile
  <2>1. removal' # "no" /\ (app' = "ok" => "crossed" \in doubt')
    BY <1>1, <1>8 DEF TapRemove, RemoveFile, AppInv, CrossInv
  <2> QED BY <2>1
<1>9. CASE RemoveEnds
  <2> DEFINE v == IF removed THEN Removed(inv) ELSE inv
  <2>1. v \in Lists
    BY <1>1, ListOps
  <2>2. ScanInstalled(v, TRUE)
    BY <1>9 DEF RemoveEnds
  <2>3. /\ ~inv'.valid /\ inv'.state # "ready"
        /\ inv'.state \in {"manifests", "sources"} => inv'.discard
    BY <1>1, <2>1, <2>2, ForcedScan
  <2>4. app' = "ok" => "crossed" \in doubt'
    BY <1>1, <1>9 DEF RemoveEnds, AppInv, CrossInv
  <2> QED BY <2>3, <2>4
<1>10. CASE TakeApp
  <2>1. /\ UNCHANGED <<final, pc, count, orig, edition, removal, doubt, seen>>
        /\ app' = "idle" /\ app \in {"ok", "failed"}
        /\ inv' = IF app = "ok" THEN Installed(inv, edition) ELSE inv
    BY <1>10 DEF TakeApp
  <2>2. CASE app = "ok"
    <3>1. /\ Installed(inv, edition).row = edition
          /\ ~Installed(inv, edition).discard => Installed(inv, edition).state \notin Scanning
      BY <1>1 DEF Installed, Active, Lists, Scanning
    <3>2. "crossed" \notin doubt => WasListing = edition
      BY <1>1, <2>2 DEF OneAtATime, WasListing, Was, Listing
    <3> QED BY <1>2, <1>3, <2>1, <2>2, <3>1, <3>2 DEF Scanning
  <2>3. CASE app = "failed"
    BY <1>1, <1>2, <1>3, <2>1, <2>3
  <2> QED BY <2>1, <2>2, <2>3
<1>11. CASE PollInventory
  <2>1. /\ UNCHANGED <<final, pc, count, orig, edition, app, removal, doubt>>
        /\ inv' = Polled(inv) /\ inv.state = "ready"
    BY <1>11 DEF PollInventory
  <2>2. ScanKept(inv)
    BY <1>1, KeptScan
  <2>3. Known /\ Outcome(inv).valid => Outcome(inv).row = WasListing
    BY <1>1, <2>1 DEF Outcome, Scanning
  <2> QED BY <1>1, <1>2, <1>3, <2>1, <2>2, <2>3 DEF ScanKept
<1>12. CASE ClaimCatalog \/ CatalogEnds \/ ClaimLanguage \/ LanguageEnds
  <2>1. UNCHANGED <<final, pc, count, orig, edition, app, removal, doubt, inv, seen>>
    BY <1>12 DEF ClaimCatalog, CatalogEnds, ClaimLanguage, LanguageEnds
  <2> QED BY <1>1, <1>2, <1>3, <2>1
<1>13. CASE ClaimApp
  <2>1. /\ UNCHANGED <<final, removal, doubt, inv, seen>>
        /\ app = "queued" /\ app' = "running" /\ pc = "off" /\ count' = 0
    BY <1>1, <1>13 DEF ClaimApp, Begin, OneAtATime
  <2>2. \A p \in {1, 2} : Was(p)' = Was(p)
    BY <2>1 DEF Was, Used
  <2> QED BY <1>1, <1>2, <2>1, <2>2
<1>14. CASE InstallApp
  <2>1. UNCHANGED <<removal, doubt, inv, seen, app>> /\ app = "running"
    BY <1>14 DEF InstallApp
  <2> QED BY <1>1, <1>2, <1>14, <2>1, WasKept
<1>15. CASE AppEnds
  <2>1. /\ UNCHANGED <<removal, inv, seen>> /\ app = "running" /\ doubt \subseteq doubt'
    BY <1>15 DEF AppEnds
  <2> QED BY <1>1, <1>2, <1>15, <2>1, EndOfInstall
<1>16. CASE ClaimScan
  <2>1. /\ UNCHANGED <<final, pc, count, orig, edition, app, removal>>
        /\ inv.state = "queued" /\ (inv.discard => doubt' = doubt)
        /\ app = "ok" => ("crossed" \in doubt <=> "crossed" \in doubt')
        /\ inv' = [inv EXCEPT !.state = "manifests"]
    BY <1>16 DEF ClaimScan
  <2>2. /\ inv'.state = "manifests" /\ inv'.row = inv.row /\ inv'.valid = inv.valid
        /\ inv'.discard = inv.discard
    BY <1>1, <2>1 DEF Lists
  <2> QED BY <1>1, <1>2, <1>3, <2>1, <2>2 DEF Scanning
<1>17. CASE ScanFails \/ ScanManifests \/ ScanSources
  <2>1. /\ UNCHANGED <<final, pc, count, orig, edition, app, removal, doubt>>
        /\ inv'.row = inv.row /\ inv'.discard = inv.discard /\ inv'.valid = inv.valid
        /\ inv.state \in {"manifests", "sources"}
    BY <1>1, <1>17 DEF ScanFails, ScanManifests, ScanSources, ScanEnds, Lists
  <2>2. pc = "off"
    BY <1>1, <2>1 DEF OneAtATime
  <2>3. Was(1) = final[1] /\ Was(2) = final[2]
    BY <2>2 DEF Was
  <2>4. CASE ScanFails
    <3>1. inv'.state = "ready" /\ ~seen'.valid
      BY <1>1, <2>4 DEF ScanFails, ScanEnds, Lists, Snapshots
    <3> QED BY <1>1, <1>2, <1>3, <2>1, <3>1 DEF Scanning
  <2>5. CASE ScanManifests
    <3>1. inv'.state = "sources" /\ seen'.row = final[2]
      BY <1>1, <2>5 DEF ScanManifests, Lists
    <3> QED BY <1>1, <1>2, <1>3, <2>1, <2>3, <3>1 DEF Scanning
  <2>6. CASE ScanSources
    <3>1. /\ inv.state = "sources" /\ inv'.state = "ready"
          /\ seen'.row = IF seen.row = Absent /\ final[1] # Absent THEN Dev ELSE seen.row
      BY <1>1, <2>6 DEF ScanSources, ScanEnds, Lists, Snapshots
    <3>2. Known /\ ~inv.discard => seen'.row = WasListing
      BY <1>1, <2>3, <3>1 DEF WasListing
    <3> QED BY <1>1, <1>2, <1>3, <2>1, <3>1, <3>2 DEF Scanning
  <2> QED BY <1>17, <2>4, <2>5, <2>6
<1>18. CASE Restart
  <2>1. /\ app' = "idle" /\ ~inv'.valid /\ inv'.state \notin Scanning
    BY <1>18 DEF Restart, Booted, Fresh, Requested, Active, Scanning
  <2> QED BY <2>1 DEF Scanning
<1>19. CASE UNCHANGED allVars
  BY <1>1, <1>2, <1>3, <1>19
<1> QED BY <1>4, <1>5, <1>6, <1>7, <1>8, <1>9, <1>10, <1>11, <1>12, <1>13, <1>14, <1>15,
           <1>16, <1>17, <1>18, <1>19 DEF AppNext, User, Remove, Poll, Worker

-----------------------------------------------------------------------------
(* The invariant of the composition, and what follows from it.              *)
LEMMA AppInitInv == AppInit => IInv /\ AppInv
<1> SUFFICES ASSUME AppInit PROVE IInv /\ AppInv
  OBVIOUS
<1>1. IInv
  BY InitInv DEF AppInit
<1>2. inv = [state |-> "queued", row |-> 0, valid |-> FALSE, rescan |-> FALSE, discard |-> FALSE]
  BY DEF AppInit, Requested, Fresh, Active
<1>3. seen = [row |-> 0, valid |-> FALSE]
  BY DEF AppInit, NoScan
<1>4. inv \in Lists /\ seen \in Snapshots
  BY <1>2, <1>3 DEF Lists, ListStates, Snapshots
<1>5. Shapes
  <2>1. /\ catalog = "idle" /\ app = "idle" /\ lang = "idle" /\ shown = 0 /\ removal = "no"
        /\ open = FALSE /\ busy = FALSE /\ up = TRUE /\ gone = FALSE /\ doubt = {}
        /\ removed = FALSE /\ edition = 1
    BY DEF AppInit, Init
  <2>2. /\ open \in BOOLEAN /\ busy \in BOOLEAN /\ up \in BOOLEAN
        /\ gone \in BOOLEAN /\ removed \in BOOLEAN /\ doubt \in SUBSET Doubts
    BY <2>1
  <2>3. catalog \in Jobs /\ app \in Jobs /\ lang \in Jobs /\ removal \in Removals
    BY <2>1 DEF Jobs, Removals
  <2>4. shown \in {-1, 0, 1} /\ edition > 0
    BY <2>1
  <2> QED BY <1>4, <2>2, <2>3, <2>4 DEF Shapes
<1>6. OneAtATime /\ WaitsAreServed
  BY <1>2 DEF AppInit, Init, OneAtATime, WaitsAreServed, DownloadsActive
<1>7. RowsInv /\ GoneInv /\ CrossInv
  BY <1>2 DEF AppInit, RowsInv, GoneInv, CrossInv, Known, Scanning
<1> QED BY <1>1, <1>5, <1>6, <1>7 DEF AppInv

THEOREM AppInvariance == AppSpec => [](IInv /\ AppInv)
<1>1. IInv /\ AppInv /\ [AppNext]_allVars => (IInv /\ AppInv)'
  BY InstallStep, ShapesStep, OneStep, WaitsStep, CrossStep, GoneStep, RowsStep DEF AppInv
<1> QED BY <1>1, AppInitInv, PTL DEF AppSpec

(* However scans, installs, removals and restarts interleave, a list that   *)
(* is shown as valid while nothing is in progress is that of the card.      *)
THEOREM RowsTrue == AppSpec => []RowsAreTrue
<1>1. IInv /\ AppInv => RowsAreTrue
  BY DEF AppInv, RowsInv, OneAtATime, Known, Scanning, Settled, RowsAreTrue, WasListing, Was, Listing
<1> QED BY <1>1, AppInvariance, PTL

(* An app whose removal was confirmed is not listed again by a scan that    *)
(* began before it, nor by any other, until it is asked for again.          *)
THEOREM RemovedStays == AppSpec => []RemovedStaysAway
<1>1. AppInv => RemovedStaysAway
  BY DEF AppInv, GoneInv, RemovedStaysAway
<1> QED BY <1>1, AppInvariance, PTL

(* Whatever the Store shows as under way has a job that will end it.        *)
THEOREM WaitsServed == AppSpec => []WaitsAreServed
<1>1. AppInv => WaitsAreServed
  BY DEF AppInv
<1> QED BY <1>1, AppInvariance, PTL

(* The promises of the install hold in the composition with the Store, for  *)
(* removals and restarts at any point: no original is lost, and the error   *)
(* it reports is true of the files.                                         *)
THEOREM InstallKeepsItsPromises == AppSpec => [](OldOrNewSurvives /\ OutcomeIsTruthful)
<1>1. IInv => OldOrNewSurvives /\ OutcomeIsTruthful
  BY PhasesKeepOriginals, OutcomeFollows
<1> QED BY <1>1, AppInvariance, PTL
==============================================================================
