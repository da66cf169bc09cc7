---------------------------- MODULE StagedInstall ----------------------------
(***************************************************************************)
(* StagedFileInstall: one worker replaces up to N files together.  Every   *)
(* file is staged beside its target and read back; then all originals are  *)
(* renamed to backups, all staged files renamed into place, and the        *)
(* backups removed.  Every filesystem call may fail; a failed rename rolls *)
(* everything back.  Power may be lost between any two calls, and what is  *)
(* left makes later installs of the file refuse to start.  A file is the   *)
(* edition it holds: edition k is what the k-th install brings.  The       *)
(* Mut... definitions are plausible mistakes; no specification uses them.  *)
(***************************************************************************)
EXTENDS Integers

CONSTANTS
  N,            \* files one install replaces (_entries holds two)
  MaxEditions   \* bound: installs that are started, and the first edition

ASSUME NAssumption == N \in Nat \ {0}
ASSUME MaxEditionsAssumption == MaxEditions \in Nat

VARIABLES
  final, temp, back,          \* the target, its .tmp and its .bak
  pc,                         \* where the install is; "off" before the first
  i,                          \* the loop index of commit, rollback, destructor
  count,                      \* entries (_count)
  staged, backed, installed,  \* the flags of the entries
  error,                      \* _error
  edition,                    \* what the running install brings
  orig                        \* history: what each target held before it, or Gone

files == <<final, temp, back>>
flags == <<staged, backed, installed>>
vars  == <<final, temp, back, pc, i, count, staged, backed, installed, error, edition, orig>>

Entries == 1..N
Absent  == 0
Partial == -1       \* a file whose write was not finished
Gone    == -2       \* orig of a target that was removed again once published
Used    == 1..count

\* What is found of a target and its backup.
Held(p) == IF final[p] # Absent THEN final[p] ELSE back[p]

-----------------------------------------------------------------------------
(* stage.                                                                   *)

Begin ==
  /\ pc \in {"off", "done"} /\ edition < MaxEditions
  /\ pc' = "stage" /\ count' = 0 /\ error' = "None"
  /\ staged' = {} /\ backed' = {} /\ installed' = {}
  /\ edition' = edition + 1
  /\ orig' = [p \in Entries |-> Held(p)]
  /\ UNCHANGED <<files, i>>

(* The caller drops an install whose stage failed, or whose download did.   *)
Destroy(e) ==
  /\ pc' = "destroy" /\ i' = 1 /\ error' = e
  /\ UNCHANGED <<staged, backed, installed, edition, orig>>

Leftover(p) == temp[p] # Absent \/ back[p] # Absent

StageRefused ==
  /\ pc = "stage" /\ count < N /\ Leftover(count + 1)
  /\ Destroy("RecoveryRequired")
  /\ UNCHANGED <<files, count>>

StageFails ==
  /\ pc = "stage" /\ count < N /\ ~Leftover(count + 1)
  /\ \E e \in {"InvalidPath", "NoMemory", "WriteFailed"} : Destroy(e)
  /\ UNCHANGED <<files, count>>

MutStageOpen ==
  /\ pc = "stage" /\ count < N
  /\ temp' = [temp EXCEPT ![count + 1] = Partial]
  /\ count' = count + 1 /\ staged' = staged \cup {count + 1} /\ pc' = "write"
  /\ UNCHANGED <<final, back, i, backed, installed, error, edition, orig>>

StageOpen ==
  /\ pc = "stage" /\ count < N /\ ~Leftover(count + 1)
  /\ temp' = [temp EXCEPT ![count + 1] = Partial]
  /\ count' = count + 1 /\ staged' = staged \cup {count + 1} /\ pc' = "write"
  /\ UNCHANGED <<final, back, i, backed, installed, error, edition, orig>>

StageWritten ==
  /\ pc = "write" /\ pc' = "stage"
  /\ temp' = [temp EXCEPT ![count] = edition]
  /\ UNCHANGED <<final, back, i, count, flags, error, edition, orig>>

StageWriteFails ==
  /\ pc = "write" /\ \E e \in {"WriteFailed", "VerifyFailed"} : Destroy(e)
  /\ UNCHANGED <<files, count>>

Abandon ==
  /\ pc = "stage" /\ Destroy("None") /\ UNCHANGED <<files, count>>

-----------------------------------------------------------------------------
(* commit.                                                                  *)

Commit ==
  /\ pc = "stage" /\ count > 0
  /\ pc' = "backup" /\ i' = 1
  /\ UNCHANGED <<files, count, flags, error, edition, orig>>

Advance(next) ==
  /\ i' = IF i < count THEN i + 1 ELSE 1
  /\ pc' = IF i < count THEN pc ELSE next

MutFailed ==
  /\ pc' = "destroy" /\ i' = 1 /\ error' = "CommitFailed"
  /\ UNCHANGED <<files, count, flags, edition, orig>>

Failed ==
  /\ pc' = "remove" /\ i' = count /\ error' = "CommitFailed"
  /\ UNCHANGED <<files, count, flags, edition, orig>>

BackupSkip ==
  /\ pc = "backup" /\ final[i] = Absent /\ Advance("publish")
  /\ UNCHANGED <<files, count, flags, error, edition, orig>>

Backup ==
  /\ pc = "backup" /\ final[i] # Absent /\ Advance("publish")
  /\ back' = [back EXCEPT ![i] = final[i]] /\ final' = [final EXCEPT ![i] = Absent]
  /\ backed' = backed \cup {i}
  /\ UNCHANGED <<temp, count, staged, installed, error, edition, orig>>

BackupFails == pc = "backup" /\ final[i] # Absent /\ Failed

Publish ==
  /\ pc = "publish" /\ Advance("clean")
  /\ final' = [final EXCEPT ![i] = temp[i]] /\ temp' = [temp EXCEPT ![i] = Absent]
  /\ staged' = staged \ {i} /\ installed' = installed \cup {i}
  /\ UNCHANGED <<back, count, backed, error, edition, orig>>

PublishFails == pc = "publish" /\ Failed

(* The backups go; one that stays is reported.                              *)
Clean ==
  /\ pc = "clean" /\ Advance("destroy")
  /\ \/ /\ back' = IF i \in backed THEN [back EXCEPT ![i] = Absent] ELSE back
        /\ backed' = backed \ {i}
     \/ i \in backed /\ UNCHANGED <<back, backed>>
  /\ error' = IF i = count /\ backed' # {} THEN "CleanupFailed" ELSE error
  /\ UNCHANGED <<final, temp, count, staged, installed, edition, orig>>

-----------------------------------------------------------------------------
(* rollback, from the last entry to the first: remove what was installed,   *)
(* then rename the backup into its place.  A remove of what is not there    *)
(* fails.                                                                   *)

Retreat ==
  /\ i' = IF i > 1 THEN i - 1 ELSE 1
  /\ pc' = IF i > 1 THEN "remove" ELSE "destroy"

MutRemoveInstalled ==
  /\ pc = "remove" /\ pc' = "restore"
  /\ final' = [final EXCEPT ![i] = Absent] /\ installed' = installed \ {i}
  /\ UNCHANGED <<temp, back, i, count, staged, backed, error, edition, orig>>

RemoveInstalled ==
  /\ pc = "remove" /\ pc' = "restore"
  /\ i \in installed => final[i] # Absent
  /\ final' = IF i \in installed THEN [final EXCEPT ![i] = Absent] ELSE final
  /\ installed' = installed \ {i}
  /\ UNCHANGED <<temp, back, i, count, staged, backed, error, edition, orig>>

RemoveFails ==
  /\ pc = "remove" /\ i \in installed /\ Retreat
  /\ error' = "RecoveryRequired"
  /\ UNCHANGED <<files, count, flags, edition, orig>>

Restore ==
  /\ pc = "restore" /\ Retreat
  /\ final' = IF i \in backed THEN [final EXCEPT ![i] = back[i]] ELSE final
  /\ back' = IF i \in backed THEN [back EXCEPT ![i] = Absent] ELSE back
  /\ backed' = backed \ {i}
  /\ UNCHANGED <<temp, count, staged, installed, error, edition, orig>>

RestoreFails ==
  /\ pc = "restore" /\ i \in backed /\ Retreat
  /\ error' = "RecoveryRequired"
  /\ UNCHANGED <<files, count, flags, edition, orig>>

-----------------------------------------------------------------------------
(* The destructor removes what is still staged and does not look whether it *)
(* could; then the caller has the error.                                    *)

Destructor ==
  /\ pc = "destroy"
  /\ IF i < count THEN i' = i + 1 /\ pc' = pc ELSE i' = 1 /\ pc' = "done"
  /\ temp' \in {temp} \cup (IF i \in staged THEN {[temp EXCEPT ![i] = Absent]} ELSE {})
  /\ UNCHANGED <<final, back, count, flags, error, edition, orig>>

(* Power is lost: files stay as they are, the install is forgotten.         *)
Forget ==
  /\ pc' = "off" /\ i' = 1 /\ count' = 0 /\ error' = "None"
  /\ staged' = {} /\ backed' = {} /\ installed' = {}
  /\ UNCHANGED <<files, edition, orig>>

PowerCut == pc \notin {"off", "done"} /\ Forget

Init ==
  /\ final \in [Entries -> {Absent, 1}]
  /\ temp = [p \in Entries |-> Absent] /\ back = [p \in Entries |-> Absent]
  /\ pc = "off" /\ i = 1 /\ count = 0
  /\ staged = {} /\ backed = {} /\ installed = {}
  /\ error = "None" /\ edition = 1 /\ orig = final

Stage    == StageRefused \/ StageFails \/ StageOpen \/ StageWritten \/ StageWriteFails \/ Abandon
Install  == Commit \/ BackupSkip \/ Backup \/ BackupFails \/ Publish \/ PublishFails \/ Clean
Rollback == RemoveInstalled \/ RemoveFails \/ Restore \/ RestoreFails
Next == Begin \/ Stage \/ Install \/ Rollback \/ Destructor \/ PowerCut

Spec == Init /\ [][Next]_vars

-----------------------------------------------------------------------------
(* Properties.                                                              *)

Phases == {"off", "stage", "write", "backup", "publish", "clean", "remove",
           "restore", "destroy", "done"}
Errors == {"None", "InvalidPath", "NoMemory", "RecoveryRequired", "WriteFailed",
           "VerifyFailed", "CommitFailed", "CleanupFailed"}

(* Shapes: what a file holds, and the flags are those of used entries.      *)
TypeOK ==
  /\ final \in [Entries -> Nat] /\ back \in [Entries -> Nat]
  /\ temp \in [Entries -> Nat \cup {Partial}]
  /\ pc \in Phases /\ i \in Entries /\ count \in 0..N
  /\ staged \subseteq Used /\ backed \subseteq Used /\ installed \subseteq Used
  /\ error \in Errors /\ edition \in Nat /\ orig \in [Entries -> Nat \cup {Gone}]

(* No original is lost, whatever call fails and wherever power is cut: a    *)
(* target holds its old or its new edition, or the old one is its backup.   *)
(* (A target the user removes has no original any more.)                    *)
OldOrNewSurvives ==
  \A p \in Entries : orig[p] \notin {Absent, Gone} =>
    final[p] \in {orig[p], edition} \/ back[p] = orig[p]

(* The answer of an install that ends is true of the card: success and a    *)
(* failed clean-up mean every file is new, every other error but            *)
(* RecoveryRequired means every file is as it was and no backup remains.    *)
(* Files the user removed after the install had published them are left out.*)
OutcomeIsTruthful ==
  pc = "done" =>
    /\ error = "CleanupFailed" \/ (error = "None" /\ installed # {}) =>
         \A p \in Used : final[p] = edition \/ orig[p] = Gone
    /\ error = "None" /\ installed # {} => \A p \in Used : back[p] = Absent
    /\ error \notin {"CleanupFailed", "RecoveryRequired"} /\ installed = {} =>
         \A p \in Used : final[p] = orig[p] /\ back[p] = Absent
    /\ error \notin {"None", "CleanupFailed", "RecoveryRequired"} => installed = {}

(* What an earlier install left behind is never touched: a file this        *)
(* install did not write or rename itself stays as it is.                   *)
LeftoversUntouched ==
  [][\A p \in Entries :
       /\ temp[p] # Absent /\ p \notin staged => temp'[p] = temp[p]
       /\ back[p] # Absent /\ p \notin backed => back'[p] = back[p]]_vars
==============================================================================
