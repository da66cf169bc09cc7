---------------------------- MODULE CompanionSync ----------------------------
(***************************************************************************)
(* The replay of messages to companion apps (MyMesh.cpp): every received   *)
(* message gets a sequence number and a place in a ring, every client id   *)
(* has a cursor, the last number handed to it, and an app asks for the     *)
(* next message until there is none.  Ring and cursors survive a reboot:   *)
(* the ring as a log that is appended to and now and then rewritten, the   *)
(* cursors and the next number as a small file, both rewrites going to a   *)
(* .tmp that replaces the file by remove and rename.                       *)
(*                                                                         *)
(* An app is known by the id it sends when it starts, or else by the slot  *)
(* of its connection (MultiTransportCompanionInterface.cpp).  All of this  *)
(* runs in the loop task; only power cuts come between two file calls.     *)
(* Coalescing windows and retry delays are abstracted: dirty data may be   *)
(* due at any time.                                                        *)
(***************************************************************************)
EXTENDS Integers, Sequences, SequencesExt, FiniteSets

CONSTANTS Slots,        \* connections: usb, ble, tcp0, ws0, ...
          NamedApps,    \* apps that send a client id, which is their name
          PlainApps,    \* apps that do not
          LiveApps,     \* apps that keep what is pushed to them (protocol 3)
          RingSize,     \* HISTORY_RING_SIZE
          MaxClients,   \* MAX_HISTORY_CLIENTS
          MaxMsgs,      \* bound: messages received
          MaxFails,     \* bound: file calls and answers that fail
          MaxStarts,    \* bound: connections made
          MaxCuts       \* bound: power cuts and reboots

ASSUME SyncAssumption ==
  /\ Slots \cap NamedApps = {} /\ NamedApps \cap PlainApps = {}
  /\ LiveApps \subseteq NamedApps \cup PlainApps
  /\ RingSize \in Nat \ {0} /\ MaxClients \in Nat
  /\ MaxMsgs \in Nat /\ MaxFails \in Nat
  /\ MaxStarts \in Nat /\ MaxCuts \in Nat

VARIABLES ring,       \* history_ring, oldest first
          nextSeq,    \* history_next_seq
          cursors,    \* history_clients: last_delivered_seq of every client id
          live,       \* proto_clients: the ids whose app prefers live advance
          conn,       \* the app at every connection slot
          slotId,     \* _client_ids: the id an app sent on a slot
          book,       \* what the flushing remembers: dirty flags, counts
          disk,       \* live file and .tmp of log and cursors
          io,         \* the file job under way
          rebooting,  \* how far CMD_REBOOT has come
          handed,     \* history: the messages an id was given
          excused,    \* history: those its cursor passed over by design
          msgs, fails, starts, cuts

mesh    == <<ring, nextSeq, cursors>>
link    == <<live, conn, slotId>>
history == <<handed, excused>>
vars == <<mesh, link, book, disk, io, rebooting, history, msgs, fails, starts, cuts>>

Apps == NamedApps \cup PlainApps
Ids  == NamedApps \cup Slots
None == -1
NoIO      == <<"none", "log">>
Appending == <<"append", "log">>
Nobody == "nobody"

-----------------------------------------------------------------------------
(* Ring and cursors                                                         *)

Newest(s) == IF Len(s) <= RingSize THEN s
             ELSE SubSeq(s, Len(s) - RingSize + 1, Len(s))

\* getNextFromHistoryForClient: the oldest entry beyond the cursor, if any.
Offered(last) == {ring[i] : i \in {j \in DOMAIN ring : /\ ring[j].seq > last
                                                       /\ \A k \in 1 .. j - 1 : ring[k].seq <= last}}
UpTo(s, last) == {s[i].msg : i \in {j \in DOMAIN s : s[j].seq <= last}}

Held == {e.msg : e \in Range(ring)}
Gone == (1 .. msgs) \ Held

Known == {id \in Ids : cursors[id] # None}

\* The cursor of a client that asks for the first time.
NewCursor == IF nextSeq > Len(ring) THEN nextSeq - Len(ring) ELSE 0

ClientId(s) == IF slotId[s] # Nobody THEN slotId[s] ELSE s

-----------------------------------------------------------------------------
(* Files                                                                    *)

\* A log that does not exist, or has no header yet, or holds records and
\* perhaps a torn one behind them.
NoFile  == [kind |-> "absent"]
Opened  == [kind |-> "opened"]
LogFile(recs, torn) == [kind |-> "log", recs |-> recs, torn |-> torn]
CurFile(next, cur)  == [kind |-> "cur", next |-> next, cursors |-> cur]

RecordsOf(f) == IF f.kind = "log" THEN f.recs ELSE <<>>
NoCursors == [id \in Ids |-> None]
NextOf(f) == IF f.kind = "cur" THEN f.next ELSE 0
CursorsOf(f) == IF f.kind = "cur" THEN f.cursors ELSE NoCursors

\* What an append of recs can leave behind when it does not get to its end.
Cut(f, recs) ==
  IF f.kind = "log" /\ f.torn THEN {f}
  ELSE {LogFile(RecordsOf(f) \o SubSeq(recs, 1, k), torn) :
          k \in 0 .. Len(recs), torn \in BOOLEAN}

\* Records behind a torn one cannot be read.
Appended(f, recs) ==
  IF f.kind = "log" /\ f.torn THEN f ELSE LogFile(RecordsOf(f) \o recs, FALSE)

\* What a whole new file contains, and what a cut can leave of it.
Content(w) == IF w = "log" THEN LogFile(ring, FALSE) ELSE CurFile(nextSeq, cursors)
CutContent(w) ==
  {Opened} \cup
  IF w = "log" THEN Cut(Opened, ring)
  ELSE {CurFile(nextSeq, [id \in Ids |-> IF id \in part THEN cursors[id] ELSE None]) :
          part \in SUBSET Known}

-----------------------------------------------------------------------------
(* loadSyncHistory                                                          *)

\* MUTANT: a .tmp is never looked at.
MutRecover(pair) == pair.live

\* syncHistRecoverSwap: a .tmp without the file is the file.
syncHistRecoverSwap(pair) ==
  IF pair.live = NoFile THEN pair.tmp ELSE pair.live

\* A record is taken if its number is above all before it.
Ascending(recs) ==
  LET taken == {i \in DOMAIN recs : \A j \in 1 .. i - 1 : recs[j].seq < recs[i].seq}
  IN IF taken = DOMAIN recs THEN recs
     ELSE [n \in 1 .. Cardinality(taken) |->
             recs[CHOOSE i \in taken : Cardinality(taken \cap (1 .. i)) = n]]

BootFile(d, w) == syncHistRecoverSwap(d[w])
BootRing(d) == Newest(Ascending(RecordsOf(BootFile(d, "log"))))
\* MUTANT: the number is taken from the cursor file alone.
MutBootNext(d) == NextOf(BootFile(d, "cur"))

BootNext(d) ==
  LET kept == Ascending(RecordsOf(BootFile(d, "log")))
      logged == IF kept = <<>> THEN 0 ELSE Last(kept).seq + 1
      saved == NextOf(BootFile(d, "cur"))
  IN IF saved > logged THEN saved ELSE logged
BootCursors(d) ==
  [id \in Ids |->
     LET last == CursorsOf(BootFile(d, "cur"))[id]
     IN IF BootNext(d) > 0 /\ last > BootNext(d) - 1 THEN BootNext(d) - 1 ELSE last]

BootBook(d) ==
  LET f == BootFile(d, "log")
      recs == RecordsOf(f)
  IN [dirty |-> [log |-> FALSE, cur |-> FALSE], unflushed |-> 0,
      fileRecs |-> Len(recs),
      needCompact |-> \/ f.kind = "opened" \/ (f.kind = "log" /\ f.torn)
                      \/ Ascending(recs) # recs
                      \/ Len(recs) > 2 * RingSize]

-----------------------------------------------------------------------------
Idle == io = NoIO /\ rebooting = "no"

Init ==
  /\ ring = <<>> /\ nextSeq = 0 /\ cursors = NoCursors
  /\ live = {}
  /\ conn = [s \in Slots |-> Nobody] /\ slotId = [s \in Slots |-> Nobody]
  /\ disk = [w \in {"log", "cur"} |-> [live |-> NoFile, tmp |-> NoFile]]
  /\ book = [dirty |-> [log |-> FALSE, cur |-> FALSE], unflushed |-> 0,
             fileRecs |-> 0, needCompact |-> FALSE]
  /\ io = NoIO /\ rebooting = "no"
  /\ handed = [id \in Ids |-> {}] /\ excused = [id \in Ids |-> {}]
  /\ msgs = 0 /\ fails = 0 /\ starts = 0 /\ cuts = 0

Fail == fails < MaxFails /\ fails' = fails + 1
Fine == UNCHANGED fails

-----------------------------------------------------------------------------
(* Connections                                                              *)

\* An app connects to a free slot and starts: CMD_APP_START.  Without an id of
\* its own it leaves the id of the slot as it finds it.
AppStart(s, a) ==
  /\ Idle
  /\ conn[s] = Nobody
  /\ starts < MaxStarts /\ starts' = starts + 1
  /\ conn' = [conn EXCEPT ![s] = a]
  /\ slotId' = IF a \in NamedApps THEN [slotId EXCEPT ![s] = a] ELSE slotId
  /\ LET id == IF a \in NamedApps THEN a ELSE ClientId(s)
     IN live' = IF a \in LiveApps THEN live \cup {id} ELSE live \ {id}
  /\ UNCHANGED <<mesh, book, disk, io, rebooting, history, msgs, fails, cuts>>

Disconnect(s) ==
  /\ Idle
  /\ conn[s] # Nobody
  /\ conn' = [conn EXCEPT ![s] = Nobody]
  /\ UNCHANGED <<mesh, live, slotId, book, disk, io, rebooting, history, msgs, fails, starts, cuts>>

-----------------------------------------------------------------------------
(* Messages                                                                 *)

\* advanceHistoryClientsAfterV3Broadcast: every live client, connected or not.
Advanced(id, seq) == id \in live /\ cursors[id] # None /\ seq > cursors[id]
advanceHistoryClientsAfterV3Broadcast(seq) ==
  [id \in Ids |-> IF Advanced(id, seq) THEN seq ELSE cursors[id]]

\* addToHistoryRing, and the push to the connected apps.  A push that one
\* transport did not take advances nobody, and neither does number 0.
queueMessage ==
  /\ Idle
  /\ msgs < MaxMsgs /\ msgs' = msgs + 1
  /\ LET e == [seq |-> nextSeq, msg |-> msgs']
     IN /\ ring' = Newest(Append(ring, e))
        /\ \/ UNCHANGED <<cursors, excused>>
           \/ /\ e.seq # 0 /\ \E s \in Slots : conn[s] # Nobody
              /\ cursors' = advanceHistoryClientsAfterV3Broadcast(e.seq)
              /\ excused' = [id \in Ids |-> excused[id] \cup
                               IF Advanced(id, e.seq) THEN 1 .. e.msg ELSE {}]
        /\ nextSeq' = nextSeq + 1
        /\ book' = [book EXCEPT !.unflushed = IF @ < RingSize THEN @ + 1 ELSE @,
                                !.dirty.log = TRUE,
                                !.dirty.cur = @ \/ cursors' # cursors]
  /\ UNCHANGED <<handed, link, disk, io, rebooting, fails, starts, cuts>>

\* MUTANT: the cursor moves before the answer is taken.
MutCommit(taken, last, seq) == seq

\* The cursor moves only when the answer was taken.
commitHistoryForClient(taken, last, seq) == IF taken THEN seq ELSE last

\* CMD_SYNC_NEXT_MESSAGE: the first number beyond the cursor.  The first
\* question of an id makes its cursor, unless there are too many.
syncNext(s, taken) ==
  LET id == ClientId(s)
      last == IF id \in Known THEN cursors[id] ELSE NewCursor
      next == Offered(last)
  IN /\ Idle
     /\ conn[s] # Nobody
     /\ ring # <<>>
     /\ IF id \in Known THEN next # {} ELSE Cardinality(Known) < MaxClients
     /\ taken => next # {}
     /\ IF next # {} /\ ~taken THEN Fail ELSE Fine
     /\ \E seq \in IF next = {} THEN {last} ELSE {e.seq : e \in next} :
          cursors' = [cursors EXCEPT ![id] = commitHistoryForClient(taken, last, seq)]
     /\ handed' = [handed EXCEPT ![id] = @ \cup IF taken THEN {e.msg : e \in next} ELSE {}]
     /\ excused' = [excused EXCEPT ![id] = @ \cup Gone \cup
                      IF id \in Known THEN {} ELSE UpTo(ring, last)]
     /\ book' = [book EXCEPT !.dirty.cur = @ \/ cursors' # cursors]
     /\ UNCHANGED <<ring, nextSeq, link, disk, io, rebooting, msgs, starts, cuts>>

-----------------------------------------------------------------------------
(* serviceSyncHistory and persistSyncHistoryNow                             *)

\* MUTANT: a reboot does not go on from the log.
MutNextStage == IF rebooting = "cur" THEN "go" ELSE rebooting

\* A reboot tries the log and then the cursors, once each.
NextStage == CASE rebooting = "no"  -> "no"
               [] rebooting = "log" -> "cur"
               [] OTHER             -> "go"

MayStart(w) == io = NoIO /\ book.dirty[w] /\ rebooting \in {"no", w}
Done    == io' = NoIO /\ rebooting' = NextStage
Goes(j) == io' = j /\ UNCHANGED rebooting

Kept == UNCHANGED <<mesh, link, history, msgs, starts, cuts>>

MustCompact == book.needCompact \/ book.fileRecs > 2 * RingSize

\* MUTANT: of several messages only the newest is appended.
MutUnflushed == SubSeq(ring, Len(ring), Len(ring))

Unflushed == LET n == IF book.unflushed < Len(ring) THEN book.unflushed ELSE Len(ring)
             IN SubSeq(ring, Len(ring) - n + 1, Len(ring))

\* appendSyncLog: opening makes the file, closing makes the records last.
AppendOpens ==
  /\ MayStart("log") /\ ~MustCompact
  /\ \/ /\ Fine /\ Goes(Appending)
        /\ disk' = [disk EXCEPT !["log"].live = IF @ = NoFile THEN Opened ELSE @]
     \/ Fail /\ Done /\ UNCHANGED disk
  /\ UNCHANGED book /\ Kept

AppendEnds ==
  /\ io = Appending /\ Done
  /\ \/ /\ Fine
        /\ disk' = [disk EXCEPT !["log"].live = Appended(@, Unflushed)]
        /\ book' = [book EXCEPT !.dirty.log = FALSE, !.unflushed = 0,
                                !.fileRecs = @ + Len(Unflushed)]
     \/ /\ Fail
        /\ \E f \in Cut(disk["log"].live, Unflushed) :
             disk' = [disk EXCEPT !["log"].live = f]
        /\ book' = [book EXCEPT !.needCompact = TRUE]
  /\ Kept

\* compactSyncLog and saveSyncCursors: write a .tmp, remove the file, rename.
TmpOpens(w) ==
  /\ MayStart(w) /\ (w = "log" => MustCompact)
  /\ \/ /\ Fine /\ Goes(<<"write", w>>)
        /\ disk' = [disk EXCEPT ![w].tmp = Opened]
     \/ Fail /\ Done /\ UNCHANGED disk
  /\ UNCHANGED book /\ Kept

TmpEnds(w) ==
  /\ io = <<"write", w>>
  /\ \/ /\ Fine /\ Goes(<<"remove", w>>)
        /\ disk' = [disk EXCEPT ![w].tmp = Content(w)]
     \/ /\ Fail /\ Done
        /\ disk' = [disk EXCEPT ![w].tmp = NoFile]
  /\ UNCHANGED book /\ Kept

LiveRemoved(w) ==
  /\ io = <<"remove", w>> /\ Goes(<<"rename", w>>)
  /\ \/ Fine /\ disk' = [disk EXCEPT ![w].live = NoFile]
     \/ Fail /\ disk[w].live # NoFile /\ UNCHANGED disk
  /\ UNCHANGED book /\ Kept

\* Nothing is renamed onto a file that could not be removed.
Swapped(w) ==
  IF w = "cur" THEN [book EXCEPT !.dirty.cur = FALSE]
  ELSE [dirty |-> [book.dirty EXCEPT !.log = FALSE], unflushed |-> 0,
        fileRecs |-> Len(ring), needCompact |-> FALSE]

TmpRenamed(w) ==
  /\ io = <<"rename", w>> /\ Done
  /\ \/ /\ disk[w].live = NoFile /\ Fine
        /\ disk' = [disk EXCEPT ![w] = [live |-> @.tmp, tmp |-> NoFile]]
        /\ book' = Swapped(w)
     \/ /\ IF disk[w].live = NoFile THEN Fail ELSE Fine
        /\ UNCHANGED <<disk, book>>
  /\ Kept

File(w) == TmpOpens(w) \/ TmpEnds(w) \/ LiveRemoved(w) \/ TmpRenamed(w)
Log     == AppendOpens \/ AppendEnds \/ File("log")

-----------------------------------------------------------------------------
(* Reboot and power cut                                                     *)

RebootAsked ==
  /\ Idle
  /\ \E s \in Slots : conn[s] # Nobody
  /\ cuts < MaxCuts /\ cuts' = cuts + 1
  /\ rebooting' = "log"
  /\ UNCHANGED <<mesh, link, book, disk, io, history, msgs, fails, starts>>

\* Clean data is not written.
RebootSkips ==
  /\ io = NoIO /\ rebooting \in {"log", "cur"} /\ ~book.dirty[rebooting]
  /\ rebooting' = NextStage
  /\ UNCHANGED <<mesh, link, book, disk, io, history, msgs, fails, starts, cuts>>

\* RAM is what loadSyncHistory makes of the files.
Boot(d) ==
  /\ ring' = BootRing(d) /\ nextSeq' = BootNext(d) /\ cursors' = BootCursors(d)
  /\ book' = BootBook(d)
  /\ disk' = [w \in {"log", "cur"} |-> [live |-> BootFile(d, w), tmp |-> NoFile]]
  /\ live' = {}
  /\ conn' = [s \in Slots |-> Nobody] /\ slotId' = [s \in Slots |-> Nobody]
  /\ io' = NoIO /\ rebooting' = "no"
  /\ UNCHANGED <<history, msgs, fails, starts>>

Reboot == io = NoIO /\ rebooting = "go" /\ Boot(disk) /\ UNCHANGED cuts

\* The file that was being written is cut short; then the device starts again.
CutShort ==
  CASE io = Appending ->
         {[disk EXCEPT !["log"].live = f] :
            f \in {disk["log"].live} \cup Cut(disk["log"].live, Unflushed)}
    [] io \in {<<"write", "log">>, <<"write", "cur">>} ->
         {[disk EXCEPT ![io[2]].tmp = f] : f \in CutContent(io[2])}
    [] OTHER -> {disk}

PowerCut ==
  /\ cuts < MaxCuts /\ cuts' = cuts + 1
  /\ \E d \in CutShort : Boot(d)

-----------------------------------------------------------------------------
Next ==
  \/ \E s \in Slots, a \in Apps : AppStart(s, a)
  \/ \E s \in Slots : Disconnect(s)
  \/ \E s \in Slots, taken \in BOOLEAN : syncNext(s, taken)
  \/ queueMessage
  \/ Log \/ File("cur")
  \/ RebootAsked \/ RebootSkips \/ Reboot
  \/ PowerCut

Spec == Init /\ [][Next]_vars

\* The loop task runs for ever and what is dirty becomes due.  Apps, messages,
\* failures and cuts are free.
Fairness ==
  /\ WF_vars(Log) /\ WF_vars(File("cur"))
  /\ WF_vars(RebootSkips \/ Reboot)

FairSpec == Spec /\ Fairness

-----------------------------------------------------------------------------
(* Properties                                                               *)

\* No message in the ring is passed over by a cursor unless it was handed to
\* that id, or was passed over when the cursor was made or by a live advance.
\* Neither a failed answer nor a number used again after a cut does it.
NothingElsePassedOver ==
  \A id \in Known : UpTo(ring, cursors[id]) \subseteq handed[id] \cup excused[id]

\* Numbers ascend in the ring and stay below the next one, and so do cursors,
\* in RAM and in whatever a boot would load.
Orderly(r, next, cur) ==
  /\ \A i, j \in DOMAIN r : i < j => r[i].seq < r[j].seq
  /\ \A i \in DOMAIN r : r[i].seq < next
  /\ \A id \in Ids : cur[id] <= 0 \/ cur[id] < next

NumbersAscend ==
  /\ Orderly(ring, nextSeq, cursors)
  /\ Orderly(BootRing(disk), BootNext(disk), BootCursors(disk))

\* What is not dirty is what a boot loads: all of the ring, all of the cursors.
CleanIsDurable ==
  /\ ~book.dirty.log => BootRing(disk) = ring
  /\ ~book.dirty.cur => BootCursors(disk) = cursors

\* A message that a boot would load stays so until newer ones push it out of
\* the ring, at every point of an append, a rewrite and a recovery.  A cut or a
\* reboot, whose ring is what was loaded, loses none that was in the ring before.
Loadable == {e.msg : e \in Range(BootRing(disk))}
StaysLoadable == Loadable \cap (IF PowerCut \/ Reboot THEN Held ELSE Held') \subseteq Loadable'

\* The one step that the code takes and that does lose them: a rename failed,
\* so that the .tmp is the only copy, and the next rewrite opens it anew.
OnlyCopyReopened ==
  disk["log"].live = NoFile /\ disk["log"].tmp # NoFile /\ TmpOpens("log")

LoggedStays == [][~OnlyCopyReopened => StaysLoadable]_vars

\* The same without the exception: after a failed rename "loader adopts the
\* tmp" (compactSyncLog).  The code breaks this.
LoggedSurvives == [][StaysLoadable]_vars

\* Whatever is dirty is written in the end.
EverythingSettles ==
  \A w \in {"log", "cur"} : book.dirty[w] ~> ~book.dirty[w]

\* MultiTransportCompanionInterface.cpp says that an app without an id of its
\* own is known by its connection.
PlainAppsAreTheirSlot ==
  \A s \in Slots : conn[s] \in PlainApps => ClientId(s) = s

\* MyMesh.h says that the ring is there for apps that were not connected when
\* the messages came: once nothing waits for an id it has had all of them.
NothingWaitingMeansAllHanded ==
  \A id \in Known \ live : Offered(cursors[id]) = {} => Held \subseteq handed[id]
=============================================================================
