------------------------- MODULE GuardianClientProofs -------------------------
(***************************************************************************)
(* Proofs about GuardianClient, for any capacities, and for any number of  *)
(* commands, alerts, retries, faults, reboots and power cuts.              *)
(***************************************************************************)
EXTENDS GuardianClient, SequenceTheorems, TLAPS

CmdStates == {"none", "unknown", "pending", "completed"}
Intents   == [token : Nat, cmd : Nat, unresolved : BOOLEAN]
Commands  == [id : Nat, state : CmdStates]
Events    == [kind : {"command", "alert"}, cmd : Nat, state : CmdStates, urgent : BOOLEAN, seq : Nat]
Alerts    == [seq : Nat, urgent : BOOLEAN, seen : BOOLEAN]
Ops       == {"none", "execute", "get", "list", "ack"}

BodyT ==
  [intent : Intents, command : Commands, stream : BOOLEAN, cursor : Nat,
   alerts : SUBSET Alerts, seen : SUBSET Nat, early : SUBSET Commands]

RamT ==
  [intent : Intents, command : Commands, stream : BOOLEAN, cursor : Nat,
   alerts : SUBSET Alerts, seen : SUBSET Nat, early : SUBSET Commands,
   full : BOOLEAN, held : Seq(Events), op : Ops, sendIntent : BOOLEAN,
   connected : BOOLEAN, fresh : BOOLEAN, recover : BOOLEAN, ack : BOOLEAN,
   asked : BOOLEAN, failed : BOOLEAN]

DevT == [ram : RamT, base : BodyT, ahead : BodyT \cup {NoBody}, faults : Nat]

Requests == [op : Ops, arg : Nat]
Replies ==
  {NoMessage, [ok |-> FALSE]}
  \cup [ok : {TRUE}, id : Nat, state : CmdStates]
  \cup [ok : {TRUE}, items : Seq(Events), more : BOOLEAN]
  \cup [ok : {TRUE}, cursor : Nat]

LinkT ==
  [ble : {"down", "linked", "dropping"}, closing : BOOLEAN, online : BOOLEAN, subscribed : BOOLEAN,
   rpc : {"idle", "sending", "sent", "reply", "error"}, owner : BOOLEAN,
   request : Requests \cup {NoMessage}, reply : Replies, events : Seq(Events)]

PageT == [items : Seq(Events), gap : BOOLEAN, more : BOOLEAN]

PcT ==
  [cmds : [Tokens -> CmdStates], log : Seq(Events), pushed : Nat, acked : Nat,
   reply : Replies, late : SUBSET Requests]

HistT ==
  [token : 0 .. MaxCommands, retries : Nat, credit : [Tokens -> Int], closed : SUBSET Tokens,
   read : SUBSET Nat]

-----------------------------------------------------------------------------
(* The inductive invariant, in parts that name the state they are about.     *)

\* The PC: its log numbers the events, and a command that ended has its outcome.
PcOk(p, h) ==
  /\ p \in PcT /\ p.acked <= Len(p.log)
  /\ \A k \in 1 .. Len(p.log) :
       /\ p.log[k].seq = k
       /\ p.log[k].kind = "command" =>
            /\ p.log[k].cmd \in Tokens /\ p.log[k].state \in {"completed", "unknown"}
            /\ p.cmds[p.log[k].cmd] = p.log[k].state
  /\ \A t \in Tokens : p.cmds[t] # "none" => t <= h.token

\* An event that the PC has sent.
Sent(e, p) == e.seq \in 1 .. Len(p.log) /\ p.log[e.seq] = e
AllSent(s, p) == \A i \in 1 .. Len(s) : Sent(s[i], p)

Completion(token) == [id |-> token, state |-> "completed"]

\* What holds of the device's state, in memory and in either slot.
OwnerOk(x, p, h) ==
  /\ x.intent.token <= h.token /\ x.intent.cmd \in {0, x.intent.token}
  /\ x.intent.token = 0 => ~x.intent.unresolved
  /\ x.intent.cmd # 0 => p.cmds[x.intent.cmd] # "none"
OutcomeOk(x, p) ==
  x.intent.token # 0 /\ (~x.intent.unresolved \/ x.command.state = "completed") =>
    x.intent.cmd # 0 /\ x.command.id = x.intent.cmd /\ p.cmds[x.intent.token] = "completed"
EarlyOk(x, p) ==
  \A c \in x.early : c.id \in Tokens /\ c.state \in {"completed", "unknown"} /\ p.cmds[c.id] = c.state
\* What is stored is what the PC raised, only what the user has read is marked,
\* and an emergency is missing only if it was read.
ListOk(alerts, seen, cursor, p, h) ==
  /\ seen \subseteq h.read
  /\ \A a \in alerts : /\ a.seq \in 1 .. Len(p.log) /\ a.urgent = p.log[a.seq].urgent
                       /\ a.seen => a.seq \in h.read
  /\ \A k \in 1 .. cursor :
       p.log[k].kind = "alert" /\ p.log[k].urgent => k \in Stored(alerts) \cup h.read
CursorOk(x, p, h) ==
  /\ x.cursor <= Len(p.log) /\ (~x.stream => x.cursor = 0)
  /\ ListOk(x.alerts, x.seen, x.cursor, p, h)
KeptOk(x, p, h) ==
  \A k \in 1 .. x.cursor :
    p.log[k].kind = "command" /\ p.log[k].state = "completed"
      /\ x.intent.token = p.log[k].cmd /\ x.intent.token \notin h.closed
    => ~x.intent.unresolved \/ Completion(p.log[k].cmd) \in x.early
Sound(x, p, h) ==
  OwnerOk(x, p, h) /\ OutcomeOk(x, p) /\ EarlyOk(x, p) /\ CursorOk(x, p, h) /\ KeptOk(x, p, h)

Slots(d) == {d.base} \cup ({d.ahead} \ {NoBody})

\* The slots are sound, and never behind the memory.
SlotsOk(d, p, h) == \A b \in Slots(d) : Sound(b, p, h) /\ d.ram.cursor <= b.cursor

\* An outcome that is known stands in the command while a reply is awaited.
RamOk(r, p, h) ==
  /\ Sound(r, p, h) /\ AllSent(r.held, p)
  /\ r.op \in {"execute", "get"} =>
       /\ r.intent.token # 0
       /\ ~r.intent.unresolved => r.command.id = r.intent.token /\ r.command.state = "completed"
  /\ r.sendIntent => r.op = "none" /\ r.intent.unresolved /\ r.intent.cmd = 0

DevOk(d, p, h) == d \in DevT /\ RamOk(d.ram, p, h) /\ SlotsOk(d, p, h)

RequestOk(q, r, p) ==
  /\ q \in Requests /\ q.op = r.op
  /\ q.op \in {"execute", "get"} => q.arg = r.intent.token
  /\ q.op = "get" => p.cmds[q.arg] # "none"
  /\ q.op = "list" => q.arg <= Len(p.log) /\ (~r.stream => q.arg = 0)
  /\ q.op = "ack" => q.arg <= r.cursor

PageOk(items, gap, p) == AllSent(items, p) /\ (gap /\ items # <<>> => items[1].seq = 1)

ReplyOk(m, r, p) ==
  /\ m \in Replies
  /\ m.ok /\ r.op \in {"execute", "get"} =>
       /\ m \in [ok : {TRUE}, id : {r.intent.token}, state : CmdStates]
       /\ p.cmds[m.id] # "none" /\ m.state \in {"pending", p.cmds[m.id]}
  /\ m.ok /\ r.op = "list" =>
       m \in [ok : {TRUE}, items : Seq(Events), more : BOOLEAN] /\ PageOk(m.items, ~r.stream, p)
  /\ m.ok /\ r.op = "ack" => m \in [ok : {TRUE}, cursor : Nat]

\* The request and its reply are those of the operation under way.
LinkOk(l, r, p) ==
  /\ l \in LinkT /\ AllSent(l.events, p)
  /\ l.rpc \in {"sending", "sent", "reply"} => l.online /\ r.op # "none"
  /\ l.rpc = "sending" => RequestOk(l.request, r, p)
  /\ l.rpc = "reply" => ReplyOk(l.reply, r, p)
  /\ p.reply # NoMessage => l.ble = "linked" /\ (l.online => l.rpc = "sent")
  /\ p.reply # NoMessage /\ l.rpc = "sent" => ReplyOk(p.reply, r, p)

\* What was acked, or is to be, stands below the cursor of the device.
AcksOk(p, r, h) ==
  /\ p.acked <= r.cursor
  /\ \A q \in p.late :
       \/ q.op = "execute" /\ q.arg \in 1 .. h.token
       \/ q.op = "ack" /\ q.arg <= r.cursor

TickOk(u, pg, r, p) ==
  /\ u \in {"idle", "page", "held", "events"} /\ pg \in PageT
  /\ u \in {"page", "held"} => r.op = "none"
  /\ u = "page" => pg.items # <<>> /\ PageOk(pg.items, pg.gap, p) /\ (pg.gap => ~r.stream)
  /\ u = "held" => r.held # <<>>

CreditOk(h, r) ==
  /\ h \in HistT /\ \A t \in Tokens : h.credit[t] >= 0
  /\ r.sendIntent => h.credit[r.intent.token] >= 1

\* The PC has the command of a token, or may yet get it.
Live(token, l, r, p) ==
  \/ p.cmds[token] # "none"
  \/ l.rpc = "sending" /\ l.request.op = "execute" /\ l.request.arg = token
  \/ \E q \in p.late : q.op = "execute" /\ q.arg = token
  \/ r.sendIntent /\ r.intent.token = token

LiveOk(l, d, p, h) ==
  \A token \in Tokens \ h.closed : Live(token, l, d.ram, p) =>
    d.ram.intent.token = token /\ \A b \in Slots(d) : b.intent.token = token

GInv ==
  /\ PcOk(pc, hist) /\ DevOk(dev, pc, hist) /\ LinkOk(link, dev.ram, pc) /\ AcksOk(pc, dev.ram, hist)
  /\ TickOk(ui, page, dev.ram, pc) /\ CreditOk(hist, dev.ram) /\ LiveOk(link, dev, pc, hist)

-----------------------------------------------------------------------------
(* The store: what a save leaves.                                           *)

Outcomes == [ok : BOOLEAN, dev : DevT]

\* What of the memory a save writes: a command without an id is written blank.
LEMMA BodyIs ==
  ASSUME NEW r \in RamT
  PROVE  /\ Body(r) \in BodyT
         /\ Body(r).intent = r.intent /\ Body(r).stream = r.stream /\ Body(r).cursor = r.cursor
         /\ Body(r).alerts = r.alerts /\ Body(r).seen = r.seen /\ Body(r).early = r.early
         /\ Body(r).command.id = r.command.id
         /\ Body(r).command.id # 0 => Body(r).command = r.command
         /\ Body(r).command.state = "completed" => Body(r).command = r.command
<1>1. NoCommand \in Commands /\ NoCommand.id = 0 /\ NoCommand.state = "unknown"
  BY DEF NoCommand, Commands, CmdStates
<1> QED BY <1>1 DEF Body, RamT, BodyT, Commands

\* A save that is confirmed leaves one slot; one that is not, perhaps a newer one.
LEMMA SaveIs ==
  ASSUME NEW d \in DevT, NEW s \in Saves(d)
  PROVE  /\ s \in Outcomes
         /\ s.ok => s.dev.ram = [d.ram EXCEPT !.failed = FALSE] /\ Slots(s.dev) = {Body(d.ram)}
         /\ ~s.ok => /\ s.dev.ram = [d.ram EXCEPT !.failed = TRUE]
                     /\ Slots(s.dev) \subseteq Slots(d) \cup {Body(d.ram)}
<1> USE BodyIs
<1>1. d.ram \in RamT /\ Body(d.ram) \in BodyT /\ d.base \in BodyT /\ d.ahead \in BodyT \cup {NoBody}
      /\ d.faults \in Nat
  BY DEF DevT
<1>2. CASE s = [ok |-> TRUE,
                dev |-> [d EXCEPT !.base = Body(d.ram), !.ahead = NoBody, !.ram.failed = FALSE]]
  <2>1. [d.ram EXCEPT !.failed = FALSE] \in RamT
    BY <1>1 DEF RamT
  <2>2. /\ s.ok = TRUE /\ s.dev \in DevT /\ s.dev.ram = [d.ram EXCEPT !.failed = FALSE]
        /\ s.dev.base = Body(d.ram) /\ s.dev.ahead = NoBody
    BY <1>1, <1>2, <2>1 DEF DevT
  <2> QED BY <1>2, <2>2 DEF Outcomes, Slots
<1>3. ASSUME NEW slot \in {d.ahead, NoBody, Body(d.ram)},
             s = [ok |-> FALSE,
                  dev |-> [d EXCEPT !.ahead = slot, !.faults = @ + 1, !.ram.failed = TRUE]]
      PROVE  /\ s \in Outcomes /\ s.ok = FALSE /\ s.dev.ram = [d.ram EXCEPT !.failed = TRUE]
             /\ Slots(s.dev) \subseteq Slots(d) \cup {Body(d.ram)}
  <2>1. [d.ram EXCEPT !.failed = TRUE] \in RamT
    BY <1>1 DEF RamT
  <2>3. slot \in BodyT \cup {NoBody} /\ d.faults + 1 \in Nat
    BY <1>1
  <2>4. s.ok = FALSE /\ s.dev = [d EXCEPT !.ahead = slot, !.faults = @ + 1, !.ram.failed = TRUE]
    BY <1>3
  <2>2. /\ s.dev \in DevT /\ s.dev.ram = [d.ram EXCEPT !.failed = TRUE]
        /\ s.dev.base = d.base /\ s.dev.ahead = slot
    BY <1>1, <2>1, <2>3, <2>4 DEF DevT
  <2> QED BY <1>3, <2>2, <2>4 DEF Outcomes, Slots
<1> QED BY <1>2, <1>3 DEF Saves

\* A save that fails may have written the new body all the same.
LEMMA CommitIs ==
  ASSUME NEW d \in DevT, NEW new \in RamT, NEW old \in RamT, NEW s \in Commit(d, new, old)
  PROVE  /\ s \in Outcomes
         /\ s.ok => s.dev.ram = [new EXCEPT !.failed = FALSE] /\ Slots(s.dev) = {Body(new)}
         /\ ~s.ok => /\ s.dev.ram = [old EXCEPT !.failed = TRUE]
                     /\ Slots(s.dev) \subseteq Slots(d) \cup {Body(new)}
<1> DEFINE e == [d EXCEPT !.ram = new]
<1>1. e \in DevT /\ e.ram = new /\ Slots(e) = Slots(d)
  BY DEF DevT, Slots
<1>2. PICK t \in Saves(e) : s = IF t.ok THEN t ELSE [t EXCEPT !.dev.ram = [old EXCEPT !.failed = TRUE]]
  BY DEF Commit
<1> HIDE DEF e
<1>3. /\ t \in Outcomes
      /\ t.ok => t.dev.ram = [new EXCEPT !.failed = FALSE] /\ Slots(t.dev) = {Body(new)}
      /\ ~t.ok => Slots(t.dev) \subseteq Slots(d) \cup {Body(new)}
  BY <1>1, SaveIs
<1>4. CASE t.ok
  BY <1>2, <1>3, <1>4
<1>5. CASE ~t.ok
  <2>1. [old EXCEPT !.failed = TRUE] \in RamT
    BY DEF RamT
  <2>2. t.dev \in DevT /\ t.ok = FALSE
    BY <1>3, <1>5 DEF Outcomes
  <2>3. /\ s = [ok |-> FALSE, dev |-> [t.dev EXCEPT !.ram = [old EXCEPT !.failed = TRUE]]]
    BY <1>2, <1>3, <1>5, <2>2 DEF Outcomes
  <2>4. s.dev \in DevT /\ s.dev.ram = [old EXCEPT !.failed = TRUE] /\ Slots(s.dev) = Slots(t.dev)
    BY <2>1, <2>2, <2>3 DEF DevT, Slots
  <2> QED BY <1>3, <1>5, <2>3, <2>4 DEF Outcomes
<1> QED BY <1>4, <1>5

-----------------------------------------------------------------------------
(* What stays sound.                                                        *)

LEMMA PcIs ==
  ASSUME NEW p, NEW h, PcOk(p, h), h \in HistT
  PROVE  /\ p.cmds \in [Tokens -> CmdStates] /\ p.log \in Seq(Events) /\ Len(p.log) \in Nat
         /\ h.token \in Nat /\ h.token <= MaxCommands /\ h.closed \subseteq Tokens
         /\ \A k \in 1 .. Len(p.log) : p.log[k] \in Events /\ p.log[k].seq = k
<1>1. p \in PcT
  BY DEF PcOk
<1>2. p.cmds \in [Tokens -> CmdStates] /\ p.log \in Seq(Events)
  BY <1>1 DEF PcT
<1>3. Len(p.log) \in Nat /\ \A k \in 1 .. Len(p.log) : p.log[k] \in Events
  BY <1>2
<1>4. MaxCommands \in Nat
  BY GuardianClientAssumption
<1>5. h.token \in Nat /\ h.token <= MaxCommands /\ h.closed \subseteq Tokens
  BY <1>4 DEF HistT
<1> QED BY <1>2, <1>3, <1>5 DEF PcOk

\* The command may lose its state, and alert.seen may have been told of.
LEMMA Alike ==
  ASSUME NEW x, NEW y, NEW p, NEW h, Sound(x, p, h),
         y.intent = x.intent, y.stream = x.stream, y.cursor = x.cursor,
         y.alerts = x.alerts, y.seen \subseteq x.seen, y.early = x.early,
         y.command.id = x.command.id,
         y.command.state = "completed" => x.command.state = "completed"
  PROVE  Sound(y, p, h)
<1>1. y.seen \subseteq x.seen /\ x.seen \subseteq h.read => y.seen \subseteq h.read
  OBVIOUS
<1>2. CursorOk(y, p, h)
  BY <1>1 DEF Sound, CursorOk, ListOk
<1>3. OwnerOk(y, p, h) /\ OutcomeOk(y, p) /\ EarlyOk(y, p) /\ KeptOk(y, p, h)
  BY DEF Sound, OwnerOk, OutcomeOk, EarlyOk, KeptOk
<1> QED BY <1>2, <1>3 DEF Sound

\* Writing loses nothing that soundness is about.
LEMMA BodySound ==
  ASSUME NEW r \in RamT, NEW p, NEW h, Sound(r, p, h)
  PROVE  Sound(Body(r), p, h)
<1>1. Body(r).command.state = "completed" => r.command.state = "completed"
  BY BodyIs
<1>2. Body(r).seen \subseteq r.seen
  BY BodyIs
<1> QED BY <1>1, <1>2, BodyIs, Alike

\* What an event that the PC sent says of its log and its commands.
LEMMA SentIs ==
  ASSUME NEW p, NEW h, PcOk(p, h), h \in HistT, NEW e, Sent(e, p)
  PROVE  /\ e \in Events /\ e.seq \in 1 .. Len(p.log) /\ e = p.log[e.seq]
         /\ e.kind = "command" => /\ e.cmd \in Tokens /\ e.state \in {"completed", "unknown"}
                                  /\ p.cmds[e.cmd] = e.state /\ e.cmd # 0 /\ e.cmd \in Nat
<1>1. e.seq \in 1 .. Len(p.log) /\ e = p.log[e.seq]
  BY DEF Sent
<1>2. e \in Events
  BY <1>1, PcIs
<1>3. e.kind = "command" => /\ e.cmd \in Tokens /\ e.state \in {"completed", "unknown"}
                            /\ p.cmds[e.cmd] = e.state
  BY <1>1 DEF PcOk
<1>4. e.kind = "command" => e.cmd # 0 /\ e.cmd \in Nat
  BY <1>2, <1>3, GuardianClientAssumption DEF Tokens, Events
<1> QED BY <1>1, <1>2, <1>3, <1>4

\* An alert that the PC sent is stored, and only one that was read, or that is
\* no emergency, makes room for it.
LEMMA UpsertedIs ==
  ASSUME NEW r \in RamT, NEW p, NEW h, PcOk(p, h), h \in HistT, NEW e, Sent(e, p),
         ListOk(r.alerts, r.seen, r.cursor, p, h), NEW new \in Upserted(r, e)
  PROVE  /\ new \in SUBSET Alerts /\ e.seq \in Stored(new)
         /\ ListOk(new, r.seen, r.cursor, p, h)
<1> DEFINE old == r.alerts
           a == [seq |-> e.seq, urgent |-> e.urgent, seen |-> e.seq \in r.seen]
<1>1. e \in Events /\ e.seq \in 1 .. Len(p.log) /\ e = p.log[e.seq]
  BY SentIs
<1>2. old \in SUBSET Alerts /\ r.seen \subseteq h.read
  BY DEF RamT, ListOk
<1>3. a \in Alerts /\ a.seq = e.seq /\ a.urgent = e.urgent /\ (a.seen => a.seq \in h.read)
  <2>1. e.seq \in Nat /\ e.urgent \in BOOLEAN
    BY <1>1 DEF Events
  <2>0. (e.seq \in r.seen) \in BOOLEAN
    OBVIOUS
  <2>2. a \in Alerts
    BY <2>0, <2>1, Zenon DEF Alerts
  <2>3. a.seen => e.seq \in r.seen
    BY Zenon
  <2> QED BY <1>2, <2>2, <2>3
<1>4. CASE new = old /\ e.seq \in Stored(old)
  BY <1>2, <1>4
<1>5. CASE \E gone \in SUBSET Evictable(old) : new = (old \ gone) \cup {a}
  <2>1. PICK gone \in SUBSET Evictable(old) : new = (old \ gone) \cup {a}
    BY <1>5
  <2> HIDE DEF a
  <2>2. new \in SUBSET Alerts /\ e.seq \in Stored(new)
    BY <1>2, <1>3, <2>1 DEF Stored
  <2>3. ASSUME NEW b \in new
        PROVE  b.seq \in 1 .. Len(p.log) /\ b.urgent = p.log[b.seq].urgent /\ (b.seen => b.seq \in h.read)
    BY <1>1, <1>3, <2>1 DEF ListOk
  <2>4. ASSUME NEW k \in 1 .. r.cursor, p.log[k].kind = "alert", p.log[k].urgent
        PROVE  k \in Stored(new) \cup h.read
    <3>1. k \in Stored(old) \cup h.read
      BY <2>4 DEF ListOk
    <3>2. CASE k \in Stored(old)
      <4>1. PICK b \in old : b.seq = k
        BY <3>2 DEF Stored
      <4>2. b \in gone => b.seen
        BY <2>1, <2>4, <4>1 DEF Evictable, ListOk
      <4>3. b.seen => k \in h.read
        BY <4>1 DEF ListOk
      <4>4. b \notin gone => k \in Stored(new)
        BY <2>1, <4>1 DEF Stored
      <4> QED BY <4>2, <4>3, <4>4
    <3> QED BY <3>1, <3>2
  <2> QED BY <1>2, <2>2, <2>3, <2>4 DEF ListOk
<1>6. CASE e.seq \notin Stored(old) /\ Cardinality(old) < AlertsMax
  <2>1. new = (old \ {}) \cup {a}
    BY <1>6 DEF Upserted
  <2> QED BY <1>5, <2>1
<1>7. CASE e.seq \notin Stored(old) /\ ~(Cardinality(old) < AlertsMax)
  <2>1. PICK victim \in Evictable(old) : new = (old \ {victim}) \cup {a}
    BY <1>7 DEF Upserted
  <2>2. {victim} \in SUBSET Evictable(old)
    OBVIOUS
  <2> QED BY <1>5, <2>1, <2>2
<1>8. e.seq \in Stored(old) => new = old
  BY DEF Upserted
<1> QED BY <1>4, <1>6, <1>7, <1>8

\* Another list of alerts is as sound as the list is.
LEMMA Restocked ==
  ASSUME NEW x, NEW y, NEW p, NEW h, Sound(x, p, h),
         y.intent = x.intent, y.stream = x.stream, y.cursor = x.cursor, y.early = x.early,
         y.command = x.command, ListOk(y.alerts, y.seen, y.cursor, p, h)
  PROVE  Sound(y, p, h)
BY DEF Sound, OwnerOk, OutcomeOk, EarlyOk, CursorOk, KeptOk

\* The fields of a member of Applied(r, e).
AppliedFields(r, e, y) ==
  /\ y \in RamT
  /\ y.stream = TRUE /\ y.cursor = e.seq
  /\ y.alerts \in (IF e.kind = "alert" THEN Upserted(r, e) ELSE {r.alerts}) /\ y.seen = r.seen
  /\ y.intent.token = r.intent.token /\ y.intent.cmd = r.intent.cmd
  /\ OwnEvent(r, e) => /\ y.command.id = e.cmd /\ y.command.state = e.state
                       /\ y.intent.unresolved <=> e.state # "completed"
  /\ ~OwnEvent(r, e) => y.command = r.command /\ y.intent.unresolved = r.intent.unresolved
  /\ y.early =
       IF Uncorrelated(r, e) /\ {c \in KnownEarly(r, e.cmd) : Resolves(c.state)} = {}
       THEN (r.early \ KnownEarly(r, e.cmd)) \cup {[id |-> e.cmd, state |-> e.state]}
       ELSE r.early
  /\ y.held = r.held /\ y.op = r.op /\ y.sendIntent = r.sendIntent

\* The fields that an event changes, by the kind of event.
LEMMA AppliedIs ==
  ASSUME NEW r \in RamT, NEW e \in Events, NEW y \in Applied(r, e),
         Upserted(r, e) \subseteq SUBSET Alerts
  PROVE  AppliedFields(r, e, y)
<1> DEFINE lists == IF e.kind = "alert" THEN Upserted(r, e) ELSE {r.alerts}
           cmd == IF OwnEvent(r, e) THEN [id |-> e.cmd, state |-> e.state] ELSE r.command
           un == IF OwnEvent(r, e) THEN ~Resolves(e.state) ELSE r.intent.unresolved
           int == [r.intent EXCEPT !.unresolved = un]
           ea == IF Uncorrelated(r, e) /\ {c \in KnownEarly(r, e.cmd) : Resolves(c.state)} = {}
                 THEN (r.early \ KnownEarly(r, e.cmd)) \cup {[id |-> e.cmd, state |-> e.state]}
                 ELSE r.early
<1>1. [id |-> e.cmd, state |-> e.state] \in Commands /\ e.seq \in Nat
  BY DEF Commands, Events
<1>2. r.intent \in Intents /\ r.early \subseteq Commands /\ r.alerts \subseteq Alerts /\ r.command \in Commands
  BY DEF RamT
<1>3. un \in BOOLEAN
  BY <1>2 DEF Resolves, Intents
<1>4. int \in Intents /\ int.token = r.intent.token /\ int.cmd = r.intent.cmd /\ int.unresolved = un
  BY <1>2, <1>3 DEF Intents
<1>5. cmd \in Commands /\ ea \in SUBSET Commands
  BY <1>1, <1>2
<1>6. PICK al \in lists :
      y = [r EXCEPT !.stream = TRUE, !.cursor = e.seq, !.alerts = al, !.command = cmd,
                    !.intent = int, !.early = ea]
  <2>1. PICK al \in lists :
        y = [r EXCEPT !.stream = TRUE, !.cursor = e.seq, !.alerts = al, !.command = cmd,
                      !.intent.unresolved = un, !.early = ea]
    BY Zenon DEF Applied
  <2> HIDE DEF lists, cmd, ea, un
  <2> QED BY <2>1, <1>2 DEF RamT
<1>10. al \in SUBSET Alerts
  BY <1>2
<1> HIDE DEF lists, cmd, int, ea, un
<1>7. /\ y \in RamT
      /\ y.stream = TRUE /\ y.cursor = e.seq /\ y.alerts = al /\ y.command = cmd
      /\ y.intent = int /\ y.early = ea
      /\ y.held = r.held /\ y.op = r.op /\ y.sendIntent = r.sendIntent /\ y.seen = r.seen
  <2>1. y \in RamT
    BY <1>1, <1>4, <1>5, <1>6, <1>10 DEF RamT
  <2> QED BY <1>6, <2>1 DEF RamT
<1>8. OwnEvent(r, e) => cmd.id = e.cmd /\ cmd.state = e.state /\ (un <=> e.state # "completed")
  BY DEF cmd, un, Resolves
<1>9. ~OwnEvent(r, e) => cmd = r.command /\ un = r.intent.unresolved
  BY DEF cmd, un
<1> QED BY <1>4, <1>6, <1>7, <1>8, <1>9 DEF lists, ea, AppliedFields

\* An event that is next in order.
LEMMA AppliedSound ==
  ASSUME NEW r \in RamT, NEW p, NEW h, PcOk(p, h), h \in HistT, Sound(r, p, h),
         NEW e, Sent(e, p), e.seq = r.cursor + 1, NEW y \in Applied(r, e)
  PROVE  /\ y \in RamT /\ Sound(y, p, h)
         /\ y.stream /\ r.cursor <= y.cursor /\ y.intent.token = r.intent.token
         /\ RamOk(r, p, h) => RamOk(y, p, h)
<1>1. /\ e \in Events /\ e.seq \in 1 .. Len(p.log) /\ e = p.log[e.seq]
      /\ e.kind = "command" => /\ e.cmd \in Tokens /\ e.state \in {"completed", "unknown"}
                               /\ p.cmds[e.cmd] = e.state /\ e.cmd # 0 /\ e.cmd \in Nat
  BY SentIs
<1>0. \A new \in Upserted(r, e) : /\ new \in SUBSET Alerts /\ e.seq \in Stored(new)
                                  /\ ListOk(new, r.seen, r.cursor, p, h)
  BY UpsertedIs DEF Sound, CursorOk
<1>2. AppliedFields(r, e, y)
  BY <1>0, <1>1, AppliedIs
<1> USE <1>2 DEF AppliedFields
<1>3. /\ OwnerOk(r, p, h) /\ OutcomeOk(r, p) /\ EarlyOk(r, p) /\ CursorOk(r, p, h) /\ KeptOk(r, p, h)
      /\ r.cursor \in Nat /\ r.early \subseteq Commands /\ r.intent \in Intents
  BY DEF Sound, RamT
<1>4. Len(p.log) \in Nat
  BY PcIs
<1>5. OwnEvent(r, e) => /\ e.kind = "command" /\ e.cmd = r.intent.cmd /\ e.cmd = r.intent.token
                        /\ e.cmd # 0
  BY <1>1, <1>3 DEF OwnEvent, OwnerOk
<1>6. OwnerOk(y, p, h)
  BY <1>3, <1>5 DEF OwnerOk
<1>7. OutcomeOk(y, p)
  <2>1. CASE OwnEvent(r, e)
    <3>1. y.command.id = e.cmd /\ y.command.state = e.state /\ (~y.intent.unresolved => e.state = "completed")
      BY <2>1
    <3> QED BY <1>1, <1>5, <2>1, <3>1 DEF OutcomeOk
  <2>2. CASE ~OwnEvent(r, e)
    BY <1>3, <2>2 DEF OutcomeOk
  <2> QED BY <2>1, <2>2
<1>8. EarlyOk(y, p)
  <2> SUFFICES ASSUME NEW c \in y.early
               PROVE  c.id \in Tokens /\ c.state \in {"completed", "unknown"} /\ p.cmds[c.id] = c.state
    BY DEF EarlyOk
  <2>1. c \in r.early \/ (e.kind = "command" /\ c = [id |-> e.cmd, state |-> e.state])
    BY DEF Uncorrelated
  <2> QED BY <1>1, <1>3, <2>1 DEF EarlyOk
<1>9. CursorOk(y, p, h)
  <2>0. ListOk(y.alerts, y.seen, r.cursor, p, h) /\ (e.kind = "alert" => e.seq \in Stored(y.alerts))
    BY <1>0, <1>3 DEF CursorOk
  <2>1. ASSUME NEW k \in 1 .. y.cursor, p.log[k].kind = "alert", p.log[k].urgent
        PROVE  k \in Stored(y.alerts) \cup h.read
    <3>1. k \in 1 .. r.cursor \/ k = e.seq
      BY <1>3, <2>1
    <3> QED BY <1>1, <2>0, <2>1, <3>1 DEF ListOk
  <2>2. ListOk(y.alerts, y.seen, y.cursor, p, h)
    BY <2>0, <2>1 DEF ListOk
  <2> QED BY <1>1, <1>4, <2>2 DEF CursorOk
<1>10. KeptOk(y, p, h)
  <2> SUFFICES ASSUME NEW k \in 1 .. y.cursor, p.log[k].kind = "command", p.log[k].state = "completed",
                      y.intent.token = p.log[k].cmd, y.intent.token \notin h.closed
               PROVE  ~y.intent.unresolved \/ Completion(p.log[k].cmd) \in y.early
    BY DEF KeptOk
  <2> DEFINE token == p.log[k].cmd
  <2>1. k \in 1 .. Len(p.log) /\ (k \in 1 .. r.cursor \/ k = e.seq)
    BY <1>1, <1>3, <1>4
  <2>2. token \in Tokens /\ p.cmds[token] = "completed" /\ token # 0 /\ r.intent.token = token
    <3>1. token \in Tokens /\ p.cmds[token] = "completed"
      BY <2>1 DEF PcOk
    <3>2. 0 \notin Tokens
      BY GuardianClientAssumption DEF Tokens
    <3> QED BY <3>1, <3>2
  <2>3. OwnEvent(r, e) => ~y.intent.unresolved
    BY <1>1, <1>5, <2>2
  <2>4. CASE k \in 1 .. r.cursor
    <3>1. ~r.intent.unresolved \/ Completion(token) \in r.early
      BY <1>3, <2>4 DEF KeptOk
    <3>2. ASSUME Completion(token) \in r.early, y.early # r.early
          PROVE  Completion(token) \in y.early
      <4>1. Completion(token) \notin KnownEarly(r, e.cmd)
        BY <3>2 DEF KnownEarly, Resolves, Completion
      <4> QED BY <3>2, <4>1
    <3> QED BY <2>3, <3>1, <3>2
  <2>5. CASE k = e.seq
    <3>1. e.kind = "command" /\ e.state = "completed" /\ e.cmd = token
      BY <1>1, <2>5
    <3>2. OwnEvent(r, e) \/ ~r.intent.unresolved \/ Uncorrelated(r, e)
      BY <1>3, <2>2, <3>1 DEF OwnEvent, Uncorrelated, OwnerOk
    <3>3. ASSUME Uncorrelated(r, e)
          PROVE  Completion(token) \in y.early
      <4>1. CASE {c \in KnownEarly(r, e.cmd) : Resolves(c.state)} = {}
        BY <3>1, <3>3, <4>1 DEF Completion
      <4>2. CASE {c \in KnownEarly(r, e.cmd) : Resolves(c.state)} # {}
        <5>1. PICK c \in r.early : c.id = e.cmd /\ c.state = "completed"
          BY <4>2 DEF KnownEarly, Resolves
        <5>2. c = Completion(token)
          BY <1>3, <3>1, <5>1 DEF Commands, Completion
        <5> QED BY <4>2, <5>1, <5>2
      <4> QED BY <4>1, <4>2
    <3> QED BY <2>3, <3>2, <3>3
  <2> QED BY <2>1, <2>4, <2>5
<1>11. Sound(y, p, h)
  BY <1>6, <1>7, <1>8, <1>9, <1>10 DEF Sound
<1>12. ASSUME RamOk(r, p, h) PROVE RamOk(y, p, h)
  <2>1. CASE OwnEvent(r, e)
    <3>1. y.command.id = e.cmd /\ y.command.state = e.state /\ (~y.intent.unresolved => e.state = "completed")
      BY <2>1
    <3> QED BY <1>5, <1>11, <1>12, <2>1, <3>1 DEF RamOk
  <2>2. CASE ~OwnEvent(r, e)
    BY <1>11, <1>12, <2>2 DEF RamOk
  <2> QED BY <2>1, <2>2
<1>13. r.cursor <= y.cursor
  BY <1>3
<1> QED BY <1>2, <1>11, <1>12, <1>13

\* The command as the reply, or an early event before it, tells of it.
Told(r, reply) ==
  LET known == KnownEarly(r, reply.id)
  IN Newer(IF known = {} THEN r.command ELSE CHOOSE c \in known : TRUE, reply)

\* A reply to control.execute or command.get, as the PC may send it.
Answer(reply, r, p) ==
  /\ reply \in [ok : {TRUE}, id : {r.intent.token}, state : CmdStates]
  /\ p.cmds[reply.id] # "none" /\ reply.state \in {"pending", p.cmds[reply.id]}

\* A reply, against what the journal and the command already know.
LEMMA ToldIs ==
  ASSUME NEW r \in RamT, NEW p, NEW h, PcOk(p, h), h \in HistT, RamOk(r, p, h),
         r.op \in {"execute", "get"}, NEW reply, Answer(reply, r, p), NEW c, c = Told(r, reply)
  PROVE  /\ c \in Commands /\ c.id = r.intent.token /\ r.intent.token \in Tokens /\ r.intent.token # 0
         /\ c.state = "completed" => p.cmds[r.intent.token] = "completed"
         /\ p.cmds[r.intent.token] = "completed"
              /\ (Completion(r.intent.token) \in r.early \/ ~r.intent.unresolved)
            => c.state = "completed"
<1> DEFINE token == r.intent.token
           known == KnownEarly(r, token)
           old == IF known = {} THEN r.command ELSE CHOOSE e \in known : TRUE
<1>1. /\ token \in Nat /\ token # 0 /\ token <= h.token /\ r.command \in Commands
      /\ r.early \subseteq Commands
      /\ OutcomeOk(r, p) /\ EarlyOk(r, p)
      /\ ~r.intent.unresolved => r.command.id = token /\ r.command.state = "completed"
  BY DEF RamOk, Sound, OwnerOk, RamT, Intents
<1>2. token \in Tokens
  BY <1>1, PcIs, GuardianClientAssumption DEF Tokens
<1>3. reply.id = token /\ reply.state \in CmdStates /\ reply.state \in {"pending", p.cmds[token]}
  BY DEF Answer
<1>4. ASSUME known # {}
      PROVE  old \in Commands /\ old.id = token /\ old.state = p.cmds[token]
  <2>1. old \in known
    BY <1>4
  <2> QED BY <1>1, <2>1 DEF KnownEarly, EarlyOk
<1>5. known = {} => old = r.command
  OBVIOUS
<1>6. c = IF old.id = token /\ old.state = "completed" /\ reply.state = "pending"
          THEN old ELSE [id |-> token, state |-> reply.state]
  BY <1>3 DEF Told, Newer, Resolves
<1>7. Completion(token) \in r.early => known # {}
  BY DEF KnownEarly, Completion
<1> HIDE DEF old, known
<1>8. old \in Commands
  BY <1>1, <1>4, <1>5
<1>9. c \in Commands /\ c.id = token
  BY <1>1, <1>3, <1>6, <1>8 DEF Commands
<1>10. ASSUME c.state = "completed" PROVE p.cmds[token] = "completed"
  <2>1. CASE old.id = token /\ old.state = "completed" /\ reply.state = "pending"
    BY <1>1, <1>4, <1>5, <2>1 DEF OutcomeOk
  <2>2. CASE ~(old.id = token /\ old.state = "completed" /\ reply.state = "pending")
    BY <1>3, <1>6, <1>10, <2>2
  <2> QED BY <2>1, <2>2
<1>11. ASSUME p.cmds[token] = "completed", Completion(token) \in r.early \/ ~r.intent.unresolved
       PROVE  c.state = "completed"
  <2>1. old.id = token /\ old.state = "completed"
    BY <1>1, <1>4, <1>5, <1>7, <1>11
  <2> QED BY <1>3, <1>6, <1>11, <2>1
<1> QED BY <1>1, <1>2, <1>9, <1>10, <1>11

\* Taking the id and the outcome from a reply keeps memory sound.
LEMMA NamedSound ==
  ASSUME NEW r \in RamT, NEW p, NEW h, PcOk(p, h), h \in HistT, RamOk(r, p, h),
         r.op \in {"execute", "get"}, NEW reply, Answer(reply, r, p), NEW y, y = Named(r, reply)
  PROVE  /\ y \in RamT /\ Sound(y, p, h)
         /\ y.stream = r.stream /\ y.cursor = r.cursor /\ y.intent.token = r.intent.token
         /\ y.held = r.held /\ y.op = r.op /\ y.sendIntent = r.sendIntent
<1> DEFINE token == r.intent.token
           c == Told(r, reply)
           un == ~Resolves(c.state)
           int == [r.intent EXCEPT !.cmd = token, !.unresolved = un]
<1>1. /\ c \in Commands /\ c.id = token /\ token \in Tokens /\ token # 0
      /\ c.state = "completed" => p.cmds[token] = "completed"
      /\ p.cmds[token] = "completed" /\ (Completion(token) \in r.early \/ ~r.intent.unresolved)
         => c.state = "completed"
  BY ToldIs
<1>2. r.intent \in Intents /\ un \in BOOLEAN /\ token \in Nat /\ reply.id = token
      /\ p.cmds[token] # "none"
  BY DEF RamT, Intents, Resolves, Answer
<1>3. int \in Intents /\ int.token = token /\ int.cmd = token /\ int.unresolved = un
  BY <1>2 DEF Intents
<1>4. y = [r EXCEPT !.intent = int, !.command = c, !.early = {}, !.asked = TRUE]
  BY <1>2 DEF Named, Told
<1>5. un <=> c.state # "completed"
  BY DEF Resolves
<1> HIDE DEF c, un, int
<1>6. /\ y \in RamT /\ y.intent = int /\ y.command = c /\ y.early = {}
      /\ y.stream = r.stream /\ y.cursor = r.cursor /\ y.alerts = r.alerts /\ y.seen = r.seen
      /\ y.held = r.held /\ y.op = r.op /\ y.sendIntent = r.sendIntent
  <2>1. y \in RamT
    BY <1>1, <1>3, <1>4 DEF RamT
  <2> QED BY <1>4, <2>1 DEF RamT
<1>7. /\ token <= h.token
      /\ OutcomeOk(r, p) /\ EarlyOk(r, p) /\ CursorOk(r, p, h) /\ KeptOk(r, p, h)
  BY DEF RamOk, Sound, OwnerOk
<1>8. OwnerOk(y, p, h) /\ OutcomeOk(y, p) /\ EarlyOk(y, p)
  BY <1>1, <1>2, <1>3, <1>5, <1>6, <1>7 DEF OwnerOk, OutcomeOk, EarlyOk
<1>9. CursorOk(y, p, h)
  BY <1>6, <1>7 DEF CursorOk
<1>10. KeptOk(y, p, h)
  <2> SUFFICES ASSUME NEW k \in 1 .. y.cursor, p.log[k].kind = "command", p.log[k].state = "completed",
                      y.intent.token = p.log[k].cmd, y.intent.token \notin h.closed
               PROVE  ~y.intent.unresolved
    BY DEF KeptOk
  <2>1. y.cursor \in Nat /\ y.cursor <= Len(p.log) /\ Len(p.log) \in Nat
    BY <1>6, <1>9, PcIs DEF CursorOk, RamT
  <2>2. k \in 1 .. Len(p.log) /\ k \in 1 .. r.cursor
    BY <1>6, <2>1
  <2>3. p.cmds[token] = "completed" /\ token = p.log[k].cmd
    BY <1>3, <1>6, <2>2 DEF PcOk
  <2>4. Completion(token) \in r.early \/ ~r.intent.unresolved
    BY <1>3, <1>6, <1>7, <2>2, <2>3 DEF KeptOk
  <2> QED BY <1>1, <1>3, <1>5, <1>6, <2>3, <2>4
<1> QED BY <1>3, <1>6, <1>8, <1>9, <1>10 DEF Sound

-----------------------------------------------------------------------------
(* The device from one step to the next.                                    *)

\* The intent is the same, nothing stored is lost, and no send is decided.
Keeps(d, e) ==
  /\ e.ram.intent.token = d.ram.intent.token
  /\ d.ram.cursor <= e.ram.cursor /\ (d.ram.stream => e.ram.stream)
  /\ e.ram.sendIntent => d.ram.sendIntent
  /\ \A b \in Slots(e) : b \in Slots(d) \/ b.intent.token = d.ram.intent.token

\* Keeps is transitive.
LEMMA KeepsOn ==
  ASSUME NEW d \in DevT, NEW e \in DevT, NEW f \in DevT, Keeps(d, e), Keeps(e, f)
  PROVE  Keeps(d, f)
<1>1. d.ram.cursor \in Nat /\ e.ram.cursor \in Nat /\ f.ram.cursor \in Nat
  BY DEF DevT, RamT
<1> QED BY <1>1 DEF Keeps

\* Flags may change, marks may be told of and the command may lose its state.
Alongside(r, y) ==
  /\ y.intent = r.intent /\ y.stream = r.stream /\ y.cursor = r.cursor
  /\ y.alerts = r.alerts /\ y.seen \subseteq r.seen /\ y.early = r.early
  /\ y.command.id = r.command.id
  /\ y.command.state = "completed" => r.command.state = "completed"

\* Flags that soundness does not read may change.
LEMMA RamAlike ==
  ASSUME NEW r, NEW y, NEW p, NEW h, RamOk(r, p, h), Alongside(r, y),
         AllSent(y.held, p),
         y.op \in {"execute", "get"} => y.op = r.op /\ (y.intent.unresolved \/ y.command = r.command),
         y.sendIntent => r.sendIntent /\ y.op = r.op
  PROVE  RamOk(y, p, h)
<1>1. Sound(r, p, h)
  BY DEF RamOk
<1>2. Sound(y, p, h)
  BY <1>1, Alike DEF Alongside
<1> QED BY <1>2 DEF RamOk, Alongside

\* Replacing memory at the same cursor leaves the slots as they are.
LEMMA Reram ==
  ASSUME NEW d \in DevT, NEW r \in RamT, NEW p, NEW h, SlotsOk(d, p, h), RamOk(r, p, h),
         r.cursor = d.ram.cursor, NEW e, e = [d EXCEPT !.ram = r]
  PROVE  DevOk(e, p, h) /\ e \in DevT /\ e.ram = r /\ Slots(e) = Slots(d)
<1>1. e \in DevT /\ e.ram = r /\ e.base = d.base /\ e.ahead = d.ahead
  BY DEF DevT
<1>2. Slots(e) = Slots(d)
  BY <1>1 DEF Slots
<1> QED BY <1>1, <1>2 DEF DevOk, SlotsOk

\* A commit of what is sound leaves sound slots, with or without success.
LEMMA CommitSound ==
  ASSUME NEW d \in DevT, NEW new \in RamT, NEW old \in RamT, NEW p, NEW h,
         SlotsOk(d, p, h), Sound(new, p, h), d.ram.cursor <= new.cursor, old.cursor = d.ram.cursor,
         NEW s \in Commit(d, new, old)
  PROVE  /\ s \in Outcomes /\ SlotsOk(s.dev, p, h)
         /\ s.ok => s.dev.ram = [new EXCEPT !.failed = FALSE]
         /\ ~s.ok => s.dev.ram = [old EXCEPT !.failed = TRUE]
         /\ \A b \in Slots(s.dev) : b = Body(new) \/ (b \in Slots(d) /\ ~s.ok)
<1>1. /\ s \in Outcomes
      /\ s.ok => s.dev.ram = [new EXCEPT !.failed = FALSE] /\ Slots(s.dev) = {Body(new)}
      /\ ~s.ok => /\ s.dev.ram = [old EXCEPT !.failed = TRUE]
                  /\ Slots(s.dev) \subseteq Slots(d) \cup {Body(new)}
  BY CommitIs
<1>2. Sound(Body(new), p, h) /\ Body(new).cursor = new.cursor
  BY BodySound, BodyIs
<1>3. s.ok => s.dev.ram.cursor = new.cursor
  BY <1>1 DEF RamT
<1>4. ~s.ok => s.dev.ram.cursor = d.ram.cursor
  BY <1>1 DEF RamT
<1>5. new.cursor \in Nat /\ d.ram.cursor \in Nat
  BY DEF DevT, RamT
<1>6. SlotsOk(s.dev, p, h)
  <2> SUFFICES ASSUME NEW b \in Slots(s.dev)
               PROVE  Sound(b, p, h) /\ s.dev.ram.cursor <= b.cursor
    BY DEF SlotsOk
  <2>1. CASE s.ok
    BY <1>1, <1>2, <1>3, <1>5, <2>1
  <2>2. CASE ~s.ok
    BY <1>1, <1>2, <1>4, <1>5, <2>2 DEF SlotsOk
  <2> QED BY <2>1, <2>2
<1> QED BY <1>1, <1>6

\* The same about the memory, when the intent stays.
LEMMA CommitKeeps ==
  ASSUME NEW d \in DevT, NEW new \in RamT, NEW p, NEW h, DevOk(d, p, h),
         RamOk(new, p, h), d.ram.cursor <= new.cursor, new.intent.token = d.ram.intent.token,
         d.ram.stream => new.stream, new.op = d.ram.op, new.held = d.ram.held,
         new.sendIntent = d.ram.sendIntent,
         NEW s \in Commit(d, new, d.ram)
  PROVE  /\ s \in Outcomes /\ s.dev \in DevT /\ DevOk(s.dev, p, h) /\ Keeps(d, s.dev)
         /\ s.dev.ram.op = d.ram.op /\ s.dev.ram.held = d.ram.held
<1>0. d.ram \in RamT /\ RamOk(d.ram, p, h) /\ SlotsOk(d, p, h) /\ Sound(new, p, h)
  BY DEF DevOk, DevT, RamOk
<1>1. /\ s \in Outcomes /\ SlotsOk(s.dev, p, h)
      /\ s.ok => s.dev.ram = [new EXCEPT !.failed = FALSE]
      /\ ~s.ok => s.dev.ram = [d.ram EXCEPT !.failed = TRUE]
      /\ \A b \in Slots(s.dev) : b = Body(new) \/ (b \in Slots(d) /\ ~s.ok)
  BY <1>0, CommitSound
<1>2. s.dev \in DevT /\ s.ok \in BOOLEAN
  BY <1>1 DEF Outcomes
<1>3. PICK x \in {new, d.ram} :
        /\ s.dev.ram.intent = x.intent /\ s.dev.ram.command = x.command
        /\ s.dev.ram.stream = x.stream /\ s.dev.ram.cursor = x.cursor
        /\ s.dev.ram.alerts = x.alerts /\ s.dev.ram.seen = x.seen
        /\ s.dev.ram.early = x.early /\ s.dev.ram.held = x.held /\ s.dev.ram.op = x.op
        /\ s.dev.ram.sendIntent = x.sendIntent
  <2>1. CASE s.ok
    BY <1>1, <2>1 DEF RamT
  <2>2. CASE ~s.ok
    BY <1>0, <1>1, <2>2 DEF RamT
  <2> QED BY <2>1, <2>2
<1>4. RamOk(x, p, h)
  BY <1>0
<1>5. RamOk(s.dev.ram, p, h)
  BY <1>3, <1>4, RamAlike DEF Alongside, RamOk
<1>6. Body(new).intent.token = d.ram.intent.token
  BY BodyIs
<1>7. Keeps(d, s.dev)
  <2>1. d.ram.cursor \in Nat
    BY <1>0 DEF RamT
  <2> QED BY <1>1, <1>3, <1>6, <2>1 DEF Keeps
<1> QED BY <1>1, <1>2, <1>3, <1>5, <1>7 DEF DevOk

\* Saving what is in memory, whether it succeeds or fails.
LEMMA SaveKeeps ==
  ASSUME NEW d \in DevT, NEW p, NEW h, DevOk(d, p, h), NEW s \in Saves(d)
  PROVE  /\ s \in Outcomes /\ s.dev \in DevT /\ DevOk(s.dev, p, h) /\ Keeps(d, s.dev)
         /\ \E f \in BOOLEAN : s.dev.ram = [d.ram EXCEPT !.failed = f]
         /\ s.ok => Slots(s.dev) = {Body(d.ram)}
<1>0. d.ram \in RamT /\ RamOk(d.ram, p, h) /\ SlotsOk(d, p, h) /\ Sound(d.ram, p, h)
  BY DEF DevOk, DevT, RamOk
<1>1. /\ s \in Outcomes
      /\ s.ok => s.dev.ram = [d.ram EXCEPT !.failed = FALSE] /\ Slots(s.dev) = {Body(d.ram)}
      /\ ~s.ok => /\ s.dev.ram = [d.ram EXCEPT !.failed = TRUE]
                  /\ Slots(s.dev) \subseteq Slots(d) \cup {Body(d.ram)}
  BY SaveIs
<1>2. s.dev \in DevT /\ s.ok \in BOOLEAN
  BY <1>1 DEF Outcomes
<1>3. PICK f \in BOOLEAN : s.dev.ram = [d.ram EXCEPT !.failed = f]
  BY <1>1, <1>2
<1>4. /\ s.dev.ram.intent = d.ram.intent /\ s.dev.ram.command = d.ram.command
      /\ s.dev.ram.stream = d.ram.stream /\ s.dev.ram.cursor = d.ram.cursor
      /\ s.dev.ram.alerts = d.ram.alerts /\ s.dev.ram.seen = d.ram.seen /\ s.dev.ram.early = d.ram.early
      /\ s.dev.ram.held = d.ram.held /\ s.dev.ram.op = d.ram.op
      /\ s.dev.ram.sendIntent = d.ram.sendIntent /\ d.ram.cursor \in Nat
  BY <1>0, <1>3 DEF RamT
<1>5. RamOk(s.dev.ram, p, h)
  BY <1>0, <1>4, RamAlike DEF Alongside, RamOk
<1>6. /\ Body(d.ram).intent = d.ram.intent /\ Body(d.ram).cursor = d.ram.cursor
      /\ Sound(Body(d.ram), p, h)
  BY <1>0, BodyIs, BodySound
<1>7. \A b \in Slots(s.dev) : b \in Slots(d) \/ b = Body(d.ram)
  BY <1>1
<1>8. SlotsOk(s.dev, p, h)
  BY <1>0, <1>4, <1>6, <1>7 DEF SlotsOk
<1>9. Keeps(d, s.dev)
  BY <1>4, <1>6, <1>7 DEF Keeps
<1> QED BY <1>1, <1>2, <1>3, <1>5, <1>8, <1>9 DEF DevOk

\* A change of flags alone.
LEMMA FlagsKeep ==
  ASSUME NEW d \in DevT, NEW p, NEW h, DevOk(d, p, h), NEW r \in RamT, NEW e, e = [d EXCEPT !.ram = r],
         r.intent = d.ram.intent, r.command = d.ram.command, r.stream = d.ram.stream,
         r.cursor = d.ram.cursor, r.alerts = d.ram.alerts, r.seen = d.ram.seen, r.early = d.ram.early,
         AllSent(r.held, p),
         r.op \in {d.ram.op, "none"}, r.sendIntent => d.ram.sendIntent
  PROVE  e \in DevT /\ DevOk(e, p, h) /\ Keeps(d, e) /\ e.ram = r
<1>0. RamOk(d.ram, p, h) /\ SlotsOk(d, p, h) /\ d.ram \in RamT /\ d.ram.cursor \in Nat
  BY DEF DevOk, DevT, RamT
<1>1. r.sendIntent => r.op = d.ram.op
  BY <1>0 DEF RamOk
<1>2. RamOk(r, p, h)
  BY <1>0, <1>1, RamAlike DEF Alongside
<1>3. DevOk(e, p, h) /\ e \in DevT /\ e.ram = r /\ Slots(e) = Slots(d)
  BY <1>0, <1>2, Reram
<1> QED BY <1>0, <1>3 DEF Keeps

\* A response or an event leaves the device as it must be, and the rest of it alone.
Handled(d, e, p, h) ==
  /\ e \in DevT /\ DevOk(e, p, h) /\ Keeps(d, e)
  /\ e.ram.op = d.ram.op /\ e.ram.held = d.ram.held

\* Handled looks at neither the flags nor the poll timers.
LEMMA FlagsHandled ==
  ASSUME NEW d \in DevT, NEW e \in DevT, NEW p, NEW h, Handled(d, e, p, h), NEW r \in RamT,
         NEW f, f = [e EXCEPT !.ram = r],
         r.intent = e.ram.intent, r.command = e.ram.command, r.stream = e.ram.stream,
         r.cursor = e.ram.cursor, r.alerts = e.ram.alerts, r.seen = e.ram.seen, r.early = e.ram.early,
         r.held = e.ram.held, r.op = e.ram.op, r.sendIntent = e.ram.sendIntent
  PROVE  Handled(d, f, p, h)
<1>1. DevOk(e, p, h) /\ AllSent(r.held, p)
  BY DEF Handled, DevOk, RamOk
<1>2. f \in DevT /\ DevOk(f, p, h) /\ Keeps(e, f) /\ f.ram = r
  BY <1>1, FlagsKeep
<1>3. Keeps(d, f)
  BY <1>2, KeepsOn DEF Handled
<1> QED BY <1>2, <1>3 DEF Handled

LEMMA HandledSame ==
  ASSUME NEW d \in DevT, NEW p, NEW h, DevOk(d, p, h)
  PROVE  Handled(d, d, p, h)
<1>1. d.ram.cursor \in Nat
  BY DEF DevT, RamT
<1> QED BY <1>1 DEF Handled, Keeps

Flagged(d, e) ==
  \/ e = [d EXCEPT !.ram.recover = TRUE]
  \/ e = [d EXCEPT !.ram.ack = TRUE]
  \/ e = [d EXCEPT !.ram.recover = TRUE, !.ram.full = TRUE]

\* The same for the one flag that a step sets.
LEMMA FlagSet ==
  ASSUME NEW d \in DevT, NEW e \in DevT, NEW p, NEW h, Handled(d, e, p, h), NEW f,
         Flagged(e, f)
  PROVE  Handled(d, f, p, h) /\ f \in DevT
<1> DEFINE r == e.ram
           y == f.ram
<1>1. r \in RamT
  BY DEF DevT
<1>2. /\ [r EXCEPT !.recover = TRUE] \in RamT /\ [r EXCEPT !.ack = TRUE] \in RamT
      /\ [r EXCEPT !.recover = TRUE, !.full = TRUE] \in RamT
  BY <1>1 DEF RamT
<1>3. /\ y \in {[r EXCEPT !.recover = TRUE], [r EXCEPT !.ack = TRUE],
                [r EXCEPT !.recover = TRUE, !.full = TRUE]}
      /\ f = [e EXCEPT !.ram = y]
  BY <1>2 DEF DevT, Flagged
<1> HIDE DEF y
<1>4. y \in RamT
  BY <1>2, <1>3
<1>5. /\ y.intent = r.intent /\ y.command = r.command /\ y.stream = r.stream
      /\ y.cursor = r.cursor /\ y.alerts = r.alerts /\ y.seen = r.seen /\ y.early = r.early
      /\ y.held = r.held /\ y.op = r.op /\ y.sendIntent = r.sendIntent
  BY <1>1, <1>3 DEF RamT
<1>6. Handled(d, f, p, h)
  BY <1>3, <1>4, <1>5, FlagsHandled
<1> QED BY <1>6 DEF Handled

\* An event that cannot be applied now is refused and changes no fact.
LEMMA OutOfOrderHandled ==
  ASSUME NEW d \in DevT, NEW p, NEW h, PcOk(p, h), h \in HistT, DevOk(d, p, h),
         NEW e, Sent(e, p), NEW s \in OutOfOrder(d, e)
  PROVE  s \in Outcomes /\ ~s.ok /\ Handled(d, s.dev, p, h)
<1> DEFINE r == d.ram
           new(al) == [r EXCEPT !.alerts = al]
<1>1. r \in RamT /\ RamOk(r, p, h) /\ Sound(r, p, h) /\ r.cursor \in Nat
  BY DEF DevOk, DevT, RamT, RamOk
<1>2. PICK x \in {d} \cup UNION {Results(Commit(d, new(al), r)) : al \in Upserted(r, e)} :
        s = [ok |-> FALSE, dev |-> [x EXCEPT !.ram.recover = TRUE]]
  BY DEF OutOfOrder
<1>3. Handled(d, x, p, h)
  <2>1. CASE x = d
    BY <2>1, HandledSame
  <2>2. CASE x # d
    <3>1. PICK al \in Upserted(r, e) : x \in Results(Commit(d, new(al), r))
      BY <1>2, <2>2
    <3> DEFINE y == new(al)
    <3>2. al \in SUBSET Alerts /\ ListOk(al, r.seen, r.cursor, p, h)
      BY <1>1, UpsertedIs DEF Sound, CursorOk
    <3>3. /\ y \in RamT /\ y.intent = r.intent /\ y.command = r.command /\ y.stream = r.stream
          /\ y.cursor = r.cursor /\ y.alerts = al /\ y.seen = r.seen /\ y.early = r.early
          /\ y.held = r.held /\ y.op = r.op /\ y.sendIntent = r.sendIntent
      BY <1>1, <3>2 DEF RamT
    <3>4. PICK t \in Commit(d, y, r) : x = t.dev
      BY <3>1 DEF Results
    <3> HIDE DEF y
    <3>5. Sound(y, p, h)
      BY <1>1, <3>2, <3>3, Restocked
    <3>6. RamOk(y, p, h)
      BY <1>1, <3>3, <3>5 DEF RamOk
    <3> QED BY <1>1, <3>3, <3>4, <3>6, CommitKeeps DEF Handled
  <2> QED BY <2>1, <2>2
<1>4. x \in DevT /\ x.ram \in RamT
  BY <1>3 DEF Handled, DevT
<1>5. s.ok = FALSE /\ s.dev = [x EXCEPT !.ram.recover = TRUE] /\ DOMAIN s = {"ok", "dev"}
      /\ s = [ok |-> FALSE, dev |-> s.dev]
  BY <1>2
<1>7. Flagged(x, s.dev)
  BY <1>5 DEF Flagged
<1>6. Handled(d, s.dev, p, h) /\ s.dev \in DevT
  BY <1>3, <1>4, <1>7, FlagSet
<1> QED BY <1>5, <1>6 DEF Outcomes

\* acceptEvent, whatever becomes of the event.
LEMMA AcceptHandled ==
  ASSUME NEW d \in DevT, NEW p, NEW h, PcOk(p, h), h \in HistT, DevOk(d, p, h),
         NEW e, Sent(e, p), NEW gap \in BOOLEAN, gap => ~d.ram.stream /\ e.seq = 1,
         NEW s \in Accept(d, e, gap)
  PROVE  s \in Outcomes /\ Handled(d, s.dev, p, h)
<1> DEFINE r == d.ram
           known == r.stream /\ e.seq <= r.cursor
           next == gap \/ (r.stream /\ e.seq = r.cursor + 1)
<1>1. r \in RamT /\ RamOk(r, p, h) /\ Sound(r, p, h) /\ r.cursor \in Nat
  BY DEF DevOk, DevT, RamOk, RamT
<1>2. CASE known
  <2>1. s = [ok |-> TRUE, dev |-> [d EXCEPT !.ram.ack = TRUE]]
    BY <1>2 DEF Accept
  <2> DEFINE f == [d EXCEPT !.ram.ack = TRUE]
  <2>4. Flagged(d, f)
    BY DEF Flagged
  <2> HIDE DEF f
  <2>2. Handled(d, f, p, h) /\ f \in DevT
    BY <2>4, HandledSame, FlagSet
  <2>3. s = [ok |-> TRUE, dev |-> f]
    BY <2>1 DEF f
  <2> QED BY <2>2, <2>3 DEF Outcomes
<1>3. CASE ~known /\ ~next
  <2>1. s \in OutOfOrder(d, e)
    BY <1>3 DEF Accept
  <2> QED BY <2>1, OutOfOrderHandled
<1>4. CASE ~known /\ next /\ Overflows(r, e)
  <2>1. s = [ok |-> FALSE, dev |-> [d EXCEPT !.ram.recover = TRUE, !.ram.full = TRUE]]
    BY <1>4 DEF Accept
  <2> DEFINE f == [d EXCEPT !.ram.recover = TRUE, !.ram.full = TRUE]
  <2>4. Flagged(d, f)
    BY DEF Flagged
  <2> HIDE DEF f
  <2>2. Handled(d, f, p, h) /\ f \in DevT
    BY <2>4, HandledSame, FlagSet
  <2>3. s = [ok |-> FALSE, dev |-> f]
    BY <2>1 DEF f
  <2> QED BY <2>2, <2>3 DEF Outcomes
<1>6. CASE ~known /\ next /\ ~Overflows(r, e) /\ Applied(r, e) = {}
  <2>1. s = [ok |-> FALSE, dev |-> [d EXCEPT !.ram.recover = TRUE]]
    BY <1>6 DEF Accept, Refusal
  <2> DEFINE f == [d EXCEPT !.ram.recover = TRUE]
  <2>4. Flagged(d, f)
    BY DEF Flagged
  <2> HIDE DEF f
  <2>2. Handled(d, f, p, h) /\ f \in DevT
    BY <2>4, HandledSame, FlagSet
  <2>3. s = [ok |-> FALSE, dev |-> f]
    BY <2>1 DEF f
  <2> QED BY <2>2, <2>3 DEF Outcomes
<1>5. CASE ~known /\ next /\ ~Overflows(r, e) /\ Applied(r, e) # {}
  <2>0. PICK t \in UNION {Commit(d, new, r) : new \in Applied(r, e)} :
          s = IF t.ok THEN [t EXCEPT !.dev.ram.ack = TRUE] ELSE [t EXCEPT !.dev.ram.recover = TRUE]
    BY <1>5 DEF Accept
  <2>1. PICK y \in Applied(r, e) : t \in Commit(d, y, r)
    BY <2>0
  <2>2. e.seq = r.cursor + 1
    BY <1>1, <1>5 DEF Sound, CursorOk
  <2>3. /\ y \in RamT /\ RamOk(y, p, h) /\ y.stream /\ r.cursor <= y.cursor
        /\ y.intent.token = r.intent.token
    BY <1>1, <2>2, AppliedSound
  <2>4. e \in Events
    BY SentIs
  <2>10. AppliedFields(r, e, y)
    BY <1>1, <2>4, UpsertedIs, AppliedIs DEF Sound, CursorOk
  <2>5. y.held = r.held /\ y.op = r.op /\ y.sendIntent = r.sendIntent
    BY <2>10 DEF AppliedFields
  <2>6. t \in Outcomes /\ Handled(d, t.dev, p, h) /\ t.dev \in DevT
    BY <1>1, <2>1, <2>3, <2>5, CommitKeeps DEF Handled
  <2>7. Flagged(t.dev, s.dev)
    BY <2>0, <2>6 DEF Outcomes, Flagged
  <2>8. s = [ok |-> t.ok, dev |-> s.dev]
    BY <2>0, <2>6 DEF Outcomes
  <2>9. Handled(d, s.dev, p, h) /\ s.dev \in DevT
    BY <2>6, <2>7, FlagSet
  <2> QED BY <2>6, <2>8, <2>9 DEF Outcomes
<1> QED BY <1>2, <1>3, <1>4, <1>5, <1>6

\* The outcome becomes unknown.
LEMMA UnsureHandled ==
  ASSUME NEW d \in DevT, NEW p, NEW h, DevOk(d, p, h), NEW e \in Unsure(d)
  PROVE  e \in DevT /\ Handled(d, e, p, h)
<1> DEFINE y == [d.ram EXCEPT !.command.state = "unknown"]
           f == [d EXCEPT !.ram = y]
<1>1. CASE ~d.ram.intent.unresolved
  BY <1>1, HandledSame DEF Unsure
<1>2. CASE d.ram.intent.unresolved
  <2>1. d.ram \in RamT /\ RamOk(d.ram, p, h) /\ SlotsOk(d, p, h) /\ d.ram.cursor \in Nat
    BY DEF DevOk, DevT, RamT
  <2>2. [d.ram.command EXCEPT !.state = "unknown"] \in Commands
        /\ [d.ram.command EXCEPT !.state = "unknown"].id = d.ram.command.id
        /\ [d.ram.command EXCEPT !.state = "unknown"].state = "unknown"
    BY <2>1 DEF RamT, Commands, CmdStates
  <2>3. /\ y \in RamT /\ y.intent = d.ram.intent /\ y.stream = d.ram.stream
        /\ y.cursor = d.ram.cursor /\ y.alerts = d.ram.alerts /\ y.seen = d.ram.seen /\ y.early = d.ram.early
        /\ y.held = d.ram.held /\ y.op = d.ram.op /\ y.sendIntent = d.ram.sendIntent
        /\ y.command.id = d.ram.command.id /\ y.command.state = "unknown"
    BY <2>1, <2>2 DEF RamT
  <2>4. PICK s \in Saves(f) : e = s.dev
    BY <1>2 DEF Unsure, Results
  <2> HIDE DEF y
  <2>5. RamOk(y, p, h)
    BY <1>2, <2>1, <2>3, RamAlike DEF Alongside, RamOk
  <2>6. DevOk(f, p, h) /\ f \in DevT /\ f.ram = y /\ Slots(f) = Slots(d)
    BY <2>1, <2>3, <2>5, Reram
  <2>7. Keeps(d, f)
    BY <2>1, <2>3, <2>6 DEF Keeps
  <2> HIDE DEF f
  <2>8. /\ s.dev \in DevT /\ DevOk(s.dev, p, h) /\ Keeps(f, s.dev)
        /\ \E b \in BOOLEAN : s.dev.ram = [f.ram EXCEPT !.failed = b]
    BY <2>4, <2>6, SaveKeeps
  <2>9. s.dev.ram.op = f.ram.op /\ s.dev.ram.held = f.ram.held
    BY <2>6, <2>8 DEF DevT, RamT
  <2>10. Keeps(d, s.dev)
    BY <2>6, <2>7, <2>8, KeepsOn
  <2> QED BY <2>3, <2>4, <2>6, <2>8, <2>9, <2>10 DEF Handled
<1> QED BY <1>1, <1>2

\* The device as a response leaves it, before its operation is over.
Left(d, e, p, h) ==
  /\ e \in DevT /\ Sound(e.ram, p, h) /\ SlotsOk(e, p, h) /\ Keeps(d, e)
  /\ e.ram.held = d.ram.held /\ ~e.ram.sendIntent

\* What events do, seen by the tick that still owes the end of its request.
LEMMA HandledLeft ==
  ASSUME NEW d \in DevT, NEW e, NEW p, NEW h, Handled(d, e, p, h), d.ram.op # "none"
  PROVE  Left(d, e, p, h)
BY DEF Handled, Left, DevOk, RamOk

Over(d) == [d EXCEPT !.ram.op = "none"]

\* The request over, the device is as its invariant wants it.
LEMMA LeftOver ==
  ASSUME NEW d \in DevT, NEW e, NEW p, NEW h, DevOk(d, p, h), Left(d, e, p, h),
         NEW f, f = Over(e)
  PROVE  f \in DevT /\ DevOk(f, p, h) /\ Keeps(d, f) /\ f.ram.op = "none" /\ f.ram.held = d.ram.held
<1> DEFINE y == [e.ram EXCEPT !.op = "none"]
<1>1. e \in DevT /\ e.ram \in RamT /\ SlotsOk(e, p, h)
  BY DEF Left, DevT
<1>2. /\ y \in RamT /\ y.intent = e.ram.intent /\ y.stream = e.ram.stream
      /\ y.cursor = e.ram.cursor /\ y.alerts = e.ram.alerts /\ y.seen = e.ram.seen /\ y.early = e.ram.early
      /\ y.held = e.ram.held /\ y.op = "none" /\ y.sendIntent = e.ram.sendIntent
      /\ y.command = e.ram.command
  BY <1>1 DEF RamT, Ops
<1>3. f = [e EXCEPT !.ram = y]
  BY DEF Over
<1> HIDE DEF y
<1>4. Sound(y, p, h)
  BY <1>2, Alike DEF Left
<1>5. RamOk(y, p, h)
  BY <1>2, <1>4 DEF RamOk, Left, DevOk
<1>6. DevOk(f, p, h) /\ f \in DevT /\ f.ram = y /\ Slots(f) = Slots(e)
  BY <1>1, <1>2, <1>3, <1>5, Reram
<1>7. Keeps(d, f)
  BY <1>2, <1>6 DEF Keeps, Left
<1> QED BY <1>2, <1>6, <1>7 DEF Left

\* The answer to control.execute or command.get.
LEMMA CommandLeft ==
  ASSUME NEW d \in DevT, NEW p, NEW h, PcOk(p, h), h \in HistT, DevOk(d, p, h),
         d.ram.op \in {"execute", "get"}, NEW reply, Answer(reply, d.ram, p), NEW s \in OnCommand(d, reply)
  PROVE  s.ok \in BOOLEAN /\ Left(d, s.dev, p, h)
<1> DEFINE r == d.ram
           new == Named(r, reply)
           kept == [r EXCEPT !.command.state = "unknown", !.asked = TRUE]
           back(ram, ok) == IF ok THEN Resumed(ram) ELSE ram
           stale(ram) == [ram EXCEPT !.fresh = @ /\ r.op # "execute" /\ ram.command.state = r.command.state]
<1>1. r \in RamT /\ RamOk(r, p, h) /\ SlotsOk(d, p, h) /\ Sound(r, p, h) /\ r.cursor \in Nat
  BY DEF DevOk, DevT, RamOk, RamT
<1>2. ~(r.intent.token = 0 \/ r.intent.cmd \notin {0, reply.id})
  BY <1>1 DEF Answer, RamOk, Sound, OwnerOk
<1>3. PICK t \in Commit(d, new, kept) :
        s = [ok |-> TRUE, dev |-> [t.dev EXCEPT !.ram = stale(back(@, t.ok))]]
  BY <1>2 DEF OnCommand, Valid
<1>4. /\ new \in RamT /\ Sound(new, p, h)
      /\ new.stream = r.stream /\ new.cursor = r.cursor /\ new.intent.token = r.intent.token
      /\ new.held = r.held /\ new.op = r.op /\ new.sendIntent = r.sendIntent
  BY <1>1, NamedSound
<1>5. [r.command EXCEPT !.state = "unknown"] \in Commands
      /\ [r.command EXCEPT !.state = "unknown"].id = r.command.id
      /\ [r.command EXCEPT !.state = "unknown"].state = "unknown"
  BY <1>1 DEF RamT, Commands, CmdStates
<1>6. /\ kept \in RamT /\ kept.intent = r.intent /\ kept.stream = r.stream
      /\ kept.cursor = r.cursor /\ kept.alerts = r.alerts /\ kept.seen = r.seen /\ kept.early = r.early
      /\ kept.held = r.held /\ kept.op = r.op /\ kept.sendIntent = r.sendIntent
      /\ kept.command.id = r.command.id /\ kept.command.state = "unknown"
  BY <1>1, <1>5 DEF RamT
<1> HIDE DEF new, kept
<1>7. Sound(kept, p, h)
  BY <1>1, <1>6, Alike
<1>22. d.ram.cursor <= new.cursor /\ kept.cursor = d.ram.cursor
  BY <1>1, <1>4, <1>6
<1>8. /\ t \in Outcomes /\ SlotsOk(t.dev, p, h)
      /\ t.ok => t.dev.ram = [new EXCEPT !.failed = FALSE]
      /\ ~t.ok => t.dev.ram = [kept EXCEPT !.failed = TRUE]
      /\ \A b \in Slots(t.dev) : b = Body(new) \/ (b \in Slots(d) /\ ~t.ok)
  BY <1>1, <1>3, <1>4, <1>6, <1>22, CommitSound
<1>9. PICK x \in {new, kept} :
        /\ t.dev.ram.intent = x.intent /\ t.dev.ram.command = x.command
        /\ t.dev.ram.stream = x.stream /\ t.dev.ram.cursor = x.cursor
        /\ t.dev.ram.alerts = x.alerts /\ t.dev.ram.seen = x.seen
        /\ t.dev.ram.early = x.early /\ t.dev.ram.held = x.held
        /\ t.dev.ram.sendIntent = x.sendIntent
  <2>1. CASE t.ok
    BY <1>4, <1>8, <2>1 DEF RamT
  <2>2. CASE ~t.ok
    BY <1>6, <1>8, <2>2 DEF RamT
  <2> QED BY <2>1, <2>2
<1>10. t.dev \in DevT /\ t.dev.ram \in RamT /\ t.ok \in BOOLEAN
  BY <1>8 DEF Outcomes, DevT
<1> DEFINE z == t.dev.ram
           b == back(z, t.ok)
           y == stale(b)
<1> HIDE DEF z
<1>11. /\ b \in RamT /\ b.intent = z.intent /\ b.stream = z.stream
       /\ b.cursor = z.cursor /\ b.alerts = z.alerts /\ b.seen = z.seen /\ b.early = z.early
       /\ b.held = z.held /\ b.sendIntent = z.sendIntent /\ b.command = z.command
  <2>1. z \in RamT
    BY <1>10 DEF z
  <2>2. CASE t.ok
    <3>1. b = [z EXCEPT !.full = FALSE]
      BY <2>2 DEF Resumed
    <3> HIDE DEF b
    <3> QED BY <2>1, <3>1 DEF RamT
  <2>3. CASE ~t.ok
    <3>1. b = z
      BY <2>3
    <3> QED BY <2>1, <3>1
  <2> QED BY <2>2, <2>3
<1> HIDE DEF b
<1>12. /\ y \in RamT /\ y.intent = b.intent /\ y.stream = b.stream
       /\ y.cursor = b.cursor /\ y.alerts = b.alerts /\ y.seen = b.seen /\ y.early = b.early
       /\ y.held = b.held /\ y.sendIntent = b.sendIntent /\ y.command = b.command
  BY <1>11 DEF RamT
<1>13. s.ok = TRUE /\ s.dev = [t.dev EXCEPT !.ram = y]
  BY <1>3 DEF b, z
<1> HIDE DEF y
<1>14. s.dev \in DevT /\ s.dev.ram = y /\ s.dev.base = t.dev.base /\ s.dev.ahead = t.dev.ahead
  BY <1>10, <1>12, <1>13 DEF DevT
<1>15. Slots(s.dev) = Slots(t.dev)
  BY <1>14 DEF Slots
<1>16. /\ y.intent = x.intent /\ y.stream = x.stream
       /\ y.cursor = x.cursor /\ y.alerts = x.alerts /\ y.seen = x.seen /\ y.early = x.early
       /\ y.held = x.held /\ y.sendIntent = x.sendIntent /\ y.command = x.command
  BY <1>9, <1>11, <1>12 DEF z
<1>17. Sound(y, p, h)
  BY <1>4, <1>7, <1>16, Alike
<1>18. SlotsOk(s.dev, p, h)
  BY <1>8, <1>9, <1>14, <1>15, <1>16 DEF SlotsOk
<1>19. Body(new).intent.token = r.intent.token
  BY <1>4, BodyIs
<1>20. Keeps(d, s.dev)
  BY <1>1, <1>4, <1>6, <1>8, <1>14, <1>15, <1>16, <1>19 DEF Keeps
<1>21. ~r.sendIntent
  BY <1>1 DEF RamOk
<1>23. y.held = r.held /\ ~y.sendIntent
  <2>1. x.held = r.held /\ x.sendIntent = r.sendIntent
    BY <1>4, <1>6
  <2> QED BY <1>16, <1>21, <2>1
<1>24. Left(d, s.dev, p, h)
  BY <1>14, <1>17, <1>18, <1>20, <1>23 DEF Left
<1> QED BY <1>13, <1>24

\* rpcTake, but for a page.
LEMMA TakenIs ==
  ASSUME NEW d \in DevT, NEW p, NEW h, PcOk(p, h), h \in HistT, DevOk(d, p, h), d.ram.op # "none",
         NEW m, NEW s,
         \/ m.ok /\ d.ram.op # "list" /\ ReplyOk(m, d.ram, p) /\ s \in Response(d, m)
         \/ s \in Valid(OnFailure(d)),
         NEW f, f = Over(s.dev)
  PROVE  /\ s.ok \in BOOLEAN
         /\ f \in DevT /\ DevOk(f, p, h) /\ Keeps(d, f) /\ f.ram.op = "none" /\ f.ram.held = d.ram.held
<1>1. d.ram \in RamT /\ d.ram.op \in Ops
  BY DEF DevT, RamT
<1>2. s.ok \in BOOLEAN /\ Left(d, s.dev, p, h)
  <2>1. CASE s \in Valid(OnFailure(d))
    <3>1. PICK e \in OnFailure(d) : s = [ok |-> TRUE, dev |-> e]
      BY <2>1 DEF Valid
    <3>2. e \in Unsure(d) \/ Flagged(d, e)
      BY <1>1, <3>1 DEF OnFailure, Ops, Flagged
    <3>3. Handled(d, e, p, h)
      BY <3>2, UnsureHandled, HandledSame, FlagSet
    <3> QED BY <3>1, <3>3, HandledLeft
  <2>2. CASE m.ok /\ ReplyOk(m, d.ram, p) /\ s \in Response(d, m) /\ d.ram.op \in {"execute", "get"}
    <3>1. s \in OnCommand(d, m)
      BY <2>2 DEF Response
    <3>2. Answer(m, d.ram, p)
      BY <2>2 DEF ReplyOk, Answer
    <3> QED BY <2>2, <3>1, <3>2, CommandLeft
  <2>3. CASE m.ok /\ ReplyOk(m, d.ram, p) /\ s \in Response(d, m) /\ d.ram.op = "ack"
    <3>1. s \in OnAck(d, m)
      BY <2>3 DEF Response
    <3> DEFINE y == [d.ram EXCEPT !.recover = @ \/ m.cursor > d.ram.cursor]
    <3>2. s = [ok |-> TRUE, dev |-> [d EXCEPT !.ram = y]]
      BY <3>1 DEF OnAck, Valid
    <3>3. m.cursor \in Nat /\ d.ram.cursor \in Nat
      BY <1>1, <2>3 DEF ReplyOk, RamT
    <3>4. /\ y \in RamT /\ y.intent = d.ram.intent /\ y.stream = d.ram.stream
          /\ y.cursor = d.ram.cursor /\ y.alerts = d.ram.alerts /\ y.seen = d.ram.seen /\ y.early = d.ram.early
          /\ y.held = d.ram.held /\ y.sendIntent = d.ram.sendIntent /\ y.command = d.ram.command
          /\ y.op = d.ram.op
      BY <1>1, <3>3 DEF RamT
    <3> HIDE DEF y
    <3>5. Handled(d, s.dev, p, h)
      BY <3>2, <3>4, HandledSame, FlagsHandled
    <3> QED BY <3>2, <3>5, HandledLeft
  <2> QED BY <1>1, <2>1, <2>2, <2>3 DEF Ops
<1> QED BY <1>2, LeftOver

-----------------------------------------------------------------------------
(* The link.                                                                *)

\* The operation under way is the same.
LEMMA LinkKeeps ==
  ASSUME NEW l, NEW r \in RamT, NEW y \in RamT, NEW p, LinkOk(l, r, p),
         y.op = r.op, y.intent.token = r.intent.token, r.cursor <= y.cursor, r.stream => y.stream
  PROVE  LinkOk(l, y, p)
<1>1. \A q : RequestOk(q, r, p) => RequestOk(q, y, p)
  <2>1. r.cursor \in Nat /\ y.cursor \in Nat
    BY DEF RamT
  <2> QED BY <2>1 DEF RequestOk, Requests
<1>2. \A m : ReplyOk(m, r, p) => ReplyOk(m, y, p)
  BY DEF ReplyOk, PageOk
<1> QED BY <1>1, <1>2 DEF LinkOk

\* Nothing is asked.
LEMMA LinkQuiet ==
  ASSUME NEW l \in LinkT, NEW r, NEW p, AllSent(l.events, p), l.rpc \in {"idle", "error"},
         p.reply # NoMessage => l.ble = "linked" /\ ~l.online
  PROVE  LinkOk(l, r, p)
BY DEF LinkOk

\* rpcTake, and rpcTake with an abort, free the link.
LEMMA TakenLink ==
  ASSUME NEW l, NEW r, NEW p, LinkOk(l, r, p), Answered(l), NEW k, k \in {Taken(l), Aborted(Taken(l))}, NEW y
  PROVE  LinkOk(k, y, p) /\ k.rpc = "idle"
<1>1. l \in LinkT /\ l.rpc \in {"reply", "error"} /\ AllSent(l.events, p)
  BY DEF LinkOk, Answered
<1>2. p.reply # NoMessage => l.ble = "linked" /\ ~l.online
  BY <1>1 DEF LinkOk
<1>3. NoMessage \in Replies /\ <<>> \in Seq(Events) /\ AllSent(<<>>, p)
  BY DEF Replies, AllSent
<1>4. k \in LinkT /\ k.rpc = "idle" /\ k.ble = l.ble /\ (k.online => l.online) /\ AllSent(k.events, p)
  <2> DEFINE t == Taken(l)
  <2>1. /\ t \in LinkT /\ t.rpc = "idle" /\ t.ble = l.ble /\ t.online = l.online
        /\ t.events = l.events
    BY <1>1, <1>3 DEF Taken, LinkT
  <2> HIDE DEF t
  <2>2. CASE k = t
    BY <1>1, <2>1, <2>2
  <2>3. CASE k = Aborted(t)
    BY <1>3, <2>1, <2>3 DEF Aborted, Reset, LinkT
  <2> QED BY <2>2, <2>3 DEF t
<1> QED BY <1>2, <1>4, LinkQuiet

\* An abort or a failure leaves no reply that could be taken for another.
LEMMA BrokenLink ==
  ASSUME NEW l, NEW r, NEW p, LinkOk(l, r, p), NEW k, k \in {Aborted(l), Failed(l)}, NEW y,
         NEW q, q.reply # NoMessage => p.reply # NoMessage
  PROVE  LinkOk(k, y, q) /\ k.rpc \in {"idle", "error"} /\ k.ble = l.ble
<1>1. l \in LinkT /\ AllSent(l.events, p)
  BY DEF LinkOk
<1>3. NoMessage \in Replies /\ <<>> \in Seq(Events) /\ AllSent(<<>>, q)
  BY DEF Replies, AllSent
<1> DEFINE t == Aborted(l)
<1>4. t \in LinkT /\ t.rpc \in {"idle", "error"} /\ t.ble = l.ble /\ ~t.online /\ t.events = <<>>
  BY <1>1, <1>3 DEF Aborted, Reset, LinkT
<1>5. k = t \/ k = [t EXCEPT !.rpc = IF l.owner THEN "error" ELSE "idle"]
  BY DEF Failed
<1> HIDE DEF t
<1>6. k \in LinkT /\ k.rpc \in {"idle", "error"} /\ k.ble = l.ble /\ ~k.online /\ k.events = <<>>
  <2>1. CASE k = t
    BY <1>4, <2>1
  <2>2. CASE k = [t EXCEPT !.rpc = IF l.owner THEN "error" ELSE "idle"]
    BY <1>4, <2>2 DEF LinkT
  <2> QED BY <1>5, <2>1, <2>2
<1>7. q.reply # NoMessage => k.ble = "linked" /\ ~k.online
  BY <1>6 DEF LinkOk
<1> QED BY <1>3, <1>6, <1>7, LinkQuiet

\* eventTake: the event at the head, and the queue behind it.
LEMMA NextEvent ==
  ASSUME NEW l, NEW r, NEW p, LinkOk(l, r, p), l.events # <<>>,
         NEW k, k = [l EXCEPT !.events = Tail(@)]
  PROVE  /\ LinkOk(k, r, p) /\ k.rpc = l.rpc /\ k.request = l.request
         /\ Head(l.events) \in Events /\ Sent(Head(l.events), p)
<1>1. l \in LinkT /\ AllSent(l.events, p) /\ l.events \in Seq(Events)
  BY DEF LinkOk, LinkT
<1>2. Len(l.events) \in Nat /\ Len(l.events) >= 1 /\ Tail(l.events) \in Seq(Events)
      /\ Len(Tail(l.events)) = Len(l.events) - 1 /\ Head(l.events) = l.events[1]
      /\ \A i \in 1 .. Len(Tail(l.events)) : Tail(l.events)[i] = l.events[i + 1]
  <2> DEFINE ev == l.events
  <2>1. ev \in Seq(Events) /\ ev # <<>>
    BY <1>1
  <2> HIDE DEF ev
  <2>2. Len(ev) \in Nat /\ Len(ev) >= 1 /\ Tail(ev) \in Seq(Events) /\ Head(ev) = ev[1]
    BY <2>1
  <2>3. Len(Tail(ev)) = Len(ev) - 1 /\ \A i \in 1 .. Len(Tail(ev)) : Tail(ev)[i] = ev[i + 1]
    BY <2>1, <2>2
  <2> QED BY <2>2, <2>3 DEF ev
<1>3. AllSent(Tail(l.events), p) /\ Sent(Head(l.events), p) /\ Head(l.events) \in Events
  <2> DEFINE ev == l.events
  <2>1. \A i \in 1 .. Len(ev) : Sent(ev[i], p)
    BY <1>1 DEF AllSent
  <2>2. /\ Len(ev) \in Nat /\ Len(ev) >= 1 /\ Len(Tail(ev)) = Len(ev) - 1 /\ Head(ev) = ev[1]
        /\ \A i \in 1 .. Len(Tail(ev)) : Tail(ev)[i] = ev[i + 1]
    BY <1>2
  <2>3. ev \in Seq(Events) /\ ev # <<>>
    BY <1>1
  <2> HIDE DEF ev
  <2>4. \A i \in 1 .. Len(Tail(ev)) : Sent(Tail(ev)[i], p)
    BY <2>1, <2>2
  <2>5. Sent(Head(ev), p)
    BY <2>1, <2>2
  <2>6. Head(ev) \in Events
    BY <2>3
  <2> QED BY <2>4, <2>5, <2>6 DEF AllSent, ev
<1>4. /\ k \in LinkT /\ k.ble = l.ble /\ k.closing = l.closing /\ k.online = l.online
      /\ k.subscribed = l.subscribed /\ k.rpc = l.rpc /\ k.owner = l.owner
      /\ k.request = l.request /\ k.reply = l.reply /\ k.events = Tail(l.events)
  BY <1>1, <1>2 DEF LinkT
<1> QED BY <1>3, <1>4 DEF LinkOk

-----------------------------------------------------------------------------
(* A step of the tick that leaves the PC and the decisions alone.           *)

LEMMA DevStep ==
  ASSUME GInv, pc' = pc, hist' = hist, DevOk(dev', pc, hist), Keeps(dev, dev'),
         LinkOk(link', dev'.ram, pc), TickOk(ui', page', dev'.ram, pc),
         link'.rpc = "sending" => link.rpc = "sending" /\ link'.request = link.request
  PROVE  GInv'
<1>1. PcOk(pc, hist)' /\ DevOk(dev, pc, hist)' /\ LinkOk(link, dev.ram, pc)' /\ TickOk(ui, page, dev.ram, pc)'
  BY DEF GInv
<1>2. AcksOk(pc, dev.ram, hist)'
  <2>1. dev.ram.cursor \in Nat /\ dev'.ram.cursor \in Nat /\ dev.ram.cursor <= dev'.ram.cursor
    BY DEF Keeps, DevOk, DevT, RamT, GInv
  <2>2. pc.acked \in Nat /\ \A q \in pc.late : q.arg \in Nat
    BY DEF GInv, PcOk, PcT, Requests
  <2>3. AcksOk(pc, dev'.ram, hist)
    BY <2>1, <2>2 DEF GInv, AcksOk
  <2> QED BY <2>3
<1>3. CreditOk(hist, dev.ram)'
  BY DEF GInv, CreditOk, Keeps
<1>4. LiveOk(link, dev, pc, hist)'
  BY DEF GInv, LiveOk, Live, Keeps
<1> QED BY <1>1, <1>2, <1>3, <1>4 DEF GInv

\* The same, with the operation under way and the link unchanged.
LEMMA QuietStep ==
  ASSUME GInv, pc' = pc, hist' = hist, link' = link, Handled(dev, dev', pc, hist) \/
           (DevOk(dev', pc, hist) /\ Keeps(dev, dev') /\ dev'.ram.op = dev.ram.op),
         TickOk(ui', page', dev'.ram, pc)
  PROVE  GInv'
<1>1. DevOk(dev', pc, hist) /\ Keeps(dev, dev') /\ dev'.ram.op = dev.ram.op
  BY DEF Handled
<1>2. dev.ram \in RamT /\ dev'.ram \in RamT
  BY <1>1 DEF GInv, DevOk, DevT
<1>3. LinkOk(link, dev'.ram, pc)
  BY <1>1, <1>2, LinkKeeps DEF GInv, Keeps
<1> QED BY <1>1, <1>3, DevStep

-----------------------------------------------------------------------------
(* The tick.                                                                *)

LEMMA StateIs ==
  ASSUME GInv
  PROVE  /\ PcOk(pc, hist) /\ hist \in HistT /\ dev \in DevT /\ DevOk(dev, pc, hist)
         /\ dev.ram \in RamT /\ RamOk(dev.ram, pc, hist) /\ SlotsOk(dev, pc, hist)
         /\ LinkOk(link, dev.ram, pc) /\ link \in LinkT /\ page \in PageT
         /\ TickOk(ui, page, dev.ram, pc) /\ pc \in PcT
         /\ dev.ram.cursor \in Nat /\ dev.ram.held \in Seq(Events) /\ AllSent(dev.ram.held, pc)
BY DEF GInv, DevOk, DevT, LinkOk, TickOk, CreditOk, RamOk, RamT, PcOk

LEMMA TakeStep == ASSUME GInv, TickTake PROVE GInv'
<1>1. PICK s \in IF link.rpc = "reply" /\ link.reply.ok
                 THEN Response(dev, link.reply) ELSE Valid(OnFailure(dev)) :
        dev' = Over(s.dev) /\ link' = Leave(Taken(link), s.ok)
  BY DEF TickTake, Over
<1>2. /\ ui' = "events" /\ page' = page /\ pc' = pc /\ hist' = hist
      /\ dev.ram.op # "none" /\ Answered(link) /\ ~IsPage
  BY DEF TickTake, Waiting
<1>3. \/ link.reply.ok /\ dev.ram.op # "list" /\ ReplyOk(link.reply, dev.ram, pc)
           /\ s \in Response(dev, link.reply)
      \/ s \in Valid(OnFailure(dev))
  BY <1>1, <1>2, StateIs DEF IsPage, LinkOk
<1>4. /\ s.ok \in BOOLEAN
      /\ dev' \in DevT /\ DevOk(dev', pc, hist) /\ Keeps(dev, dev') /\ dev'.ram.op = "none"
  <2>1. PcOk(pc, hist) /\ hist \in HistT /\ dev \in DevT /\ DevOk(dev, pc, hist)
    BY StateIs
  <2> DEFINE f == Over(s.dev)
  <2>2. f = Over(s.dev)
    OBVIOUS
  <2> HIDE DEF f
  <2>3. CASE /\ link.reply.ok /\ dev.ram.op # "list" /\ ReplyOk(link.reply, dev.ram, pc)
             /\ s \in Response(dev, link.reply)
    BY <1>1, <1>2, <2>1, <2>2, <2>3, TakenIs
  <2>4. CASE s \in Valid(OnFailure(dev))
    BY <1>1, <1>2, <2>1, <2>2, <2>4, TakenIs
  <2> QED BY <1>3, <2>3, <2>4
<1>5. link' \in {Taken(link), Aborted(Taken(link))}
  BY <1>1, <1>4 DEF Leave
<1>6. LinkOk(link', dev'.ram, pc) /\ link'.rpc = "idle"
  BY <1>2, <1>5, StateIs, TakenLink
<1>7. TickOk(ui', page', dev'.ram, pc)
  BY <1>2, StateIs DEF TickOk
<1> QED BY <1>2, <1>4, <1>6, <1>7, DevStep

\* How a page ends, well or not.
PageOver(d) ==
  /\ dev' \in DevT /\ DevOk(dev', pc, hist) /\ Keeps(d, dev') /\ dev'.ram.op = "none"
  /\ TickOk(ui', page', dev'.ram, pc)

LEMMA NoPageIs == NoPage \in PageT
<1>1. <<>> \in Seq(Events)
  OBVIOUS
<1> QED BY <1>1 DEF NoPage, PageT

\* A page that is stored, with held events behind it or not.
LEMMA ClosingIs ==
  ASSUME GInv, NEW d \in DevT, DevOk(d, pc, hist), d.ram.op = "none", NEW more \in BOOLEAN, Closing(d, more)
  PROVE  PageOver(d)
<1> DEFINE ack == d.ram.cursor > 0
           y == [d.ram EXCEPT !.recover = more, !.ack = ack]
<1>0. ack \in BOOLEAN
  OBVIOUS
<1>3. dev' = [d EXCEPT !.ram = y]
  BY DEF Closing
<1> HIDE DEF ack
<1>1. d.ram \in RamT /\ d.ram.cursor \in Nat /\ AllSent(d.ram.held, pc)
  BY DEF DevOk, DevT, RamOk, RamT
<1>2. /\ y \in RamT /\ y.intent = d.ram.intent /\ y.stream = d.ram.stream
      /\ y.cursor = d.ram.cursor /\ y.alerts = d.ram.alerts /\ y.seen = d.ram.seen /\ y.early = d.ram.early
      /\ y.held = d.ram.held /\ y.sendIntent = d.ram.sendIntent /\ y.command = d.ram.command
      /\ y.op = d.ram.op
  BY <1>0, <1>1 DEF RamT
<1> HIDE DEF y
<1>4. dev' \in DevT /\ DevOk(dev', pc, hist) /\ Keeps(d, dev') /\ dev'.ram = y
  BY <1>1, <1>2, <1>3, FlagsKeep
<1>5. page' = NoPage /\ ui' = IF d.ram.held = <<>> THEN "events" ELSE "held"
  BY DEF Closing
<1>6. TickOk(ui', page', dev'.ram, pc)
  BY <1>2, <1>4, <1>5, NoPageIs DEF TickOk
<1> QED BY <1>2, <1>4, <1>6 DEF PageOver

\* A page that ends early.
LEMMA RefusedIs ==
  ASSUME GInv, NEW d \in DevT, DevOk(d, pc, hist), d.ram.op = "none", Refused(d)
  PROVE  PageOver(d)
<1>1. Handled(d, dev', pc, hist) /\ dev' \in DevT
  <2>1. Flagged(d, dev')
    BY DEF Refused, Flagged
  <2> QED BY <2>1, HandledSame, FlagSet
<1>2. TickOk(ui', page', dev'.ram, pc)
  BY NoPageIs DEF Refused, TickOk
<1> QED BY <1>1, <1>2 DEF PageOver, Handled

LEMMA ListStep == ASSUME GInv, TickList PROVE GInv'
<1> DEFINE gap == ~dev.ram.stream
           fresh == dev.ram.fresh /\ ~gap
           asked == dev.ram.asked /\ ~gap
           y == [dev.ram EXCEPT !.op = "none", !.fresh = fresh, !.asked = asked]
           start == [dev EXCEPT !.ram = y]
<1> USE StateIs
<1>1. /\ pc' = pc /\ hist' = hist /\ link' = Taken(link)
      /\ Answered(link) /\ link.rpc = "reply" /\ link.reply.ok /\ dev.ram.op = "list"
  BY DEF TickList, Waiting, IsPage
<1>2. link.reply \in [ok : {TRUE}, items : Seq(Events), more : BOOLEAN]
      /\ PageOk(link.reply.items, gap, pc)
  BY <1>1 DEF LinkOk, ReplyOk
<1>0. fresh \in BOOLEAN /\ asked \in BOOLEAN
  OBVIOUS
<1>4. start = [dev EXCEPT !.ram.op = "none", !.ram.fresh = @ /\ ~gap, !.ram.asked = @ /\ ~gap]
  BY DEF DevT
<1>5. \/ /\ link.reply.items # <<>>
         /\ dev' = start /\ ui' = "page"
         /\ page' = [items |-> link.reply.items, gap |-> gap, more |-> link.reply.more]
      \/ /\ link.reply.items = <<>> /\ ~gap
         /\ Closing(start, link.reply.more)
      \/ /\ link.reply.items = <<>> /\ gap
         /\ \E s \in Commit(start, [start.ram EXCEPT !.stream = TRUE], start.ram) :
              IF s.ok THEN Closing(s.dev, link.reply.more) ELSE Refused(s.dev)
  BY <1>4 DEF TickList
<1> HIDE DEF fresh, asked
<1>3. /\ y \in RamT /\ y.intent = dev.ram.intent /\ y.stream = dev.ram.stream
      /\ y.cursor = dev.ram.cursor /\ y.alerts = dev.ram.alerts /\ y.seen = dev.ram.seen /\ y.early = dev.ram.early
      /\ y.held = dev.ram.held /\ y.sendIntent = dev.ram.sendIntent /\ y.command = dev.ram.command
      /\ y.op = "none"
  BY <1>0 DEF RamT, Ops
<1> HIDE DEF y
<1>6. start = [dev EXCEPT !.ram = y]
  OBVIOUS
<1> HIDE DEF start
<1>7. start \in DevT /\ DevOk(start, pc, hist) /\ Keeps(dev, start) /\ start.ram = y
  BY <1>3, <1>6, FlagsKeep
<1>8. link.reply.more \in BOOLEAN /\ link.reply.items \in Seq(Events)
  BY <1>2
<1>9. ASSUME NEW d \in DevT, Keeps(dev, d), PageOver(d)
      PROVE  PageOver(dev)
  BY <1>9, KeepsOn DEF PageOver
<1>10. PageOver(dev)
  <2>1. CASE /\ link.reply.items # <<>> /\ dev' = start /\ ui' = "page"
             /\ page' = [items |-> link.reply.items, gap |-> gap, more |-> link.reply.more]
    <3>1. page' \in PageT /\ page'.items = link.reply.items /\ page'.gap = gap
      BY <1>8, <2>1 DEF PageT, RamT
    <3>2. TickOk(ui', page', dev'.ram, pc)
      BY <1>2, <1>3, <1>7, <2>1, <3>1 DEF TickOk
    <3> QED BY <1>3, <1>7, <2>1, <3>2 DEF PageOver
  <2>2. CASE Closing(start, link.reply.more)
    BY <1>3, <1>7, <1>8, <1>9, <2>2, ClosingIs
  <2>3. ASSUME NEW s \in Commit(start, [start.ram EXCEPT !.stream = TRUE], start.ram),
               IF s.ok THEN Closing(s.dev, link.reply.more) ELSE Refused(s.dev)
        PROVE  PageOver(dev)
    <3> DEFINE new == [y EXCEPT !.stream = TRUE]
    <3>1. /\ new \in RamT /\ new.intent = y.intent /\ new.stream = TRUE
          /\ new.cursor = y.cursor /\ new.alerts = y.alerts /\ new.seen = y.seen /\ new.early = y.early
          /\ new.held = y.held /\ new.sendIntent = y.sendIntent /\ new.command = y.command
          /\ new.op = y.op
      BY <1>3 DEF RamT
    <3> HIDE DEF new
    <3>2. RamOk(new, pc, hist)
      BY <1>7, <3>1 DEF DevOk, RamOk, Sound, OwnerOk, OutcomeOk, EarlyOk, CursorOk, KeptOk
    <3>3. s \in Commit(start, new, start.ram)
      BY <1>7, <2>3 DEF new
    <3>4. start.ram.cursor <= new.cursor
      BY <1>3, <1>7, <3>1
    <3>5. s.dev \in DevT /\ DevOk(s.dev, pc, hist) /\ Keeps(start, s.dev) /\ s.dev.ram.op = "none"
      BY <1>3, <1>7, <3>1, <3>2, <3>3, <3>4, CommitKeeps
    <3>6. PageOver(s.dev)
      BY <1>8, <2>3, <3>5, ClosingIs, RefusedIs
    <3>7. Keeps(dev, s.dev)
      BY <1>7, <3>5, KeepsOn
    <3> QED BY <1>9, <3>5, <3>6, <3>7
  <2> QED BY <1>5, <2>1, <2>2, <2>3
<1>11. LinkOk(link', dev'.ram, pc) /\ link'.rpc = "idle"
  BY <1>1, TakenLink
<1> QED BY <1>1, <1>10, <1>11, DevStep DEF PageOver

\* The rest of a sequence of sent events.
LEMMA TailIs ==
  ASSUME NEW q \in Seq(Events), NEW p, AllSent(q, p), q # <<>>
  PROVE  /\ Tail(q) \in Seq(Events) /\ AllSent(Tail(q), p) /\ Sent(Head(q), p) /\ Head(q) = q[1]
         /\ Head(q) \in Events
         /\ Len(q) \in Nat /\ Len(q) >= 1 /\ (Len(q) # 1 => Tail(q) # <<>>)
<1>1. Len(q) \in Nat /\ Len(q) >= 1 /\ Tail(q) \in Seq(Events)
      /\ Len(Tail(q)) = Len(q) - 1 /\ Head(q) = q[1] /\ q[1] \in Events
      /\ \A i \in 1 .. Len(Tail(q)) : Tail(q)[i] = q[i + 1]
  OBVIOUS
<1>2. AllSent(Tail(q), p) /\ Sent(Head(q), p)
  BY <1>1 DEF AllSent
<1>3. Len(q) # 1 => Tail(q) # <<>>
  BY <1>1
<1> QED BY <1>1, <1>2, <1>3

LEMMA PageStep == ASSUME GInv, TickPage PROVE GInv'
<1> USE StateIs
<1>1. ui = "page" /\ pc' = pc /\ hist' = hist /\ link' = link
  BY DEF TickPage
<1>2. /\ page.items \in Seq(Events) /\ page.gap \in BOOLEAN /\ page.more \in BOOLEAN
      /\ page.items # <<>> /\ AllSent(page.items, pc) /\ dev.ram.op = "none"
      /\ page.gap => ~dev.ram.stream /\ page.items[1].seq = 1
  BY <1>1 DEF TickOk, PageOk, PageT
<1>3. /\ Tail(page.items) \in Seq(Events) /\ AllSent(Tail(page.items), pc)
      /\ Sent(Head(page.items), pc) /\ Head(page.items) = page.items[1]
      /\ Len(page.items) \in Nat /\ (Len(page.items) # 1 => Tail(page.items) # <<>>)
  BY <1>2, TailIs
<1>4. PICK s \in Accept(dev, Head(page.items), page.gap) :
        \/ ~s.ok /\ Refused(s.dev)
        \/ /\ s.ok /\ Len(page.items) > 1
           /\ dev' = s.dev /\ UNCHANGED ui
           /\ page' = [page EXCEPT !.items = Tail(@), !.gap = FALSE]
        \/ s.ok /\ Len(page.items) = 1 /\ Closing(s.dev, page.more)
  BY DEF TickPage
<1>5. Handled(dev, s.dev, pc, hist)
  BY <1>2, <1>3, <1>4, AcceptHandled
<1>6. s.dev \in DevT /\ DevOk(s.dev, pc, hist) /\ Keeps(dev, s.dev) /\ s.dev.ram.op = "none"
  BY <1>2, <1>5 DEF Handled
<1>7. PageOver(dev)
  <2>1. CASE PageOver(s.dev)
    BY <1>6, <2>1, KeepsOn DEF PageOver
  <2>2. CASE /\ Len(page.items) > 1 /\ dev' = s.dev /\ UNCHANGED ui
             /\ page' = [page EXCEPT !.items = Tail(@), !.gap = FALSE]
    <3>1. page' \in PageT /\ page'.items = Tail(page.items) /\ page'.gap = FALSE
      BY <1>3, <2>2 DEF PageT
    <3>4. \A n \in Nat : n > 1 => n # 1
      OBVIOUS
    <3>2. Tail(page.items) # <<>>
      BY <1>3, <2>2, <3>4
    <3>3. TickOk(ui', page', dev'.ram, pc)
      BY <1>1, <1>3, <1>6, <2>2, <3>1, <3>2 DEF TickOk, PageOk
    <3> QED BY <1>6, <2>2, <3>3 DEF PageOver
  <2> QED BY <1>2, <1>4, <1>6, <2>1, <2>2, ClosingIs, RefusedIs
<1> QED BY <1>1, <1>2, <1>7, QuietStep DEF PageOver

\* The queue of held events is replaced.
Rehold(d, q) == [d EXCEPT !.ram.held = q]

\* Other held events do not disturb the facts on the device.
LEMMA ReholdIs ==
  ASSUME NEW d \in DevT, NEW p, NEW h, DevOk(d, p, h), NEW q \in Seq(Events), AllSent(q, p)
  PROVE  /\ Rehold(d, q) \in DevT /\ DevOk(Rehold(d, q), p, h) /\ Keeps(d, Rehold(d, q))
         /\ Rehold(d, q).ram.op = d.ram.op /\ Rehold(d, q).ram.held = q
<1> DEFINE y == [d.ram EXCEPT !.held = q]
           e == Rehold(d, q)
<1>1. d.ram \in RamT
  BY DEF DevT
<1>2. /\ y \in RamT /\ y.intent = d.ram.intent /\ y.stream = d.ram.stream
      /\ y.cursor = d.ram.cursor /\ y.alerts = d.ram.alerts /\ y.seen = d.ram.seen /\ y.early = d.ram.early
      /\ y.held = q /\ y.sendIntent = d.ram.sendIntent /\ y.command = d.ram.command
      /\ y.op = d.ram.op
  BY <1>1 DEF RamT
<1>3. e = [d EXCEPT !.ram = y]
  BY DEF Rehold
<1> HIDE DEF y, e
<1>4. e \in DevT /\ DevOk(e, p, h) /\ Keeps(d, e) /\ e.ram = y
  BY <1>2, <1>3, FlagsKeep
<1> QED BY <1>2, <1>4 DEF e

LEMMA HeldStep == ASSUME GInv, TickHeld PROVE GInv'
<1> USE StateIs
<1> DEFINE q == dev.ram.held
           e == Head(q)
           rest(d) == [d EXCEPT !.ram.held = Tail(@)]
           goesOn == ui' = IF Len(q) = 1 THEN "events" ELSE "held"
<1>1. ui = "held" /\ pc' = pc /\ hist' = hist /\ link' = link
  BY DEF TickHeld
<1>2. q # <<>> /\ dev.ram.op = "none"
  BY <1>1 DEF TickOk
<1>3. /\ Tail(q) \in Seq(Events) /\ AllSent(Tail(q), pc) /\ Sent(e, pc)
      /\ Len(q) \in Nat /\ (Len(q) # 1 => Tail(q) # <<>>)
  BY <1>2, TailIs
<1>4. ASSUME NEW d \in DevT, DevOk(d, pc, hist), Keeps(dev, d), d.ram.op = "none", d.ram.held = q,
             dev' = rest(d), goesOn, page' = page
      PROVE  PageOver(dev)
  <2>1. dev' = Rehold(d, Tail(q))
    BY <1>4 DEF Rehold
  <2>5. /\ Rehold(d, Tail(q)) \in DevT /\ DevOk(Rehold(d, Tail(q)), pc, hist)
        /\ Keeps(d, Rehold(d, Tail(q)))
        /\ Rehold(d, Tail(q)).ram.op = "none" /\ Rehold(d, Tail(q)).ram.held = Tail(q)
    BY <1>3, <1>4, ReholdIs
  <2>2. /\ dev' \in DevT /\ DevOk(dev', pc, hist) /\ Keeps(d, dev')
        /\ dev'.ram.op = "none" /\ dev'.ram.held = Tail(q)
    BY <2>1, <2>5
  <2>3. Keeps(dev, dev')
    BY <1>4, <2>2, KeepsOn
  <2>4. TickOk(ui', page', dev'.ram, pc)
    BY <1>3, <1>4, <2>2 DEF TickOk
  <2> QED BY <2>2, <2>3, <2>4 DEF PageOver
<1>5. CASE e.seq <= dev.ram.cursor
  <2>1. dev' = rest(dev) /\ goesOn /\ page' = page
    BY <1>5 DEF TickHeld
  <2>2. Keeps(dev, dev)
    BY HandledSame DEF Handled
  <2>3. PageOver(dev)
    BY <1>2, <1>4, <2>1, <2>2
  <2> QED BY <1>1, <1>2, <2>3, QuietStep DEF PageOver
<1>6. CASE ~(e.seq <= dev.ram.cursor)
  <2>1. PICK s \in Accept(dev, e, FALSE) :
          IF s.ok THEN dev' = rest(s.dev) /\ goesOn /\ page' = page ELSE Refused(s.dev)
    BY <1>6 DEF TickHeld
  <2>2. Handled(dev, s.dev, pc, hist) /\ s \in Outcomes
    BY <1>3, <2>1, AcceptHandled
  <2>3. s.dev \in DevT /\ DevOk(s.dev, pc, hist) /\ Keeps(dev, s.dev) /\ s.dev.ram.op = "none"
        /\ s.dev.ram.held = q /\ s.ok \in BOOLEAN
    BY <1>2, <2>2 DEF Handled, Outcomes
  <2>4. CASE s.ok
    BY <1>1, <1>2, <1>4, <2>1, <2>3, <2>4, QuietStep DEF PageOver
  <2>5. CASE ~s.ok
    <3>1. PageOver(s.dev)
      BY <2>1, <2>3, <2>5, RefusedIs
    <3>2. PageOver(dev)
      BY <2>3, <3>1, KeepsOn DEF PageOver
    <3> QED BY <1>1, <1>2, <3>2, QuietStep DEF PageOver
  <2> QED BY <2>3, <2>4, <2>5
<1> QED BY <1>5, <1>6

LEMMA EventStep == ASSUME GInv, TickEvent PROVE GInv'
<1> USE StateIs
<1> DEFINE e == Head(link.events)
           rest == [link EXCEPT !.events = Tail(@)]
           full(s) == ~s.ok /\ Len(s.dev.ram.held) >= HeldMax
           held(s) == IF s.ok THEN s.dev.ram.held
                      ELSE IF full(s) THEN <<>> ELSE Append(s.dev.ram.held, e)
<1>1. ui' = "events" /\ page' = page /\ pc' = pc /\ hist' = hist /\ link.events # <<>>
  BY DEF TickEvent
<1>2. PICK s \in Accept(dev, e, FALSE) : link' = Leave(rest, ~full(s)) /\ dev' = Rehold(s.dev, held(s))
  BY DEF TickEvent, Rehold
<1>3. LinkOk(rest, dev.ram, pc) /\ rest.rpc = link.rpc /\ rest.request = link.request
      /\ e \in Events /\ Sent(e, pc)
  BY <1>1, NextEvent
<1>4. Handled(dev, s.dev, pc, hist)
  BY <1>2, <1>3, AcceptHandled
<1>5. s.dev \in DevT /\ DevOk(s.dev, pc, hist) /\ Keeps(dev, s.dev) /\ s.dev.ram.op = dev.ram.op
      /\ s.dev.ram.held = dev.ram.held
  BY <1>4 DEF Handled
<1>6. held(s) \in Seq(Events) /\ AllSent(held(s), pc)
  <2>1. <<>> \in Seq(Events) /\ AllSent(<<>>, pc)
    BY DEF AllSent
  <2>2. LET q == Append(dev.ram.held, e) IN q \in Seq(Events) /\ AllSent(q, pc)
    BY <1>3 DEF AllSent
  <2> QED BY <1>5, <2>1, <2>2
<1> HIDE DEF held, e, rest, full
<1>7. /\ dev' \in DevT /\ DevOk(dev', pc, hist) /\ Keeps(s.dev, dev') /\ dev'.ram.op = dev.ram.op
  BY <1>2, <1>5, <1>6, ReholdIs
<1>8. Keeps(dev, dev')
  BY <1>5, <1>7, KeepsOn
<1>9. TickOk(ui', page', dev'.ram, pc)
  BY <1>1 DEF TickOk
<1>10. link' = rest \/ link' = Aborted(rest)
  BY <1>2 DEF Leave
<1>11. CASE link' = rest
  <2>1. dev'.ram \in RamT
    BY <1>7 DEF DevT
  <2>2. LinkOk(link', dev'.ram, pc)
    BY <1>3, <1>7, <1>8, <1>11, <2>1, LinkKeeps DEF Keeps
  <2> QED BY <1>1, <1>3, <1>7, <1>8, <1>9, <1>11, <2>2, DevStep
<1>12. CASE link' = Aborted(rest)
  <2>1. LinkOk(link', dev'.ram, pc) /\ link'.rpc \in {"idle", "error"}
    BY <1>3, <1>12, BrokenLink
  <2> QED BY <1>1, <1>7, <1>8, <1>9, <2>1, DevStep
<1> QED BY <1>10, <1>11, <1>12

\* What the tick does when it finds no session.
LEMMA OfflineHandled ==
  ASSUME NEW d \in DevT, NEW p, NEW h, DevOk(d, p, h), NEW e \in Offline(d)
  PROVE  e \in DevT /\ DevOk(e, p, h) /\ Keeps(d, e) /\ e.ram.op = d.ram.op
<1> DEFINE y == [d.ram EXCEPT !.connected = FALSE, !.fresh = FALSE, !.sendIntent = FALSE,
                              !.held = <<>>, !.recover = TRUE]
           f == [d EXCEPT !.ram = y]
<1>1. CASE e = d
  BY <1>1, HandledSame DEF Handled
<1>2. CASE e \in Unsure(f)
  <2>1. d.ram \in RamT
    BY DEF DevT
  <2>2. <<>> \in Seq(Events) /\ AllSent(<<>>, p)
    BY DEF AllSent
  <2>3. /\ y \in RamT /\ y.intent = d.ram.intent /\ y.stream = d.ram.stream
        /\ y.cursor = d.ram.cursor /\ y.alerts = d.ram.alerts /\ y.seen = d.ram.seen /\ y.early = d.ram.early
        /\ y.held = <<>> /\ y.sendIntent = FALSE /\ y.command = d.ram.command
        /\ y.op = d.ram.op
    BY <2>1, <2>2 DEF RamT
  <2> HIDE DEF y
  <2>4. f \in DevT /\ DevOk(f, p, h) /\ Keeps(d, f) /\ f.ram = y
    BY <2>2, <2>3, FlagsKeep
  <2> HIDE DEF f
  <2>5. e \in DevT /\ Handled(f, e, p, h)
    BY <1>2, <2>4, UnsureHandled
  <2>6. DevOk(e, p, h) /\ Keeps(f, e) /\ e.ram.op = f.ram.op
    BY <2>5 DEF Handled
  <2>7. Keeps(d, e)
    BY <2>4, <2>5, <2>6, KeepsOn
  <2> QED BY <2>3, <2>4, <2>5, <2>6, <2>7
<1>3. f = [d EXCEPT !.ram.connected = FALSE, !.ram.fresh = FALSE, !.ram.sendIntent = FALSE,
                    !.ram.held = <<>>, !.ram.recover = TRUE]
  BY DEF DevT
<1> HIDE DEF y, f
<1>4. e = d \/ e \in Unsure(f)
  BY <1>3 DEF Offline
<1> QED BY <1>1, <1>2, <1>4

\* What the first tick with a session resets: flags only.
LEMMA OnlineIs ==
  ASSUME NEW x \in RamT, NEW r, r = Online(x)
  PROVE  /\ r \in RamT /\ r.intent = x.intent /\ r.stream = x.stream
         /\ r.cursor = x.cursor /\ r.alerts = x.alerts /\ r.seen = x.seen /\ r.early = x.early
         /\ r.held = x.held /\ r.sendIntent = x.sendIntent /\ r.command = x.command
         /\ r.op = x.op
BY DEF Online, RamT

\* Of the history variables, only tokens, closed commands and what the user
\* has read are looked at.
LEMMA HistSame ==
  ASSUME NEW p, NEW h, NEW k, k.token = h.token, k.closed = h.closed, k.read = h.read
  PROVE  /\ PcOk(p, h) => PcOk(p, k)
         /\ \A x : Sound(x, p, h) => Sound(x, p, k)
         /\ \A d : DevOk(d, p, h) => DevOk(d, p, k)
         /\ \A r : AcksOk(p, r, h) => AcksOk(p, r, k)
<1>1. \A x : Sound(x, p, h) => Sound(x, p, k)
  BY DEF Sound, OwnerOk, KeptOk, CursorOk, ListOk
<1>2. \A d : DevOk(d, p, h) => DevOk(d, p, k)
  BY <1>1 DEF DevOk, RamOk, SlotsOk
<1> QED BY <1>1, <1>2 DEF PcOk, AcksOk

\* What the choice of the next request implies.
LEMMA DoingIs ==
  ASSUME NEW r \in RamT, NEW op, op = Doing(r), op \in {"execute", "list", "ack", "get"}
  PROVE  /\ op = "execute" <=> r.sendIntent
         /\ op = "get" => r.intent.unresolved /\ r.intent.cmd # 0
BY DEF Doing, RamT

\* What starting a request changes in memory.
LEMMA ConsumedIs ==
  ASSUME NEW r \in RamT, NEW op \in Ops, r.sendIntent => op = "execute",
         NEW y, y = Consumed(r, op)
  PROVE  /\ y \in RamT /\ y.intent = r.intent /\ y.stream = r.stream
         /\ y.cursor = r.cursor /\ y.alerts = r.alerts /\ y.seen = r.seen /\ y.early = r.early
         /\ y.held = r.held /\ ~y.sendIntent /\ y.command = r.command
         /\ y.op = op
<1> DEFINE si == r.sendIntent /\ op # "execute"
           ack == r.ack /\ op # "ack"
           asked == r.asked \/ op = "get"
<1>1. y = [r EXCEPT !.op = op, !.sendIntent = si, !.ack = ack, !.asked = asked]
  BY DEF Consumed
<1>2. si = FALSE /\ ack \in BOOLEAN /\ asked \in BOOLEAN
  OBVIOUS
<1> HIDE DEF si, ack, asked
<1>3. /\ y \in RamT /\ y.intent = r.intent /\ y.stream = r.stream
      /\ y.cursor = r.cursor /\ y.alerts = r.alerts /\ y.seen = r.seen /\ y.early = r.early
      /\ y.held = r.held /\ y.command = r.command /\ y.op = op
  BY <1>1, <1>2 DEF RamT
<1>4. y.sendIntent = si
  BY <1>1 DEF RamT
<1> QED BY <1>2, <1>3, <1>4, Zenon

\* start(): the request is made from the memory of this moment.
LEMMA SendStep ==
  ASSUME GInv, NEW r, r = Online(dev.ram), r.op = "none", Ready,
         NEW op, op = Doing(r), op \in {"execute", "list", "ack", "get"}, Send(r, op),
         ui' = "idle", page' = page, pc' = pc
  PROVE  GInv'
<1> USE StateIs
<1>1. /\ r \in RamT /\ r.intent = dev.ram.intent /\ r.stream = dev.ram.stream
      /\ r.cursor = dev.ram.cursor /\ r.alerts = dev.ram.alerts /\ r.seen = dev.ram.seen /\ r.early = dev.ram.early
      /\ r.held = dev.ram.held /\ r.sendIntent = dev.ram.sendIntent /\ r.command = dev.ram.command
      /\ r.op = dev.ram.op
  BY OnlineIs
<1> DEFINE y == Consumed(r, op)
           q == [op |-> op, arg |-> Argument(r, op)]
<1>2. op \in Ops /\ (op = "execute" <=> r.sendIntent) /\ (op = "get" => r.intent.unresolved /\ r.intent.cmd # 0)
  BY <1>1, DoingIs DEF Ops
<1> HIDE DEF y
<1>3. /\ y \in RamT /\ y.intent = r.intent /\ y.stream = r.stream
      /\ y.cursor = r.cursor /\ y.alerts = r.alerts /\ y.seen = r.seen /\ y.early = r.early
      /\ y.held = r.held /\ ~y.sendIntent /\ y.command = r.command
      /\ y.op = op
  <2>1. op \in Ops /\ (r.sendIntent => op = "execute") /\ r \in RamT
    BY <1>1, <1>2
  <2>2. y = Consumed(r, op)
    BY DEF y
  <2> QED BY <2>1, <2>2, ConsumedIs
<1>4. dev' = [dev EXCEPT !.ram = y] /\ link' = Started(link, q)
  BY DEF Send, y
<1>5. r.intent \in Intents /\ r.intent.token \in Nat /\ r.intent.cmd \in Nat /\ r.cursor \in Nat
  BY <1>1 DEF RamT, Intents
<1>6. /\ r.intent.cmd \in {0, r.intent.token} /\ (r.intent.token = 0 => ~r.intent.unresolved)
      /\ (r.intent.cmd # 0 => pc.cmds[r.intent.cmd] # "none")
      /\ r.intent.token <= hist.token
      /\ r.cursor <= Len(pc.log) /\ (~r.stream => r.cursor = 0)
      /\ (r.sendIntent => r.intent.unresolved /\ r.intent.cmd = 0)
  BY <1>1 DEF RamOk, Sound, OwnerOk, CursorOk
<1>7. q \in Requests /\ q.op = op /\ RequestOk(q, y, pc)
  <2>1. q.op = op /\ q.arg = Argument(r, op)
    OBVIOUS
  <2>2. CASE op = "execute"
    <3>1. q.arg = r.intent.token
      BY <2>1, <2>2 DEF Argument
    <3> QED BY <1>2, <1>3, <1>5, <2>1, <2>2, <3>1 DEF RequestOk, Requests
  <2>3. CASE op = "get"
    <3>1. q.arg = r.intent.cmd
      BY <2>1, <2>3 DEF Argument
    <3> QED BY <1>2, <1>3, <1>5, <1>6, <2>1, <2>3, <3>1 DEF RequestOk, Requests
  <2>4. CASE op \in {"list", "ack"}
    <3>1. q.arg = r.cursor
      BY <2>1, <2>4 DEF Argument
    <3> QED BY <1>2, <1>3, <1>5, <1>6, <2>1, <2>4, <3>1 DEF RequestOk, Requests
  <2> QED BY <2>2, <2>3, <2>4
<1> HIDE DEF q
<1>8. /\ link' \in LinkT /\ link'.rpc = "sending" /\ link'.request = q /\ link'.online = link.online
      /\ link'.events = link.events /\ link'.ble = link.ble
  BY <1>4, <1>7 DEF Started, LinkT
<1>9. link.online /\ link.rpc = "idle"
  BY DEF Ready
<1>10. LinkOk(link', y, pc)
  <2>1. pc.reply = NoMessage
    BY <1>9 DEF LinkOk
  <2>2. AllSent(link'.events, pc)
    BY <1>8 DEF LinkOk
  <2> QED BY <1>3, <1>7, <1>8, <1>9, <2>1, <2>2 DEF LinkOk
<1>11. RamOk(y, pc, hist)
  <2>1. Sound(y, pc, hist)
    BY <1>1, <1>3, Alike DEF RamOk
  <2> QED BY <1>1, <1>2, <1>3, <1>6, <2>1 DEF RamOk
<1>12. /\ dev' \in DevT /\ DevOk(dev', pc, hist) /\ dev'.ram = y /\ Slots(dev') = Slots(dev)
  BY <1>1, <1>3, <1>4, <1>11, Reram
<1>13. /\ hist' \in HistT /\ hist'.token = hist.token /\ hist'.closed = hist.closed
       /\ hist'.read = hist.read
       /\ \A t \in Tokens : hist'.credit[t] >= 0
  <2>1. \A t \in Tokens : hist.credit[t] \in Int /\ hist.credit[t] >= 0
    BY DEF GInv, CreditOk, HistT
  <2>2. CASE op = "execute"
    <3>1. r.intent.token \in Tokens /\ hist.credit[r.intent.token] >= 1
      <4>1. r.intent.token \in Nat /\ r.intent.token # 0 /\ r.intent.token <= hist.token
        BY <1>2, <1>5, <1>6, <2>2
      <4>2. hist.token \in Nat /\ MaxCommands \in Nat /\ hist.token <= MaxCommands
        BY PcIs, GuardianClientAssumption
      <4>3. hist.credit[r.intent.token] >= 1
        BY <1>1, <1>2, <2>2 DEF GInv, CreditOk
      <4> QED BY <4>1, <4>2, <4>3 DEF Tokens
    <3>2. hist' = [hist EXCEPT !.credit = [hist.credit EXCEPT ![r.intent.token] = @ - 1]]
      BY <2>2 DEF Send
    <3> DEFINE c == [hist.credit EXCEPT ![r.intent.token] = @ - 1]
    <3>3. c \in [Tokens -> Int] /\ \A t \in Tokens : c[t] >= 0
      BY <2>1, <3>1 DEF HistT
    <3> HIDE DEF c
    <3> QED BY <3>2, <3>3 DEF HistT, c
  <2>3. CASE op # "execute"
    BY <2>1, <2>3 DEF Send
  <2> QED BY <2>2, <2>3
<1>14. PcOk(pc', hist') /\ DevOk(dev', pc', hist') /\ AcksOk(pc', dev'.ram, hist')
  BY <1>1, <1>3, <1>12, <1>13, HistSame DEF GInv, AcksOk
<1>15. TickOk(ui', page', dev'.ram, pc')
  BY DEF TickOk
<1>16. CreditOk(hist', dev'.ram)
  BY <1>3, <1>12, <1>13 DEF CreditOk
<1>17. LiveOk(link', dev', pc', hist')
  <2>1. \A t : Live(t, link', dev'.ram, pc') => Live(t, link, dev.ram, pc)
    BY <1>1, <1>2, <1>3, <1>7, <1>8, <1>12 DEF Live, RequestOk
  <2> QED BY <1>1, <1>3, <1>12, <1>13, <2>1 DEF GInv, LiveOk
<1> QED BY <1>10, <1>12, <1>14, <1>15, <1>16, <1>17 DEF GInv

LEMMA StartStep == ASSUME GInv, TickStart PROVE GInv'
<1> USE StateIs
<1>1. ui' = "idle" /\ page' = page /\ pc' = pc
  BY DEF TickStart
<1>2. TickOk(ui', page', dev'.ram, pc)
  BY <1>1 DEF TickOk
<1>3. CASE ~Session
  <2>1. dev' \in Offline(dev) /\ link' = link /\ hist' = hist
    BY <1>3 DEF TickStart
  <2>2. DevOk(dev', pc, hist) /\ Keeps(dev, dev') /\ dev'.ram.op = dev.ram.op
    BY <2>1, OfflineHandled
  <2> QED BY <1>1, <1>2, <2>1, <2>2, QuietStep
<1>4. CASE Session
  <2> DEFINE r == Online(dev.ram)
             op == Doing(r)
  <2>1. /\ r \in RamT /\ r.intent = dev.ram.intent /\ r.stream = dev.ram.stream
        /\ r.cursor = dev.ram.cursor /\ r.alerts = dev.ram.alerts /\ r.seen = dev.ram.seen /\ r.early = dev.ram.early
        /\ r.held = dev.ram.held /\ r.sendIntent = dev.ram.sendIntent /\ r.command = dev.ram.command
        /\ r.op = dev.ram.op
    BY OnlineIs
  <2>2. \/ dev' = [dev EXCEPT !.ram = r] /\ UNCHANGED <<link, hist>>
        \/ r.op = "none" /\ Polled(r)
        \/ r.op = "none" /\ TellSeen(r)
        \/ r.op = "none" /\ Withdraw(r)
        \/ r.op = "none" /\ Ready /\ op \in {"execute", "list", "ack", "get"} /\ Send(r, op)
    BY <1>4 DEF TickStart
  <2>3. CASE dev' = [dev EXCEPT !.ram = r] /\ UNCHANGED <<link, hist>>
    <3> HIDE DEF r
    <3>1. dev' \in DevT /\ DevOk(dev', pc, hist) /\ Keeps(dev, dev') /\ dev'.ram = r
      BY <2>1, <2>3, FlagsKeep
    <3> QED BY <1>1, <1>2, <2>1, <2>3, <3>1, QuietStep
  <2>4. CASE Polled(r)
    <3> DEFINE y == [r EXCEPT !.fresh = TRUE]
    <3> HIDE DEF r
    <3>1. /\ y \in RamT /\ y.intent = r.intent /\ y.stream = r.stream
          /\ y.cursor = r.cursor /\ y.alerts = r.alerts /\ y.seen = r.seen /\ y.early = r.early
          /\ y.held = r.held /\ y.sendIntent = r.sendIntent /\ y.command = r.command
          /\ y.op = r.op
      BY <2>1 DEF RamT
    <3>2. dev' = [dev EXCEPT !.ram = y] /\ UNCHANGED <<link, hist>>
      BY <2>4 DEF Polled
    <3> HIDE DEF y
    <3>3. dev' \in DevT /\ DevOk(dev', pc, hist) /\ Keeps(dev, dev') /\ dev'.ram = y
      BY <2>1, <3>1, <3>2, FlagsKeep
    <3> QED BY <1>1, <1>2, <2>1, <3>1, <3>2, <3>3, QuietStep
  <2>7. CASE TellSeen(r)
    <3> HIDE DEF r
    <3>1. PICK k \in r.seen : dev' \in Results(Saves([dev EXCEPT !.ram = [r EXCEPT !.seen = @ \ {k}]]))
      BY <2>7 DEF TellSeen
    <3>2. UNCHANGED <<link, hist>>
      BY <2>7 DEF TellSeen
    <3> DEFINE y == [r EXCEPT !.seen = @ \ {k}]
               e == [dev EXCEPT !.ram = y]
    <3>3. /\ y \in RamT /\ y.intent = r.intent /\ y.stream = r.stream
          /\ y.cursor = r.cursor /\ y.alerts = r.alerts /\ y.seen \subseteq r.seen /\ y.early = r.early
          /\ y.held = r.held /\ y.sendIntent = r.sendIntent /\ y.command = r.command
          /\ y.op = r.op
      BY <2>1 DEF RamT
    <3>4. PICK s \in Saves(e) : dev' = s.dev
      BY <3>1 DEF Results
    <3> HIDE DEF y
    <3>5. RamOk(y, pc, hist)
      BY <2>1, <3>3, RamAlike DEF Alongside, RamOk
    <3>6. DevOk(e, pc, hist) /\ e \in DevT /\ e.ram = y /\ Slots(e) = Slots(dev)
      BY <2>1, <3>3, <3>5, Reram
    <3> HIDE DEF e
    <3>7. Keeps(dev, e)
      BY <2>1, <3>3, <3>6 DEF Keeps
    <3>8. /\ dev' \in DevT /\ DevOk(dev', pc, hist) /\ Keeps(e, dev')
          /\ \E f \in BOOLEAN : dev'.ram = [y EXCEPT !.failed = f]
      BY <3>4, <3>6, SaveKeeps
    <3>9. dev'.ram.op = dev.ram.op
      BY <2>1, <3>3, <3>8 DEF RamT
    <3>10. Keeps(dev, dev')
      BY <3>6, <3>7, <3>8, KeepsOn
    <3> QED BY <1>1, <1>2, <3>2, <3>8, <3>9, <3>10, QuietStep
  <2>5. CASE r.op = "none" /\ Withdraw(r)
    <3> DEFINE y == [r EXCEPT !.sendIntent = FALSE, !.command.state = "unknown"]
    <3> HIDE DEF r
    <3>1. [r.command EXCEPT !.state = "unknown"] \in Commands
          /\ [r.command EXCEPT !.state = "unknown"].id = r.command.id
          /\ [r.command EXCEPT !.state = "unknown"].state = "unknown"
      BY <2>1 DEF RamT, Commands, CmdStates
    <3>2. /\ y \in RamT /\ y.intent = r.intent /\ y.stream = r.stream
          /\ y.cursor = r.cursor /\ y.alerts = r.alerts /\ y.seen = r.seen /\ y.early = r.early
          /\ y.held = r.held /\ y.sendIntent = FALSE /\ y.command.id = r.command.id
          /\ y.command.state = "unknown" /\ y.op = r.op
      BY <2>1, <3>1 DEF RamT
    <3>3. dev' = [dev EXCEPT !.ram = y] /\ UNCHANGED <<link, hist>>
      BY <2>5 DEF Withdraw
    <3> HIDE DEF y
    <3>4. RamOk(y, pc, hist)
      BY <2>1, <2>5, <3>2, RamAlike DEF Alongside
    <3>5. dev' \in DevT /\ DevOk(dev', pc, hist) /\ dev'.ram = y /\ Slots(dev') = Slots(dev)
      BY <2>1, <3>2, <3>3, <3>4, Reram
    <3>6. Keeps(dev, dev')
      BY <2>1, <3>2, <3>5 DEF Keeps
    <3> QED BY <1>1, <1>2, <2>1, <3>2, <3>3, <3>5, <3>6, QuietStep
  <2>6. CASE r.op = "none" /\ Ready /\ op \in {"execute", "list", "ack", "get"} /\ Send(r, op)
    BY <1>1, <2>6, SendStep
  <2> QED BY <2>2, <2>3, <2>4, <2>5, <2>6, <2>7
<1> QED BY <1>3, <1>4

LEMMA RetrySaveStep == ASSUME GInv, RetrySave PROVE GInv'
<1> USE StateIs
<1>1. ui' = ui /\ page' = page /\ pc' = pc /\ hist' = hist /\ link' = link /\ ui = "idle"
  BY DEF RetrySave
<1>2. PICK s \in Saves(dev) : dev' = s.dev
  BY DEF RetrySave, Results
<1>3. /\ dev' \in DevT /\ DevOk(dev', pc, hist) /\ Keeps(dev, dev')
      /\ \E f \in BOOLEAN : dev'.ram = [dev.ram EXCEPT !.failed = f]
  BY <1>2, SaveKeeps
<1>4. dev'.ram.op = dev.ram.op
  BY <1>3 DEF RamT
<1>5. TickOk(ui', page', dev'.ram, pc)
  BY <1>1 DEF TickOk
<1> QED BY <1>1, <1>3, <1>4, <1>5, QuietStep

-----------------------------------------------------------------------------
(* The user's decisions.                                                    *)

\* Tokens are given out and closed, alerts are read, and nothing is taken back.
Grown(h, k) == h.token <= k.token /\ h.closed \subseteq k.closed /\ h.read \subseteq k.read

\* A new decision keeps what was known of the older ones.
LEMMA HistGrows ==
  ASSUME NEW p, NEW h \in HistT, NEW k \in HistT, Grown(h, k), PcOk(p, h)
  PROVE  /\ PcOk(p, k)
         /\ \A x : x.intent \in Intents /\ Sound(x, p, h) => Sound(x, p, k)
         /\ \A d \in DevT : SlotsOk(d, p, h) => SlotsOk(d, p, k)
         /\ \A r \in RamT : RamOk(r, p, h) => RamOk(r, p, k)
         /\ \A r : AcksOk(p, r, h) => AcksOk(p, r, k)
<1>1. h.token \in Nat /\ k.token \in Nat /\ h.token <= k.token /\ Tokens \subseteq Nat
  <2>1. MaxCommands \in Nat
    BY GuardianClientAssumption
  <2>2. h.token \in 0 .. MaxCommands /\ k.token \in 0 .. MaxCommands
    BY DEF HistT
  <2> QED BY <2>1, <2>2 DEF Grown, Tokens
<1>2. PcOk(p, k)
  <2>1. ASSUME NEW t \in Tokens, p.cmds[t] # "none"
        PROVE  t <= k.token
    <3>1. t \in Nat /\ t <= h.token
      BY <1>1, <2>1 DEF PcOk
    <3> QED BY <1>1, <3>1
  <2> QED BY <2>1 DEF PcOk
<1>3. ASSUME NEW x, x.intent \in Intents, Sound(x, p, h)
      PROVE  Sound(x, p, k)
  <2>1. x.intent.token \in Nat
    BY <1>3 DEF Intents
  <2>2. OwnerOk(x, p, k)
    BY <1>1, <1>3, <2>1 DEF Sound, OwnerOk
  <2>3. KeptOk(x, p, k)
    BY <1>3 DEF Sound, KeptOk, Grown
  <2>4. ListOk(x.alerts, x.seen, x.cursor, p, k)
    <3>1. h.read \subseteq k.read /\ ListOk(x.alerts, x.seen, x.cursor, p, h)
      BY <1>3 DEF Sound, CursorOk, Grown
    <3> QED BY <3>1 DEF ListOk
  <2>5. CursorOk(x, p, k)
    BY <1>3, <2>4 DEF Sound, CursorOk
  <2> QED BY <1>3, <2>2, <2>3, <2>5 DEF Sound
<1>4. \A d \in DevT : \A b \in Slots(d) : b.intent \in Intents
  BY DEF DevT, Slots, BodyT
<1>5. \A r \in RamT : r.intent \in Intents
  BY DEF RamT
<1>6. \A d \in DevT : SlotsOk(d, p, h) => SlotsOk(d, p, k)
  BY <1>3, <1>4 DEF SlotsOk
<1>7. \A r \in RamT : RamOk(r, p, h) => RamOk(r, p, k)
  BY <1>3, <1>5 DEF RamOk
<1>8. ASSUME NEW r, AcksOk(p, r, h)
      PROVE  AcksOk(p, r, k)
  BY <1>1, <1>8 DEF AcksOk
<1> QED BY <1>2, <1>3, <1>6, <1>7, <1>8

\* A decision is taken while nothing is asked.
LEMMA DecisionStep ==
  ASSUME GInv, ui = "idle", dev.ram.op = "none", UNCHANGED <<link, ui, page, pc>>,
         hist' \in HistT, Grown(hist, hist'), CreditOk(hist', dev'.ram),
         dev' \in DevT, DevOk(dev', pc, hist'), dev.ram.cursor <= dev'.ram.cursor,
         LiveOk(link, dev', pc, hist')
  PROVE  GInv'
<1> USE StateIs
<1>1. PcOk(pc, hist') /\ AcksOk(pc, dev.ram, hist')
  BY HistGrows DEF GInv
<1>2. AcksOk(pc, dev'.ram, hist')
  <2>1. dev'.ram.cursor \in Nat /\ pc.acked \in Nat /\ \A q \in pc.late : q.arg \in Nat
    BY DEF DevT, RamT, PcT, Requests
  <2> QED BY <1>1, <2>1 DEF AcksOk
<1>3. LinkOk(link, dev'.ram, pc)
  <2>1. AllSent(link.events, pc) /\ link.rpc \in {"idle", "error"}
    BY DEF LinkOk, LinkT
  <2>2. pc.reply # NoMessage => link.ble = "linked" /\ ~link.online
    BY <2>1 DEF LinkOk
  <2> QED BY <2>1, <2>2, LinkQuiet
<1>4. TickOk(ui, page, dev'.ram, pc)
  BY DEF TickOk
<1> QED BY <1>1, <1>2, <1>3, <1>4 DEF GInv

LEMMA ExecuteStep == ASSUME GInv, Execute PROVE GInv'
<1>0. PICK s \in Commit(dev, NewIntent(dev.ram, hist.token + 1), dev.ram) :
        /\ dev' = [s.dev EXCEPT !.ram.sendIntent = @ \/ s.ok]
        /\ hist' = [hist EXCEPT !.token = @ + 1, !.credit[hist.token + 1] = IF s.ok THEN @ + 1 ELSE @,
                                !.closed = @ \cup ({dev.ram.intent.token} \ {0})]
  BY Zenon DEF Execute
<1> USE StateIs
<1> DEFINE t == hist.token + 1
           old == dev.ram
           new == NewIntent(old, t)
<1>1. /\ UNCHANGED <<link, ui, page, pc>> /\ ui = "idle" /\ old.op = "none"
      /\ ~old.intent.unresolved /\ hist.token < MaxCommands
  BY DEF Execute, Decides
<1>2. s \in Commit(dev, new, old)
  OBVIOUS
<1>3. /\ t \in Tokens /\ t # 0 /\ t \in Nat /\ hist.token \in Nat /\ hist.token < t
      /\ t \in 0 .. MaxCommands /\ MaxCommands \in Nat
  <2>1. MaxCommands \in Nat /\ hist.token \in Nat
    BY PcIs, GuardianClientAssumption
  <2> QED BY <1>1, <2>1 DEF Tokens
<1>4. pc.cmds[t] = "none"
  BY <1>3, PcIs DEF PcOk
<1>5. /\ old.intent \in Intents /\ old.intent.token \in Nat /\ old.intent.token <= hist.token
      /\ OwnerOk(old, pc, hist) /\ ~old.sendIntent
  BY <1>1 DEF RamOk, Sound, OwnerOk, RamT, Intents
<1> DEFINE int == [token |-> t, cmd |-> 0, unresolved |-> TRUE]
           cmd == [id |-> 0, state |-> "pending"]
<1>6. int \in Intents /\ cmd \in Commands
  BY <1>3 DEF Intents, Commands, CmdStates
<1>7. /\ new \in RamT /\ new.intent = int /\ new.command = cmd
      /\ new.stream = old.stream /\ new.cursor = old.cursor /\ new.alerts = old.alerts /\ new.seen = old.seen
      /\ new.early = old.early /\ new.held = old.held /\ new.op = "none"
      /\ new.sendIntent = old.sendIntent
  BY <1>1, <1>6 DEF NewIntent, RamT
<1>8. int.token = t /\ int.cmd = 0 /\ int.unresolved /\ cmd.state = "pending"
  OBVIOUS
<1> HIDE DEF new, int, cmd, t
<1>9. /\ hist' \in HistT /\ Grown(hist, hist') /\ hist'.token = t /\ hist'.retries = hist.retries
      /\ \A u \in Tokens : hist'.credit[u] >= 0
      /\ s.ok => hist'.credit[t] >= 1
      /\ hist'.closed = hist.closed \cup ({old.intent.token} \ {0})
  <2> DEFINE v == IF s.ok THEN hist.credit[t] + 1 ELSE hist.credit[t]
             c == [hist.credit EXCEPT ![t] = v]
             cl == hist.closed \cup ({old.intent.token} \ {0})
  <2>1. hist.credit \in [Tokens -> Int] /\ \A u \in Tokens : hist.credit[u] >= 0
    BY DEF GInv, CreditOk, HistT
  <2>2. c \in [Tokens -> Int] /\ (\A u \in Tokens : c[u] >= 0) /\ (s.ok => c[t] >= 1)
    <3>1. v \in Int /\ v >= 0 /\ (s.ok => v >= 1)
      BY <1>3, <2>1
    <3> HIDE DEF v
    <3> QED BY <1>3, <2>1, <3>1
  <2>3. cl \subseteq Tokens
    BY <1>3, <1>5, PcIs DEF Tokens
  <2>4. hist' = [hist EXCEPT !.token = t, !.credit = c, !.closed = cl]
    BY <1>0 DEF t
  <2> HIDE DEF c, cl
  <2>5. hist' \in HistT /\ hist'.token = t /\ hist'.retries = hist.retries /\ hist'.credit = c
        /\ hist'.closed = cl /\ hist'.read = hist.read
    BY <1>3, <2>2, <2>3, <2>4 DEF HistT
  <2>6. hist.token <= t
    BY <1>3
  <2> QED BY <2>2, <2>5, <2>6 DEF Grown, cl
<1>10. Sound(old, pc, hist') /\ SlotsOk(dev, pc, hist') /\ RamOk(old, pc, hist')
  BY <1>9, HistGrows DEF RamOk
<1>11. Sound(new, pc, hist')
  <2>1. OwnerOk(new, pc, hist') /\ OutcomeOk(new, pc)
    BY <1>3, <1>7, <1>8, <1>9 DEF OwnerOk, OutcomeOk
  <2>2. EarlyOk(new, pc) /\ CursorOk(new, pc, hist')
    BY <1>7, <1>10 DEF Sound, EarlyOk, CursorOk
  <2>3. KeptOk(new, pc, hist')
    <3>1. \A k \in 1 .. old.cursor : k \in 1 .. Len(pc.log)
      BY <1>10, PcIs DEF Sound, CursorOk
    <3>2. \A k \in 1 .. old.cursor : pc.log[k].kind = "command" /\ pc.log[k].state = "completed" => pc.log[k].cmd # t
      BY <1>4, <3>1 DEF PcOk
    <3> QED BY <1>7, <1>8, <3>2 DEF KeptOk
  <2> QED BY <2>1, <2>2, <2>3 DEF Sound
<1>12. /\ s \in Outcomes /\ SlotsOk(s.dev, pc, hist')
       /\ s.ok => s.dev.ram = [new EXCEPT !.failed = FALSE]
       /\ ~s.ok => s.dev.ram = [old EXCEPT !.failed = TRUE]
       /\ \A b \in Slots(s.dev) : b = Body(new) \/ (b \in Slots(dev) /\ ~s.ok)
  <2>1. dev.ram.cursor <= new.cursor /\ old.cursor = dev.ram.cursor
    BY <1>7
  <2> QED BY <1>2, <1>7, <1>10, <1>11, <2>1, CommitSound
<1>13. s.dev \in DevT /\ s.ok \in BOOLEAN /\ s.dev.ram \in RamT
  BY <1>12 DEF Outcomes, DevT
<1>14. PICK x \in {new, old} :
        /\ s.ok <=> x = new
        /\ s.dev.ram.intent = x.intent /\ s.dev.ram.command = x.command
        /\ s.dev.ram.stream = x.stream /\ s.dev.ram.cursor = x.cursor
        /\ s.dev.ram.alerts = x.alerts /\ s.dev.ram.seen = x.seen
        /\ s.dev.ram.early = x.early /\ s.dev.ram.held = x.held /\ s.dev.ram.op = x.op
        /\ s.dev.ram.sendIntent = x.sendIntent
  <2>1. new # old
    BY <1>1, <1>7, <1>8
  <2>2. CASE s.ok
    BY <1>7, <1>12, <2>1, <2>2 DEF RamT
  <2>3. CASE ~s.ok
    BY <1>12, <2>1, <2>3 DEF RamT
  <2> QED BY <2>2, <2>3
<1> DEFINE y == [s.dev.ram EXCEPT !.sendIntent = @ \/ s.ok]
<1>15. /\ y \in RamT /\ y.intent = x.intent /\ y.command = x.command
       /\ y.stream = x.stream /\ y.cursor = x.cursor /\ y.alerts = x.alerts /\ y.seen = x.seen
       /\ y.early = x.early /\ y.held = x.held /\ y.op = x.op
       /\ y.sendIntent <=> s.ok
  <2> DEFINE z == s.dev.ram
             si == z.sendIntent \/ s.ok
  <2>1. ~x.sendIntent
    BY <1>5, <1>7, <1>14
  <2>2. z \in RamT /\ si \in BOOLEAN /\ (si <=> s.ok)
    BY <1>13, <1>14, <2>1
  <2>3. y = [z EXCEPT !.sendIntent = si]
    OBVIOUS
  <2> HIDE DEF si, z, y
  <2>4. /\ y \in RamT /\ y.intent = z.intent /\ y.command = z.command
        /\ y.stream = z.stream /\ y.cursor = z.cursor /\ y.alerts = z.alerts /\ y.seen = z.seen
        /\ y.early = z.early /\ y.held = z.held /\ y.op = z.op /\ y.sendIntent = si
    BY <2>2, <2>3 DEF RamT
  <2> QED BY <1>14, <2>2, <2>4 DEF z
<1>16. dev' = [s.dev EXCEPT !.ram = y]
  BY <1>0, <1>13 DEF DevT
<1> HIDE DEF y
<1>17. RamOk(y, pc, hist')
  <2>1. Sound(y, pc, hist')
    BY <1>10, <1>11, <1>15, Alike
  <2>2. AllSent(y.held, pc)
    BY <1>7, <1>15 DEF RamOk
  <2>3. y.op = "none" /\ (y.sendIntent => y.intent.unresolved /\ y.intent.cmd = 0)
    BY <1>1, <1>7, <1>8, <1>14, <1>15
  <2> QED BY <2>1, <2>2, <2>3 DEF RamOk
<1>18. y.cursor = s.dev.ram.cursor
  BY <1>14, <1>15
<1>19. /\ DevOk(dev', pc, hist') /\ dev' \in DevT /\ dev'.ram = y /\ Slots(dev') = Slots(s.dev)
  BY <1>12, <1>13, <1>15, <1>16, <1>17, <1>18, Reram
<1>20. CreditOk(hist', dev'.ram)
  BY <1>7, <1>8, <1>9, <1>14, <1>15, <1>19 DEF CreditOk
<1>21. LiveOk(link, dev', pc, hist')
  <2> SUFFICES ASSUME NEW u \in Tokens \ hist'.closed, Live(u, link, dev'.ram, pc)
               PROVE  dev'.ram.intent.token = u /\ \A b \in Slots(dev') : b.intent.token = u
    BY DEF LiveOk
  <2>1. u # 0 /\ u \notin hist.closed /\ u # old.intent.token
    BY <1>9, GuardianClientAssumption DEF Tokens
  <2>2. ~Live(u, link, old, pc)
    BY <2>1 DEF GInv, LiveOk
  <2>3. y.sendIntent /\ y.intent.token = u
    BY <1>19, <2>2 DEF Live
  <2>4. s.ok /\ x = new
    BY <1>14, <1>15, <2>3
  <2>5. Body(new).intent = new.intent
    BY <1>7, BodyIs
  <2> QED BY <1>12, <1>15, <1>19, <2>3, <2>4, <2>5
<1>22. dev.ram.cursor <= dev'.ram.cursor
  BY <1>7, <1>15, <1>19
<1> QED BY <1>1, <1>9, <1>19, <1>20, <1>21, <1>22, DecisionStep

LEMMA RetryStep == ASSUME GInv, Retry PROVE GInv'
<1>0. PICK s \in Saves(dev) :
        /\ dev' = IF s.ok THEN [s.dev EXCEPT !.ram.sendIntent = TRUE, !.ram.command.state = "pending"]
                  ELSE s.dev
        /\ hist' = [hist EXCEPT !.retries = @ + 1,
                               !.credit[dev.ram.intent.token] = IF s.ok THEN @ + 1 ELSE @]
  BY Zenon DEF Retry
<1> USE StateIs
<1> DEFINE old == dev.ram
           t == old.intent.token
<1>1. /\ UNCHANGED <<link, ui, page, pc>> /\ ui = "idle" /\ old.op = "none"
      /\ old.intent.unresolved /\ old.intent.cmd = 0
  BY DEF Retry, Decides
<1>2. MaxCommands \in Nat /\ hist.token \in 0 .. MaxCommands /\ hist.retries \in Nat
  BY GuardianClientAssumption DEF HistT
<1>3. t \in Tokens /\ old.intent \in Intents /\ old.command \in Commands
  <2>1. t \in Nat /\ t # 0 /\ t <= hist.token
    BY <1>1 DEF RamOk, Sound, OwnerOk, RamT, Intents
  <2>2. t \in Tokens
    BY <1>2, <2>1 DEF Tokens
  <2> QED BY <2>2 DEF RamT
<1>4. /\ s \in Outcomes /\ s.dev \in DevT /\ DevOk(s.dev, pc, hist) /\ Keeps(dev, s.dev)
      /\ \E f \in BOOLEAN : s.dev.ram = [old EXCEPT !.failed = f]
      /\ s.ok => Slots(s.dev) = {Body(old)}
  BY <1>0, SaveKeeps
<1>5. /\ s.dev.ram \in RamT /\ RamOk(s.dev.ram, pc, hist) /\ SlotsOk(s.dev, pc, hist)
      /\ s.dev.ram.intent = old.intent /\ s.dev.ram.cursor = old.cursor /\ s.dev.ram.op = "none"
      /\ s.dev.ram.sendIntent = old.sendIntent /\ s.dev.ram.command = old.command
  BY <1>1, <1>4 DEF DevOk, DevT, RamT
<1> DEFINE z == s.dev.ram
           c == [z.command EXCEPT !.state = "pending"]
           y == [z EXCEPT !.sendIntent = TRUE, !.command = c]
<1>6. /\ hist' \in HistT /\ hist'.token = hist.token /\ hist'.closed = hist.closed
      /\ hist'.read = hist.read
      /\ \A u \in Tokens : hist'.credit[u] >= hist.credit[u] /\ hist'.credit[u] >= 0
      /\ s.ok => hist'.credit[t] >= 1
  <2> DEFINE v == IF s.ok THEN hist.credit[t] + 1 ELSE hist.credit[t]
             cr == [hist.credit EXCEPT ![t] = v]
  <2>1. hist.credit \in [Tokens -> Int] /\ \A u \in Tokens : hist.credit[u] >= 0
    BY DEF GInv, CreditOk, HistT
  <2>2. /\ cr \in [Tokens -> Int] /\ (\A u \in Tokens : cr[u] >= hist.credit[u] /\ cr[u] >= 0)
        /\ (s.ok => cr[t] >= 1)
    <3>1. v \in Int /\ v >= hist.credit[t] /\ v >= 0 /\ (s.ok => v >= 1)
      BY <1>3, <2>1
    <3> HIDE DEF v, t
    <3> QED BY <1>3, <2>1, <3>1
  <2>3. hist' = [hist EXCEPT !.retries = hist.retries + 1, !.credit = cr]
    BY <1>0
  <2> HIDE DEF cr
  <2>4. /\ hist'.token = hist.token /\ hist'.closed = hist.closed /\ hist'.credit = cr
        /\ hist'.read = hist.read
    BY <2>3 DEF HistT
  <2>5. hist.retries + 1 \in Nat
    BY <1>2
  <2>6. hist' \in HistT
    BY <2>2, <2>3, <2>5 DEF HistT
  <2> QED BY <2>2, <2>4, <2>6
<1>7. Grown(hist, hist')
  BY <1>2, <1>6 DEF Grown
<1>8. CASE s.ok
  <2>1. dev' = [s.dev EXCEPT !.ram = y]
    BY <1>0, <1>4, <1>5, <1>8 DEF DevT, RamT
  <2>2. c \in Commands /\ c.id = old.command.id /\ c.state = "pending"
    BY <1>3, <1>5 DEF Commands, CmdStates
  <2> HIDE DEF c
  <2>3. /\ y \in RamT /\ y.intent = old.intent /\ y.stream = z.stream
        /\ y.cursor = z.cursor /\ y.alerts = z.alerts /\ y.seen = z.seen /\ y.early = z.early
        /\ y.held = z.held /\ y.op = "none" /\ y.command = c /\ y.sendIntent
    BY <1>5, <2>2 DEF RamT
  <2> HIDE DEF y
  <2>4. Sound(y, pc, hist)
    BY <1>5, <2>2, <2>3, Alike DEF RamOk
  <2>5. RamOk(y, pc, hist)
    BY <1>1, <1>5, <2>3, <2>4 DEF RamOk
  <2>6. DevOk(dev', pc, hist) /\ dev' \in DevT /\ dev'.ram = y /\ Slots(dev') = Slots(s.dev)
    <3>1. y.cursor = s.dev.ram.cursor
      BY <2>3
    <3>2. s.dev \in DevT /\ SlotsOk(s.dev, pc, hist) /\ y \in RamT
      BY <1>4, <1>5, <2>3
    <3> QED BY <2>1, <2>5, <3>1, <3>2, Reram
  <2>7. CreditOk(hist', dev'.ram)
    BY <1>6, <1>8, <2>3, <2>6 DEF CreditOk
  <2>8. LiveOk(link, dev', pc, hist')
    <3> SUFFICES ASSUME NEW u \in Tokens \ hist'.closed, Live(u, link, dev'.ram, pc)
                 PROVE  dev'.ram.intent.token = u /\ \A b \in Slots(dev') : b.intent.token = u
      BY DEF LiveOk
    <3>1. u = t
      BY <1>6, <2>3, <2>6 DEF GInv, LiveOk, Live
    <3> QED BY <1>4, <1>8, <2>3, <2>6, <3>1, BodyIs
  <2>9. DevOk(dev', pc, hist')
    BY <1>6, <2>6, HistSame
  <2>10. dev.ram.cursor <= dev'.ram.cursor
    BY <1>5, <2>3, <2>6
  <2> QED BY <1>1, <1>6, <1>7, <2>6, <2>7, <2>8, <2>9, <2>10, DecisionStep
<1>9. CASE ~s.ok
  <2>1. dev' = s.dev
    BY <1>0, <1>9
  <2>2. CreditOk(hist', dev'.ram)
    <3>1. old.sendIntent => hist'.credit[t] >= 1
      BY <1>3, <1>6 DEF GInv, CreditOk, HistT
    <3> QED BY <1>5, <1>6, <2>1, <3>1 DEF CreditOk
  <2>3. LiveOk(link, dev', pc, hist')
    <3> SUFFICES ASSUME NEW u \in Tokens \ hist.closed, Live(u, link, dev'.ram, pc)
                 PROVE  dev'.ram.intent.token = u /\ \A b \in Slots(dev') : b.intent.token = u
      BY <1>6 DEF LiveOk
    <3>1. Live(u, link, old, pc)
      BY <1>5, <2>1 DEF Live
    <3>2. t = u /\ \A b \in Slots(dev) : b.intent.token = u
      BY <3>1 DEF GInv, LiveOk
    <3> QED BY <1>4, <1>5, <2>1, <3>2 DEF Keeps
  <2>4. dev' \in DevT /\ dev.ram.cursor <= dev'.ram.cursor
    <3>1. dev' \in DevT /\ dev'.ram.cursor = dev.ram.cursor
      BY <1>4, <1>5, <2>1
    <3> QED BY <3>1
  <2>5. DevOk(dev', pc, hist)
    BY <1>4, <2>1
  <2>6. DevOk(dev', pc, hist')
    BY <1>6, <2>5, HistSame
  <2> QED BY <1>1, <1>6, <1>7, <2>2, <2>3, <2>4, <2>6, DecisionStep
<1>10. s.ok \in BOOLEAN
  BY <1>4 DEF Outcomes
<1> QED BY <1>8, <1>9, <1>10

LEMMA DiscardStep == ASSUME GInv, Discard PROVE GInv'
<1> DEFINE new == [dev.ram EXCEPT !.intent = NoIntent, !.early = {}]
<1>0. PICK s \in Commit(dev, new, dev.ram) :
        /\ dev' = IF s.ok THEN [s.dev EXCEPT !.ram = [Resumed(@) EXCEPT !.sendIntent = FALSE]]
                  ELSE s.dev
        /\ hist' = [hist EXCEPT !.closed = @ \cup {dev.ram.intent.token}]
  BY Zenon DEF Discard
<1> USE StateIs
<1> DEFINE old == dev.ram
           t == old.intent.token
<1>1. /\ UNCHANGED <<link, ui, page, pc>> /\ ui = "idle" /\ old.op = "none" /\ old.intent.unresolved
  BY DEF Discard, Decides
<1>2. t \in Tokens
  <2>1. MaxCommands \in Nat /\ hist.token \in 0 .. MaxCommands
    BY GuardianClientAssumption DEF HistT
  <2>2. t \in Nat /\ t # 0 /\ t <= hist.token
    BY <1>1 DEF RamOk, Sound, OwnerOk, RamT, Intents
  <2> QED BY <2>1, <2>2 DEF Tokens
<1>3. /\ hist' \in HistT /\ Grown(hist, hist') /\ hist'.closed = hist.closed \cup {t}
      /\ hist'.credit = hist.credit /\ hist'.token = hist.token
  <2>1. MaxCommands \in Nat /\ hist.token \in Nat
    BY GuardianClientAssumption DEF HistT
  <2>2. hist.closed \cup {t} \subseteq Tokens
    BY <1>2 DEF HistT
  <2>3. /\ hist' \in HistT /\ hist'.closed = hist.closed \cup {t}
        /\ hist'.credit = hist.credit /\ hist'.token = hist.token /\ hist'.read = hist.read
    BY <1>0, <2>2 DEF HistT
  <2> QED BY <2>1, <2>3 DEF Grown
<1>4. SlotsOk(dev, pc, hist') /\ RamOk(old, pc, hist') /\ Sound(old, pc, hist')
  BY <1>3, HistGrows DEF RamOk
<1>5. NoIntent \in Intents /\ NoIntent.token = 0 /\ NoIntent.cmd = 0 /\ ~NoIntent.unresolved
  BY DEF NoIntent, Intents
<1>6. /\ new \in RamT /\ new.intent = NoIntent /\ new.command = old.command
      /\ new.stream = old.stream /\ new.cursor = old.cursor /\ new.alerts = old.alerts /\ new.seen = old.seen
      /\ new.early = {} /\ new.held = old.held /\ new.op = "none"
  BY <1>1, <1>5 DEF RamT
<1> HIDE DEF new
<1>7. Sound(new, pc, hist')
  <2>1. OwnerOk(new, pc, hist') /\ OutcomeOk(new, pc) /\ EarlyOk(new, pc)
    <3>1. hist.token \in Nat /\ 0 <= hist.token
      BY PcIs
    <3> QED BY <1>3, <1>5, <1>6, <3>1 DEF OwnerOk, OutcomeOk, EarlyOk
  <2>2. CursorOk(new, pc, hist')
    BY <1>4, <1>6 DEF Sound, CursorOk
  <2>3. KeptOk(new, pc, hist')
    <3>1. \A k \in 1 .. old.cursor : k \in 1 .. Len(pc.log)
      BY <1>4, PcIs DEF Sound, CursorOk
    <3>2. 0 \notin Tokens
      BY GuardianClientAssumption DEF Tokens
    <3> QED BY <1>5, <1>6, <3>1, <3>2 DEF KeptOk, PcOk
  <2> QED BY <2>1, <2>2, <2>3 DEF Sound
<1>8. /\ s \in Outcomes /\ SlotsOk(s.dev, pc, hist')
      /\ s.ok => s.dev.ram = [new EXCEPT !.failed = FALSE]
      /\ ~s.ok => s.dev.ram = [old EXCEPT !.failed = TRUE]
  <2>1. dev.ram.cursor <= new.cursor /\ old.cursor = dev.ram.cursor
    BY <1>6
  <2> QED BY <1>0, <1>4, <1>6, <1>7, <2>1, CommitSound
<1>9. s.dev \in DevT /\ s.ok \in BOOLEAN /\ s.dev.ram \in RamT
  BY <1>8 DEF Outcomes, DevT
<1>10. PICK y \in RamT :
         /\ dev' = [s.dev EXCEPT !.ram = y] /\ y.cursor = s.dev.ram.cursor /\ y.cursor = old.cursor
         /\ RamOk(y, pc, hist') /\ y.op = "none"
         /\ y.sendIntent => old.sendIntent /\ y.intent = old.intent
  <2>1. CASE s.ok
    <3> DEFINE x == s.dev.ram
               y == [Resumed(x) EXCEPT !.sendIntent = FALSE]
    <3>1. /\ x.intent = new.intent /\ x.command = new.command
          /\ x.stream = new.stream /\ x.cursor = new.cursor /\ x.alerts = new.alerts /\ x.seen = new.seen
          /\ x.early = new.early /\ x.held = new.held /\ x.op = new.op
      BY <1>6, <1>8, <2>1 DEF RamT
    <3>2. /\ y \in RamT /\ y.intent = x.intent /\ y.command = x.command
          /\ y.stream = x.stream /\ y.cursor = x.cursor /\ y.alerts = x.alerts /\ y.seen = x.seen
          /\ y.early = x.early /\ y.held = x.held /\ y.op = x.op /\ ~y.sendIntent
      BY <1>9 DEF RamT, Resumed
    <3>3. dev' = [s.dev EXCEPT !.ram = y]
      BY <1>0, <2>1
    <3> HIDE DEF x, y
    <3>4. Sound(y, pc, hist')
      BY <1>7, <3>1, <3>2, Alike
    <3>7. AllSent(y.held, pc)
      BY <1>6, <3>1, <3>2 DEF RamOk
    <3>5. RamOk(y, pc, hist') /\ y.op = "none"
      BY <1>6, <3>1, <3>2, <3>4, <3>7 DEF RamOk
    <3>6. y.cursor = s.dev.ram.cursor /\ y.cursor = old.cursor
      BY <1>6, <3>1, <3>2 DEF x
    <3> QED BY <3>2, <3>3, <3>5, <3>6
  <2>2. CASE ~s.ok
    <3> DEFINE y == s.dev.ram
    <3>1. /\ y.intent = old.intent /\ y.command = old.command
          /\ y.stream = old.stream /\ y.cursor = old.cursor /\ y.alerts = old.alerts /\ y.seen = old.seen
          /\ y.early = old.early /\ y.held = old.held /\ y.op = old.op
          /\ y.sendIntent = old.sendIntent
      BY <1>8, <2>2 DEF RamT
    <3>2. dev' = [s.dev EXCEPT !.ram = y]
      BY <1>0, <1>9, <2>2 DEF DevT
    <3> HIDE DEF y
    <3>3. RamOk(y, pc, hist')
      BY <1>1, <1>4, <3>1, RamAlike DEF Alongside, RamOk
    <3> QED BY <1>1, <1>9, <3>1, <3>2, <3>3 DEF y
  <2> QED BY <1>9, <2>1, <2>2
<1>11. DevOk(dev', pc, hist') /\ dev' \in DevT /\ dev'.ram = y
  BY <1>8, <1>9, <1>10, Reram
<1>12. CreditOk(hist', dev'.ram)
  BY <1>3, <1>10, <1>11 DEF GInv, CreditOk
<1>13. LiveOk(link, dev', pc, hist')
  BY <1>3, <1>10, <1>11 DEF GInv, LiveOk, Live
<1>14. dev.ram.cursor <= dev'.ram.cursor
  BY <1>10, <1>11
<1> QED BY <1>1, <1>3, <1>11, <1>12, <1>13, <1>14, DecisionStep

\* A mark, unlike a decision, may come while something is asked.
LEMMA MarkStep == ASSUME GInv, Mark PROVE GInv'
<1> USE StateIs
<1> DEFINE old == dev.ram
           new(a) == [old EXCEPT !.seen = @ \cup {a.seq},
                                 !.alerts = (@ \ {a}) \cup {[a EXCEPT !.seen = TRUE]}]
<1>1. UNCHANGED <<link, ui, page, pc>>
  BY DEF Mark
<1>2. PICK a \in old.alerts :
        /\ dev' \in Results(Commit(dev, new(a), old))
        /\ hist' = [hist EXCEPT !.read = @ \cup {a.seq}]
  BY DEF Mark
<1>3. PICK s \in Commit(dev, new(a), old) : dev' = s.dev
  BY <1>2 DEF Results
<1> DEFINE y == new(a)
           b == [a EXCEPT !.seen = TRUE]
<1>4. a \in Alerts /\ a.seq \in Nat /\ old.alerts \in SUBSET Alerts /\ old.seen \in SUBSET Nat
  BY DEF RamT, Alerts
<1>5. b \in Alerts /\ b.seq = a.seq /\ b.urgent = a.urgent
  BY <1>4 DEF Alerts
<1> HIDE DEF b
<1>6. /\ y \in RamT /\ y.intent = old.intent /\ y.command = old.command /\ y.stream = old.stream
      /\ y.cursor = old.cursor /\ y.alerts = (old.alerts \ {a}) \cup {b} /\ y.seen = old.seen \cup {a.seq}
      /\ y.early = old.early /\ y.held = old.held /\ y.op = old.op /\ y.sendIntent = old.sendIntent
  BY <1>4, <1>5 DEF RamT, b
<1>7. s \in Commit(dev, y, old)
  BY <1>3
<1> HIDE DEF y, new
<1>8. /\ hist' \in HistT /\ hist'.token = hist.token /\ hist'.closed = hist.closed
      /\ hist'.credit = hist.credit /\ hist'.read = hist.read \cup {a.seq}
  BY <1>2, <1>4 DEF HistT
<1>9. Grown(hist, hist')
  <2>1. hist.token \in Nat
    BY PcIs
  <2> QED BY <1>8, <2>1 DEF Grown
<1>10. PcOk(pc, hist') /\ SlotsOk(dev, pc, hist') /\ RamOk(old, pc, hist') /\ Sound(old, pc, hist')
       /\ AcksOk(pc, old, hist')
  BY <1>8, <1>9, HistGrows DEF GInv, RamOk
<1>11. ListOk(y.alerts, y.seen, y.cursor, pc, hist')
  <2>1. ListOk(old.alerts, old.seen, old.cursor, pc, hist')
    BY <1>10 DEF Sound, CursorOk
  <2>2. y.seen \subseteq hist'.read
    BY <1>6, <1>8, <2>1 DEF ListOk
  <2>3. ASSUME NEW c \in y.alerts
        PROVE  c.seq \in 1 .. Len(pc.log) /\ c.urgent = pc.log[c.seq].urgent /\ (c.seen => c.seq \in hist'.read)
    BY <1>5, <1>6, <1>8, <2>1 DEF ListOk
  <2>4. Stored(y.alerts) = Stored(old.alerts)
    BY <1>5, <1>6 DEF Stored
  <2> QED BY <1>6, <2>1, <2>2, <2>3, <2>4 DEF ListOk
<1>12. RamOk(y, pc, hist')
  <2>1. Sound(y, pc, hist')
    BY <1>6, <1>10, <1>11, Restocked
  <2> QED BY <1>6, <1>10, <2>1 DEF RamOk
<1>13. DevOk(dev, pc, hist')
  BY <1>10 DEF DevOk
<1>14. DevOk(dev', pc, hist') /\ Keeps(dev, dev') /\ dev' \in DevT /\ dev'.ram.op = old.op
       /\ dev'.ram.held = old.held
  BY <1>3, <1>6, <1>7, <1>12, <1>13, CommitKeeps
<1>15. dev'.ram \in RamT /\ dev'.ram.cursor \in Nat /\ old.cursor <= dev'.ram.cursor
  BY <1>14 DEF DevT, RamT, Keeps
<1>16. LinkOk(link, dev'.ram, pc)
  BY <1>14, <1>15, LinkKeeps DEF Keeps
<1>17. AcksOk(pc, dev'.ram, hist')
  <2>1. pc.acked \in Nat /\ \A q \in pc.late : q.arg \in Nat
    BY DEF PcT, Requests
  <2> QED BY <1>10, <1>15, <2>1 DEF AcksOk
<1>18. TickOk(ui, page, dev'.ram, pc)
  BY <1>14 DEF Mark, TickOk
<1>19. CreditOk(hist', dev'.ram)
  BY <1>8, <1>14 DEF GInv, CreditOk, Keeps
<1>20. LiveOk(link, dev', pc, hist')
  BY <1>8, <1>14 DEF GInv, LiveOk, Live, Keeps
<1> QED BY <1>1, <1>10, <1>14, <1>16, <1>17, <1>18, <1>19, <1>20 DEF GInv

\* A fault is counted.
LEMMA FaultCounted ==
  ASSUME NEW d \in DevT, NEW p, NEW h, DevOk(d, p, h), NEW e, e = [d EXCEPT !.faults = @ + 1]
  PROVE  e \in DevT /\ DevOk(e, p, h) /\ Keeps(d, e) /\ e.ram = d.ram /\ Slots(e) = Slots(d)
<1>1. e \in DevT /\ e.ram = d.ram /\ e.base = d.base /\ e.ahead = d.ahead /\ d.ram.cursor \in Nat
  BY DEF DevT, RamT
<1>2. Slots(e) = Slots(d)
  BY <1>1 DEF Slots
<1> QED BY <1>1, <1>2 DEF DevOk, SlotsOk, Keeps

LEMMA RefreshStep == ASSUME GInv, Refresh PROVE GInv'
<1> USE StateIs
<1> DEFINE e == [dev EXCEPT !.faults = @ + 1]
           y == [e.ram EXCEPT !.fresh = FALSE, !.asked = FALSE]
<1>1. UNCHANGED <<link, ui, page, pc, hist>> /\ ui = "idle"
  BY DEF Refresh
<1>2. e \in DevT /\ DevOk(e, pc, hist) /\ Keeps(dev, e) /\ e.ram = dev.ram
  BY FaultCounted
<1>3. dev' = [e EXCEPT !.ram = y]
  BY DEF Refresh, DevT
<1> HIDE DEF e
<1>4. /\ y \in RamT /\ y.intent = e.ram.intent /\ y.stream = e.ram.stream
      /\ y.cursor = e.ram.cursor /\ y.alerts = e.ram.alerts /\ y.seen = e.ram.seen /\ y.early = e.ram.early
      /\ y.held = e.ram.held /\ y.sendIntent = e.ram.sendIntent /\ y.command = e.ram.command
      /\ y.op = e.ram.op
  BY <1>2 DEF RamT
<1> HIDE DEF y
<1>5. dev' \in DevT /\ DevOk(dev', pc, hist) /\ Keeps(e, dev') /\ dev'.ram = y
  BY <1>2, <1>3, <1>4, FlagsKeep
<1>6. Keeps(dev, dev')
  BY <1>2, <1>5, KeepsOn
<1>7. TickOk(ui', page', dev'.ram, pc)
  BY <1>1 DEF TickOk
<1> QED BY <1>1, <1>2, <1>4, <1>5, <1>6, <1>7, QuietStep

-----------------------------------------------------------------------------
(* The PC.                                                                  *)

\* The log only grows, and a command that ended stays as it ended.
Further(p, q) ==
  /\ Len(p.log) <= Len(q.log) /\ \A k \in 1 .. Len(p.log) : q.log[k] = p.log[k]
  /\ \A t \in Tokens : p.cmds[t] # "none" =>
       q.cmds[t] # "none" /\ (p.cmds[t] # "pending" => q.cmds[t] = p.cmds[t])

\* The PC only goes further: what the device knows of it stays true.
LEMMA SoundFurther ==
  ASSUME NEW p, NEW q, NEW h \in HistT, PcOk(p, h), PcOk(q, h), Further(p, q),
         NEW x, x.intent \in Intents, x.cursor \in Nat, Sound(x, p, h)
  PROVE  Sound(x, q, h)
<1>1. /\ OwnerOk(x, p, h) /\ OutcomeOk(x, p) /\ EarlyOk(x, p) /\ CursorOk(x, p, h) /\ KeptOk(x, p, h)
      /\ x.intent.token \in Nat /\ x.intent.token <= h.token /\ x.intent.cmd \in {0, x.intent.token}
  BY DEF Sound, OwnerOk, Intents
<1>2. h.token \in Nat /\ h.token <= MaxCommands /\ MaxCommands \in Nat /\ Len(p.log) \in Nat /\ Len(q.log) \in Nat
      /\ p.cmds \in [Tokens -> CmdStates]
  BY PcIs, GuardianClientAssumption
<1>3. x.intent.token # 0 => x.intent.token \in Tokens
  BY <1>1, <1>2 DEF Tokens
<1>4. \A k \in 1 .. x.cursor : q.log[k] = p.log[k]
  BY <1>1, <1>2 DEF CursorOk, Further
<1>5. OwnerOk(x, q, h)
  BY <1>1, <1>3 DEF OwnerOk, Further
<1>6. OutcomeOk(x, q)
  BY <1>1, <1>3 DEF OutcomeOk, Further
<1>7. EarlyOk(x, q)
  BY <1>1 DEF EarlyOk, Further
<1>8. CursorOk(x, q, h)
  <2>1. ListOk(x.alerts, x.seen, x.cursor, p, h) /\ x.cursor <= Len(p.log) /\ (~x.stream => x.cursor = 0)
    BY <1>1 DEF CursorOk
  <2>2. \A a \in x.alerts : a.seq \in 1 .. Len(q.log) /\ q.log[a.seq] = p.log[a.seq]
    BY <1>2, <2>1 DEF ListOk, Further
  <2>3. ListOk(x.alerts, x.seen, x.cursor, q, h)
    BY <1>4, <2>1, <2>2 DEF ListOk
  <2> QED BY <1>2, <2>1, <2>3 DEF CursorOk, Further
<1>9. KeptOk(x, q, h)
  BY <1>1, <1>4 DEF KeptOk
<1> QED BY <1>5, <1>6, <1>7, <1>8, <1>9 DEF Sound

\* The same for what was sent.
LEMMA SentFurther ==
  ASSUME NEW p, NEW q, NEW h \in HistT, PcOk(p, h), PcOk(q, h), Further(p, q)
  PROVE  /\ \A e : Sent(e, p) => Sent(e, q)
         /\ \A s : AllSent(s, p) => AllSent(s, q)
         /\ \A items, gap : PageOk(items, gap, p) => PageOk(items, gap, q)
<1>1. Len(p.log) \in Nat /\ Len(q.log) \in Nat
  BY PcIs
<1>2. \A e : Sent(e, p) => Sent(e, q)
  BY <1>1 DEF Sent, Further
<1>3. \A s : AllSent(s, p) => AllSent(s, q)
  BY <1>2 DEF AllSent
<1> QED BY <1>2, <1>3 DEF PageOk

\* The same for memory and slots.
LEMMA DevFurther ==
  ASSUME NEW p, NEW q, NEW h \in HistT, PcOk(p, h), PcOk(q, h), Further(p, q), NEW d, DevOk(d, p, h)
  PROVE  DevOk(d, q, h)
<1>1. d \in DevT /\ d.ram \in RamT /\ \A b \in Slots(d) : b \in BodyT
  BY DEF DevOk, DevT, Slots
<1>2. Sound(d.ram, q, h)
  BY <1>1, SoundFurther DEF DevOk, RamOk, RamT
<1>3. AllSent(d.ram.held, q)
  BY SentFurther DEF DevOk, RamOk
<1>4. ASSUME NEW b \in Slots(d) PROVE Sound(b, q, h)
  <2>1. b.intent \in Intents /\ b.cursor \in Nat /\ Sound(b, p, h)
    BY <1>1, <1>4 DEF BodyT, DevOk, SlotsOk
  <2> QED BY <2>1, SoundFurther
<1>5. RamOk(d.ram, q, h)
  BY <1>2, <1>3 DEF DevOk, RamOk
<1>6. SlotsOk(d, q, h)
  BY <1>4 DEF DevOk, SlotsOk
<1> QED BY <1>1, <1>5, <1>6 DEF DevOk

\* The request, and a reply on its way, go on meaning what they meant.
LEMMA AskedFurther ==
  ASSUME NEW p, NEW q, NEW h \in HistT, PcOk(p, h), PcOk(q, h), Further(p, q),
         NEW r \in RamT, RamOk(r, p, h)
  PROVE  /\ \A m : RequestOk(m, r, p) => RequestOk(m, r, q)
         /\ \A m : ReplyOk(m, r, p) => ReplyOk(m, r, q)
<1>1. h.token \in Nat /\ h.token <= MaxCommands /\ MaxCommands \in Nat /\ Len(p.log) \in Nat /\ Len(q.log) \in Nat
      /\ p.cmds \in [Tokens -> CmdStates]
  BY PcIs, GuardianClientAssumption
<1>2. r.op \in {"execute", "get"} => r.intent.token \in Tokens
  <2>1. r.intent.token \in Nat /\ r.intent.token <= h.token
    BY DEF RamOk, Sound, OwnerOk, RamT, Intents
  <2>2. r.op \in {"execute", "get"} => r.intent.token # 0
    BY DEF RamOk
  <2> QED BY <1>1, <2>1, <2>2 DEF Tokens
<1>3. ASSUME NEW m, RequestOk(m, r, p)
      PROVE  RequestOk(m, r, q)
  <2>1. m \in Requests /\ m.arg \in Nat /\ m.op = r.op
    BY <1>3 DEF RequestOk, Requests
  <2>2. m.op = "get" => q.cmds[m.arg] # "none"
    BY <1>2, <1>3 DEF RequestOk, Further
  <2>3. m.op = "list" => m.arg <= Len(q.log)
    BY <1>1, <1>3, <2>1 DEF RequestOk, Further
  <2> QED BY <1>3, <2>2, <2>3 DEF RequestOk
<1>4. ASSUME NEW m, ReplyOk(m, r, p)
      PROVE  ReplyOk(m, r, q)
  <2>1. ASSUME m.ok, r.op \in {"execute", "get"}
        PROVE  q.cmds[m.id] # "none" /\ m.state \in {"pending", q.cmds[m.id]}
    <3>1. m.id = r.intent.token /\ p.cmds[m.id] # "none" /\ m.state \in {"pending", p.cmds[m.id]}
      BY <1>4, <2>1 DEF ReplyOk
    <3>2. m.id \in Tokens
      BY <1>2, <2>1, <3>1
    <3> QED BY <3>1, <3>2 DEF Further
  <2>2. ASSUME m.ok, r.op = "list"
        PROVE  PageOk(m.items, ~r.stream, q)
    BY <1>4, <2>2, SentFurther DEF ReplyOk
  <2> QED BY <1>4, <2>1, <2>2 DEF ReplyOk
<1> QED BY <1>3, <1>4

\* The same for the request and the replies.
LEMMA LinkFurther ==
  ASSUME NEW p, NEW q, NEW h \in HistT, PcOk(p, h), PcOk(q, h), Further(p, q),
         NEW r \in RamT, RamOk(r, p, h), NEW l, LinkOk(l, r, p), q.reply = p.reply
  PROVE  LinkOk(l, r, q)
<1>1. AllSent(l.events, q)
  BY SentFurther DEF LinkOk
<1> QED BY <1>1, AskedFurther DEF LinkOk

\* A step of the PC or of the radio: the memory of the device stays.
LEMMA PcStep ==
  ASSUME GInv, UNCHANGED <<ui, page, hist>>, dev' \in DevT, DevOk(dev', pc, hist),
         dev'.ram = dev.ram, Slots(dev') = Slots(dev),
         PcOk(pc', hist), Further(pc, pc'), AcksOk(pc', dev.ram, hist), LinkOk(link', dev.ram, pc'),
         \A t \in Tokens : Live(t, link', dev.ram, pc') => Live(t, link, dev.ram, pc)
  PROVE  GInv'
<1> USE StateIs
<1>1. DevOk(dev', pc', hist)
  BY DevFurther
<1>2. TickOk(ui, page, dev.ram, pc')
  BY SentFurther DEF TickOk
<1>3. LiveOk(link', dev', pc', hist)
  BY DEF GInv, LiveOk
<1>4. CreditOk(hist, dev.ram)
  BY DEF GInv
<1> QED BY <1>1, <1>2, <1>3, <1>4 DEF GInv

\* A PC that has other counters, an empty or another reply, and no other late requests.
LEMMA PcSame ==
  ASSUME NEW p, NEW h \in HistT, PcOk(p, h), NEW q \in PcT, q.cmds = p.cmds, q.log = p.log,
         q.acked = p.acked
  PROVE  PcOk(q, h) /\ Further(p, q)
<1>1. Len(p.log) \in Nat
  BY PcIs
<1> QED BY <1>1 DEF PcOk, Further

\* What carrying out a request does to the PC, at once or late.
LEMMA EffectIs ==
  ASSUME NEW p, NEW h \in HistT, PcOk(p, h), NEW r \in RamT, AcksOk(p, r, h), CursorOk(r, p, h),
         NEW m \in Requests,
         m.op = "execute" => m.arg \in 1 .. h.token,
         m.op = "ack" => m.arg <= r.cursor,
         NEW q, q = Effect(p, m)
  PROVE  /\ PcOk(q, h) /\ Further(p, q) /\ AcksOk(q, r, h) /\ q.reply = p.reply /\ q.late = p.late
         /\ q.log = p.log /\ q \in PcT
         /\ m.op = "execute" => q.cmds[m.arg] # "none"
         /\ \A t \in Tokens : q.cmds[t] # "none" => p.cmds[t] # "none" \/ (m.op = "execute" /\ m.arg = t)
<1>1. /\ p \in PcT /\ p.cmds \in [Tokens -> CmdStates] /\ p.acked \in Nat /\ Len(p.log) \in Nat
      /\ h.token \in Nat /\ h.token <= MaxCommands /\ MaxCommands \in Nat
      /\ m.arg \in Nat /\ r.cursor \in Nat /\ r.cursor <= Len(p.log)
  BY PcIs, GuardianClientAssumption DEF PcOk, PcT, Requests, RamT, CursorOk
<1>2. m.op = "execute" => m.arg \in Tokens
  BY <1>1 DEF Tokens
<1>3. CASE m.op = "execute" /\ p.cmds[m.arg] = "none"
  <2> DEFINE c == [p.cmds EXCEPT ![m.arg] = "pending"]
  <2>1. q = [p EXCEPT !.cmds = c]
    BY <1>3 DEF Effect, Executed
  <2>2. c \in [Tokens -> CmdStates] /\ c[m.arg] = "pending" /\ \A t \in Tokens : t # m.arg => c[t] = p.cmds[t]
    BY <1>1, <1>2, <1>3 DEF CmdStates
  <2> HIDE DEF c
  <2>3. /\ q \in PcT /\ q.cmds = c /\ q.log = p.log /\ q.acked = p.acked /\ q.reply = p.reply
        /\ q.late = p.late
    BY <1>1, <2>1, <2>2 DEF PcT
  <2>4. PcOk(q, h)
    <3>1. \A k \in 1 .. Len(p.log) : p.log[k].kind = "command" => c[p.log[k].cmd] = p.log[k].state
      BY <1>3, <2>2 DEF PcOk
    <3>2. \A t \in Tokens : c[t] # "none" => t <= h.token
      BY <1>1, <1>2, <1>3, <2>2 DEF PcOk
    <3> QED BY <2>3, <3>1, <3>2 DEF PcOk
  <2>5. Further(p, q)
    BY <1>1, <1>3, <2>2, <2>3 DEF Further
  <2> QED BY <1>3, <2>2, <2>3, <2>4, <2>5 DEF AcksOk
<1>4. CASE m.op = "ack"
  <2> DEFINE a == IF m.arg > p.acked THEN m.arg ELSE p.acked
             u == IF m.arg > p.pushed THEN m.arg ELSE p.pushed
  <2>1. q = [p EXCEPT !.acked = a, !.pushed = u]
    BY <1>1, <1>4 DEF Effect, Acked
  <2>2. a \in Nat /\ u \in Nat /\ a <= r.cursor /\ a <= Len(p.log)
    BY <1>1, <1>4 DEF PcOk, PcT, AcksOk
  <2> HIDE DEF a, u
  <2>3. /\ q \in PcT /\ q.cmds = p.cmds /\ q.log = p.log /\ q.acked = a /\ q.reply = p.reply
        /\ q.late = p.late
    BY <1>1, <2>1, <2>2 DEF PcT
  <2>4. PcOk(q, h) /\ Further(p, q)
    BY <1>1, <2>2, <2>3 DEF PcOk, Further
  <2> QED BY <1>4, <2>2, <2>3, <2>4 DEF AcksOk
<1>5. CASE ~(m.op = "execute" /\ p.cmds[m.arg] = "none") /\ m.op # "ack"
  <2>1. q = p
    BY <1>5 DEF Effect, Executed
  <2>2. Further(p, p)
    BY <1>1 DEF Further
  <2> QED BY <1>1, <1>5, <2>1, <2>2
<1> QED BY <1>3, <1>4, <1>5

\* A part of a sequence, by its elements.
LEMMA SubSeqIs ==
  ASSUME NEW S, NEW t \in Seq(S), NEW a \in Nat, NEW b \in Nat, a <= b, b <= Len(t)
  PROVE  /\ SubSeq(t, a + 1, b) \in Seq(S) /\ Len(SubSeq(t, a + 1, b)) = b - a
         /\ \A i \in 1 .. (b - a) : SubSeq(t, a + 1, b)[i] = t[a + i]
<1>1. a + 1 \in 1 .. Len(t) + 1 /\ b \in Int /\ b - (a + 1) + 1 = b - a
  OBVIOUS
<1>2. \A i \in (a + 1) .. b : t[i] \in S
  OBVIOUS
<1>3. /\ SubSeq(t, a + 1, b) \in Seq(S)
      /\ Len(SubSeq(t, a + 1, b)) = IF a + 1 <= b THEN b - (a + 1) + 1 ELSE 0
      /\ \A i \in 1 .. b - (a + 1) + 1 : SubSeq(t, a + 1, b)[i] = t[(a + 1) + i - 1]
  BY <1>1, <1>2, SubSeqProperties
<1>4. \A i \in 1 .. (b - a) : (a + 1) + i - 1 = a + i
  OBVIOUS
<1> QED BY <1>1, <1>3, <1>4

\* A page of the log.
LEMMA SubSeqSent ==
  ASSUME NEW p, NEW h \in HistT, PcOk(p, h), NEW a \in Nat, NEW b \in Nat, a <= b, b <= Len(p.log)
  PROVE  /\ SubSeq(p.log, a + 1, b) \in Seq(Events) /\ AllSent(SubSeq(p.log, a + 1, b), p)
         /\ SubSeq(p.log, a + 1, b) # <<>> => SubSeq(p.log, a + 1, b)[1].seq = a + 1
<1> DEFINE s == SubSeq(p.log, a + 1, b)
<1>1. /\ p.log \in Seq(Events) /\ Len(p.log) \in Nat
      /\ \A k \in 1 .. Len(p.log) : p.log[k] \in Events /\ p.log[k].seq = k
  BY PcIs
<1>3. /\ s \in Seq(Events) /\ Len(s) = b - a
      /\ \A i \in 1 .. (b - a) : s[i] = p.log[a + i]
  BY <1>1, SubSeqIs
<1> HIDE DEF s
<1>4. ASSUME NEW i \in 1 .. (b - a)
      PROVE  s[i] = p.log[a + i] /\ a + i \in 1 .. Len(p.log)
  BY <1>1, <1>3
<1>5. AllSent(s, p)
  <2>1. ASSUME NEW i \in 1 .. (b - a)
        PROVE  Sent(s[i], p)
    <3>1. /\ a + i \in 1 .. Len(p.log) /\ p.log[a + i] = s[i]
          /\ p.log[a + i] \in Events /\ p.log[a + i].seq = a + i
      BY <1>1, <1>4
    <3> QED BY <3>1 DEF Sent
  <2> QED BY <1>3, <2>1 DEF AllSent
<1>6. ASSUME s # <<>>
      PROVE  s[1].seq = a + 1
  <2>1. 1 \in 1 .. (b - a)
    BY <1>3, <1>6
  <2> QED BY <1>1, <1>4, <2>1
<1> QED BY <1>3, <1>5, <1>6 DEF s

\* What the PC answers.
LEMMA ReplyIs ==
  ASSUME NEW p, NEW q, NEW h \in HistT, PcOk(p, h), PcOk(q, h), NEW r \in RamT, RamOk(r, p, h),
         NEW m, RequestOk(m, r, p), r.op # "none", q.log = p.log,
         m.op \in {"execute", "get"} => q.cmds[m.arg] # "none"
  PROVE  ReplyOk(Reply(q, m), r, q) /\ Reply(q, m) \in Replies
<1> USE DEF Replies
<1>1. /\ m \in Requests /\ m.op = r.op /\ m.arg \in Nat /\ m.op \in Ops
      /\ q.cmds \in [Tokens -> CmdStates] /\ q.acked \in Nat /\ Len(q.log) \in Nat
      /\ h.token \in Nat /\ h.token <= MaxCommands /\ MaxCommands \in Nat
  <2>1. m \in Requests /\ m.op = r.op
    BY DEF RequestOk
  <2>2. m.arg \in Nat /\ m.op \in Ops
    BY <2>1 DEF Requests
  <2>3. q.acked \in Nat
    BY DEF PcOk, PcT
  <2> QED BY <2>1, <2>2, <2>3, PcIs, GuardianClientAssumption
<1>2. CASE m.op \in {"execute", "get"}
  <2> DEFINE x == Reply(q, m)
  <2>1. x = [ok |-> TRUE, id |-> m.arg, state |-> q.cmds[m.arg]]
    BY <1>2 DEF Reply, CommandReply
  <2>2. m.arg = r.intent.token /\ r.intent.token # 0 /\ r.intent.token <= h.token
    BY <1>1, <1>2 DEF RequestOk, RamOk, Sound, OwnerOk
  <2>3. m.arg \in Tokens /\ q.cmds[m.arg] \in CmdStates
    BY <1>1, <2>2 DEF Tokens
  <2> HIDE DEF x
  <2>4. x \in [ok : {TRUE}, id : {r.intent.token}, state : CmdStates] /\ x.ok = TRUE
        /\ x.id = m.arg /\ x.state = q.cmds[m.arg]
    BY <2>1, <2>2, <2>3
  <2>5. x \in [ok : {TRUE}, id : Nat, state : CmdStates]
    BY <1>1, <2>1, <2>3
  <2> QED BY <1>1, <1>2, <2>4, <2>5 DEF ReplyOk, x
<1>3. CASE m.op = "list"
  <2> DEFINE last == IF m.arg + PageMax < Len(q.log) THEN m.arg + PageMax ELSE Len(q.log)
             items == SubSeq(q.log, m.arg + 1, last)
             x == Reply(q, m)
  <2>1. x = [ok |-> TRUE, items |-> items, more |-> last < Len(q.log)]
    BY <1>3 DEF Reply
  <2>2. last \in Nat /\ m.arg <= last /\ last <= Len(q.log) /\ (last < Len(q.log)) \in BOOLEAN
    <3>1. m.arg \in Nat /\ Len(q.log) \in Nat /\ m.arg <= Len(q.log) /\ PageMax \in Nat
      BY <1>1, <1>3, GuardianClientAssumption DEF RequestOk
    <3> QED BY <3>1
  <2> HIDE DEF last
  <2>3. items \in Seq(Events) /\ AllSent(items, q) /\ (items # <<>> => items[1].seq = m.arg + 1)
    <3>2. m.arg \in Nat /\ last \in Nat /\ m.arg <= last /\ last <= Len(q.log)
      BY <1>1, <2>2
    <3> QED BY <3>2, SubSeqSent
  <2>4. ~r.stream => m.arg = 0
    BY <1>3 DEF RequestOk
  <2> HIDE DEF items, x
  <2>5. x \in [ok : {TRUE}, items : Seq(Events), more : BOOLEAN] /\ x.items = items /\ x.ok = TRUE
    BY <2>1, <2>2, <2>3
  <2>6. PageOk(x.items, ~r.stream, q)
    BY <2>3, <2>4, <2>5 DEF PageOk
  <2> QED BY <1>1, <1>3, <2>5, <2>6 DEF ReplyOk, x
<1>4. CASE m.op = "ack"
  <2> DEFINE x == Reply(q, m)
  <2>1. x = [ok |-> TRUE, cursor |-> q.acked]
    BY <1>4 DEF Reply
  <2> HIDE DEF x
  <2>2. x \in [ok : {TRUE}, cursor : Nat]
    BY <1>1, <2>1
  <2> QED BY <1>1, <1>4, <2>1, <2>2 DEF ReplyOk, x
<1> QED BY <1>1, <1>2, <1>3, <1>4 DEF RequestOk, Ops

\* The request has gone out, and the PC has its answer.
LEMMA NotifiedLink ==
  ASSUME NEW l, NEW r, NEW p, NEW q, LinkOk(l, r, p), l.ble = "linked", l.rpc = "sending",
         AllSent(l.events, q), ReplyOk(q.reply, r, q),
         NEW k, k = [l EXCEPT !.rpc = "sent", !.request = NoMessage]
  PROVE  LinkOk(k, r, q) /\ k.rpc = "sent"
<1>1. l \in LinkT
  BY DEF LinkOk
<1>2. /\ k \in LinkT /\ k.ble = l.ble /\ k.online = l.online /\ k.rpc = "sent" /\ k.events = l.events
  BY <1>1 DEF LinkT
<1> QED BY <1>2 DEF LinkOk

\* A step that leaves the device alone.
LEMMA PcFaultless ==
  ASSUME GInv, dev' = dev
  PROVE  dev' \in DevT /\ DevOk(dev', pc, hist) /\ dev'.ram = dev.ram /\ Slots(dev') = Slots(dev)
BY StateIs

LEMMA ServeStep == ASSUME GInv, Serve PROVE GInv'
<1> USE StateIs
<1> DEFINE m == link.request
           q == Effect(pc, m)
           x == Reply(q, m)
<1>1. /\ UNCHANGED <<dev, ui, page, hist>> /\ link.ble = "linked" /\ link.rpc = "sending"
      /\ link' = [link EXCEPT !.rpc = "sent", !.request = NoMessage]
      /\ pc' = [q EXCEPT !.reply = x]
  BY DEF Serve, Notify
<1>2. RequestOk(m, dev.ram, pc) /\ dev.ram.op # "none" /\ m \in Requests
  BY <1>1 DEF LinkOk, RequestOk
<1>3. (m.op = "execute" => m.arg \in 1 .. hist.token) /\ (m.op = "ack" => m.arg <= dev.ram.cursor)
  <2>1. m.op = "execute" => m.arg = dev.ram.intent.token /\ m.arg # 0 /\ m.arg <= hist.token
    BY <1>2 DEF RequestOk, RamOk, Sound, OwnerOk
  <2>2. m.arg \in Nat /\ hist.token \in Nat
    BY <1>2, PcIs DEF Requests
  <2> QED BY <1>2, <2>1, <2>2 DEF RequestOk
<1>4. /\ PcOk(q, hist) /\ Further(pc, q) /\ AcksOk(q, dev.ram, hist) /\ q.reply = pc.reply
      /\ q.late = pc.late /\ q.log = pc.log /\ q \in PcT
      /\ m.op = "execute" => q.cmds[m.arg] # "none"
      /\ \A t \in Tokens : q.cmds[t] # "none" => pc.cmds[t] # "none" \/ (m.op = "execute" /\ m.arg = t)
  BY <1>2, <1>3, EffectIs DEF GInv, RamOk, Sound
<1> HIDE DEF q
<1>5. m.op \in {"execute", "get"} => q.cmds[m.arg] # "none"
  <2>1. m.op = "get" => m.arg \in Tokens /\ pc.cmds[m.arg] # "none"
    <3>1. m.op = "get" => m.arg = dev.ram.intent.token /\ m.arg # 0 /\ m.arg <= hist.token
      BY <1>2 DEF RequestOk, RamOk, Sound, OwnerOk
    <3>2. m.arg \in Nat /\ hist.token \in Nat /\ hist.token <= MaxCommands /\ MaxCommands \in Nat
      BY <1>2, PcIs, GuardianClientAssumption DEF Requests
    <3> QED BY <1>2, <3>1, <3>2 DEF RequestOk, Tokens
  <2> QED BY <1>4, <2>1 DEF Further
<1>6. ReplyOk(x, dev.ram, q) /\ x \in Replies
  BY <1>2, <1>4, <1>5, ReplyIs
<1> HIDE DEF x
<1>7. /\ pc' \in PcT /\ pc'.cmds = q.cmds /\ pc'.log = q.log /\ pc'.acked = q.acked
      /\ pc'.late = q.late /\ pc'.reply = x
  BY <1>1, <1>4, <1>6 DEF PcT
<1>8. PcOk(pc', hist)
  BY <1>4, <1>7, PcSame
<1>9. Further(pc, pc')
  BY <1>4, <1>7 DEF Further
<1>10. AcksOk(pc', dev.ram, hist)
  BY <1>4, <1>7 DEF AcksOk
<1>11. ReplyOk(pc'.reply, dev.ram, pc')
  <2>1. \A items, gap : PageOk(items, gap, q) => PageOk(items, gap, pc')
    BY <1>7 DEF PageOk, AllSent, Sent
  <2> QED BY <1>6, <1>7, <2>1 DEF ReplyOk
<1>12. AllSent(link.events, pc')
  BY <1>7, <1>4 DEF LinkOk, AllSent, Sent
<1>13. LinkOk(link', dev.ram, pc') /\ link'.rpc = "sent"
  BY <1>1, <1>11, <1>12, NotifiedLink
<1>14. \A t \in Tokens : Live(t, link', dev.ram, pc') => Live(t, link, dev.ram, pc)
  BY <1>1, <1>4, <1>7, <1>13 DEF Live
<1> QED BY <1>1, <1>8, <1>9, <1>10, <1>13, <1>14, PcFaultless, PcStep

LEMMA RefuseStep == ASSUME GInv, Refuse PROVE GInv'
<1> USE StateIs
<1>1. /\ UNCHANGED <<dev, ui, page, hist>> /\ link.ble = "linked" /\ link.rpc = "sending"
      /\ link' = [link EXCEPT !.rpc = "sent", !.request = NoMessage]
      /\ pc' = [pc EXCEPT !.reply = [ok |-> FALSE]]
  BY DEF Refuse, Notify
<1> DEFINE x == [ok |-> FALSE]
<1>2. x \in Replies /\ ~x.ok
  BY DEF Replies
<1> HIDE DEF x
<1>3. /\ pc' \in PcT /\ pc'.cmds = pc.cmds /\ pc'.log = pc.log /\ pc'.acked = pc.acked
      /\ pc'.late = pc.late /\ pc'.reply = x
  <2>1. pc' = [pc EXCEPT !.reply = x]
    BY <1>1 DEF x
  <2> QED BY <1>2, <2>1 DEF PcT
<1>4. PcOk(pc', hist) /\ Further(pc, pc')
  BY <1>3, PcSame
<1>5. AcksOk(pc', dev.ram, hist)
  BY <1>3 DEF GInv, AcksOk
<1>6. ReplyOk(pc'.reply, dev.ram, pc')
  BY <1>2, <1>3 DEF ReplyOk
<1>7. AllSent(link.events, pc')
  BY <1>3 DEF LinkOk, AllSent, Sent
<1>8. LinkOk(link', dev.ram, pc') /\ link'.rpc = "sent"
  BY <1>1, <1>6, <1>7, NotifiedLink
<1>9. \A t \in Tokens : Live(t, link', dev.ram, pc') => Live(t, link, dev.ram, pc)
  BY <1>3, <1>8 DEF Live
<1> QED BY <1>1, <1>4, <1>5, <1>8, <1>9, PcFaultless, PcStep

LEMMA ServeLateStep == ASSUME GInv, ServeLate PROVE GInv'
<1> USE StateIs
<1>1. PICK m \in pc.late : pc' = [Effect(pc, m) EXCEPT !.late = @ \ {m}]
  BY DEF ServeLate
<1>2. UNCHANGED <<link, dev, ui, page, hist>>
  BY DEF ServeLate
<1> DEFINE q == Effect(pc, m)
<1>3. /\ m \in Requests
      /\ \/ m.op = "execute" /\ m.arg \in 1 .. hist.token
         \/ m.op = "ack" /\ m.arg <= dev.ram.cursor
  BY DEF GInv, AcksOk, PcT
<1>4. /\ PcOk(q, hist) /\ Further(pc, q) /\ AcksOk(q, dev.ram, hist) /\ q.reply = pc.reply
      /\ q.late = pc.late /\ q.log = pc.log /\ q \in PcT
      /\ m.op = "execute" => q.cmds[m.arg] # "none"
      /\ \A t \in Tokens : q.cmds[t] # "none" => pc.cmds[t] # "none" \/ (m.op = "execute" /\ m.arg = t)
  BY <1>3, EffectIs DEF GInv, RamOk, Sound
<1>5. pc' = [q EXCEPT !.late = q.late \ {m}]
  BY <1>1
<1> HIDE DEF q
<1>6. /\ pc' \in PcT /\ pc'.cmds = q.cmds /\ pc'.log = q.log /\ pc'.acked = q.acked
      /\ pc'.late \subseteq q.late /\ pc'.reply = q.reply
  BY <1>4, <1>5 DEF PcT
<1>7. PcOk(pc', hist)
  BY <1>4, <1>6, PcSame
<1>8. Further(pc, pc')
  BY <1>4, <1>6 DEF Further
<1>9. AcksOk(pc', dev.ram, hist)
  BY <1>4, <1>6 DEF AcksOk
<1>10. LinkOk(link, dev.ram, pc')
  BY <1>4, <1>6, <1>7, <1>8, LinkFurther
<1>11. \A t \in Tokens : Live(t, link, dev.ram, pc') => Live(t, link, dev.ram, pc)
  BY <1>4, <1>6 DEF Live
<1> QED BY <1>2, <1>7, <1>8, <1>9, <1>10, <1>11, PcFaultless, PcStep

LEMMA DeliverStep == ASSUME GInv, Deliver PROVE GInv'
<1> USE StateIs
<1>1. /\ UNCHANGED <<dev, ui, page, hist>> /\ pc.reply # NoMessage
      /\ link' = Received(link, pc.reply) /\ pc' = [pc EXCEPT !.reply = NoMessage]
  BY DEF Deliver
<1>2. /\ pc' \in PcT /\ pc'.cmds = pc.cmds /\ pc'.log = pc.log /\ pc'.acked = pc.acked
      /\ pc'.late = pc.late /\ pc'.reply = NoMessage
  <2>1. NoMessage \in Replies
    BY DEF Replies
  <2> QED BY <1>1, <2>1 DEF PcT
<1>3. PcOk(pc', hist) /\ Further(pc, pc')
  BY <1>2, PcSame
<1>4. AcksOk(pc', dev.ram, hist)
  BY <1>2 DEF GInv, AcksOk
<1>5. LinkOk(link', dev.ram, pc') /\ link'.rpc # "sending"
  <2>1. CASE link.rpc = "sent"
    <3>1. link' = [link EXCEPT !.rpc = "reply", !.reply = pc.reply]
      BY <1>1, <2>1 DEF Received
    <3>2. ReplyOk(pc.reply, dev.ram, pc) /\ pc.reply \in Replies
      BY <1>1, <2>1 DEF LinkOk, ReplyOk
    <3>3. /\ link' \in LinkT /\ link'.ble = link.ble /\ link'.online = link.online
          /\ link'.rpc = "reply" /\ link'.events = link.events /\ link'.reply = pc.reply
      BY <3>1, <3>2 DEF LinkT
    <3>4. ReplyOk(pc.reply, dev.ram, pc') /\ AllSent(link.events, pc')
      BY <1>3, <3>2, AskedFurther, SentFurther DEF LinkOk
    <3> QED BY <1>2, <2>1, <3>3, <3>4 DEF LinkOk
  <2>2. CASE link.rpc # "sent"
    <3>1. link' = Failed(link)
      BY <1>1, <2>2 DEF Received
    <3>2. pc'.reply # NoMessage => pc.reply # NoMessage
      BY <1>1
    <3>3. LinkOk(link', dev.ram, pc') /\ link'.rpc \in {"idle", "error"}
      BY <3>1, <3>2, BrokenLink
    <3> QED BY <3>3
  <2> QED BY <2>1, <2>2
<1>6. \A t \in Tokens : Live(t, link', dev.ram, pc') => Live(t, link, dev.ram, pc)
  BY <1>2, <1>5 DEF Live
<1> QED BY <1>1, <1>3, <1>4, <1>5, <1>6, PcFaultless, PcStep

\* One more event in the log.
LEMMA LoggedIs ==
  ASSUME NEW p, NEW h \in HistT, PcOk(p, h), NEW c \in [Tokens -> CmdStates],
         NEW kind \in {"command", "alert"}, NEW cmd \in Nat, NEW state \in CmdStates,
         NEW urgent \in BOOLEAN,
         \A t \in Tokens :
           c[t] = p.cmds[t] \/ (t = cmd /\ p.cmds[t] = "pending" /\ c[t] \in {"completed", "unknown"}),
         kind = "command" => cmd \in Tokens /\ state \in {"completed", "unknown"} /\ c[cmd] = state,
         NEW q, q = Logged([p EXCEPT !.cmds = c], kind, cmd, state, urgent)
  PROVE  /\ PcOk(q, h) /\ Further(p, q) /\ q.reply = p.reply /\ q.late = p.late /\ q.acked = p.acked
         /\ q.cmds = c
<1>1. /\ p \in PcT /\ p.cmds \in [Tokens -> CmdStates] /\ p.log \in Seq(Events) /\ Len(p.log) \in Nat
      /\ p.acked \in Nat /\ p.acked <= Len(p.log)
  BY PcIs DEF PcOk, PcT
<1> DEFINE n == Len(p.log) + 1
           e == [kind |-> kind, cmd |-> cmd, state |-> state, urgent |-> urgent, seq |-> n]
           log == Append(p.log, e)
<1>2. e \in Events /\ e.seq = n /\ e.kind = kind /\ e.cmd = cmd /\ e.state = state
  BY <1>1 DEF Events
<1>3. q = [p EXCEPT !.cmds = c, !.log = log]
  BY <1>1 DEF Logged, PcT
<1> HIDE DEF e
<1>4. /\ log \in Seq(Events) /\ Len(log) = n /\ log[n] = e /\ \A k \in 1 .. Len(p.log) : log[k] = p.log[k]
  BY <1>1, <1>2
<1>5. n \in Nat /\ p.acked <= n /\ Len(p.log) <= n /\ \A k \in 1 .. n : k = n \/ k \in 1 .. Len(p.log)
  BY <1>1
<1> HIDE DEF log, n
<1>6. /\ q \in PcT /\ q.cmds = c /\ q.log = log /\ q.acked = p.acked /\ q.reply = p.reply
      /\ q.late = p.late
  BY <1>1, <1>3, <1>4 DEF PcT
<1>7. Further(p, q)
  <2>1. \A t \in Tokens : p.cmds[t] # "none" =>
          c[t] # "none" /\ (p.cmds[t] # "pending" => c[t] = p.cmds[t])
    OBVIOUS
  <2> QED BY <1>4, <1>5, <1>6, <2>1 DEF Further
<1>8. PcOk(q, h)
  <2>1. ASSUME NEW k \in 1 .. n
        PROVE  /\ log[k].seq = k
               /\ log[k].kind = "command" =>
                    /\ log[k].cmd \in Tokens /\ log[k].state \in {"completed", "unknown"}
                    /\ c[log[k].cmd] = log[k].state
    <3>1. CASE k = n
      BY <1>2, <1>4, <3>1
    <3>2. CASE k \in 1 .. Len(p.log)
      BY <1>4, <3>2 DEF PcOk
    <3> QED BY <1>5, <3>1, <3>2
  <2>2. \A t \in Tokens : c[t] # "none" => t <= h.token
    BY DEF PcOk
  <2> QED BY <1>4, <1>5, <1>6, <2>1, <2>2 DEF PcOk
<1> QED BY <1>6, <1>7, <1>8

\* A step of the PC alone that adds to its log.
LEMMA LogStep ==
  ASSUME GInv, UNCHANGED <<link, dev, ui, page, hist>>, PcOk(pc', hist), Further(pc, pc'),
         pc'.reply = pc.reply, pc'.late = pc.late, pc'.acked = pc.acked,
         \A t \in Tokens : pc'.cmds[t] # "none" => pc.cmds[t] # "none"
  PROVE  GInv'
<1> USE StateIs
<1>1. AcksOk(pc', dev.ram, hist)
  BY DEF GInv, AcksOk
<1>2. LinkOk(link, dev.ram, pc')
  BY LinkFurther
<1>3. \A t \in Tokens : Live(t, link, dev.ram, pc') => Live(t, link, dev.ram, pc)
  BY DEF Live
<1> QED BY <1>1, <1>2, <1>3, PcFaultless, PcStep

LEMMA ProgressStep == ASSUME GInv, Progress PROVE GInv'
<1> USE StateIs
<1>1. PICK t \in Tokens, state \in {"completed", "unknown"} :
        /\ pc.cmds[t] = "pending"
        /\ pc' = Logged([pc EXCEPT !.cmds[t] = state], "command", t, state, FALSE)
  BY DEF Progress
<1>2. UNCHANGED <<link, dev, ui, page, hist>>
  BY DEF Progress
<1> DEFINE c == [pc.cmds EXCEPT ![t] = state]
           urgent == FALSE
<1>3. pc.cmds \in [Tokens -> CmdStates] /\ t \in Nat /\ state \in CmdStates
  BY PcIs, GuardianClientAssumption DEF Tokens, CmdStates
<1>4. c \in [Tokens -> CmdStates] /\ c[t] = state /\ \A u \in Tokens : u # t => c[u] = pc.cmds[u]
  BY <1>3
<1>5. pc' = Logged([pc EXCEPT !.cmds = c], "command", t, state, urgent)
  BY <1>1
<1>9. urgent \in BOOLEAN
  OBVIOUS
<1> HIDE DEF c, urgent
<1>6. \A u \in Tokens : c[u] = pc.cmds[u] \/ (u = t /\ pc.cmds[u] = "pending" /\ c[u] \in {"completed", "unknown"})
  BY <1>1, <1>4
<1>7. /\ PcOk(pc', hist) /\ Further(pc, pc') /\ pc'.reply = pc.reply /\ pc'.late = pc.late
      /\ pc'.acked = pc.acked /\ pc'.cmds = c
  <2>1. t \in Tokens /\ state \in {"completed", "unknown"} /\ c[t] = state
    BY <1>4
  <2>2. "command" \in {"command", "alert"}
    OBVIOUS
  <2>3. "command" = "command" => t \in Tokens /\ state \in {"completed", "unknown"} /\ c[t] = state
    BY <2>1
  <2>4. c \in [Tokens -> CmdStates] /\ t \in Nat /\ state \in CmdStates /\ hist \in HistT /\ PcOk(pc, hist)
    BY <1>3, <1>4
  <2>5. PcOk(pc', hist) /\ Further(pc, pc')
    BY <1>5, <1>6, <2>2, <2>3, <2>4, <1>9, LoggedIs
  <2>6. pc'.reply = pc.reply /\ pc'.late = pc.late /\ pc'.acked = pc.acked /\ pc'.cmds = c
    BY <1>5, <1>6, <2>2, <2>3, <2>4, <1>9, LoggedIs
  <2> QED BY <2>5, <2>6
<1>8. \A u \in Tokens : pc'.cmds[u] # "none" => pc.cmds[u] # "none"
  BY <1>6, <1>7
<1> QED BY <1>2, <1>7, <1>8, LogStep

LEMMA RaiseStep == ASSUME GInv, Raise PROVE GInv'
<1> USE StateIs
<1>1. UNCHANGED <<link, dev, ui, page, hist>>
  BY DEF Raise
<1>8. PICK urgent \in Urgencies : pc' = Logged(pc, "alert", 0, "unknown", urgent)
  BY DEF Raise
<1>9. urgent \in BOOLEAN
  BY GuardianClientAssumption
<1> DEFINE c == pc.cmds
<1>2. c \in [Tokens -> CmdStates] /\ 0 \in Nat /\ "unknown" \in CmdStates
  BY PcIs DEF CmdStates
<1>3. pc = [pc EXCEPT !.cmds = c]
  BY DEF PcT
<1>4. pc' = Logged([pc EXCEPT !.cmds = c], "alert", 0, "unknown", urgent)
  BY <1>3, <1>8
<1> HIDE DEF c
<1>5. \A t \in Tokens : c[t] = pc.cmds[t] \/ (t = 0 /\ pc.cmds[t] = "pending" /\ c[t] \in {"completed", "unknown"})
  BY DEF c
<1>6. /\ PcOk(pc', hist) /\ Further(pc, pc') /\ pc'.reply = pc.reply /\ pc'.late = pc.late
      /\ pc'.acked = pc.acked /\ pc'.cmds = c
  <2>1. "alert" \in {"command", "alert"} /\ "alert" # "command"
    OBVIOUS
  <2> QED BY <1>2, <1>4, <1>5, <1>9, <2>1, LoggedIs
<1>7. \A t \in Tokens : pc'.cmds[t] # "none" => pc.cmds[t] # "none"
  BY <1>6 DEF c
<1> QED BY <1>1, <1>6, <1>7, LogStep

LEMMA PushStep == ASSUME GInv, Push PROVE GInv'
<1> USE StateIs
<1> DEFINE e == pc.log[pc.pushed + 1]
<1>1. /\ UNCHANGED <<dev, ui, page, hist>> /\ pc.pushed < Len(pc.log)
      /\ link' = Queued(link, e) /\ pc' = [pc EXCEPT !.pushed = @ + 1]
  BY DEF Push
<1>2. pc.pushed \in Nat /\ pc.pushed + 1 \in Nat /\ Len(pc.log) \in Nat
  BY PcIs DEF PcT
<1>3. /\ pc' \in PcT /\ pc'.cmds = pc.cmds /\ pc'.log = pc.log /\ pc'.acked = pc.acked
      /\ pc'.late = pc.late /\ pc'.reply = pc.reply
  BY <1>1, <1>2 DEF PcT
<1>4. PcOk(pc', hist) /\ Further(pc, pc')
  BY <1>3, PcSame
<1>5. AcksOk(pc', dev.ram, hist)
  BY <1>3 DEF GInv, AcksOk
<1>6. e \in Events /\ Sent(e, pc)
  <2>1. pc.pushed + 1 \in 1 .. Len(pc.log)
    BY <1>1, <1>2
  <2> QED BY <2>1, PcIs DEF Sent
<1> HIDE DEF e
<1>7. LinkOk(link', dev.ram, pc') /\ (link'.rpc = "sending" => link.rpc = "sending" /\ link'.request = link.request)
  <2>1. CASE link' = [link EXCEPT !.events = Append(@, e)]
    <3>1. link.events \in Seq(Events) /\ Len(link.events) \in Nat
      BY DEF LinkT
    <3>2. /\ Append(link.events, e) \in Seq(Events) /\ Len(Append(link.events, e)) = Len(link.events) + 1
          /\ \A i \in 1 .. Len(link.events) + 1 :
               Append(link.events, e)[i] = e
                 \/ (i \in 1 .. Len(link.events) /\ Append(link.events, e)[i] = link.events[i])
      BY <1>6, <3>1
    <3>3. AllSent(Append(link.events, e), pc)
      BY <1>6, <3>2 DEF AllSent, LinkOk
    <3>4. /\ link' \in LinkT /\ link'.ble = link.ble /\ link'.online = link.online
          /\ link'.rpc = link.rpc /\ link'.request = link.request /\ link'.reply = link.reply
          /\ link'.events = Append(link.events, e)
      BY <2>1, <3>2 DEF LinkT
    <3>5. LinkOk(link', dev.ram, pc)
      BY <3>3, <3>4 DEF LinkOk
    <3>6. LinkOk(link', dev.ram, pc')
      BY <1>3, <1>4, <3>5, LinkFurther
    <3> QED BY <3>4, <3>6
  <2>2. CASE link' = Failed(link)
    <3>1. pc'.reply # NoMessage => pc.reply # NoMessage
      BY <1>3
    <3>2. LinkOk(link', dev.ram, pc') /\ link'.rpc \in {"idle", "error"}
      BY <2>2, <3>1, BrokenLink
    <3> QED BY <3>2
  <2> QED BY <1>1, <2>1, <2>2 DEF Queued
<1>8. \A t \in Tokens : Live(t, link', dev.ram, pc') => Live(t, link, dev.ram, pc)
  BY <1>3, <1>7 DEF Live
<1> QED BY <1>1, <1>4, <1>5, <1>7, <1>8, PcFaultless, PcStep

-----------------------------------------------------------------------------
(* The radio and the power.                                                 *)

LEMMA ConnectStep == ASSUME GInv, Connect PROVE GInv'
<1> USE StateIs
<1>1. /\ UNCHANGED <<dev, ui, page, hist>> /\ link.ble = "down"
      /\ link' = [Reset(link, TRUE) EXCEPT !.ble = "linked", !.events = <<>>, !.closing = FALSE]
      /\ pc' = [pc EXCEPT !.pushed = pc.acked]
  BY DEF Connect, SessionUp
<1>2. pc.reply = NoMessage
  BY <1>1 DEF LinkOk
<1>3. /\ pc' \in PcT /\ pc'.cmds = pc.cmds /\ pc'.log = pc.log /\ pc'.acked = pc.acked
      /\ pc'.late = pc.late /\ pc'.reply = pc.reply
  BY <1>1 DEF PcT
<1>4. PcOk(pc', hist) /\ Further(pc, pc')
  BY <1>3, PcSame
<1>5. AcksOk(pc', dev.ram, hist)
  BY <1>3 DEF GInv, AcksOk
<1>6. NoMessage \in Replies /\ <<>> \in Seq(Events) /\ AllSent(<<>>, pc')
  BY DEF Replies, AllSent
<1>7. link' \in LinkT /\ link'.events = <<>> /\ link'.rpc \in {"idle", "error"}
  <2> DEFINE l == Reset(link, TRUE)
  <2>1. l \in LinkT /\ l.rpc \in {"idle", "error"}
    BY <1>6 DEF Reset, LinkT
  <2>2. link' = [l EXCEPT !.ble = "linked", !.events = <<>>, !.closing = FALSE]
    BY <1>1
  <2> HIDE DEF l
  <2> QED BY <1>6, <2>1, <2>2 DEF LinkT
<1>8. LinkOk(link', dev.ram, pc')
  BY <1>2, <1>3, <1>6, <1>7, LinkQuiet
<1>9. \A t \in Tokens : Live(t, link', dev.ram, pc') => Live(t, link, dev.ram, pc)
  BY <1>3, <1>7 DEF Live
<1> QED BY <1>1, <1>4, <1>5, <1>8, <1>9, PcFaultless, PcStep

\* A step of the link alone.
LEMMA LinkStep ==
  ASSUME GInv, UNCHANGED <<dev, ui, page, pc, hist>>, LinkOk(link', dev.ram, pc),
         link'.rpc = "sending" => link.rpc = "sending" /\ link'.request = link.request
  PROVE  GInv'
BY DEF GInv, LiveOk, Live

LEMMA EnableStep == ASSUME GInv, Enable PROVE GInv'
<1> USE StateIs
<1>1. UNCHANGED <<dev, ui, page, pc, hist>> /\ link' = [link EXCEPT !.subscribed = TRUE]
  BY DEF Enable, Subscribe
<1>2. /\ link' \in LinkT /\ link'.ble = link.ble /\ link'.online = link.online
      /\ link'.rpc = link.rpc /\ link'.request = link.request /\ link'.reply = link.reply
      /\ link'.events = link.events
  BY <1>1 DEF LinkT
<1>3. LinkOk(link', dev.ram, pc)
  BY <1>2 DEF LinkOk
<1> QED BY <1>1, <1>2, <1>3, LinkStep

LEMMA CloseStep == ASSUME GInv, Close PROVE GInv'
<1> USE StateIs
<1>1. /\ UNCHANGED <<dev, ui, page, pc, hist>> /\ link.ble = "dropping"
      /\ link' = [Reset(link, FALSE) EXCEPT !.ble = "down", !.events = <<>>]
  BY DEF Close, RpcDisconnect
<1>2. pc.reply = NoMessage
  BY <1>1 DEF LinkOk
<1>3. NoMessage \in Replies /\ <<>> \in Seq(Events) /\ AllSent(<<>>, pc)
  BY DEF Replies, AllSent
<1>4. link' \in LinkT /\ link'.events = <<>> /\ link'.rpc \in {"idle", "error"}
  <2> DEFINE l == Reset(link, FALSE)
  <2>1. l \in LinkT /\ l.rpc \in {"idle", "error"}
    BY <1>3 DEF Reset, LinkT
  <2>2. link' = [l EXCEPT !.ble = "down", !.events = <<>>]
    BY <1>1
  <2> HIDE DEF l
  <2> QED BY <1>3, <2>1, <2>2 DEF LinkT
<1>5. LinkOk(link', dev.ram, pc)
  BY <1>2, <1>3, <1>4, LinkQuiet
<1> QED BY <1>1, <1>4, <1>5, LinkStep

\* The PC as a broken connection leaves it.
LEMMA CutIs ==
  ASSUME GInv, Cut(link)
  PROVE  /\ PcOk(pc', hist) /\ Further(pc, pc') /\ AcksOk(pc', dev.ram, hist) /\ pc'.reply = NoMessage
         /\ \A t \in Tokens : \A l, r :
              Live(t, l, r, pc') =>
                \/ Live(t, link, dev.ram, pc)
                \/ l.rpc = "sending" /\ l.request.op = "execute" /\ l.request.arg = t
                \/ r.sendIntent /\ r.intent.token = t
<1> USE StateIs
<1>1. PICK sent \in {{}} \cup (IF link.rpc = "sending" /\ link.request.op \in {"execute", "ack"}
                               THEN {{link.request}} ELSE {}) :
        pc' = [pc EXCEPT !.reply = NoMessage, !.late = @ \cup sent, !.pushed = pc.acked]
  BY DEF Cut
<1>2. ASSUME NEW m \in sent
      PROVE  /\ m = link.request /\ link.rpc = "sending" /\ m \in Requests
             /\ \/ m.op = "execute" /\ m.arg \in 1 .. hist.token
                \/ m.op = "ack" /\ m.arg <= dev.ram.cursor
  <2>1. m = link.request /\ link.rpc = "sending" /\ m.op \in {"execute", "ack"}
    OBVIOUS
  <2>2. RequestOk(m, dev.ram, pc) /\ m \in Requests /\ m.arg \in Nat /\ hist.token \in Nat
    BY <2>1, PcIs DEF LinkOk, RequestOk, Requests
  <2>3. m.op = "execute" => m.arg = dev.ram.intent.token /\ m.arg # 0 /\ m.arg <= hist.token
    BY <2>2 DEF RequestOk, RamOk, Sound, OwnerOk
  <2>4. m.op = "ack" => m.arg <= dev.ram.cursor
    BY <2>2 DEF RequestOk
  <2> QED BY <2>1, <2>2, <2>3, <2>4
<1>3. sent \subseteq Requests
  BY <1>2
<1>4. /\ pc' \in PcT /\ pc'.cmds = pc.cmds /\ pc'.log = pc.log /\ pc'.acked = pc.acked
      /\ pc'.late = pc.late \cup sent /\ pc'.reply = NoMessage
  <2>1. NoMessage \in Replies
    BY DEF Replies
  <2> QED BY <1>1, <1>3, <2>1 DEF PcT
<1>5. PcOk(pc', hist) /\ Further(pc, pc')
  BY <1>4, PcSame
<1>6. AcksOk(pc', dev.ram, hist)
  BY <1>2, <1>4 DEF GInv, AcksOk
<1>7. ASSUME NEW t \in Tokens, NEW l, NEW r, Live(t, l, r, pc')
      PROVE  \/ Live(t, link, dev.ram, pc)
             \/ l.rpc = "sending" /\ l.request.op = "execute" /\ l.request.arg = t
             \/ r.sendIntent /\ r.intent.token = t
  BY <1>2, <1>4, <1>7 DEF Live
<1> QED BY <1>4, <1>5, <1>6, <1>7

\* The link after the session went down.
LEMMA DownLink ==
  ASSUME GInv, SessionDown, PcOk(pc', hist), Further(pc, pc'), pc'.reply = NoMessage
  PROVE  LinkOk(link', dev.ram, pc') /\ link'.rpc = link.rpc /\ link'.request = link.request
<1> USE StateIs
<1>1. link' = [link EXCEPT !.ble = "dropping", !.closing = FALSE]
  BY DEF SessionDown
<1>2. /\ link' \in LinkT /\ link'.online = link.online
      /\ link'.rpc = link.rpc /\ link'.request = link.request /\ link'.reply = link.reply
      /\ link'.events = link.events
  BY <1>1 DEF LinkT
<1>3. AllSent(link.events, pc')
  BY SentFurther DEF LinkOk
<1> QED BY <1>2, <1>3, AskedFurther DEF LinkOk

LEMMA DisconnectStep == ASSUME GInv, Disconnect PROVE GInv'
<1>1. UNCHANGED <<dev, ui, page, hist>> /\ SessionDown /\ Cut(link)
  BY DEF Disconnect
<1>2. /\ PcOk(pc', hist) /\ Further(pc, pc') /\ AcksOk(pc', dev.ram, hist) /\ pc'.reply = NoMessage
      /\ \A t \in Tokens : \A l, r :
           Live(t, l, r, pc') =>
             \/ Live(t, link, dev.ram, pc)
             \/ l.rpc = "sending" /\ l.request.op = "execute" /\ l.request.arg = t
             \/ r.sendIntent /\ r.intent.token = t
  BY <1>1, CutIs
<1>3. LinkOk(link', dev.ram, pc') /\ link'.rpc = link.rpc /\ link'.request = link.request
  BY <1>1, <1>2, DownLink
<1>4. ASSUME NEW t \in Tokens, Live(t, link', dev.ram, pc')
      PROVE  Live(t, link, dev.ram, pc)
  <2>1. \/ Live(t, link, dev.ram, pc)
        \/ link'.rpc = "sending" /\ link'.request.op = "execute" /\ link'.request.arg = t
        \/ dev.ram.sendIntent /\ dev.ram.intent.token = t
    BY <1>2, <1>4
  <2> QED BY <1>3, <2>1 DEF Live
<1> QED BY <1>1, <1>2, <1>3, <1>4, PcFaultless, PcStep

\* A fault is counted in dev, and changes nothing else there.
LEMMA DropIs ==
  ASSUME GInv, Drop
  PROVE  dev' \in DevT /\ DevOk(dev', pc, hist) /\ dev'.ram = dev.ram /\ Slots(dev') = Slots(dev)
<1>1. dev' = [dev EXCEPT !.faults = @ + 1]
  BY DEF Drop
<1> QED BY <1>1, StateIs, FaultCounted

LEMMA OutOfRangeStep == ASSUME GInv, OutOfRange PROVE GInv'
<1>1. UNCHANGED <<ui, page, hist>> /\ SessionDown /\ Cut(link) /\ Drop
  BY DEF OutOfRange
<1>2. /\ PcOk(pc', hist) /\ Further(pc, pc') /\ AcksOk(pc', dev.ram, hist) /\ pc'.reply = NoMessage
      /\ \A t \in Tokens : \A l, r :
           Live(t, l, r, pc') =>
             \/ Live(t, link, dev.ram, pc)
             \/ l.rpc = "sending" /\ l.request.op = "execute" /\ l.request.arg = t
             \/ r.sendIntent /\ r.intent.token = t
  BY <1>1, CutIs
<1>3. LinkOk(link', dev.ram, pc') /\ link'.rpc = link.rpc /\ link'.request = link.request
  BY <1>1, <1>2, DownLink
<1>4. ASSUME NEW t \in Tokens, Live(t, link', dev.ram, pc')
      PROVE  Live(t, link, dev.ram, pc)
  <2>1. \/ Live(t, link, dev.ram, pc)
        \/ link'.rpc = "sending" /\ link'.request.op = "execute" /\ link'.request.arg = t
        \/ dev.ram.sendIntent /\ dev.ram.intent.token = t
    BY <1>2, <1>4
  <2> QED BY <1>3, <2>1 DEF Live
<1> QED BY <1>1, <1>2, <1>3, <1>4, DropIs, PcStep

LEMMA FaultStep == ASSUME GInv, Fault PROVE GInv'
<1> USE StateIs
<1>1. UNCHANGED <<ui, page, hist>> /\ link' = Failed(link) /\ Cut(link) /\ Drop
  BY DEF Fault, Glitch
<1>2. /\ PcOk(pc', hist) /\ Further(pc, pc') /\ AcksOk(pc', dev.ram, hist) /\ pc'.reply = NoMessage
      /\ \A t \in Tokens : \A l, r :
           Live(t, l, r, pc') =>
             \/ Live(t, link, dev.ram, pc)
             \/ l.rpc = "sending" /\ l.request.op = "execute" /\ l.request.arg = t
             \/ r.sendIntent /\ r.intent.token = t
  BY <1>1, CutIs
<1>3. LinkOk(link', dev.ram, pc') /\ link'.rpc \in {"idle", "error"}
  <2>1. pc'.reply # NoMessage => pc.reply # NoMessage
    BY <1>2
  <2> QED BY <1>1, <2>1, BrokenLink
<1>4. ASSUME NEW t \in Tokens, Live(t, link', dev.ram, pc')
      PROVE  Live(t, link, dev.ram, pc)
  <2>1. \/ Live(t, link, dev.ram, pc)
        \/ link'.rpc = "sending" /\ link'.request.op = "execute" /\ link'.request.arg = t
        \/ dev.ram.sendIntent /\ dev.ram.intent.token = t
    BY <1>2, <1>4
  <2> QED BY <1>3, <2>1 DEF Live
<1> QED BY <1>1, <1>2, <1>3, <1>4, DropIs, PcStep

\* What load() makes of a slot.
LEMMA BootIs ==
  ASSUME NEW b \in BodyT, NEW p, NEW h, Sound(b, p, h), NEW r, r = Boot(b)
  PROVE  /\ r \in RamT /\ RamOk(r, p, h) /\ r.intent = b.intent /\ r.cursor = b.cursor
         /\ ~r.sendIntent /\ r.op = "none"
<1> DEFINE c == IF b.intent.unresolved /\ b.intent.cmd = 0
                THEN [b.command EXCEPT !.state = "unknown"] ELSE b.command
           full == Cardinality(b.early) >= JournalMax
<1>1. /\ b.intent \in Intents /\ b.command \in Commands /\ b.stream \in BOOLEAN /\ b.cursor \in Nat
      /\ b.alerts \in SUBSET Alerts /\ b.seen \in SUBSET Nat /\ b.early \in SUBSET Commands
  BY DEF BodyT
<1>2. c \in Commands /\ c.id = b.command.id /\ (c.state = "completed" => b.command.state = "completed")
  BY <1>1 DEF Commands, CmdStates
<1>3. full \in BOOLEAN
  OBVIOUS
<1>4. <<>> \in Seq(Events) /\ AllSent(<<>>, p) /\ "none" \in Ops
  BY DEF AllSent, Ops
<1>5. r = [intent |-> b.intent, stream |-> b.stream, cursor |-> b.cursor, command |-> c,
           alerts |-> b.alerts, seen |-> b.seen, early |-> b.early, full |-> full, held |-> <<>>,
           op |-> "none", sendIntent |-> FALSE, connected |-> FALSE, fresh |-> FALSE,
           recover |-> TRUE, ack |-> FALSE, asked |-> FALSE, failed |-> FALSE]
  BY DEF Boot
<1> HIDE DEF c, full
<1>6. r \in RamT
  BY <1>1, <1>2, <1>3, <1>4, <1>5 DEF RamT
<1>7. /\ r.intent = b.intent /\ r.stream = b.stream /\ r.cursor = b.cursor /\ r.command = c
      /\ r.alerts = b.alerts /\ r.seen = b.seen /\ r.early = b.early
      /\ r.held = <<>> /\ r.op = "none" /\ ~r.sendIntent
  BY <1>5
<1>8. Sound(r, p, h)
  BY <1>2, <1>7, Alike
<1>9. RamOk(r, p, h)
  BY <1>4, <1>7, <1>8 DEF RamOk
<1> QED BY <1>6, <1>7, <1>9

\* The link after a boot.
LEMMA NoLinkIs ==
  ASSUME NEW r, NEW p, p.reply = NoMessage
  PROVE  LinkOk(NoLink, r, p) /\ NoLink.rpc = "idle"
<1>1. NoMessage \in Replies /\ <<>> \in Seq(Events) /\ AllSent(<<>>, p)
  BY DEF Replies, AllSent
<1>2. NoLink \in LinkT /\ NoLink.rpc = "idle" /\ NoLink.events = <<>>
  BY <1>1 DEF NoLink, LinkT
<1> QED BY <1>1, <1>2, LinkQuiet

LEMMA PowerCutStep == ASSUME GInv, PowerCut PROVE GInv'
<1> USE StateIs
<1> DEFINE b == BootBody(dev)
           r == Boot(b)
<1>1. /\ link' = NoLink /\ ui' = "idle" /\ page' = NoPage /\ hist' = hist /\ Cut(link)
      /\ dev' = [dev EXCEPT !.ram = r, !.base = b, !.ahead = NoBody, !.faults = @ + 1]
  BY DEF PowerCut
<1>2. /\ PcOk(pc', hist) /\ Further(pc, pc') /\ AcksOk(pc', dev.ram, hist) /\ pc'.reply = NoMessage
      /\ \A t \in Tokens : \A l, x :
           Live(t, l, x, pc') =>
             \/ Live(t, link, dev.ram, pc)
             \/ l.rpc = "sending" /\ l.request.op = "execute" /\ l.request.arg = t
             \/ x.sendIntent /\ x.intent.token = t
  BY <1>1, CutIs
<1>3. b \in Slots(dev) /\ b \in BodyT
  BY DEF BootBody, Slots, DevT
<1>4. Sound(b, pc, hist) /\ dev.ram.cursor <= b.cursor /\ b.intent \in Intents /\ b.cursor \in Nat
  BY <1>3 DEF SlotsOk, BodyT
<1> HIDE DEF b
<1>5. /\ r \in RamT /\ RamOk(r, pc, hist) /\ r.intent = b.intent /\ r.cursor = b.cursor
      /\ ~r.sendIntent /\ r.op = "none"
  BY <1>3, <1>4, BootIs
<1> HIDE DEF r
<1>6. dev' \in DevT /\ dev'.ram = r /\ dev'.base = b /\ dev'.ahead = NoBody
  <2>1. dev.faults + 1 \in Nat
    BY DEF DevT
  <2> QED BY <1>1, <1>3, <1>5, <2>1 DEF DevT
<1>7. Slots(dev') = {b}
  BY <1>6 DEF Slots
<1>8. DevOk(dev', pc, hist)
  BY <1>4, <1>5, <1>6, <1>7 DEF DevOk, SlotsOk
<1>9. DevOk(dev', pc', hist)
  BY <1>2, <1>8, DevFurther
<1>10. AcksOk(pc', r, hist)
  <2>1. pc'.acked \in Nat /\ \A m \in pc'.late : m.arg \in Nat
    BY <1>2 DEF PcOk, PcT, Requests
  <2> QED BY <1>2, <1>4, <1>5, <2>1 DEF AcksOk
<1>11. LinkOk(link', r, pc') /\ link'.rpc = "idle"
  BY <1>1, <1>2, NoLinkIs
<1>12. TickOk(ui', page', r, pc')
  BY <1>1, NoPageIs DEF TickOk
<1>13. CreditOk(hist, r)
  BY <1>5 DEF GInv, CreditOk
<1>14. LiveOk(link', dev', pc', hist)
  <2> SUFFICES ASSUME NEW t \in Tokens \ hist.closed, Live(t, link', r, pc')
               PROVE  r.intent.token = t /\ b.intent.token = t
    BY <1>6, <1>7 DEF LiveOk
  <2>1. Live(t, link, dev.ram, pc)
    BY <1>2, <1>5, <1>11
  <2> QED BY <1>3, <1>5, <2>1 DEF GInv, LiveOk
<1> QED BY <1>1, <1>2, <1>6, <1>9, <1>10, <1>11, <1>12, <1>13, <1>14 DEF GInv

-----------------------------------------------------------------------------
(* The theorems.                                                            *)

LEMMA BlankIs ==
  ASSUME NEW p, NEW h, p.log = <<>>, h.token = 0
  PROVE  Blank \in BodyT /\ Sound(Blank, p, h)
<1>1. /\ NoIntent \in Intents /\ NoIntent.token = 0 /\ NoIntent.cmd = 0 /\ ~NoIntent.unresolved
      /\ NoCommand \in Commands
  BY DEF NoIntent, Intents, NoCommand, Commands, CmdStates
<1>2. /\ Blank \in BodyT /\ Blank.intent = NoIntent /\ Blank.cursor = 0 /\ Blank.early = {}
      /\ Blank.alerts = {} /\ Blank.seen = {}
  BY <1>1 DEF Blank, BodyT
<1>3. Len(p.log) = 0
  OBVIOUS
<1> QED BY <1>1, <1>2, <1>3 DEF Sound, OwnerOk, OutcomeOk, EarlyOk, CursorOk, ListOk, KeptOk

\* The initial states: nothing sent, one body saved.
LEMMA InitOk == Init => GInv
<1> SUFFICES ASSUME Init PROVE GInv
  OBVIOUS
<1>1. /\ link = NoLink /\ ui = "idle" /\ page = NoPage
      /\ dev = [ram |-> Boot(Blank), base |-> Blank, ahead |-> NoBody, faults |-> 0]
      /\ pc = [cmds |-> [t \in Tokens |-> "none"], log |-> <<>>, pushed |-> 0, acked |-> 0,
               reply |-> NoMessage, late |-> {}]
      /\ hist = [token |-> 0, retries |-> 0, credit |-> [t \in Tokens |-> 0], closed |-> {},
              read |-> {}]
  BY DEF Init, LinkInit
<1>2. MaxCommands \in Nat
  BY GuardianClientAssumption
<1>3. hist \in HistT /\ hist.token = 0 /\ \A t \in Tokens : hist.credit[t] = 0
  BY <1>1, <1>2 DEF HistT
<1>4. /\ pc \in PcT /\ pc.log = <<>> /\ Len(pc.log) = 0 /\ pc.acked = 0 /\ pc.reply = NoMessage
      /\ pc.late = {} /\ \A t \in Tokens : pc.cmds[t] = "none"
  BY <1>1 DEF PcT, CmdStates, Replies
<1>5. PcOk(pc, hist)
  BY <1>4 DEF PcOk
<1>6. Blank \in BodyT /\ Sound(Blank, pc, hist) /\ Blank.cursor = 0
  BY <1>3, <1>4, BlankIs DEF Blank
<1> DEFINE r == Boot(Blank)
<1>7. r \in RamT /\ RamOk(r, pc, hist) /\ r.cursor = 0 /\ ~r.sendIntent /\ r.op = "none"
  BY <1>6, BootIs
<1> HIDE DEF r
<1>8. dev \in DevT /\ dev.ram = r /\ Slots(dev) = {Blank}
  BY <1>1, <1>6, <1>7 DEF DevT, Slots, r
<1>9. DevOk(dev, pc, hist)
  BY <1>6, <1>7, <1>8 DEF DevOk, SlotsOk
<1>10. LinkOk(link, dev.ram, pc) /\ link.rpc = "idle"
  BY <1>1, <1>4, NoLinkIs
<1>11. AcksOk(pc, dev.ram, hist)
  BY <1>4, <1>7, <1>8 DEF AcksOk
<1>12. TickOk(ui, page, dev.ram, pc)
  BY <1>1, NoPageIs DEF TickOk
<1>13. CreditOk(hist, dev.ram)
  BY <1>3, <1>7, <1>8 DEF CreditOk
<1>14. LiveOk(link, dev, pc, hist)
  BY <1>4, <1>7, <1>8, <1>10 DEF LiveOk, Live
<1> QED BY <1>5, <1>9, <1>10, <1>11, <1>12, <1>13, <1>14 DEF GInv

\* One lemma for each action.
LEMMA NextOk == ASSUME GInv, [Next]_vars PROVE GInv'
<1>1. CASE Tick
  BY <1>1, TakeStep, ListStep, PageStep, HeldStep, EventStep, StartStep DEF Tick
<1>2. CASE RetrySave
  BY <1>2, RetrySaveStep
<1>3. CASE User
  BY <1>3, ExecuteStep, RetryStep, DiscardStep, MarkStep, RefreshStep DEF User
<1>4. CASE Pc
  BY <1>4, ServeStep, RefuseStep, ServeLateStep, DeliverStep, ProgressStep, RaiseStep, PushStep DEF Pc
<1>5. CASE Radio
  BY <1>5, ConnectStep, EnableStep, CloseStep, DisconnectStep, OutOfRangeStep, FaultStep DEF Radio
<1>6. CASE PowerCut
  BY <1>6, PowerCutStep
<1>7. CASE UNCHANGED vars
  BY <1>7 DEF vars, GInv, LiveOk, Live
<1> QED BY <1>1, <1>2, <1>3, <1>4, <1>5, <1>6, <1>7 DEF Next

\* The inductive invariant: the memory of the Client and both slots of its
\* store describe a past of the PC (Sound), what is on the wire is what the
\* operation under way asks and what the PC may answer to it (LinkOk, PageOk),
\* what is acked is below the cursor (AcksOk), and a command the PC has, or may
\* still get, is the one in the memory and in every slot (LiveOk).
THEOREM Invariance == Spec => []GInv
<1>1. Init => GInv
  BY InitOk
<1>2. GInv /\ [Next]_vars => GInv'
  BY NextOk
<1> QED BY <1>1, <1>2, PTL DEF Spec

\* Client::execute saves the intent before control.execute may be sent: a
\* command that the PC may have carried out is in every slot a reboot may load,
\* until the user gives it up or replaces it.
THEOREM CommandsRemembered == Spec => []NoForgottenCommand
<1>1. GInv => NoForgottenCommand
  BY DEF GInv, LiveOk, Live, NoForgottenCommand, Known, Bodies, Slots
<1> QED BY <1>1, Invariance, PTL

\* control.execute goes out at most once per decision of the user, whatever
\* reconnects, reboots or fails between the decision and the send.
THEOREM SendsDecided == Spec => []SendsAreDecisions
<1>1. GInv => SendsAreDecisions
  BY DEF GInv, CreditOk, SendsAreDecisions
<1> QED BY <1>1, Invariance, PTL

\* The id and the outcome the device has, in memory or in a slot, are those of
\* the command that its token owns, through late, early and repeated results.
THEOREM OutcomesMatch == Spec => []OutcomeIsTheCommands
<1>1. GInv => OutcomeIsTheCommands
  <2> SUFFICES ASSUME GInv, NEW b \in Bodies \cup {dev.ram}, b.intent.token # 0
               PROVE  /\ b.intent.cmd \in {0, b.intent.token}
                      /\ (~b.intent.unresolved \/ b.command.state = "completed") =>
                           b.intent.cmd # 0 /\ b.command.id = b.intent.cmd
                                            /\ pc.cmds[b.intent.token] = "completed"
    BY DEF OutcomeIsTheCommands
  <2>1. Sound(b, pc, hist)
    BY StateIs DEF Bodies, Slots, SlotsOk, RamOk
  <2> QED BY <2>1 DEF Sound, OwnerOk, OutcomeOk
<1> QED BY <1>1, Invariance, PTL

\* events.ack follows the cursor that was saved: an event that was acked, and
\* so is never sent again, is behind the cursor of every slot; an emergency
\* among them is stored there until the user has read it, though a full list
\* makes room for new alerts.
THEOREM AckedStored == Spec => []AckedIsStored
<1>1. ASSUME GInv, NEW b \in Bodies
      PROVE  /\ Sound(b, pc, hist) /\ b.cursor \in Nat /\ pc.acked \in Nat /\ pc.acked <= b.cursor
             /\ \A k \in 1 .. pc.acked : k \in 1 .. b.cursor
  <2>1. b \in Slots(dev)
    BY <1>1 DEF Bodies, Slots
  <2>2. Sound(b, pc, hist) /\ dev.ram.cursor <= b.cursor /\ dev.ram.cursor \in Nat
    BY <1>1, <2>1, StateIs DEF SlotsOk
  <2>3. b \in BodyT
    BY <1>1, <2>1, StateIs DEF DevT, Slots
  <2>4. b.cursor \in Nat /\ pc.acked \in Nat /\ pc.acked <= dev.ram.cursor
    BY <1>1, <2>3, StateIs DEF GInv, AcksOk, PcT, BodyT
  <2> QED BY <2>2, <2>4
<1>2. GInv => AckedIsStored
  BY <1>1 DEF AckedIsStored, Sound, CursorOk, ListOk
<1> QED BY <1>2, Invariance, PTL

\* The same of an outcome: once its event was acked it is in the command of the
\* intent or in the journal of early results, so the PC need not tell it again.
THEOREM AckedOutcomesKept == Spec => []AckedOutcomeKept
<1>1. GInv => AckedOutcomeKept
  <2> SUFFICES ASSUME GInv, NEW k \in 1 .. pc.acked, NEW b \in Bodies,
                      pc.log[k].kind = "command", pc.log[k].state = "completed",
                      b.intent.token = pc.log[k].cmd, b.intent.token \notin hist.closed
               PROVE  ~b.intent.unresolved \/ [id |-> pc.log[k].cmd, state |-> "completed"] \in b.early
    BY DEF AckedOutcomeKept
  <2>1. b \in Slots(dev)
    BY DEF Bodies, Slots
  <2>2. Sound(b, pc, hist) /\ dev.ram.cursor <= b.cursor /\ dev.ram.cursor \in Nat /\ b \in BodyT
    BY <2>1, StateIs DEF SlotsOk, DevT, Slots
  <2>3. b.cursor \in Nat /\ pc.acked \in Nat /\ pc.acked <= dev.ram.cursor
    BY <2>2, StateIs DEF GInv, AcksOk, PcT, BodyT
  <2>4. k \in 1 .. b.cursor
    BY <2>2, <2>3
  <2> QED BY <2>2, <2>4 DEF Sound, KeptOk, Completion
<1> QED BY <1>1, Invariance, PTL
===============================================================================
