---------------------------- MODULE GuardianClient ----------------------------
(* The coordinator of the Guardian v3 protocol on the UI task               *)
(* (services/GuardianV3Client.cpp): commands the user gives to a radio on   *)
(* the PC, and the durable log of events the PC sends, over the link of     *)
(* GuardianRpc.tla and the two-slot store of services/GuardianV3Storage.h.  *)
(* The PC service is external and follows docs/GUARD_MESH_BLE_V3_CS.md.     *)
(* All commands have one radio and one action, the case in which they are   *)
(* told apart by their ids alone.  The PC keeps its database: its stream    *)
(* has one name and a cursor is never rewound.  The polls without an effect *)
(* on the PC's commands and log (capabilities.get, station.get, alert.seen) *)
(* are one step from request to reply; alerts.list and the marks of other   *)
(* devices (events of type alert.seen) are left out.                        *)
EXTENDS GuardianRpc, Integers, FiniteSets

CONSTANTS
  JournalMax,      (* MaxItems for early_commands                          *)
  HeldMax,         (* MaxItems for heldEvents                              *)
  AlertsMax,       (* MaxItems for alerts and for seenIds                  *)
  PageMax,         (* events in one events.list page                       *)
  Window,          (* events the PC sends beyond the last ack              *)
  (* bounds of the model *)
  MaxCommands, MaxAlerts,
  Urgencies,       (* whether alerts raised are emergencies: TRUE or FALSE *)
  MaxLog,          (* length of the PC's log                               *)
  MaxReads,        (* alerts the user reads                                *)
  MaxRetries,      (* decisions to send the same token again               *)
  MaxFaults        (* drops, reboots, failed saves and refreshes           *)

ASSUME GuardianClientAssumption ==
  /\ {JournalMax, HeldMax, AlertsMax, PageMax, Window} \subseteq Nat \ {0}
  /\ Urgencies \subseteq BOOLEAN
  /\ {MaxCommands, MaxAlerts, MaxLog, MaxReads, MaxRetries, MaxFaults} \subseteq Nat

VARIABLES
  dev,     (* ram: the Client; base: the body in the active slot;          *)
           (* ahead: a newer body written but never confirmed, or NoBody   *)
  ui,      (* how far Client::tick has come                                *)
  page,    (* the rest of an events.list page that the tick is taking in   *)
  pc,      (* the PC: its commands, event log, ack, and the RPC it serves  *)
  hist     (* what the user decided and what was started on the wire       *)

vars == <<link, dev, ui, page, pc, hist>>

Tokens == 1..MaxCommands

\* An intent without a token, and a command the PC has not named.
NoIntent == [token |-> 0, cmd |-> 0, unresolved |-> FALSE]
NoCommand == [id |-> 0, state |-> "unknown"]
NoBody == [none |-> TRUE]
NoPage == [items |-> <<>>, gap |-> FALSE, more |-> FALSE]

Blank ==
  [intent |-> NoIntent, command |-> NoCommand, stream |-> FALSE, cursor |-> 0,
   alerts |-> {}, seen |-> {}, early |-> {}]

-----------------------------------------------------------------------------
(* Client::save and Client::load over DurableStore.                        *)

\* The JSON of save(): a command is written only once it has an id.
Body(r) ==
  [intent |-> r.intent, stream |-> r.stream, cursor |-> r.cursor,
   command |-> IF r.command.id # 0 THEN r.command ELSE NoCommand,
   alerts |-> r.alerts, seen |-> r.seen, early |-> r.early]

\* Mutation: after a reboot an unresolved command is sent again.
MutBoot(b) ==
  [intent |-> b.intent, stream |-> b.stream, cursor |-> b.cursor, command |-> b.command,
   alerts |-> b.alerts, seen |-> b.seen, early |-> b.early,
   full |-> Cardinality(b.early) >= JournalMax, held |-> <<>>,
   op |-> "none", sendIntent |-> b.intent.unresolved /\ b.intent.cmd = 0,
   connected |-> FALSE, fresh |-> FALSE,
   recover |-> TRUE, ack |-> FALSE, asked |-> FALSE, failed |-> FALSE]

\* load(): a command without an id is of unknown outcome.
Boot(b) ==
  [intent |-> b.intent, stream |-> b.stream, cursor |-> b.cursor,
   command |-> IF b.intent.unresolved /\ b.intent.cmd = 0
               THEN [b.command EXCEPT !.state = "unknown"] ELSE b.command,
   alerts |-> b.alerts, seen |-> b.seen, early |-> b.early,
   full |-> Cardinality(b.early) >= JournalMax, held |-> <<>>,
   op |-> "none", sendIntent |-> FALSE, connected |-> FALSE, fresh |-> FALSE,
   recover |-> TRUE, ack |-> FALSE, asked |-> FALSE, failed |-> FALSE]

\* Mutation: the slot that was written is not read back.
MutSaves(d) ==
  {[ok |-> TRUE,
    dev |-> [d EXCEPT !.base = Body(d.ram), !.ahead = NoBody, !.ram.failed = FALSE]]}
  \cup IF d.faults = MaxFaults THEN {}
       ELSE {[ok |-> slot = NoBody,
              dev |-> [d EXCEPT !.ahead = slot, !.faults = @ + 1, !.ram.failed = slot # NoBody]]
             : slot \in {d.ahead, NoBody, Body(d.ram)}}

\* DurableStore::save writes the other slot and reads it back.  It may fail
\* before the write, tear the slot, or fail to read a slot that was written.
Saves(d) ==
  {[ok |-> TRUE,
    dev |-> [d EXCEPT !.base = Body(d.ram), !.ahead = NoBody, !.ram.failed = FALSE]]}
  \cup IF d.faults = MaxFaults THEN {}
       ELSE {[ok |-> FALSE,
              dev |-> [d EXCEPT !.ahead = slot, !.faults = @ + 1, !.ram.failed = TRUE]]
             : slot \in {d.ahead, NoBody, Body(d.ram)}}

\* Save the new state; if that fails, go back to the old one.
Commit(d, new, old) ==
  {IF s.ok THEN s ELSE [s EXCEPT !.dev.ram = [old EXCEPT !.failed = TRUE]]
   : s \in Saves([d EXCEPT !.ram = new])}

Results(saves) == {s.dev : s \in saves}

-----------------------------------------------------------------------------
(* Client::acceptEvent.  Each operator is the set of [ok, dev] it may leave. *)

Resolves(state) == state = "completed"
OwnEvent(r, e) == e.kind = "command" /\ e.cmd = r.intent.cmd
Uncorrelated(r, e) ==
  e.kind = "command" /\ ~OwnEvent(r, e) /\ r.intent.unresolved /\ r.intent.cmd = 0

KnownEarly(r, id) == {c \in r.early : c.id = id}

\* The journal of early results has no room for one more command.
Overflows(r, e) ==
  /\ Uncorrelated(r, e)
  /\ KnownEarly(r, e.cmd) = {} /\ Cardinality(r.early) >= JournalMax

\* Mutation: a full list makes room with any alert.
MutEvictable(alerts) == alerts

\* What makes room in a full list: alerts that were seen or are no emergency.
Evictable(alerts) == {a \in alerts : a.seen \/ ~a.urgent}

Stored(alerts) == {a.seq : a \in alerts}

\* upsertAlert: the lists it may leave.  An alert that is stored stays as it
\* is; a full list of unseen emergencies takes no other, and there is none.
Upserted(r, e) ==
  LET new == [seq |-> e.seq, urgent |-> e.urgent, seen |-> e.seq \in r.seen]
  IN CASE e.seq \in Stored(r.alerts) -> {r.alerts}
       [] e.seq \notin Stored(r.alerts) /\ Cardinality(r.alerts) < AlertsMax ->
            {r.alerts \cup {new}}
       [] OTHER -> {(r.alerts \ {victim}) \cup {new} : victim \in Evictable(r.alerts)}

\* Mutation: a result whose command has no id yet is taken to be the intent's.
MutApplied(r, e) ==
  {[r EXCEPT
    !.stream = TRUE, !.cursor = e.seq, !.alerts = alerts,
    !.command = IF OwnEvent(r, e) \/ Uncorrelated(r, e)
                THEN [id |-> e.cmd, state |-> e.state] ELSE @,
    !.intent = IF OwnEvent(r, e) \/ Uncorrelated(r, e)
               THEN [@ EXCEPT !.cmd = e.cmd, !.unresolved = ~Resolves(e.state)] ELSE @]
   : alerts \in IF e.kind = "alert" THEN Upserted(r, e) ELSE {r.alerts}}

\* What the event changes: an alert, the outcome of the command, or an early
\* result kept aside until a reply tells which command the token owns.  Nothing
\* is left to apply if the list of alerts does not take it.
Applied(r, e) ==
  {[r EXCEPT
    !.stream = TRUE, !.cursor = e.seq, !.alerts = alerts,
    !.command = IF OwnEvent(r, e) THEN [id |-> e.cmd, state |-> e.state] ELSE @,
    !.intent.unresolved = IF OwnEvent(r, e) THEN ~Resolves(e.state) ELSE @,
    !.early = IF Uncorrelated(r, e) /\ {c \in KnownEarly(r, e.cmd) : Resolves(c.state)} = {}
              THEN (@ \ KnownEarly(r, e.cmd)) \cup {[id |-> e.cmd, state |-> e.state]}
              ELSE @]
   : alerts \in IF e.kind = "alert" THEN Upserted(r, e) ELSE {r.alerts}}

\* Out of order: the event waits for events.list; but while a full journal
\* blocks the cursor, an alert is stored at once if the list takes it.
OutOfOrder(d, e) ==
  LET r == d.ram
      aside == r.full /\ r.stream /\ e.seq > r.cursor /\ e.kind = "alert"
                 /\ e.seq \notin Stored(r.alerts) /\ Upserted(r, e) # {}
  IN {[ok |-> FALSE, dev |-> [x EXCEPT !.ram.recover = TRUE]]
      : x \in IF aside
              THEN UNION {Results(Commit(d, [r EXCEPT !.alerts = alerts], r)) : alerts \in Upserted(r, e)}
              ELSE {d}}

\* Mutation: an alert the list does not take is not asked for again.
MutRefusal(d) == {[ok |-> FALSE, dev |-> d]}

\* The list takes no alert: the event is asked for again, until it fits.
Refusal(d) == {[ok |-> FALSE, dev |-> [d EXCEPT !.ram.recover = TRUE]]}

Accept(d, e, gap) ==
  LET r == d.ram
      known == r.stream /\ e.seq <= r.cursor
      next == gap \/ (r.stream /\ e.seq = r.cursor + 1)
      saved == UNION {Commit(d, new, r) : new \in Applied(r, e)}
  IN CASE known -> {[ok |-> TRUE, dev |-> [d EXCEPT !.ram.ack = TRUE]]}
       [] ~known /\ ~next -> OutOfOrder(d, e)
       [] ~known /\ next /\ Overflows(r, e) ->
            {[ok |-> FALSE, dev |-> [d EXCEPT !.ram.recover = TRUE, !.ram.full = TRUE]]}
       [] ~known /\ next /\ ~Overflows(r, e) /\ Applied(r, e) = {} -> Refusal(d)
       [] OTHER ->
            {IF s.ok THEN [s EXCEPT !.dev.ram.ack = TRUE] ELSE [s EXCEPT !.dev.ram.recover = TRUE]
             : s \in saved}

-----------------------------------------------------------------------------
(* Client::response: the device after the answer to its request.  Each     *)
(* operator is the set of [ok, dev]; a reply that is not valid is ~ok.     *)

\* The outcome of the command is not known; that is saved, and stands even
\* when the save fails.
Unsure(d) ==
  IF d.ram.intent.unresolved
  THEN Results(Saves([d EXCEPT !.ram.command.state = "unknown"]))
  ELSE {d}

\* protocolError, without its rpcAbort.
Invalid(d) == {[ok |-> FALSE, dev |-> x] : x \in Unsure(d)}
Valid(devs) == {[ok |-> TRUE, dev |-> x] : x \in devs}

OnFailure(d) ==
  CASE d.ram.op \in {"execute", "get"} -> Unsure(d)
    [] d.ram.op = "list" -> {[d EXCEPT !.ram.recover = TRUE]}
    [] d.ram.op = "ack" -> {[d EXCEPT !.ram.ack = TRUE]}

\* Mutation: an older pending snapshot undoes a completion.
MutNewer(known, reply) == [id |-> reply.id, state |-> reply.state]

\* The command after a reply: what an early event already told of it, and then
\* the reply, unless that would undo a completion.
Newer(known, reply) ==
  IF known.id = reply.id /\ Resolves(known.state) /\ reply.state = "pending"
  THEN known ELSE [id |-> reply.id, state |-> reply.state]

\* The reply names the command that the token owns.
Named(r, reply) ==
  LET known == KnownEarly(r, reply.id)
      command == Newer(IF known = {} THEN r.command ELSE CHOOSE c \in known : TRUE, reply)
  IN [r EXCEPT !.intent.cmd = reply.id, !.intent.unresolved = ~Resolves(command.state),
               !.command = command, !.early = {}, !.asked = TRUE]

\* The journal is empty: events are replayed again.
Resumed(r) == [r EXCEPT !.full = FALSE]

OnCommand(d, reply) ==
  LET r == d.ram
      kept == [r EXCEPT !.command.state = "unknown", !.asked = TRUE]
      stale(ram) == [ram EXCEPT !.fresh = @ /\ r.op # "execute" /\ ram.command.state = r.command.state]
  IN IF r.intent.token = 0 \/ r.intent.cmd \notin {0, reply.id}
     THEN Invalid(d)
     ELSE Valid({[s.dev EXCEPT !.ram = stale(IF s.ok THEN Resumed(@) ELSE @)]
                 : s \in Commit(d, Named(r, reply), kept)})

OnAck(d, reply) ==
  Valid({[d EXCEPT !.ram.recover = @ \/ reply.cursor > d.ram.cursor]})

Response(d, reply) ==
  CASE d.ram.op \in {"execute", "get"} -> OnCommand(d, reply)
    [] d.ram.op = "ack" -> OnAck(d, reply)

-----------------------------------------------------------------------------
(* Client::tick, on the UI task.                                           *)

\* A response whose reply is not valid, or an overflow, ends the connection.
Leave(l, ok) == IF ok THEN l ELSE Aborted(l)

\* The tick finds a reply or an error for its request.
Waiting == dev.ram.op # "none" /\ Answered(link)

\* The reply, if there was one, is dealt with.
Drained == ui = "events" \/ (ui = "idle" /\ ~Waiting)

\* rpcTake and response.
IsPage == dev.ram.op = "list" /\ link.rpc = "reply" /\ link.reply.ok
TickTake ==
  /\ ui = "idle" /\ ui' = "events"
  /\ Waiting /\ ~IsPage
  /\ \E s \in IF link.rpc = "reply" /\ link.reply.ok
              THEN Response(dev, link.reply) ELSE Valid(OnFailure(dev)) :
       /\ dev' = [s.dev EXCEPT !.ram.op = "none"]
       /\ link' = Leave(Taken(link), s.ok)
  /\ UNCHANGED <<page, pc, hist>>

\* All of a page is stored: now the held events that it made contiguous.
Closing(d, more) ==
  /\ dev' = [d EXCEPT !.ram.recover = more, !.ram.ack = d.ram.cursor > 0]
  /\ ui' = IF d.ram.held = <<>> THEN "events" ELSE "held"
  /\ page' = NoPage

Refused(d) == dev' = [d EXCEPT !.ram.recover = TRUE] /\ ui' = "events" /\ page' = NoPage

\* response to events.list.  The first page of a stream has a gap before it.
\* The callbacks of the link run on between the saves of two events.
TickList ==
  /\ ui = "idle" /\ Waiting /\ IsPage
  /\ link' = Taken(link)
  /\ LET gap == ~dev.ram.stream
         start == [dev EXCEPT !.ram.op = "none", !.ram.fresh = @ /\ ~gap, !.ram.asked = @ /\ ~gap]
     IN \/ /\ link.reply.items # <<>>
           /\ dev' = start /\ ui' = "page"
           /\ page' = [items |-> link.reply.items, gap |-> gap, more |-> link.reply.more]
        \/ /\ link.reply.items = <<>> /\ ~gap
           /\ Closing(start, link.reply.more)
        \/ /\ link.reply.items = <<>> /\ gap
           /\ \E s \in Commit(start, [start.ram EXCEPT !.stream = TRUE], start.ram) :
                IF s.ok THEN Closing(s.dev, link.reply.more) ELSE Refused(s.dev)
  /\ UNCHANGED <<pc, hist>>

\* acceptEvent on each item until one is refused.
TickPage ==
  /\ ui = "page"
  /\ \E s \in Accept(dev, Head(page.items), page.gap) :
       \/ ~s.ok /\ Refused(s.dev)
       \/ /\ s.ok /\ Len(page.items) > 1
          /\ dev' = s.dev /\ UNCHANGED ui
          /\ page' = [page EXCEPT !.items = Tail(@), !.gap = FALSE]
       \/ s.ok /\ Len(page.items) = 1 /\ Closing(s.dev, page.more)
  /\ UNCHANGED <<link, pc, hist>>

\* The first held event that is refused stays, and those behind it.
TickHeld ==
  /\ ui = "held"
  /\ LET e == Head(dev.ram.held)
         rest(d) == [d EXCEPT !.ram.held = Tail(@)]
         goesOn == ui' = IF Len(dev.ram.held) = 1 THEN "events" ELSE "held"
     IN IF e.seq <= dev.ram.cursor
        THEN dev' = rest(dev) /\ goesOn /\ UNCHANGED page
        ELSE \E s \in Accept(dev, e, FALSE) :
               IF s.ok THEN dev' = rest(s.dev) /\ goesOn /\ UNCHANGED page ELSE Refused(s.dev)
  /\ UNCHANGED <<link, pc, hist>>

\* eventTake and acceptEvent; an event that cannot be applied is held.
TickEvent ==
  /\ Drained /\ ui' = "events"
  /\ link.events # <<>>
  /\ \E s \in Accept(dev, Head(link.events), FALSE) :
       LET rest == [link EXCEPT !.events = Tail(@)]
           full == ~s.ok /\ Len(s.dev.ram.held) >= HeldMax
       IN /\ link' = Leave(rest, ~full)
          /\ dev' = [s.dev EXCEPT !.ram.held =
                       IF s.ok THEN @ ELSE IF full THEN <<>> ELSE Append(@, Head(link.events))]
  /\ UNCHANGED <<page, pc, hist>>

\* The session is over: nothing is sent without a new decision.
Offline(d) ==
  IF ~d.ram.connected THEN {d}
  ELSE Unsure([d EXCEPT !.ram.connected = FALSE, !.ram.fresh = FALSE, !.ram.sendIntent = FALSE,
                        !.ram.held = <<>>, !.ram.recover = TRUE])

\* A new session starts from a snapshot and the missed events.
Online(r) ==
  IF r.connected THEN r
  ELSE [r EXCEPT !.connected = TRUE, !.recover = TRUE, !.fresh = FALSE, !.asked = FALSE]

\* What the tick does next on a link that is ready.
Doing(r) ==
  CASE ~r.fresh -> "snapshot"
    [] r.fresh /\ r.sendIntent -> "execute"
    [] r.fresh /\ ~r.sendIntent /\ r.seen # {} -> "seen"
    [] r.fresh /\ ~r.sendIntent /\ r.seen = {} /\ r.recover /\ ~r.full -> "list"
    [] r.fresh /\ ~r.sendIntent /\ r.seen = {} /\ ~(r.recover /\ ~r.full) /\ r.ack /\ r.stream -> "ack"
    [] OTHER -> IF r.intent.unresolved /\ r.intent.cmd # 0 /\ (r.command.state # "unknown" \/ ~r.asked)
                THEN "get" ELSE "none"

Argument(r, op) ==
  CASE op = "execute" -> r.intent.token [] op = "get" -> r.intent.cmd [] OTHER -> r.cursor

\* What starting a request consumes.
Consumed(r, op) ==
  [r EXCEPT !.op = op, !.sendIntent = @ /\ op # "execute", !.ack = @ /\ op # "ack",
            !.asked = @ \/ op = "get"]

Send(r, op) ==
  /\ link' = Started(link, [op |-> op, arg |-> Argument(r, op)])
  /\ dev' = [dev EXCEPT !.ram = Consumed(r, op)]
  /\ hist' = IF op = "execute" THEN [hist EXCEPT !.credit[r.intent.token] = @ - 1] ELSE hist

\* capabilities.get and station.get.
Polled(r) ==
  /\ dev' = [dev EXCEPT !.ram = [r EXCEPT !.fresh = TRUE]]
  /\ UNCHANGED <<link, hist>>

\* alert.seen: the PC knows of the mark, so that it need not be told again.
TellSeen(r) ==
  /\ \E k \in r.seen : dev' \in Results(Saves([dev EXCEPT !.ram = [r EXCEPT !.seen = @ \ {k}]]))
  /\ UNCHANGED <<link, hist>>

\* A fresh snapshot may say that the action is not available now.
Withdraw(r) ==
  /\ dev' = [dev EXCEPT !.ram = [r EXCEPT !.sendIntent = FALSE, !.command.state = "unknown"]]
  /\ UNCHANGED <<link, hist>>

\* The rest of the tick, once the queue is empty.
TickStart ==
  /\ Drained /\ ui' = "idle"
  /\ link.events = <<>>
  /\ IF ~Session
     THEN dev' \in Offline(dev) /\ UNCHANGED <<link, hist>>
     ELSE LET r == Online(dev.ram)
              op == Doing(r)
          IN CASE r.op # "none" \/ ~Ready \/ op = "none" ->
                    dev' = [dev EXCEPT !.ram = r] /\ UNCHANGED <<link, hist>>
               [] OTHER ->
                    \/ op = "snapshot" /\ Polled(r)
                    \/ op = "seen" /\ TellSeen(r)
                    \/ op = "execute" /\ (Withdraw(r) \/ (~r.failed /\ Send(r, op)))
                    \/ op \in {"list", "ack", "get"} /\ Send(r, op)
  /\ UNCHANGED <<page, pc>>

\* A failed save is tried again every two seconds.
RetrySave ==
  /\ ui = "idle" /\ dev.ram.failed
  /\ dev' \in Results(Saves(dev))
  /\ UNCHANGED <<link, ui, page, pc, hist>>

-----------------------------------------------------------------------------
(* The user, on the screen (screens/GuardianAppScreen.cpp): between ticks.  *)

\* controlReason and recoveryReason: the station is fresh, nothing is awaited.
Decides == ui = "idle" /\ dev.ram.fresh /\ Session /\ dev.ram.op = "none"

NewIntent(r, token) ==
  [r EXCEPT !.intent = [token |-> token, cmd |-> 0, unresolved |-> TRUE],
            !.command = [id |-> 0, state |-> "pending"]]

Execute ==
  /\ Decides /\ ~dev.ram.failed /\ ~dev.ram.intent.unresolved
  /\ hist.token < MaxCommands
  /\ \E s \in Commit(dev, NewIntent(dev.ram, hist.token + 1), dev.ram) :
       /\ dev' = [s.dev EXCEPT !.ram.sendIntent = @ \/ s.ok]
       /\ hist' = [hist EXCEPT !.token = @ + 1, !.credit[hist.token + 1] = IF s.ok THEN @ + 1 ELSE @,
                               !.closed = @ \cup ({dev.ram.intent.token} \ {0})]
  /\ UNCHANGED <<link, ui, page, pc>>

Retry ==
  /\ Decides /\ ~dev.ram.failed
  /\ dev.ram.intent.unresolved /\ dev.ram.intent.cmd = 0
  /\ dev.ram.command.state = "unknown" /\ hist.retries < MaxRetries
  /\ \E s \in Saves(dev) :
       /\ dev' = IF s.ok THEN [s.dev EXCEPT !.ram.sendIntent = TRUE, !.ram.command.state = "pending"]
                 ELSE s.dev
       /\ hist' = [hist EXCEPT !.retries = @ + 1,
                              !.credit[dev.ram.intent.token] = IF s.ok THEN @ + 1 ELSE @]
  /\ UNCHANGED <<link, ui, page, pc>>

Discard ==
  /\ Decides /\ ~dev.ram.failed
  /\ dev.ram.intent.unresolved /\ dev.ram.command.state = "unknown"
  /\ \E s \in Commit(dev, [dev.ram EXCEPT !.intent = NoIntent, !.early = {}], dev.ram) :
       /\ dev' = IF s.ok THEN [s.dev EXCEPT !.ram = [Resumed(@) EXCEPT !.sendIntent = FALSE]]
                 ELSE s.dev
       /\ hist' = [hist EXCEPT !.closed = @ \cup {dev.ram.intent.token}]
  /\ UNCHANGED <<link, ui, page, pc>>

\* Client::seen: the user has read an alert.
Mark ==
  /\ ui = "idle" /\ Cardinality(dev.ram.seen) < AlertsMax
  /\ Cardinality(hist.read) < MaxReads
  /\ \E a \in dev.ram.alerts :
       /\ ~a.seen
       /\ dev' \in Results(Commit(dev, [dev.ram EXCEPT !.seen = @ \cup {a.seq},
                                            !.alerts = (@ \ {a}) \cup {[a EXCEPT !.seen = TRUE]}],
                                dev.ram))
       /\ hist' = [hist EXCEPT !.read = @ \cup {a.seq}]
  /\ UNCHANGED <<link, ui, page, pc>>

\* refreshStation: the user asks for the state of the station.
Refresh ==
  /\ ui = "idle" /\ dev.ram.fresh /\ dev.faults < MaxFaults
  /\ dev' = [dev EXCEPT !.ram.fresh = FALSE, !.ram.asked = FALSE, !.faults = @ + 1]
  /\ UNCHANGED <<link, ui, page, pc, hist>>

-----------------------------------------------------------------------------
(* The PC service and the radio link to it.                                *)

Logged(p, kind, cmd, state, urgent) ==
  [p EXCEPT !.log = Append(@, [kind |-> kind, cmd |-> cmd, state |-> state, urgent |-> urgent,
                               seq |-> Len(@) + 1])]

\* control.execute: a known token is not carried out again.
Executed(p, token) ==
  IF p.cmds[token] # "none" THEN p
  ELSE [p EXCEPT !.cmds[token] = "pending"]

Acked(p, cursor) ==
  [p EXCEPT !.acked = IF cursor > @ THEN cursor ELSE @,
            !.pushed = IF cursor > @ THEN cursor ELSE @]

Effect(p, request) ==
  CASE request.op = "execute" -> Executed(p, request.arg)
    [] request.op = "ack" -> Acked(p, request.arg)
    [] OTHER -> p

CommandReply(p, token) == [ok |-> TRUE, id |-> token, state |-> p.cmds[token]]

Reply(p, request) ==
  CASE request.op \in {"execute", "get"} -> CommandReply(p, request.arg)
    [] request.op = "list" ->
         LET last == IF request.arg + PageMax < Len(p.log) THEN request.arg + PageMax ELSE Len(p.log)
         IN [ok |-> TRUE, items |-> SubSeq(p.log, request.arg + 1, last), more |-> last < Len(p.log)]
    [] request.op = "ack" -> [ok |-> TRUE, cursor |-> p.acked]

\* The last fragment of the request is notified, and the PC carries it out.
Serve ==
  /\ Notify
  /\ LET p == Effect(pc, link.request) IN pc' = [p EXCEPT !.reply = Reply(p, link.request)]
  /\ UNCHANGED <<dev, ui, page, hist>>

AlertsOf(p) == {k \in 1..Len(p.log) : p.log[k].kind = "alert"}
Known(token) == token # 0 /\ pc.cmds[token] # "none"

\* Control is denied, or the radio is busy.
Refuse ==
  /\ Notify
  /\ link.request.op = "execute" /\ ~Known(link.request.arg)
  /\ pc' = [pc EXCEPT !.reply = [ok |-> FALSE]]
  /\ UNCHANGED <<dev, ui, page, hist>>

ServeLate ==
  /\ \E request \in pc.late :
       pc' = [Effect(pc, request) EXCEPT !.late = @ \ {request}]
  /\ UNCHANGED <<link, dev, ui, page, hist>>

\* The last fragment of the reply arrives.
Deliver ==
  /\ pc.reply # NoMessage
  /\ link' = Received(link, pc.reply) /\ pc' = [pc EXCEPT !.reply = NoMessage]
  /\ UNCHANGED <<dev, ui, page, hist>>

\* The command ends, or the PC was restarted while it ran.
Progress ==
  /\ Len(pc.log) < MaxLog
  /\ \E token \in Tokens, state \in {"completed", "unknown"} :
       /\ pc.cmds[token] = "pending"
       /\ pc' = Logged([pc EXCEPT !.cmds[token] = state], "command", token, state, FALSE)
  /\ UNCHANGED <<link, dev, ui, page, hist>>

Raise ==
  /\ Len(pc.log) < MaxLog /\ Cardinality(AlertsOf(pc)) < MaxAlerts
  /\ \E urgent \in Urgencies : pc' = Logged(pc, "alert", 0, "unknown", urgent)
  /\ UNCHANGED <<link, dev, ui, page, hist>>

\* The next event of the session, within the window that acks move.
Push ==
  /\ link.ble = "linked" /\ (link.online => link.subscribed)
  /\ pc.pushed < Len(pc.log) /\ pc.pushed < pc.acked + Window
  /\ link' = Queued(link, pc.log[pc.pushed + 1])
  /\ pc' = [pc EXCEPT !.pushed = @ + 1]
  /\ UNCHANGED <<dev, ui, page, hist>>

\* Events are sent again from the last ack.
Connect == SessionUp /\ pc' = [pc EXCEPT !.pushed = pc.acked] /\ UNCHANGED <<dev, ui, page, hist>>
Enable == Subscribe /\ UNCHANGED <<dev, ui, page, pc, hist>>
Close == RpcDisconnect /\ UNCHANGED <<dev, ui, page, pc, hist>>

\* No reply crosses a broken connection, but a request may have come whole,
\* and the PC then carries it out in its own time.
Cut(l) ==
  \E sent \in {{}} \cup (IF l.rpc = "sending" /\ l.request.op \in {"execute", "ack"}
                         THEN {{l.request}} ELSE {}) :
    pc' = [pc EXCEPT !.reply = NoMessage, !.late = @ \cup sent, !.pushed = pc.acked]

Disconnect == SessionDown /\ link.closing /\ Cut(link) /\ UNCHANGED <<dev, ui, page, hist>>

Drop == dev.faults < MaxFaults /\ dev' = [dev EXCEPT !.faults = @ + 1]
OutOfRange == Drop /\ SessionDown /\ ~link.closing /\ Cut(link) /\ UNCHANGED <<ui, page, hist>>
Fault == Drop /\ Glitch /\ Cut(link) /\ UNCHANGED <<ui, page, hist>>

-----------------------------------------------------------------------------
(* Power.                                                                  *)

BootBody(d) == IF d.ahead # NoBody THEN d.ahead ELSE d.base

\* A cut during a write is a failed save followed by the cut.
PowerCut ==
  /\ dev.faults < MaxFaults
  /\ link' = NoLink
  /\ dev' = [dev EXCEPT !.ram = Boot(BootBody(dev)), !.base = BootBody(dev), !.ahead = NoBody,
                     !.faults = @ + 1]
  /\ ui' = "idle" /\ page' = NoPage /\ Cut(link)
  /\ UNCHANGED hist

-----------------------------------------------------------------------------
Init ==
  /\ LinkInit
  /\ dev = [ram |-> Boot(Blank), base |-> Blank, ahead |-> NoBody, faults |-> 0]
  /\ ui = "idle" /\ page = NoPage
  /\ pc = [cmds |-> [t \in Tokens |-> "none"], log |-> <<>>, pushed |-> 0, acked |-> 0,
           reply |-> NoMessage, late |-> {}]
  /\ hist = [token |-> 0, retries |-> 0, credit |-> [t \in Tokens |-> 0], closed |-> {}, read |-> {}]

Tick == TickTake \/ TickList \/ TickPage \/ TickHeld \/ TickEvent \/ TickStart
User == Execute \/ Retry \/ Discard \/ Mark \/ Refresh
Pc == Serve \/ Refuse \/ ServeLate \/ Deliver \/ Progress \/ Raise \/ Push
Radio == Connect \/ Enable \/ Close \/ Disconnect \/ OutOfRange \/ Fault
Next == Tick \/ RetrySave \/ User \/ Pc \/ Radio \/ PowerCut

Spec == Init /\ [][Next]_vars

\* The loop ticks, the radio reconnects and the PC serves; users decide when
\* they like, commands end and alerts are raised when they will.
Fairness ==
  /\ WF_vars(Tick)
  /\ WF_vars(Serve \/ Deliver) /\ WF_vars(Push)
  /\ WF_vars(Connect \/ Enable \/ Close \/ Disconnect)

FairSpec == Spec /\ Fairness

-----------------------------------------------------------------------------
(* What is checked.                                                        *)

\* Every slot a reboot may load, now or after the next write.
Bodies == {dev.base} \cup ({dev.ahead} \ {NoBody})

\* A command that the PC may have carried out is in the device's store until
\* the user gives it up or replaces it: control.execute is sent after save().
NoForgottenCommand ==
  \A token \in Tokens \ hist.closed : Known(token) => \A b \in Bodies : b.intent.token = token

\* Each send of control.execute was decided by the user: no reconnect, error
\* or reboot repeats it.
SendsAreDecisions == \A token \in Tokens : hist.credit[token] >= 0

\* The outcome the device shows is that of this command, not of another one of
\* the same radio and action, and it is final on the PC.
OutcomeIsTheCommands ==
  \A b \in Bodies \cup {dev.ram} :
    b.intent.token # 0 =>
      /\ b.intent.cmd \in {0, b.intent.token}
      /\ (~b.intent.unresolved \/ b.command.state = "completed") =>
           b.intent.cmd # 0 /\ b.command.id = b.intent.cmd
                            /\ pc.cmds[b.intent.token] = "completed"

\* What was acked is never sent again: it is behind the cursor, and an
\* emergency is stored until the user has read it, however full the list is.
AckedIsStored ==
  \A b \in Bodies :
    /\ pc.acked <= b.cursor
    /\ \A k \in 1..pc.acked :
         pc.log[k].kind = "alert" /\ pc.log[k].urgent => k \in Stored(b.alerts) \cup hist.read

\* An outcome whose event was acked is on the device, or in the journal of
\* early results, for as long as the intent is not closed.
AckedOutcomeKept ==
  \A k \in 1..pc.acked, b \in Bodies :
    pc.log[k].kind = "command" /\ pc.log[k].state = "completed"
      /\ b.intent.token = pc.log[k].cmd /\ b.intent.token \notin hist.closed
    => ~b.intent.unresolved \/ [id |-> pc.log[k].cmd, state |-> "completed"] \in b.early

\* The list is full of emergencies that nobody has read, and another alert
\* waits to be stored.
Crowded ==
  /\ Cardinality(dev.ram.alerts) >= AlertsMax /\ Evictable(dev.ram.alerts) = {}
  /\ \E k \in AlertsOf(pc) : k > dev.ram.cursor /\ k \notin Stored(dev.ram.alerts)

\* Alerts do not stay undelivered: again and again the device has taken every
\* alert of the PC and stores the emergencies that were not read, unless a full
\* journal waits for the user's decision or a full list for the user to read.
AlertsArrive ==
  []<>(\/ dev.ram.full \/ Crowded
       \/ \A k \in AlertsOf(pc) :
            \/ k \in Stored(dev.base.alerts)
            \/ k <= dev.base.cursor /\ (~pc.log[k].urgent \/ k \in hist.read))

\* Once the device knows the id of a command, it does not stay without the
\* outcome the PC has for it, unless a list full of unread emergencies keeps it
\* asking for the events behind them.
OutcomeArrives ==
  []<>(\/ Crowded
       \/ (Known(dev.ram.intent.cmd) /\ pc.cmds[dev.ram.intent.cmd] = "completed"
             => ~dev.ram.intent.unresolved))
=============================================================================
