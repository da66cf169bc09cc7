----------------------------- MODULE GuardianRpc -----------------------------
(* The link between the device and the PC service: the one outstanding RPC, *)
(* its owner and the queue of events (models/GuardianRpc.h,                 *)
(* services/GuardianRpcLink.cpp), and the BLE callbacks that open and close *)
(* it (helpers/esp32/GuardianBLEInterface.cpp).  A message is delivered     *)
(* whole: fragments stay in order within a connection, and whatever breaks  *)
(* framing or a deadline is Fail.                                           *)
EXTENDS Naturals, Sequences

CONSTANTS NoMessage, MaxEvents   (* EventQueue::MaxEvents *)

ASSUME GuardianRpcAssumption == MaxEvents \in Nat \ {0}

VARIABLE link

\* ble         progress of the NimBLE callbacks; the two halves of
\*             guardian::disconnected() are two steps
\* closing     abortLink, or server->disconnect() was called: onDisconnect is
\*             still to come
\* online, subscribed   Rpc::connected, Rpc::subscribed
\* rpc         Rpc's pending (sending, then sent), reply and error; else idle
\* owner       hasOwner
NoLink ==
  [ble |-> "down", closing |-> FALSE, online |-> FALSE, subscribed |-> FALSE,
   rpc |-> "idle", owner |-> FALSE,
   request |-> NoMessage, reply |-> NoMessage, events |-> <<>>]
LinkInit == link = NoLink

\* snapshot().session.connected
Session == link.ble = "linked"

\* Rpc::ready
Ready == link.online /\ link.subscribed /\ link.rpc = "idle"

-----------------------------------------------------------------------------
(* Operations under the mutex of GuardianRpcLink: the link after each.     *)

\* Mutation: a reset forgets the caller of a reply that was not yet taken.
MutReset(l, online) ==
  [l EXCEPT !.online = online, !.subscribed = FALSE,
            !.rpc = CASE @ \in {"sending", "sent"} -> "error"
                      [] @ = "reply" -> "idle" [] OTHER -> @,
            !.request = NoMessage, !.reply = NoMessage]

\* Rpc::reset: an outstanding request, or a reply nobody took, becomes an error.
Reset(l, online) ==
  [l EXCEPT !.online = online, !.subscribed = FALSE,
            !.rpc = IF @ \in {"sending", "sent", "reply"} THEN "error" ELSE @,
            !.request = NoMessage, !.reply = NoMessage]

\* rpcAbort; then rpcTick answers false and the loop drops the connection.
Aborted(l) == [Reset(l, FALSE) EXCEPT !.events = <<>>, !.closing = TRUE]

\* failLink, after which each of its callers drops the connection: the error
\* stays for an owner only.
Failed(l) ==
  [Aborted(l) EXCEPT !.rpc = IF l.owner THEN "error" ELSE "idle"]

\* rpcStart, when ready.
Started(l, request) ==
  [l EXCEPT !.rpc = "sending", !.owner = TRUE, !.request = request]

\* rpcTake
Answered(l) == l.rpc \in {"reply", "error"}
Taken(l) == [l EXCEPT !.rpc = "idle", !.owner = FALSE, !.reply = NoMessage]

\* rpcReceive, at the last fragment of a reply.
Received(l, reply) ==
  IF l.rpc = "sent"
  THEN [l EXCEPT !.rpc = "reply", !.reply = reply]
  ELSE Failed(l)

\* eventReceive, at the last fragment of an event.
Queued(l, event) ==
  IF l.online /\ Len(l.events) < MaxEvents
  THEN [l EXCEPT !.events = Append(@, event)]
  ELSE Failed(l)

-----------------------------------------------------------------------------
(* The BLE host task, and rpcTick on the loop task.                        *)

\* onAuthenticationComplete: connected(), then rpcConnect().
SessionUp ==
  /\ link.ble = "down"
  /\ link' = [Reset(link, TRUE) EXCEPT !.ble = "linked", !.events = <<>>, !.closing = FALSE]

Subscribe ==
  /\ link.ble = "linked" /\ link.online /\ ~link.subscribed
  /\ link' = [link EXCEPT !.subscribed = TRUE]

\* onDisconnect: guardian::disconnected() ends the session, then the RPC.
SessionDown == Session /\ link' = [link EXCEPT !.ble = "dropping", !.closing = FALSE]

RpcDisconnect ==
  /\ link.ble = "dropping"
  /\ link' = [Reset(link, FALSE) EXCEPT !.ble = "down", !.events = <<>>]

\* A malformed fragment, or rpcTick finds a deadline exceeded.
Glitch == link.ble = "linked" /\ link.online /\ link' = Failed(link)

\* rpcTick: the last fragment of the request has been notified.
Notify ==
  /\ link.ble = "linked"
  /\ link.subscribed /\ link.rpc = "sending"
  /\ link' = [link EXCEPT !.rpc = "sent", !.request = NoMessage]
=============================================================================
