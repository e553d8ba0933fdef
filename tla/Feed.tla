--------------------------------- MODULE Feed ---------------------------------
(***************************************************************************)
(* How a change of the engine reaches the database and a browser: the      *)
(* adapter's event queue (api/engine_bridge.py), the event pump            *)
(* (api/main.py), the database rows (api/persistence.py), the              *)
(* subscriptions and the socket (api/subscriptions.py, api/routes_ws.py)   *)
(* and the hook that keeps the browser's view                              *)
(* (frontend/src/hooks/useEngineSocket.ts).                                *)
(*                                                                         *)
(* Orders and the ladder are known by how often they have changed: a       *)
(* message tells the count its order or the ladder had when it was         *)
(* emitted.  Sequence numbers are left out: nothing reads them.  A book of *)
(* one symbol, one browser, the channels "orderbook" and "orders".  What   *)
(* the sender has handed to the socket is received at once; what it has    *)
(* not is lost with the connection.                                        *)
(***************************************************************************)
EXTENDS Integers, Sequences, FiniteSets

CONSTANTS
  Orders,
  EVENT_CAP,     \* places in the adapter's event queue
  OUT_CAP,       \* places in a client's outgoing queue
  MAX_CHANGES,   \* bound: changes of the engine
  MAX_CONNECTS   \* bound: connections of the browser

ASSUME FeedAssumption ==
  /\ EVENT_CAP \in Nat \ {0} /\ OUT_CAP \in Nat
  /\ MAX_CHANGES \in Nat /\ MAX_CONNECTS \in Nat

VARIABLES
  db,        \* is there a database?
  engine,    \* [order: order -> changes, ladder: changes]
  event_q,   \* the adapter's queue, oldest first
  pump,      \* [at, msg]: what the event pump does, with which event
  row,       \* order -> its changes when its row was last written
  client,    \* the server's side of the connection
  browser,   \* the hook's state
  history    \* what went wrong so far, for the properties only

vars == <<db, engine, event_q, pump, row, client, browser, history>>

Nothing == -1  \* a view that has not been filled in

NoMsg == [kind |-> "none"]
OrderMsg(o, n) == [kind |-> "order", order |-> o, at |-> n]
BookMsg(kind, n) == [kind |-> kind, at |-> n]

NoClient == [stage |-> "closed", out_q |-> <<>>]

Init ==
  /\ db \in BOOLEAN
  /\ engine = [order |-> [o \in Orders |-> 0], ladder |-> 0]
  /\ event_q = <<>>
  /\ pump = [at |-> "idle", msg |-> NoMsg]
  /\ row = [o \in Orders |-> 0]
  /\ client = NoClient
  /\ browser = [book |-> Nothing, from |-> "none", orders |-> [o \in Orders |-> 0],
                rest |-> "asked", answer |-> Nothing, connects |-> 0]
  /\ history = [overflowed |-> FALSE, failed |-> FALSE, dropped |-> FALSE]

----------------------------------------------------------------------------
(* The engine. *)

(* Mutant: the queue has no capacity. *)
_emit_Unbounded(q, msg) == Append(q, msg)

(* Mutant: a full queue refuses the event instead of its oldest one. *)
_emit_DropsNewest(q, msg) == IF Len(q) >= EVENT_CAP THEN q ELSE Append(q, msg)

_emit(q, msg) == Append(IF Len(q) >= EVENT_CAP THEN Tail(q) ELSE q, msg)

(* A call that changes order o, and with it the ladder; _drain reports the *)
(* order and then the whole ladder.                                        *)
Change(o) ==
  LET n == engine.order[o] + 1
      v == engine.ladder + 1
      once == _emit(event_q, OrderMsg(o, n))
  IN
  /\ v <= MAX_CHANGES
  /\ engine' = [engine EXCEPT !.order[o] = n, !.ladder = v]
  /\ event_q' = _emit(once, BookMsg("delta", v))
  /\ history' = [history EXCEPT !.overflowed = @ \/ Len(event_q) + 2 > EVENT_CAP]
  /\ UNCHANGED <<db, pump, row, client, browser>>

----------------------------------------------------------------------------
(* The pump.  With a database every write suspends it. *)

(* put_nowait on a client's queue: a full queue loses the message. *)
Put(c, msg) == IF Len(c.out_q) >= OUT_CAP THEN c ELSE [c EXCEPT !.out_q = Append(@, msg)]
Lost(c) == Len(c.out_q) >= OUT_CAP

(* Mutant: the subscription counts only after the snapshot was taken. *)
_matches_AfterSnapshot(c, msg) == c.stage = "subscribed"

(* _matches for the two channels: the book's is subscribed to first. *)
_matches(c, msg) ==
  \/ msg.kind = "delta" /\ c.stage \in {"acking", "booked", "subscribed"}
  \/ msg.kind = "order" /\ c.stage = "subscribed"

broadcast(msg) ==
  /\ client' = IF _matches(client, msg) THEN Put(client, msg) ELSE client
  /\ history' = [history EXCEPT !.dropped = @ \/ (_matches(client, msg) /\ Lost(client))]

(* Mutant: an event is told before it is written. *)
FirstStep_Broadcast(msg) == "broadcast"

(* Only an order has a row; every event moves the watermark. *)
FirstStep(msg) ==
  CASE ~db -> "broadcast" [] db /\ msg.kind = "order" -> "row" [] OTHER -> "watermark"

Take ==
  LET msg == Head(event_q) IN
  /\ pump.at = "idle" /\ event_q # <<>>
  /\ event_q' = Tail(event_q)
  /\ IF FirstStep(msg) = "broadcast"
     THEN broadcast(msg) /\ UNCHANGED pump
     ELSE pump' = [at |-> FirstStep(msg), msg |-> msg] /\ UNCHANGED <<client, history>>
  /\ UNCHANGED <<db, engine, row, browser>>

(* Mutant: a conflict does nothing, as for the trades. *)
Upserted_DoNothing(msg) == IF row[msg.order] = 0 THEN [row EXCEPT ![msg.order] = msg.at] ELSE row

(* The row says what the last event said. *)
Upserted(msg) == [row EXCEPT ![msg.order] = msg.at]

(* A failure of the database is logged and nothing else. *)
persist_order_snapshot ==
  /\ pump.at = "row"
  /\ pump' = [pump EXCEPT !.at = "watermark"]
  /\ \/ row' = Upserted(pump.msg) /\ UNCHANGED history
     \/ history' = [history EXCEPT !.failed = TRUE] /\ UNCHANGED row
  /\ UNCHANGED <<db, engine, event_q, client, browser>>

(* The watermark is written, which nothing reads, and the event is told. *)
update_watermark ==
  /\ pump.at = "watermark"
  /\ pump' = [at |-> "idle", msg |-> NoMsg]
  /\ broadcast(pump.msg)
  /\ UNCHANGED <<db, engine, event_q, row, browser>>

----------------------------------------------------------------------------
(* The socket. *)

(* The browser connects and asks for the ladder and then for the orders;   *)
(* the subscription to the ladder counts before it is acknowledged.        *)
Connect ==
  /\ client.stage = "closed" /\ browser.connects < MAX_CONNECTS
  /\ client' = [NoClient EXCEPT !.stage = "acking"]
  /\ browser' = [browser EXCEPT !.connects = @ + 1]
  /\ history' = [history EXCEPT !.dropped = FALSE]
  /\ UNCHANGED <<db, engine, event_q, pump, row>>

(* The acknowledgement is sent, and only now the snapshot is taken. *)
_send_orderbook_snapshot ==
  /\ client.stage = "acking"
  /\ client' = [Put(client, BookMsg("snapshot", engine.ladder)) EXCEPT !.stage = "booked"]
  /\ history' = [history EXCEPT !.dropped = @ \/ Lost(client)]
  /\ UNCHANGED <<db, engine, event_q, pump, row, browser>>

SubscribeOrders ==
  /\ client.stage = "booked"
  /\ client' = [client EXCEPT !.stage = "subscribed"]
  /\ UNCHANGED <<db, engine, event_q, pump, row, browser, history>>

(* Mutant: an order that is shown already is not shown again. *)
Shown_NewOnly(b, msg) ==
  IF msg.kind # "order" THEN [b EXCEPT !.book = msg.at, !.from = "socket"]
  ELSE IF b.orders[msg.order] # 0 THEN b ELSE [b EXCEPT !.orders[msg.order] = msg.at]

(* onmessage: the last message wins, whatever its number. *)
Shown(b, msg) ==
  IF msg.kind = "order" THEN [b EXCEPT !.orders[msg.order] = msg.at]
  ELSE [b EXCEPT !.book = msg.at, !.from = "socket"]

_sender ==
  /\ client.out_q # <<>>
  /\ browser' = Shown(browser, Head(client.out_q))
  /\ client' = [client EXCEPT !.out_q = Tail(@)]
  /\ UNCHANGED <<db, engine, event_q, pump, row, history>>

Disconnect ==
  /\ client.stage # "closed" /\ browser.connects < MAX_CONNECTS
  /\ client' = NoClient
  /\ UNCHANGED <<db, engine, event_q, pump, row, browser, history>>

----------------------------------------------------------------------------
(* The ladder the hook also asks for over REST, once. *)

AnswerRest ==
  /\ browser.rest = "asked"
  /\ browser' = [browser EXCEPT !.rest = "answered", !.answer = engine.ladder]
  /\ UNCHANGED <<db, engine, event_q, pump, row, client, history>>

(* The answer replaces whatever the socket has brought by then. *)
Hydrate ==
  /\ browser.rest = "answered"
  /\ browser' = [browser EXCEPT !.rest = "done", !.answer = Nothing,
                                   !.book = browser.answer, !.from = "rest"]
  /\ UNCHANGED <<db, engine, event_q, pump, row, client, history>>

----------------------------------------------------------------------------
Pump == Take \/ persist_order_snapshot \/ update_watermark
Serve == _send_orderbook_snapshot \/ SubscribeOrders
Rest == AnswerRest \/ Hydrate

Next ==
  \/ \E o \in Orders : Change(o)
  \/ Pump \/ Connect \/ Serve \/ _sender \/ Disconnect \/ Rest

(* The event loop runs the pump and the connection's tasks, the database   *)
(* answers or fails, and the browser reconnects and reads what it is sent. *)
Fairness == WF_vars(Pump) /\ WF_vars(Connect) /\ WF_vars(Serve) /\ WF_vars(_sender)

Spec == Init /\ [][Next]_vars /\ Fairness
==============================================================================
