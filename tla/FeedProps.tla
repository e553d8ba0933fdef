------------------------------ MODULE FeedProps ------------------------------
(***************************************************************************)
(* What the feed promises the browser and the database.                    *)
(***************************************************************************)
EXTENDS Feed

Counts == 0 .. MAX_CHANGES

Msgs == {NoMsg} \cup [kind : {"order"}, order : Orders, at : Counts]
                \cup [kind : {"delta", "snapshot"}, at : Counts]

(* The state of the feed; both queues stay within their capacities         *)
(* (engine_bridge.py:211, subscriptions.py:38).                            *)
TypeOK ==
  /\ engine \in [order : [Orders -> Counts], ladder : Counts]
  /\ \A i \in DOMAIN event_q : event_q[i] \in Msgs
  /\ Len(event_q) <= EVENT_CAP
  /\ pump \in [at : {"idle", "row", "watermark"}, msg : Msgs]
  /\ row \in [Orders -> Counts]
  /\ client.stage \in {"closed", "acking", "booked", "subscribed"}
  /\ \A i \in DOMAIN client.out_q : client.out_q[i] \in Msgs
  /\ Len(client.out_q) <= OUT_CAP
  /\ browser \in [book : Counts \cup {Nothing}, from : {"none", "socket", "rest"},
                  orders : [Orders -> Counts], rest : {"asked", "answered", "done"},
                  answer : Counts \cup {Nothing}, connects : 0 .. MAX_CONNECTS]

Drained == event_q = <<>> /\ pump.at = "idle"

(* The browser has received all that it will be told without a change. *)
Settled == Drained /\ client.stage = "subscribed" /\ client.out_q = <<>>

(* When everything has been told, the browser shows the engine's ladder    *)
(* (routes_ws.py:65-79, useEngineSocket.ts:116-123), although deltas from  *)
(* before the snapshot may follow it and the adapter's queue may have      *)
(* lost events.  Two things spoil it, and nothing tells the browser: a     *)
(* message lost at its own full queue, which loses the newest (see         *)
(* LastWordArrives), and an answer over REST that comes in after the last  *)
(* message and is older.  An order that it has been told                   *)
(* of is shown as it is (useEngineSocket.ts:135-142), unless the           *)
(* connection was lost meanwhile: the orders' channel has no snapshot, and *)
(* the hook asks for no orders.                                            *)
ViewsCurrent ==
  Settled /\ ~history.dropped =>
    /\ browser.from # "rest" => browser.book = engine.ladder
    /\ ~history.overflowed /\ browser.connects = 1 =>
         \A o \in Orders : browser.orders[o] \in {0, engine.order[o]}

(* What api/README.md:76 says and the code does not do: a client's full    *)
(* queue drops its oldest message.  Then the last word on the ladder would *)
(* arrive however much was dropped before it, and the browser would end    *)
(* with the engine's ladder; put_nowait refuses the newest instead         *)
(* (subscriptions.py:81-85).                                               *)
LastWordArrives == Settled /\ browser.from # "rest" => browser.book = engine.ladder

(* The browser never shows of an order what the database does not have     *)
(* yet: the pump writes first and tells then (main.py:96-103), unless the  *)
(* write failed.  It is so because the pump waits for the database         *)
(* (main.py:102-103), and for as long as a write is kept waiting nobody is *)
(* told anything, although api/README.md:240-242 says that the writes      *)
(* never block the fan-out: the program cannot keep both promises.         *)
WrittenFirst ==
  db /\ ~history.failed => \A o \in Orders : browser.orders[o] <= row[o]

(* When the pump is idle with nothing to do, the rows are the orders as    *)
(* they are (api/README.md:233), unless a write failed or the adapter's    *)
(* queue overflowed: what it loses may be the last event of an order.      *)
RowsCurrent ==
  db /\ Drained /\ ~history.failed /\ ~history.overflowed => row = engine.order

(* Whatever is lost on the way, the browser's view of the ladder becomes   *)
(* that of the engine and stays so, once the engine rests: the hook        *)
(* reconnects, and a subscription starts with a snapshot.  The exceptions  *)
(* are those of ViewsCurrent, and the database must answer or fail.        *)
LadderSettles ==
  <>[](browser.book = engine.ladder \/ history.dropped \/ browser.from = "rest")
==============================================================================
