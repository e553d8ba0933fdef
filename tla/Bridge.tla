-------------------------------- MODULE Bridge --------------------------------
(***************************************************************************)
(* The C interface of one symbol, bridge/bridge.c, around its pipeline:    *)
(* the registry of orders under the ids that clients know, the translation *)
(* of engine ids, and the queue of events that the adapter                 *)
(* (api/engine_bridge.py) polls and keeps its own portfolios by.           *)
(*                                                                         *)
(* bridge_submit submits one message to the pipeline and steps it: Enter,  *)
(* then the pipeline's own steps, the last of which (Dropped, Returned)    *)
(* ends the call.  The events of a step reach the bridge over the          *)
(* synchronous bus, are staged, and are translated when the step is over,  *)
(* because only then the pipeline's id map tells the engine id of the      *)
(* order submitted.                                                        *)
(***************************************************************************)
EXTENDS Pipeline

CONSTANTS
  id_base,                \* the symbol's ids start above it
  BRIDGE_EVENT_QUEUE_CAP  \* slots of the event queue, one of which stays empty

ASSUME BridgeAssumption ==
  id_base \in Nat /\ BRIDGE_EVENT_QUEUE_CAP \in Nat \ {0, 1}

VARIABLES
  bp,      \* the bridge's own state, see BridgeInit
  call,    \* the id of the new order that bridge_submit is busy with, or 0
  client   \* what the adapter and those behind it have learnt, see ClientInit

pvars == <<me, stack, gateway, accounts, last_trade_price, id_map, cur, stepping, ack, hist>>
bvars == <<pvars, bp, call, client>>

NoEntries == [i \in {} |-> 0]
Put(f, id, v) == [j \in DOMAIN f \cup {id} |-> IF j = id THEN v ELSE f[j]]

ClientInit ==
  [seq |-> 0,
   gap |-> FALSE,    \* history: an event was dropped
   orders |-> NoEntries,
   positions |-> [a \in Accounts |-> [cash |-> 0, net_qty |-> 0, avg_price |-> 0,
                                      realised_pnl |-> 0]],
   selfish |-> {},   \* history: accounts that traded with themselves
   ladder |-> {}]    \* <<side, price, quantity>> of the last book delta

(* bridge_add_symbol: the gateway's ids start at the symbol's base. *)
BridgeInit ==
  /\ InitFrom(id_base)
  /\ bp = [slots |-> NoEntries,     \* gateway id -> order, see Registered
           me_to_gw |-> NoEntries,  \* engine id -> gateway id
           evq |-> <<>>, next_seq |-> 0]
  /\ call = 0
  /\ client = ClientInit

-----------------------------------------------------------------------------
(* Registry and queue. *)

(* The registry has as many slots as the pipeline's id map has entries. *)
HasSlot(id) == id > id_base /\ id - id_base - 1 < PIPELINE_MAX_ID_MAP

(* slot_for finds an order. *)
Known(b, id) == id \in DOMAIN b.slots

gw_from_me(b, me_id) == IF me_id \in DOMAIN b.me_to_gw THEN b.me_to_gw[me_id] ELSE 0

(* Mutant: the queue is filled to its last slot. *)
QueueFull_NoGap(b) == Len(b.evq) = BRIDGE_EVENT_QUEUE_CAP

QueueFull(b) == Len(b.evq) = BRIDGE_EVENT_QUEUE_CAP - 1

(* The oldest event makes room; its sequence number is spent. *)
push_event(b, ev) ==
  [b EXCEPT !.evq = Append(IF QueueFull(b) THEN Tail(@) ELSE @, <<b.next_seq + 1, ev>>),
            !.next_seq = @ + 1]

emit_order_snapshot(b, id) ==
  LET s == b.slots[id] IN
  push_event(b, [kind |-> "ORDER", order_id |-> id, account_id |-> s.account_id, price |-> s.price,
                 qty_remain |-> s.qty_remain, qty_filled |-> s.qty_filled, status |-> s.status])

(* slot_apply_fill *)
Filled(s, qty) ==
  LET left == IF s.qty_remain >= qty THEN s.qty_remain - qty ELSE 0
  IN  [s EXCEPT !.qty_filled = @ + qty, !.qty_remain = left, !.touched = TRUE,
                !.status = IF left = 0 THEN "FILLED" ELSE "PARTIAL"]

slot_apply_fill(b, id, qty) ==
  IF Known(b, id) THEN [b EXCEPT !.slots[id] = Filled(@, qty)] ELSE b

AccountOf(b, id) == IF Known(b, id) THEN b.slots[id].account_id ELSE 0

-----------------------------------------------------------------------------
(* process_staged_events *)

(* Mutant: the resting order's new state is not surfaced. *)
Surfaced_Never(b, id) == b

Surfaced(b, id) == IF Known(b, id) THEN emit_order_snapshot(b, id) ELSE b

(* A trade advances both orders and is told with their accounts. *)
Traded(b, agg, rest, ev) ==
  Surfaced(push_event(slot_apply_fill(slot_apply_fill(b, agg, ev.qty), rest, ev.qty),
                      [kind |-> "TRADE", aggressor_side |-> ev.side,
                       aggressor_account |-> AccountOf(b, agg),
                       resting_account |-> AccountOf(b, rest),
                       price |-> ev.price, qty |-> ev.qty]),
           rest)

(* Mutant: an order that is dead is not left alone. *)
Dead_Never(s) == FALSE

(* An order that an event has cancelled or rejected stays so, whatever the *)
(* engine emits about it after that.                                       *)
Dead(s) == s.touched /\ s.status \in {"CANCELLED", "REJECTED"}

StatusOf(ev, filled) ==
  CASE ev.type \in {"CANCELLED", "REJECTED", "FILLED", "PARTIAL"} -> ev.type
    [] OTHER -> IF ev.qty_remain = 0 THEN "FILLED" ELSE IF filled > 0 THEN "PARTIAL" ELSE "OPEN"

Greater(m, n) == IF m > n THEN m ELSE n

(* Mutant: a modification is treated like the other events. *)
Advanced_AnyEvent(s, ev) ==
  CASE ev.type = "CANCELLED" -> [s EXCEPT !.qty_remain = 0]
    [] OTHER -> [s EXCEPT !.qty_remain = ev.qty_remain, !.qty_filled = Greater(ev.qty_filled, @)]

(* The quantities of a slot after an order's event: the one of a cancel    *)
(* has the old remainder where others have the filled quantity.            *)
Advanced(s, ev) ==
  CASE ev.type = "CANCELLED" -> [s EXCEPT !.qty_remain = 0]
    [] ev.type = "MODIFIED" -> [s EXCEPT !.price = ev.price, !.qty_remain = ev.qty_remain]
    [] OTHER -> [s EXCEPT !.qty_remain = ev.qty_remain, !.qty_filled = Greater(ev.qty_filled, @)]

Told(s, ev) == [s EXCEPT !.touched = TRUE, !.status = StatusOf(ev, s.qty_filled)]

(* An event of an order that has no gateway id is passed over.  (An order  *)
(* that has one has a slot.)                                               *)
OrderEvent(b, id, ev) ==
  IF id = 0 \/ Dead(b.slots[id]) THEN b
  ELSE emit_order_snapshot([b EXCEPT !.slots[id] = Told(Advanced(@, ev), ev)], id)

Translate(b, ev) ==
  IF ev.type = "TRADE" THEN Traded(b, gw_from_me(b, ev.id), gw_from_me(b, ev.resting_id), ev)
  ELSE OrderEvent(b, gw_from_me(b, ev.id), ev)

(* publish_me_event gives an event its topic, bus_publish hands it to a    *)
(* subscriber of that topic, and on_bus_event stages it.  (The events of a *)
(* step are staged in their order, and translated in it.)                  *)
Topic(ev) ==
  CASE ev.type = "TRADE" -> "TRADE" [] ev.type = "BOOK_UPDATED" -> "BOOK" [] OTHER -> "ORDER"

bus_publish(ev, topic_mask) == Topic(ev) \in topic_mask

Staged(ev) == bus_publish(ev, {"ORDER", "TRADE"})

process_staged_events(b, evs) ==
  LET after[n \in 0..Len(evs)] ==
        IF n = 0 THEN b
        ELSE IF Staged(evs[n]) THEN Translate(after[n - 1], evs[n]) ELSE after[n - 1]
  IN  after[Len(evs)]

-----------------------------------------------------------------------------
(* bridge_submit *)

(* The slot of a new order, before the pipeline is stepped. *)
Registered(m) ==
  [me_id |-> 0, account_id |-> m.account_id, type |-> m.type, side |-> m.side, price |-> m.price,
   qty_remain |-> m.qty, qty_filled |-> 0, status |-> "OPEN", touched |-> FALSE]

(* The target of a cancel or modification in the engine's ids; without one *)
(* the call is answered at once.                                           *)
Named(m) ==
  m.action = "NEW" \/ (Known(bp, m.target_order_id) /\ bp.slots[m.target_order_id].me_id # 0)
Translated(m) ==
  IF m.action = "NEW" THEN m
  ELSE [m EXCEPT !.target_order_id = bp.slots[m.target_order_id].me_id]

Free == cur = NoEvent /\ gateway.out_ring = <<>>

Enter(m, add) ==
  /\ Free /\ Named(m)
  /\ Submit(Translated(m), add)
  /\ call' = LET id == gateway'.next_server_order_id
             IN  IF gateway'.out_ring # <<>> /\ m.action = "NEW" /\ HasSlot(id) THEN id ELSE 0
  /\ bp' = IF call' = 0 THEN bp ELSE [bp EXCEPT !.slots = Put(@, call', Registered(m))]
  /\ UNCHANGED client

(* Mutant: the last entry of the id map is taken for the new order's,      *)
(* whether or not the step has added one.                                  *)
Captured_LastEntry(b, before, after) ==
  IF call = 0 \/ after = <<>> THEN b
  ELSE [b EXCEPT !.slots[call].me_id = Last(after)[1],
                 !.me_to_gw = Put(@, Last(after)[1], call)]

(* The engine id of the new order: the entry that the step has added to    *)
(* the pipeline's id map, `before` and `after` being that map.             *)
Captured(b, before, after) ==
  IF call = 0 \/ Len(after) = Len(before) \/ Last(after)[1] > PIPELINE_MAX_ID_MAP THEN b
  ELSE [b EXCEPT !.slots[call].me_id = Last(after)[1],
                 !.me_to_gw = Put(@, Last(after)[1], call)]

(* A new order that no event has touched was refused before the engine. *)
Answered(b) ==
  IF call = 0 \/ b.slots[call].touched THEN b
  ELSE emit_order_snapshot([b EXCEPT !.slots[call].status = "REJECTED",
                                     !.slots[call].touched = TRUE], call)

(* bridge_submit after pipeline_step, evs being the events it published. *)
Finish(before, after, evs) ==
  /\ bp' = Answered(process_staged_events(Captured(bp, before, after), evs))
  /\ call' = 0
  /\ UNCHANGED client

Dropped(ev) == Drop(ev) /\ Finish(id_map, id_map', <<>>)
Returned == Settled /\ Finish(id_map, id_map', me.eq)

-----------------------------------------------------------------------------
(* The adapter: it polls the queue until that is empty.  It keeps a        *)
(* portfolio per account by the trades; the order events go on to those    *)
(* who keep views of the orders.                                           *)

(* Mutant: a position that is flipped keeps the average price. *)
Averaged_KeepsOnFlip(p, net, price, qty) ==
  IF p.net_qty = 0 \/ (p.net_qty > 0) = (net > p.net_qty)
  THEN (p.avg_price * Abs(p.net_qty) + price * qty) \div (Abs(p.net_qty) + qty)
  ELSE IF net = 0 THEN 0 ELSE p.avg_price

(* The average price of a position p that becomes net. *)
Averaged(p, net, price, qty) ==
  IF p.net_qty = 0 \/ (p.net_qty > 0) = (net > p.net_qty)
  THEN (p.avg_price * Abs(p.net_qty) + price * qty) \div (Abs(p.net_qty) + qty)
  ELSE IF net = 0 THEN 0
  ELSE IF (p.net_qty > 0) # (net > 0) THEN price ELSE p.avg_price

(* apply_fill (_apply_fill): n is the quantity, negative for a sale. *)
apply_fill(p, price, n) ==
  LET net == p.net_qty + n
      reduces == p.net_qty # 0 /\ (p.net_qty > 0) # (n > 0)
      closed == Lesser(Abs(p.net_qty), Abs(n))
  IN  [cash |-> p.cash - price * n, net_qty |-> net,
       avg_price |-> Averaged(p, net, price, Abs(n)),
       realised_pnl |-> p.realised_pnl +
         IF ~reduces THEN 0
         ELSE (IF p.net_qty > 0 THEN price - p.avg_price ELSE p.avg_price - price) * closed]

Credit(c, a, price, n) ==
  IF a \in Accounts THEN [c EXCEPT !.positions[a] = apply_fill(@, price, n)] ELSE c

(* The buyer's leg first (the pipeline's apply_trade: the aggressor's). *)
Trade(c, ev, buyer, seller) ==
  LET d == Credit(Credit(c, buyer, ev.price, ev.qty), seller, ev.price, -ev.qty)
  IN  IF buyer = seller THEN [d EXCEPT !.selfish = @ \cup {buyer}] ELSE d

(* One event.  (The adapter does not look at the numbers.  From the first  *)
(* event that was dropped on, what it knows is left out of the model.)     *)
Polled(c, e) ==
  LET ev == e[2] IN
  IF c.gap \/ e[1] # c.seq + 1 THEN [ClientInit EXCEPT !.gap = TRUE, !.ladder = c.ladder]
  ELSE IF ev.kind = "ORDER" THEN [c EXCEPT !.seq = e[1], !.orders = Put(@, ev.order_id, ev)]
  ELSE IF ev.aggressor_side = "BID"
  THEN Trade([c EXCEPT !.seq = e[1]], ev, ev.aggressor_account, ev.resting_account)
  ELSE Trade([c EXCEPT !.seq = e[1]], ev, ev.resting_account, ev.aggressor_account)

(* One event after the other. *)
AllPolled(c, evs) ==
  LET after[n \in 0..Len(evs)] == IF n = 0 THEN c ELSE Polled(after[n - 1], evs[n])
  IN  after[Len(evs)]

(* bridge_book_levels, both sides. *)
Ladder(R) ==
  {<<o.side, o.price, Total({w \in R : w.side = o.side /\ w.price = o.price})>> : o \in R}

(* Mutant: the ladder is pushed after trades only. *)
Refreshed_OnTrades(c, evs) ==
  IF \E i \in 1..Len(evs) : evs[i][2].kind = "TRADE"
  THEN [c EXCEPT !.ladder = Ladder(me.resting)] ELSE c

(* A drain that found an event pushes the ladder. *)
Refreshed(c, evs) == [c EXCEPT !.ladder = Ladder(me.resting)]

Drain ==
  /\ Free /\ bp.evq # <<>>
  /\ client' = Refreshed(AllPolled(client, bp.evq), bp.evq)
  /\ bp' = [bp EXCEPT !.evq = <<>>]
  /\ UNCHANGED <<pvars, call>>

-----------------------------------------------------------------------------
(* Cancels and modifications of any id, known or not. *)
Requests ==
  LET ids == id_base .. gateway.next_server_order_id IN
  {Message("CANCEL", 1, 0, "LIMIT", "BID", 0, 0, 0, id) : id \in ids}
  \cup {Message("MODIFY", 1, 0, "LIMIT", "BID", a[1], 0, a[2], id) : a \in Amendments, id \in ids}

BridgeNext ==
  \/ \E m \in NewOrders \cup Requests, add \in 0..1 : Enter(m, add)
  \/ \E ev \in ToSet(gateway.out_ring) : Dropped(ev)
  \/ \E ev \in ToSet(gateway.out_ring) : Dispatch(ev) /\ UNCHANGED <<bp, call, client>>
  \/ /\ Cascade
     /\ UNCHANGED <<gateway, accounts, last_trade_price, id_map, cur, stepping, ack, hist,
                    bp, call, client>>
  \/ Returned
  \/ Drain

BridgeSpec == BridgeInit /\ [][BridgeNext]_bvars
==============================================================================
