------------------------ MODULE PipelineInvariants -------------------------
(***************************************************************************)
(* The inductive invariants of Pipeline (PInv) and of Bridge around it     *)
(* (BInv for what the registry and the adapter hold, VInv for what they    *)
(* show of orders, BoundsInv for capacities and prices), and the           *)
(* predicates their proofs in PipelineProofs are laid out with: what a     *)
(* call, an event or a loop makes of its operand.                          *)
(***************************************************************************)
EXTENDS PipelineProps, BridgeProps, EngineLemmas

-----------------------------------------------------------------------------
(* The gateway. *)

GatewayFields == {"out_ring", "tokens", "kill_switch", "next_server_order_id", "idem"}

SameCache(p, g) ==
  /\ DOMAIN p = GatewayFields
  /\ p.next_server_order_id = g.next_server_order_id /\ p.idem = g.idem

(* The cache once m was given the next id. *)
Caching(p, g, m) ==
  /\ DOMAIN p = GatewayFields
  /\ p.next_server_order_id = g.next_server_order_id + 1
  /\ p.idem = IF m.client_order_id = 0 \/ Cardinality(DOMAIN g.idem) >= GW_IDEM_CAP THEN g.idem
              ELSE [k \in DOMAIN g.idem \cup {Key(m)} |->
                      IF k = Key(m) THEN g.next_server_order_id + 1 ELSE g.idem[k]]

(* What gateway_submit does with m: it is refused, or known, or given an id *)
(* and then throttled or admitted to the ring.                              *)
NotServed(r, g, m) ==
  /\ SameCache(r.g, g) /\ r.g.out_ring = g.out_ring
  /\ r.ack.status \in {"REJECTED", "KILLED", "THROTTLED", "DUPLICATE"}
  /\ r.ack.status = "DUPLICATE" =>
       idem_find(g, m) /\ r.ack.server_order_id = g.idem[Key(m)]

Throttled(r, g, m) ==
  /\ Caching(r.g, g, m) /\ r.g.out_ring = g.out_ring
  /\ ~idem_find(g, m) /\ r.ack.status = "THROTTLED"

Accepted(r, g, m) ==
  /\ Caching(r.g, g, m) /\ r.g.out_ring = Append(g.out_ring, m)
  /\ ~idem_find(g, m) /\ r.ack.status = "ACCEPTED"
  /\ r.ack.server_order_id = g.next_server_order_id + 1
  /\ stage_a_ingress(m)

(* The cache and the messages served: ids are handed out once, and an id in *)
(* the cache that was served is the id of that key.  While the cache has    *)
(* room it has the key of every message served.                             *)
Cached(g, served) ==
  /\ DOMAIN g = GatewayFields /\ g.next_server_order_id \in Nat
  /\ IsFiniteSet(DOMAIN g.idem)
  /\ \A k \in DOMAIN g.idem : g.idem[k] \in 1..g.next_server_order_id
  /\ \A v \in served : v = <<v[1], v[2]>> /\ v[1] \in 1..g.next_server_order_id
  /\ \A v, w \in served : v[1] = w[1] => v = w
  /\ \A v \in served : \A k \in DOMAIN g.idem : v[1] = g.idem[k] => v[2] = k
  /\ Cardinality(DOMAIN g.idem) < GW_IDEM_CAP =>
       /\ \A v \in served : v[2] \in DOMAIN g.idem
       /\ \A v, w \in served : v[2] = w[2] => v = w

-----------------------------------------------------------------------------
(* The id map. *)

(* The map holds the first of the orders that were given an id, as many as *)
(* it has room for.                                                        *)
Recorded(map, owner) ==
  /\ IsSeq(map) /\ IsSeq(owner) /\ Len(map) \in Nat /\ Len(owner) \in Nat
  /\ Len(map) = Lesser(Len(owner), PIPELINE_MAX_ID_MAP)
  /\ \A i \in 1..Len(map) : map[i] = owner[i]

(* The places of an id in a map. *)
Places(map, id) == {i \in 1..Len(map) : map[i][1] = id}

-----------------------------------------------------------------------------
(* Applying the trades. *)

HistFields == {"owner", "net", "cash", "slack", "served"}

(* The accounts and the history of their fills: what profit and position do *)
(* not explain of an account's cash is within its slack, and with a map     *)
(* that has not been full, every fill is where it belongs.                  *)
Books(acc, h) ==
  /\ DOMAIN acc = Accounts
  /\ DOMAIN h = HistFields
  /\ DOMAIN h.net = Accounts /\ DOMAIN h.cash = Accounts /\ DOMAIN h.slack = Accounts
  /\ \A a \in Accounts : PortfolioTyped(acc[a]) /\ Within(Unexplained(acc[a]), h.slack[a])
  /\ Len(h.owner) <= PIPELINE_MAX_ID_MAP =>
       \A a \in Accounts : acc[a].net_qty = h.net[a] /\ acc[a].cash = h.cash[a]

SameOwners(k, h) == DOMAIN k = HistFields /\ k.owner = h.owner /\ k.served = h.served

(* The history with other numbers for the account a. *)
LegTaken(k, h, a, net, cash, slack) ==
  /\ SameOwners(k, h)
  /\ k.net = [h.net EXCEPT ![a] = net]
  /\ k.cash = [h.cash EXCEPT ![a] = cash]
  /\ k.slack = [h.slack EXCEPT ![a] = slack]

(* While the events are drained. *)
Draining(d, h) == Books(d.accounts, d.hist) /\ SameOwners(d.hist, h)

(* A trade among the events has a side, a price and a quantity. *)
TradeSound(ev) == ev.type = "TRADE" => ev.side \in Side /\ ev.price \in Nat /\ ev.qty \in Nat \ {0}

(* The loop of drain_engine_events. *)
DrainLoop(g, N, base, map, evs) ==
  g = [n \in 0..N |-> IF n = 0 THEN base ELSE EventApplied(g[n - 1], map, evs[n])]

(* The messages served once m was answered with a. *)
ServedAfter(served, m, a) ==
  IF a.status # "ACCEPTED" \/ m.client_order_id = 0 THEN served
  ELSE served \cup {<<a.server_order_id, Sender(m)>>}

(* The answer that is remembered of a submission. *)
AckAfter(m, a) ==
  IF a.status # "DUPLICATE" THEN NoAck
  ELSE [key |-> Sender(m), server_order_id |-> a.server_order_id]

(* The message that a duplicate is answered with is of its own key. *)
AckTold(served, a) == \A v \in served : v[1] = a.server_order_id => v[2] = a.key

-----------------------------------------------------------------------------
(* The invariant. *)

(* What can be in the ring. *)
Posted ==
  {m \in NewOrders : stage_a_ingress(m)}
  \cup {Message("CANCEL", 1, 0, "LIMIT", "BID", 0, 0, 0, id) : id \in Nat}
  \cup {Message("MODIFY", 1, 0, "LIMIT", "BID", a[1], 0, a[2], id) : a \in Amendments, id \in Nat}

(* The map once the order in the engine is recorded. *)
Expected ==
  IF cur.action = "NEW" THEN id_map_remember(id_map, me.out, cur.account_id) ELSE id_map

EngineSound == \E v : EInv(v, me)

PInv ==
  /\ EngineSound
  /\ Cached(gateway, hist.served) /\ AckTold(hist.served, ack)
  /\ gateway.out_ring \in Seq(Posted)
  /\ Books(accounts, hist)
  /\ Recorded(Expected, hist.owner)

(* The history once x was given an id. *)
Owned(k, h, x) == k = [h EXCEPT !.owner = Append(h.owner, x)]

-----------------------------------------------------------------------------
(* The loops of the bridge and of the adapter. *)

(* One event of a step. *)
StagedEvent(b, ev) == IF Staged(ev) THEN Translate(b, ev) ELSE b

(* The loop of process_staged_events. *)
StageLoop(g, N, v, evs) ==
  g = [n \in 0..N |-> IF n = 0 THEN v
                      ELSE StagedEvent(g[n - 1], evs[n])]

(* The loop of AllPolled. *)
PollLoop(g, N, v, evs) ==
  g = [n \in 0..N |-> IF n = 0 THEN v
                      ELSE Polled(g[n - 1], evs[n])]

-----------------------------------------------------------------------------
(* The adapter's portfolios. *)

SameMoney(q, p) == q.cash = p.cash /\ q.net_qty = p.net_qty

SamePosition(q, p) ==
  SameMoney(q, p) /\ q.avg_price = p.avg_price /\ q.realised_pnl = p.realised_pnl

ClientFields == {"seq", "gap", "orders", "positions", "selfish", "ladder"}

(* The adapter's positions agree with the pipeline's accounts. *)
Agree(c, acc) ==
  /\ DOMAIN c = ClientFields /\ DOMAIN c.positions = Accounts
  /\ \A a \in Accounts : /\ SameMoney(c.positions[a], acc[a])
                         /\ a \notin c.selfish => SamePosition(c.positions[a], acc[a])

(* d is c with other positions. *)
SameButPositions(d, c) ==
  /\ DOMAIN d = ClientFields /\ DOMAIN d.positions = DOMAIN c.positions
  /\ d.seq = c.seq /\ d.gap = c.gap /\ d.orders = c.orders /\ d.ladder = c.ladder

-----------------------------------------------------------------------------
(* The queue of events. *)

BridgeFields == {"slots", "me_to_gw", "evq", "next_seq"}

(* The events in the queue are numbered up to next_seq without a gap. *)
Queue(b) ==
  /\ DOMAIN b = BridgeFields
  /\ IsSeq(b.evq) /\ Len(b.evq) \in Nat /\ b.next_seq \in Nat
  /\ Len(b.evq) <= b.next_seq /\ Len(b.evq) < BRIDGE_EVENT_QUEUE_CAP
  /\ \A i \in 1..Len(b.evq) : b.evq[i][1] = b.next_seq - Len(b.evq) + i

SameOrders(p, b) == p.slots = b.slots /\ p.me_to_gw = b.me_to_gw

(* What the client will know once it has polled the queue. *)
View(c, b) == AllPolled(c, b.evq)

(* The client has polled no event that is still in the queue ... *)
Behind(c, b) == c.seq \in Nat /\ c.seq + Len(b.evq) <= b.next_seq /\ c.gap \in BOOLEAN

(* ... and has missed none. *)
Complete(c, b) == ~c.gap /\ c.seq + Len(b.evq) = b.next_seq

-----------------------------------------------------------------------------
(* The orders of the registry. *)

SlotFields ==
  {"me_id", "account_id", "type", "side", "price", "qty_remain", "qty_filled", "status", "touched"}

(* Engine ids stand for registered orders, and 0 for none. *)
Registry(b) ==
  /\ DOMAIN b = BridgeFields
  /\ 0 \notin DOMAIN b.slots
  /\ \A id \in DOMAIN b.slots : DOMAIN b.slots[id] = SlotFields
  /\ \A i \in DOMAIN b.me_to_gw : b.me_to_gw[i] \in DOMAIN b.slots

(* What no event changes of an order. *)
SameOrder(t, s) ==
  /\ DOMAIN t = SlotFields
  /\ t.me_id = s.me_id /\ t.account_id = s.account_id /\ t.type = s.type /\ t.side = s.side

SameRegistry(p, b) ==
  /\ p.me_to_gw = b.me_to_gw /\ DOMAIN p.slots = DOMAIN b.slots
  /\ \A id \in DOMAIN b.slots : SameOrder(p.slots[id], b.slots[id])

(* The registry with another state of one order. *)
OneSlot(p, b, id, s) ==
  /\ DOMAIN p = BridgeFields /\ p.me_to_gw = b.me_to_gw /\ p.evq = b.evq /\ p.next_seq = b.next_seq
  /\ DOMAIN p.slots = DOMAIN b.slots
  /\ \A x \in DOMAIN b.slots : p.slots[x] = IF x = id THEN s ELSE b.slots[x]

(* The event that tells the state s of the order id. *)
Snapshot(id, s) ==
  [kind |-> "ORDER", order_id |-> id, account_id |-> s.account_id, price |-> s.price,
   qty_remain |-> s.qty_remain, qty_filled |-> s.qty_filled, status |-> s.status]

(* p is b with the event ev pushed. *)
Pushed(p, b, ev) == p = push_event(b, ev)

(* The event of a trade, told with the accounts a and r. *)
TradeTold(ev, a, r) ==
  [kind |-> "TRADE", aggressor_side |-> ev.side, aggressor_account |-> a, resting_account |-> r,
   price |-> ev.price, qty |-> ev.qty]

(* The steps of a trade: both orders are filled, the trade is told, then    *)
(* the resting order if it is registered.                                   *)
TradeSteps(p, b, agg, rest, ev, b1, b2, b3) ==
  /\ OneSlot(b1, b, agg, Filled(b.slots[agg], ev.qty)) /\ Registry(b1) /\ Queue(b1) /\ SameRegistry(b1, b)
  /\ OneSlot(b2, b1, rest, Filled(b1.slots[rest], ev.qty)) /\ Registry(b2) /\ Queue(b2)
  /\ SameRegistry(b2, b1)
  /\ Pushed(b3, b2, TradeTold(ev, AccountOf(b, agg), AccountOf(b, rest)))
  /\ Registry(b3) /\ Queue(b3) /\ SameOrders(b3, b2)
  /\ IF rest \in DOMAIN b.slots THEN Pushed(p, b3, Snapshot(rest, b3.slots[rest])) ELSE p = b3
  /\ Registry(p) /\ Queue(p) /\ SameOrders(p, b3)

(* The steps of another event of a registered order: its state is changed, *)
(* then told.                                                              *)
OrderSteps(p, b, id, ev, b1) ==
  /\ OneSlot(b1, b, id, Told(Advanced(b.slots[id], ev), ev)) /\ Registry(b1) /\ Queue(b1)
  /\ SameRegistry(b1, b)
  /\ Pushed(p, b1, Snapshot(id, b1.slots[id]))
  /\ Registry(p) /\ Queue(p) /\ SameOrders(p, b1)

-----------------------------------------------------------------------------
(* What a client learns by polling. *)

(* c has polled everything up to the number n. *)
UpTo(c, n) == DOMAIN c = ClientFields /\ ~c.gap /\ c.seq = n

(* A client who agrees with the accounts, once it has polled the queue. *)
Polls(c, b, acc) == UpTo(View(c, b), b.next_seq) /\ Agree(View(c, b), acc)

(* The bridge's translation of engine ids attributes orders as the map does. *)
Attributes(b, map) ==
  \A i : AccountOf(b, gw_from_me(b, i)) = id_map_lookup_account(map, i)

(* The accounts after an event. *)
AccountsAfter(map, acc, ev) == IF ev.type = "TRADE" THEN apply_trade(map, acc, ev) ELSE acc

-----------------------------------------------------------------------------
(* The call in progress. *)

(* The message that bridge_submit has handed to the pipeline. *)
Request == IF cur = NoEvent THEN Head(gateway.out_ring) ELSE cur

(* One call at a time: the ring has its message until the engine takes it,  *)
(* and the engine is at rest with nothing to tell when no message is being  *)
(* processed.  A new order has its slot, under the id the gateway has given *)
(* last, if the registry has one of that id.                                *)
Calling ==
  /\ Len(gateway.out_ring) \in {0, 1}
  /\ gateway.out_ring # <<>> => cur = NoEvent
  /\ cur = NoEvent => stack = <<>> /\ me.eq = <<>>
  /\ gateway.next_server_order_id \in Nat /\ gateway.next_server_order_id >= id_base
  /\ ~Free => gateway.next_server_order_id > id_base
  /\ call \in Nat
  /\ call # 0 =>
       /\ ~Free /\ Request.action = "NEW"
       /\ call = gateway.next_server_order_id /\ HasSlot(call)
       /\ call \in DOMAIN bp.slots /\ bp.slots[call] = Registered(Request)
  /\ ~Free /\ Request.action = "NEW" /\ call = 0 => ~HasSlot(gateway.next_server_order_id)

(* The engine's ids of the orders given one go up. *)
Ordered(owner, n) ==
  /\ IsSeq(owner) /\ Len(owner) \in Nat
  /\ \A k \in 1..Len(owner) : owner[k][1] \in Nat /\ k <= owner[k][1] /\ owner[k][1] < n
  /\ \A i, j \in 1..Len(owner) : i < j => owner[i][1] < owner[j][1]

(* The map has the first of them. *)
Begins(map, owner) ==
  /\ IsSeq(map) /\ Len(map) \in Nat /\ Len(map) <= Len(owner)
  /\ \A k \in 1..Len(map) : map[k] = owner[k]

(* The registered orders: in the slots of the ids handed out, each under    *)
(* at most one engine id.                                                   *)
Matched(b, last) ==
  /\ Registry(b)
  /\ \A id \in DOMAIN b.slots :
       /\ id \in Nat /\ HasSlot(id) /\ id <= last
       /\ b.slots[id].me_id \in Nat
       /\ b.slots[id].me_id # 0 => /\ b.slots[id].me_id \in DOMAIN b.me_to_gw
                                   /\ b.me_to_gw[b.slots[id].me_id] = id
  /\ \A i \in DOMAIN b.me_to_gw : i \in Nat \ {0} /\ b.slots[b.me_to_gw[i]].me_id = i

(* Engine ids stand for orders as in the map: every one that stands for a   *)
(* registered order is in the map, with the account of that order ...       *)
KnownIn(b, map) ==
  \A i \in DOMAIN b.me_to_gw :
    \E k \in 1..Len(map) : map[k][1] = i /\ map[k][2] = b.slots[b.me_to_gw[i]].account_id

(* ... and every one in the map stands for one. *)
AllKnown(b, map) == \A k \in 1..Len(map) : map[k][1] \in DOMAIN b.me_to_gw

(* The client is at the place in the numbers where the queue begins, unless *)
(* it has missed an event, and has then noticed ...                         *)
Following(c, b) ==
  /\ DOMAIN c = ClientFields
  /\ Behind(c, b)
  /\ b.evq = <<>> /\ ~c.gap => c.seq = b.next_seq

(* ... and its positions will be those of the accounts.                     *)
Follows(c, b, acc) == Complete(c, b) => Polls(c, b, acc)

BInv ==
  /\ PInv
  /\ Calling
  /\ Ordered(hist.owner, me.next_order_id)
  /\ Begins(id_map, hist.owner)
  /\ Matched(bp, gateway.next_server_order_id) /\ KnownIn(bp, id_map)
  /\ InRegistry => AllKnown(bp, id_map)
  /\ Queue(bp)
  /\ Following(client, bp)
  /\ InRegistry => Follows(client, bp, accounts)

-----------------------------------------------------------------------------
(* The registry and the map. *)

(* The registry with one order more. *)
Enlarged(p, b, id, s) == p = [b EXCEPT !.slots = Put(b.slots, id, s)]

-----------------------------------------------------------------------------
(* The new order gets its engine id. *)

(* The registry b once the order of the slot `slot` is known under i. *)
Linked(p, b, slot, i) ==
  /\ DOMAIN p = BridgeFields /\ p.evq = b.evq /\ p.next_seq = b.next_seq
  /\ p.me_to_gw = Put(b.me_to_gw, i, slot)
  /\ DOMAIN p.slots = DOMAIN b.slots
  /\ \A x \in DOMAIN b.slots : x # slot => p.slots[x] = b.slots[x]
  /\ p.slots[slot] = [b.slots[slot] EXCEPT !.me_id = i]

-----------------------------------------------------------------------------
(* The events of a step, staged in the bridge and drained in the pipeline. *)

(* What the bridge keeps while it translates, from b to p. *)
Translating(p, b, c) ==
  Registry(p) /\ Queue(p) /\ SameRegistry(p, b) /\ Following(c, p)

-----------------------------------------------------------------------------
(* The answer to a new order that nothing has touched. *)

(* The state of an order refused before the engine. *)
Declined(s) == [[s EXCEPT !.status = "REJECTED"] EXCEPT !.touched = TRUE]

(* The steps of the answer: the order is refused, then told. *)
AnswerSteps(p, b, b1) ==
  /\ call # 0 /\ call \in DOMAIN b.slots /\ ~b.slots[call].touched
  /\ OneSlot(b1, b, call, Declined(b.slots[call])) /\ Registry(b1) /\ Queue(b1) /\ SameRegistry(b1, b)
  /\ Pushed(p, b1, Snapshot(call, b1.slots[call]))
  /\ Registry(p) /\ Queue(p) /\ SameOrders(p, b1)

-----------------------------------------------------------------------------
(* The adapter drains the queue. *)

(* A client that has polled up to the number n, or missed an event and      *)
(* noticed.                                                                 *)
Polling(c, n) ==
  /\ DOMAIN c = ClientFields
  /\ \/ c.gap = TRUE /\ c.seq = 0
     \/ c.gap = FALSE /\ c.seq = n

(* d is at the place of c. *)
SamePlace(d, c) ==
  DOMAIN d = ClientFields /\ d.seq = c.seq /\ d.gap = c.gap /\ d.orders = c.orders

-----------------------------------------------------------------------------
(* What the bridge shows of orders. *)

(* The call in progress: `base` is the registry before it, `call` its new   *)
(* order, `last` the last of the gateway's ids.                             *)
Context == [base |-> bp, call |-> call, client |-> client, last |-> gateway.next_server_order_id]

StopTypes == {"STOP", "STOP_LIMIT"}

(* The state s of an order that the engine knows as i, when the book holds  *)
(* R, S are the ids of the dormant stops, and `lost` those of lost orders.  *)
Fits(s, i, R, S, lost) ==
  /\ s.touched
  /\ \A o \in R : o.id = i =>
       Live(s) /\ s.qty_remain = o.qty /\ s.side = o.side /\ (s.type # "MARKET" => s.price = o.price)
  /\ i \in S => Live(s) /\ s.type \in StopTypes
  /\ Live(s) => i \in Ids(R) \/ i \in S \/ i \in lost \/ s.type \in StopTypes

(* The state of the order w that the engine is busy with: only its trades   *)
(* have been told, no event of its own.                                     *)
Coming(s, w) ==
  /\ ~Dead(s)
  /\ s.qty_remain = w.left /\ s.side = w.side /\ s.type = w.type
  /\ s.type # "MARKET" => s.price = w.price
  /\ IF w.left > 0 THEN Live(s) ELSE s.status = "FILLED"

NoOrder == [id |-> 0]

(* The orders with an engine id are shown as they are. *)
Shows(b, R, S, lost, w) ==
  \A i \in DOMAIN b.me_to_gw :
    IF i = w.id THEN Coming(b.slots[b.me_to_gw[i]], w) ELSE Fits(b.slots[b.me_to_gw[i]], i, R, S, lost)

(* Those without one were refused before the engine, or are about to be. *)
Waiting(t, b) ==
  \A id \in DOMAIN b.slots : b.slots[id].me_id = 0 =>
    IF id = t.call THEN ~b.slots[id].touched /\ b.slots[id].status = "OPEN"
    ELSE b.slots[id].touched /\ b.slots[id].status = "REJECTED"

(* Orders of whose state the client cannot know: the new one before it is   *)
(* answered, and the one that the engine is busy with.                      *)
Pending(t, b, id, w) ==
  \/ b.slots[id].me_id = 0 /\ id = t.call
  \/ b.slots[id].me_id # 0 /\ b.slots[id].me_id = w.id

StateTold(ev, s) ==
  /\ ev.status = s.status /\ ev.price = s.price
  /\ ev.qty_remain = s.qty_remain /\ ev.qty_filled = s.qty_filled

(* The client d knows the others. *)
UpToDate(t, d, b, w) ==
  /\ UpTo(d, b.next_seq)
  /\ \A id \in DOMAIN b.slots : ~Pending(t, b, id, w) =>
       id \in DOMAIN d.orders /\ StateTold(d.orders[id], b.slots[id])

(* A client that has missed no event does, once it has polled the queue. *)
Surfaces(t, b, w) == Complete(t.client, b) => UpToDate(t, View(t.client, b), b, w)

IsOrder(ev) == ev.kind = "ORDER"

(* The status of an order that is not live is final: since the call, ... *)
SinceCall(t, b) ==
  \A id \in DOMAIN t.base.slots :
    id \in DOMAIN b.slots /\ (~Live(t.base.slots[id]) => b.slots[id].status = t.base.slots[id].status)

(* ... since an event that is still in the queue, ... *)
Ends(b) ==
  \A j \in 1..Len(b.evq) : IsOrder(b.evq[j][2]) =>
    /\ b.evq[j][2].order_id \in DOMAIN b.slots
    /\ ~Live(b.evq[j][2]) => b.slots[b.evq[j][2].order_id].status = b.evq[j][2].status

(* ... and from one event to a later one. *)
EndsOnce(b) ==
  \A i, j \in 1..Len(b.evq) :
    (i < j /\ IsOrder(b.evq[i][2]) /\ IsOrder(b.evq[j][2])
       /\ b.evq[i][2].order_id = b.evq[j][2].order_id /\ ~Live(b.evq[i][2]))
    => b.evq[j][2].status = b.evq[i][2].status

Final(t, b) == SinceCall(t, b) /\ Ends(b) /\ EndsOnce(b)

(* A new order that an event has touched has been told of. *)
Heard(t, b) == t.call # 0 /\ b.slots[t.call].touched => b.evq # <<>>

(* What is told of the orders, whatever it is. *)
Streams(t, b, w) == Behind(t.client, b) /\ Surfaces(t, b, w) /\ Final(t, b)

Shown(t, b, R, S, lost, w) ==
  /\ Matched(b, t.last) /\ Queue(b)
  /\ t.call = 0 \/ t.call \in DOMAIN b.slots
  /\ Waiting(t, b)
  /\ Shows(b, R, S, lost, w)
  /\ Streams(t, b, w)
  /\ Heard(t, b)

-----------------------------------------------------------------------------
(* The stream of events, one change at a time. *)

(* A change of status that a client may be told: none of what was final. *)
Progress(new, old) == ~Live(old) => new.status = old.status

-----------------------------------------------------------------------------
(* What is shown, one event of the engine at a time. *)

(* Another book, other stops or lost orders, but for the id i.              *)
SameBut(i, R, S, lost, Q, T, gone) ==
  /\ \A o \in R : o.id # i => o \in Q
  /\ \A o \in Q : o.id # i => o \in R
  /\ \A x \in S : x # i => x \in T
  /\ \A x \in T : x # i => x \in S
  /\ lost \subseteq gone

(* An event of an order of its own, ... *)
OwnEvent(ev) == ev.type \notin {"TRADE", "BOOK_UPDATED"}

(* ... which tells its state as it should be, ... *)
TellsOwn(ev, R, S, lost, w, Q, T, gone) ==
  /\ \A s : (DOMAIN s = SlotFields /\ ~Dead(s)
             /\ IF ev.id = w.id THEN Coming(s, w) ELSE Fits(s, ev.id, R, S, lost))
       => LET n == Told(Advanced(s, ev), ev) IN Fits(n, ev.id, Q, T, gone) /\ Progress(n, s)
  /\ ev.id # w.id => \A s : Dead(s) /\ Fits(s, ev.id, R, S, lost) => Fits(s, ev.id, Q, T, gone)

(* Of the order in work, n more was filled. *)
Nearer(u, w, n) ==
  u.id = w.id /\ u.side = w.side /\ u.type = w.type /\ u.price = w.price /\ u.left = w.left - n

-----------------------------------------------------------------------------
(* What is shown, one call of the engine at a time. *)

(* The registry `base` after the events that e has queued. *)
Seen(base, e) == process_staged_events(base, e.eq)

(* Clients see the book R and the stops S, and are busy with w. *)
Sees(t, base, e, R, S, w) == e.dropped = 0 => Shown(t, Seen(base, e), R, S, e.lost, w)

(* The queue of an engine. *)
Queues(e) == IsSeq(e.eq) /\ e.dropped \in Nat

(* An order's end leaves it no trace in the book or among the stops. *)
Gone(i, Q, T) == i \notin Ids(Q) /\ i \notin T

(* Clients see what the engine has. *)
InView(t, base, e) == Sees(t, base, e, e.resting, StopIds(e), NoOrder)

(* There is something for clients to poll, now that e's events are told. *)
Noted(base, e) == e.dropped = 0 => Seen(base, e).evq # <<>>

(* The order i is registered. *)
KnownTo(base, e, i) == e.dropped = 0 => i \in DOMAIN Seen(base, e).me_to_gw

(* The order that the engine is busy with, `left` being left to fill. *)
Working(id, side, type, price, left) ==
  [id |-> id, side |-> side, type |-> type, price |-> price, left |-> left]

(* What clients see along the fills of the order in work. *)
Staging(tr, b, id, side, fills) ==
  tr[0] = b /\ \A j \in 1..Len(fills) : tr[j] = StagedEvent(tr[j - 1], TradeEvent(id, side, fills[j]))

(* After the fills of acc, what is left of it being in work. *)
FillsShow(acc, t, b, S, lost, id, side, type, price) ==
  \E tr : /\ Staging(tr, b, id, side, acc.fills)
          /\ Shown(t, tr[Len(acc.fills)], acc.resting, S, lost, Working(id, side, type, price, acc.left))

(* The first n fills of b have been told. *)
Showing(x, b, n, base, tr) ==
  /\ SameBook(x.e, b.e) /\ Queues(x.e)
  /\ x.e.dropped = 0 => b.e.dropped = 0 /\ Seen(base, x.e) = tr[n]

(* What is left after the trades, of an order of which R does not know yet. *)
Awaited(x, b, R, left, side, price) ==
  \/ /\ b.st = "OK" /\ left > 0
     /\ \E o \in Order : /\ o.id = b.id /\ o.qty = left /\ o.side = side /\ o.price = price
                         /\ x.resting = R \cup {o}
  \/ x.resting = R /\ b.st = IF left > 0 THEN "REJECTED" ELSE "OK"

(* What steps 4 and 5 start from, and what they end with. *)
Awaiting(t, base, x, R, b, left, side, type, price, qty, filled) ==
  /\ EngineTyped(x) /\ left \in Nat /\ Awaited(x, b, R, left, side, price)
  /\ b.id \in Nat \ {0} /\ Gone(b.id, R, StopIds(x))
  /\ qty \in Nat /\ filled \in Nat /\ filled = qty - left
  /\ Sees(t, base, x, R, StopIds(x), Working(b.id, side, type, price, left))

Viewed(t, base, p) == DOMAIN p = EngineFields /\ Queues(p) /\ InView(t, base, p)

(* The order e will take in, or none. *)
Taking(r, e, side, type, price, qty) ==
  IF r.out.id = 0 THEN NoOrder ELSE Working(e.next_order_id, side, type, price, qty)

-----------------------------------------------------------------------------
(* What is shown, one step of the bridge at a time. *)

(* The call t has ended, with the registry b: there is none in u. *)
Ended(u, t, b) == u.call = 0 /\ u.client = t.client /\ u.last = t.last /\ u.base = b

(* The registry that the events of the engine will be told to: the new      *)
(* order has the engine id that the map has for it.                         *)
Linking == IF cur = NoEvent THEN bp ELSE Captured(bp, id_map, Expected)

(* A cancel or modification in work is of an order with an engine id, and   *)
(* starts no scan.                                                          *)
Aimed ==
  ~Free /\ Request.action # "NEW" =>
    Request.target_order_id \in DOMAIN bp.me_to_gw /\ stack = <<>> /\ call = 0

(* The ladder is the book's unless there is something to poll, or will be.  *)
LadderKept ==
  InRegistry /\ me.lost = {} /\ call = 0 /\ Seen(Linking, me).evq = <<>> =>
    client.ladder = Ladder(me.resting)

(* Clients see what the engine has, as far as it has told all.              *)
VInv ==
  /\ Aimed
  /\ InView(Context, Linking, me)
  /\ me.dropped = 0 => LadderKept

-----------------------------------------------------------------------------
(* What a step keeps. *)

(* The orders that are not live keep their status in a step. *)
Lasting ==
  \A id \in DOMAIN bp.slots : ~Live(bp.slots[id]) => bp'.slots[id].status = bp.slots[id].status

-----------------------------------------------------------------------------
(* The bounds of what the bridge keeps. *)

(* The bucket holds at most its burst, and the ring less than its slots. *)
Metered(g) == g.tokens \in 0..max_tokens /\ Len(g.out_ring) < GW_RING_CAP

(* The average prices are prices. *)
Cheap(acc) == \A a \in Accounts : acc[a].avg_price \in 0..MAX_PRICE

(* What is left of the orders is never negative. *)
Counted(b) == \A id \in DOMAIN b.slots : b.slots[id].qty_remain \in Nat

BoundsInv == Bounded(me) /\ Metered(gateway) /\ Cheap(accounts) /\ Counted(bp)
=============================================================================
