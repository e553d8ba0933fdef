------------------------------ MODULE BridgeProps ------------------------------
(***************************************************************************)
(* What must be true of Bridge: the orders it shows are those the engine   *)
(* has, its events tell their state, and the adapter's portfolios, kept by *)
(* the events, are the pipeline's.                                         *)
(***************************************************************************)
EXTENDS Bridge

(* No call is in progress, and the engine has dropped no event. *)
Between == Free /\ me.dropped = 0

(* Every id handed out so far has had a place in the registry.  The ids of *)
(* cancels use up the gateway's, the orders of fired stops the engine's.   *)
InRegistry ==
  /\ gateway.next_server_order_id - id_base <= PIPELINE_MAX_ID_MAP
  /\ me.next_order_id - 1 <= PIPELINE_MAX_ID_MAP

Live(s) == s.status \in {"OPEN", "PARTIAL"}
RestingAs(s) == {o \in me.resting : o.id = s.me_id}
DormantAs(s) == {i \in ActiveStops(me) : me.stops[i].id = s.me_id}

(* The order a client is shown under its id is the order the engine keeps  *)
(* under another: with the quantity, price, side and owner it has there,   *)
(* and live exactly as long as it rests or is dormant; and every order of  *)
(* a client that rests is shown.  Exceptions are the orders that a         *)
(* modification loses without an event, stops that have fired (see         *)
(* ViewsStayAccurate), and what comes when the registry is full.           *)
ViewsMatchEngine ==
  Between /\ InRegistry =>
  /\ \A k \in 1..Len(hist.owner) :
       (\E o \in me.resting : o.id = hist.owner[k][1]) => hist.owner[k][1] \in DOMAIN bp.me_to_gw
  /\ \A id \in DOMAIN bp.slots :
    LET s == bp.slots[id] IN
    /\ RestingAs(s) \cup DormantAs(s) # {} => Live(s)
    /\ \A o \in RestingAs(s) :
         /\ s.qty_remain = o.qty /\ s.side = o.side
         /\ s.type # "MARKET" => s.price = o.price
         /\ s.account_id = id_map_lookup_account(hist.owner, o.id)
    /\ Live(s) => \/ RestingAs(s) \cup DormantAs(s) # {}
                  \/ s.me_id \in me.lost \/ s.type \in {"STOP", "STOP_LIMIT"}

(* The status of an order that is filled, cancelled or rejected is final,  *)
(* in the registry and in the stream of events, although the engine emits  *)
(* FILLED after the CANCELLED of an IOC order (bridge.c:204-210).  The     *)
(* engine must have dropped no event: a modification that is not told lets *)
(* the order seem filled before it is, and cancelled later.                *)
TerminalIsFinal ==
  [][me'.dropped = 0 =>
       /\ \A id \in DOMAIN bp.slots : ~Live(bp.slots[id]) => bp'.slots[id].status = bp.slots[id].status
       /\ \A i, j \in 1..Len(bp'.evq) :
            LET e == bp'.evq[i][2]
                f == bp'.evq[j][2]
            IN  (i < j /\ e.kind = "ORDER" /\ f.kind = "ORDER" /\ e.order_id = f.order_id /\ ~Live(e))
                  => f.status = e.status]_bp

(* Those who keep views of the orders by the events know the state of      *)
(* every order as long as the queue has dropped none: also of the resting  *)
(* side of a trade, for which the engine emits nothing, and of orders      *)
(* refused before the engine.  No event is dropped without a gap in the    *)
(* numbers.                                                                *)
StreamTellsViews ==
  Between /\ bp.evq = <<>> /\ ~client.gap =>
    \A id \in DOMAIN bp.slots :
      LET s == bp.slots[id] IN
      /\ id \in DOMAIN client.orders
      /\ <<s.status, s.price, s.qty_remain, s.qty_filled>> =
           LET ev == client.orders[id] IN <<ev.status, ev.price, ev.qty_remain, ev.qty_filled>>

(* The adapter's portfolios, kept by the trade events, agree with the      *)
(* pipeline's, kept by the id map, as long as every id has had a slot:     *)
(* cash and position always, average price and profit unless the account   *)
(* has traded with itself, where the two do its legs in different orders.  *)
PortfoliosAgree ==
  Between /\ InRegistry /\ bp.evq = <<>> /\ ~client.gap =>
    \A a \in Accounts :
      LET p == accounts[a]
          q == client.positions[a]
      IN  /\ q.cash = p.cash /\ q.net_qty = p.net_qty
          /\ a \notin client.selfish =>
               q.avg_price = p.avg_price /\ q.realised_pnl = p.realised_pnl

(* Whoever keeps the ladder by the deltas has the book, although a delta   *)
(* is pushed only when the bridge had an event to tell and the engine's    *)
(* BOOK_UPDATED is none (engine_bridge.py:402-410): unless a modification  *)
(* has lost an order, which nothing tells.                                 *)
LadderTold ==
  Between /\ InRegistry /\ bp.evq = <<>> /\ me.lost = {} => client.ladder = Ladder(me.resting)

(* The state of the whole library: rings, token bucket, id map, cascade    *)
(* and poll queue stay within their capacities, the poll queue is numbered *)
(* without a gap, and the ids of gateway and engine are matched one to one.*)
TypeOK ==
  /\ \A o \in me.resting : o.price \in 1..MAX_PRICE /\ o.qty > 0 /\ o.id < me.next_order_id
  /\ Len(me.eq) < ME_EVENT_QUEUE_CAP /\ Len(gateway.out_ring) < GW_RING_CAP
  /\ gateway.tokens \in 0..max_tokens /\ Len(id_map) <= PIPELINE_MAX_ID_MAP
  /\ \A a \in Accounts : accounts[a].avg_price \in 0..MAX_PRICE
  /\ Len(bp.evq) < BRIDGE_EVENT_QUEUE_CAP
  /\ \A i \in 1..Len(bp.evq) : bp.evq[i][1] = bp.next_seq - Len(bp.evq) + i
  /\ \A id \in DOMAIN bp.slots : HasSlot(id) /\ bp.slots[id].qty_remain \in Nat
  /\ \A id \in DOMAIN bp.slots : bp.slots[id].me_id # 0 => bp.me_to_gw[bp.slots[id].me_id] = id
  /\ \A i \in DOMAIN bp.me_to_gw : bp.slots[bp.me_to_gw[i]].me_id = i
  /\ call = 0 \/ call \in DOMAIN bp.slots

-----------------------------------------------------------------------------
(* A statement of a comment that the code contradicts. *)

(* bridge.c:191: the resting side is surfaced "so downstream order views / *)
(* DB snapshots stay accurate"; api/README.md:84: GET /orders/{id} gives   *)
(* the latest view.  An order that is shown OPEN would then be live.       *)
ViewsStayAccurate ==
  Between => \A id \in DOMAIN bp.slots :
    LET s == bp.slots[id] IN
    s.status = "OPEN" => RestingAs(s) \cup DormantAs(s) # {} \/ s.me_id \in me.lost
==============================================================================
