------------------------------ MODULE Pipeline ------------------------------
(***************************************************************************)
(* The trade pipeline of one symbol, pipeline/pipeline.c: the gateway, the *)
(* validation, the risk checks with the accounts' portfolios, the engine,  *)
(* and the attribution of its trades to accounts through the id map.       *)
(*                                                                         *)
(* pipeline_submit and pipeline_step are called from one thread.  Of a     *)
(* step that drains the ring, each event is dispatched by one action       *)
(* (Dispatch or Drop), the engine's cascade runs (Cascade), and Settled    *)
(* records the order and applies the trades.  The journal, which nothing   *)
(* in the program reads, is left out.                                      *)
(***************************************************************************)
EXTENDS MatchingEngine, Gateway, Portfolio

CONSTANTS
  Accounts,             \* the accounts added by pipeline_add_account
  NewOrders,            \* messages with new orders that clients send
  Amendments,           \* <<price, quantity>> that modifications ask for
  max_position,         \* position limit of every account, 0 for none
  max_order_notional,   \* limit on an order's notional, 0 for none
  fat_finger_bps,       \* allowed distance from the last price, in 1/10000
  PIPELINE_MAX_ID_MAP,  \* capacity of the id map
  MAX_SUBMIT            \* bound: messages the gateway admits

ASSUME PipelineAssumption ==
  /\ Accounts \subseteq Nat \ {0}
  /\ \A m \in NewOrders : /\ m.action = "NEW" /\ m.side \in Side
                          /\ m.type \in {"LIMIT", "MARKET", "IOC", "FOK", "STOP", "STOP_LIMIT"}
                          /\ m.price \in Nat /\ m.trigger_price \in Nat /\ m.qty \in Nat
  /\ Amendments \subseteq (1..MAX_PRICE) \X (Nat \ {0})
  /\ max_position \in Nat /\ max_order_notional \in Nat /\ fat_finger_bps \in Nat
  /\ PIPELINE_MAX_ID_MAP \in Nat /\ MAX_SUBMIT \in Nat

(* Prices are of the type whose maximum the sentinel of a market order is. *)
ASSUME PriceAssumption == \A m \in NewOrders : m.price <= MAX_PRICE

VARIABLES
  gateway,
  accounts,          \* account id -> portfolio
  last_trade_price,  \* of the risk engine
  id_map,            \* <<order id, account>>, in the order of recording
  cur,               \* the event being processed, or NoEvent
  stepping,          \* pipeline_step is in progress
  ack,               \* the last submission's answer, if that was DUPLICATE
  hist               \* history, see Init

vars == <<me, stack, gateway, accounts, last_trade_price, id_map, cur, stepping, ack, hist>>

NoEvent == [action |-> "none"]
NoAck == [key |-> <<0, 0>>, server_order_id |-> 0]

(* pipeline_init; the ids of the gateway start above base. *)
InitFrom(base) ==
  /\ EngineInit
  /\ gateway = [gateway_init EXCEPT !.next_server_order_id = base]
  /\ accounts = [a \in Accounts |-> portfolio_init(max_position, max_order_notional)]
  /\ last_trade_price = 0
  /\ id_map = <<>>
  /\ cur = NoEvent /\ stepping = FALSE /\ ack = NoAck
  /\ hist = [owner |-> <<>>,       \* engine id -> account that submitted the order
             net |-> [a \in Accounts |-> 0],    \* its orders' fills, bought less sold
             cash |-> [a \in Accounts |-> 0],   \* received less paid for them
             slack |-> [a \in Accounts |-> 0],  \* most that rounding can have cost
             served |-> {}]    \* <<server id, <<account, client order id>>>> admitted

Init == InitFrom(0)

-----------------------------------------------------------------------------
(* pipeline_submit *)

Sender(m) == <<m.account_id, m.client_order_id>>

Submit(m, add) ==
  LET r == gateway_submit(gateway, m, add) IN
  /\ ~stepping
  /\ r.g.next_server_order_id <= MAX_SUBMIT
  /\ gateway' = r.g
  /\ ack' = IF r.ack.status # "DUPLICATE" THEN NoAck
            ELSE [key |-> Sender(m), server_order_id |-> r.ack.server_order_id]
  /\ hist' = IF r.ack.status # "ACCEPTED" \/ m.client_order_id = 0 THEN hist
             ELSE [hist EXCEPT !.served = @ \cup {<<r.ack.server_order_id, Sender(m)>>}]
  /\ UNCHANGED <<me, stack, accounts, last_trade_price, id_map, cur, stepping>>

SetKillSwitch ==
  /\ ~stepping
  /\ gateway' = [gateway EXCEPT !.kill_switch = ~@]
  /\ ack' = NoAck
  /\ UNCHANGED <<me, stack, accounts, last_trade_price, id_map, cur, stepping, hist>>

-----------------------------------------------------------------------------
(* pipeline_step *)

stage_validate(ev) ==
  ev.action = "NEW" =>
    CASE ev.type \in {"LIMIT", "IOC", "FOK"} -> ev.price # 0
      [] ev.type = "MARKET" -> ev.price = 0
      [] ev.type = "STOP" -> ev.trigger_price # 0 /\ ev.price = 0
      [] ev.type = "STOP_LIMIT" -> ev.trigger_price # 0 /\ ev.price # 0

(* The fat-finger band, once there is a reference price. *)
InBand(ev) ==
  (last_trade_price > 0 /\ fat_finger_bps > 0 /\ ev.price > 0
     /\ ev.type \in {"LIMIT", "IOC", "FOK", "STOP_LIMIT"})
  => Abs(ev.price - last_trade_price) <= (last_trade_price * fat_finger_bps) \div 10000

(* The price an order is reserved at. *)
reserve_px(ev) ==
  IF ev.price > 0 THEN ev.price ELSE IF last_trade_price > 0 THEN last_trade_price ELSE 1

(* risk_check, with its tick of 1, which every price is a multiple of; an  *)
(* account that was never added is not checked.                            *)
risk_check(ev) ==
  (ev.action = "NEW" /\ ev.account_id \in Accounts) =>
    /\ InBand(ev)
    /\ CanReserve(accounts[ev.account_id], ev.side, reserve_px(ev), ev.qty)

Reserved(ev) ==
  [a \in Accounts |->
     IF ev.action = "NEW" /\ a = ev.account_id
     THEN portfolio_reserve(accounts[a], ev.side, reserve_px(ev), ev.qty) ELSE accounts[a]]

(* The next event of the ring, if pipeline_step is free to take it. *)
Takes(ev) ==
  /\ cur = NoEvent /\ gateway.out_ring # <<>>
  /\ ev = Head(gateway.out_ring)
  /\ gateway' = gw_ring_pop(gateway)
  /\ ack' = NoAck

(* An event that validation or risk refuses. *)
Drop(ev) ==
  /\ Takes(ev)
  /\ ~(stage_validate(ev) /\ risk_check(ev))
  /\ stepping' = (gateway'.out_ring # <<>>)
  /\ UNCHANGED <<me, stack, accounts, last_trade_price, id_map, cur, hist>>

match_new(ev) ==
  IF ev.type \in {"STOP", "STOP_LIMIT"}
  THEN /\ me' = me_submit_stop(me, ev.type, ev.side, ev.trigger_price, ev.price, ev.qty, FALSE)
       /\ UNCHANGED stack
  ELSE LET r == me_submit_order(me, ev.type, ev.side, ev.price, ev.qty)
       IN  GoOn(stack, [r EXCEPT !.e.out = r.out])

Target(ev) == {o \in me.resting : o.id = ev.target_order_id}

(* match_cancel: the book first, then the stops. *)
match_cancel(ev) ==
  /\ me' = IF Target(ev) = {} THEN me_cancel_stop(me, ev.target_order_id)
           ELSE me_cancel_order(me, CHOOSE o \in Target(ev) : TRUE)
  /\ UNCHANGED stack

match_modify(ev) ==
  /\ me' = IF Target(ev) = {} \/ ev.price <= 0 \/ ev.qty = 0 THEN me
           ELSE me_modify_order(me, CHOOSE o \in Target(ev) : TRUE, ev.price, ev.qty)
  /\ UNCHANGED stack

Dispatch(ev) ==
  /\ Takes(ev)
  /\ stage_validate(ev) /\ risk_check(ev)
  /\ accounts' = Reserved(ev)
  /\ \/ ev.action = "NEW" /\ match_new(ev)
     \/ ev.action = "CANCEL" /\ match_cancel(ev)
     \/ ev.action = "MODIFY" /\ match_modify(ev)
  /\ cur' = ev
  /\ stepping' = TRUE
  /\ hist' = IF ev.action = "NEW" /\ me'.next_order_id > me.next_order_id
             THEN [hist EXCEPT !.owner = Append(@, <<me.next_order_id, ev.account_id>>)]
             ELSE hist
  /\ UNCHANGED <<last_trade_price, id_map>>

(* Mutant: only orders that the engine reports as resting are recorded. *)
id_map_remember_Resting(map, out, account) ==
  IF out.id = 0 \/ out.status # "OK" \/ Len(map) >= PIPELINE_MAX_ID_MAP THEN map
  ELSE Append(map, <<out.id, account>>)

(* The order is recorded if the engine gave it an id and there is room. *)
id_map_remember(map, out, account) ==
  IF out.id = 0 \/ Len(map) >= PIPELINE_MAX_ID_MAP THEN map
  ELSE Append(map, <<out.id, account>>)

(* The account an id stands for in a map, 0 if none. *)
id_map_lookup_account(map, id) ==
  LET at == {i \in 1..Len(map) : map[i][1] = id}
  IN  IF at = {} THEN 0 ELSE map[CHOOSE i \in at : \A j \in at : i <= j][2]

(* One leg of a trade. *)
Fill(acc, a, side, ev) ==
  IF a \in Accounts THEN [acc EXCEPT ![a] = portfolio_on_fill(@, side, ev.price, ev.qty)] ELSE acc

(* Both legs, the aggressor's first. *)
apply_trade(map, acc, ev) ==
  Fill(Fill(acc, id_map_lookup_account(map, ev.id), ev.side, ev),
       id_map_lookup_account(map, ev.resting_id), Opp(ev.side), ev)

(* The history's account of one leg: whose order it was. *)
LegDone(h, acc, id, side, ev) ==
  LET a == id_map_lookup_account(h.owner, id) IN
  IF a \notin Accounts THEN h
  ELSE [h EXCEPT !.net[a] = @ + Signed(side, ev.qty),
                 !.cash[a] = @ - Signed(side, ev.price * ev.qty),
                 !.slack[a] = IF acc[a].net_qty # 0 /\ Extends(acc[a], side)
                              THEN @ + Abs(acc[a].net_qty) + ev.qty - 1 ELSE @]

TradeDone(h, map, acc, ev) ==
  LegDone(LegDone(h, acc, ev.id, ev.side, ev),
          Fill(acc, id_map_lookup_account(map, ev.id), ev.side, ev),
          ev.resting_id, Opp(ev.side), ev)

(* An event of the engine: a trade goes to the accounts, and its price to  *)
(* the risk engine.                                                        *)
EventApplied(d, map, ev) ==
  IF ev.type # "TRADE" THEN d
  ELSE [accounts |-> apply_trade(map, d.accounts, ev),
        last |-> ev.price,
        hist |-> TradeDone(d.hist, map, d.accounts, ev)]

(* drain_engine_events *)
Drained(map) ==
  LET after[n \in 0..Len(me.eq)] ==
        IF n = 0 THEN [accounts |-> accounts, last |-> last_trade_price, hist |-> hist]
        ELSE EventApplied(after[n - 1], map, me.eq[n])
  IN  after[Len(me.eq)]

Applied(d) == accounts' = d.accounts /\ last_trade_price' = d.last /\ hist' = d.hist

(* The engine has returned: the new order is recorded, then the events are *)
(* drained.                                                                *)
Settled ==
  /\ cur # NoEvent /\ Idle
  /\ id_map' = IF cur.action = "NEW" THEN id_map_remember(id_map, me.out, cur.account_id)
               ELSE id_map
  /\ Applied(Drained(id_map'))
  /\ me' = [me EXCEPT !.eq = <<>>, !.out = NoResult]
  /\ cur' = NoEvent
  /\ stepping' = (gateway.out_ring # <<>>)
  /\ UNCHANGED <<stack, gateway, ack>>

-----------------------------------------------------------------------------
Message(action, account, cid, type, side, price, trigger, qty, target) ==
  [action |-> action, account_id |-> account, client_order_id |-> cid, type |-> type,
   side |-> side, price |-> price, trigger_price |-> trigger, qty |-> qty,
   target_order_id |-> target]

(* Cancels and modifications of ids that were handed out: whose they are   *)
(* is not looked at, so one account stands for all.  The new price and     *)
(* quantity of a modification are in `price` and `qty`.                    *)
Changes ==
  {Message("CANCEL", 1, 0, "LIMIT", "BID", 0, 0, 0, id) : id \in 1..(me.next_order_id - 1)}
  \cup {Message("MODIFY", 1, 0, "LIMIT", "BID", a[1], 0, a[2], id) :
           a \in Amendments, id \in 1..(me.next_order_id - 1)}

Next ==
  \/ \E m \in NewOrders \cup Changes, add \in 0..1 : Submit(m, add)
  \/ SetKillSwitch
  \/ \E ev \in ToSet(gateway.out_ring) : Drop(ev) \/ Dispatch(ev)
  \/ Cascade /\ UNCHANGED <<gateway, accounts, last_trade_price, id_map, cur, stepping, ack, hist>>
  \/ Settled

Spec == Init /\ [][Next]_vars
==============================================================================
