----------------------------- MODULE EngineClient -----------------------------
(***************************************************************************)
(* The matching engine with a client that may make any call, and a         *)
(* consumer that keeps an account of the book by the events alone.         *)
(*                                                                         *)
(* The client makes one call at a time and drains the event queue after    *)
(* each, as the pipeline does (pipeline/pipeline.c, pipeline_step).        *)
(***************************************************************************)
EXTENDS EventConsumer

CONSTANTS
  Orders,        \* the orders submitted: type and quantity, and the bound
                 \* `last`: only ids up to it are taken by such orders
  Stops,         \* the stops submitted, likewise
  Ttls,          \* whether stops are submitted with a time to live
  Prices,        \* prices of valid orders
  Amounts,       \* quantities that orders are modified to
  MAX_TS         \* bound: the client modifies while the clock is below it

ASSUME ClientAssumption ==
  /\ \A k \in Orders : k.type \in {"LIMIT", "MARKET", "IOC", "FOK"} /\ k.qty \in Nat \ {0}
  /\ \A k \in Stops : k.type \in {"STOP", "STOP_LIMIT"} /\ k.qty \in Nat \ {0}
  /\ Ttls \subseteq BOOLEAN
  /\ Prices \subseteq 1..MAX_PRICE /\ Amounts \subseteq Nat \ {0}

VARIABLE view  \* what the consumer has learnt from the events it was handed

vars == <<me, stack, view>>

Init ==
  /\ EngineInit
  /\ view = [orders |-> [i \in {} |-> 0], stops |-> {}, tob |-> EmptyTop]

-----------------------------------------------------------------------------
(* The client's calls. *)

Ready == Idle /\ me.eq = <<>>

Entered(r) == GoOn(stack, [r EXCEPT !.e.out = r.out])

SubmitOrder(type, side, price, qty) ==
  /\ Ready
  /\ Entered(me_submit_order(me, type, side, price, qty))
  /\ UNCHANGED view

(* A call that cannot start a cascade. *)
Call(e) ==
  /\ Ready
  /\ me' = e
  /\ UNCHANGED <<stack, view>>

SubmitStop(type, side, trigger, limit, qty, ttl) ==
  Call(me_submit_stop(me, type, side, trigger, limit, qty, ttl))

CancelStop(i) == i \in ActiveStops(me) /\ Call(me_cancel_stop(me, me.stops[i].id))

ExpireOrders(due) ==
  /\ due # {}
  /\ \A i \in due : i \in ActiveStops(me) /\ me.stops[i].ttl
  /\ Call(me_expire_orders(me, due))

CancelOrder(o) == Call(me_cancel_order(me, o))

ModifyOrder(o, price, qty) == me.clock < MAX_TS /\ Call(me_modify_order(me, o, price, qty))

-----------------------------------------------------------------------------
(* The consumer. *)

(* me_run_events, or the pipeline's own loop: drain the queue.  The result *)
(* of the call is no longer looked at then.                                *)
RunEvents ==
  /\ stack = <<>> /\ me.eq # <<>>
  /\ view' = Learnt(view, me.eq)
  /\ me' = [me EXCEPT !.eq = <<>>, !.out = NoResult]
  /\ UNCHANGED stack

(* What is still submitted within the bound on ids. *)
InBound(kinds) == {k \in kinds : me.next_order_id <= k.last}

(* Every call with valid arguments, and one with invalid ones, which are   *)
(* all refused alike.                                                      *)
Client ==
  \/ \E k \in InBound(Orders), s \in Side :
       \E p \in IF k.type = "MARKET" THEN {0} ELSE Prices : SubmitOrder(k.type, s, p, k.qty)
  \/ \E k \in Orders : SubmitOrder(k.type, "BID", IF k.type = "MARKET" THEN 1 ELSE 0, k.qty)
  \/ \E k \in InBound(Stops), s \in Side, p \in Prices, ttl \in Ttls :
       \E l \in IF k.type = "STOP" THEN {0} ELSE Prices : SubmitStop(k.type, s, p, l, k.qty, ttl)
  \/ \E k \in Stops : SubmitStop(k.type, "BID", 0, 0, k.qty, FALSE)
  \/ \E i \in Slots : CancelStop(i)
  \/ \E due \in SUBSET Slots : ExpireOrders(due)
  \/ \E o \in me.resting : CancelOrder(o)
  \/ \E o \in me.resting, p \in Prices, q \in Amounts : ModifyOrder(o, p, q)

Next == Client \/ (Cascade /\ UNCHANGED view) \/ RunEvents

Spec == Init /\ [][Next]_vars

-----------------------------------------------------------------------------
(* A consumer that has been handed every event knows exactly which orders  *)
(* rest with which quantity and which stops are dormant: no fill, cancel,  *)
(* trigger or IOC remainder goes untold, in whatever order a cascade emits *)
(* them.  The orders lost by a modification are the exception, for which   *)
(* the code emits no event (matching_engine.c:498-499).                    *)
EventsTellTheBook ==
  Ready /\ me.dropped = 0 =>
    /\ view.stops = {me.stops[i].id : i \in ActiveStops(me)}
    /\ DOMAIN view.orders \ me.lost = {o.id : o \in me.resting}
    /\ \A o \in me.resting : view.orders[o.id] = o.qty

(* The last BOOK_UPDATED told what me_top_of_book returns now, unless a    *)
(* modification lost an order: every path that changes the best prices     *)
(* compares them with the cached snapshot, and emits                       *)
(* (matching_engine.c:147-163).                                            *)
TopOfBookTold ==
  Ready /\ me.dropped = 0 /\ me.lost = {} => view.tob = me_top_of_book(me)

(* When the cascade has ended, no stop that was dormant before the last    *)
(* trade's aggressor arrived is triggered by the last trade price: the     *)
(* scans that continue with an older price, and those nested in them, miss *)
(* none (check_stops caches last_trade_price, matching_engine.c:185).      *)
NoStopLeftBehind ==
  Idle => \A i \in ActiveStops(me) :
            me.stops[i].id < me.last_taker => ~Triggered(me.stops[i], me.last_trade_price)

(* The recursion of check_stops and me_submit_order is no deeper than the  *)
(* stop pool allows: each nested scan has cost a stop.  (Every level of it *)
(* holds a match_scratch of OB_MAX_ORDERS records on the C stack.)         *)
CascadeBounded ==
  Len(stack) + Cardinality(ActiveStops(me)) <= ME_MAX_STOPS + 1

(* An IOC or FOK order never rests, and a FOK order is filled completely   *)
(* or not at all (matching_engine.h:53-54).                                *)
ImmediateOrdersDoNotRest ==
  \A k \in 1..Len(me.eq) :
    LET ev == me.eq[k] IN
    ev.type \in {"ACCEPTED", "PARTIAL", "FILLED", "CANCELLED"} =>
      /\ ev.order_type \in {"IOC", "FOK"} =>
           ev.type \in {"FILLED", "CANCELLED"} /\ \A o \in me.resting : o.id # ev.id
      /\ ev.order_type = "FOK" => ev.qty_filled = ev.qty_original
==============================================================================
