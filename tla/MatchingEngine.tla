---------------------------- MODULE MatchingEngine ----------------------------
(***************************************************************************)
(* The matching engine of one symbol, engine/matching_engine.c with        *)
(* engine/orders.c: the order types on top of the book, the pool of        *)
(* dormant stop orders and the bounded event queue.                        *)
(*                                                                         *)
(* The book is the abstract price-time book that OrderBook implements: a   *)
(* set of resting orders.  A call of the engine is an operator from the    *)
(* engine before it to the engine after it.  What is not one step is the   *)
(* stop cascade: me_submit_order calls check_stops, which calls            *)
(* me_submit_order for each stop it finds triggered, so that scans are     *)
(* suspended in the middle of the stop pool while others run.  `stack`     *)
(* holds the suspended scans, and FireStop and ScanDone are their steps.   *)
(*                                                                         *)
(* Who calls the engine is left to the modules that extend this one:       *)
(* EngineClient and Pipeline.                                              *)
(***************************************************************************)
EXTENDS PriceTime, Sequences, SequencesExt

CONSTANTS
  MAX_PRICE,           \* INT64_MAX, the limit price of a market buy
  OB_MAX_ORDERS, OB_MAX_LEVELS,
  ME_MAX_STOPS,        \* slots of the stop pool
  ME_EVENT_QUEUE_CAP,  \* slots of the event ring, one of which stays empty
  RootOf(_, _, _, _)   \* the level a rotation or removal leaves at a root, see Grown

ASSUME EngineAssumption ==
  /\ MAX_PRICE \in Nat \ {0}
  /\ OB_MAX_ORDERS \in Nat /\ OB_MAX_LEVELS \in Nat
  /\ ME_MAX_STOPS \in Nat /\ ME_EVENT_QUEUE_CAP \in Nat \ {0}

VARIABLES
  me,     \* the engine, see EngineInit
  stack   \* the calls of check_stops in progress, the innermost last

NoStop == [active |-> FALSE]
NoResult == [status |-> "none", id |-> 0]
Slots == 1..ME_MAX_STOPS
ActiveStops(e) == {i \in Slots : e.stops[i].active}

NoLevels == [BID |-> 0, ASK |-> 0]

(* A root stays when no level came or went, and of two levels there is no  *)
(* rotation.                                                               *)
RootStays(root, before, after) ==
  root \in after /\ (after = before \/ Cardinality(before \cup after) <= 2)

(* The prices at the roots of the trees once the book holds R.  Which      *)
(* level gets to the root of a larger tree depends on its shape, which is  *)
(* not kept: RootOf chooses freely.  Between two entries of the clock the  *)
(* levels of a side only go, and the entry at its end adds one, so no two  *)
(* changes have all four arguments in common: whatever the trees do, some  *)
(* RootOf says so.                                                         *)
Grown(e, R) ==
  [s \in Side |->
     LET before == PricesOf(e.resting, s)
         after == PricesOf(R, s)
         choice == RootOf(e.clock, s, before, after)
     IN  IF after = {} THEN 0
         ELSE IF RootStays(e.roots[s], before, after) THEN e.roots[s]
         ELSE CHOOSE p \in after : choice \in after => p = choice]

(* The book holds R. *)
Holding(e, R) == [e EXCEPT !.resting = R, !.roots = Grown(e, R)]

Total(S) == SumFunction([o \in S |-> o.qty])

(* A side of me_top_of_book: the best price, and the quantity there when   *)
(* it is at the root of its tree: from another root, the walk of ob_depth  *)
(* never gets to it (module AvlTree) and returns 0.                        *)
Best(R, roots, s) ==
  LET first == {o \in R : o.side = s /\ \A w \in R : w.side = s => ~Better(s, w.price, o.price)}
      price == (CHOOSE o \in first : TRUE).price
  IN  IF first = {} THEN [price |-> 0, qty |-> 0]
      ELSE [price |-> price, qty |-> IF roots[s] # price THEN 0 ELSE Total(first)]

TopOf(R, roots) == [bid |-> Best(R, roots, "BID"), ask |-> Best(R, roots, "ASK")]

me_top_of_book(e) == TopOf(e.resting, e.roots)

EmptyTop == TopOf({}, NoLevels)

EngineInit ==
  /\ me = [resting |-> {}, roots |-> NoLevels, next_order_id |-> 1, clock |-> 0,
           stops |-> [i \in Slots |-> NoStop],
           last_trade_price |-> 0,
           last_taker |-> 0,            \* history: aggressor of the last trade
           lost |-> {},                 \* history: orders lost by a modification
           eq |-> <<>>, dropped |-> 0,
           out |-> NoResult,            \* the me_result_t of the client's call
           last_tob |-> EmptyTop]
  /\ stack = <<>>

-----------------------------------------------------------------------------
(* Events.  The ring drops the newest event when it is full. *)

eq_push(e, ev) ==
  IF Len(e.eq) < ME_EVENT_QUEUE_CAP - 1
  THEN [e EXCEPT !.eq = Append(@, ev)]
  ELSE [e EXCEPT !.dropped = @ + 1]

emit_order_event(e, event, id, type, qty, remain, filled) ==
  eq_push(e, [type |-> event, id |-> id, order_type |-> type, qty_original |-> qty,
              qty_remain |-> remain, qty_filled |-> filled])

(* The event of a modification tells the new price as well. *)
emit_modified(e, o, price, qty) ==
  eq_push(e, [type |-> "MODIFIED", id |-> o.id, order_type |-> "LIMIT", price |-> price,
              qty_original |-> o.qty, qty_remain |-> qty, qty_filled |-> 0])

emit_trade(e, id, side, fill) ==
  [eq_push(e, [type |-> "TRADE", id |-> id, side |-> side, resting_id |-> fill.resting_id,
               price |-> fill.price, qty |-> fill.qty])
     EXCEPT !.last_trade_price = fill.price, !.last_taker = id]

(* Mutant: the snapshot that the next top of book is compared with is not  *)
(* taken.                                                                  *)
maybe_emit_tob_Forgets(e) ==
  LET tob == me_top_of_book(e)
  IN  IF tob = e.last_tob THEN e ELSE eq_push(e, [type |-> "BOOK_UPDATED", tob |-> tob])

maybe_emit_tob(e) ==
  LET tob == me_top_of_book(e)
  IN  IF tob = e.last_tob THEN e
      ELSE [eq_push(e, [type |-> "BOOK_UPDATED", tob |-> tob]) EXCEPT !.last_tob = tob]

-----------------------------------------------------------------------------
(* The book's calls. *)

(* A turn of the fill loop, from the resting orders, the quantity left and *)
(* the fills so far.  It changes nothing once the loop has ended.          *)
NextFill(acc, side, price) ==
  LET able == Eligible(acc.resting, side, price)
      o == CHOOSE w \in able : IsFirst(w, able)
      n == Lesser(acc.left, o.qty)
  IN  IF acc.left = 0 \/ able = {} THEN acc
      ELSE [resting |-> (acc.resting \ {o}) \cup
                        (IF o.qty > n THEN {[o EXCEPT !.qty = @ - n]} ELSE {}),
            left |-> acc.left - n,
            fills |-> Append(acc.fills, [resting_id |-> o.id, price |-> o.price, qty |-> n])]

(* The fill loop; it makes at most a turn for each resting order. *)
Match(R, side, price, qty) ==
  LET after[n \in 0..Cardinality(R)] ==
        IF n = 0 THEN [resting |-> R, left |-> qty, fills |-> <<>>]
        ELSE NextFill(after[n - 1], side, price)
  IN  after[Cardinality(R)]

(* ob_add_order: the engine after it, its status, *out_id and the fills. *)
ob_add_order(e, side, price, qty) ==
  LET id == e.next_order_id
      m == Match(e.resting, side, price, qty)
      rest == [id |-> id, side |-> side, price |-> price, qty |-> m.left, ts |-> e.clock + 1]
      room == HasRoom(m.resting, side, price, OB_MAX_LEVELS)
      after(R) == [Holding(e, R) EXCEPT !.next_order_id = @ + 1, !.clock = @ + 1]
  IN
  IF Cardinality(e.resting) >= OB_MAX_ORDERS
  THEN [e |-> e, st |-> "REJECTED", id |-> 0, fills |-> <<>>]
  ELSE [e |-> after(IF m.left > 0 /\ room THEN m.resting \cup {rest} ELSE m.resting),
        st |-> IF m.left > 0 /\ ~room THEN "REJECTED" ELSE "OK",
        id |-> id, fills |-> m.fills]

(* Mutant: the cancelled order stays in the book. *)
ob_cancel_order_Keeps(e, id) == e

ob_cancel_order(e, id) == Holding(e, {o \in e.resting : o.id # id})

-----------------------------------------------------------------------------
(* orders_preprocess *)

(* Mutant: all of the opposite side counts, not what the limit reaches. *)
orders_fok_check_WholeSide(R, side, price, qty) ==
  Total({o \in R : o.side = Opp(side)}) >= qty

(* The opposite quantity within the limit covers the order. *)
orders_fok_check(R, side, price, qty) == Total(Eligible(R, side, price)) >= qty

orders_market_sentinel(side) == IF side = "BID" THEN MAX_PRICE ELSE 1

(* The order types' checks on price and liquidity (a zero quantity and an  *)
(* unknown side or type are refused in the same way).                      *)
Accepts(R, type, side, price, qty) ==
  CASE type = "MARKET" -> price = 0
    [] type = "FOK" -> price > 0 /\ orders_fok_check(R, side, price, qty)
    [] OTHER -> price > 0

-----------------------------------------------------------------------------
(* me_submit_order up to its call of check_stops: the engine after it, and *)
(* whether that call is made.                                              *)

Refused(e, type, qty) ==
  maybe_emit_tob(emit_order_event(e, "REJECTED", 0, type, qty, qty, 0))

(* The lifecycle event of step 5, `left` being what is left after step 4. *)
Lifecycle(e, st, id, type, qty, left, filled) ==
  CASE st = "REJECTED" -> emit_order_event(e, "REJECTED", id, type, qty, qty, 0)
    [] st # "REJECTED" /\ left = 0 -> emit_order_event(e, "FILLED", id, type, qty, 0, filled)
    [] st # "REJECTED" /\ left > 0 /\ filled > 0 ->
         emit_order_event(e, "PARTIAL", id, type, qty, left, filled)
    [] st # "REJECTED" /\ left > 0 /\ filled = 0 ->
         emit_order_event(e, "ACCEPTED", id, type, qty, qty, 0)

(* out->status at the end of step 5.  A book that is full (or a side that  *)
(* can have no further level) leaves it at the 0 it was cleared to, which  *)
(* is OB_STATUS_OK.                                                        *)
SubmitStatus(st, left, filled) ==
  CASE st = "REJECTED" -> "OK"
    [] st # "REJECTED" /\ left = 0 -> "FILLED"
    [] st # "REJECTED" /\ left > 0 -> IF filled > 0 THEN "PARTIAL" ELSE "OK"

(* Step 4 applies: an IOC order that has an id and is not filled. *)
KillsRemainder(type, id, left) == type = "IOC" /\ left > 0 /\ id # 0

(* Steps 4 and 5, after the trades have been emitted: b is what the book   *)
(* returned.                                                               *)
Settle(traded, b, filled, type, qty) ==
  LET kills == KillsRemainder(type, b.id, qty - filled)
      killed == emit_order_event(ob_cancel_order(traded, b.id),
                                 "CANCELLED", b.id, type, qty, 0, filled)
      left == IF kills THEN 0 ELSE qty - filled
  IN
  [e |-> maybe_emit_tob(Lifecycle(IF kills THEN killed ELSE traded,
                                  b.st, b.id, type, qty, left, filled)),
   scan |-> b.fills # <<>>,
   out |-> [status |-> SubmitStatus(b.st, left, filled), id |-> b.id]]

(* Step 3: the fills are told and added up. *)
NextTrade(acc, id, side, fill) ==
  [e |-> emit_trade(acc.e, id, side, fill), filled |-> acc.filled + fill.qty]

TradesTold(b, side) ==
  LET after[n \in 0..Len(b.fills)] ==
        IF n = 0 THEN [e |-> b.e, filled |-> 0]
        ELSE NextTrade(after[n - 1], b.id, side, b.fills[n])
  IN  after[Len(b.fills)]

(* Steps 3 to 5. *)
Booked(b, type, side, qty) ==
  Settle(TradesTold(b, side).e, b, TradesTold(b, side).filled, type, qty)

me_submit_order(e, type, side, price, qty) ==
  IF Accepts(e.resting, type, side, price, qty)
  THEN Booked(ob_add_order(e, side, IF type = "MARKET" THEN orders_market_sentinel(side) ELSE price,
                           qty),
              type, side, qty)
  ELSE [e |-> Refused(e, type, qty), scan |-> FALSE, out |-> [status |-> "REJECTED", id |-> 0]]

(* A call of check_stops: it remembers the last trade price it was called  *)
(* with and the slot it looks at next.                                     *)
Scan(e) == [ltp |-> e.last_trade_price, i |-> 1]

(* Mutant: the scan called for a triggered stop starts where the suspended *)
(* one stands.                                                             *)
Called_FromHere(calls, r) ==
  IF r.scan THEN Append(calls, [Scan(r.e) EXCEPT !.i = IF calls = <<>> THEN 1 ELSE Last(calls).i])
  ELSE calls

(* The calls in progress once the result r of me_submit_order is known. *)
Called(calls, r) == IF r.scan THEN Append(calls, Scan(r.e)) ELSE calls

-----------------------------------------------------------------------------
(* The other calls. *)

(* me_submit_stop takes an id from the book's sequence and stores the stop *)
(* in the first free slot; it does not look at the last trade price.  Stop *)
(* parameters that are not `valid`, or a full pool, are refused.           *)
ValidStop(type, trigger, limit) == trigger > 0 /\ (type = "STOP" <=> limit = 0)

me_submit_stop(e, type, side, trigger, limit, qty, ttl) ==
  LET free == Slots \ ActiveStops(e)
      slot == CHOOSE i \in free : \A j \in free : i <= j
      stop == [active |-> TRUE, id |-> e.next_order_id, side |-> side, orig_type |-> type,
               trigger |-> trigger, limit |-> limit, qty |-> qty, ttl |-> ttl]
  IN
  IF ValidStop(type, trigger, limit) /\ free # {}
  THEN emit_order_event([e EXCEPT !.stops[slot] = stop, !.next_order_id = @ + 1,
                                  !.out = [status |-> "OK", id |-> stop.id]],
                        "ACCEPTED", stop.id, type, qty, qty, 0)
  ELSE emit_order_event([e EXCEPT !.out = [status |-> "REJECTED", id |-> 0]],
                        "REJECTED", 0, type, qty, qty, 0)

Deactivate(e, i) == [e EXCEPT !.stops[i] = NoStop]

(* Taking slot i's stop out of the pool, with its event. *)
WithdrawStop(e, i) ==
  emit_order_event(Deactivate(e, i), "CANCELLED",
                   e.stops[i].id, e.stops[i].orig_type, e.stops[i].qty, 0, 0)

me_cancel_stop(e, id) ==
  LET at == {i \in ActiveStops(e) : e.stops[i].id = id}
  IN  IF at = {} THEN e ELSE WithdrawStop(e, CHOOSE i \in at : TRUE)

(* me_expire_orders: the stops whose time has come, in slot order.  No     *)
(* resting order has an expiry time: orders_preprocess leaves it 0.        *)
me_expire_orders(e, due) ==
  LET after[n \in 0..ME_MAX_STOPS] ==
        IF n = 0 THEN e
        ELSE IF n \in due THEN WithdrawStop(after[n - 1], n) ELSE after[n - 1]
  IN  maybe_emit_tob(after[ME_MAX_STOPS])

(* me_cancel_order.  (The quantity the order was submitted with, which the *)
(* events of a cancel and a modify repeat, is not kept in the model.)      *)
me_cancel_order(e, o) ==
  maybe_emit_tob(emit_order_event(ob_cancel_order(e, o.id),
                                  "CANCELLED", o.id, "LIMIT", o.qty, 0, o.qty))

(* ob_modify_order fails, without an event, when the new price can have no *)
(* level; the order has left the book by then.                             *)
me_modify_order(e, o, price, qty) ==
  LET removed == ob_cancel_order(e, o.id)
      others == removed.resting
      new == [o EXCEPT !.price = price, !.qty = qty, !.ts = e.clock + 1]
  IN
  IF HasRoom(others, o.side, price, OB_MAX_LEVELS)
  THEN maybe_emit_tob(emit_modified([Holding(removed, others \cup {new}) EXCEPT !.clock = @ + 1],
                                    o, price, qty))
  ELSE [removed EXCEPT !.clock = @ + 1, !.lost = @ \cup {o.id}]

-----------------------------------------------------------------------------
(* The cascade. *)

(* The engine goes on with the result r of me_submit_order. *)
GoOn(calls, r) == me' = r.e /\ stack' = Called(calls, r)

Triggered(s, ltp) == IF s.side = "BID" THEN ltp >= s.trigger ELSE ltp <= s.trigger

(* What a scan still has to fire, by the price it was called with. *)
Hits(scan) ==
  {i \in Slots : scan.i <= i /\ me.stops[i].active /\ Triggered(me.stops[i], scan.ltp)}

(* Mutant: the stop is still in the pool when it re-enters as an order. *)
Disarm_Never(e, i) == e

(* The stop is disarmed before its order is submitted. *)
Disarm(e, i) == Deactivate(e, i)

(* The innermost scan fires the first stop it finds triggered: the stop    *)
(* leaves the pool and re-enters under a new id as a market order or as a  *)
(* limit order at its saved price.                                         *)
Fire(i, scan) ==
  LET s == me.stops[i]
      armed == emit_order_event(Disarm(me, i), "STOP_TRIGGERED",
                                s.id, s.orig_type, s.qty, s.qty, 0)
  IN  GoOn(Append(Front(stack), [scan EXCEPT !.i = i + 1]),
           me_submit_order(armed, IF s.orig_type = "STOP" THEN "MARKET" ELSE "LIMIT",
                           s.side, s.limit, s.qty))

FireStop ==
  /\ stack # <<>>
  /\ \E i \in Hits(Last(stack)) :
       /\ \A k \in Hits(Last(stack)) : i <= k
       /\ Fire(i, Last(stack))

(* The innermost scan reaches the end of the pool and returns. *)
ScanDone ==
  /\ stack # <<>> /\ Hits(Last(stack)) = {}
  /\ stack' = Front(stack)
  /\ UNCHANGED me

Cascade == FireStop \/ ScanDone

Idle == stack = <<>>
==============================================================================
