---------------------------- MODULE PriceTimeBook ----------------------------
(***************************************************************************)
(* The price-time book that engine/orderbook.c implements, with no tree,   *)
(* no queue, no pool and no cached total: a set of resting orders and at   *)
(* most one taker being matched.  A taker trades with the first eligible   *)
(* order in price-time priority, one fill at a time, for as long as one is *)
(* eligible; only then may a remainder rest.  Submission and cancellation  *)
(* are what the header announces (engine/orderbook.h:221-258).             *)
(* Modification is not: it is what the code does (engine/orderbook.c:      *)
(* 696-715), which departs from engine/orderbook.h:260-272 in two ways,    *)
(* named at Modify.  OrderBook implements this specification               *)
(* (OrderBookProps!AbstractBook).                                          *)
(***************************************************************************)
EXTENDS PriceTime

CONSTANTS
  Prices,         \* the prices orders are submitted at
  Qtys,           \* the quantities orders are submitted with
  OB_MAX_ORDERS,  \* live orders in the whole book, the taker included
  OB_MAX_LEVELS,  \* distinct prices per side
  MAX_ID,         \* bound: the last order id handed out
  MAX_TS          \* bound: the last timestamp

VARIABLES
  resting,  \* the resting orders: a set of [id, side, price, qty, ts]
  taker,    \* the orders being matched: {} or one order
  next_id,  \* the id the next accepted order gets
  clock     \* the time of the last entry into a queue

vars == <<resting, taker, next_id, clock>>

Init ==
  /\ resting = {} /\ taker = {}
  /\ next_id = 1  /\ clock = 0

(* A valid order arrives at a book that has room for it. *)
Arrive(s, p, q) ==
  /\ taker = {} /\ next_id <= MAX_ID /\ clock < MAX_TS
  /\ Cardinality(resting) < OB_MAX_ORDERS
  /\ taker' = {[id |-> next_id, side |-> s, price |-> p, qty |-> q, ts |-> clock + 1]}
  /\ next_id' = next_id + 1
  /\ clock' = clock + 1
  /\ UNCHANGED resting

(* One fill, with the first eligible order: both sides lose the same       *)
(* quantity, and a resting order that is left with none leaves the book.   *)
Trade ==
  \E t \in taker, o \in resting :
    LET n == Lesser(t.qty, o.qty) IN
    /\ t.qty > 0
    /\ IsFirst(o, Eligible(resting, t.side, t.price))
    /\ taker' = {[t EXCEPT !.qty = @ - n]}
    /\ resting' = (resting \ {o}) \cup
                  (IF o.qty > n THEN {[o EXCEPT !.qty = @ - n]} ELSE {})
    /\ UNCHANGED <<next_id, clock>>

(* The taker is completely filled and never rests. *)
Filled ==
  /\ \E t \in taker : t.qty = 0
  /\ taker' = {}
  /\ UNCHANGED <<resting, next_id, clock>>

(* Nothing is eligible any more: the remainder rests if its price has, or  *)
(* can have, a level, and is dropped if not.                               *)
RestOrDrop ==
  \E t \in taker :
    /\ t.qty > 0
    /\ Eligible(resting, t.side, t.price) = {}
    /\ resting' = IF HasRoom(resting, t.side, t.price, OB_MAX_LEVELS)
                  THEN resting \cup {t} ELSE resting
    /\ taker' = {}
    /\ UNCHANGED <<next_id, clock>>

Cancel(o) ==
  /\ taker = {}
  /\ resting' = resting \ {o}
  /\ UNCHANGED <<taker, next_id, clock>>

(* engine/orderbook.c:696-715: a modified order goes to the back of the    *)
(* queue of its price, even where only its quantity shrinks (the header,   *)
(* orderbook.h:267, has it keep its priority then); it leaves the book     *)
(* when its new price can have no level (orderbook.h:271 knows a refusal   *)
(* for invalid parameters only).  It is not matched.                       *)
Modify(o, p, q) ==
  LET others == resting \ {o} IN
  /\ taker = {} /\ clock < MAX_TS
  /\ resting' = IF HasRoom(others, o.side, p, OB_MAX_LEVELS)
                THEN others \cup {[o EXCEPT !.price = p, !.qty = q, !.ts = clock + 1]}
                ELSE others
  /\ clock' = clock + 1
  /\ UNCHANGED <<taker, next_id>>

Next ==
  \/ \E s \in Side, p \in Prices, q \in Qtys : Arrive(s, p, q)
  \/ Trade
  \/ Filled
  \/ RestOrDrop
  \/ \E o \in resting : Cancel(o)
  \/ \E o \in resting, p \in Prices, q \in Qtys : Modify(o, p, q)

Spec == Init /\ [][Next]_vars
==============================================================================
