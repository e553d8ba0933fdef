------------------------------ MODULE PriceTime ------------------------------
(***************************************************************************)
(* The vocabulary of one instrument's book (engine/orderbook.h): the two   *)
(* sides, which prices cross, which price is the better one, and which     *)
(* resting order is first in price-time priority.  Constant-level: it has  *)
(* no state, and every module that knows about orders extends it.          *)
(***************************************************************************)
EXTENDS Integers, FiniteSets

Side == {"BID", "ASK"}

(* The side an order of side s trades against. *)
Opp(s) == IF s = "BID" THEN "ASK" ELSE "BID"

(* The price boundary of the fill loop: an aggressor of side s with limit  *)
(* price `limit` may trade with a resting level at price p.                *)
Crosses(s, limit, p) == IF s = "BID" THEN p <= limit ELSE p >= limit

(* Price p is strictly better than r among the RESTING orders of side s:   *)
(* avl_min is the best ask, avl_max the best bid.                          *)
Better(s, p, r) == IF s = "ASK" THEN p < r ELSE p > r

(* No price of the set P is better than p. *)
IsBest(s, p, P) == p \in P /\ \A r \in P : ~Better(s, r, p)

Lesser(a, b) == IF a < b THEN a ELSE b

(* Order o precedes order w of the same side: a better price, or the same  *)
(* price and an earlier time of (re-)entry into the queue.                 *)
Precedes(o, w) ==
  \/ Better(o.side, o.price, w.price)
  \/ o.price = w.price /\ o.ts < w.ts

(* The resting orders of R that a taker of side s and limit `limit` may    *)
(* trade with, and the one it must trade with first.                       *)
Eligible(R, s, limit) == {o \in R : o.side = Opp(s) /\ Crosses(s, limit, o.price)}

IsFirst(o, R) == o \in R /\ \A w \in R : w.side = o.side /\ w # o => Precedes(o, w)

(* The prices at which side s has resting orders, and whether an order at  *)
(* price p can rest when a side may have at most max of them.              *)
PricesOf(R, s) == {o.price : o \in {w \in R : w.side = s}}

HasRoom(R, s, p, max) == p \in PricesOf(R, s) \/ Cardinality(PricesOf(R, s)) < max
==============================================================================
