------------------------------ MODULE Portfolio ------------------------------
(***************************************************************************)
(* One account's portfolio, pipeline/portfolio.c: cash, position, average  *)
(* price and realised profit, and the reservation before an order enters.  *)
(***************************************************************************)
EXTENDS Integers

Abs(n) == IF n < 0 THEN -n ELSE n

portfolio_init(max_position, max_order_notional) ==
  [cash |-> 0, net_qty |-> 0, avg_price |-> 0, realised_pnl |-> 0,
   open_buy_notional |-> 0, open_sell_qty |-> 0,
   max_position |-> max_position, max_order_notional |-> max_order_notional]

Signed(side, qty) == IF side = "BID" THEN qty ELSE -qty

(* A fill extends the position when there is none or it has the same sign. *)
Extends(p, side) == p.net_qty = 0 \/ (p.net_qty > 0) = (side = "BID")

(* The average price and the realised profit after a fill that extends ... *)
Extended(p, price, qty) ==
  [p EXCEPT !.avg_price = (@ * Abs(p.net_qty) + price * qty) \div (Abs(p.net_qty) + qty)]

(* Mutant: a position that flips keeps the average price of the closed one. *)
Closing_KeepsAverage(p, price, qty) ==
  LET closed == IF qty < Abs(p.net_qty) THEN qty ELSE Abs(p.net_qty)
  IN  [p EXCEPT !.realised_pnl = @ + Signed(IF p.net_qty > 0 THEN "BID" ELSE "ASK",
                                            price - p.avg_price) * closed,
                !.avg_price = IF qty = Abs(p.net_qty) THEN 0 ELSE @]

(* ... and after one that reduces, closes or flips the position. *)
Closing(p, price, qty) ==
  LET closed == IF qty < Abs(p.net_qty) THEN qty ELSE Abs(p.net_qty)
  IN  [p EXCEPT !.realised_pnl = @ + Signed(IF p.net_qty > 0 THEN "BID" ELSE "ASK",
                                            price - p.avg_price) * closed,
                !.avg_price = IF qty = Abs(p.net_qty) THEN 0
                              ELSE IF qty > Abs(p.net_qty) THEN price ELSE @]

portfolio_on_fill(p, side, price, qty) ==
  [IF Extends(p, side) THEN Extended(p, price, qty) ELSE Closing(p, price, qty)
     EXCEPT !.cash = @ - Signed(side, price * qty),
            !.net_qty = @ + Signed(side, qty)]

(* portfolio_reserve refuses an order that alone would breach a limit (0   *)
(* is no limit); nothing of what it reserves is looked at or given back.   *)
CanReserve(p, side, price, qty) ==
  /\ p.max_order_notional > 0 => price * qty <= p.max_order_notional
  /\ p.max_position > 0 => Abs(p.net_qty + Signed(side, qty)) <= p.max_position

portfolio_reserve(p, side, price, qty) ==
  IF side = "BID" THEN [p EXCEPT !.open_buy_notional = @ + price * qty]
  ELSE [p EXCEPT !.open_sell_qty = @ + qty]
==============================================================================
