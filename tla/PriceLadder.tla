----------------------------- MODULE PriceLadder -----------------------------
(***************************************************************************)
(* What the price levels of one side of a book are for: the quantity that  *)
(* rests at each price, and what the rest of the program asks of it -      *)
(* the best price, the best levels in order, the quantity within a range   *)
(* of the best price and the quantity a limit price can reach.  The AVL    *)
(* tree of levels (module AvlTree) implements it.                          *)
(***************************************************************************)
EXTENDS Naturals, FiniteSets, FiniteSetsExt

CONSTANTS
  Prices,  \* the prices orders rest at: positive, 0 says "no price"
  Lots,    \* the quantities orders have
  MAX_QTY  \* bound: the most that rests at each price

VARIABLE qty  \* the quantity resting at each price

Init == qty = [p \in Prices |-> 0]

(* An order comes to rest at price p. *)
Rest(p, q) ==
  /\ qty[p] + q <= MAX_QTY[p]
  /\ qty' = [qty EXCEPT ![p] = @ + q]

(* An order, or what a fill took of it, leaves price p. *)
Take(p, q) ==
  /\ q <= qty[p]
  /\ qty' = [qty EXCEPT ![p] = @ - q]

(* An order is modified to another price. *)
Move(p, to, q) ==
  /\ p # to /\ q <= qty[p] /\ qty[to] + q <= MAX_QTY[to]
  /\ qty' = [qty EXCEPT ![p] = @ - q, ![to] = @ + q]

(* The book is destroyed. *)
Clear == qty' = [p \in Prices |-> 0]

Next ==
  \/ Clear
  \/ \E p \in Prices, q \in Lots :
       Rest(p, q) \/ Take(p, q) \/ \E to \in Prices : Move(p, to, q)

Spec == Init /\ [][Next]_qty

----------------------------------------------------------------------------
(* The queries.  Better(side, p, r): an order of side prefers price p to r *)
(* as the price of its counterpart's level: the highest bid, the lowest    *)
(* ask.                                                                    *)
----------------------------------------------------------------------------

Levels == {p \in Prices : qty[p] > 0}

Better(side, p, r) == IF side = "bid" THEN p > r ELSE p < r

(* The i-th best level: i - 1 levels are better. *)
Ranked(side, i) ==
  CHOOSE p \in Levels : Cardinality({r \in Levels : Better(side, r, p)}) = i - 1

Best(side) == IF Levels = {} THEN 0 ELSE Ranked(side, 1)

TotalAt(S) == MapThenSumSet(LAMBDA p : qty[p], S)

Within(side, range) ==
  IF Levels = {} THEN 0
  ELSE TotalAt({p \in Levels : IF side = "bid" THEN p + range >= Best(side)
                                               ELSE p <= Best(side) + range})

Top(side, depth) ==
  [i \in 1..Min({depth, Cardinality(Levels)}) |-> <<Ranked(side, i), qty[Ranked(side, i)]>>]

(* What an order with this limit can trade with on this side. *)
Reachable(side, limit) ==
  TotalAt({p \in Levels : p = limit \/ Better(side, p, limit)})
==============================================================================
