---------------------------- MODULE AvlTreeProps ----------------------------
(***************************************************************************)
(* What the tree of price levels must be.                                  *)
(***************************************************************************)
EXTENDS AvlTree

Sides == {"bid", "ask"}

(* The slots of the tree whose root is node i. *)
RECURSIVE Below(_)
Below(i) == IF i = OB_NULL_IDX THEN {} ELSE {i} \cup Below(pool[i].left) \cup Below(pool[i].right)

(* The tree without the names of its slots, for TLC's VIEW. *)
RECURSIVE Shape(_)
Shape(i) ==
  IF i = OB_NULL_IDX THEN <<>>
  ELSE <<pool[i].price, pool[i].qty, pool[i].height, Shape(pool[i].left), Shape(pool[i].right)>>

View == <<Shape(root), Len(free)>>

----------------------------------------------------------------------------

(* Every slot holds a node, and is either on the free stack or in the      *)
(* tree: insertion, removal by taking over the successor and destruction   *)
(* neither leak a level nor free one that is in use.                       *)
TypeOK ==
  /\ pool \in [Slots -> Node] /\ root \in Slots \cup {OB_NULL_IDX}
  /\ Range(free) = Slots \ Below(root) /\ IsInjective(free)

(* The slots that are not free are a search tree of nonempty levels,       *)
(* balanced, and the stored heights that the rotations go by are the real  *)
(* ones (orderbook.c:72-83, 178-299, 313-326).                             *)
SearchTree ==
  /\ TypeOK
  /\ \A i \in Below(root) :
       LET l == pool[i].left
           r == pool[i].right
       IN /\ pool[i].qty > 0
          /\ \A j \in Below(l) : pool[j].price < pool[i].price
          /\ \A j \in Below(r) : pool[j].price > pool[i].price
          /\ avl_balance(T, i) \in -1..1
          /\ pool[i].height = 1 + Max({avl_height(T, l), avl_height(T, r)})

(* Seen through avl_find the tree is the ladder of quantities by price: a  *)
(* call changes the price it is about and no other, although levels change *)
(* their slot when a removed level takes over its successor                *)
(* (orderbook.c:284-290, 600-615, 700-712).                                *)
Ladder == INSTANCE PriceLadder WITH qty <- [p \in Prices |-> Resting(p)]
LadderSpec == Ladder!Spec

(* An order that is modified to another price arrives there, unless that   *)
(* price has no level and no slot is left for one: the level of the new    *)
(* price is not looked up before the old level, leaving the tree, may have *)
(* moved it to another slot (orderbook.c:682-712).                         *)
MoveArrives ==
  \A p, to \in Prices, q \in Lots :
    p # to /\ q <= Resting(p) =>
      \/ Held(Moved(T, p, to, q), to) = Resting(to) + q
      \/ Resting(to) = 0 /\ Withdrawn(T, p, q).free = <<>>

(* The walks of the best-price, top-levels and fill-or-kill queries, with  *)
(* their pruning and early exits, return for every depth, limit and        *)
(* quantity what the ladder holds (orderbook.c:725-742, 803-842,           *)
(* orders.c:119-183).                                                      *)
QueriesAgree ==
  \A side \in Sides :
    /\ ob_best(T, side) = Ladder!Best(side)
    /\ \A depth \in 0..Cardinality(Slots) : ob_top_levels(T, side, depth) = Ladder!Top(side, depth)
    /\ \A limit \in Prices, need \in 1..(MapThenSumSet(LAMBDA p : MAX_QTY[p], Prices)) :
         orders_fok_check(T, side, limit, need) <=> Ladder!Reachable(side, limit) >= need

(* orderbook.h:304-305 of ob_depth: "total resting qty on the given side   *)
(* within `price_range` ticks of the best price".  The walk skips the side *)
(* of an out-of-range level on which the levels in range are.              *)
DepthIsWithinRange ==
  \A side \in Sides, range \in {0} \cup Prices :
    ob_depth(T, side, range) = Ladder!Within(side, range)
==============================================================================
