------------------------------- MODULE AvlTree -------------------------------
(***************************************************************************)
(* The AVL tree of price levels (engine/orderbook.c:169-344, 722-842): one *)
(* side of a book, its nodes in a pool of slots that link to each other by *)
(* index.  Every operation that walks the tree is here, in its recursive   *)
(* form; the tree surgery of a submission, a cancel, a fill, a             *)
(* modification and of destroying the book are the actions.  A level's     *)
(* queue (head, tail, count and total) is abstracted to its quantity; the  *)
(* module OrderBook has the queues and abstracts the tree to the set of    *)
(* its prices.                                                             *)
(*                                                                         *)
(* A tree under surgery is a record T of the slots' contents (pool), the   *)
(* unused slots (free) and a root, so that a C function that changes the   *)
(* pool and returns a new root is an operator from T to T.                 *)
(***************************************************************************)
EXTENDS Integers, Sequences, FiniteSets, FiniteSetsExt, SequencesExt

CONSTANTS
  Slots,    \* the slots of the level pool
  OB_NULL_IDX,
  Prices,   \* the prices orders rest at
  Lots,     \* the quantities orders have
  MAX_QTY   \* bound: the most that rests at each price

ASSUME AvlAssumption ==
  /\ IsFiniteSet(Slots) /\ OB_NULL_IDX \notin Slots
  /\ Prices \subseteq Nat \ {0}
  /\ Lots \subseteq Nat \ {0} /\ MAX_QTY \in [Prices -> Nat]

VARIABLES
  pool,  \* what each slot holds; what an unused slot holds is stale
  free,  \* the stack of unused slots
  root   \* the root of the tree

vars == <<pool, free, root>>

(* The contents of a slot. *)
Node == [price : Prices \cup {0}, qty : Nat, height : Nat,
         left : Slots \cup {OB_NULL_IDX}, right : Slots \cup {OB_NULL_IDX}]

Empty == [price |-> 0, qty |-> 0, height |-> 0,
          left |-> OB_NULL_IDX, right |-> OB_NULL_IDX]

T == [pool |-> pool, free |-> free, root |-> root]

----------------------------------------------------------------------------
(* Heights and rotations.  dir is "left" or "right"; the two mirrored C    *)
(* functions are one operator.                                             *)
----------------------------------------------------------------------------

Opposite(dir) == IF dir = "left" THEN "right" ELSE "left"

avl_height(t, i) == IF i = OB_NULL_IDX THEN 0 ELSE t.pool[i].height

avl_balance(t, i) ==
  IF i = OB_NULL_IDX THEN 0
  ELSE avl_height(t, t.pool[i].left) - avl_height(t, t.pool[i].right)

avl_update_height(t, i) ==
  [t EXCEPT !.pool[i].height =
     1 + Max({avl_height(t, t.pool[i].left), avl_height(t, t.pool[i].right)})]

(* A rotation that computes the height of the new top before the node that *)
(* moved below it.                                                         *)
Rotated_TopFirst(t, i, dir) ==
  LET up == t.pool[i][Opposite(dir)]
      moved == [t EXCEPT !.pool[i][Opposite(dir)] = t.pool[up][dir],
                         !.pool[up][dir] = i,
                         !.root = up]
  IN avl_update_height(avl_update_height(moved, up), i)

Rotated(t, i, dir) ==
  LET up == t.pool[i][Opposite(dir)]
      moved == [t EXCEPT !.pool[i][Opposite(dir)] = t.pool[up][dir],
                         !.pool[up][dir] = i,
                         !.root = up]
  IN avl_update_height(avl_update_height(moved, i), up)

(* Replacing a child of node i by the tree t was made into. *)
Under(t, i, dir) == [t EXCEPT !.pool[i][dir] = t.root, !.root = i]

(* The end of avl_insert and avl_remove: the height of the root, then one  *)
(* or two rotations.  inner says whether the child on the heavy side leans *)
(* the other way, which insertion reads off the price and removal off the  *)
(* child's balance.                                                        *)
Rebalanced(t, inner(_, _, _)) ==
  LET i == t.root
      u == avl_update_height(t, i)
      b == avl_balance(u, i)
      heavy == IF b > 1 THEN "left" ELSE "right"
      child == u.pool[i][heavy]
  IN IF b \in -1..1 THEN u
     ELSE IF inner(u, child, heavy)
     THEN Rotated(Under(Rotated(u, child, heavy), i, heavy), i, Opposite(heavy))
     ELSE Rotated(u, i, Opposite(heavy))

----------------------------------------------------------------------------
(* Insertion, search and removal.                                          *)
----------------------------------------------------------------------------

Towards(t, i, price) == IF price < t.pool[i].price THEN "left" ELSE "right"

RECURSIVE avl_insert(_, _)
avl_insert(t, node) ==
  LET np == t.pool[node].price
      dir == Towards(t, t.root, np)
      Zigzag(u, child, heavy) == Towards(u, child, np) # heavy
  IN IF t.root = OB_NULL_IDX THEN [t EXCEPT !.root = node]
     ELSE IF np = t.pool[t.root].price THEN t
     ELSE Rebalanced(Under(avl_insert([t EXCEPT !.root = t.pool[t.root][dir]], node),
                           t.root, dir), Zigzag)

RECURSIVE avl_end(_, _, _)
avl_end(t, i, dir) ==
  IF i = OB_NULL_IDX \/ t.pool[i][dir] = OB_NULL_IDX THEN i
  ELSE avl_end(t, t.pool[i][dir], dir)

avl_min(t, i) == avl_end(t, i, "left")
avl_max(t, i) == avl_end(t, i, "right")

RECURSIVE avl_find(_, _, _)
avl_find(t, i, price) ==
  IF i = OB_NULL_IDX \/ t.pool[i].price = price THEN i
  ELSE avl_find(t, t.pool[i][Towards(t, i, price)], price)

level_pool_free(t, i) == [t EXCEPT !.free = Append(@, i)]

(* A takeover that leaves the queue behind. *)
TakeOver_PriceOnly(t, i, succ) == [t EXCEPT !.pool[i].price = t.pool[succ].price]

(* A node with two children is not unlinked: it takes over the contents of *)
(* its successor, whose slot is freed instead.                             *)
TakeOver(t, i, succ) ==
  [t EXCEPT !.pool[i].price = t.pool[succ].price, !.pool[i].qty = t.pool[succ].qty]

LeansIn_Never(t, child, heavy) == FALSE

(* On removal, the child of the heavy side leans inwards. *)
LeansIn(t, child, heavy) ==
  IF heavy = "left" THEN avl_balance(t, child) < 0 ELSE avl_balance(t, child) > 0

RECURSIVE avl_remove(_, _)
avl_remove(t, price) ==
  LET i == t.root
      dir == Towards(t, i, price)
      succ == avl_min(t, t.pool[i].right)
      Child(d) == [t EXCEPT !.root = t.pool[i][d]]
  IN IF i = OB_NULL_IDX THEN t
     ELSE IF price # t.pool[i].price
     THEN Rebalanced(Under(avl_remove(Child(dir), price), i, dir), LeansIn)
     ELSE IF t.pool[i].left = OB_NULL_IDX
     THEN level_pool_free(Child("right"), i)
     ELSE IF t.pool[i].right = OB_NULL_IDX
     THEN level_pool_free(Child("left"), i)
     ELSE Rebalanced(Under(avl_remove([TakeOver(t, i, succ) EXCEPT !.root = t.pool[i].right],
                                      t.pool[succ].price), i, "right"), LeansIn)

RECURSIVE avl_free_all(_, _)
avl_free_all(t, i) ==
  IF i = OB_NULL_IDX THEN t
  ELSE level_pool_free(avl_free_all(avl_free_all(t, t.pool[i].left), t.pool[i].right), i)

----------------------------------------------------------------------------
(* The queries.  far is the child with the prices that are better for the  *)
(* side: a bid's right child, an ask's left one.                           *)
----------------------------------------------------------------------------

far(side) == IF side = "bid" THEN "right" ELSE "left"

Price(t, i) == IF i = OB_NULL_IDX THEN 0 ELSE t.pool[i].price

ob_best(t, side) ==
  Price(t, IF side = "bid" THEN avl_max(t, t.root) ELSE avl_min(t, t.root))

(* The walk of ob_depth: it leaves out the far child of a level that is    *)
(* out of range, and always descends to the other one.                     *)
RECURSIVE depth_in_tree(_, _, _, _, _)
depth_in_tree(t, i, side, limit, range) ==
  LET p == t.pool[i].price
      inside == IF side = "bid" THEN p >= limit - range ELSE p <= limit + range
      Child(dir) == depth_in_tree(t, t.pool[i][dir], side, limit, range)
  IN IF i = OB_NULL_IDX THEN 0
     ELSE Child(Opposite(far(side)))
          + (IF inside THEN t.pool[i].qty + Child(far(side)) ELSE 0)

ob_depth(t, side, range) ==
  IF ob_best(t, side) = 0 THEN 0
  ELSE depth_in_tree(t, t.root, side, ob_best(t, side), range)

(* collect_asc and collect_desc, the better prices first. *)
RECURSIVE collect(_, _, _)
collect(t, i, side) ==
  IF i = OB_NULL_IDX THEN <<>>
  ELSE collect(t, t.pool[i][far(side)], side)
       \o <<<<t.pool[i].price, t.pool[i].qty>>>>
       \o collect(t, t.pool[i][Opposite(far(side))], side)

ob_top_levels(t, side, depth) ==
  LET all == collect(t, t.root, side) IN SubSeq(all, 1, Min({depth, Len(all)}))

(* fok_sum_asc and fok_sum_desc: the quantity of the levels that an order  *)
(* with this limit reaches, better prices first, until it covers what is   *)
(* needed.  side is that of the tree, opposite to the order's.             *)
RECURSIVE fok_sum(_, _, _, _, _, _)
fok_sum(t, i, side, limit, need, accum) ==
  LET p == t.pool[i].price
      beyond == IF side = "bid" THEN p < limit ELSE p > limit
      better == fok_sum(t, t.pool[i][far(side)], side, limit, need, accum)
      here == better + t.pool[i].qty
  IN IF i = OB_NULL_IDX \/ accum >= need THEN accum
     ELSE IF beyond THEN better
     ELSE IF here >= need THEN here
     ELSE fok_sum(t, t.pool[i][Opposite(far(side))], side, limit, need, here)

(* A walk that takes a level beyond the limit for the end of the side.     *)
RECURSIVE fok_sum_StopsBeyond(_, _, _, _, _, _)
fok_sum_StopsBeyond(t, i, side, limit, need, accum) ==
  LET p == t.pool[i].price
      beyond == IF side = "bid" THEN p < limit ELSE p > limit
      better == fok_sum_StopsBeyond(t, t.pool[i][far(side)], side, limit, need, accum)
      here == better + t.pool[i].qty
  IN IF i = OB_NULL_IDX \/ accum >= need \/ beyond THEN accum
     ELSE IF here >= need THEN here
     ELSE fok_sum_StopsBeyond(t, t.pool[i][Opposite(far(side))], side, limit, need, here)

orders_fok_check_StopsBeyond(t, side, limit, qty) ==
  fok_sum_StopsBeyond(t, t.root, side, limit, qty, 0) >= qty

orders_fok_check(t, side, limit, qty) == fok_sum(t, t.root, side, limit, qty, 0) >= qty

----------------------------------------------------------------------------
(* The tree surgery of the book's calls.                                   *)
----------------------------------------------------------------------------

(* An allocation that leaves the slot on the stack.                        *)
level_new_Peeks(t, price) ==
  [t EXCEPT !.pool[Last(t.free)] = [Empty EXCEPT !.price = price, !.height = 1]]

(* The slot on top of the free stack, initialised for a price. *)
level_new(t, price) ==
  [t EXCEPT !.free = Front(@),
            !.pool[Last(t.free)] = [Empty EXCEPT !.price = price, !.height = 1]]

Deposit(t, i, q) == [t EXCEPT !.pool[i].qty = @ + q]

(* Quantity q comes to rest at a price.  With no level and no slot left it *)
(* is dropped, as the order it belongs to is.                              *)
Deposited(t, price, q) ==
  LET i == avl_find(t, t.root, price)
  IN IF i # OB_NULL_IDX THEN Deposit(t, i, q)
     ELSE IF t.free = <<>> THEN t
     ELSE Deposit(avl_insert(level_new(t, price), Last(t.free)), Last(t.free), q)

(* A level that leaves the tree with the first order that leaves it.       *)
Withdrawn_Removes(t, price, q) == avl_remove(t, price)

(* Quantity q leaves a price; a level left empty leaves the tree.          *)
Withdrawn(t, price, q) ==
  LET i == avl_find(t, t.root, price)
      u == [t EXCEPT !.pool[i].qty = @ - q]
  IN IF u.pool[i].qty = 0 THEN avl_remove(u, price) ELSE u

(* A move that looks up the level of the new price first: when the old     *)
(* level has left the tree it may be in another slot.                      *)
Moved_FindsFirst(t, price, to, q) ==
  LET i == avl_find(t, t.root, to)
  IN IF i = OB_NULL_IDX THEN Deposited(Withdrawn(t, price, q), to, q)
     ELSE Deposit(Withdrawn(t, price, q), i, q)

Moved(t, price, to, q) == Deposited(Withdrawn(t, price, q), to, q)

Becomes(t) == pool' = t.pool /\ free' = t.free /\ root' = t.root

Held(t, price) ==
  LET i == avl_find(t, t.root, price) IN IF i = OB_NULL_IDX THEN 0 ELSE t.pool[i].qty

Resting(price) == Held(T, price)

Init ==
  /\ pool = [s \in Slots |-> Empty]
  /\ free = SetToSeq(Slots)
  /\ root = OB_NULL_IDX

(* ob_add_order, where the remainder comes to rest. *)
Rest(p, q) == Resting(p) + q <= MAX_QTY[p] /\ Becomes(Deposited(T, p, q))

(* ob_cancel_order, and each fill of the matching loop. *)
Take(p, q) == q <= Resting(p) /\ Becomes(Withdrawn(T, p, q))

(* ob_modify_order. *)
Move(p, to, q) ==
  /\ p # to /\ q <= Resting(p) /\ Resting(to) + q <= MAX_QTY[to]
  /\ Becomes(Moved(T, p, to, q))

(* ob_destroy. *)
Destroy == Becomes([avl_free_all(T, root) EXCEPT !.root = OB_NULL_IDX])

Next ==
  \/ Destroy
  \/ \E p \in Prices, q \in Lots :
       Rest(p, q) \/ Take(p, q) \/ \E to \in Prices : Move(p, to, q)

Spec == Init /\ [][Next]_vars
==============================================================================
