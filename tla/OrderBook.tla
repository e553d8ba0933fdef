------------------------------ MODULE OrderBook ------------------------------
(***************************************************************************)
(* One limit order book, engine/orderbook.c.  Every order occupies a slot  *)
(* of a fixed pool; resting orders hang in the FIFO queue of a price level *)
(* and are found again through the id lookup; the levels of a side hang in *)
(* an AVL tree (here: the set of its prices).  Totals and counts are       *)
(* cached next to the structures they summarise.                           *)
(*                                                                         *)
(* ob_add_order is several steps: the call enters, each iteration of the   *)
(* fill loop is a step, and the call returns.  No other call is served in  *)
(* between (the callers serialise).  ob_cancel_order and ob_modify_order   *)
(* have no loop and are one step each.                                     *)
(*                                                                         *)
(* A definition introduced as "Mutant" is not part of the specification:   *)
(* it is the definition after it with a plausible mistake, and a run's     *)
(* property must fail when it takes that definition's place.               *)
(***************************************************************************)
EXTENDS PriceTime, FiniteSets, Sequences

CONSTANTS
  Prices,         \* the positive prices callers use
  Qtys,           \* the positive quantities callers use
  OB_MAX_ORDERS,  \* slots of the order pool
  OB_MAX_LEVELS,  \* levels per side; the level pool has twice as many slots
  MAX_ID,         \* bound on next_order_id: the orders submitted in a run
  MAX_TS          \* bound on the clock: the add and modify calls in a run

ASSUME BookAssumption ==
  /\ IsFiniteSet(Prices) /\ Prices \subseteq Nat \ {0}
  /\ Qtys \subseteq Nat \ {0}
  /\ OB_MAX_ORDERS \in Nat /\ OB_MAX_LEVELS \in Nat
  /\ MAX_ID \in Nat /\ MAX_TS \in Nat

VARIABLES
  pool,            \* order_pool: order id -> order, for the occupied slots
  order_free_top,  \* free slots of the order pool
  lookup,          \* the ids lookup_find finds
  book,            \* tree, queues, totals and counts of both sides
  next_order_id,
  now,             \* now_ns(): strictly increasing from call to call
  agg,             \* id of the aggressor of the ob_add_order call, 0 when idle
  mc,              \* fills recorded in the scratch buffer by that call
  ret              \* what the last call returned

vars == <<pool, order_free_top, lookup, book, next_order_id, now, agg, mc, ret>>

Ids == 1..MAX_ID

Order == [side : Side, price : Prices, qty_remain : Nat, ts_submit : Nat, ts_update : Nat]

Book == [tree : [Side -> SUBSET Prices],            \* prices with a level
         fifo : [Side -> [Prices -> Seq(Ids)]],     \* queue of a level
         lvl_qty : [Side -> [Prices -> Int]],       \* its total_qty
         level_count : [Side -> Int],
         side_qty : [Side -> Int],                  \* total_qty of a side
         level_free_top : Int]

(* The operation, the status it returned, and *out_id (0 but for an add). *)
Ret(op, status, id) == [op |-> op, status |-> status, out_id |-> id]

Put(f, i, v) == [j \in DOMAIN f \cup {i} |-> IF j = i THEN v ELSE f[j]]
Drop(f, i) == [j \in DOMAIN f \ {i} |-> f[j]]

-----------------------------------------------------------------------------
(* Levels: operators from a book to a book. *)

level_create(b, s, p) ==
  [b EXCEPT !.tree[s] = @ \cup {p},
            !.fifo[s][p] = <<>>,
            !.lvl_qty[s][p] = 0,
            !.level_count[s] = @ + 1,
            !.level_free_top = @ - 1]

(* Mutant: the level's slot is not returned to the pool. *)
level_delete_LeaksSlot(b, s, p) ==
  [b EXCEPT !.tree[s] = @ \ {p},
            !.level_count[s] = @ - 1]

level_delete(b, s, p) ==
  [b EXCEPT !.tree[s] = @ \ {p},
            !.level_count[s] = @ - 1,
            !.level_free_top = @ + 1]

(* Mutant: the order enters at the head. *)
level_enqueue_AtHead(b, s, p, id, n) ==
  [b EXCEPT !.fifo[s][p] = <<id>> \o @,
            !.lvl_qty[s][p] = @ + n,
            !.side_qty[s] = @ + n]

(* An order with n left enters at the tail of the level's queue. *)
level_enqueue(b, s, p, id, n) ==
  [b EXCEPT !.fifo[s][p] = Append(@, id),
            !.lvl_qty[s][p] = @ + n,
            !.side_qty[s] = @ + n]

Unlink(q, id) ==
  LET k == CHOOSE i \in 1..Len(q) : q[i] = id
  IN  [i \in 1..(Len(q) - 1) |-> IF i < k THEN q[i] ELSE q[i + 1]]

(* Mutant: the total of the side is not adjusted. *)
level_dequeue_KeepsTotal(b, s, p, id, n) ==
  [b EXCEPT !.fifo[s][p] = Unlink(@, id),
            !.lvl_qty[s][p] = @ - n]

(* An order with n left leaves the queue, wherever in it it stands. *)
level_dequeue(b, s, p, id, n) ==
  [b EXCEPT !.fifo[s][p] = Unlink(@, id),
            !.lvl_qty[s][p] = @ - n,
            !.side_qty[s] = @ - n]

(* Mutant: an empty level stays in the tree. *)
Detach_KeepsEmpty(b, s, p, id, n) == level_dequeue(b, s, p, id, n)

(* Take an order off its level, and the level out of the tree if that      *)
(* leaves it empty.                                                        *)
Detach(b, s, p, id, n) ==
  LET d == level_dequeue(b, s, p, id, n)
  IN  IF d.fifo[s][p] = <<>> THEN level_delete(d, s, p) ELSE d

(* Put an order on the level of its price, created if there is none. *)
Attach(b, s, p, id, n) ==
  level_enqueue(IF p \in b.tree[s] THEN b ELSE level_create(b, s, p), s, p, id, n)

-----------------------------------------------------------------------------
Init ==
  /\ pool = [i \in {} |-> 0]
  /\ order_free_top = OB_MAX_ORDERS
  /\ lookup = {}
  /\ book = [tree |-> [s \in Side |-> {}],
             fifo |-> [s \in Side |-> [p \in Prices |-> <<>>]],
             lvl_qty |-> [s \in Side |-> [p \in Prices |-> 0]],
             level_count |-> [s \in Side |-> 0],
             side_qty |-> [s \in Side |-> 0],
             level_free_top |-> 2 * OB_MAX_LEVELS]
  /\ next_order_id = 1
  /\ now = 0 /\ agg = 0 /\ mc = 0
  /\ ret = Ret("init", "OK", 0)

Idle == agg = 0

(* ob_add_order refuses invalid arguments (a price that is not positive, a *)
(* zero quantity), and any order when no slot is free: the aggressor needs *)
(* one even if it would fill at once.                                      *)
AddRefused(valid) ==
  /\ Idle
  /\ valid => order_free_top = 0
  /\ ret' = Ret("add", "REJECTED", 0)
  /\ UNCHANGED <<pool, order_free_top, lookup, book, next_order_id, now, agg, mc>>

(* ob_add_order takes a slot and an id for the aggressor. *)
AddEnter(s, p, q) ==
  /\ Idle /\ order_free_top > 0
  /\ next_order_id <= MAX_ID /\ now < MAX_TS
  /\ pool' = Put(pool, next_order_id,
                 [side |-> s, price |-> p, qty_remain |-> q,
                  ts_submit |-> now + 1, ts_update |-> now + 1])
  /\ order_free_top' = order_free_top - 1
  /\ next_order_id' = next_order_id + 1
  /\ now' = now + 1
  /\ agg' = next_order_id
  /\ mc' = 0
  /\ ret' = Ret("add", "none", next_order_id)
  /\ UNCHANGED <<lookup, book>>

(* Mutant: any crossing level, not the best one. *)
Matching_AnyLevel(p) ==
  /\ ~Idle
  /\ LET a == pool[agg] IN
     /\ a.qty_remain > 0
     /\ p \in book.tree[Opp(a.side)]
     /\ Crosses(a.side, a.price, p)

(* The fill loop goes on: the aggressor has quantity left and the best     *)
(* opposite level p is within its limit.                                   *)
Matching(p) ==
  /\ ~Idle
  /\ LET a == pool[agg] IN
     /\ a.qty_remain > 0
     /\ IsBest(Opp(a.side), p, book.tree[Opp(a.side)])
     /\ Crosses(a.side, a.price, p)

(* The scratch buffer has OB_MAX_ORDERS records. *)
RecordFill == mc' = IF mc < OB_MAX_ORDERS THEN mc + 1 ELSE mc

(* One iteration in which the resting order survives: the aggressor is     *)
(* completely filled by the order at the head of the best level.           *)
FillAggressor(p) ==
  LET a == pool[agg]
      o == Opp(a.side)
      r == Head(book.fifo[o][p])
  IN
  /\ Matching(p)
  /\ a.qty_remain < pool[r].qty_remain
  /\ pool' = [pool EXCEPT ![agg].qty_remain = 0,
                          ![r].qty_remain = @ - a.qty_remain]
  /\ book' = [book EXCEPT !.lvl_qty[o][p] = @ - a.qty_remain,
                          !.side_qty[o] = @ - a.qty_remain]
  /\ RecordFill
  /\ UNCHANGED <<order_free_top, lookup, next_order_id, now, agg, ret>>

(* Mutant: the fill is the resting quantity even when the aggressor has    *)
(* less left.                                                              *)
FillResting_NoMin(p) ==
  LET a == pool[agg]
      o == Opp(a.side)
      r == Head(book.fifo[o][p])
      n == pool[r].qty_remain
  IN
  /\ Matching(p)
  /\ pool' = Drop([pool EXCEPT ![agg].qty_remain = @ - n], r)
  /\ book' = Detach(book, o, p, r, n)
  /\ lookup' = lookup \ {r}
  /\ order_free_top' = order_free_top + 1
  /\ RecordFill
  /\ UNCHANGED <<next_order_id, now, agg, ret>>

(* Mutant: a completely filled resting order stays where it is. *)
FillResting_Stays(p) ==
  LET a == pool[agg]
      o == Opp(a.side)
      r == Head(book.fifo[o][p])
      n == pool[r].qty_remain
  IN
  /\ Matching(p)
  /\ a.qty_remain >= n
  /\ pool' = [pool EXCEPT ![agg].qty_remain = @ - n, ![r].qty_remain = 0]
  /\ book' = [book EXCEPT !.lvl_qty[o][p] = @ - n, !.side_qty[o] = @ - n]
  /\ RecordFill
  /\ UNCHANGED <<order_free_top, lookup, next_order_id, now, agg, ret>>

(* One iteration that fills the resting order completely: it leaves queue, *)
(* lookup and pool, and its level leaves the tree when it was the last.    *)
FillResting(p) ==
  LET a == pool[agg]
      o == Opp(a.side)
      r == Head(book.fifo[o][p])
      n == pool[r].qty_remain
  IN
  /\ Matching(p)
  /\ a.qty_remain >= n
  /\ pool' = Drop([pool EXCEPT ![agg].qty_remain = @ - n], r)
  /\ book' = Detach(book, o, p, r, n)
  /\ lookup' = lookup \ {r}
  /\ order_free_top' = order_free_top + 1
  /\ RecordFill
  /\ UNCHANGED <<next_order_id, now, agg, ret>>

(* The call returns: the aggressor's slot is freed ... *)
ReleaseSlot(status) ==
  /\ pool' = Drop(pool, agg)
  /\ order_free_top' = order_free_top + 1
  /\ agg' = 0 /\ mc' = 0
  /\ ret' = Ret("add", status, agg)
  /\ UNCHANGED <<lookup, book, next_order_id, now>>

(* ... because it was completely filled, *)
AddFilled ==
  /\ ~Idle /\ pool[agg].qty_remain = 0
  /\ ReleaseSlot("FILLED")

(* Mutant: the remainder rests while a level still crosses. *)
LoopOver_AtOnce == ~Idle /\ pool[agg].qty_remain > 0

LoopOver ==
  /\ ~Idle /\ pool[agg].qty_remain > 0
  /\ LET a == pool[agg] IN
     \A p \in book.tree[Opp(a.side)] : ~Crosses(a.side, a.price, p)

NeedsLevel(b, s, p) == p \notin b.tree[s]

(* Mutant: the slot is not returned when the remainder is dropped. *)
AddDropped_LeaksSlot ==
  /\ LoopOver
  /\ LET a == pool[agg] IN
     /\ NeedsLevel(book, a.side, a.price)
     /\ book.level_count[a.side] >= OB_MAX_LEVELS \/ book.level_free_top = 0
  /\ agg' = 0 /\ mc' = 0
  /\ pool' = Drop(pool, agg)
  /\ ret' = Ret("add", "REJECTED", agg)
  /\ UNCHANGED <<order_free_top, lookup, book, next_order_id, now>>

(* ... or because its remainder needs a level that cannot be had; *)
AddDropped ==
  /\ LoopOver
  /\ LET a == pool[agg] IN
     /\ NeedsLevel(book, a.side, a.price)
     /\ book.level_count[a.side] >= OB_MAX_LEVELS \/ book.level_free_top = 0
  /\ ReleaseSlot("REJECTED")

(* otherwise the remainder rests in its own side. *)
AddRests ==
  LET a == pool[agg] IN
  /\ LoopOver
  /\ NeedsLevel(book, a.side, a.price) =>
       book.level_count[a.side] < OB_MAX_LEVELS /\ book.level_free_top > 0
  /\ book' = Attach(book, a.side, a.price, agg, a.qty_remain)
  /\ lookup' = lookup \cup {agg}
  /\ agg' = 0 /\ mc' = 0
  /\ ret' = Ret("add", IF mc > 0 THEN "PARTIAL" ELSE "OK", agg)
  /\ UNCHANGED <<pool, order_free_top, next_order_id, now>>

-----------------------------------------------------------------------------
CancelOrder(id) ==
  LET o == pool[id] IN
  /\ Idle /\ id \in lookup
  /\ book' = Detach(book, o.side, o.price, id, o.qty_remain)
  /\ lookup' = lookup \ {id}
  /\ pool' = Drop(pool, id)
  /\ order_free_top' = order_free_top + 1
  /\ ret' = Ret("cancel", "OK", 0)
  /\ UNCHANGED <<next_order_id, now, agg, mc>>

(* The calls that change nothing: an unknown id, or (modify looks at its   *)
(* arguments first) a price or quantity that is not positive.              *)
CancelUnknown(id) ==
  /\ Idle /\ id \notin lookup
  /\ ret' = Ret("cancel", "NOT_FOUND", 0)
  /\ UNCHANGED <<pool, order_free_top, lookup, book, next_order_id, now, agg, mc>>

ModifyRefused(id, valid) ==
  /\ Idle
  /\ valid => id \notin lookup
  /\ ret' = Ret("modify", IF valid THEN "NOT_FOUND" ELSE "REJECTED", 0)
  /\ UNCHANGED <<pool, order_free_top, lookup, book, next_order_id, now, agg, mc>>

(* ob_modify_order takes the order off its level and puts it at the tail   *)
(* of the level of its new price, also when only its quantity changes.     *)
(* level_new is not checked here: it must not find the level pool empty.   *)
ModifyMoves(id, p, q) ==
  LET o == pool[id]
      b == Detach(book, o.side, o.price, id, o.qty_remain)
  IN
  /\ Idle /\ id \in lookup /\ now < MAX_TS
  /\ NeedsLevel(b, o.side, p) => b.level_count[o.side] < OB_MAX_LEVELS
  /\ book' = Attach(b, o.side, p, id, q)
  /\ pool' = [pool EXCEPT ![id].price = p, ![id].qty_remain = q, ![id].ts_update = now + 1]
  /\ now' = now + 1
  /\ ret' = Ret("modify", "OK", 0)
  /\ UNCHANGED <<order_free_top, lookup, next_order_id, agg, mc>>

(* Off its level already, the order is given up when the new price would   *)
(* need a level more than the side may have.                               *)
ModifyLoses(id, p, q) ==
  LET o == pool[id]
      b == Detach(book, o.side, o.price, id, o.qty_remain)
  IN
  /\ Idle /\ id \in lookup /\ now < MAX_TS
  /\ NeedsLevel(b, o.side, p) /\ b.level_count[o.side] >= OB_MAX_LEVELS
  /\ book' = b
  /\ lookup' = lookup \ {id}
  /\ pool' = Drop(pool, id)
  /\ order_free_top' = order_free_top + 1
  /\ now' = now + 1
  /\ ret' = Ret("modify", "REJECTED", 0)
  /\ UNCHANGED <<next_order_id, agg, mc>>

-----------------------------------------------------------------------------
Enter ==
  \/ \E s \in Side, p \in Prices, q \in Qtys : AddEnter(s, p, q)
  \/ \E valid \in BOOLEAN : AddRefused(valid)

MatchStep == \E p \in Prices : FillAggressor(p) \/ FillResting(p)

Return == AddFilled \/ AddDropped \/ AddRests

CancelStep == \E id \in Ids : CancelOrder(id) \/ CancelUnknown(id)

ModifyStep ==
  \E id \in Ids :
    \/ \E p \in Prices, q \in Qtys : ModifyMoves(id, p, q) \/ ModifyLoses(id, p, q)
    \/ \E valid \in BOOLEAN : ModifyRefused(id, valid)

Next == Enter \/ MatchStep \/ Return \/ CancelStep \/ ModifyStep

(* A call that was entered is carried through: it runs on the caller's     *)
(* thread and waits for nothing.  That callers call is not assumed.        *)
Spec == Init /\ [][Next]_vars /\ WF_vars(MatchStep \/ Return)
==============================================================================
