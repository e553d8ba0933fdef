--------------------------- MODULE OrderBookProps ---------------------------
(***************************************************************************)
(* What must be true of OrderBook: its type, the agreement of its four     *)
(* redundant structures (pool, lookup, queues, tree) and of the cached     *)
(* totals, price-time priority, and the abstract book it implements; and   *)
(* two promises of its header that its modification does not keep.         *)
(***************************************************************************)
EXTENDS OrderBook, Functions

(* Every variable has its type; the aggressor of the call in progress      *)
(* occupies a slot of the pool (engine/orderbook.c:564-580).               *)
TypeOK ==
  /\ DOMAIN pool \subseteq Ids /\ pool \in [DOMAIN pool -> Order]
  /\ order_free_top \in Int
  /\ lookup \subseteq Ids
  /\ book \in Book
  /\ next_order_id \in 1..(MAX_ID + 1)
  /\ now \in Nat
  /\ agg \in Ids \cup {0} /\ (agg # 0 => agg \in DOMAIN pool)
  /\ mc \in Nat
  /\ ret \in [op : {"init", "add", "cancel", "modify"},
              status : {"none", "OK", "PARTIAL", "FILLED", "REJECTED", "NOT_FOUND"},
              out_id : Ids \cup {0}]

(* No slot of either pool is leaked or handed out twice, on any path       *)
(* through add, cancel and modify, the refusals included                   *)
(* (order_pool_free, level_pool_free and every early return).              *)
SlotsConserved ==
  /\ order_free_top + Cardinality(DOMAIN pool) = OB_MAX_ORDERS
  /\ \A s \in Side : book.level_count[s] = Cardinality(book.tree[s])
  /\ book.level_free_top + book.level_count["BID"] + book.level_count["ASK"]
       = 2 * OB_MAX_LEVELS

(* Pool, lookup, queues and tree describe one and the same set of orders:  *)
(* the lookup finds exactly the resting orders, each stands in the queue   *)
(* of its own side and price, nothing else stands there, and the tree has  *)
(* exactly the prices with a queue.  Cancel and modify rest on it: they go *)
(* from the lookup to a level without checking that it holds the order.    *)
IndexesAgree ==
  /\ lookup = DOMAIN pool \ {agg}
  /\ \A id \in lookup :
       \E i \in 1..Len(book.fifo[pool[id].side][pool[id].price]) :
         book.fifo[pool[id].side][pool[id].price][i] = id
  /\ \A s \in Side, p \in Prices : \A i \in 1..Len(book.fifo[s][p]) :
       LET id == book.fifo[s][p][i]
       IN  id \in lookup /\ pool[id].side = s /\ pool[id].price = p
  /\ \A s \in Side, p \in Prices : p \in book.tree[s] <=> book.fifo[s][p] # <<>>

(* Time priority: a queue is in the order in which its orders entered it,  *)
(* by submission or by modification (ts_update), after any removals from   *)
(* its middle (level_dequeue's relinking).                                 *)
TimePriority ==
  \A s \in Side, p \in Prices : \A i, j \in 1..Len(book.fifo[s][p]) :
    i < j => pool[book.fifo[s][p][i]].ts_update < pool[book.fifo[s][p][j]].ts_update

(* The cached totals (lv->total_qty, side->total_qty) are the sums they    *)
(* stand for, in the middle of a fill loop too; ob_depth and the top of    *)
(* book report them unchecked.                                             *)
TotalsAgree ==
  \A s \in Side :
    /\ book.side_qty[s] = SumFunctionOnSet(book.lvl_qty[s], book.tree[s])
    /\ \A p \in book.tree[s] :
         book.lvl_qty[s][p] = SumFunction([i \in 1..Len(book.fifo[s][p]) |->
                                             pool[book.fifo[s][p][i]].qty_remain])

(* The book is never left crossed by a submission: when a resting bid      *)
(* meets or exceeds a resting ask, the later of the two got where it is by *)
(* ob_modify_order, which does not match (engine/orderbook.c:693-716).     *)
CrossOnlyByModify ==
  Idle => \A b, a \in lookup :
    (pool[b].side = "BID" /\ pool[a].side = "ASK" /\ pool[b].price >= pool[a].price) =>
      LET last == IF pool[b].ts_update < pool[a].ts_update THEN a ELSE b
      IN  pool[last].ts_submit < pool[last].ts_update

(* No fill goes unrecorded: when the loop is about to fill, the scratch    *)
(* buffer of OB_MAX_ORDERS records has room (engine/orderbook.c:509), for  *)
(* a fill that is not recorded is a trade nobody hears of.                 *)
ScratchSuffices ==
  ~Idle /\ pool[agg].qty_remain > 0 => mc < OB_MAX_ORDERS

(* A side below its level limit can always have a level: ob_modify_order   *)
(* passes level_new's result on unchecked (engine/orderbook.c:709).        *)
LevelAllocSafe ==
  \A s \in Side : book.level_count[s] < OB_MAX_LEVELS => book.level_free_top > 0

(* The fill loop ends and the call returns.                                *)
CallReturns == ~Idle ~> Idle

(* OrderBook implements the price-time book: its trees, queues, pools and  *)
(* cached values change nothing about which order trades when.  The book   *)
(* it implements modifies orders as the code does, see PriceTimeBook.      *)
Entry(id) == [id |-> id, side |-> pool[id].side, price |-> pool[id].price,
              qty |-> pool[id].qty_remain, ts |-> pool[id].ts_update]

PT == INSTANCE PriceTimeBook WITH
        resting <- {Entry(id) : id \in lookup},
        taker   <- {Entry(id) : id \in DOMAIN pool \cap {agg}},
        next_id <- next_order_id,
        clock   <- now

AbstractBook == PT!Spec
==============================================================================
