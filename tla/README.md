# ProfitPlayground: verification project

ProfitPlayground is a one-on-one trading duel.  Players in a browser send
orders to a FastAPI server; the server calls, through `ctypes`, a C library
that carries the order gateway, the risk checks, the matching engine and the
order book; events travel back the same way and over websockets.  The modules
in this directory model that program, `src/` being the reference.  This file
says what the system consists of, what has been modelled, checked and proved,
and what has not.

    browser -- HTTP / websocket --> api/ -- ctypes --> bridge/ --> pipeline/ --> engine/

## 1. The system

### 1.1 Components

| component | state | operations | used by |
|---|---|---|---|
| order book, `engine/orderbook.c` | two slot pools (orders, levels), per side an AVL tree of price levels, per level a FIFO list, cached totals, the id counter | `ob_add_order` (matches first), `ob_cancel_order`, `ob_modify_order`, depth and top queries | matching engine |
| id lookup, in `orderbook.c` | one open-addressing table, `static`, so one per process | insert, find, remove with re-insertion of the cluster, init | order book |
| order types, `engine/orders.c` | none | validation, market sentinel prices, the liquidity check of FOK | matching engine |
| matching engine, `engine/matching_engine.c` | pool of dormant stops, last trade price, top-of-book snapshot, bounded event ring | submit an order or stop, cancel, modify, expire, run events; stops fire recursively | pipeline |
| gateway, `pipeline/gateway.c` | submission ring, idempotency table, token bucket, kill switch | submit, admit, poll | bridge |
| risk and portfolio, `pipeline/risk.c`, `portfolio.c` | per account: cash, reserved cash, positions, average price, realised profit | check and reserve, release, apply fill | pipeline |
| pipeline, `pipeline/pipeline.c` | sequence number, journal, id map (order to account) | `pipeline_step`: validate, sequence, dispatch to the engine, drain its events, apply trades | bridge |
| event bus, `pipeline/event_bus.c` | subscribers | synchronous publish | pipeline, bridge |
| bridge, `bridge/bridge.c` | slots per symbol, staged events, poll queue that drops its oldest | add symbol, submit, poll, read a portfolio | ctypes adapter |
| ctypes adapter, `api/engine_bridge.py` | map of order ids, portfolios of its own, a bounded event queue, one `asyncio.Lock` | submit, cancel, modify, each with a drain of the events | routes, rooms, bots |
| rooms, `api/rooms.py` | match state machine, the players' books and accounts, the frozen score | create, join, pick, go live, finish | routes |
| market maker, `api/market_maker.py` | its quotes' ids | quote loop, cancellation | rooms |
| event pump, persistence, subscriptions | rows of the database, bounded queue per websocket client | persist, broadcast, subscribe with a snapshot | browser |
| the browser's hook, `useEngineSocket.ts` | the ladder and the orders it shows | connect, show what the socket brings, hydrate over REST | the user |

The C library has no threads of its own (the book's read-write lock is compiled
in only with `OB_ENABLE_THREADS`, and the build does not set it): whoever calls
the bridge serialises the calls, and the adapter does so with its lock.  The
concurrency of the running system is that of `asyncio` tasks.

### 1.2 What is hard here, and what makes each part correct

* **Order book.** One order is known to four structures: a pool slot, the id
  lookup, the FIFO list of its level, and the tree that holds the level; its
  quantity is known to two cached totals besides.  Every path through add,
  cancel and modify, the refusals included, must change them together; cancel
  and modify trust the lookup blindly.  Correct means: the structures agree, no
  slot leaks, the totals are the sums they stand for, orders trade in price-time
  priority, the fill loop ends, and no fill goes unrecorded.
* **Lookup.** A removal re-inserts the rest of the probe cluster while it scans
  it.  The loops end only because some slot is empty.  The table is shared by
  all books of the process.
* **Matching engine.** `me_submit_order` and `check_stops` call each other
  recursively; a suspended scan goes on with the last trade price it was called
  with.  Correct means: no triggered stop stays dormant, the recursion is
  bounded, and the event stream tells a consumer exactly what is in the book,
  whatever order a cascade emits it in.
* **Pipeline.** Fills are attributed to accounts through the id map; the orders
  that stops turn into have ids nobody recorded.  Reservations are never given
  back.  The gateway remembers a client id before it finds out that its ring is
  full.  The journal claims to allow a replay, and lacks some of the fields.
* **Tree of levels.** A removed node with two children takes over its
  successor's contents, so a level changes its slot; heights are cached; the
  walks of the queries prune.  Correct means: a balanced search tree that leaks
  no slot and answers like a plain table of quantities by price.
* **Bridge and adapter.** Clients know orders by the gateway's ids, the engine by
  its own; events come before the id they are about is known.  Whoever keeps
  orders, portfolios or the ladder by the events must end up with what the
  engine has, although the engine emits nothing for the resting side of a trade
  and a FILLED after the CANCELLED of an IOC order.
* **Rooms.** Awaits between a check and its use (a pick while the room is going
  live), a clock that nobody watches, bots that wait for a price when the match
  ends.
* **Feed.** Snapshots race deltas, queues lose their oldest or their newest
  event, connections and writes to the database fail.

The complete list, each at its line, is under `hazards` in `PROJECT.json`; a
hazard no property covers yet says so there.

## 2. Modules

| module | models | built on |
|---|---|---|
| `PriceTime` | sides, "better price", which order of a set comes first, room for one more price | |
| `PriceTimeBook` | the abstract book that `orderbook.c` is: a set of resting orders, an incoming one, price-time priority; its modification is the code's, not the header's | `PriceTime` |
| `OrderBook` | `orderbook.c`: pools, lookup, FIFO queues, trees, cached totals, the fill loop one fill per step | `PriceTime` |
| `OrderBookProps` | its type, invariants, liveness, and the refinement of `PriceTimeBook` | `OrderBook` |
| `OrderBookProofs` | theorems about it: the inductive invariant, the refinement of `PriceTimeBook`, crossing, the scratch buffer, the totals | `OrderBookProps`, `FiniteSums` |
| `FiniteSums` | lemmas about sums over finite sets, and induction on a set of naturals | |
| `LookupTable` | the id lookup, slot by slot, for one or several books | |
| `LookupProofs` | theorems about it, for one book | `LookupTable`, `FiniteSums` |
| `MatchingEngine` | `matching_engine.c` with `orders.c`: every call as an operator on the engine, the stop cascade as steps, the event ring | `PriceTime` |
| `EventConsumer` | what a consumer learns of the book from each event | `MatchingEngine` |
| `EngineClient` | a client that makes any call of the engine, the consumer of its events, and the engine's properties | `EventConsumer` |
| `EngineLemmas` | what each call of the engine keeps, whoever makes it, and a fill of a portfolio | `EventConsumer`, `FiniteSums`, `Portfolio` |
| `EngineProofs` | theorems about the engine with its client | `EngineClient`, `EngineLemmas` |
| `Gateway` | `gateway.c`: admission as an operator on the gateway | |
| `Portfolio` | `portfolio.c`: fills and reservations as operators on one account's portfolio | |
| `Pipeline` | `pipeline.c` with `risk.c`: submissions, and the stages of `pipeline_step` around the engine | `MatchingEngine`, `Gateway`, `Portfolio` |
| `PipelineProps` | its invariants | `Pipeline` |
| `PipelineInvariants` | the inductive invariants of the pipeline and of the bridge around it, and the predicates their proofs are laid out with | `PipelineProps`, `BridgeProps`, `EngineLemmas` |
| `PipelineProofs` | theorems about the two | `PipelineInvariants` |
| `PriceLadder` | what the levels of a side are for: the quantity at each price, and the queries | |
| `AvlTree` | the tree of levels, slot by slot: insertion, removal, rotations, destruction, the walks of the queries | |
| `AvlTreeProps` | its invariants and the refinement of `PriceLadder` | `AvlTree` |
| `Bridge` | `bridge.c` around the pipeline, the event bus between them, the drain of `engine_bridge.py` | `Pipeline` |
| `BridgeProps` | its type and properties | `Bridge` |
| `Rooms` | `rooms.py`, `market_maker.py`, and the gate of `routes_orders.py` | |
| `RoomsProps` | their type and properties | `Rooms` |
| `RoomsProofs` | theorems about them | `RoomsProps` |
| `Feed` | the way of an event from the adapter's queue to the database and the browser | |
| `FeedProps` | its type and properties | `Feed` |
| `FeedProofs` | theorems about it | `FeedProps` |
| `MCOrderBook`, `MCAvlTree`, `MCLookupTable`, `MCEngineClient`, `MCPipeline`, `MCBridge`, `MCRooms`, `MCFeed` | values of the constants for TLC | |

`OrderBook` implements `PriceTimeBook`.  That book is not what `orderbook.h` promises:
submission and cancellation are, but modification is what `orderbook.c:696-715` does, an
order always going to the back of its queue, or out of the book at the level limit.
The header's words about it (`orderbook.h:267`, `271`) are no property of this code
(section 5).  `MatchingEngine` is written on the same
abstract view of a book, a set of resting orders, and calls it in one step.  The
lookup is a set of ids in `OrderBook`, and `LookupTable` is the justification
(for one book per process; with two, it is not, see section 5).  In the same way
the tree is a set of prices in `OrderBook`, and `AvlTree` is the justification.
`Bridge` composes the whole C library, from the interface that the adapter
calls down to the engine; `Rooms` and `Feed` are the two halves of the server.

### 2.1 The order book

`pool` maps the id of an order in a used slot to the order; `order_free_top` is
the free stack's height (which slot is handed out does not matter to anything,
so only the number is kept).  `book` holds, per side, `tree` (the prices that
have a level), `fifo` (the queue of each price), `lvl_qty` and `side_qty` (the
cached totals), `level_count`, and the height of the level pool's free stack.
`lookup` is the set of ids that `lookup_find` finds.

`ob_add_order` is entered by one action, makes one fill per step (`MatchStep`),
and returns by another action (`Return`), so that every property is checked
between two fills of one call.  Refusals for want of a slot, and a cancel or a
modification, are one step each; a modification that finds the side at its level limit
loses the order, as the code does (`orderbook.c:702`).  `ret` is what the last call returned.

### 2.2 The lookup

The hash function is a variable that `Init` chooses among all functions from
ids to positions and no step changes: what holds, holds for any hash.  Insertion
takes the first empty position of the probe sequence, search the first position
that is empty or has the id, and removal takes out and re-inserts the rest of the
cluster entry by entry, each re-insertion seeing the table as the ones before it
left it (`Rescanned` is one turn of that loop).  The code's loops have no other end
than an empty position; `ProbesEnd` says that there always is one.

### 2.3 The matching engine

`me` is the engine struct, `stack` the suspended calls of `check_stops`, and
`view` what a consumer has learnt from the events alone.  `FireStop` is one
iteration of the innermost scan that fires: the stop leaves the pool, re-enters
as an order, and if that order trades, a new scan starts on top.  The client
makes its next call when the stack is empty and the queue drained, as the
pipeline does.  `roots` is the price at the root of each tree, which the engine's
top of book depends on: its quantity is that of the walk `ob_depth` makes, which
gets to the best level only from the root (section 5).  The shape of the trees is not
kept here.  Where it cannot matter, because no level came or went or there are no
three levels, the root is the previous one (`RootStays`); else it is whatever level the
constant operator `RootOf` chooses.  Its arguments tell any two changes apart, so some
`RootOf` is what the rotations of `AvlTree` do, and what holds for every `RootOf`, as the
theorems do, holds for them, for any number of levels.
Stops with a time to live expire when the client says so, any
subset of those at a time (the clock is not modelled).  The loops of one call
(the fills, the telling of the fills, the expiry, the drain) are recursive
functions on the number of turns: an operator for one turn (`NextFill`,
`NextTrade`, `WithdrawStop`, `Learn`) and its iteration (`Match`, `TradesTold`,
`me_expire_orders`, `Learnt`).

### 2.4 The pipeline

`Submit` is `pipeline_submit`: the whole of `gateway_submit` in one step, with the
tokens that the elapsed time is worth as a choice.  A drain by `pipeline_step` is
a sequence of steps during which no submission is made (`stepping`): per message
of the ring, `Drop` (validation or risk refuse it) or `Dispatch` (it is reserved
and handed to the engine), then the engine's own cascade, then `Settled` (the
order is recorded in `id_map` and all queued events are applied).  `hist` is not
state of the program: it keeps whose order each id is, what the fills of an
account's orders add up to, how much rounding can have cost, and which client
order ids were admitted.  The record of an order in `id_map` is made after the
engine has returned and before its events are drained; that the fills of an
order on its own arrival are attributed at all rests on this order.

### 2.5 The tree of levels

A tree under surgery is a record of the slots' contents, the free stack and a
root, and each C function that changes the pool and returns a root is an operator
on such records, recursive where the function is.  Mirrored functions are one
operator with a direction.  What a level carries besides its links is
abstracted to its quantity.  The actions are the calls of the book, reduced to
what they do to the levels of one side: an order comes to rest (`Rest`), a fill
or a cancel takes quantity away (`Take`), a modification does the one and then
the other (`Move`), the book is destroyed (`Destroy`).  The refinement mapping
looks each price up with `avl_find`, as the code does.

### 2.6 The bridge and the adapter

`bridge_submit` is `Enter`, the pipeline's own steps, and `Dropped` or
`Returned`, which translate the staged events, look for the engine id that the
step has added to the id map, and answer for an order that no event has touched.
`bp.slots` is the registry under the gateway's ids, `bp.me_to_gw` the way back,
`bp.evq` the numbered poll queue that drops its oldest.  `Drain` is the
adapter's: it polls until the queue is empty, applies the trades to its own
portfolios, tells the order events and pushes the ladder.  `client` is what the
adapter and those behind it know.  The adapter does not look at the numbers of
the events; in the model what it knows is dropped from the first gap on, because
nothing is claimed of it then, except the ladder, which is pushed whole.

The running system drains after every call; the model also makes further calls
before, so that the queue can overflow.

### 2.7 Rooms, bots and the gate

A step lasts from one suspension of a task to the next.  With the C engine a
call of the engine does not suspend (its lock is never held across an await), so
what suspends is the fetch of a price, a sleep, the end of a bot, and, with a
database, the seeding of each book's rows while a room goes live.  `db` says
whether there is one; both are checked.  `bots` has the tasks of
`run_market_maker`, `going` the calls of `_go_live` that wait for the database.
A task that has been cancelled does nothing but end.

Each player has a book of their own, but the books of the process share two things.
`table` is the symbol table, with the places it has left: a bot whose book finds none
ends at once (`Start`; `market_maker.py:58-61`), while `_go_live` does not look at the answer to
its own `ensure_account` and the match goes live.  `OtherSymbol` is any request that names a
symbol of no room and takes a place.  `lookup` is the id lookup behind every cancel: a
new book wipes it, and the ids of two books are the same (section 5), so a cancel is
sure to do what it says only where no other book has orders in the table and it was
not wiped since (`Sure`).  Otherwise the bot's cancels (`Requote`, `EndBot`), whose answers
`_cancel_quiet` drops, and the player's (`delete_order`) may do nothing or take out another
order of the book.  `quoted` has the books in which some bot's quote stands, whether or
not that bot still knows of it.  What a wrong slot does inside the engine is not
followed further than that.

Prices, sides and
quantities are left out: whether an order trades is a choice, and a portfolio is
known by the number of its trades, which is what must not change under a
frozen score.

### 2.8 The feed

Orders and the ladder are known by how often they have changed, and a message
tells the count at its emission.  `Change` is a call of the engine with the
drain after it, `Take`, `persist_order_snapshot` and `update_watermark` are the
stretches of the pump between its suspensions, `client` is the server's side of
one connection and `browser` the hook's state.  Subscribing is two steps,
because the acknowledgement is awaited between the subscription and the
snapshot.  `history` is not state of the program: it remembers what was lost, for
the properties to except.

## 3. Runs

| run | question | result |
|---|---|---|
| `order_book` | Do pool, lookup, queues, trees and totals agree in every step of every fill loop; is priority kept; is the book crossed only by a modification; does the scratch buffer suffice; is a slot ever leaked; does an entered call return; does the book implement the abstract one? | holds |
| `avl_tree` | Does the tree stay a balanced search tree with true heights and no leaked slot; does it implement the ladder; does a modified order arrive; do the walks of the queries return what the ladder holds? | holds |
| `depth_within_range` | "total resting qty [...] within `price_range` ticks of the best price" | violated |
| `lookup_of_one_book` | Does the table find exactly the resting orders, for every hash, and do its loops end? | holds |
| `lookup_shared_by_books` | "per-book lookup table" | violated |
| `engine` | Do the events alone, unless one was dropped, tell a consumer the resting orders, the dormant stops and the top of book, for all order types, stops and modifications, whatever level gets to the root of its tree; do IOC and FOK orders stay out of the book; is a triggered stop left behind by a cascade; how deep does the recursion get? | holds |
| `pipeline_flows` | Does every fill reach the account whose order it was; do position, average price and realised profit account for the cash; is a client order id admitted once? | holds |
| `bridge_views` | Are the orders shown the orders the engine keeps; is a terminal status final; do the events tell the views, the portfolios and the ladder? | holds |
| `views_stay_accurate` | "so downstream order views / DB snapshots stay accurate" | violated |
| `rooms` | Does one bot quote each book there is; does trading lock at full time; does the frozen score stand; does every bot leave for good? | holds |
| `feed` | Does the browser show the engine's ladder and its orders once everything is told; is what it shows written first; are the rows current; does it recover? | holds |
| `feed_drops_newest` | "per-connection bounded queue, drop-oldest" | violated |

The properties except what the code does not promise, and each exception is a
fact about the code:

* `ViewsMatchEngine`: orders lost by a modification (no event), stops that have
  fired (section 5), and ids beyond the registry.  Beyond it a resting order is
  reported REJECTED by the synthetic answer (`bridge.c:401-407`); cancels use up
  ids of the gateway, and fired stops ids of the engine, so it fills up sooner
  than by orders alone.
* All of the bridge's: an event that the engine's ring dropped.  For `TerminalIsFinal`
  too: a modification that is not told lets an order seem filled before it is, and a
  later cancellation then changes what was final.
* `LadderTold`: orders lost by a modification; nothing is polled after one, so the
  adapter pushes no ladder.
* `PortfoliosAgree`: the average price and the profit of an account that traded
  with itself: the pipeline applies the aggressor's leg first, the adapter the
  buyer's.
* `OneBotPerBook`, `FinalStands`: a room that went live twice, because a pick
  arrived while the first start waited for the database.  Then the bots of the
  first start are not cancelled at full time, a bot may quote one instrument in
  the book of another (section 5), and the second start opens a finished match
  again.
* `OneBotPerBook`: a player whose book found no place in the symbol table has no bot.
* `AdmittedOnce` lets a duplicate be answered with an id that was never passed on, so
  long as it is not another's: what the code does to the retry of a throttled order,
  against `gateway.h:20` (section 5).
* `ViewsCurrent`, `LadderSettles`: of the ladder, a message lost at the client's own full
  queue, which nothing tells it (the numbers are global, so a gap does not
  show, against `api/README.md:196`); and the answer of the REST hydration,
  which replaces newer data if it comes late.  The first exception is there only
  because the queue drops its newest message: with the drop-oldest of
  `api/README.md:76` the last word would arrive, as `LastWordArrives` says, which
  `feed_drops_newest` refutes.
* `WrittenFirst` is the order that the comment in `main.py:96` announces and the code has:
  the pump awaits the write before it tells.  The same await lets a slow database
  stop the fan-out, which `api/README.md:240-242` says it never does (section 5).
  `LadderSettles` holds only while the database answers or fails.
* `ViewsCurrent`: of the orders, a second connection, which brings a snapshot of the ladder and
  no orders; and an overflow of the adapter's queue.
* `RowsCurrent`, `WrittenFirst`: a write that failed, which is logged and not
  repeated.

### 3.1 Bounds, and why they are enough

* *Book.* Three order slots, three prices for two levels per side, quantities 1
  and 2, four ids, a bounded clock.  Three orders suffice for a removal from
  the middle of a queue and for two fills in one call; a quantity of 2 gives
  partial fills of either party; three prices on two levels meet the level
  limit; more ids than slots make slots be reused.  The bound on the clock only
  limits how many modifications are made.
* *Tree.* Eight prices on seven slots: a tree of seven nodes can be four deep,
  so every rotation, single and double, on insertion and on removal, and
  removals with two children deep in the tree occur; the eighth price finds no
  slot.  One price can hold two units, so that levels differ.  TLC identifies
  trees of the same shape (`VIEW`): no property depends on which slot a level
  is in.
* *Lookup.* Six positions for three orders, four ids: the code's load limit of
  one half, clusters that wrap around, and more ids than slots.
* *Engine.* Two stops and four orders or stops of the client, besides those that fired stops
  become: a stop that fires a stop that fires, the deepest nesting a pool of two
  allows, and a scan that goes on with an older price after a nested one.  `MCOrders` and
  `MCStops` bound each kind by the ids it may take: orders of two units are the first ones, and
  the market order that rests with its remainder may come last, where a fired stop
  meets it; IOC and FOK orders of two, which meet less, enough or two makers.
  Modifications are made while the clock is below three, so with up to two resting orders.
  The ring of eight slots is overfilled by a cascade.
  Three levels a side, and of three the lowest and the highest get to the root by
  turns (`AnyRoot`), the best level being now at the root and now not.
* *Pipeline and bridge.* Two levels a side in the engine, either of which may be the root.
* *Pipeline.* Four admitted messages: opening a position, quoting the other way,
  and a fill of two that flips it, take four.  The messages are a set chosen in
  `MCPipeline`: quotes at 10 and 11 of two accounts, the same client order id
  from both, an order out of the band once 10 has traded, one of an account that was never
  added, two malformed ones, a stop, and cancels and a modification of every
  id handed out.  The ring has one usable slot, so it is full whenever a message
  waits, the idempotency cache two entries, the bucket one token.  With four
  entries the id map does not overflow; what happens then (nothing is recorded,
  `pipeline.c:31`) is in the model, and excepted from `FillsReachTheirAccount`.
* *Bridge.* Five messages, of two accounts: limit orders of either side, an IOC
  order that is cancelled after a partial fill, a market order, a stop, two that
  are refused at different places, and cancels and modifications of every id
  handed out or not; a registry of four entries, which they overfill, and a poll
  queue of five events, which two calls overfill.
* *Rooms.* One room, two instruments, a match of one tick, two starts, a player
  who changes its mind and trades once and one who does not.  What the two
  players' books share (symbol table and lookup) is in the model, and both
  bots use it; a second player who trades would only repeat the first.  The symbol
  table has two places, so that the books find room, one of them, or none, other
  symbols taking the rest.  Two starts are the fewest that overlap, and a bot
  takes any number of turns within a tick.
* *Feed.* Two orders, two changes, an adapter's queue of three events (two
  changes are four), a client's queue of two (ladder and order of one change and
  a snapshot are three), three connections.
* Ids are never reused in the code (64 bits), so a bound on them cuts long runs
  short and leaves out no kind of state.

The clients take only calls the code accepts or refuses by its own checks;
nothing is left to undefined inputs.  Deadlock is checked except in `rooms` and
`feed`, where the system stops at the bounds: no time left, no change left to
make, everything told.

### 3.2 Fairness

* `OrderBook`: weak fairness of `MatchStep \/ Return`.  A call of
  `ob_add_order` runs on its caller's thread, waits for nothing and holds no lock
  another call could want, so once entered its next step is always taken.  The
  client is under no obligation to call.
* `Rooms`: of the clock, and of the steps of each bot: the event loop runs what
  is ready, a fetch has a timeout of five seconds (`market_maker.py:67`) and a
  sleep ends.  Nothing is assumed of the players, the database or any request.
* `Feed`: of the pump (the database answers or fails), of the tasks of the
  connection, and of the browser's reconnection, which it retries for ever
  (`useEngineSocket.ts:158-164`).  Connections may break as long as the bound on
  them allows.

## 4. Theorems

### 4.1 The order book

`OrderBookProofs` proves, for every set of prices and quantities, every pool
size and every level limit that `BookAssumption` admits (prices and quantities
positive, the capacities natural numbers), without TLC's bounds being small:

* `TypeCorrect`: `Spec => []TypeOK`;
* `SlotsAreConserved`: no slot of either pool leaks or is handed out twice;
* `IndexesAlwaysAgree`: pool, lookup, queues and trees describe the same orders;
* `TimePriorityHolds`: every queue is in the order of arrival;
* `LevelAllocIsSafe`: where the side is below its limit, the level pool has a slot
  (no run repeats this one: it follows from `SlotsConserved`).

All follow from one inductive invariant, `IInv`.  None of the properties is
inductive alone.  That a removed id does not remain elsewhere in its queue needs
the queue to have no duplicates, which follows from its being strictly ordered
by `ts_update`; that the order stays strict when an order is appended needs
every order's time to be in the past (`OrdersInThePast`); and that a level
disappears exactly with its last order needs the level counts and the tree to
agree (`Counted`).  So the invariant consists of

* `TypeOK`, and the lookup being the used slots without the incoming order;
* `Sound` of the book: an order stands in the queue of its side and price and
  no other (`Linked`), the tree has the prices with a queue (`InTree`), queues are in
  time order (`InTime`), counts are cardinalities (`Counted`);
* `OrdersInThePast`, `PoolCounted`, `LevelsBounded`.

The proof states once what taking an order off its level (`Detach`) and putting
one on it (`Attach`) do to `Sound`, for the cases of the level becoming empty or
being new, with lemmas on removing an element from a sequence below them;
the actions of `Next` are combinations of the two.

The module also proves `BookImplementsPriceTime`, `Spec => AbstractBook`, from the
same invariant: the initial states map to initial states, `Add` maps to the
arrival of an order, each fill to a fill of the first order in price-time
priority, `Return` to resting or leaving, cancel and modify to removal and
replacement, and the refusals to refusals or to nothing.  The invariant supplies
what the mapping cannot: the head of the best level is the first in priority
(from `InTree` and `InTime`), a level is new exactly when no resting order has its
price, and the free slots count the resting orders.

For crossing and the scratch buffer it adds `MInv`, inductive relative to `IInv`:

* `SubmittedFirst`: no order's time of update precedes its submission;
* `CrossedByModify`: of a bid and an ask that cross, the later has been modified;
  it speaks of the middle of a call too, when fills only remove;
* `ScratchLeft`: while the aggressor has quantity left, the fills made and the
  orders that rest are together fewer than the slots of the pool.

From it follow `OnlyModifyCrosses` and `ScratchAlwaysSuffices`.

`TotalsAlwaysAgree` says that the cached quantity of every level and
side is the sum over its orders.  Its invariant `TInv` states the totals over the
set of the orders at a price, not over a queue, so that a fill is a change of one
value and an arrival or a removal one element more or less; `IInv` says which
orders that set has.  The library's induction theorems take an operator, which
the provers cannot instantiate; `FiniteSums` therefore proves what is needed of
a sum from the fact that a nonempty family of subsets of a finite set has a
minimal member: the function behind the sum exists and is unique, the sum does
not depend on the order of taking elements, and one element more adds its value.

### 4.2 The feed

`FeedProofs` proves, for any set of orders, any capacities of the two queues
(`FeedAssumption`: the adapter's has at least one place) and any number of
changes and connections, all four invariants that the run `feed` checks:

* `FeedTypeCorrect`: `Spec => []TypeOK`, with the bounds of both queues;
* `WritesComeFirst`: the browser shows nothing of an order that is not written;
* `RowsAreCurrent`: when nothing is on the way, the rows are the orders;
* `ViewsAreCurrent`: when all has been told, the browser shows the ladder and
  the orders as they are.

The promises speak of states in which the queues are empty, so none of them is
inductive: the invariants say what is true while events are on the way.  They
are stated with two notions about a queue and a set of messages, `EndsAt` (the
last message of the set tells this count) and `Rising` with its bounds `Above` and
`Below`, and one lemma for each says what an append and a removal do to it.

* `Typed`, which adds to `TypeOK` that no order has changed more often than the
  ladder (else the bound on the changes does not bound the orders') and that
  only what the engine emits is in its queue;
* `Written`: the counts of an order rise along the adapter's queue, and row,
  pump, queue and engine are in this order.  The failed write needs it: a row
  may skip a count but never goes back;
* `Recorded`: the last message of an order in the adapter's queue tells its
  current count (this survives the overflow, which loses the oldest), and when
  the queue has none the pump's is current, or else the row;
* `LadderTold`: a queue that is not empty ends with a delta of the current
  ladder, so that the event which empties it brings every subscriber up to date,
  and a subscriber that lost nothing has it in its queue or on the screen;
* `OrdersTold`: the same for an order on the first connection, where nothing can
  have been told before the channel is subscribed to.

### 4.3 The matching engine

`EngineProofs` proves every property that the run `engine`
checks, for any number of orders, levels, stops and places in the ring, any
prices and quantities, any calls of the client, and whatever level gets to the root
of a tree (`EngineAssumption`, `ClientAssumption`, and `RootOf` free, see section 2.3).

`EngineLemmas` has what each call keeps, stated of any engine and any consumer and not of
a client's actions, so that the pipeline's proofs (4.6) cite the same lemmas (and at its
end those about one account's portfolio, which only 4.6 and 4.7 use);
`EngineProofs` has the client's invariant and the theorems:

* `EventsTell`: who is handed every event knows the resting orders with their
  quantities and the dormant stops;
* `TopTold`: the last top of book told is that of the book, as `me_top_of_book` computes
  it from the roots;
* `NoneLeftBehind`: a cascade leaves no stop behind that its last trade triggers;
* `RecursionBounded`: the depth of the recursion and the dormant stops together
  are at most one more than the stop pool;
* `ImmediateNeverRest`: IOC and FOK orders do not rest, and FOK is all or nothing.

The promises about events are made when the queue is empty and no cascade is under
way, so the invariant (`EngineInvariant`; TLC checked it on the instances of both
runs first) says what is true in between:

* `EngineTyped`, `Numbered`: the ids of resting orders, dormant stops and lost orders
  are all different and below the next id, and orders differ in their times, so
  that "the first order" is one;
* `Told`: unless an event was dropped, what the consumer knows, after it has learnt
  the events that are pending, is the book, the stops and the last snapshot
  of the top.  `Learnt` of a queue with one event more is one `Learn` more, so each
  emission is one step of the proof;
* `TopKept`: the snapshot is that of the book, between calls;
* `AllImmediate`: what is said in the queue of IOC and FOK orders;
* `NoneMissed`: each dormant stop that the last trade triggers, and that is older
  than that trade's aggressor, is still ahead of a scan in progress that was
  called with the price of that trade.  `NoStopLeftBehind` is what is left of it when
  no scan is in progress.  A newer stop need not be ahead of a scan: it may take
  a slot that the scan has passed, or arrive after the trade.

The loops are recursive functions.  That such a function exists is no axiom to
the provers and the library's theorem takes an operator, so each loop has a lemma
(`FillLoopExists` and the others) which continues the function from n to n + 1 turns,
by an induction on a set of naturals (`SetOfNats`).  What a fill loop keeps is
`Filling`: the orders remain apart, the fills add up to the quantity gone, and the
eligible total has fallen by it.  Hence a FOK order that passed the liquidity
check is filled whole, for `Ending` says that the loop does end with nothing left or
nothing eligible.  `FillsTell` says that the consumer who learns the fills so far
knows the book as it is so far.

### 4.4 The rooms

`RoomsProofs` proves, for any rooms, instruments, clock, number of starts, accounts and
places in the symbol table (`RoomsAssumption`), all four safety properties that the run
`rooms` checks, two of them about a match that was started once (section 3).

* `RoomsInvariant` is the inductive invariant; `TypeCorrect` follows.  To the types it
  adds `Seated` (the players of a room are those who joined), `Starting` (a room that
  waits for the database has two players that picked, and its full time: the
  answer goes on whatever has become of the room meanwhile), and `Accounts` (each seat
  has two accounts that no other seat has; this is inductive only with all
  accounts given out being below the next).
* `SharedInvariant`: the symbol table and the lookup have their types, the table never
  loses a book, and never regains a place (`TableStays`, of each step), so that who
  has no book gets none (`BooklessKept`).
* `TradingLocks` is an action property: after full time a player trades only in the
  step in which a bot gets a price it asked for before.
* `MatchInvariant`: a room that was not started again is in one of four phases,
  `BeforeStart`, `WhileStarting`, `WhileLive` and `AfterFullTime`, and each says which bots
  there are and what they quote.  Starting is two waits for the database, one for
  each book, so the phase between them has one bot and knows whose.  A step either
  moves the match to the next phase, or is `Calm` for it: it leaves the room, does not
  take back a cancellation, and does not change a frozen score.  That the steps
  of one room are calm for the others is proved once.
  The bot of a player whose book found no place may leave early, and only that one
  (`BotsKept`).
* `OneBotPerMatch` and `ScoreStands` follow.

### 4.5 The lookup

`LookupProofs` proves, for one book in the process (`OneBook`), any hash function, any
number of ids, and any table larger than the pool (`LookupAssumption`; the code's is
twice as large), both properties that the run `lookup_of_one_book` checks:

* `LookupNamesTheOrder`: a search gives the slot of the order that has the id, and
  nothing if the book holds none;
* `ProbingEnds`: some position is always empty, which the loops of insertion and
  removal need to end.

The invariant (`LookupInvariant`; TLC checked it on the run's instance first) is

* `Sound` of the table: no id has two entries (`Distinct`), and no `Gap`: no empty position comes,
  on the way from an entry's home, before the entry (`Reachable`);
* the entries are the book's orders, each naming its slot (`OrdersOf`);
* `Pooled`: the free stack has each free slot once, and ids are not given twice.

Positions are compared by `Dist`, how far one comes after another on the circle,
which `Remainder` frees of its modulus.  Insertion puts the entry at the first empty
position, so its own way has no gap and it fills no one else's (`InsertIs`, `PutKeeps`).
Removal is a loop (`RescanLoopExists`, as in 4.3), and `Scan` is its invariant after d
turns: all entries but the removed one are there, an entry has a gap only if it stands
beyond the position scanned last, each gap comes no later than that position, and an
empty position the removal did not make is still ahead.  A turn that meets an entry takes
it out and inserts it again (`Reinserted`): its new way has no gap, and its old
position, if it left it, is a gap only of entries further on.  When the loop stops at an
empty position, an entry with a gap would stand beyond that position, which would be
a gap of the entry too, but one that is ahead, where there is none.  `NeverFull` is the
pigeonhole principle: the entries name different slots of a smaller pool.

### 4.6 The pipeline

`PipelineProofs` proves all three properties that the run `pipeline_flows` checks, for any
accounts, orders, amendments, limits, capacities and number of submissions.  It
assumes of the sizes what the models do (`EngineAssumption`,
`GatewayAssumption`), and of an order that a client sends only its types:
side and type are members of the enumerations, prices and quantities natural
numbers (`api/schemas.py:24-32` refuses others; zero is included, which validation
refuses later).

* `FillsReachAlways`: while the id map has room and no event was dropped, position and
  cash of each account are those of the fills of the orders it submitted;
* `ProfitExplainsAlways`: realised profit and the position at its average price are
  the cash, up to what rounding the average can have cost; with a full map too;
* `AdmittedOnceAlways`: a client order id is admitted once, and a duplicate is answered
  with an id of its own key.

The invariant (`PipelineInvariant`) is a conjunction of one fact per component and
one for each link between two:

* `EngineSound`: some consumer's knowledge makes `EInv` true of the engine.  The pipeline
  keeps no view of its own, but the invariant of 4.3 does not depend on who reads
  the events, and what is needed of it is that ids are handed out once and that
  trades have natural prices and positive quantities;
* `Cached`: the cache names no id twice for two served messages, and while it has room, has
  every message served.  An id that was given and then throttled is in the
  cache and was never served, which is why a duplicate may be answered with an
  id that is nobody's, but never with another's (`AckTold`);
* the ring has only messages that passed the gateway's checks;
* `Books`: of each account, the cash that profit and position do not explain is within the
  slack of its history; while the map has room, its numbers are those of its fills;
* `Recorded`: the map, once the order in the engine is recorded, has the first of the
  orders that were given an id.  During a step the map is one order behind,
  and `Expected` is what it will be.  That events are applied after the recording
  (`pipeline.c:322-341`) is what makes the fills on an order's own arrival found.

Of the arithmetic, `ExtensionExplained` says that adding q to a position of n loses
less than n + q to the rounding of the average, and `ClosedExplained` that reducing,
closing and flipping lose nothing; `FillKeeps` puts them together for one fill.
`LegKeeps` is one leg of a trade, `TradeKeeps` both (the aggressor's first; an account
may trade with itself), and `DrainedKeeps` the loop over the queue.  A fill goes to the
account of the first entry of the map that has the id (`LookupIs`); by `RecordedLookup`
that is the account that submitted the order, or, only once the map is full, none.

### 4.7 The bridge

The rest of `PipelineProofs` is about `Bridge`, and proves all the properties that the
run `bridge_views` checks, for any accounts, orders, amendments, limits and
capacities: what the adapter holds, in one invariant, and on top of it what clients
are shown of their orders, in another, and the bounds of the state, in a third.

#### The adapter's portfolios

`PortfoliosAgreeAlways` proves, for any
accounts, orders, amendments, limits and capacities, that whenever the poll queue is
empty, the portfolios that the adapter keeps by the trades it polls are those that
the pipeline keeps by its id map: if every id so far has had a place in the registry,
and no event was dropped on the way.  Cash and position agree always, average price
and profit unless the account traded with itself.  Three loops stand between
the two: the pipeline applies the engine's queue, the bridge translates the same
events into its own queue, and the adapter polls that one later, after any
number of calls.  Of the poll queue it is assumed that it has at least two slots
(`BridgeAssumption`; one stays empty), of the sizes below what 4.6 assumes.

The invariant (`BridgeInvariant`; TLC checked it on the run's instance first) is the
pipeline's together with

* `Calling`: `bridge_submit` is one call at a time.  The ring has at most its message,
  the engine's queue is empty when no message is in work, and a new order has its
  slot under the id given last, if the registry has one of that id;
* `Ordered`, `Begins`: the engine's ids of the orders given one go up, and the id map has
  the first of them;
* `Matched`: a slot's engine id leads back to the slot, and the other way round;
* `KnownIn`, and `AllKnown` while ids have slots: the registry and the id map know
  the same engine ids, with the same accounts.  This is what makes both sides
  attribute a fill to the same account (`KnownAttributes`), and it rests on the
  order of `bridge.c:384-397`: the new id is looked up before the staged events
  are translated;
* `Queue`, `Following`: the poll queue is numbered without a gap, and the client is at the
  number where it begins, or has missed an event and noticed;
* `Follows`: the positions the client will have once it has polled the queue are the
  accounts.  It holds between any two steps, which `PortfoliosAgree`, that looks
  at an empty queue, does not say.

`StagedPolls` is the heart: translating an event and then polling it is applying it.
`StepPolls` carries it through the queue of a step, `QueuePolled` through a drain.
The buyer's leg comes first for the adapter and the aggressor's for the pipeline,
which is the same for two accounts (`TradePolls` and the lemmas before it), and for
one account is not, hence the exception.

#### The orders shown

* `ViewsMatchEngineAlways`: the order a client is shown is the order the engine keeps;
* `StreamTellsViewsAlways`: the events alone tell the state of every order;
* `LadderToldAlways`: the ladder kept by the deltas is the book's;
* `TerminalIsFinalAlways`: an action property: no step changes a final status, in the
  registry or in the queue of events.

The promises are about states between two calls in which the engine has nothing
left to tell.  In between the engine is ahead of the registry by the events in its own
ring, and the registry ahead of the client by those in the poll queue.  The
invariant `VInv` (TLC checked it on the run's instance first) therefore speaks of
`Seen(Linking, me)`: the registry as it will be when the engine's events so far are
translated, the new order being linked to its engine id first, as in
`bridge.c:384-397`.  It says

* `Aimed`: a cancel or modification in work names a registered order and starts no
  scan of the stops;
* `InView`, that `Shown` is true of that registry, with parts for the orders that
  have no engine id yet (`Waiting`), and for those that have one (`Shows`): `Fits` the
  book, the dormant stops and the lost orders, or, for the one order that the engine
  is busy with, `Coming`: its trades are told, and no event of its own.  `Coming` is what
  the two-sided emission of the engine needs: a trade fills the aggressor in
  the registry before any event says that it rests, and the FILLED after the CANCELLED
  of an IOC order meets a slot that is final;
* `Streams`: a client that has missed nothing will know every order once it has polled
  (`Surfaces`); a final status lasts since the call was made, since an event
  in the queue, and from one event to a later one (`Final`);
* `Heard`: a new order that an event has touched has an event in the queue, so the
  synthetic answer and the engine's never both come, and one of them does;
* `LadderKept`: the ladder is the book's unless there is something to poll, or will be.

Nothing of this holds once the ring has dropped an event, so every part is stated
under `me.dropped = 0`.  The proof has three layers, and a lemma for each thing that
can happen in a layer:

* one event: `TradeShown` (both parties are filled by it; the resting one is surfaced),
  `OwnEventShown`, and for the stream of what they tell `TradeStreams` and `SnapshotStreams`;
* one call of the engine, along the path of its code: `MatchShows` and `TradedSees` carry
  the order in work through its fills, `SettleSees` through its end (killed, resting,
  refused for capacity), `SubmitSees`, `SubmitStopSees`, `CancelOrderSees`, `ModifyOrderSees` put
  them together, and `FireSees` is one stop of the cascade.  A fired stop re-enters
  under an id that is registered for no one (`UnregisteredSees`), which is why its
  fills disturb no view but those of the orders it meets;
* one step of the bridge: `EnterShows`, `DispatchedShows`, `CascadedShows`, `ReturnedShows`,
  `DroppedShows`, `DrainShows`.

#### The bounds

`BridgeTypeCorrect` proves `TypeOK` of the whole library.  Half of it is in the invariant
above: that the map of ids and the poll queue stay within their capacities, that the
queue is numbered without a gap and that ids are matched one to one (`Recorded`, `Queue`,
`Matched`).  The other half is `BoundsInv`, which TLC checked on the run's instance first:

* `Bounded`, of the engine: every price that rests or is in a trade event is in
  1..MAX_PRICE, which says of the sentinels of market orders (1 and MAX_PRICE) that they
  stay in range too; the limit of a dormant stop may be 0, that of a stop without
  one, and is replaced before it enters; the ring holds less than its slots.
  A trade has the price of the resting order, which is why it is in range whatever
  the aggressor offered.  Each call of the engine has a lemma (`SubmitBounded`,
  `ModifyOrderBounded`, `FiredBounded` and so on, in `EngineLemmas`);
* `Metered`, of the gateway: the bucket holds at most its burst, the ring less than
  its slots;
* `Cheap`: average prices are prices.  The rounded average of the old price and the
  fill's is at most the higher of the two (`AverageBounded`);
* `Counted`: what is left of an order in the registry is never negative: a fill in the
  registry stops at zero, and the engine never tells a negative remainder (`Fit`).

It alone assumes `PriceAssumption`: that no order has a price above MAX_PRICE.  Prices are
`int64_t`, and MAX_PRICE is the greatest of them.

### 4.8 Only model-checked

* The tree of levels: its operators are `RECURSIVE`, which the prover does not
  admit, and a proof by induction on the shape of a tree needs an induction theorem
  over operators.
* The lookup of several books in one process, which is wrong (section 5).
* Liveness (`CallReturns`, `BotsLeave`, and that the feed recovers): fairness and
  ENABLED are beyond the prover.
* That the loop of `ob_add_order` is as the engine's `Match` computes it is not a theorem:
  the one is proved to implement `PriceTimeBook` step by step, the other is
  written on the same abstract book.

## 5. Where the code and its documentation differ

Four are shown by a run of their own, with a counterexample of a few calls.

1. `lookup_shared_by_books`: the lookup is a `static` table of the process
   although every book numbers its orders from 1, and `ob_init` of a second book
   wipes it.  The bridge makes one book per symbol.  This is the most consequential one: an
   order of one symbol is found, cancelled or modified under the id of another's.
2. `depth_within_range`: at a level that is out of range `depth_in_tree` leaves
   out exactly the child on which the levels in range are.  The engine asks for
   range 0, so the quantity at the top of the book is told as 0 unless the best
   level happens to be the root of its tree.
3. `views_stay_accurate`: a stop that fires re-enters the engine as an order with
   an id of its own.  The bridge does not learn it, so the order the client knows is
   shown OPEN with its full quantity for ever.
4. `feed_drops_newest`: a client's full queue refuses the newest message
   (`subscriptions.py:81-85`); `api/README.md:76` says drop-oldest.  What the browser
   shows last is then not the last that was told.

The others are in the models as the code has them, without a run that shows them:

* the pump awaits its writes before it tells anybody (`main.py:102-103`), so a slow
  database holds up every client; `api/README.md:240-242` says that the writes never block
  the fan-out, and `main.py:96` "persist (best-effort) then fan-out".  `WrittenFirst` is the
  second of the two promises, and is kept at the cost of the first;
* a reduction of an order's quantity at its price sends it to the back of its queue
  (`orderbook.c:697`; `orderbook.h:267`: "Reducing qty within the same price keeps time
  priority.");
* a modification to a new price at the level limit takes the order off the book, then
  finds there is no room and frees it (`orderbook.c:702`), without an event
  (`matching_engine.c:499`); `orderbook.h:271` knows a refusal for invalid parameters only;
* a client whose order was turned away by a full ring, and who tries again, is answered
  DUPLICATE with the id of an order that never entered (`gateway.c:237`, `303`;
  `gateway.h:20`: "duplicates return original ack");
* with a database, a second pick while a room is going live starts it twice; the
  instrument is read before the wait and the book's symbol after it, so a bot
  quotes one instrument in the book of another (`rooms.py:161-171`; against
  `rooms.py:8-10`);
* `create` asks for four accounts and takes two, `join` takes two more without asking
  (`rooms.py:81`, `100`), so the last of many waiting rooms get accounts the engine does
  not have (`pipeline.h:86`: "account_id must be 1..PIPELINE_MAX_ACCOUNTS.");
* a book opened during a match wipes the lookup all books share, the bot's cancels find
  nothing, `_cancel_quiet` takes no notice (`market_maker.py:47-52`), and its quotes stay in
  the book of the finished match (`market_maker.py:85-86`: "so the final book state is only
  what the players left behind");
* an order the book refuses for capacity returns OK to the engine's caller
  (`matching_engine.c:308`; `orderbook.h:50`: "order resting, zero fills");
* the remainder of a market order rests at the sentinel price
  (`matching_engine.c:274`; `matching_engine.h:52`: "fill at any price, no resting");
* stops are compared with the price of a submission's last fill only
  (`matching_engine.c:336`; line 169: "Stops are scanned after every trade.");
* each order is checked against the filled position alone, so two resting orders
  within the limit fill to a position beyond it (`portfolio.c:98`;
  `portfolio.h:36`: "abs(net_qty) limit"); reservations are never released;
* an order whose remainder can have no level is REJECTED with an id and possibly
  fills (`orderbook.h` says 0 on REJECTED); an
  IOC order whose remainder was cancelled is reported FILLED by the engine (the
  bridge corrects it);
* a match goes live although a book of it could not be opened (`rooms.py:163`);
* "resubscribe if you detect a gap" (`api/README.md:196`) cannot be done: the
  numbers are shared by all channels and symbols, and a snapshot takes one too;
* after a restart of the API the gateway's ids start at 1 again and the upsert
  overwrites the rows of earlier orders (`persistence.py:97`).

## 6. Not modelled, and why

* In the C library: `ob_spread`, `ob_mid_price`, `ob_get_order` and the printing
  of a book, which change nothing; which slot of a pool is handed out; the
  addresses behind the intrusive lists; the lock of `OB_ENABLE_THREADS`, which no
  build sets; timestamps other than their order; the journal, which nothing in
  the program reads; `portfolio_release`, which nothing calls; the table of
  bridge handles; subscribers of the bus other than the bridge.  The
  idempotency cache and the map of ids are maps of bounded size (entries are
  never removed, so their probing finds what was inserted).
* Adapter and bridge: several symbols at once.  The bridge gives each symbol its
  own base of ids and shares nothing between them but the lookup table, whose
  sharing is the first finding of section 5; `Bridge` has one.  `Rooms` has the effect
  of that sharing on the bots' and players' cancels, and on nothing else.
* Rooms: prices and therefore the winner, the gateway's throttling of the bots'
  orders and cancels (10,000 a second, with a burst of 2,000), tokens, the modification of orders
  (`PATCH`, which passes the same gate), the funding of accounts, the shutdown of
  the server.
* Feed: the channels of trades and portfolios, authentication, the rows of
  trades and the ledger, a restart of the server.
* The mock engine, the rest of the frontend, configuration, logging, metrics,
  demos: no state that the system's correctness rests on, or pure I/O.

## 7. Plan

The model of the pipeline: an id map that overflows, reservations against resting
orders.
