-------------------------------- MODULE Rooms --------------------------------
(***************************************************************************)
(* Face-off rooms, api/rooms.py, their market maker bots,                  *)
(* api/market_maker.py, and the gate of api/routes_orders.py.  Everything  *)
(* runs on one event loop, so a step lasts from one suspension to the      *)
(* next.  With the C engine a call of the engine never suspends; what      *)
(* does is the fetch of a price, a sleep, the closing of a bot's HTTP      *)
(* client and, when the API has a database, the seeding of a book's rows   *)
(* while a room goes live.                                                 *)
(*                                                                         *)
(* Each player trades alone against a bot in a book of their own.  Prices, *)
(* sides and quantities are left out: whether two orders trade is a        *)
(* choice, and a portfolio is known by the number of its trades.  What the *)
(* books do share is modelled by what it does to a match: the symbol table *)
(* may have no place for a book, and the lookup behind a cancel may name   *)
(* the wrong order or none (module LookupTable).                           *)
(***************************************************************************)
EXTENDS Integers, FiniteSets

CONSTANTS
  Codes,                \* room codes
  Instruments,          \* the roster
  NoInstrument,         \* a player that has not picked
  MAX_ENGINE_ACCOUNTS,
  BRIDGE_MAX_SYMBOLS,   \* places in the engine's symbol table
  DURATION,             \* length of a match, in ticks
  MAX_TIME,             \* bound: the last tick
  MAX_STARTS,           \* bound: times one room goes live
  Choices,              \* bound: player -> the instruments it considers
  Traders,              \* bound: the players that place orders
  MAX_FILLS             \* bound: trades of one player

ASSUME RoomsAssumption ==
  /\ MAX_ENGINE_ACCOUNTS \in Nat /\ BRIDGE_MAX_SYMBOLS \in Nat /\ DURATION \in Nat \ {0}
  /\ MAX_TIME \in Nat /\ MAX_STARTS \in Nat /\ MAX_FILLS \in Nat
  /\ NoInstrument \notin Instruments /\ Choices \in [{1, 2} -> SUBSET Instruments] /\ Traders \subseteq {1, 2}

VARIABLES
  db,            \* is there a database?
  now,           \* time.time()
  next_account,  \* RoomRegistry._next_account
  rooms,         \* code -> room
  going,         \* <<code, start>> -> a _go_live that waits for the database
  bots,          \* <<code, player, start>> -> a run_market_maker task
  table,         \* the symbol table: the books of rooms in it, places left
  lookup,        \* the lookup of all books: those that used it, and those
                 \* that had orders in it when it was wiped
  quoted,        \* the books in which there is a quote of a bot
  resting,       \* <<code, player>> -> has the player an order in the book?
  fills          \* <<code, player>> -> trades in the player's portfolio

vars == <<db, now, next_account, rooms, going, bots, table, lookup, quoted, resting, fills>>

Pids == {1, 2}
Seats == Codes \X Pids
Books == Codes \X Pids \X Instruments

(* f with x mapped to y, whether or not x was in its domain. *)
With(f, x, y) == [z \in DOMAIN f \cup {x} |-> IF z = x THEN y ELSE f[z]]
Without(f, x) == [z \in DOMAIN f \ {x} |-> f[z]]

NoRoom == [status |-> "none", ends_at |-> 0, players |-> [p \in {} |-> 0],
           starts |-> 0, again |-> FALSE, final |-> [p \in {} |-> 0]]

Init ==
  /\ db \in BOOLEAN
  /\ now = 0
  /\ next_account = 1
  /\ rooms = [c \in Codes |-> NoRoom]
  /\ going = [t \in {} |-> 0]
  /\ bots = [t \in {} |-> 0]
  /\ table = [books |-> {}, left |-> BRIDGE_MAX_SYMBOLS]
  /\ lookup = [used |-> {}, wiped |-> {}]
  /\ quoted = {}
  /\ resting = [s \in Seats |-> FALSE]
  /\ fills = [s \in Seats |-> 0]

----------------------------------------------------------------------------
(* Taking a seat. *)

(* Mutant: the bot's account is not set aside. *)
AccountsTaken_One == 1

AccountsTaken == 2

(* The room with a new player in seat p. *)
_new_player(room, p) ==
  [room EXCEPT !.players =
     With(@, p, [account_id |-> next_account, bot_account_id |-> next_account + 1,
                 instrument_id |-> NoInstrument, bot_task |-> 0])]

create(c) ==
  /\ rooms[c].status = "none"
  /\ next_account + 4 <= MAX_ENGINE_ACCOUNTS
  /\ rooms' = [rooms EXCEPT ![c] = [_new_player(rooms[c], 1) EXCEPT !.status = "waiting"]]
  /\ next_account' = next_account + AccountsTaken
  /\ UNCHANGED <<db, now, going, bots, table, lookup, quoted, resting, fills>>

(* A join takes its accounts without looking whether the engine has them. *)
join(c) ==
  /\ rooms[c].status = "waiting"
  /\ rooms' = [rooms EXCEPT ![c] = [_new_player(rooms[c], 2) EXCEPT !.status = "picking"]]
  /\ next_account' = next_account + AccountsTaken
  /\ UNCHANGED <<db, now, going, bots, table, lookup, quoted, resting, fills>>

----------------------------------------------------------------------------
(* What the books share: the symbol table, from which nothing is ever      *)
(* removed, and the lookup from an order's id to its place.                *)

(* The book of player p: that of the instrument picked last. *)
Book(c, p) == <<c, p, rooms[c].players[p].instrument_id>>

(* The table after a call that names book b, which any call does that      *)
(* finds no such book: it is added if there is a place.                    *)
_handle(tab, b) ==
  IF b \in tab.books \/ tab.left = 0 THEN tab
  ELSE [books |-> tab.books \cup {b}, left |-> tab.left - 1]

(* The books with an order. *)
Occupied ==
  {b \in Books : b \in quoted \/ (resting[<<b[1], b[2]>>] /\ b = Book(b[1], b[2]))}

(* A new book wipes the lookup, and the orders in it are forgotten.        *)
Wiped(tab) == IF tab = table THEN lookup.wiped ELSE lookup.wiped \cup Occupied

(* Does the lookup know every order of book b?  The ids of different books *)
(* are the same, so that those of another book spoil it too.               *)
Sure(b) == b \notin lookup.wiped /\ lookup.used \subseteq {b}

(* A request names a symbol that is no room's: a place is gone. *)
OtherSymbol ==
  /\ table.left > 0
  /\ table' = [table EXCEPT !.left = @ - 1]
  /\ lookup' = [lookup EXCEPT !.wiped = Wiped(table')]
  /\ UNCHANGED <<db, now, next_account, rooms, going, bots, quoted, resting, fills>>

----------------------------------------------------------------------------
(* Going live. *)

Picked(room) == /\ DOMAIN room.players = Pids
                /\ \A p \in Pids : room.players[p].instrument_id # NoInstrument

(* The bot of player p, which quotes the price of feed.  The book is the   *)
(* one of the instrument the player has picked by now.                     *)
NewBot(room, p, feed) ==
  [at |-> "start", feed |-> feed,
   book |-> room.players[p].instrument_id, ends_at |-> room.ends_at]

(* ensure_account opens the player's book; whether it could is not asked.  *)
Opened(tab, c, room, p) == _handle(tab, <<c, p, room.players[p].instrument_id>>)

(* The rest of _go_live when nothing suspends it: both bots, then live. *)
LiveAtOnce(c, room) ==
  LET k == room.starts IN
  /\ rooms' = [rooms EXCEPT ![c] =
                 [room EXCEPT !.status = "live",
                              !.players = [p \in Pids |-> [room.players[p] EXCEPT !.bot_task = k]]]]
  /\ bots' = [t \in DOMAIN bots \cup {<<c, p, k>> : p \in Pids} |->
                IF t \in DOMAIN bots THEN bots[t]
                ELSE NewBot(room, t[2], room.players[t[2]].instrument_id)]
  /\ table' = Opened(Opened(table, c, room, 1), c, room, 2)
  /\ UNCHANGED going

(* With a database _go_live first waits for the rows of player 1's book. *)
LiveLater(c, room) ==
  /\ rooms' = [rooms EXCEPT ![c] = room]
  /\ going' = With(going, <<c, room.starts>>,
                   [player |-> 1, feed |-> room.players[1].instrument_id])
  /\ table' = Opened(table, c, room, 1)
  /\ UNCHANGED bots

(* Mutant: a player may change the pick in a match that is under way. *)
MayPick_Live(room) == room.status \in {"waiting", "picking", "live"}

MayPick(room) == room.status \in {"waiting", "picking"}

(* Every pick that finds both players decided runs _go_live, also while an *)
(* earlier one waits for the database.                                     *)
pick(c, p, i) ==
  LET room == [rooms[c] EXCEPT !.players[p].instrument_id = i,
                               !.again = @ \/ \E t \in DOMAIN going : t[1] = c]
      started == [room EXCEPT !.ends_at = now + DURATION, !.starts = @ + 1]
  IN
  /\ p \in DOMAIN rooms[c].players
  /\ MayPick(rooms[c])
  /\ IF Picked(room)
     THEN /\ room.starts < MAX_STARTS
          /\ now + DURATION <= MAX_TIME
          /\ IF db THEN LiveLater(c, started) ELSE LiveAtOnce(c, started)
     ELSE rooms' = [rooms EXCEPT ![c] = room] /\ UNCHANGED <<going, bots, table>>
  /\ lookup' = [lookup EXCEPT !.wiped = Wiped(table')]
  /\ UNCHANGED <<db, now, next_account, quoted, resting, fills>>

NextPlayer(p) == IF p = 1 THEN 2 ELSE 0

(* The database answers: the bot starts, and _go_live goes on to the next  *)
(* player or ends, whatever has become of the room.                        *)
Seeded(t) ==
  LET c == t[1]
      p == going[t].player
      q == NextPlayer(p)
      room == [rooms[c] EXCEPT !.players[p].bot_task = t[2]]
  IN
  /\ bots' = With(bots, <<c, p, t[2]>>, NewBot(room, p, going[t].feed))
  /\ rooms' = [rooms EXCEPT ![c] = IF q # 0 THEN room ELSE [room EXCEPT !.status = "live"]]
  /\ going' = IF q = 0 THEN Without(going, t)
              ELSE With(going, t, [player |-> q, feed |-> room.players[q].instrument_id])
  /\ table' = IF q = 0 THEN table ELSE Opened(table, c, room, q)
  /\ lookup' = [lookup EXCEPT !.wiped = Wiped(table')]
  /\ UNCHANGED <<db, now, next_account, quoted, resting, fills>>

----------------------------------------------------------------------------
(* Full time.  Nobody watches the clock: a room is found to be due by the  *)
(* first request that looks at it.                                         *)

Due(room) == room.status = "live" /\ now >= room.ends_at

(* Mutant: the bots play on until they look at the clock themselves. *)
Stopped_Never(c) == {}

(* The tasks that finish cancels: the last one started for each player.    *)
(* Whatever such a task waits for, the next thing it does is to end.       *)
Stopped(c) == {<<c, p, rooms[c].players[p].bot_task>> : p \in DOMAIN rooms[c].players}

Finished(c) == [rooms[c] EXCEPT !.status = "finished",
                                !.final = [p \in Pids |-> fills[<<c, p>>]]]

finish(c) ==
  /\ rooms' = [rooms EXCEPT ![c] = Finished(c)]
  /\ bots' = [t \in DOMAIN bots |->
                IF t \in Stopped(c) THEN [bots[t] EXCEPT !.at = "ending"] ELSE bots[t]]

finish_if_due(c) ==
  /\ Due(rooms[c])
  /\ finish(c)
  /\ UNCHANGED <<db, now, next_account, going, table, lookup, quoted, resting, fills>>

----------------------------------------------------------------------------
(* Players. *)

(* Mutant: the gate asks for the room's status and not for the clock. *)
_gate_player_StatusOnly(c) == rooms[c].status = "live"

_gate_player(c) == rooms[c].status = "live" /\ ~Due(rooms[c])

Filled(seat) == fills[seat] < MAX_FILLS /\ fills' = [fills EXCEPT ![seat] = @ + 1]

(* An order of player p takes a quote, whoever still knows of it, which it *)
(* may use up, or rests.  Without a book it is rejected.                   *)
post_order(c, p) ==
  LET b == Book(c, p) IN
  /\ _gate_player(c)
  /\ table' = _handle(table, b)
  /\ b \in table'.books
  /\ lookup' = [used |-> lookup.used \cup {b}, wiped |-> Wiped(table')]
  /\ \/ /\ b \in quoted /\ Filled(<<c, p>>)
        /\ quoted' \in {quoted, quoted \ {b}}
        /\ UNCHANGED resting
     \/ /\ ~resting[<<c, p>>]
        /\ resting' = [resting EXCEPT ![<<c, p>>] = TRUE]
        /\ UNCHANGED <<quoted, fills>>
  /\ UNCHANGED <<db, now, next_account, rooms, going, bots>>

(* A cancel need not take out the order it names: where the lookup is not  *)
(* sure it finds nothing, or another order of the book.                    *)
delete_order(c, p) ==
  LET b == Book(c, p) IN
  /\ _gate_player(c)
  /\ resting[<<c, p>>]
  /\ \/ resting' = [resting EXCEPT ![<<c, p>>] = FALSE] /\ UNCHANGED quoted
     \/ ~Sure(b) /\ quoted' \in {quoted, quoted \ {b}} /\ UNCHANGED resting
  /\ UNCHANGED <<db, now, next_account, rooms, going, bots, table, lookup, fills>>

----------------------------------------------------------------------------
(* The bot. *)

(* Mutant: the loop does not look at the clock. *)
InTime_Always(bot) == TRUE

InTime(bot) == now < bot.ends_at

(* The head of the loop. *)
LoopHead(bot) == [bot EXCEPT !.at = IF InTime(bot) THEN "fetch" ELSE "ending"]

(* The book a bot quotes in. *)
Quoting(t) == <<t[1], t[2], bots[t].book>>

(* The bot asks for its account, and without a book the task is over. *)
Start(t) ==
  /\ bots[t].at = "start"
  /\ table' = _handle(table, Quoting(t))
  /\ bots' = IF Quoting(t) \in table'.books THEN [bots EXCEPT ![t] = LoopHead(@)]
             ELSE Without(bots, t)
  /\ lookup' = [lookup EXCEPT !.wiped = Wiped(table')]
  /\ UNCHANGED <<db, now, next_account, rooms, going, quoted, resting, fills>>

(* A sleep is over. *)
Loop(t) ==
  /\ bots[t].at = "ready"
  /\ bots' = [bots EXCEPT ![t] = LoopHead(@)]
  /\ UNCHANGED <<db, now, next_account, rooms, going, table, lookup, quoted, resting, fills>>

(* Bot t's quotes meet the player's orders. *)
Meets(t) == Quoting(t) = Book(t[1], t[2]) /\ resting[<<t[1], t[2]>>]

(* A cancel of bot t takes out the player's order in place of a quote. *)
Mistaken(t) ==
  /\ ~Sure(Quoting(t)) /\ Meets(t)
  /\ resting' = [resting EXCEPT ![<<t[1], t[2]>>] = FALSE]

(* The price is in: both quotes are cancelled, with or without success,    *)
(* and quoted anew.  A new quote may take the player's resting order, or   *)
(* be used up by it or by a second bot of the same book, or be missing     *)
(* because its price is zero.                                              *)
Requote(t) ==
  LET b == Quoting(t)
      seat == <<t[1], t[2]>>
  IN
  /\ bots[t].at = "fetch"
  /\ bots' = [bots EXCEPT ![t].at = "ready"]
  /\ quoted' \in {quoted \ {b}, quoted \cup {b}}
  /\ lookup' = [lookup EXCEPT !.used = @ \cup {b}]
  /\ \/ UNCHANGED <<resting, fills>>
     \/ Mistaken(t) /\ UNCHANGED fills
     \/ /\ Meets(t) /\ Filled(seat)
        /\ resting' \in {resting, [resting EXCEPT ![seat] = FALSE]}
  /\ UNCHANGED <<db, now, next_account, rooms, going, table>>

(* The feed has a hiccup: the tick is skipped. *)
SkipTick(t) ==
  /\ bots[t].at = "fetch"
  /\ bots' = [bots EXCEPT ![t].at = "ready"]
  /\ UNCHANGED <<db, now, next_account, rooms, going, table, lookup, quoted, resting, fills>>

(* The client is closed, or the cancellation has arrived: the quotes are   *)
(* cancelled and the task is gone.  _cancel_quiet swallows what fails, and *)
(* what is left of a second bot of the same book stays.                    *)
EndBot(t) ==
  LET b == Quoting(t)
      alone == \A u \in DOMAIN bots : u # t => Quoting(u) # b
  IN
  /\ bots[t].at = "ending"
  /\ bots' = Without(bots, t)
  /\ quoted' = quoted \ {b} \/ (~(alone /\ Sure(b)) /\ UNCHANGED quoted)
  /\ Mistaken(t) \/ UNCHANGED resting
  /\ UNCHANGED <<db, now, next_account, rooms, going, table, lookup, fills>>

----------------------------------------------------------------------------
Tick ==
  /\ now < MAX_TIME
  /\ now' = now + 1
  /\ UNCHANGED <<db, next_account, rooms, going, bots, table, lookup, quoted, resting, fills>>

BotStep(t) == Start(t) \/ Loop(t) \/ Requote(t) \/ SkipTick(t) \/ EndBot(t)

Next ==
  \/ \E c \in Codes : create(c) \/ join(c) \/ finish_if_due(c)
  \/ \E c \in Codes, p \in Pids : \E i \in Choices[p] : pick(c, p, i)
  \/ \E c \in Codes, p \in Traders : post_order(c, p) \/ delete_order(c, p)
  \/ \E t \in DOMAIN going : Seeded(t)
  \/ \E t \in DOMAIN bots : BotStep(t)
  \/ OtherSymbol \/ Tick

(* The loop runs what is ready, a fetch has a timeout, a sleep ends, and   *)
(* the clock goes on.  Nothing is assumed of the players or the database.  *)
BotIds == Codes \X Pids \X (1 .. MAX_STARTS)

Fairness ==
  /\ WF_vars(Tick)
  /\ \A t \in BotIds : WF_vars(t \in DOMAIN bots /\ BotStep(t))

Spec == Init /\ [][Next]_vars /\ Fairness
==============================================================================
