------------------------------ MODULE RoomsProps ------------------------------
(***************************************************************************)
(* What the rooms promise the two players.                                 *)
(***************************************************************************)
EXTENDS Rooms

PlayerType ==
  [account_id : 1 .. next_account - 1, bot_account_id : 1 .. next_account - 1,
   instrument_id : Instruments \cup {NoInstrument}, bot_task : 0 .. MAX_STARTS]

(* The accounts handed out so far: no two seats share one, and a bot never *)
(* trades on a player's (rooms.py:100-111).                                *)
OwnAccounts ==
  LET seats == {s \in Seats : s[2] \in DOMAIN rooms[s[1]].players}
      held(s) == {rooms[s[1]].players[s[2]].account_id,
                  rooms[s[1]].players[s[2]].bot_account_id}
  IN /\ \A s \in seats : held(s) \subseteq 1 .. next_account - 1 /\ Cardinality(held(s)) = 2
     /\ \A s, u \in seats : s # u => held(s) \cap held(u) = {}

(* The state of the rooms, the bots and the players (rooms.py:51-73,       *)
(* market_maker.py:62-71), with accounts of their own for every seat.      *)
TypeOK ==
  /\ \A c \in Codes :
       LET room == rooms[c] IN
       /\ room.status \in {"none", "waiting", "picking", "live", "finished"}
       /\ room.ends_at \in 0 .. MAX_TIME /\ room.starts \in 0 .. MAX_STARTS
       /\ DOMAIN room.players = CASE room.status = "none" -> {}
                                  [] room.status = "waiting" -> {1}
                                  [] OTHER -> Pids
       /\ \A p \in DOMAIN room.players : room.players[p] \in PlayerType
  /\ DOMAIN bots \subseteq BotIds
  /\ \A t \in DOMAIN bots :
       bots[t] \in [at : {"start", "ready", "fetch", "ending"}, feed : Instruments,
                    book : Instruments, ends_at : 1 .. MAX_TIME]
  /\ table \in [books : SUBSET Books, left : 0 .. BRIDGE_MAX_SYMBOLS]
  /\ lookup \in [used : SUBSET Books, wiped : SUBSET Books]
  /\ quoted \subseteq Books
  /\ OwnAccounts

(* Player p has no book and gets none: the symbol table is full.           *)
Bookless(c, p) == table.left = 0 /\ Book(c, p) \notin table.books

(* When both have picked, each player's book has one bot that quotes the   *)
(* instrument the player picked (rooms.py:8-10), for as long as the match  *)
(* lasts, and no other; without a book the bot gives up                    *)
(* (market_maker.py:58-61) while the match goes live all the same, as      *)
(* _go_live does not ask what became of its own ensure_account.  A pick    *)
(* that arrives while the room is going live and waits for the database    *)
(* (rooms.py:163) spoils it: the instrument is read before the wait and    *)
(* the book's symbol after it, so that the bot of the first start quotes   *)
(* the price of the old instrument in the book of the new one, beside the  *)
(* bot of the second start.                                                *)
OneBotPerBook ==
  \A c \in Codes, p \in Pids :
    LET room == rooms[c]
        own == {t \in DOMAIN bots : t[1] = c /\ t[2] = p}
    IN room.status = "live" /\ ~room.again =>
         /\ own \subseteq {<<c, p, room.players[p].bot_task>>}
         /\ now < room.ends_at => own # {} \/ Bookless(c, p)
         /\ \A t \in own : /\ bots[t].feed = room.players[p].instrument_id
                           /\ bots[t].book = bots[t].feed
                           /\ bots[t].ends_at = room.ends_at

(* The frozen scoreboard stays what the players' portfolios say: nothing   *)
(* that was under way at full time, a price on its way to a bot or an      *)
(* order that passed the gate, trades with a player afterwards             *)
(* (rooms.py:177-190).  The same exception: the bots of the first start    *)
(* are not cancelled, and the second start opens the match again.          *)
FinalStands ==
  \A c \in Codes : rooms[c].status = "finished" /\ ~rooms[c].again =>
    \A p \in Pids : rooms[c].final[p] = fills[<<c, p>>]

(* "Full time: trading locks" (rooms.py:11), although nobody watches the   *)
(* clock: from then on a player trades only when a bot gets the price that *)
(* it asked for before full time and quotes once more.                     *)
FullTimeLocks ==
  [][\A c \in Codes, p \in Pids :
       fills'[<<c, p>>] # fills[<<c, p>>] /\ now >= rooms[c].ends_at =>
         \E t \in DOMAIN bots : /\ t[1] = c /\ t[2] = p
                                /\ bots[t].at = "fetch" /\ bots'[t].at = "ready"]_vars

(* Every bot of a room that went live leaves for good, whether or not      *)
(* anybody asks for the score, and however often the room started          *)
(* (market_maker.py:68, rooms.py:184): nothing quotes in its books any     *)
(* more.                                                                   *)
BotsLeave ==
  \A c \in Codes : rooms[c].status = "live" ~> [](\A t \in DOMAIN bots : t[1] # c)
==============================================================================
