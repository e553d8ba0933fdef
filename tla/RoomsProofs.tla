----------------------------- MODULE RoomsProofs -----------------------------
(***************************************************************************)
(* Proofs about Rooms for every set of room codes, instruments and         *)
(* traders, every length of a match and every number of starts: no two     *)
(* seats share an account, a match that started once has the two bots it   *)
(* promises and no others, unless the symbol table is full, its frozen     *)
(* scoreboard stands, and trading locks at full time but for a price that  *)
(* is under way.                                                           *)
(***************************************************************************)
EXTENDS RoomsProps, TLAPS, FiniteSetTheorems

Player == [account_id : Nat, bot_account_id : Nat,
           instrument_id : Instruments \cup {NoInstrument}, bot_task : 0 .. MAX_STARTS]

(* What a room keeps of its players: a function on those that have joined. *)
OfPlayers(S) == UNION {[D -> S] : D \in SUBSET Pids}

Room == [status : {"none", "waiting", "picking", "live", "finished"},
         ends_at : 0 .. MAX_TIME, players : OfPlayers(Player),
         starts : 0 .. MAX_STARTS, again : BOOLEAN, final : OfPlayers(Nat)]

Bot == [at : {"start", "ready", "fetch", "ending"}, feed : Instruments, book : Instruments,
        ends_at : 1 .. MAX_TIME]

(* The seats of a room that are taken. *)
Taken(room) == CASE room.status = "none" -> {}
                 [] room.status = "waiting" -> {1}
                 [] OTHER -> Pids

Typed ==
  /\ db \in BOOLEAN /\ now \in 0 .. MAX_TIME /\ next_account \in Nat \ {0}
  /\ rooms \in [Codes -> Room]
  /\ DOMAIN going \subseteq Codes \X (1 .. MAX_STARTS)
  /\ going \in [DOMAIN going -> [player : Pids, feed : Instruments]]
  /\ DOMAIN bots \subseteq BotIds /\ bots \in [DOMAIN bots -> Bot]
  /\ resting \in [Seats -> BOOLEAN] /\ fills \in [Seats -> Nat]

Seated ==
  \A c \in Codes : /\ DOMAIN rooms[c].players = Taken(rooms[c])
                   /\ rooms[c].status = "live" => Picked(rooms[c])

(* A room that goes live has two players that picked, and its full time.   *)
Starting == \A t \in DOMAIN going : Picked(rooms[t[1]]) /\ rooms[t[1]].ends_at >= 1

(* The accounts of a seat. *)
Sits(c, p) == p \in DOMAIN rooms[c].players

Held(c, p) == {rooms[c].players[p].account_id, rooms[c].players[p].bot_account_id}

Accounts ==
  \A c \in Codes, p \in Pids : Sits(c, p) =>
    /\ Held(c, p) \subseteq 1 .. next_account - 1
    /\ rooms[c].players[p].account_id # rooms[c].players[p].bot_account_id
    /\ \A d \in Codes, r \in Pids : Sits(d, r) /\ (c # d \/ p # r) => Held(c, p) \cap Held(d, r) = {}

IInv == Typed /\ Seated /\ Starting /\ Accounts

-----------------------------------------------------------------------------
(* What a room keeps of its players, spelled out. *)
LEMMA OfPlayersIs ==
  ASSUME NEW S
  PROVE  \A f : f \in OfPlayers(S) => DOMAIN f \subseteq Pids /\ f \in [DOMAIN f -> S]
  BY DEF OfPlayers

(* A function on some of the players is kept. *)
LEMMA OfPlayersHas ==
  ASSUME NEW S, NEW D, D \subseteq Pids, NEW f \in [D -> S]
  PROVE  f \in OfPlayers(S) /\ DOMAIN f = D
  BY DEF OfPlayers

(* The fields of a room. *)
LEMMA RoomFields ==
  ASSUME NEW room \in Room
  PROVE  /\ room.status \in {"none", "waiting", "picking", "live", "finished"}
         /\ room.ends_at \in 0 .. MAX_TIME /\ room.starts \in 0 .. MAX_STARTS
         /\ room.again \in BOOLEAN /\ room.final \in OfPlayers(Nat)
         /\ room.players \in OfPlayers(Player)
         /\ DOMAIN room.players \subseteq Pids
         /\ \A p \in DOMAIN room.players : room.players[p] \in Player
<1>1. /\ room.status \in {"none", "waiting", "picking", "live", "finished"}
      /\ room.ends_at \in 0 .. MAX_TIME /\ room.starts \in 0 .. MAX_STARTS
      /\ room.again \in BOOLEAN /\ room.final \in OfPlayers(Nat)
      /\ room.players \in OfPlayers(Player)
  BY DEF Room
<1> QED
  BY <1>1, OfPlayersIs

(* Replacing one room leaves the others. *)
LEMMA RoomUpdate ==
  ASSUME Typed, NEW c \in Codes, NEW room \in Room, rooms' = [rooms EXCEPT ![c] = room]
  PROVE  /\ rooms' \in [Codes -> Room] /\ rooms'[c] = room
         /\ \A d \in Codes : d # c => rooms'[d] = rooms[d]
  BY DEF Typed

(* The rooms and their players have types. *)
LEMMA RoomOf ==
  ASSUME Typed, NEW c \in Codes
  PROVE  /\ rooms[c] \in Room /\ DOMAIN rooms[c].players \subseteq Pids
         /\ \A p \in DOMAIN rooms[c].players : rooms[c].players[p] \in Player
<1>1. rooms[c] \in Room
  BY DEF Typed
<1> QED
  BY <1>1, RoomFields

(* The accounts do not depend on anything else of the rooms. *)
LEMMA AccountsKept ==
  ASSUME Accounts, next_account' = next_account,
         \A c \in Codes : DOMAIN rooms'[c].players = DOMAIN rooms[c].players,
         \A c \in Codes : \A p \in DOMAIN rooms[c].players :
           /\ rooms'[c].players[p].account_id = rooms[c].players[p].account_id
           /\ rooms'[c].players[p].bot_account_id = rooms[c].players[p].bot_account_id
  PROVE  Accounts'
<1>1. \A c \in Codes, p \in Pids : Sits(c, p)' = Sits(c, p)
  BY DEF Sits
<1>2. \A c \in Codes, p \in Pids : Sits(c, p) =>
        /\ Held(c, p)' = Held(c, p)
        /\ rooms'[c].players[p].account_id = rooms[c].players[p].account_id
        /\ rooms'[c].players[p].bot_account_id = rooms[c].players[p].bot_account_id
  BY DEF Sits, Held
<1> QED
  BY <1>1, <1>2 DEF Accounts

(* A new seat takes the next two accounts, which nobody holds.             *)
LEMMA AccountsGranted ==
  ASSUME Typed, Accounts, NEW c \in Codes, NEW p \in Pids, ~Sits(c, p),
         next_account' = next_account + 2,
         \A d \in Codes, r \in Pids : d # c \/ r # p => Sits(d, r)' = Sits(d, r),
         \A d \in Codes, r \in Pids : Sits(d, r) => rooms'[d].players[r] = rooms[d].players[r],
         rooms'[c].players[p].account_id = next_account,
         rooms'[c].players[p].bot_account_id = next_account + 1
  PROVE  Accounts'
<1>1. next_account \in Nat \ {0}
  BY DEF Typed
<1>2. Held(c, p)' = {next_account, next_account + 1}
  BY DEF Held
<1>3. \A d \in Codes, r \in Pids : Sits(d, r) =>
        /\ Held(d, r)' = Held(d, r) /\ Held(d, r) \subseteq 1 .. next_account - 1
        /\ rooms'[d].players[r].account_id # rooms'[d].players[r].bot_account_id
  BY DEF Held, Accounts
<1>4. \A d \in Codes, r \in Pids : Sits(d, r) => Held(d, r)' \cap Held(c, p)' = {}
  BY <1>1, <1>2, <1>3
<1>5. \A d \in Codes, r \in Pids : Sits(d, r)' => Sits(d, r) \/ (d = c /\ r = p)
  OBVIOUS
<1>6. ASSUME NEW d \in Codes, NEW r \in Pids, Sits(d, r)'
      PROVE  /\ Held(d, r)' \subseteq 1 .. next_account' - 1
             /\ rooms'[d].players[r].account_id # rooms'[d].players[r].bot_account_id
  <2>1. CASE Sits(d, r)
    BY <1>1, <1>3, <2>1
  <2>2. CASE d = c /\ r = p
    BY <1>1, <1>2, <2>2
  <2> QED
    BY <1>5, <1>6, <2>1, <2>2
<1>7. ASSUME NEW d \in Codes, NEW r \in Pids, NEW e \in Codes, NEW u \in Pids,
             Sits(d, r)', Sits(e, u)', d # e \/ r # u
      PROVE  Held(d, r)' \cap Held(e, u)' = {}
  <2>1. CASE Sits(d, r) /\ Sits(e, u)
    BY <1>3, <1>7, <2>1 DEF Accounts
  <2>2. CASE d = c /\ r = p
    <3>1. Sits(e, u)
      BY <1>5, <1>7, <2>2
    <3> QED
      BY <1>4, <2>2, <3>1
  <2>3. CASE e = c /\ u = p
    <3>1. Sits(d, r)
      BY <1>5, <1>7, <2>3
    <3> QED
      BY <1>4, <2>3, <3>1
  <2> QED
    BY <1>5, <1>7, <2>1, <2>2, <2>3
<1> QED
  BY <1>6, <1>7 DEF Accounts
-----------------------------------------------------------------------------
(* What a player has on joining. *)
NewSeat == [account_id |-> next_account, bot_account_id |-> next_account + 1,
            instrument_id |-> NoInstrument, bot_task |-> 0]

(* Player p takes its seat in room c. *)
TakesSeat(c, p, status) ==
  /\ rooms' = [rooms EXCEPT ![c] = [_new_player(rooms[c], p) EXCEPT !.status = status]]
  /\ next_account' = next_account + AccountsTaken
  /\ UNCHANGED <<db, now, going, bots, table, lookup, quoted, resting, fills>>

(* What taking a seat changes. *)
LEMMA TakesSeatDoes ==
  ASSUME Typed, NEW c \in Codes, NEW p \in Pids, NEW status \in {"waiting", "picking"},
         TakesSeat(c, p, status)
  PROVE  /\ rooms' \in [Codes -> Room]
         /\ \A d \in Codes : d # c => rooms'[d] = rooms[d]
         /\ rooms'[c].status = status /\ rooms'[c].starts = rooms[c].starts
         /\ rooms'[c].again = rooms[c].again
         /\ DOMAIN rooms'[c].players = DOMAIN rooms[c].players \cup {p}
         /\ rooms'[c].players[p] = NewSeat
         /\ \A q \in DOMAIN rooms[c].players : q # p => rooms'[c].players[q] = rooms[c].players[q]
<1> DEFINE room == rooms[c]
           players == With(room.players, p, NewSeat)
           seated == [room EXCEPT !.players = players]
           new == [seated EXCEPT !.status = status]
<1>1. rooms' = [rooms EXCEPT ![c] = new]
  BY DEF TakesSeat, _new_player, NewSeat
<1>2. NewSeat \in Player
  <2>1. next_account \in Nat /\ MAX_STARTS \in Nat
    BY RoomsAssumption DEF Typed, RoomsAssumption
  <2> QED
    BY <2>1 DEF NewSeat, Player
<1>3. room \in Room /\ room.players \in OfPlayers(Player)
  BY RoomOf, RoomFields
<1>4. players = [z \in DOMAIN room.players \cup {p} |-> IF z = p THEN NewSeat ELSE room.players[z]]
  BY DEF With
<1> HIDE DEF players
<1>5. seated = [room EXCEPT !.players = players]
  OBVIOUS
<1>6. new = [seated EXCEPT !.status = status]
  OBVIOUS
<1> HIDE DEF seated, new, room
<1>7. /\ DOMAIN players = DOMAIN room.players \cup {p} /\ players[p] = NewSeat
      /\ \A q \in DOMAIN room.players : q # p => players[q] = room.players[q]
  BY <1>4
<1>8. players \in OfPlayers(Player)
  <2>1. DOMAIN room.players \subseteq Pids /\ room.players \in [DOMAIN room.players -> Player]
    BY <1>3, OfPlayersIs
  <2>2. players \in [DOMAIN room.players \cup {p} -> Player] /\ DOMAIN room.players \cup {p} \subseteq Pids
    BY <1>2, <1>4, <2>1
  <2> QED
    BY <2>2, OfPlayersHas
<1>9. /\ seated \in Room /\ seated.players = players
      /\ seated.starts = room.starts /\ seated.again = room.again
  BY <1>3, <1>5, <1>8 DEF Room
<1>10. /\ new \in Room /\ new.status = status /\ new.players = players
       /\ new.starts = room.starts /\ new.again = room.again
  BY <1>6, <1>9 DEF Room
<1>11. /\ rooms' \in [Codes -> Room] /\ rooms'[c] = new
       /\ \A d \in Codes : d # c => rooms'[d] = rooms[d]
  BY <1>1, <1>10, RoomUpdate
<1> QED
  BY <1>7, <1>10, <1>11 DEF room

(* Nobody starts a match in a room that is not full. *)
LEMMA NobodyStarts ==
  ASSUME Seated, Starting, NEW c \in Codes, rooms[c].status \in {"none", "waiting"}
  PROVE  \A t \in DOMAIN going : t[1] # c
<1>1. DOMAIN rooms[c].players # Pids
  BY DEF Seated, Taken, Pids
<1> QED
  BY <1>1 DEF Starting, Picked

(* Taking a seat keeps the invariant. *)
LEMMA TakesSeatKeeps ==
  ASSUME IInv, NEW c \in Codes, NEW p \in Pids, NEW status \in {"waiting", "picking"},
         TakesSeat(c, p, status), rooms[c].status \in {"none", "waiting"},
         p \notin DOMAIN rooms[c].players,
         DOMAIN rooms[c].players \cup {p} = IF status = "waiting" THEN {1} ELSE Pids
  PROVE  IInv'
<1>0. Typed /\ Seated /\ Starting /\ Accounts
  BY DEF IInv
<1>1. /\ rooms' \in [Codes -> Room]
      /\ \A d \in Codes : d # c => rooms'[d] = rooms[d]
      /\ rooms'[c].status = status
      /\ DOMAIN rooms'[c].players = DOMAIN rooms[c].players \cup {p}
      /\ rooms'[c].players[p] = NewSeat
      /\ \A q \in DOMAIN rooms[c].players : q # p => rooms'[c].players[q] = rooms[c].players[q]
  BY <1>0, TakesSeatDoes
<1>2. UNCHANGED <<db, now, going, bots, table, lookup, quoted, resting, fills>> /\ next_account' = next_account + 2
  BY DEF TakesSeat, AccountsTaken
<1>3. Typed'
  BY <1>0, <1>1, <1>2 DEF Typed
<1>4. Seated'
  <2>1. DOMAIN rooms'[c].players = Taken(rooms'[c]) /\ rooms'[c].status # "live"
    BY <1>1 DEF Taken
  <2>2. ASSUME NEW d \in Codes, d # c
        PROVE  /\ DOMAIN rooms'[d].players = Taken(rooms'[d])
               /\ rooms'[d].status = "live" => Picked(rooms'[d])
    BY <1>0, <1>1, <2>2 DEF Seated
  <2> QED
    BY <2>1, <2>2 DEF Seated
<1>5. Starting'
  <2> SUFFICES ASSUME NEW t \in DOMAIN going
               PROVE  Picked(rooms'[t[1]]) /\ rooms'[t[1]].ends_at >= 1
    BY <1>2 DEF Starting
  <2>1. t[1] \in Codes /\ t[1] # c
    BY <1>0, NobodyStarts DEF Typed
  <2>2. rooms'[t[1]] = rooms[t[1]]
    BY <1>1, <2>1
  <2> QED
    BY <1>0, <2>2 DEF Starting
<1>6. Accounts'
  <2>1. \A d \in Codes, r \in Pids : d # c \/ r # p => Sits(d, r)' = Sits(d, r)
    BY <1>1 DEF Sits
  <2>2. ~Sits(c, p)
    BY DEF Sits
  <2>3. \A d \in Codes, r \in Pids : Sits(d, r) => rooms'[d].players[r] = rooms[d].players[r]
    BY <1>1, <2>2 DEF Sits
  <2>4. /\ rooms'[c].players[p].account_id = next_account
        /\ rooms'[c].players[p].bot_account_id = next_account + 1
    BY <1>1 DEF NewSeat
  <2> QED
    BY <1>0, <1>2, <2>1, <2>2, <2>3, <2>4, AccountsGranted
<1> QED
  BY <1>3, <1>4, <1>5, <1>6 DEF IInv

(* The first player takes a seat when it creates the room, ... *)
LEMMA createKeeps ==
  ASSUME IInv, NEW c \in Codes, create(c)
  PROVE  IInv'
<1>1. rooms[c].status = "none" /\ TakesSeat(c, 1, "waiting") /\ 1 \in Pids
  BY DEF create, TakesSeat, Pids
<1>2. DOMAIN rooms[c].players = {}
  BY <1>1 DEF IInv, Seated, Taken
<1>3. 1 \notin DOMAIN rooms[c].players /\ DOMAIN rooms[c].players \cup {1} = {1}
  BY <1>2
<1> QED
  BY <1>1, <1>3, TakesSeatKeeps

(* ... and the second when it joins. *)
LEMMA joinKeeps ==
  ASSUME IInv, NEW c \in Codes, join(c)
  PROVE  IInv'
<1>1. rooms[c].status = "waiting" /\ TakesSeat(c, 2, "picking") /\ 2 \in Pids
  BY DEF join, TakesSeat, Pids
<1>2. DOMAIN rooms[c].players = {1}
  BY <1>1 DEF IInv, Seated, Taken
<1>3. 2 \notin DOMAIN rooms[c].players /\ DOMAIN rooms[c].players \cup {2} = Pids
  BY <1>2 DEF Pids
<1> QED
  BY <1>1, <1>3, TakesSeatKeeps
-----------------------------------------------------------------------------
(* A room that goes on with the same seats and accounts. *)
Continues(old, room) ==
  /\ Taken(room) = Taken(old) /\ DOMAIN room.players = DOMAIN old.players
  /\ \A p \in DOMAIN old.players :
       /\ room.players[p].account_id = old.players[p].account_id
       /\ room.players[p].bot_account_id = old.players[p].bot_account_id
  /\ Picked(old) => Picked(room)
  /\ room.status = "live" => old.status = "live" \/ Picked(room)
  /\ old.ends_at >= 1 => room.ends_at >= 1

(* Such a change of one room keeps what is said of the rooms. *)
LEMMA RoomGoesOn ==
  ASSUME IInv, NEW c \in Codes, NEW room \in Room, Continues(rooms[c], room),
         rooms' = [rooms EXCEPT ![c] = room], next_account' = next_account
  PROVE  /\ rooms' \in [Codes -> Room] /\ rooms'[c] = room
         /\ \A d \in Codes : d # c => rooms'[d] = rooms[d]
         /\ Seated' /\ Accounts'
         /\ \A t \in DOMAIN going : Picked(rooms'[t[1]]) /\ rooms'[t[1]].ends_at >= 1
<1>0. Typed /\ Seated /\ Starting /\ Accounts
  BY DEF IInv
<1>1. /\ rooms' \in [Codes -> Room] /\ rooms'[c] = room
      /\ \A d \in Codes : d # c => rooms'[d] = rooms[d]
  BY <1>0, RoomUpdate
<1>2. ASSUME NEW d \in Codes
      PROVE  Continues(rooms[d], rooms'[d])
  <2>1. CASE d = c
    BY <1>1, <2>1
  <2>2. CASE d # c
    <3>1. rooms'[d] = rooms[d]
      BY <1>1, <2>2
    <3> QED
      BY <3>1 DEF Continues
  <2> QED
    BY <2>1, <2>2
<1>3. Seated'
  BY <1>0, <1>2 DEF Seated, Continues
<1>4. Accounts'
  <2>1. \A d \in Codes : DOMAIN rooms'[d].players = DOMAIN rooms[d].players
    BY <1>2 DEF Continues
  <2>2. \A d \in Codes : \A p \in DOMAIN rooms[d].players :
           /\ rooms'[d].players[p].account_id = rooms[d].players[p].account_id
           /\ rooms'[d].players[p].bot_account_id = rooms[d].players[p].bot_account_id
    BY <1>2 DEF Continues
  <2> QED
    BY <1>0, <2>1, <2>2, AccountsKept
<1>5. ASSUME NEW t \in DOMAIN going
      PROVE  Picked(rooms'[t[1]]) /\ rooms'[t[1]].ends_at >= 1
  <2>1. t[1] \in Codes
    BY <1>0 DEF Typed
  <2>2. Picked(rooms[t[1]]) /\ rooms[t[1]].ends_at >= 1
    BY <1>0 DEF Starting
  <2> QED
    BY <1>2, <2>1, <2>2 DEF Continues
<1> QED
  BY <1>1, <1>3, <1>4, <1>5

(* The room in which player p has picked instrument i. *)
Chosen(c, p, i) ==
  [rooms[c] EXCEPT !.players[p].instrument_id = i,
                   !.again = @ \/ \E t \in DOMAIN going : t[1] = c]

(* A pick changes the pick. *)
LEMMA ChosenIs ==
  ASSUME Typed, NEW c \in Codes, NEW p \in DOMAIN rooms[c].players, NEW i \in Instruments,
         NEW room, room = Chosen(c, p, i)
  PROVE  /\ room \in Room /\ room.status = rooms[c].status /\ room.starts = rooms[c].starts
         /\ room.ends_at = rooms[c].ends_at
         /\ DOMAIN room.players = DOMAIN rooms[c].players
         /\ room.players[p].instrument_id = i
         /\ room.players[p].account_id = rooms[c].players[p].account_id
         /\ room.players[p].bot_account_id = rooms[c].players[p].bot_account_id
         /\ \A q \in DOMAIN rooms[c].players : q # p => room.players[q] = rooms[c].players[q]
         /\ room.again <=> rooms[c].again \/ \E t \in DOMAIN going : t[1] = c
<1> DEFINE old == rooms[c]
           seat == [old.players[p] EXCEPT !.instrument_id = i]
           players == [old.players EXCEPT ![p] = seat]
           anew == old.again \/ \E t \in DOMAIN going : t[1] = c
           picked == [old EXCEPT !.players = players]
<1>1. old \in Room /\ old.players \in OfPlayers(Player) /\ old.players[p] \in Player
  BY RoomOf, RoomFields
<1>2. room = [old EXCEPT !.players = players, !.again = anew]
  BY DEF Chosen
<1>3. seat \in Player
  BY <1>1 DEF Player
<1>4. seat = [old.players[p] EXCEPT !.instrument_id = i]
  OBVIOUS
<1> HIDE DEF seat
<1>5. players = [old.players EXCEPT ![p] = seat]
  OBVIOUS
<1>6. anew \in BOOLEAN
  BY <1>1 DEF Room
<1>6a. anew <=> old.again \/ \E t \in DOMAIN going : t[1] = c
  OBVIOUS
<1> HIDE DEF players, anew
<1>7. DOMAIN old.players \subseteq Pids /\ old.players \in [DOMAIN old.players -> Player]
  BY <1>1, OfPlayersIs
<1>8. /\ players \in [DOMAIN old.players -> Player] /\ players[p] = seat
      /\ \A q \in DOMAIN old.players : q # p => players[q] = old.players[q]
  BY <1>3, <1>5, <1>7
<1>9. players \in OfPlayers(Player) /\ DOMAIN players = DOMAIN old.players
  BY <1>7, <1>8, OfPlayersHas
<1> HIDE DEF old
<1>10. /\ picked \in Room /\ picked.status = old.status /\ picked.starts = old.starts
       /\ picked.ends_at = old.ends_at /\ picked.players = players
  BY <1>1, <1>9 DEF Room
<1>11. room = [picked EXCEPT !.again = anew]
  BY <1>2, <1>1 DEF Room
<1> HIDE DEF picked
<1>12. /\ room \in Room /\ room.status = picked.status /\ room.starts = picked.starts
       /\ room.ends_at = picked.ends_at /\ room.players = picked.players /\ room.again = anew
  BY <1>6, <1>10, <1>11 DEF Room
<1>13. /\ seat.instrument_id = i /\ seat.account_id = old.players[p].account_id
       /\ seat.bot_account_id = old.players[p].bot_account_id
  BY <1>1, <1>4 DEF Player
<1> QED
  BY <1>6a, <1>8, <1>9, <1>10, <1>12, <1>13 DEF old
(* The room when its clock starts, and when both bots have. *)
Started(room) == [room EXCEPT !.ends_at = now + DURATION, !.starts = @ + 1]

(* The start sets the clock and counts. *)
LEMMA StartedIs ==
  ASSUME Typed, NEW old \in Room, old.starts < MAX_STARTS, now + DURATION <= MAX_TIME,
         NEW room, room = Started(old)
  PROVE  /\ room \in Room /\ room.status = old.status /\ room.players = old.players
         /\ room.ends_at = now + DURATION /\ room.ends_at \in 1 .. MAX_TIME
         /\ room.starts = old.starts + 1 /\ room.starts \in 1 .. MAX_STARTS
         /\ room.again = old.again
<1>1. now \in Nat /\ DURATION \in Nat \ {0} /\ MAX_TIME \in Nat /\ MAX_STARTS \in Nat
  BY RoomsAssumption DEF Typed, RoomsAssumption
<1>2. old.starts \in Nat
  BY <1>1, RoomFields
<1>3. now + DURATION \in 1 .. MAX_TIME /\ old.starts + 1 \in 1 .. MAX_STARTS
  BY <1>1, <1>2
<1> DEFINE timed == [old EXCEPT !.ends_at = now + DURATION]
<1>4. /\ timed \in Room /\ timed.status = old.status /\ timed.players = old.players
      /\ timed.ends_at = now + DURATION /\ timed.starts = old.starts /\ timed.again = old.again
  BY <1>3 DEF Room
<1>5. room = [timed EXCEPT !.starts = old.starts + 1]
  BY DEF Started, Room
<1> HIDE DEF timed
<1>6. /\ room \in Room /\ room.status = timed.status /\ room.players = timed.players
      /\ room.ends_at = timed.ends_at /\ room.starts = old.starts + 1 /\ room.again = timed.again
  BY <1>3, <1>4, <1>5 DEF Room
<1> QED
  BY <1>3, <1>4, <1>6

Live(room) ==
  [room EXCEPT !.status = "live",
               !.players = [p \in Pids |-> [room.players[p] EXCEPT !.bot_task = room.starts]]]

(* A live room has a bot for each player. *)
LEMMA LiveIs ==
  ASSUME NEW old \in Room, DOMAIN old.players = Pids, NEW room, room = Live(old)
  PROVE  /\ room \in Room /\ room.status = "live" /\ DOMAIN room.players = Pids
         /\ \A p \in Pids : room.players[p] = [old.players[p] EXCEPT !.bot_task = old.starts]
         /\ room.ends_at = old.ends_at /\ room.starts = old.starts /\ room.again = old.again
<1> DEFINE players == [p \in Pids |-> [old.players[p] EXCEPT !.bot_task = old.starts]]
           manned == [old EXCEPT !.players = players]
<1>1. \A p \in Pids : [old.players[p] EXCEPT !.bot_task = old.starts] \in Player
  <2>1. old.starts \in 0 .. MAX_STARTS /\ \A p \in Pids : old.players[p] \in Player
    BY RoomFields
  <2> QED
    BY <2>1 DEF Player
<1>2. players \in [Pids -> Player] /\ DOMAIN players = Pids
  BY <1>1
<1>3. \A p \in Pids : players[p] = [old.players[p] EXCEPT !.bot_task = old.starts]
  OBVIOUS
<1>4. room = [old EXCEPT !.status = "live", !.players = players]
  BY DEF Live
<1> HIDE DEF players
<1>5. players \in OfPlayers(Player)
  BY <1>2, OfPlayersHas
<1>6. /\ manned \in Room /\ manned.players = players /\ manned.ends_at = old.ends_at
      /\ manned.starts = old.starts /\ manned.again = old.again
  BY <1>5 DEF Room
<1>7. room = [manned EXCEPT !.status = "live"]
  BY <1>4 DEF Room
<1> HIDE DEF manned
<1>8. /\ room \in Room /\ room.status = "live" /\ room.players = manned.players
      /\ room.ends_at = manned.ends_at /\ room.starts = manned.starts /\ room.again = manned.again
  BY <1>6, <1>7 DEF Room
<1> QED
  BY <1>2, <1>3, <1>6, <1>8

(* A bot has its place in the state. *)
LEMMA NewBotIs ==
  ASSUME NEW room \in Room, NEW p \in DOMAIN room.players, NEW feed \in Instruments,
         room.players[p].instrument_id \in Instruments, room.ends_at >= 1
  PROVE  /\ NewBot(room, p, feed) \in Bot /\ NewBot(room, p, feed).feed = feed
         /\ NewBot(room, p, feed).book = room.players[p].instrument_id
         /\ NewBot(room, p, feed).ends_at = room.ends_at /\ NewBot(room, p, feed).at = "start"
<1>1. room.ends_at \in 1 .. MAX_TIME
  BY RoomFields, RoomsAssumption DEF RoomsAssumption
<1> QED
  BY <1>1 DEF NewBot, Bot

(* The instruments of two players that have picked. *)
LEMMA PickedIs ==
  ASSUME NEW room \in Room, Picked(room)
  PROVE  DOMAIN room.players = Pids /\ \A p \in Pids : room.players[p].instrument_id \in Instruments
<1>1. \A p \in Pids : room.players[p].instrument_id \in Instruments \cup {NoInstrument}
  <2>1. \A p \in Pids : room.players[p] \in Player
    BY RoomFields DEF Picked
  <2> QED
    BY <2>1 DEF Player
<1> QED
  BY <1>1 DEF Picked
-----------------------------------------------------------------------------
(* Each action keeps the invariant. *)

(* The three ways a pick ends: one of the players is undecided, ... *)
PickOnly(c, room) ==
  ~Picked(room) /\ rooms' = [rooms EXCEPT ![c] = room] /\ UNCHANGED <<going, bots, table>>

(* ... the match waits for the database, ... *)
PickLater(c, room) ==
  /\ rooms' = [rooms EXCEPT ![c] = room]
  /\ going' = With(going, <<c, room.starts>>,
                   [player |-> 1, feed |-> room.players[1].instrument_id])
  /\ table' = Opened(table, c, room, 1)
  /\ UNCHANGED bots

(* ... or both bots start. *)
PickAtOnce(c, room) ==
  /\ rooms' = [rooms EXCEPT ![c] = Live(room)]
  /\ bots' = [t \in DOMAIN bots \cup {<<c, p, room.starts>> : p \in Pids} |->
                IF t \in DOMAIN bots THEN bots[t]
                ELSE NewBot(room, t[2], room.players[t[2]].instrument_id)]
  /\ table' = Opened(Opened(table, c, room, 1), c, room, 2)
  /\ UNCHANGED going

(* Which of them is taken. *)
LEMMA pickIs ==
  ASSUME NEW c, NEW p, NEW i, pick(c, p, i), NEW room, room = Chosen(c, p, i)
  PROVE  /\ p \in DOMAIN rooms[c].players /\ MayPick(rooms[c])
         /\ UNCHANGED <<db, now, next_account, resting, fills>>
         /\ \/ PickOnly(c, room)
            \/ /\ Picked(room) /\ room.starts < MAX_STARTS /\ now + DURATION <= MAX_TIME
               /\ (db /\ PickLater(c, Started(room))) \/ (~db /\ PickAtOnce(c, Started(room)))
<1>1. \A old : LiveLater(c, old) = PickLater(c, old) /\ LiveAtOnce(c, old) = PickAtOnce(c, old)
  BY DEF LiveLater, LiveAtOnce, PickLater, PickAtOnce, Live
<1>2. /\ p \in DOMAIN rooms[c].players /\ MayPick(rooms[c])
      /\ UNCHANGED <<db, now, next_account, resting, fills>>
      /\ IF Picked(Chosen(c, p, i))
         THEN /\ Chosen(c, p, i).starts < MAX_STARTS /\ now + DURATION <= MAX_TIME
              /\ IF db THEN LiveLater(c, Started(Chosen(c, p, i))) ELSE LiveAtOnce(c, Started(Chosen(c, p, i)))
         ELSE rooms' = [rooms EXCEPT ![c] = Chosen(c, p, i)] /\ UNCHANGED <<going, bots, table>>
  BY Zenon DEF pick, Chosen, Started
<1> QED
  BY <1>1, <1>2 DEF PickOnly

(* A room with a player that may pick is not full before it is picking. *)
LEMMA MayPickIs ==
  ASSUME Seated, NEW c \in Codes, MayPick(rooms[c])
  PROVE  /\ rooms[c].status \in {"waiting", "picking"}
         /\ DOMAIN rooms[c].players = Pids => rooms[c].status = "picking"
  BY DEF Seated, MayPick, Taken, Pids

(* The choices are instruments. *)
LEMMA ChoicesAre ==
  ASSUME NEW p \in Pids
  PROVE  Choices[p] \subseteq Instruments
  BY RoomsAssumption DEF RoomsAssumption, Pids

(* A pick leaves seats and accounts. *)
LEMMA ChosenGoesOn ==
  ASSUME IInv, NEW c \in Codes, NEW p \in DOMAIN rooms[c].players, NEW i \in Instruments,
         NEW room, room = Chosen(c, p, i)
  PROVE  /\ room \in Room /\ room.status = rooms[c].status
         /\ DOMAIN room.players = DOMAIN rooms[c].players
         /\ Continues(rooms[c], room)
         /\ Picked(room) => DOMAIN rooms[c].players = Pids
<1>0. Typed
  BY DEF IInv
<1>1. /\ room \in Room /\ room.status = rooms[c].status /\ room.ends_at = rooms[c].ends_at
      /\ DOMAIN room.players = DOMAIN rooms[c].players
      /\ room.players[p].instrument_id = i
      /\ room.players[p].account_id = rooms[c].players[p].account_id
      /\ room.players[p].bot_account_id = rooms[c].players[p].bot_account_id
      /\ \A q \in DOMAIN rooms[c].players : q # p => room.players[q] = rooms[c].players[q]
  BY <1>0, ChosenIs
<1>4. Picked(rooms[c]) => Picked(room)
  BY <1>1, RoomsAssumption DEF Picked, RoomsAssumption
<1>5. Taken(room) = Taken(rooms[c])
  BY <1>1 DEF Taken
<1> QED
  BY <1>1, <1>4, <1>5 DEF Continues, Picked

(* A pick, and the start it may bring, keeps the invariant. *)
LEMMA pickKeeps ==
  ASSUME IInv, NEW c \in Codes, NEW p \in Pids, NEW i \in Choices[p], pick(c, p, i)
  PROVE  IInv'
<1> DEFINE room == Chosen(c, p, i)
<1>0. Typed /\ Seated /\ Starting /\ Accounts
  BY DEF IInv
<1>1. i \in Instruments
  BY ChoicesAre
<1>2. room = Chosen(c, p, i)
  OBVIOUS
<1> HIDE DEF room
<1>3. /\ p \in DOMAIN rooms[c].players /\ MayPick(rooms[c])
      /\ UNCHANGED <<db, now, next_account, resting, fills>>
      /\ \/ PickOnly(c, room)
         \/ /\ Picked(room) /\ room.starts < MAX_STARTS /\ now + DURATION <= MAX_TIME
            /\ (db /\ PickLater(c, Started(room))) \/ (~db /\ PickAtOnce(c, Started(room)))
  BY <1>2, pickIs
<1>3a. p \in DOMAIN rooms[c].players
  BY <1>3
<1>4. /\ room \in Room /\ room.status = rooms[c].status
      /\ DOMAIN room.players = DOMAIN rooms[c].players
  BY <1>1, <1>2, <1>3a, ChosenGoesOn
<1>5. Continues(rooms[c], room) /\ (Picked(room) => DOMAIN rooms[c].players = Pids)
  BY <1>1, <1>2, <1>3, ChosenGoesOn
<1>6. CASE PickOnly(c, room)
  <2>1. rooms' = [rooms EXCEPT ![c] = room] /\ UNCHANGED <<going, bots>>
    BY <1>6 DEF PickOnly
  <2>2. /\ rooms' \in [Codes -> Room] /\ Seated' /\ Accounts'
        /\ \A t \in DOMAIN going : Picked(rooms'[t[1]]) /\ rooms'[t[1]].ends_at >= 1
    BY <1>3, <1>4, <1>5, <2>1, RoomGoesOn
  <2>3. Typed' /\ Starting'
    BY <1>0, <1>3, <2>1, <2>2 DEF Typed, Starting
  <2> QED
    BY <2>2, <2>3 DEF IInv
<1>7. CASE /\ Picked(room) /\ room.starts < MAX_STARTS /\ now + DURATION <= MAX_TIME
           /\ (db /\ PickLater(c, Started(room))) \/ (~db /\ PickAtOnce(c, Started(room)))
  <2> DEFINE started == Started(room)
  <2>0. started = Started(room)
    OBVIOUS
  <2> HIDE DEF started
  <2>1. /\ started \in Room /\ started.status = room.status /\ started.players = room.players
        /\ started.ends_at \in 1 .. MAX_TIME /\ started.starts \in 1 .. MAX_STARTS
    BY <1>0, <1>4, <1>7, <2>0, StartedIs
  <2>2. /\ Picked(started) /\ DOMAIN started.players = Pids
        /\ \A q \in Pids : started.players[q].instrument_id \in Instruments
    BY <1>7, <2>1, PickedIs DEF Picked
  <2>3. started.ends_at >= 1 /\ rooms[c].status = "picking"
    BY <1>0, <1>3, <1>5, <1>7, <2>1, MayPickIs
  <2>4. CASE PickLater(c, started)
    <3> DEFINE new == [player |-> 1, feed |-> started.players[1].instrument_id]
    <3>1. rooms' = [rooms EXCEPT ![c] = started] /\ UNCHANGED bots
      BY <2>4 DEF PickLater
    <3>2. Continues(rooms[c], started)
      BY <1>4, <1>5, <2>1, <2>2, <2>3 DEF Continues, Taken
    <3>3. /\ rooms' \in [Codes -> Room] /\ Seated' /\ Accounts' /\ rooms'[c] = started
          /\ \A t \in DOMAIN going : Picked(rooms'[t[1]]) /\ rooms'[t[1]].ends_at >= 1
      BY <1>3, <2>1, <3>1, <3>2, RoomGoesOn
    <3>4. new \in [player : Pids, feed : Instruments]
      BY <2>2 DEF Pids
    <3>5. going' = [t \in DOMAIN going \cup {<<c, started.starts>>} |->
                      IF t = <<c, started.starts>> THEN new ELSE going[t]]
      BY <2>4 DEF PickLater, With
    <3> HIDE DEF new
    <3>6. DOMAIN going' = DOMAIN going \cup {<<c, started.starts>>}
      BY <3>5
    <3>7. going' \in [DOMAIN going' -> [player : Pids, feed : Instruments]]
      BY <1>0, <3>4, <3>5, <3>6 DEF Typed
    <3>8. DOMAIN going' \subseteq Codes \X (1 .. MAX_STARTS)
      BY <1>0, <2>1, <3>6 DEF Typed
    <3>9. Typed'
      BY <1>0, <1>3, <3>1, <3>3, <3>7, <3>8 DEF Typed
    <3>10. Starting'
      BY <2>2, <2>3, <3>3, <3>6 DEF Starting
    <3> QED
      BY <3>3, <3>9, <3>10 DEF IInv
  <2>5. CASE PickAtOnce(c, started)
    <3> DEFINE live == Live(started)
               New(q) == NewBot(started, q, started.players[q].instrument_id)
    <3>0. live = Live(started)
      OBVIOUS
    <3> HIDE DEF live
    <3>1. rooms' = [rooms EXCEPT ![c] = live] /\ UNCHANGED going
      BY <2>5, <3>0 DEF PickAtOnce
    <3>2. /\ live \in Room /\ live.status = "live" /\ DOMAIN live.players = Pids
          /\ \A q \in Pids : live.players[q] = [started.players[q] EXCEPT !.bot_task = started.starts]
          /\ live.ends_at = started.ends_at
      BY <2>1, <2>2, <3>0, LiveIs
    <3>3. \A q \in Pids : /\ live.players[q].account_id = started.players[q].account_id
                          /\ live.players[q].bot_account_id = started.players[q].bot_account_id
                          /\ live.players[q].instrument_id = started.players[q].instrument_id
      <4>1. \A q \in Pids : started.players[q] \in Player
        BY <2>1, <2>2, RoomFields
      <4> QED
        BY <3>2, <4>1 DEF Player
    <3>4. Continues(rooms[c], live)
      <4>1. Taken(live) = Taken(rooms[c])
        BY <2>3, <3>2 DEF Taken
      <4>2. Picked(live)
        BY <2>2, <3>2, <3>3, RoomsAssumption DEF Picked, RoomsAssumption
      <4> QED
        BY <1>5, <1>7, <2>1, <2>3, <3>2, <3>3, <4>1, <4>2 DEF Continues
    <3>5. /\ rooms' \in [Codes -> Room] /\ Seated' /\ Accounts'
          /\ \A t \in DOMAIN going : Picked(rooms'[t[1]]) /\ rooms'[t[1]].ends_at >= 1
      BY <1>3, <3>1, <3>2, <3>4, RoomGoesOn
    <3>6. \A q \in Pids : New(q) \in Bot
      BY <2>1, <2>2, <2>3, NewBotIs
    <3>7. bots' = [t \in DOMAIN bots \cup {<<c, q, started.starts>> : q \in Pids} |->
                     IF t \in DOMAIN bots THEN bots[t] ELSE New(t[2])]
      BY <2>5 DEF PickAtOnce
    <3> HIDE DEF New
    <3>8. DOMAIN bots' = DOMAIN bots \cup {<<c, q, started.starts>> : q \in Pids}
      BY <3>7
    <3>9. bots' \in [DOMAIN bots' -> Bot]
      BY <1>0, <3>6, <3>7, <3>8 DEF Typed
    <3>10. DOMAIN bots' \subseteq BotIds
      BY <1>0, <2>1, <3>8 DEF Typed, BotIds
    <3>11. Typed' /\ Starting'
      BY <1>0, <1>3, <3>1, <3>5, <3>9, <3>10 DEF Typed, Starting
    <3> QED
      BY <3>5, <3>11 DEF IInv
  <2> QED
    BY <1>7, <2>0, <2>4, <2>5
<1> QED
  BY <1>3, <1>6, <1>7
(* The room in which player p has bot k. *)
Manned(c, p, k) == [rooms[c] EXCEPT !.players[p].bot_task = k]

IsManned(c, p, k, room) ==
  /\ room \in Room /\ room.status = rooms[c].status /\ room.starts = rooms[c].starts
  /\ room.ends_at = rooms[c].ends_at /\ room.again = rooms[c].again
  /\ DOMAIN room.players = DOMAIN rooms[c].players
  /\ room.players[p].bot_task = k
  /\ room.players[p].account_id = rooms[c].players[p].account_id
  /\ room.players[p].bot_account_id = rooms[c].players[p].bot_account_id
  /\ room.players[p].instrument_id = rooms[c].players[p].instrument_id
  /\ \A q \in DOMAIN rooms[c].players : q # p => room.players[q] = rooms[c].players[q]

(* It differs from the room in that bot alone. *)
LEMMA MannedIs ==
  ASSUME Typed, NEW c \in Codes, NEW p \in DOMAIN rooms[c].players, NEW k \in 1 .. MAX_STARTS,
         NEW room, room = Manned(c, p, k)
  PROVE  IsManned(c, p, k, room)
<1> DEFINE old == rooms[c]
           seat == [old.players[p] EXCEPT !.bot_task = k]
           players == [old.players EXCEPT ![p] = seat]
<1>1. old \in Room /\ old.players \in OfPlayers(Player) /\ old.players[p] \in Player
  BY RoomOf, RoomFields
<1>2. room = [old EXCEPT !.players = players]
  BY DEF Manned
<1>3. seat \in Player
  BY <1>1 DEF Player
<1>4. seat = [old.players[p] EXCEPT !.bot_task = k]
  OBVIOUS
<1> HIDE DEF seat
<1>5. players = [old.players EXCEPT ![p] = seat]
  OBVIOUS
<1> HIDE DEF players
<1>6. DOMAIN old.players \subseteq Pids /\ old.players \in [DOMAIN old.players -> Player]
  BY <1>1, OfPlayersIs
<1>7. /\ players \in [DOMAIN old.players -> Player] /\ players[p] = seat
      /\ \A q \in DOMAIN old.players : q # p => players[q] = old.players[q]
  BY <1>3, <1>5, <1>6
<1>8. players \in OfPlayers(Player) /\ DOMAIN players = DOMAIN old.players
  BY <1>6, <1>7, OfPlayersHas
<1> HIDE DEF old
<1>9. /\ room \in Room /\ room.status = old.status /\ room.starts = old.starts
      /\ room.ends_at = old.ends_at /\ room.players = players /\ room.again = old.again
  BY <1>1, <1>2, <1>8 DEF Room
<1>10. /\ seat.bot_task = k /\ seat.account_id = old.players[p].account_id
       /\ seat.bot_account_id = old.players[p].bot_account_id
       /\ seat.instrument_id = old.players[p].instrument_id
  BY <1>1, <1>4 DEF Player
<1> QED
  BY <1>7, <1>8, <1>9, <1>10 DEF old, IsManned

(* What the answer of the database does to the room. *)
Answered(t) ==
  LET room == Manned(t[1], going[t].player, t[2])
  IN IF NextPlayer(going[t].player) # 0 THEN room ELSE [room EXCEPT !.status = "live"]

(* It gets a bot and, after the second one, is live. *)
LEMMA AnsweredIs ==
  ASSUME IInv, NEW t \in DOMAIN going,
         NEW c, c = t[1], NEW p, p = going[t].player, NEW k, k = t[2],
         NEW room, room = Answered(t)
  PROVE  /\ c \in Codes /\ p \in Pids /\ k \in 1 .. MAX_STARTS /\ t = <<c, k>>
         /\ Picked(rooms[c]) /\ rooms[c].ends_at >= 1
         /\ room \in Room /\ room.starts = rooms[c].starts /\ room.ends_at = rooms[c].ends_at
         /\ room.again = rooms[c].again
         /\ room.status = IF NextPlayer(p) # 0 THEN rooms[c].status ELSE "live"
         /\ DOMAIN room.players = Pids /\ room.players[p].bot_task = k
         /\ \A q \in Pids : q # p => room.players[q] = rooms[c].players[q]
         /\ \A q \in Pids : room.players[q].instrument_id = rooms[c].players[q].instrument_id
         /\ Continues(rooms[c], room)
<1> DEFINE manned == Manned(c, p, k)
<1>0. Typed /\ Seated /\ Starting
  BY DEF IInv
<1>1. c \in Codes /\ p \in Pids /\ k \in 1 .. MAX_STARTS /\ t = <<c, k>>
  BY <1>0 DEF Typed
<1>2. Picked(rooms[c]) /\ rooms[c].ends_at >= 1
  BY <1>0 DEF Starting
<1>3. DOMAIN rooms[c].players = Pids /\ p \in DOMAIN rooms[c].players
  BY <1>1, <1>2 DEF Picked
<1>4a. manned = Manned(c, p, k)
  OBVIOUS
<1>4. room = IF NextPlayer(p) # 0 THEN manned ELSE [manned EXCEPT !.status = "live"]
  BY DEF Answered
<1> HIDE DEF manned
<1>5a. IsManned(c, p, k, manned)
  BY <1>0, <1>1, <1>3, <1>4a, MannedIs
<1>5. /\ manned \in Room /\ manned.status = rooms[c].status /\ manned.starts = rooms[c].starts
      /\ manned.ends_at = rooms[c].ends_at /\ manned.again = rooms[c].again
      /\ DOMAIN manned.players = DOMAIN rooms[c].players
      /\ manned.players[p].bot_task = k
      /\ manned.players[p].account_id = rooms[c].players[p].account_id
      /\ manned.players[p].bot_account_id = rooms[c].players[p].bot_account_id
      /\ manned.players[p].instrument_id = rooms[c].players[p].instrument_id
      /\ \A q \in DOMAIN rooms[c].players : q # p => manned.players[q] = rooms[c].players[q]
  BY <1>5a DEF IsManned
<1>7. /\ room \in Room /\ room.starts = manned.starts /\ room.ends_at = manned.ends_at
      /\ room.again = manned.again /\ room.players = manned.players
      /\ room.status = IF NextPlayer(p) # 0 THEN manned.status ELSE "live"
  <2>1. CASE NextPlayer(p) # 0
    BY <1>4, <1>5, <2>1
  <2>2. CASE ~(NextPlayer(p) # 0)
    <3>1. room = [manned EXCEPT !.status = "live"]
      BY <1>4, <2>2
    <3> QED
      BY <1>5, <2>2, <3>1 DEF Room
  <2> QED
    BY <2>1, <2>2
<1>8. /\ DOMAIN room.players = Pids /\ room.players[p].bot_task = k
      /\ \A q \in Pids : q # p => room.players[q] = rooms[c].players[q]
      /\ \A q \in Pids : /\ room.players[q].instrument_id = rooms[c].players[q].instrument_id
                         /\ room.players[q].account_id = rooms[c].players[q].account_id
                         /\ room.players[q].bot_account_id = rooms[c].players[q].bot_account_id
  BY <1>3, <1>5, <1>7
<1>9. Taken(room) = Taken(rooms[c])
  <2>1. Taken(rooms[c]) = Pids /\ rooms[c].status \notin {"none", "waiting"}
    BY <1>0, <1>1, <1>3 DEF Seated, Taken, Pids
  <2> QED
    BY <1>5, <1>7, <2>1 DEF Taken
<1>10. Continues(rooms[c], room)
  BY <1>2, <1>3, <1>5, <1>7, <1>8, <1>9 DEF Continues, Picked
<1> QED
  BY <1>1, <1>2, <1>5, <1>7, <1>8, <1>10

(* What the answer of the database does. *)
LEMMA SeededIs ==
  ASSUME NEW t, Seeded(t)
  PROVE  /\ bots' = With(bots, <<t[1], going[t].player, t[2]>>,
                         NewBot(Manned(t[1], going[t].player, t[2]), going[t].player, going[t].feed))
         /\ rooms' = [rooms EXCEPT ![t[1]] = Answered(t)]
         /\ going' = IF NextPlayer(going[t].player) = 0 THEN Without(going, t)
                     ELSE With(going, t,
                            [player |-> NextPlayer(going[t].player),
                             feed |-> Manned(t[1], going[t].player, t[2])
                                        .players[NextPlayer(going[t].player)].instrument_id])
         /\ UNCHANGED <<db, now, next_account, resting, fills>>
  BY Zenon DEF Seeded, Manned, Answered
(* A function on some tasks has one more, ... *)
Into(f, S) == f \in [DOMAIN f -> S]

IsWith(g, f, x, y, S) ==
  /\ DOMAIN g = DOMAIN f \cup {x} /\ g \in [DOMAIN f \cup {x} -> S] /\ g[x] = y
  /\ \A z \in DOMAIN f : z # x => g[z] = f[z]

(* ... for which With stands. *)
LEMMA WithIs ==
  ASSUME NEW S, NEW f, Into(f, S), NEW x, NEW y \in S
  PROVE  IsWith(With(f, x, y), f, x, y, S)
<1> DEFINE g == [z \in DOMAIN f \cup {x} |-> IF z = x THEN y ELSE f[z]]
<1>1. With(f, x, y) = g
  BY DEF With
<1>2. /\ DOMAIN g = DOMAIN f \cup {x} /\ g \in [DOMAIN f \cup {x} -> S] /\ g[x] = y
      /\ \A z \in DOMAIN f : z # x => g[z] = f[z]
  BY DEF Into
<1> HIDE DEF g
<1> QED
  BY <1>1, <1>2 DEF IsWith

(* ... or one less. *)
IsWithout(g, f, x, S) ==
  /\ DOMAIN g = DOMAIN f \ {x} /\ g \in [DOMAIN f \ {x} -> S]
  /\ \A z \in DOMAIN f : z # x => g[z] = f[z]

(* ... for which Without stands. *)
LEMMA WithoutIs ==
  ASSUME NEW S, NEW f, Into(f, S), NEW x
  PROVE  IsWithout(Without(f, x), f, x, S)
<1> DEFINE g == [z \in DOMAIN f \ {x} |-> f[z]]
<1>1. Without(f, x) = g
  BY DEF Without
<1>2. /\ DOMAIN g = DOMAIN f \ {x} /\ g \in [DOMAIN f \ {x} -> S]
      /\ \A z \in DOMAIN f : z # x => g[z] = f[z]
  BY DEF Into
<1> HIDE DEF g
<1> QED
  BY <1>1, <1>2 DEF IsWithout

(* The bot that starts when the database answers. *)
Answer(t) == NewBot(Manned(t[1], going[t].player, t[2]), going[t].player, going[t].feed)

(* It plays in the book of its player. *)
LEMMA AnswerIs ==
  ASSUME IInv, NEW t \in DOMAIN going,
         NEW c, c = t[1], NEW p, p = going[t].player, NEW k, k = t[2]
  PROVE  /\ Answer(t) \in Bot /\ Answer(t).at = "start" /\ Answer(t).feed = going[t].feed
         /\ Answer(t).book = rooms[c].players[p].instrument_id
         /\ Answer(t).ends_at = rooms[c].ends_at
         /\ \A q \in Pids : Manned(c, p, k).players[q].instrument_id = rooms[c].players[q].instrument_id
<1> DEFINE manned == Manned(c, p, k)
<1>0. Typed /\ Starting
  BY DEF IInv
<1>1. c \in Codes /\ p \in Pids /\ k \in 1 .. MAX_STARTS /\ going[t].feed \in Instruments
  BY <1>0 DEF Typed
<1>2. Picked(rooms[c]) /\ rooms[c].ends_at >= 1 /\ rooms[c] \in Room
  BY <1>0, <1>1, RoomOf DEF Starting
<1>3. /\ DOMAIN rooms[c].players = Pids /\ p \in DOMAIN rooms[c].players
      /\ \A q \in Pids : rooms[c].players[q].instrument_id \in Instruments
  BY <1>1, <1>2, PickedIs DEF Picked
<1>4. manned = Manned(c, p, k) /\ Answer(t) = NewBot(manned, p, going[t].feed)
  BY DEF Answer
<1> HIDE DEF manned
<1>5. IsManned(c, p, k, manned)
  BY <1>0, <1>1, <1>3, <1>4, MannedIs
<1>6. /\ manned \in Room /\ manned.ends_at = rooms[c].ends_at /\ DOMAIN manned.players = Pids
      /\ \A q \in Pids : manned.players[q].instrument_id = rooms[c].players[q].instrument_id
  BY <1>3, <1>5 DEF IsManned
<1>7. manned.ends_at >= 1 /\ p \in DOMAIN manned.players /\ manned.players[p].instrument_id \in Instruments
  BY <1>1, <1>2, <1>3, <1>6
<1> QED
  BY <1>1, <1>4, <1>6, <1>7, NewBotIs

(* The answer of the database keeps the invariant. *)
LEMMA SeededKeeps ==
  ASSUME IInv, NEW t \in DOMAIN going, Seeded(t)
  PROVE  IInv'
<1> DEFINE c == t[1]
           p == going[t].player
           k == t[2]
           room == Answered(t)
           q == NextPlayer(p)
           next == [player |-> q, feed |-> Manned(c, p, k).players[q].instrument_id]
<1>0. Typed /\ Seated /\ Starting /\ Accounts
  BY DEF IInv
<1>1. /\ bots' = With(bots, <<c, p, k>>, Answer(t)) /\ rooms' = [rooms EXCEPT ![c] = room]
      /\ going' = IF q = 0 THEN Without(going, t) ELSE With(going, t, next)
      /\ UNCHANGED <<db, now, next_account, resting, fills>>
  BY SeededIs DEF Answer
<1>2. c = t[1] /\ p = going[t].player /\ k = t[2] /\ room = Answered(t) /\ q = NextPlayer(p)
  OBVIOUS
<1>3. next = [player |-> q, feed |-> Manned(c, p, k).players[q].instrument_id]
  OBVIOUS
<1> HIDE DEF c, p, k, room, q, next
<1>4. /\ c \in Codes /\ p \in Pids /\ k \in 1 .. MAX_STARTS /\ t = <<c, k>>
      /\ Picked(rooms[c]) /\ room \in Room /\ Continues(rooms[c], room)
  BY <1>2, AnsweredIs
<1>5. /\ Answer(t) \in Bot
      /\ \A r \in Pids : Manned(c, p, k).players[r].instrument_id = rooms[c].players[r].instrument_id
  BY <1>2, AnswerIs
<1>6. /\ rooms' \in [Codes -> Room] /\ Seated' /\ Accounts'
      /\ \A u \in DOMAIN going : Picked(rooms'[u[1]]) /\ rooms'[u[1]].ends_at >= 1
  BY <1>1, <1>4, RoomGoesOn
<1>7. /\ DOMAIN bots' = DOMAIN bots \cup {<<c, p, k>>} /\ bots' \in [DOMAIN bots' -> Bot]
  <2>1. Into(bots, Bot)
    BY <1>0 DEF Typed, Into
  <2>2. IsWith(bots', bots, <<c, p, k>>, Answer(t), Bot)
    BY <1>1, <1>5, <2>1, WithIs
  <2> QED
    BY <2>2 DEF IsWith
<1>8. DOMAIN bots' \subseteq BotIds
  BY <1>0, <1>4, <1>7 DEF Typed, BotIds
<1>9. DOMAIN going' \subseteq DOMAIN going /\ going' \in [DOMAIN going' -> [player : Pids, feed : Instruments]]
  <2> DEFINE Answers == [player : Pids, feed : Instruments]
  <2>1. Into(going, Answers)
    BY <1>0 DEF Typed, Into
  <2>2. CASE q = 0
    <3>1. going' = Without(going, t)
      BY <1>1, <2>2
    <3> HIDE DEF Answers
    <3>2. IsWithout(going', going, t, Answers)
      BY <2>1, <3>1, WithoutIs
    <3> QED
      BY <3>2 DEF IsWithout, Answers
  <2>3. CASE q # 0
    <3>1. q \in Pids
      BY <1>2, <2>3 DEF NextPlayer, Pids
    <3>2. Manned(c, p, k).players[q].instrument_id \in Instruments
      BY <1>0, <1>4, <1>5, <3>1, PickedIs, RoomOf
    <3>3. next \in [player : Pids, feed : Instruments]
      BY <1>3, <3>1, <3>2
    <3>4. going' = With(going, t, next)
      BY <1>1, <2>3
    <3>5. next \in Answers
      BY <3>3
    <3> HIDE DEF Answers
    <3>6. IsWith(going', going, t, next, Answers)
      BY <2>1, <3>4, <3>5, WithIs
    <3> QED
      BY <3>6 DEF IsWith, Answers
  <2> QED
    BY <2>2, <2>3
<1>10. Typed'
  <2>1. DOMAIN going' \subseteq Codes \X (1 .. MAX_STARTS)
    BY <1>0, <1>9 DEF Typed
  <2> QED
    BY <1>0, <1>1, <1>6, <1>7, <1>8, <1>9, <2>1 DEF Typed
<1>11. Starting'
  BY <1>6, <1>9 DEF Starting
<1> QED
  BY <1>6, <1>10, <1>11 DEF IInv
(* What full time does to a room. *)
LEMMA FinishedIs ==
  ASSUME Typed, NEW c \in Codes, NEW room, room = Finished(c)
  PROVE  /\ room \in Room /\ room.status = "finished" /\ room.players = rooms[c].players
         /\ room.ends_at = rooms[c].ends_at /\ room.starts = rooms[c].starts
         /\ room.again = rooms[c].again
         /\ \A p \in Pids : room.final[p] = fills[<<c, p>>]
<1> DEFINE final == [p \in Pids |-> fills[<<c, p>>]]
           over == [rooms[c] EXCEPT !.status = "finished"]
<1>1. rooms[c] \in Room
  BY RoomOf
<1>2. room = [over EXCEPT !.final = final]
  BY <1>1 DEF Finished, Room
<1>3. final \in [Pids -> Nat] /\ \A p \in Pids : final[p] = fills[<<c, p>>]
  BY DEF Typed, Seats
<1> HIDE DEF final
<1>4. final \in OfPlayers(Nat)
  BY <1>3, OfPlayersHas
<1>5. /\ over \in Room /\ over.status = "finished" /\ over.players = rooms[c].players
      /\ over.ends_at = rooms[c].ends_at /\ over.starts = rooms[c].starts
      /\ over.again = rooms[c].again
  BY <1>1 DEF Room
<1> HIDE DEF over
<1>6. /\ room \in Room /\ room.status = over.status /\ room.players = over.players
      /\ room.ends_at = over.ends_at /\ room.starts = over.starts
      /\ room.again = over.again /\ room.final = final
  BY <1>2, <1>4, <1>5 DEF Room
<1> QED
  BY <1>3, <1>5, <1>6

(* Full time keeps the invariant. *)
LEMMA finishKeeps ==
  ASSUME IInv, NEW c \in Codes, finish_if_due(c)
  PROVE  IInv'
<1> DEFINE room == Finished(c)
<1>0. Typed /\ Seated /\ Starting /\ Accounts
  BY DEF IInv
<1>1. /\ rooms[c].status = "live" /\ rooms' = [rooms EXCEPT ![c] = room]
      /\ UNCHANGED <<db, now, next_account, going, table, lookup, quoted, resting, fills>>
  BY DEF finish_if_due, finish, Due
<1>2. bots' = [t \in DOMAIN bots |->
                 IF t \in Stopped(c) THEN [bots[t] EXCEPT !.at = "ending"] ELSE bots[t]]
  BY DEF finish_if_due, finish
<1>3. room = Finished(c)
  OBVIOUS
<1> HIDE DEF room
<1>4. /\ room \in Room /\ room.status = "finished" /\ room.players = rooms[c].players
      /\ room.ends_at = rooms[c].ends_at
  BY <1>0, <1>3, FinishedIs
<1>5. Continues(rooms[c], room)
  BY <1>1, <1>4 DEF Continues, Taken, Picked
<1>6. /\ rooms' \in [Codes -> Room] /\ Seated' /\ Accounts'
      /\ \A t \in DOMAIN going : Picked(rooms'[t[1]]) /\ rooms'[t[1]].ends_at >= 1
  BY <1>1, <1>4, <1>5, RoomGoesOn
<1>7. \A t \in DOMAIN bots : bots[t] \in Bot /\ [bots[t] EXCEPT !.at = "ending"] \in Bot
  <2>1. \A t \in DOMAIN bots : bots[t] \in Bot
    BY <1>0 DEF Typed
  <2> QED
    BY <2>1 DEF Bot
<1>8. DOMAIN bots' = DOMAIN bots /\ bots' \in [DOMAIN bots' -> Bot]
  BY <1>2, <1>7
<1>9. Typed' /\ Starting'
  BY <1>0, <1>1, <1>6, <1>8 DEF Typed, Starting
<1> QED
  BY <1>6, <1>9 DEF IInv

(* A step that leaves the rooms keeps what is said of them. *)
LEMMA RoomsKept ==
  ASSUME IInv, UNCHANGED <<db, next_account, rooms, going>>,
         now' \in 0 .. MAX_TIME, DOMAIN bots' \subseteq BotIds, Into(bots, Bot)',
         resting' \in [Seats -> BOOLEAN], fills' \in [Seats -> Nat]
  PROVE  IInv'
<1>1. Typed'
  BY DEF IInv, Typed, Into
<1>2. Seated' /\ Starting'
  BY DEF IInv, Seated, Starting
<1>3. Accounts'
  BY AccountsKept DEF IInv
<1> QED
  BY <1>1, <1>2, <1>3 DEF IInv

(* A bot that goes on. *)
LEMMA BotUpdate ==
  ASSUME Into(bots, Bot), NEW t \in DOMAIN bots, NEW bot \in Bot, bots' = [bots EXCEPT ![t] = bot]
  PROVE  /\ DOMAIN bots' = DOMAIN bots /\ Into(bots, Bot)' /\ bots'[t] = bot
         /\ \A u \in DOMAIN bots : u # t => bots'[u] = bots[u]
  BY DEF Into

(* What a trade and an order in the book do. *)
LEMMA FilledIs ==
  ASSUME Typed, NEW s \in Seats, Filled(s)
  PROVE  /\ fills' \in [Seats -> Nat] /\ fills'[s] = fills[s] + 1
         /\ \A u \in Seats : u # s => fills'[u] = fills[u]
  BY DEF Typed, Filled

(* An order comes to rest or leaves. *)
LEMMA RestingIs ==
  ASSUME Typed, NEW s \in Seats, NEW b \in BOOLEAN, resting' = [resting EXCEPT ![s] = b]
  PROVE  resting' \in [Seats -> BOOLEAN]
  BY DEF Typed

(* A player trades in a seat. *)
LEMMA TradersAre ==
  ASSUME NEW c \in Codes, NEW p \in Traders
  PROVE  p \in Pids /\ <<c, p>> \in Seats
  BY RoomsAssumption DEF RoomsAssumption, Pids, Seats

(* An order of a player keeps the invariant. *)
LEMMA post_orderKeeps ==
  ASSUME IInv, NEW c \in Codes, NEW p \in Traders, post_order(c, p)
  PROVE  IInv'
<1>0. Typed /\ <<c, p>> \in Seats
  BY TradersAre DEF IInv
<1>1. UNCHANGED <<db, now, next_account, rooms, going>>
  BY DEF post_order
<1>2. now' \in 0 .. MAX_TIME
  BY <1>0, <1>1 DEF Typed
<1>3. Into(bots, Bot) /\ DOMAIN bots \subseteq BotIds
  BY <1>0 DEF Typed, Into
<1>4. UNCHANGED bots
  BY DEF post_order
<1>5. DOMAIN bots' \subseteq BotIds /\ Into(bots, Bot)'
  BY <1>3, <1>4 DEF Into
<1>6. CASE Filled(<<c, p>>) /\ UNCHANGED resting
  <2>1. fills' \in [Seats -> Nat] /\ resting' \in [Seats -> BOOLEAN]
    BY <1>0, <1>6, FilledIs DEF Typed
  <2> QED
    BY <1>1, <1>2, <1>5, <2>1, RoomsKept
<1>7. CASE resting' = [resting EXCEPT ![<<c, p>>] = TRUE] /\ UNCHANGED fills
  <2>1. fills' \in [Seats -> Nat] /\ resting' \in [Seats -> BOOLEAN]
    BY <1>0, <1>7, RestingIs DEF Typed
  <2> QED
    BY <1>1, <1>2, <1>5, <2>1, RoomsKept
<1> QED
  BY <1>6, <1>7 DEF post_order

(* So does its cancellation, ... *)
LEMMA delete_orderKeeps ==
  ASSUME IInv, NEW c \in Codes, NEW p \in Traders, delete_order(c, p)
  PROVE  IInv'
<1>0. Typed /\ <<c, p>> \in Seats
  BY TradersAre DEF IInv
<1>1. /\ UNCHANGED <<db, now, next_account, rooms, going, bots, fills>>
      /\ resting' = [resting EXCEPT ![<<c, p>>] = FALSE] \/ UNCHANGED resting
  BY DEF delete_order
<1>2. resting' \in [Seats -> BOOLEAN]
  BY <1>0, <1>1, RestingIs DEF Typed
<1>3. /\ now' \in 0 .. MAX_TIME /\ fills' \in [Seats -> Nat]
      /\ DOMAIN bots' \subseteq BotIds /\ Into(bots, Bot)'
  BY <1>0, <1>1 DEF Typed, Into
<1> QED
  BY <1>1, <1>2, <1>3, RoomsKept

(* The head of the loop changes where the bot is, and nothing else of it.  *)
LEMMA LoopHeadIs ==
  ASSUME Typed, NEW bot \in Bot, NEW head, head = LoopHead(bot)
  PROVE  /\ head \in Bot /\ head.feed = bot.feed /\ head.book = bot.book
         /\ head.ends_at = bot.ends_at /\ head.at \in {"fetch", "ending"}
         /\ head.at = "ending" => now >= bot.ends_at
<1> DEFINE at == IF InTime(bot) THEN "fetch" ELSE "ending"
<1>1. head = [bot EXCEPT !.at = at]
  BY DEF LoopHead
<1>2. at \in {"fetch", "ending"} /\ (at = "ending" => now >= bot.ends_at)
  BY DEF InTime, Bot, Typed
<1> HIDE DEF at
<1> QED
  BY <1>1, <1>2 DEF Bot

(* ... what a bot does ... *)
LEMMA BotStepKeeps ==
  ASSUME IInv, NEW t \in DOMAIN bots, BotStep(t)
  PROVE  IInv'
<1>0. Typed /\ Into(bots, Bot) /\ DOMAIN bots \subseteq BotIds /\ bots[t] \in Bot
  BY DEF IInv, Typed, Into
<1>1. UNCHANGED <<db, now, next_account, rooms, going>>
  BY DEF BotStep, Start, Loop, Requote, SkipTick, EndBot
<1>2. now' \in 0 .. MAX_TIME /\ fills \in [Seats -> Nat] /\ resting \in [Seats -> BOOLEAN]
  BY <1>0, <1>1 DEF Typed
<1>3. <<t[1], t[2]>> \in Seats
  BY <1>0 DEF BotIds, Seats
<1>4. ASSUME bots' = Without(bots, t)
      PROVE  DOMAIN bots' \subseteq BotIds /\ Into(bots, Bot)'
  <2>1. IsWithout(bots', bots, t, Bot)
    BY <1>0, <1>4, WithoutIs
  <2> QED
    BY <1>0, <2>1 DEF IsWithout, Into
<1>5. ASSUME bots' = [bots EXCEPT ![t] = LoopHead(@)]
      PROVE  DOMAIN bots' \subseteq BotIds /\ Into(bots, Bot)'
  <2> DEFINE bot == LoopHead(bots[t])
  <2>1. bots' = [bots EXCEPT ![t] = bot]
    BY <1>5
  <2>2. bot \in Bot
    BY <1>0, LoopHeadIs
  <2> HIDE DEF bot
  <2> QED
    BY <1>0, <2>1, <2>2, BotUpdate
<1>6. ASSUME bots' = [bots EXCEPT ![t].at = "ready"]
      PROVE  DOMAIN bots' \subseteq BotIds /\ Into(bots, Bot)'
  <2> DEFINE bot == [bots[t] EXCEPT !.at = "ready"]
  <2>1. bots' = [bots EXCEPT ![t] = bot]
    BY <1>6
  <2>2. bot \in Bot
    BY <1>0 DEF Bot
  <2> HIDE DEF bot
  <2> QED
    BY <1>0, <2>1, <2>2, BotUpdate
<1>7. ASSUME Mistaken(t) \/ UNCHANGED resting
      PROVE  resting' \in [Seats -> BOOLEAN]
  BY <1>0, <1>2, <1>3, <1>7, RestingIs DEF Mistaken
<1>8. CASE Start(t)
  <2>1. UNCHANGED <<resting, fills>>
        /\ (bots' = [bots EXCEPT ![t] = LoopHead(@)] \/ bots' = Without(bots, t))
    BY <1>8 DEF Start
  <2> QED
    BY <1>1, <1>2, <1>4, <1>5, <2>1, RoomsKept
<1>9. CASE Loop(t)
  <2>1. UNCHANGED <<resting, fills>> /\ bots' = [bots EXCEPT ![t] = LoopHead(@)]
    BY <1>9 DEF Loop
  <2> QED
    BY <1>1, <1>2, <1>5, <2>1, RoomsKept
<1>10. CASE Requote(t)
  <2>1. bots' = [bots EXCEPT ![t].at = "ready"]
    BY <1>10 DEF Requote
  <2>2. fills' \in [Seats -> Nat] /\ resting' \in [Seats -> BOOLEAN]
    <3>1. CASE UNCHANGED <<resting, fills>>
      BY <1>2, <3>1
    <3>2. CASE Mistaken(t) /\ UNCHANGED fills
      BY <1>2, <1>7, <3>2
    <3>3. CASE /\ Filled(<<t[1], t[2]>>)
               /\ resting' \in {resting, [resting EXCEPT ![<<t[1], t[2]>>] = FALSE]}
      <4>1. fills' \in [Seats -> Nat]
        BY <1>0, <1>3, <3>3, FilledIs
      <4>2. resting' \in [Seats -> BOOLEAN]
        BY <1>0, <1>2, <1>3, <3>3, RestingIs
      <4> QED
        BY <4>1, <4>2
    <3> QED
      BY <1>10, <3>1, <3>2, <3>3 DEF Requote
  <2> QED
    BY <1>1, <1>2, <1>6, <2>1, <2>2, RoomsKept
<1>11. CASE SkipTick(t)
  <2>1. UNCHANGED <<resting, fills>> /\ bots' = [bots EXCEPT ![t].at = "ready"]
    BY <1>11 DEF SkipTick
  <2> QED
    BY <1>1, <1>2, <1>6, <2>1, RoomsKept
<1>12. CASE EndBot(t)
  <2>1. bots' = Without(bots, t) /\ UNCHANGED fills /\ (Mistaken(t) \/ UNCHANGED resting)
    BY <1>12 DEF EndBot
  <2> QED
    BY <1>1, <1>2, <1>4, <1>7, <2>1, RoomsKept
<1> QED
  BY <1>8, <1>9, <1>10, <1>11, <1>12 DEF BotStep

(* ... and the clock. *)
LEMMA TickKeeps ==
  ASSUME IInv, Tick
  PROVE  IInv'
<1>1. Typed /\ UNCHANGED <<db, next_account, rooms, going, bots, resting, fills>>
  BY DEF IInv, Tick
<1>2. now' \in 0 .. MAX_TIME
  BY <1>1, RoomsAssumption DEF Tick, Typed, RoomsAssumption
<1>3. /\ resting' \in [Seats -> BOOLEAN] /\ fills' \in [Seats -> Nat]
      /\ DOMAIN bots' \subseteq BotIds /\ Into(bots, Bot)'
  BY <1>1 DEF Typed, Into
<1> QED
  BY <1>1, <1>2, <1>3, RoomsKept

(* So does a request that names another symbol. *)
LEMMA OtherSymbolKeeps ==
  ASSUME IInv, OtherSymbol
  PROVE  IInv'
<1>1. Typed /\ UNCHANGED <<db, now, next_account, rooms, going, bots, resting, fills>>
  BY DEF IInv, OtherSymbol
<1>2. /\ now' \in 0 .. MAX_TIME /\ resting' \in [Seats -> BOOLEAN] /\ fills' \in [Seats -> Nat]
      /\ DOMAIN bots' \subseteq BotIds /\ Into(bots, Bot)'
  BY <1>1 DEF Typed, Into
<1> QED
  BY <1>1, <1>2, RoomsKept

(* The program starts with no room. *)
LEMMA InitHolds ==
  ASSUME Init
  PROVE  IInv
<1>1. DOMAIN NoRoom.players = {} /\ NoRoom.status = "none" /\ NoRoom \in Room
  <2> DEFINE none == [p \in {} |-> 0]
  <2>1. none \in [{} -> Player] /\ none \in [{} -> Nat] /\ DOMAIN none = {}
    OBVIOUS
  <2>2. NoRoom = [status |-> "none", ends_at |-> 0, players |-> none,
                  starts |-> 0, again |-> FALSE, final |-> none]
    BY DEF NoRoom
  <2> HIDE DEF none
  <2>3. none \in OfPlayers(Player) /\ none \in OfPlayers(Nat)
    BY <2>1, OfPlayersHas
  <2>4. 0 \in 0 .. MAX_TIME /\ 0 \in 0 .. MAX_STARTS
    BY RoomsAssumption DEF RoomsAssumption
  <2> QED
    BY <2>1, <2>2, <2>3, <2>4 DEF Room
<1>2. \A c \in Codes : rooms[c] = NoRoom
  BY DEF Init
<1> HIDE DEF NoRoom
<1>3. rooms \in [Codes -> Room]
  BY <1>1 DEF Init
<1>4. /\ DOMAIN going \subseteq Codes \X (1 .. MAX_STARTS) /\ DOMAIN going = {}
      /\ going \in [DOMAIN going -> [player : Pids, feed : Instruments]]
      /\ DOMAIN bots \subseteq BotIds /\ bots \in [DOMAIN bots -> Bot]
  BY DEF Init
<1>5. /\ db \in BOOLEAN /\ now \in 0 .. MAX_TIME /\ next_account \in Nat \ {0}
      /\ resting \in [Seats -> BOOLEAN] /\ fills \in [Seats -> Nat]
  BY RoomsAssumption DEF Init, RoomsAssumption
<1>6. Typed
  BY <1>3, <1>4, <1>5 DEF Typed
<1>7. Seated /\ Starting /\ Accounts
  BY <1>1, <1>2, <1>4 DEF Seated, Taken, Starting, Accounts, Sits
<1> QED
  BY <1>6, <1>7 DEF IInv

(* Every step keeps the invariant. *)
LEMMA NextKeeps ==
  ASSUME IInv, [Next]_vars
  PROVE  IInv'
<1>1. ASSUME NEW c \in Codes, create(c) \/ join(c) \/ finish_if_due(c)
      PROVE  IInv'
  BY <1>1, createKeeps, joinKeeps, finishKeeps
<1>2. ASSUME NEW c \in Codes, NEW p \in Pids, NEW i \in Choices[p], pick(c, p, i)
      PROVE  IInv'
  BY <1>2, pickKeeps
<1>3. ASSUME NEW c \in Codes, NEW p \in Traders, post_order(c, p) \/ delete_order(c, p)
      PROVE  IInv'
  BY <1>3, post_orderKeeps, delete_orderKeeps
<1>4. ASSUME NEW t \in DOMAIN going, Seeded(t)
      PROVE  IInv'
  BY <1>4, SeededKeeps
<1>5. ASSUME NEW t \in DOMAIN bots, BotStep(t)
      PROVE  IInv'
  BY <1>5, BotStepKeeps
<1>6. CASE Tick \/ OtherSymbol
  BY <1>6, TickKeeps, OtherSymbolKeeps
<1>7. CASE UNCHANGED vars
  BY <1>7 DEF vars, IInv, Typed, Seated, Starting, Accounts, Sits, Held
<1> QED
  BY <1>1, <1>2, <1>3, <1>4, <1>5, <1>6, <1>7 DEF Next

(* Rooms, seats, starts and accounts are in order in every state. *)
THEOREM RoomsInvariant == Spec => []IInv
  BY InitHolds, NextKeeps, PTL DEF Spec

-----------------------------------------------------------------------------
(* What the books share: the symbol table and the lookup. *)

Table == [books : SUBSET Books, left : 0 .. BRIDGE_MAX_SYMBOLS]
Lookup == [used : SUBSET Books, wiped : SUBSET Books]

SharedTyped == table \in Table /\ lookup \in Lookup /\ quoted \subseteq Books

(* A full symbol table stays as it is. *)
TableStays == table.left = 0 => table' = table

(* What naming a book does to the table. *)
LEMMA HandleIs ==
  ASSUME NEW tab \in Table, NEW b \in Books
  PROVE  /\ _handle(tab, b) \in Table /\ (tab.left = 0 => _handle(tab, b) = tab)
         /\ b \notin _handle(tab, b).books => tab.left = 0 /\ b \notin tab.books
<1>1. CASE b \in tab.books \/ tab.left = 0
  BY <1>1 DEF _handle
<1>2. CASE ~(b \in tab.books \/ tab.left = 0)
  <2>1. _handle(tab, b) = [books |-> tab.books \cup {b}, left |-> tab.left - 1]
    BY <1>2 DEF _handle
  <2>2. tab.left - 1 \in 0 .. BRIDGE_MAX_SYMBOLS /\ tab.books \cup {b} \subseteq Books
    BY <1>2, RoomsAssumption DEF Table, RoomsAssumption
  <2> QED
    BY <1>2, <2>1, <2>2 DEF Table
<1> QED
  BY <1>1, <1>2

(* What is forgotten are books. *)
LEMMA WipedIs ==
  ASSUME SharedTyped
  PROVE  \A tab : Wiped(tab) \subseteq Books /\ [lookup EXCEPT !.wiped = Wiped(tab)] \in Lookup
<1>1. \A tab : Wiped(tab) \subseteq Books
  BY DEF SharedTyped, Lookup, Wiped, Occupied
<1> QED
  BY <1>1 DEF SharedTyped, Lookup

(* Going live opens books. *)
LEMMA OpenedIs ==
  ASSUME NEW tab \in Table, NEW c \in Codes, NEW p \in Pids, NEW room,
         room.players[p].instrument_id \in Instruments
  PROVE  Opened(tab, c, room, p) \in Table /\ (tab.left = 0 => Opened(tab, c, room, p) = tab)
<1>1. <<c, p, room.players[p].instrument_id>> \in Books
  BY DEF Books
<1> QED
  BY <1>1, HandleIs DEF Opened

(* A bot quotes in a book. *)
LEMMA QuotingIs ==
  ASSUME IInv, NEW t \in DOMAIN bots
  PROVE  Quoting(t) \in Books
<1>1. t[1] \in Codes /\ t[2] \in Pids /\ bots[t] \in Bot
  BY DEF IInv, Typed, BotIds
<1> QED
  BY <1>1 DEF Quoting, Books, Bot

(* A player whose match is live has a book. *)
LEMMA BookIs ==
  ASSUME IInv, NEW c \in Codes, NEW p \in Pids, rooms[c].status = "live"
  PROVE  Book(c, p) \in Books
<1>1. rooms[c] \in Room /\ Picked(rooms[c])
  BY RoomOf DEF IInv, Seated
<1> QED
  BY <1>1, PickedIs DEF Book, Books

(* A pick opens the books of a match that it starts. *)
LEMMA pickShared ==
  ASSUME IInv, SharedTyped, NEW c \in Codes, NEW p \in Pids, NEW i \in Choices[p], pick(c, p, i)
  PROVE  table' \in Table /\ TableStays
<1> DEFINE room == Chosen(c, p, i)
           started == Started(room)
<1>0. Typed /\ table \in Table /\ i \in Instruments /\ 1 \in Pids /\ 2 \in Pids
  BY ChoicesAre DEF IInv, SharedTyped, Pids
<1>1. room = Chosen(c, p, i) /\ started = Started(room)
  OBVIOUS
<1> HIDE DEF room, started
<1>2. /\ p \in DOMAIN rooms[c].players
      /\ \/ PickOnly(c, room)
         \/ /\ Picked(room) /\ room.starts < MAX_STARTS /\ now + DURATION <= MAX_TIME
            /\ PickLater(c, started) \/ PickAtOnce(c, started)
  BY <1>1, pickIs
<1>3. room \in Room
  BY <1>0, <1>1, <1>2, ChosenIs
<1>4. CASE PickOnly(c, room)
  BY <1>0, <1>4 DEF PickOnly, TableStays
<1>5. CASE /\ Picked(room) /\ room.starts < MAX_STARTS /\ now + DURATION <= MAX_TIME
           /\ PickLater(c, started) \/ PickAtOnce(c, started)
  <2>1. started.players = room.players
    BY <1>0, <1>1, <1>3, <1>5, StartedIs
  <2>2. /\ started.players[1].instrument_id \in Instruments
        /\ started.players[2].instrument_id \in Instruments
    BY <1>0, <1>3, <1>5, <2>1, PickedIs
  <2> DEFINE one == Opened(table, c, started, 1)
  <2>3. one \in Table /\ (table.left = 0 => one = table)
    BY <1>0, <2>2, OpenedIs
  <2>4. table' = one \/ table' = Opened(one, c, started, 2)
    BY <1>5 DEF PickLater, PickAtOnce
  <2> HIDE DEF one
  <2>5. Opened(one, c, started, 2) \in Table /\ (one.left = 0 => Opened(one, c, started, 2) = one)
    BY <1>0, <2>2, <2>3, OpenedIs
  <2> QED
    BY <2>3, <2>4, <2>5 DEF TableStays
<1> QED
  BY <1>2, <1>4, <1>5

(* So does the answer of the database. *)
LEMMA SeededShared ==
  ASSUME IInv, SharedTyped, NEW t \in DOMAIN going, Seeded(t)
  PROVE  table' \in Table /\ TableStays
<1> DEFINE c == t[1]
           p == going[t].player
           k == t[2]
           q == NextPlayer(p)
           room == Manned(c, p, k)
<1>0. Typed /\ table \in Table
  BY DEF IInv, SharedTyped
<1>1. table' = IF q = 0 THEN table ELSE Opened(table, c, room, q)
  BY Zenon DEF Seeded, Manned
<1>2. c = t[1] /\ p = going[t].player /\ k = t[2] /\ q = NextPlayer(p) /\ room = Manned(c, p, k)
  OBVIOUS
<1> HIDE DEF c, p, k, q, room
<1>3. /\ c \in Codes /\ Picked(rooms[c])
      /\ \A r \in Pids : room.players[r].instrument_id = rooms[c].players[r].instrument_id
  BY <1>2, AnsweredIs, AnswerIs
<1>4. CASE q = 0
  BY <1>0, <1>1, <1>4 DEF TableStays
<1>5. CASE q # 0
  <2>1. q \in Pids
    BY <1>2, <1>5 DEF NextPlayer, Pids
  <2>2. room.players[q].instrument_id \in Instruments
    BY <1>0, <1>3, <2>1, PickedIs, RoomOf
  <2> QED
    BY <1>0, <1>1, <1>3, <1>5, <2>1, <2>2, OpenedIs DEF TableStays
<1> QED
  BY <1>4, <1>5

(* Every step keeps table and lookup in order, and a full table as it is. *)
LEMMA SharedGoesOn ==
  ASSUME IInv, SharedTyped, [Next]_vars
  PROVE  SharedTyped' /\ TableStays
<1>0. table \in Table /\ lookup \in Lookup /\ quoted \subseteq Books
  BY DEF SharedTyped
<1>1. ASSUME NEW c \in Codes, create(c) \/ join(c) \/ finish_if_due(c)
      PROVE  SharedTyped' /\ TableStays
  BY <1>0, <1>1 DEF create, join, finish_if_due, SharedTyped, TableStays
<1>2. ASSUME NEW c \in Codes, NEW p \in Pids, NEW i \in Choices[p], pick(c, p, i)
      PROVE  SharedTyped' /\ TableStays
  <2>1. lookup' = [lookup EXCEPT !.wiped = Wiped(table')] /\ quoted' = quoted
    BY <1>2, Zenon DEF pick
  <2> QED
    BY <1>0, <1>2, <2>1, pickShared, WipedIs DEF SharedTyped
<1>3. ASSUME NEW c \in Codes, NEW p \in Traders, post_order(c, p)
      PROVE  SharedTyped' /\ TableStays
  <2>1. p \in Pids /\ rooms[c].status = "live"
    BY <1>3, TradersAre DEF post_order, _gate_player
  <2>2. Book(c, p) \in Books
    BY <2>1, BookIs
  <2>3. /\ table' = _handle(table, Book(c, p))
        /\ lookup' = [used |-> lookup.used \cup {Book(c, p)}, wiped |-> Wiped(table')]
        /\ quoted' \subseteq quoted
    BY <1>3 DEF post_order
  <2>4. lookup' \in Lookup
    BY <1>0, <2>2, <2>3, WipedIs DEF Lookup
  <2> QED
    BY <1>0, <2>2, <2>3, <2>4, HandleIs DEF SharedTyped, TableStays
<1>4. ASSUME NEW c \in Codes, NEW p \in Traders, delete_order(c, p)
      PROVE  SharedTyped' /\ TableStays
  BY <1>0, <1>4 DEF delete_order, SharedTyped, TableStays
<1>5. ASSUME NEW t \in DOMAIN going, Seeded(t)
      PROVE  SharedTyped' /\ TableStays
  <2>1. lookup' = [lookup EXCEPT !.wiped = Wiped(table')] /\ quoted' = quoted
    BY <1>5, Zenon DEF Seeded
  <2> QED
    BY <1>0, <1>5, <2>1, SeededShared, WipedIs DEF SharedTyped
<1>6. ASSUME NEW t \in DOMAIN bots, BotStep(t)
      PROVE  SharedTyped' /\ TableStays
  <2>1. Quoting(t) \in Books
    BY QuotingIs
  <2>2. CASE Start(t)
    <3>1. /\ table' = _handle(table, Quoting(t)) /\ quoted' = quoted
          /\ lookup' = [lookup EXCEPT !.wiped = Wiped(table')]
      BY <2>2 DEF Start
    <3> QED
      BY <1>0, <2>1, <3>1, HandleIs, WipedIs DEF SharedTyped, TableStays
  <2>3. CASE Requote(t)
    <3>1. /\ table' = table /\ quoted' \subseteq quoted \cup {Quoting(t)}
          /\ lookup' = [lookup EXCEPT !.used = @ \cup {Quoting(t)}]
      BY <2>3 DEF Requote
    <3> QED
      BY <1>0, <2>1, <3>1 DEF SharedTyped, TableStays, Lookup
  <2>4. CASE Loop(t) \/ SkipTick(t) \/ EndBot(t)
    <3>1. UNCHANGED <<table, lookup>> /\ quoted' \subseteq quoted
      BY <2>4 DEF Loop, SkipTick, EndBot
    <3> QED
      BY <1>0, <3>1 DEF SharedTyped, TableStays
  <2> QED
    BY <1>6, <2>2, <2>3, <2>4 DEF BotStep
<1>7. CASE OtherSymbol
  <2>1. /\ table' = [table EXCEPT !.left = @ - 1] /\ table.left > 0 /\ quoted' = quoted
        /\ lookup' = [lookup EXCEPT !.wiped = Wiped(table')]
    BY <1>7 DEF OtherSymbol
  <2>2. table' \in Table /\ TableStays
    BY <1>0, <2>1, RoomsAssumption DEF Table, TableStays, RoomsAssumption
  <2> QED
    BY <1>0, <2>1, <2>2, WipedIs DEF SharedTyped
<1>8. CASE Tick \/ UNCHANGED vars
  BY <1>0, <1>8 DEF Tick, vars, SharedTyped, TableStays
<1> QED
  BY <1>1, <1>2, <1>3, <1>4, <1>5, <1>6, <1>7, <1>8 DEF Next

(* They are in order in every state. *)
THEOREM SharedInvariant == Spec => []SharedTyped
<1>1. Init => SharedTyped
  BY RoomsAssumption DEF Init, SharedTyped, Table, Lookup, RoomsAssumption
<1>2. IInv /\ SharedTyped /\ [Next]_vars => SharedTyped'
  BY SharedGoesOn
<1> QED
  BY <1>1, <1>2, RoomsInvariant, PTL DEF Spec

-----------------------------------------------------------------------------
(* Two numbers that differ make a set of two. *)
LEMMA TwoOf ==
  ASSUME NEW a, NEW b, a # b
  PROVE  Cardinality({a, b}) = 2
<1>1. IsFiniteSet({a}) /\ Cardinality({a}) = 1
  BY FS_Singleton
<1>2. {a} \cup {b} = {a, b} /\ b \notin {a}
  OBVIOUS
<1>3. Cardinality({a} \cup {b}) = Cardinality({a}) + 1
  BY <1>1, <1>2, FS_AddElement
<1> QED
  BY <1>1, <1>2, <1>3

(* Every seat has two accounts of its own. *)
LEMMA AccountsAreOwn ==
  ASSUME IInv
  PROVE  OwnAccounts
<1>1. \A s \in Seats : s[1] \in Codes /\ s[2] \in Pids /\ s = <<s[1], s[2]>>
  BY DEF Seats
<1>2. ASSUME NEW s \in Seats, s[2] \in DOMAIN rooms[s[1]].players
      PROVE  /\ {rooms[s[1]].players[s[2]].account_id, rooms[s[1]].players[s[2]].bot_account_id}
                  \subseteq 1 .. next_account - 1
             /\ Cardinality({rooms[s[1]].players[s[2]].account_id,
                             rooms[s[1]].players[s[2]].bot_account_id}) = 2
  <2>1. /\ Held(s[1], s[2]) \subseteq 1 .. next_account - 1
        /\ rooms[s[1]].players[s[2]].account_id # rooms[s[1]].players[s[2]].bot_account_id
    BY <1>1, <1>2 DEF IInv, Accounts, Sits
  <2> QED
    BY <2>1, TwoOf DEF Held
<1>3. ASSUME NEW s \in Seats, s[2] \in DOMAIN rooms[s[1]].players,
             NEW u \in Seats, u[2] \in DOMAIN rooms[u[1]].players, s # u
      PROVE  Held(s[1], s[2]) \cap Held(u[1], u[2]) = {}
  <2>1. s[1] # u[1] \/ s[2] # u[2]
    BY <1>1, <1>3
  <2> QED
    BY <1>1, <1>3, <2>1 DEF IInv, Accounts, Sits
<1> QED
  BY <1>2, <1>3 DEF OwnAccounts, Held

(* The state of the rooms, the bots and the players has the types the      *)
(* program gives it, and every seat, of a player and of its bot, in any    *)
(* room, has an account that nobody else has.                              *)
THEOREM TypeCorrect == Spec => []TypeOK
<1>1. ASSUME IInv, SharedTyped PROVE TypeOK
  <2>0. Typed /\ Seated /\ Accounts
    BY <1>1 DEF IInv
  <2>1. ASSUME NEW c \in Codes
        PROVE  /\ rooms[c].status \in {"none", "waiting", "picking", "live", "finished"}
               /\ rooms[c].ends_at \in 0 .. MAX_TIME /\ rooms[c].starts \in 0 .. MAX_STARTS
               /\ DOMAIN rooms[c].players = CASE rooms[c].status = "none" -> {}
                                              [] rooms[c].status = "waiting" -> {1}
                                              [] OTHER -> Pids
               /\ \A p \in DOMAIN rooms[c].players : rooms[c].players[p] \in PlayerType
    <3>1. rooms[c] \in Room
      BY <2>0, RoomOf
    <3>2. /\ rooms[c].status \in {"none", "waiting", "picking", "live", "finished"}
          /\ rooms[c].ends_at \in 0 .. MAX_TIME /\ rooms[c].starts \in 0 .. MAX_STARTS
      BY <3>1, RoomFields
    <3>3. DOMAIN rooms[c].players = CASE rooms[c].status = "none" -> {}
                                      [] rooms[c].status = "waiting" -> {1}
                                      [] OTHER -> Pids
      BY <2>0 DEF Seated, Taken
    <3>4. ASSUME NEW p \in DOMAIN rooms[c].players
          PROVE  rooms[c].players[p] \in PlayerType
      <4>1. rooms[c].players[p] \in Player /\ p \in Pids
        BY <3>1, RoomFields
      <4>2. Held(c, p) \subseteq 1 .. next_account - 1
        BY <2>0, <4>1 DEF Accounts, Sits
      <4> QED
        BY <4>1, <4>2 DEF Held, Player, PlayerType
    <3> QED
      BY <3>2, <3>3, <3>4
  <2>2. /\ DOMAIN bots \subseteq BotIds
        /\ \A t \in DOMAIN bots :
             bots[t] \in [at : {"start", "ready", "fetch", "ending"}, feed : Instruments,
                          book : Instruments, ends_at : 1 .. MAX_TIME]
    BY <2>0 DEF Typed, Bot
  <2> QED
    BY <1>1, <2>1, <2>2, AccountsAreOwn DEF TypeOK, SharedTyped, Table, Lookup
<1> QED
  BY <1>1, RoomsInvariant, SharedInvariant, PTL

-----------------------------------------------------------------------------
(* Full time locks trading: the gate turns orders away, and a bot whose    *)
(* loop reads the clock stops, so that only a price that was under way can *)
(* still lead to a trade.                                                  *)
THEOREM TradingLocks == Spec => FullTimeLocks
<1>1. ASSUME IInv, [Next]_vars,
             NEW c \in Codes, NEW p \in Pids,
             fills'[<<c, p>>] # fills[<<c, p>>], now >= rooms[c].ends_at
      PROVE  \E t \in DOMAIN bots : /\ t[1] = c /\ t[2] = p
                                    /\ bots[t].at = "fetch" /\ bots'[t].at = "ready"
  <2>0. Typed /\ <<c, p>> \in Seats
    BY <1>1 DEF IInv, Seats
  <2>1. fills' # fills
    BY <1>1
  <2>2. ASSUME NEW d \in Codes, NEW r \in Traders, post_order(d, r)
        PROVE  FALSE
    <3>1. Filled(<<d, r>>) /\ rooms' = rooms /\ _gate_player(d) /\ <<d, r>> \in Seats
      BY <2>1, <2>2, TradersAre DEF post_order
    <3>2. <<c, p>> = <<d, r>>
      BY <1>1, <2>0, <3>1, FilledIs
    <3>3. now \in Nat /\ rooms[c].ends_at \in Nat
      BY <2>0, RoomOf, RoomFields DEF Typed
    <3> QED
      BY <1>1, <3>1, <3>2, <3>3 DEF _gate_player, Due
  <2>3. ASSUME NEW t \in DOMAIN bots, BotStep(t)
        PROVE  /\ t[1] = c /\ t[2] = p /\ bots[t].at = "fetch" /\ bots'[t].at = "ready"
    <3>1. Requote(t) /\ Filled(<<t[1], t[2]>>)
      BY <2>1, <2>3 DEF BotStep, Start, Loop, Requote, SkipTick, EndBot
    <3>2. <<t[1], t[2]>> \in Seats /\ bots \in [DOMAIN bots -> Bot]
      BY <2>0 DEF Typed, BotIds, Seats
    <3>3. <<c, p>> = <<t[1], t[2]>>
      BY <1>1, <2>0, <3>1, <3>2, FilledIs
    <3>4. bots[t].at = "fetch" /\ bots'[t].at = "ready"
      BY <3>1, <3>2 DEF Requote, Bot
    <3> QED
      BY <3>3, <3>4
  <2>4. ASSUME NEW d \in Codes
        PROVE  ~(create(d) \/ join(d) \/ finish_if_due(d))
    BY <2>1 DEF create, join, finish_if_due
  <2>5. ASSUME NEW d \in Codes, NEW r \in Pids, NEW i \in Choices[r]
        PROVE  ~pick(d, r, i)
    BY <2>1, Zenon DEF pick
  <2>6. ASSUME NEW d \in Codes, NEW r \in Traders
        PROVE  ~delete_order(d, r)
    BY <2>1 DEF delete_order
  <2>7. ASSUME NEW t \in DOMAIN going
        PROVE  ~Seeded(t)
    BY <2>1, Zenon DEF Seeded
  <2>8. ~Tick /\ ~OtherSymbol /\ ~UNCHANGED vars
    BY <2>1 DEF Tick, OtherSymbol, vars
  <2> QED
    BY <1>1, <2>2, <2>3, <2>4, <2>5, <2>6, <2>7, <2>8 DEF Next
<1>2. ASSUME IInv, [Next]_vars
      PROVE  [\A c \in Codes, p \in Pids :
                fills'[<<c, p>>] # fills[<<c, p>>] /\ now >= rooms[c].ends_at =>
                  \E t \in DOMAIN bots : /\ t[1] = c /\ t[2] = p
                                         /\ bots[t].at = "fetch" /\ bots'[t].at = "ready"]_vars
  BY <1>1, <1>2
<1> QED
  BY <1>2, RoomsInvariant, PTL DEF Spec, FullTimeLocks

-----------------------------------------------------------------------------
(* The matches.  A match that no second start has disturbed is before its  *)
(* start, starting, live or over, and in each of these phases it has       *)
(* exactly the bots and the scoreboard it should have.                     *)

NotGoing(c) == \A t \in DOMAIN going : t[1] # c

NoBot(c, p) == \A t \in DOMAIN bots : ~(t[1] = c /\ t[2] = p)

(* The bot of the first start. *)
BotOf(c, p) == <<c, p, 1>>

(* A bot with the right book and price, that plays to the end. *)
Suits(c, p, bot) ==
  /\ bot.feed = rooms[c].players[p].instrument_id /\ bot.book = bot.feed
  /\ bot.ends_at = rooms[c].ends_at

(* Player p has the bot of the first start, or no book, and no other bot. *)
OwnBot(c, p) ==
  /\ rooms[c].players[p].bot_task = 1
  /\ \A t \in DOMAIN bots : t[1] = c /\ t[2] = p => t = BotOf(c, p) /\ Suits(c, p, bots[t])
  /\ now < rooms[c].ends_at =>
       (BotOf(c, p) \in DOMAIN bots /\ bots[BotOf(c, p)].at # "ending") \/ Bookless(c, p)

AllEnding(c) == \A t \in DOMAIN bots : t[1] = c => bots[t].at = "ending"

BeforeStart(c) ==
  /\ rooms[c].status \in {"none", "waiting", "picking"} /\ rooms[c].starts = 0
  /\ NotGoing(c) /\ NoBot(c, 1) /\ NoBot(c, 2)

(* The first start waits for the database. *)
WhileStarting(c) ==
  LET t == <<c, 1>> IN
  /\ rooms[c].status = "picking"
  /\ t \in DOMAIN going /\ \A u \in DOMAIN going : u[1] = c => u = t
  /\ going[t].feed = rooms[c].players[going[t].player].instrument_id
  /\ NoBot(c, 2)
  /\ \/ going[t].player = 1 /\ NoBot(c, 1)
     \/ going[t].player = 2 /\ OwnBot(c, 1)

WhileLive(c) ==
  rooms[c].status = "live" /\ NotGoing(c) /\ OwnBot(c, 1) /\ OwnBot(c, 2)

AfterFullTime(c) ==
  /\ rooms[c].status = "finished" /\ NotGoing(c) /\ AllEnding(c)
  /\ \A p \in Pids : rooms[c].final[p] = fills[<<c, p>>]

MatchOf(c) == BeforeStart(c) \/ WhileStarting(c) \/ WhileLive(c) \/ AfterFullTime(c)

MInv == \A c \in Codes : ~rooms[c].again => MatchOf(c)

-----------------------------------------------------------------------------
(* What a step does that does not move the match of room c: a bot may find *)
(* that its time is over or that there is no book for it, and go.          *)
BotKept(t) ==
  /\ t \in DOMAIN bots
  /\ bots'[t].feed = bots[t].feed /\ bots'[t].book = bots[t].book
  /\ bots'[t].ends_at = bots[t].ends_at
  /\ bots[t].at = "ending" => bots'[t].at = "ending"
  /\ bots'[t].at = "ending" => bots[t].at = "ending" \/ now >= bots[t].ends_at

BotsKept(c) ==
  /\ \A t \in DOMAIN bots' : t[1] = c => BotKept(t)
  /\ \A t \in DOMAIN bots : t[1] = c =>
       \/ t \in DOMAIN bots' \/ bots[t].at = "ending"
       \/ table.left = 0 /\ Quoting(t) \notin table.books

GoingKept(c) ==
  /\ \A t \in DOMAIN going : t[1] = c => t \in DOMAIN going' /\ going'[t] = going[t]
  /\ \A t \in DOMAIN going' : t[1] = c => t \in DOMAIN going

Calm(c) ==
  /\ rooms'[c] = rooms[c] /\ now <= now' /\ GoingKept(c) /\ BotsKept(c)
  /\ rooms[c].status = "finished" /\ AllEnding(c) =>
       \A p \in Pids : fills'[<<c, p>>] = fills[<<c, p>>]

(* No bot comes from nowhere. *)
LEMMA NoBotKept ==
  ASSUME NEW c \in Codes, NEW p \in Pids, BotsKept(c), NoBot(c, p)
  PROVE  NoBot(c, p)'
  BY DEF BotsKept, BotKept, NoBot

(* Who has no book gets none. *)
LEMMA BooklessKept ==
  ASSUME TableStays, NEW c \in Codes, NEW p \in Pids, Bookless(c, p),
         rooms'[c].players[p].instrument_id = rooms[c].players[p].instrument_id
  PROVE  Bookless(c, p)'
  BY DEF TableStays, Bookless, Book

(* The bot of the first start stays until its time is over. *)
LEMMA OwnBotKept ==
  ASSUME IInv, TableStays, NEW c \in Codes, NEW p \in Pids,
         BotsKept(c), OwnBot(c, p), now <= now', now' \in Nat,
         rooms'[c].players[p] = rooms[c].players[p], rooms'[c].ends_at = rooms[c].ends_at
  PROVE  OwnBot(c, p)'
<1>1. \A t \in DOMAIN bots' : t[1] = c /\ t[2] = p => t = BotOf(c, p) /\ Suits(c, p, bots[t])'
  BY DEF BotsKept, BotKept, OwnBot, Suits
<1>2. ASSUME now' < rooms[c].ends_at, ~Bookless(c, p)'
      PROVE  BotOf(c, p) \in DOMAIN bots' /\ bots'[BotOf(c, p)].at # "ending"
  <2>1. now \in Nat /\ rooms[c].ends_at \in Nat
    BY RoomOf, RoomFields DEF IInv, Typed
  <2>2. now < rooms[c].ends_at /\ ~Bookless(c, p)
    BY <1>2, <2>1, BooklessKept
  <2>3. BotOf(c, p) \in DOMAIN bots /\ bots[BotOf(c, p)].at # "ending" /\ BotOf(c, p)[1] = c /\ BotOf(c, p)[2] = p
    BY <2>2 DEF OwnBot, BotOf
  <2>4. Suits(c, p, bots[BotOf(c, p)])
    BY <2>3 DEF OwnBot
  <2>5. Quoting(BotOf(c, p)) = Book(c, p)
    BY <2>3, <2>4 DEF Suits, Quoting, Book
  <2>6. BotOf(c, p) \in DOMAIN bots' /\ bots[BotOf(c, p)].ends_at = rooms[c].ends_at
    BY <2>2, <2>3, <2>4, <2>5 DEF Suits, BotsKept, Bookless
  <2> QED
    BY <2>1, <2>2, <2>3, <2>6, <1>2 DEF BotsKept, BotKept
<1> QED
  BY <1>1, <1>2 DEF OwnBot, BotOf

(* Such a step leaves the match where it is. *)
LEMMA CalmKeeps ==
  ASSUME IInv, TableStays, NEW c \in Codes, MatchOf(c), Calm(c), now' \in Nat
  PROVE  MatchOf(c)'
<1>0. rooms'[c] = rooms[c] /\ now <= now' /\ GoingKept(c) /\ BotsKept(c) /\ 1 \in Pids /\ 2 \in Pids
  BY DEF Calm, Pids
<1>1. NotGoing(c) => NotGoing(c)'
  BY <1>0 DEF NotGoing, GoingKept
<1>2. \A p \in Pids : (NoBot(c, p) => NoBot(c, p)') /\ (OwnBot(c, p) => OwnBot(c, p)')
  BY <1>0, NoBotKept, OwnBotKept
<1>3. CASE BeforeStart(c)
  BY <1>0, <1>1, <1>2, <1>3 DEF BeforeStart, MatchOf
<1>4. CASE WhileStarting(c)
  <2> DEFINE t == <<c, 1>>
  <2>1. /\ t \in DOMAIN going /\ \A u \in DOMAIN going : u[1] = c => u = t
        /\ going[t].feed = rooms[c].players[going[t].player].instrument_id
        /\ rooms[c].status = "picking" /\ NoBot(c, 2)
        /\ \/ going[t].player = 1 /\ NoBot(c, 1)
           \/ going[t].player = 2 /\ OwnBot(c, 1)
    BY <1>4 DEF WhileStarting
  <2>2. t[1] = c /\ t = <<c, 1>>
    OBVIOUS
  <2> HIDE DEF t
  <2>3. t \in DOMAIN going' /\ going'[t] = going[t] /\ \A u \in DOMAIN going' : u[1] = c => u = t
    BY <1>0, <2>1, <2>2 DEF GoingKept
  <2>4. /\ t \in DOMAIN going' /\ \A u \in DOMAIN going' : u[1] = c => u = t
        /\ going'[t].feed = rooms'[c].players[going'[t].player].instrument_id
        /\ rooms'[c].status = "picking" /\ NoBot(c, 2)'
        /\ \/ going'[t].player = 1 /\ NoBot(c, 1)'
           \/ going'[t].player = 2 /\ OwnBot(c, 1)'
    BY <1>0, <1>2, <2>1, <2>3
  <2> QED
    BY <2>2, <2>4 DEF WhileStarting, MatchOf
<1>5. CASE WhileLive(c)
  BY <1>0, <1>1, <1>2, <1>5 DEF WhileLive, MatchOf
<1>6. CASE AfterFullTime(c)
  <2>1. AllEnding(c)'
    BY <1>0, <1>6 DEF AfterFullTime, AllEnding, BotsKept, BotKept
  <2>2. \A p \in Pids : rooms'[c].final[p] = fills'[<<c, p>>]
    BY <1>0, <1>6 DEF AfterFullTime, Calm
  <2> QED
    BY <1>0, <1>1, <1>6, <2>1, <2>2 DEF AfterFullTime, MatchOf
<1> QED
  BY <1>3, <1>4, <1>5, <1>6 DEF MatchOf
-----------------------------------------------------------------------------
(* If only the match of room c moves, only that one is to be looked at. *)
LEMMA OnlyOneMoves ==
  ASSUME IInv, TableStays, MInv, now' \in Nat, NEW c \in Codes,
         \A d \in Codes : d # c => Calm(d), ~rooms'[c].again => MatchOf(c)'
  PROVE  MInv'
<1>1. ASSUME NEW d \in Codes, d # c, ~rooms'[d].again
      PROVE  MatchOf(d)'
  <2>1. Calm(d)
    BY <1>1
  <2>2. MatchOf(d)
    BY <1>1, <2>1 DEF MInv, Calm
  <2> QED
    BY <2>1, <2>2, CalmKeeps
<1> QED
  BY <1>1 DEF MInv

(* If none moves, none. *)
LEMMA NoneMoves ==
  ASSUME IInv, TableStays, MInv, now' \in Nat, \A d \in Codes : Calm(d)
  PROVE  MInv'
<1> SUFFICES ASSUME NEW d \in Codes, ~rooms'[d].again
             PROVE  MatchOf(d)'
  BY DEF MInv
<1>1. MatchOf(d)
  BY DEF MInv, Calm
<1> QED
  BY <1>1, CalmKeeps

(* A room that a step does not touch. *)
LEMMA Still ==
  ASSUME IInv, NEW d \in Codes, rooms'[d] = rooms[d], UNCHANGED <<now, going, bots, fills>>
  PROVE  Calm(d)
<1>1. now <= now'
  BY DEF IInv, Typed
<1> QED
  BY <1>1 DEF Calm, GoingKept, BotsKept, BotKept

(* A seat taken leaves a match before its start, ... *)
LEMMA SeatMatch ==
  ASSUME IInv, TableStays, MInv, NEW c \in Codes, NEW p \in Pids, NEW status \in {"waiting", "picking"},
         TakesSeat(c, p, status), rooms[c].status \in {"none", "waiting"}
  PROVE  MInv'
<1>0. Typed /\ UNCHANGED <<db, now, going, bots, table, lookup, quoted, resting, fills>> /\ now' \in Nat
  BY DEF IInv, TakesSeat, Typed
<1>1. /\ \A d \in Codes : d # c => rooms'[d] = rooms[d]
      /\ rooms'[c].status = status /\ rooms'[c].starts = rooms[c].starts
      /\ rooms'[c].again = rooms[c].again
  BY <1>0, TakesSeatDoes
<1>2. \A d \in Codes : d # c => Calm(d)
  BY <1>0, <1>1, Still
<1>3. ASSUME ~rooms'[c].again
      PROVE  MatchOf(c)'
  <2>1. MatchOf(c)
    BY <1>1, <1>3 DEF MInv
  <2>2. BeforeStart(c)
    BY <2>1 DEF MatchOf, WhileStarting, WhileLive, AfterFullTime
  <2>3. BeforeStart(c)'
    BY <1>0, <1>1, <2>2 DEF BeforeStart, NotGoing, NoBot
  <2> QED
    BY <2>3 DEF MatchOf
<1> QED
  BY <1>0, <1>2, <1>3, OnlyOneMoves

(* ... by the player that creates the room ... *)
LEMMA createMatch ==
  ASSUME IInv, TableStays, MInv, NEW c \in Codes, create(c)
  PROVE  MInv'
<1>1. rooms[c].status = "none" /\ TakesSeat(c, 1, "waiting") /\ 1 \in Pids
  BY DEF create, TakesSeat, Pids
<1> QED
  BY <1>1, SeatMatch

(* ... and by the one that joins it. *)
LEMMA joinMatch ==
  ASSUME IInv, TableStays, MInv, NEW c \in Codes, join(c)
  PROVE  MInv'
<1>1. rooms[c].status = "waiting" /\ TakesSeat(c, 2, "picking") /\ 2 \in Pids
  BY DEF join, TakesSeat, Pids
<1> QED
  BY <1>1, SeatMatch

(* The first pick that finds both players decided moves the match on. *)
LEMMA pickMatch ==
  ASSUME IInv, TableStays, MInv, NEW c \in Codes, NEW p \in Pids, NEW i \in Choices[p], pick(c, p, i)
  PROVE  MInv'
<1> DEFINE room == Chosen(c, p, i)
           started == Started(room)
           live == Live(started)
<1>0. Typed /\ Seated
  BY DEF IInv
<1>1. i \in Instruments
  BY ChoicesAre
<1>2. room = Chosen(c, p, i) /\ started = Started(room)
  OBVIOUS
<1>2a. live = Live(started)
  OBVIOUS
<1> HIDE DEF room, started, live
<1>3. /\ p \in DOMAIN rooms[c].players /\ MayPick(rooms[c])
      /\ UNCHANGED <<db, now, next_account, resting, fills>>
      /\ \/ PickOnly(c, room)
         \/ /\ Picked(room) /\ room.starts < MAX_STARTS /\ now + DURATION <= MAX_TIME
            /\ (db /\ PickLater(c, started)) \/ (~db /\ PickAtOnce(c, started))
  BY <1>2, pickIs
<1>3a. p \in DOMAIN rooms[c].players
  BY <1>3
<1>4. /\ room \in Room /\ room.status = rooms[c].status /\ room.starts = rooms[c].starts
      /\ room.again <=> rooms[c].again \/ \E t \in DOMAIN going : t[1] = c
  BY <1>0, <1>1, <1>2, <1>3a, ChosenIs
<1>5. now' \in Nat /\ now' = now /\ now <= now' /\ fills' = fills
  BY <1>0, <1>3 DEF Typed
<1>6. rooms[c].status \in {"waiting", "picking"}
  BY <1>0, <1>3, MayPickIs
<1>7. ASSUME ~room.again
      PROVE  rooms[c].starts = 0 /\ NotGoing(c) /\ NoBot(c, 1) /\ NoBot(c, 2)
  <2>1. MatchOf(c) /\ NotGoing(c)
    BY <1>4, <1>7 DEF MInv, NotGoing
  <2>2. ~WhileStarting(c)
    BY <2>1 DEF WhileStarting, NotGoing
  <2> QED
    BY <1>6, <2>1, <2>2 DEF MatchOf, BeforeStart, WhileLive, AfterFullTime
<1>8. CASE PickOnly(c, room)
  <2>1. /\ \A d \in Codes : d # c => rooms'[d] = rooms[d]
        /\ rooms'[c] = room /\ UNCHANGED <<going, bots>>
    BY <1>0, <1>4, <1>8, RoomUpdate DEF PickOnly
  <2>2. \A d \in Codes : d # c => Calm(d)
    BY <1>5, <2>1, Still
  <2>3. ASSUME ~rooms'[c].again PROVE MatchOf(c)'
    BY <1>4, <1>6, <1>7, <2>1, <2>3 DEF MatchOf, BeforeStart, NotGoing, NoBot
  <2> QED
    BY <1>5, <2>2, <2>3, OnlyOneMoves
<1>9. CASE /\ Picked(room) /\ room.starts < MAX_STARTS /\ now + DURATION <= MAX_TIME
           /\ (db /\ PickLater(c, started)) \/ (~db /\ PickAtOnce(c, started))
  <2>1. /\ started \in Room /\ started.status = room.status /\ started.players = room.players
        /\ started.ends_at \in 1 .. MAX_TIME /\ started.starts = room.starts + 1
        /\ started.starts \in 1 .. MAX_STARTS /\ started.again = room.again
    BY <1>0, <1>2, <1>4, <1>9, StartedIs
  <2>2. /\ Picked(started) /\ DOMAIN started.players = Pids
        /\ \A q \in Pids : started.players[q].instrument_id \in Instruments
    BY <1>9, <2>1, PickedIs DEF Picked
  <2>3. rooms[c].status = "picking" /\ 1 \in Pids /\ 2 \in Pids
    <3>1. DOMAIN rooms[c].players = Pids
      BY <1>1, <1>2, <1>3a, <1>9, ChosenGoesOn
    <3> QED
      BY <1>0, <1>3, <3>1, MayPickIs DEF Pids
  <2>4. CASE PickLater(c, started)
    <3> DEFINE new == [player |-> 1, feed |-> started.players[1].instrument_id]
               t == <<c, started.starts>>
    <3>1. going' = With(going, t, new) /\ bots' = bots
      BY <2>4 DEF PickLater
    <3>2. /\ \A d \in Codes : d # c => rooms'[d] = rooms[d]
          /\ rooms'[c] = started
      BY <1>0, <2>1, <2>4, RoomUpdate DEF PickLater
    <3>3. new.player = 1 /\ new.feed = started.players[1].instrument_id
      OBVIOUS
    <3>3a. t[1] = c /\ t = <<c, started.starts>>
      OBVIOUS
    <3>4. new \in [player : Pids, feed : Instruments]
      BY <2>2, <2>3
    <3> HIDE DEF new, t
    <3>5. IsWith(going', going, t, new, [player : Pids, feed : Instruments])
      <4>1. Into(going, [player : Pids, feed : Instruments])
        BY <1>0 DEF Typed, Into
      <4> QED
        BY <3>1, <3>4, <4>1, WithIs
    <3>6. /\ DOMAIN going' = DOMAIN going \cup {t} /\ going'[t] = new
          /\ \A u \in DOMAIN going : u # t => going'[u] = going[u]
      BY <3>5 DEF IsWith
    <3>7. ASSUME NEW d \in Codes, d # c
          PROVE  Calm(d)
      <4>1. GoingKept(d)
        BY <3>3a, <3>6, <3>7 DEF GoingKept
      <4>2. BotsKept(d)
        BY <3>1 DEF BotsKept, BotKept
      <4> QED
        BY <1>5, <3>2, <3>7, <4>1, <4>2 DEF Calm
    <3>8. ASSUME ~rooms'[c].again
          PROVE  WhileStarting(c)'
      <4>1. rooms[c].starts = 0 /\ NotGoing(c) /\ NoBot(c, 1) /\ NoBot(c, 2)
        BY <1>7, <2>1, <3>2, <3>8
      <4>2. t = <<c, 1>>
        BY <1>4, <2>1, <3>3a, <4>1
      <4>3. t \in DOMAIN going' /\ \A u \in DOMAIN going' : u[1] = c => u = t
        BY <3>6, <4>1 DEF NotGoing
      <4>4. NoBot(c, 1)' /\ NoBot(c, 2)'
        BY <3>1, <4>1 DEF NoBot
      <4>5. /\ going'[t].player = 1 /\ rooms'[c].status = "picking"
            /\ going'[t].feed = rooms'[c].players[going'[t].player].instrument_id
        BY <1>4, <2>1, <2>3, <3>2, <3>3, <3>6
      <4> QED
        BY <4>2, <4>3, <4>4, <4>5 DEF WhileStarting
    <3> QED
      BY <1>5, <3>7, <3>8, OnlyOneMoves DEF MatchOf
  <2>5. CASE PickAtOnce(c, started)
    <3> DEFINE New(q) == NewBot(started, q, started.players[q].instrument_id)
    <3>1. going' = going
      BY <2>5 DEF PickAtOnce
    <3>2. /\ live \in Room /\ live.status = "live"
          /\ \A q \in Pids : live.players[q] = [started.players[q] EXCEPT !.bot_task = started.starts]
          /\ live.ends_at = started.ends_at /\ live.again = started.again
      BY <1>2a, <2>1, <2>2, LiveIs
    <3>3. \A q \in Pids : /\ live.players[q].bot_task = started.starts
                          /\ live.players[q].instrument_id = started.players[q].instrument_id
      <4>1. \A q \in Pids : started.players[q] \in Player
        BY <2>1, <2>2, RoomFields
      <4> QED
        BY <3>2, <4>1 DEF Player
    <3>4. /\ \A d \in Codes : d # c => rooms'[d] = rooms[d]
          /\ rooms'[c] = live
      BY <1>0, <1>2a, <2>5, <3>2, RoomUpdate DEF PickAtOnce
    <3>5. \A q \in Pids : /\ New(q).feed = started.players[q].instrument_id
                          /\ New(q).book = New(q).feed
                          /\ New(q).ends_at = started.ends_at /\ New(q).at = "start"
      BY DEF NewBot
    <3>6. bots' = [t \in DOMAIN bots \cup {<<c, q, started.starts>> : q \in Pids} |->
                     IF t \in DOMAIN bots THEN bots[t] ELSE New(t[2])]
      BY <2>5 DEF PickAtOnce
    <3> HIDE DEF New
    <3>7. /\ DOMAIN bots' = DOMAIN bots \cup {<<c, q, started.starts>> : q \in Pids}
          /\ \A t \in DOMAIN bots : bots'[t] = bots[t]
          /\ \A q \in Pids : <<c, q, started.starts>> \notin DOMAIN bots =>
                               bots'[<<c, q, started.starts>>] = New(q)
      BY <3>6
    <3>8. ASSUME NEW d \in Codes, d # c
          PROVE  Calm(d)
      <4>1. \A t \in DOMAIN bots' : t[1] = d => t \in DOMAIN bots
        BY <3>7, <3>8
      <4>2. BotsKept(d)
        BY <3>7, <4>1 DEF BotsKept, BotKept
      <4>3. GoingKept(d)
        BY <3>1 DEF GoingKept
      <4> QED
        BY <1>5, <3>4, <3>8, <4>2, <4>3 DEF Calm
    <3>9. ASSUME ~rooms'[c].again
          PROVE  WhileLive(c)'
      <4>1. rooms[c].starts = 0 /\ NotGoing(c) /\ NoBot(c, 1) /\ NoBot(c, 2)
        BY <1>7, <2>1, <3>2, <3>4, <3>9
      <4>2. started.starts = 1
        BY <1>4, <2>1, <4>1
      <4>3. ASSUME NEW q \in Pids
            PROVE  OwnBot(c, q)'
        <5>1. NoBot(c, q)
          BY <4>1 DEF Pids
        <5>2. BotOf(c, q) = <<c, q, started.starts>> /\ BotOf(c, q) \in DOMAIN bots' /\ BotOf(c, q) \notin DOMAIN bots
          BY <3>7, <4>2, <5>1 DEF BotOf, NoBot
        <5>3. bots'[BotOf(c, q)] = New(q)
          BY <3>7, <5>2
        <5>4. \A t \in DOMAIN bots' : t[1] = c /\ t[2] = q => t = BotOf(c, q)
          BY <3>7, <5>1, <5>2 DEF NoBot
        <5>5. Suits(c, q, bots[BotOf(c, q)])'
          BY <3>2, <3>3, <3>4, <3>5, <5>3 DEF Suits, BotOf
        <5>6. bots'[BotOf(c, q)].at # "ending" /\ rooms'[c].players[q].bot_task = 1
          BY <3>3, <3>4, <3>5, <4>2, <5>3
        <5> QED
          BY <5>2, <5>4, <5>5, <5>6 DEF OwnBot, BotOf
      <4> QED
        BY <2>3, <3>1, <3>2, <3>4, <4>1, <4>3 DEF WhileLive, NotGoing
    <3> QED
      BY <1>5, <3>8, <3>9, OnlyOneMoves DEF MatchOf
  <2> QED
    BY <1>9, <2>4, <2>5
<1> QED
  BY <1>3, <1>8, <1>9
(* The database answers: one more bot of the match has started. *)
LEMMA SeededMatch ==
  ASSUME IInv, TableStays, MInv, NEW t \in DOMAIN going, Seeded(t),
         NEW c, c = t[1], NEW p, p = going[t].player, NEW k, k = t[2]
  PROVE  MInv'
<1> DEFINE room == Answered(t)
           q == NextPlayer(p)
           next == [player |-> q, feed |-> Manned(c, p, k).players[q].instrument_id]
           b == <<c, p, k>>
<1>0. Typed /\ Seated /\ Starting
  BY DEF IInv
<1>1. /\ bots' = With(bots, b, Answer(t)) /\ rooms' = [rooms EXCEPT ![c] = room]
      /\ going' = IF q = 0 THEN Without(going, t) ELSE With(going, t, next)
      /\ UNCHANGED <<db, now, next_account, resting, fills>>
  BY SeededIs DEF Answer
<1>2. c = t[1] /\ p = going[t].player /\ k = t[2] /\ room = Answered(t) /\ q = NextPlayer(p)
  OBVIOUS
<1>2a. b = <<c, p, k>> /\ b[1] = c /\ b[2] = p
  OBVIOUS
<1>3. next.player = q /\ next.feed = Manned(c, p, k).players[q].instrument_id
  OBVIOUS
<1>3a. next = [player |-> q, feed |-> Manned(c, p, k).players[q].instrument_id]
  OBVIOUS
<1> HIDE DEF room, q, next, b
<1>4. /\ c \in Codes /\ p \in Pids /\ k \in 1 .. MAX_STARTS /\ t = <<c, k>>
      /\ Picked(rooms[c]) /\ room \in Room /\ room.ends_at = rooms[c].ends_at
      /\ room.again = rooms[c].again
      /\ room.status = IF NextPlayer(p) # 0 THEN rooms[c].status ELSE "live"
      /\ room.players[p].bot_task = k
      /\ \A r \in Pids : r # p => room.players[r] = rooms[c].players[r]
      /\ \A r \in Pids : room.players[r].instrument_id = rooms[c].players[r].instrument_id
  BY <1>2, AnsweredIs
<1>5. /\ Answer(t) \in Bot /\ Answer(t).at = "start" /\ Answer(t).feed = going[t].feed
      /\ Answer(t).book = rooms[c].players[p].instrument_id
      /\ Answer(t).ends_at = rooms[c].ends_at
      /\ \A r \in Pids : Manned(c, p, k).players[r].instrument_id = rooms[c].players[r].instrument_id
  BY <1>2, AnswerIs
<1>6. rooms'[c] = room /\ \A d \in Codes : d # c => rooms'[d] = rooms[d]
  BY <1>0, <1>1, <1>4, RoomUpdate
<1>7. /\ DOMAIN bots' = DOMAIN bots \cup {b} /\ bots'[b] = Answer(t)
      /\ \A u \in DOMAIN bots : u # b => bots'[u] = bots[u]
  <2>1. Into(bots, Bot)
    BY <1>0 DEF Typed, Into
  <2>2. IsWith(bots', bots, b, Answer(t), Bot)
    BY <1>1, <1>5, <2>1, WithIs
  <2> QED
    BY <2>2 DEF IsWith
<1> DEFINE Answers == [player : Pids, feed : Instruments]
<1>8. Into(going, Answers)
  BY <1>0 DEF Typed, Into
<1>9. ASSUME q = 0
      PROVE  /\ DOMAIN going' = DOMAIN going \ {t}
             /\ \A u \in DOMAIN going : u # t => going'[u] = going[u]
  <2>1. going' = Without(going, t)
    BY <1>1, <1>9
  <2> HIDE DEF Answers
  <2>2. IsWithout(going', going, t, Answers)
    BY <1>8, <2>1, WithoutIs
  <2> QED
    BY <2>2 DEF IsWithout
<1>10. ASSUME q # 0
       PROVE  /\ DOMAIN going' = DOMAIN going /\ going'[t] = next
              /\ \A u \in DOMAIN going : u # t => going'[u] = going[u]
  <2>1. q \in Pids
    BY <1>2, <1>10 DEF NextPlayer, Pids
  <2>2. Manned(c, p, k).players[q].instrument_id \in Instruments
    BY <1>0, <1>4, <1>5, <2>1, PickedIs, RoomOf
  <2>3. next \in Answers
    BY <1>3a, <2>1, <2>2
  <2>4. going' = With(going, t, next)
    BY <1>1, <1>10
  <2> HIDE DEF Answers
  <2>5. IsWith(going', going, t, next, Answers)
    BY <1>8, <2>3, <2>4, WithIs
  <2> QED
    BY <2>5 DEF IsWith
<1> HIDE DEF Answers
<1>11. now' \in Nat /\ now' = now /\ now <= now' /\ fills' = fills
  BY <1>0, <1>1 DEF Typed
<1>12. ASSUME NEW d \in Codes, d # c
       PROVE  Calm(d)
  <2>1. t[1] # d
    BY <1>2, <1>12
  <2>2. GoingKept(d)
    BY <1>9, <1>10, <2>1 DEF GoingKept
  <2>3. BotsKept(d)
    BY <1>2a, <1>7, <1>12 DEF BotsKept, BotKept
  <2> QED
    BY <1>6, <1>11, <1>12, <2>2, <2>3 DEF Calm
<1>13. ASSUME ~rooms'[c].again
       PROVE  MatchOf(c)'
  <2>1. MatchOf(c) /\ ~NotGoing(c)
    BY <1>2, <1>4, <1>6, <1>13 DEF MInv, NotGoing
  <2>2. WhileStarting(c)
    BY <2>1 DEF MatchOf, BeforeStart, WhileLive, AfterFullTime
  <2>3. /\ t = <<c, 1>> /\ \A u \in DOMAIN going : u[1] = c => u = t
        /\ rooms[c].status = "picking" /\ NoBot(c, 2)
        /\ going[t].feed = rooms[c].players[p].instrument_id
        /\ (p = 1 /\ NoBot(c, 1)) \/ (p = 2 /\ OwnBot(c, 1))
    <3>1. t[1] = c /\ \A u \in DOMAIN going : u[1] = c => u = <<c, 1>>
      BY <1>2, <2>2 DEF WhileStarting
    <3>2. t = <<c, 1>>
      BY <3>1
    <3> QED
      BY <1>2, <2>2, <3>2 DEF WhileStarting
  <2>4. k = 1 /\ b = BotOf(c, p)
    BY <1>2, <1>2a, <2>3 DEF BotOf
  <2>5. NoBot(c, p)
    BY <2>3
  <2>6. OwnBot(c, p)'
    <3>1. \A u \in DOMAIN bots' : u[1] = c /\ u[2] = p => u = b
      BY <1>7, <2>5 DEF NoBot
    <3>2. Suits(c, p, bots[b])'
      BY <1>4, <1>5, <1>6, <1>7, <2>3 DEF Suits
    <3>3. b \in DOMAIN bots' /\ bots'[b].at # "ending" /\ rooms'[c].players[p].bot_task = 1
      BY <1>4, <1>5, <1>6, <1>7, <2>4
    <3> QED
      BY <2>4, <3>1, <3>2, <3>3 DEF OwnBot, BotOf
  <2>7. CASE p = 1
    <3>1. q = 2
      BY <1>2, <2>7 DEF NextPlayer
    <3>2. NoBot(c, 2)'
      BY <1>2a, <1>7, <2>3, <2>7 DEF NoBot
    <3>3. /\ going'[t].player = 2 /\ rooms'[c].status = "picking" /\ t \in DOMAIN going'
          /\ \A u \in DOMAIN going' : u[1] = c => u = t
      BY <1>2, <1>3, <1>4, <1>6, <1>10, <2>3, <3>1
    <3>4. going'[t].feed = rooms'[c].players[going'[t].player].instrument_id
      BY <1>3, <1>4, <1>5, <1>6, <1>10, <3>1, <3>3 DEF Pids
    <3> QED
      BY <2>3, <2>6, <2>7, <3>2, <3>3, <3>4 DEF WhileStarting, MatchOf
  <2>8. CASE p = 2
    <3>1. q = 0 /\ rooms'[c].status = "live"
      BY <1>2, <1>4, <1>6, <2>8 DEF NextPlayer
    <3>2. NotGoing(c)'
      BY <1>9, <2>3, <3>1 DEF NotGoing
    <3>3. OwnBot(c, 1)'
      <4>1. OwnBot(c, 1)
        BY <2>3, <2>8
      <4>2. \A u \in DOMAIN bots' : u[1] = c /\ u[2] = 1 => u \in DOMAIN bots /\ bots'[u] = bots[u]
        BY <1>2a, <1>7, <2>8
      <4>3. \A u \in DOMAIN bots : u[1] = c /\ u[2] = 1 => u \in DOMAIN bots' /\ bots'[u] = bots[u]
        BY <1>2a, <1>7, <2>8
      <4>4. rooms'[c].players[1] = rooms[c].players[1] /\ rooms'[c].ends_at = rooms[c].ends_at
        BY <1>4, <1>6, <2>8 DEF Pids
      <4>5. BotOf(c, 1)[1] = c /\ BotOf(c, 1)[2] = 1
        BY DEF BotOf
      <4>6. Bookless(c, 1) => Bookless(c, 1)'
        BY <1>4, <4>4, BooklessKept DEF Pids
      <4> QED
        BY <1>11, <4>1, <4>2, <4>3, <4>4, <4>5, <4>6 DEF OwnBot, Suits, BotOf
    <3> QED
      BY <2>6, <2>8, <3>1, <3>2, <3>3 DEF WhileLive, MatchOf
  <2> QED
    BY <2>3, <2>7, <2>8
<1> QED
  BY <1>4, <1>11, <1>12, <1>13, OnlyOneMoves

(* Full time: every bot of the match is told to end. *)
LEMMA finishMatch ==
  ASSUME IInv, TableStays, MInv, NEW c \in Codes, finish_if_due(c)
  PROVE  MInv'
<1> DEFINE room == Finished(c)
<1>0. Typed /\ Seated
  BY DEF IInv
<1>1. /\ rooms[c].status = "live" /\ rooms' = [rooms EXCEPT ![c] = room]
      /\ UNCHANGED <<db, now, next_account, going, table, lookup, quoted, resting, fills>>
  BY DEF finish_if_due, finish, Due
<1>2. bots' = [t \in DOMAIN bots |->
                 IF t \in Stopped(c) THEN [bots[t] EXCEPT !.at = "ending"] ELSE bots[t]]
  BY DEF finish_if_due, finish
<1>3. room = Finished(c)
  OBVIOUS
<1> HIDE DEF room
<1>4. /\ room \in Room /\ room.status = "finished" /\ room.again = rooms[c].again
      /\ \A p \in Pids : room.final[p] = fills[<<c, p>>]
  BY <1>0, <1>3, FinishedIs
<1>5. rooms'[c] = room /\ \A d \in Codes : d # c => rooms'[d] = rooms[d]
  BY <1>0, <1>1, <1>4, RoomUpdate
<1>6. \A t \in DOMAIN bots : [bots[t] EXCEPT !.at = "ending"].at = "ending"
  BY <1>0 DEF Typed, Bot
<1>7. /\ DOMAIN bots' = DOMAIN bots
      /\ \A t \in DOMAIN bots : t \notin Stopped(c) => bots'[t] = bots[t]
      /\ \A t \in DOMAIN bots : t \in Stopped(c) => bots'[t].at = "ending"
  BY <1>2, <1>6
<1>8. \A t \in Stopped(c) : t[1] = c
  BY DEF Stopped
<1>9. now' \in Nat /\ now' = now /\ now <= now' /\ fills' = fills /\ going' = going
  BY <1>0, <1>1 DEF Typed
<1>10. ASSUME NEW d \in Codes, d # c
       PROVE  Calm(d)
  <2>1. BotsKept(d)
    BY <1>7, <1>8, <1>10 DEF BotsKept, BotKept
  <2> QED
    BY <1>5, <1>9, <1>10, <2>1 DEF Calm, GoingKept
<1>11. ASSUME ~rooms'[c].again
       PROVE  MatchOf(c)'
  <2>1. MatchOf(c)
    BY <1>4, <1>5, <1>11 DEF MInv
  <2>2. NotGoing(c) /\ OwnBot(c, 1) /\ OwnBot(c, 2)
    BY <1>1, <2>1 DEF MatchOf, BeforeStart, WhileStarting, WhileLive, AfterFullTime
  <2>3. DOMAIN rooms[c].players = Pids
    BY <1>0, <1>1 DEF Seated, Taken
  <2>4. \A p \in Pids : BotOf(c, p) \in Stopped(c)
    BY <2>2, <2>3 DEF Stopped, OwnBot, BotOf, Pids
  <2>5. \A t \in DOMAIN bots : t[1] = c => t \in Stopped(c)
    <3>1. \A t \in DOMAIN bots : t[2] \in Pids
      BY <1>0 DEF Typed, BotIds
    <3>2. \A t \in DOMAIN bots : t[1] = c => t = BotOf(c, 1) \/ t = BotOf(c, 2)
      BY <2>2, <3>1 DEF OwnBot, Pids
    <3> QED
      BY <2>4, <3>2 DEF Pids
  <2>6. AllEnding(c)'
    BY <1>7, <2>5 DEF AllEnding
  <2> QED
    BY <1>4, <1>5, <1>9, <2>2, <2>6 DEF AfterFullTime, NotGoing, MatchOf
<1> QED
  BY <1>9, <1>10, <1>11, OnlyOneMoves
(* A step of the players or of a bot: the rooms stay, a bot may go. *)
LEMMA BotMovesCalm ==
  ASSUME IInv, NEW t \in DOMAIN bots, NEW bot, bots' = [bots EXCEPT ![t] = bot],
         UNCHANGED <<now, rooms, going>>,
         bot.feed = bots[t].feed, bot.book = bots[t].book, bot.ends_at = bots[t].ends_at,
         bots[t].at = "ending" => bot.at = "ending",
         bot.at = "ending" => bots[t].at = "ending" \/ now >= bots[t].ends_at,
         NEW c \in Codes,
         rooms[c].status = "finished" /\ AllEnding(c) => \A p \in Pids : fills'[<<c, p>>] = fills[<<c, p>>]
  PROVE  Calm(c)
<1>1. now <= now'
  BY DEF IInv, Typed
<1>2. /\ DOMAIN bots' = DOMAIN bots /\ bots'[t] = bot
      /\ \A u \in DOMAIN bots : u # t => bots'[u] = bots[u]
  BY DEF IInv, Typed
<1>3. \A u \in DOMAIN bots : BotKept(u)
  BY <1>2 DEF BotKept
<1>4. BotsKept(c)
  BY <1>2, <1>3 DEF BotsKept
<1>5. GoingKept(c)
  BY DEF GoingKept
<1> QED
  BY <1>1, <1>4, <1>5 DEF Calm

(* An order of a player moves no match, ... *)
LEMMA post_orderMatch ==
  ASSUME IInv, TableStays, MInv, NEW c \in Codes, NEW p \in Traders, post_order(c, p)
  PROVE  MInv'
<1>0. Typed /\ <<c, p>> \in Seats /\ p \in Pids
  BY TradersAre DEF IInv
<1>1. /\ UNCHANGED <<db, now, next_account, rooms, going>> /\ now' \in Nat
      /\ rooms[c].status = "live"
  BY <1>0 DEF post_order, _gate_player, Typed
<1>2. ASSUME NEW d \in Codes, rooms[d].status = "finished"
      PROVE  \A q \in Pids : fills'[<<d, q>>] = fills[<<d, q>>]
  <2>1. d # c
    BY <1>1, <1>2
  <2>2. CASE Filled(<<c, p>>)
    BY <1>0, <2>1, <2>2, FilledIs DEF Seats
  <2>3. CASE UNCHANGED fills
    BY <2>3
  <2> QED
    BY <2>2, <2>3 DEF post_order
<1>3. UNCHANGED bots
  BY DEF post_order
<1>4. ASSUME NEW d \in Codes PROVE Calm(d)
  <2>1. now <= now'
    BY <1>0, <1>1 DEF Typed
  <2> QED
    BY <1>1, <1>2, <1>3, <2>1 DEF Calm, GoingKept, BotsKept, BotKept
<1> QED
  BY <1>1, <1>4, NoneMoves

(* ... nor does what a bot does. *)
LEMMA BotStepMatch ==
  ASSUME IInv, SharedTyped, TableStays, MInv, NEW t \in DOMAIN bots, BotStep(t)
  PROVE  MInv'
<1>0. Typed /\ bots[t] \in Bot /\ <<t[1], t[2]>> \in Seats
  BY DEF IInv, Typed, BotIds, Seats
<1>1. UNCHANGED <<db, now, next_account, rooms, going>> /\ now' \in Nat /\ now <= now'
  <2>1. UNCHANGED <<db, now, next_account, rooms, going>>
    BY DEF BotStep, Start, Loop, Requote, SkipTick, EndBot
  <2> QED
    BY <1>0, <2>1 DEF Typed
<1>2. ASSUME bots' = [bots EXCEPT ![t] = LoopHead(@)], UNCHANGED fills, bots[t].at # "ending"
      PROVE  MInv'
  <2> DEFINE bot == LoopHead(bots[t])
  <2>1. bots' = [bots EXCEPT ![t] = bot]
    BY <1>2
  <2>2. /\ bot.feed = bots[t].feed /\ bot.book = bots[t].book /\ bot.ends_at = bots[t].ends_at
        /\ bot.at = "ending" => now >= bots[t].ends_at
    BY <1>0, LoopHeadIs
  <2> HIDE DEF bot
  <2>3. ASSUME NEW d \in Codes PROVE Calm(d)
    BY <1>1, <1>2, <2>1, <2>2, BotMovesCalm
  <2> QED
    BY <1>1, <2>3, NoneMoves
<1>3. ASSUME bots' = Without(bots, t), UNCHANGED fills,
             bots[t].at = "ending" \/ (table.left = 0 /\ Quoting(t) \notin table.books)
      PROVE  MInv'
  <2>1. Into(bots, Bot)
    BY <1>0 DEF Typed, Into
  <2>2. IsWithout(bots', bots, t, Bot)
    BY <1>3, <2>1, WithoutIs
  <2>3. DOMAIN bots' = DOMAIN bots \ {t} /\ \A u \in DOMAIN bots : u # t => bots'[u] = bots[u]
    BY <2>2 DEF IsWithout
  <2>4. ASSUME NEW d \in Codes PROVE Calm(d)
    <3>1. BotsKept(d)
      BY <1>3, <2>3 DEF BotsKept, BotKept
    <3> QED
      BY <1>1, <1>3, <3>1 DEF Calm, GoingKept
  <2> QED
    BY <1>1, <2>4, NoneMoves
<1>4. ASSUME bots' = [bots EXCEPT ![t].at = "ready"], bots[t].at = "fetch",
             UNCHANGED fills \/ Filled(<<t[1], t[2]>>)
      PROVE  MInv'
  <2> DEFINE bot == [bots[t] EXCEPT !.at = "ready"]
  <2>1. bots' = [bots EXCEPT ![t] = bot]
    BY <1>4
  <2>2. /\ bot.feed = bots[t].feed /\ bot.book = bots[t].book
        /\ bot.ends_at = bots[t].ends_at /\ bot.at = "ready"
    BY <1>0 DEF Bot
  <2> HIDE DEF bot
  <2>3. ASSUME NEW d \in Codes, AllEnding(d)
        PROVE  \A p \in Pids : fills'[<<d, p>>] = fills[<<d, p>>]
    <3>1. t[1] # d
      BY <1>4, <2>3 DEF AllEnding
    <3>2. CASE UNCHANGED fills
      BY <3>2
    <3>3. CASE Filled(<<t[1], t[2]>>)
      BY <1>0, <3>1, <3>3, FilledIs DEF Seats
    <3> QED
      BY <1>4, <3>2, <3>3
  <2>4. ASSUME NEW d \in Codes PROVE Calm(d)
    BY <1>1, <1>4, <2>1, <2>2, <2>3, BotMovesCalm
  <2> QED
    BY <1>1, <2>4, NoneMoves
<1>5. CASE Start(t)
  <2>1. /\ bots[t].at = "start" /\ UNCHANGED fills /\ table' = _handle(table, Quoting(t))
        /\ bots' = IF Quoting(t) \in table'.books THEN [bots EXCEPT ![t] = LoopHead(@)]
                   ELSE Without(bots, t)
    BY <1>5 DEF Start
  <2>2. CASE Quoting(t) \in table'.books
    BY <1>2, <2>1, <2>2
  <2>3. CASE Quoting(t) \notin table'.books
    <3>1. table.left = 0 /\ Quoting(t) \notin table.books
      BY <2>1, <2>3, QuotingIs, HandleIs DEF SharedTyped
    <3> QED
      BY <1>3, <2>1, <2>3, <3>1
  <2> QED
    BY <2>2, <2>3
<1>6. CASE Loop(t)
  BY <1>2, <1>6 DEF Loop
<1>7. CASE Requote(t)
  BY <1>4, <1>7 DEF Requote
<1>8. CASE SkipTick(t)
  BY <1>4, <1>8 DEF SkipTick
<1>9. CASE EndBot(t)
  BY <1>3, <1>9 DEF EndBot
<1> QED
  BY <1>5, <1>6, <1>7, <1>8, <1>9 DEF BotStep

(* The clock and what the bots do not see. *)
LEMMA QuietMatch ==
  ASSUME IInv, TableStays, MInv, UNCHANGED <<rooms, going, bots, fills>>, now' \in Nat, now <= now'
  PROVE  MInv'
<1>1. \A d \in Codes : Calm(d)
  BY DEF Calm, GoingKept, BotsKept, BotKept
<1> QED
  BY <1>1, NoneMoves

(* Every step keeps the invariant of the matches. *)
LEMMA NextMatch ==
  ASSUME IInv, SharedTyped, MInv, [Next]_vars
  PROVE  MInv'
<1>0. now \in Nat /\ TableStays
  BY SharedGoesOn DEF IInv, Typed
<1>1. ASSUME NEW c \in Codes, create(c) \/ join(c) \/ finish_if_due(c)
      PROVE  MInv'
  BY <1>0, <1>1, createMatch, joinMatch, finishMatch
<1>2. ASSUME NEW c \in Codes, NEW p \in Pids, NEW i \in Choices[p], pick(c, p, i)
      PROVE  MInv'
  BY <1>0, <1>2, pickMatch
<1>3. ASSUME NEW c \in Codes, NEW p \in Traders, post_order(c, p)
      PROVE  MInv'
  BY <1>0, <1>3, post_orderMatch
<1>4. ASSUME NEW c \in Codes, NEW p \in Traders, delete_order(c, p)
      PROVE  MInv'
  BY <1>0, <1>4, QuietMatch DEF delete_order
<1>5. ASSUME NEW t \in DOMAIN going, Seeded(t)
      PROVE  MInv'
  BY <1>0, <1>5, SeededMatch, Zenon
<1>6. ASSUME NEW t \in DOMAIN bots, BotStep(t)
      PROVE  MInv'
  BY <1>0, <1>6, BotStepMatch
<1>7. CASE Tick \/ OtherSymbol
  BY <1>0, <1>7, QuietMatch DEF Tick, OtherSymbol
<1>8. CASE UNCHANGED vars
  BY <1>0, <1>8, QuietMatch DEF vars
<1> QED
  BY <1>1, <1>2, <1>3, <1>4, <1>5, <1>6, <1>7, <1>8 DEF Next

(* Every match that started once is in one of the four phases. *)
THEOREM MatchInvariant == Spec => [](IInv /\ MInv)
<1>1. Init => MInv
  BY DEF Init, MInv, MatchOf, BeforeStart, NotGoing, NoBot, NoRoom
<1>2. IInv /\ SharedTyped /\ MInv /\ [Next]_vars => MInv'
  BY NextMatch
<1> QED
  BY <1>1, <1>2, RoomsInvariant, SharedInvariant, PTL DEF Spec

-----------------------------------------------------------------------------
(* A live match that was started once has one bot in each player's book,   *)
(* which quotes the price of the instrument the player picked, until full  *)
(* time: run_market_maker of _go_live, and no task besides.  It lacks one  *)
(* only where the symbol table had no place for the book.                  *)
THEOREM OneBotPerMatch == Spec => []OneBotPerBook
<1>1. ASSUME IInv, MInv PROVE OneBotPerBook
  <2> SUFFICES ASSUME NEW c \in Codes, NEW p \in Pids,
                      rooms[c].status = "live", ~rooms[c].again
               PROVE  LET own == {t \in DOMAIN bots : t[1] = c /\ t[2] = p} IN
                      /\ own \subseteq {<<c, p, rooms[c].players[p].bot_task>>}
                      /\ now < rooms[c].ends_at => own # {} \/ Bookless(c, p)
                      /\ \A t \in own : /\ bots[t].feed = rooms[c].players[p].instrument_id
                                        /\ bots[t].book = bots[t].feed
                                        /\ bots[t].ends_at = rooms[c].ends_at
    BY Zenon DEF OneBotPerBook
  <2>1. WhileLive(c)
    BY <1>1 DEF MInv, MatchOf, BeforeStart, WhileStarting, AfterFullTime
  <2>2. OwnBot(c, p)
    BY <2>1 DEF WhileLive, Pids
  <2>3. BotOf(c, p) = <<c, p, 1>> /\ BotOf(c, p)[1] = c /\ BotOf(c, p)[2] = p
    BY DEF BotOf
  <2> QED
    BY <2>2, <2>3 DEF OwnBot, Suits
<1> QED
  BY <1>1, MatchInvariant, PTL

(* The scoreboard that finish freezes is the one the portfolios still show *)
(* at any later time: neither a player nor a bot of that match trades any  *)
(* more.                                                                   *)
THEOREM ScoreStands == Spec => []FinalStands
<1>1. IInv /\ MInv => FinalStands
  BY DEF FinalStands, MInv, MatchOf, BeforeStart, WhileStarting, WhileLive, AfterFullTime
<1> QED
  BY <1>1, MatchInvariant, PTL
==============================================================================
