------------------------------ MODULE FeedProofs ------------------------------
(***************************************************************************)
(* The invariants of the feed, for any set of orders, any capacities and   *)
(* any number of changes and connections.                                  *)
(***************************************************************************)
EXTENDS FeedProps, TLAPS

(* The messages that tell of order o, and those that tell of the ladder.   *)
Of(o) == {m \in Msgs : m.kind = "order" /\ m.order = o}
Ladders == {m \in Msgs : m.kind \in {"delta", "snapshot"}}

(* Queue q has no message of the set S.                                    *)
Absent(q, S) == \A i \in 1 .. Len(q) : q[i] \notin S

(* The last message of S in q, if there is one, tells n.                   *)
EndsAt(q, S, n) ==
  \A i \in 1 .. Len(q) :
    q[i] \in S /\ (\A j \in i + 1 .. Len(q) : q[j] \notin S) => q[i].at = n

(* What q tells of S never falls, and lies between two counts.             *)
Rising(q, S) ==
  \A i, j \in 1 .. Len(q) : i < j /\ q[i] \in S /\ q[j] \in S => q[i].at <= q[j].at
Above(q, S, n) == \A i \in 1 .. Len(q) : q[i] \in S => n <= q[i].at
Below(q, S, n) == \A i \in 1 .. Len(q) : q[i] \in S => q[i].at <= n

----------------------------------------------------------------------------
(* Queues of messages. *)

(* Where the elements of a queue are after an append.                      *)
LEMMA AppendPlaces ==
  ASSUME NEW q \in Seq(Msgs), NEW m \in Msgs
  PROVE  /\ Append(q, m) \in Seq(Msgs)
         /\ Len(q) \in Nat
         /\ Len(Append(q, m)) = Len(q) + 1
         /\ \A i \in 1 .. Len(q) : Append(q, m)[i] = q[i]
         /\ Append(q, m)[Len(q) + 1] = m
  OBVIOUS

(* Where the elements of a queue are after its head was removed.           *)
LEMMA TailPlaces ==
  ASSUME NEW q \in Seq(Msgs), q # <<>>
  PROVE  /\ Tail(q) \in Seq(Msgs)
         /\ Len(q) \in Nat \ {0}
         /\ Len(Tail(q)) = Len(q) - 1
         /\ \A i \in 1 .. Len(Tail(q)) : Tail(q)[i] = q[i + 1]
         /\ Head(q) = q[1]
         /\ Head(q) \in Msgs
  OBVIOUS

(* An appended message of S is the last of S, and any other leaves the     *)
(* last of S what it was.                                                  *)
LEMMA AppendEnds ==
  ASSUME NEW q \in Seq(Msgs), NEW m \in Msgs, NEW S
  PROVE  /\ m \in S => EndsAt(Append(q, m), S, m.at) /\ ~Absent(Append(q, m), S)
         /\ \A n : m \notin S /\ EndsAt(q, S, n) => EndsAt(Append(q, m), S, n)
         /\ m \notin S => (Absent(Append(q, m), S) <=> Absent(q, S))
<1> DEFINE r == Append(q, m)
<1>1. /\ Len(q) \in Nat /\ Len(r) = Len(q) + 1
      /\ \A i \in 1 .. Len(q) : r[i] = q[i]
      /\ r[Len(q) + 1] = m
  BY AppendPlaces
<1> HIDE DEF r
<1>2. m \in S => EndsAt(r, S, m.at) /\ ~Absent(r, S)
  <2> SUFFICES ASSUME m \in S PROVE EndsAt(r, S, m.at) /\ ~Absent(r, S)
    OBVIOUS
  <2>1. ~Absent(r, S)
    BY <1>1 DEF Absent
  <2>2. ASSUME NEW i \in 1 .. Len(r), \A j \in i + 1 .. Len(r) : r[j] \notin S
        PROVE  i = Len(q) + 1
    BY <1>1, <2>2
  <2> QED
    BY <1>1, <2>1, <2>2 DEF EndsAt
<1>3. ASSUME NEW n, m \notin S, EndsAt(q, S, n)
      PROVE  EndsAt(r, S, n)
  <2> SUFFICES ASSUME NEW i \in 1 .. Len(r), r[i] \in S,
                      \A j \in i + 1 .. Len(r) : r[j] \notin S
               PROVE  r[i].at = n
    BY DEF EndsAt
  <2>1. i \in 1 .. Len(q) /\ r[i] = q[i]
    BY <1>1, <1>3
  <2>2. \A j \in i + 1 .. Len(q) : q[j] \notin S
    BY <1>1, <2>1
  <2> QED
    BY <1>3, <2>1, <2>2 DEF EndsAt
<1>4. m \notin S => (Absent(r, S) <=> Absent(q, S))
  BY <1>1 DEF Absent
<1> QED
  BY <1>2, <1>3, <1>4 DEF r

(* Removing the head leaves the last of S what it was, unless the head is  *)
(* the only one; then that is what the head tells.                         *)
LEMMA TailEnds ==
  ASSUME NEW q \in Seq(Msgs), q # <<>>, NEW S
  PROVE  /\ \A n : EndsAt(q, S, n) => EndsAt(Tail(q), S, n)
         /\ \A n : EndsAt(q, S, n) /\ Head(q) \in S /\ Absent(Tail(q), S) => Head(q).at = n
         /\ Head(q) \notin S => (Absent(Tail(q), S) <=> Absent(q, S))
         /\ Absent(q, S) => Absent(Tail(q), S)
<1> DEFINE r == Tail(q)
<1>1. /\ Len(q) \in Nat \ {0} /\ Len(r) = Len(q) - 1
      /\ \A i \in 1 .. Len(r) : r[i] = q[i + 1]
      /\ Head(q) = q[1]
  BY TailPlaces
<1> HIDE DEF r
<1>2. \A i \in 2 .. Len(q) : i - 1 \in 1 .. Len(r) /\ r[i - 1] = q[i]
  BY <1>1
<1>3. ASSUME NEW n, EndsAt(q, S, n)
      PROVE  EndsAt(r, S, n)
  <2> SUFFICES ASSUME NEW i \in 1 .. Len(r), r[i] \in S,
                      \A j \in i + 1 .. Len(r) : r[j] \notin S
               PROVE  r[i].at = n
    BY DEF EndsAt
  <2>1. i + 1 \in 1 .. Len(q) /\ r[i] = q[i + 1]
    BY <1>1
  <2>2. ASSUME NEW j \in (i + 1) + 1 .. Len(q)
        PROVE  q[j] \notin S
    <3>1. j - 1 \in i + 1 .. Len(r) /\ r[j - 1] = q[j]
      BY <1>1, <1>2
    <3> QED
      BY <3>1
  <2> QED
    BY <1>3, <2>1, <2>2 DEF EndsAt
<1>4. ASSUME NEW n, EndsAt(q, S, n), Head(q) \in S, Absent(r, S)
      PROVE  Head(q).at = n
  <2>1. \A j \in 1 + 1 .. Len(q) : q[j] \notin S
    BY <1>2, <1>4 DEF Absent
  <2> QED
    BY <1>1, <1>4, <2>1 DEF EndsAt
<1>5. Absent(q, S) => Absent(r, S)
  BY <1>1 DEF Absent
<1>6. Head(q) \notin S /\ Absent(r, S) => Absent(q, S)
  <2> SUFFICES ASSUME Head(q) \notin S, Absent(r, S), NEW i \in 1 .. Len(q)
               PROVE  q[i] \notin S
    BY DEF Absent
  <2>1. CASE i = 1
    BY <1>1, <2>1
  <2>2. CASE i # 1
    BY <1>1, <1>2, <2>2 DEF Absent
  <2> QED
    BY <2>1, <2>2
<1> QED
  BY <1>3, <1>4, <1>5, <1>6 DEF r

(* The order of a queue survives an append of something as high, and a     *)
(* removal, after which the rest is not below the head.                    *)
LEMMA AppendRises ==
  ASSUME NEW q \in Seq(Msgs), NEW m \in Msgs, NEW S
  PROVE  /\ Rising(q, S) /\ (m \in S => Below(q, S, m.at)) => Rising(Append(q, m), S)
         /\ \A n : Above(q, S, n) /\ (m \in S => n <= m.at) => Above(Append(q, m), S, n)
         /\ \A n : Below(q, S, n) /\ (m \in S => m.at <= n) => Below(Append(q, m), S, n)
<1> DEFINE r == Append(q, m)
<1>1. /\ Len(q) \in Nat /\ Len(r) = Len(q) + 1
      /\ \A i \in 1 .. Len(q) : r[i] = q[i]
      /\ r[Len(q) + 1] = m
  BY AppendPlaces
<1> HIDE DEF r
<1>2. \A i \in 1 .. Len(r) : i \in 1 .. Len(q) \/ i = Len(q) + 1
  BY <1>1
<1>3. ASSUME Rising(q, S), m \in S => Below(q, S, m.at)
      PROVE  Rising(r, S)
  <2> SUFFICES ASSUME NEW i \in 1 .. Len(r), NEW j \in 1 .. Len(r), i < j, r[i] \in S, r[j] \in S
               PROVE  r[i].at <= r[j].at
    BY DEF Rising
  <2>1. i \in 1 .. Len(q)
    BY <1>1
  <2>2. CASE j \in 1 .. Len(q)
    BY <1>1, <1>3, <2>1, <2>2 DEF Rising
  <2>3. CASE j = Len(q) + 1
    BY <1>1, <1>3, <2>1, <2>3 DEF Below
  <2> QED
    BY <1>2, <2>2, <2>3
<1>4. ASSUME NEW n, Above(q, S, n), m \in S => n <= m.at
      PROVE  Above(r, S, n)
  BY <1>1, <1>2, <1>4 DEF Above
<1>5. ASSUME NEW n, Below(q, S, n), m \in S => m.at <= n
      PROVE  Below(r, S, n)
  BY <1>1, <1>2, <1>5 DEF Below
<1> QED
  BY <1>3, <1>4, <1>5 DEF r

(* After a removal the rest lies where the queue lay, and not below it.    *)
LEMMA TailRises ==
  ASSUME NEW q \in Seq(Msgs), q # <<>>, NEW S
  PROVE  /\ Rising(q, S) => Rising(Tail(q), S) /\ (Head(q) \in S => Above(Tail(q), S, Head(q).at))
         /\ \A n : Above(q, S, n) => Above(Tail(q), S, n) /\ (Head(q) \in S => n <= Head(q).at)
         /\ \A n : Below(q, S, n) => Below(Tail(q), S, n) /\ (Head(q) \in S => Head(q).at <= n)
<1> DEFINE r == Tail(q)
<1>1. /\ Len(q) \in Nat \ {0} /\ Len(r) = Len(q) - 1
      /\ \A i \in 1 .. Len(r) : r[i] = q[i + 1]
      /\ Head(q) = q[1]
  BY TailPlaces
<1> HIDE DEF r
<1>2. \A i \in 1 .. Len(r) : i + 1 \in 1 .. Len(q) /\ 1 < i + 1
  BY <1>1
<1>3. 1 \in 1 .. Len(q)
  BY <1>1
<1>4. ASSUME Rising(q, S)
      PROVE  Rising(r, S) /\ (Head(q) \in S => Above(r, S, Head(q).at))
  <2>1. ASSUME NEW i \in 1 .. Len(r), NEW j \in 1 .. Len(r), i < j, r[i] \in S, r[j] \in S
        PROVE  r[i].at <= r[j].at
    <3>1. i + 1 < j + 1
      BY <2>1, <1>1
    <3> QED
      BY <1>1, <1>2, <1>4, <2>1, <3>1 DEF Rising
  <2> QED
    BY <1>1, <1>2, <1>3, <1>4, <2>1 DEF Rising, Above
<1>5. ASSUME NEW n, Above(q, S, n)
      PROVE  Above(r, S, n) /\ (Head(q) \in S => n <= Head(q).at)
  BY <1>1, <1>2, <1>3, <1>5 DEF Above
<1>6. ASSUME NEW n, Below(q, S, n)
      PROVE  Below(r, S, n) /\ (Head(q) \in S => Head(q).at <= n)
  BY <1>1, <1>2, <1>3, <1>6 DEF Below
<1> QED
  BY <1>4, <1>5, <1>6 DEF r

----------------------------------------------------------------------------
(* The types. *)

Clients == [stage : {"closed", "acking", "booked", "subscribed"}, out_q : Seq(Msgs)]
Histories == [overflowed : BOOLEAN, failed : BOOLEAN, dropped : BOOLEAN]
Browsers == [book : Counts \cup {Nothing}, from : {"none", "socket", "rest"},
             orders : [Orders -> Counts], rest : {"asked", "answered", "done"},
             answer : Counts \cup {Nothing}, connects : 0 .. MAX_CONNECTS]

USE DEF Clients, Histories, Browsers

(* TypeOK with what the proofs need besides: no order has changed more     *)
(* often than the ladder, and only what the engine emits is in its queue.  *)
QueueTyped ==
  /\ event_q \in Seq(Msgs)
  /\ Len(event_q) <= EVENT_CAP
  /\ \A i \in 1 .. Len(event_q) : event_q[i].kind \in {"order", "delta"}

ClientTyped ==
  /\ client \in Clients
  /\ Len(client.out_q) <= OUT_CAP
  /\ \A i \in 1 .. Len(client.out_q) : client.out_q[i].kind # "none"

Typed ==
  /\ db \in BOOLEAN
  /\ engine \in [order : [Orders -> Counts], ladder : Counts]
  /\ \A o \in Orders : engine.order[o] <= engine.ladder
  /\ QueueTyped
  /\ pump \in [at : {"idle", "row", "watermark"}, msg : Msgs]
  /\ pump.at = "row" => pump.msg.kind = "order"
  /\ pump.at # "idle" => db /\ pump.msg.kind \in {"order", "delta"}
  /\ row \in [Orders -> Counts]
  /\ ClientTyped
  /\ browser \in Browsers
  /\ history \in Histories

(* What the pump is busy with is a message of S.                           *)
Held(S) == pump.at # "idle" /\ pump.msg \in S

(* The counts of an order never fall on the way from the engine to its     *)
(* row, and what is told of it after the write is not above the row.       *)
WrittenOf(o) ==
  /\ Rising(event_q, Of(o))
  /\ Above(event_q, Of(o), row[o])
  /\ Below(event_q, Of(o), engine.order[o])
  /\ row[o] <= engine.order[o]
  /\ Held(Of(o)) =>
       /\ Above(event_q, Of(o), pump.msg.at)
       /\ pump.msg.at <= engine.order[o]
       /\ pump.at = "row" => row[o] <= pump.msg.at
  /\ db /\ ~history.failed =>
       /\ Held(Of(o)) /\ pump.at = "watermark" => pump.msg.at <= row[o]
       /\ Below(client.out_q, Of(o), row[o])
       /\ browser.orders[o] <= row[o]

Written == \A o \in Orders : WrittenOf(o)

(* The last that the adapter's queue or the pump holds of an order is its  *)
(* current count, and when they hold nothing of it the row is.             *)
RecordedOf(o) ==
  /\ EndsAt(event_q, Of(o), engine.order[o])
  /\ Absent(event_q, Of(o)) /\ ~history.overflowed =>
       /\ Held(Of(o)) => pump.msg.at = engine.order[o]
       /\ db /\ ~history.failed /\ ~(Held(Of(o)) /\ pump.at = "row") =>
            row[o] = engine.order[o]

Recorded == \A o \in Orders : RecordedOf(o)

(* The event of an order is followed by one of the ladder, so the last     *)
(* that was emitted tells the current ladder, and a subscriber that has    *)
(* lost nothing has it, in its queue or on the screen.                     *)
LadderTold ==
  /\ event_q # <<>> =>
       /\ event_q[Len(event_q)].kind = "delta"
       /\ event_q[Len(event_q)].at = engine.ladder
  /\ event_q = <<>> /\ pump.at # "idle" =>
       /\ pump.at = "watermark"
       /\ pump.msg.kind = "delta"
       /\ pump.msg.at = engine.ladder
  /\ Drained /\ client.stage \in {"booked", "subscribed"} /\ ~history.dropped =>
       /\ EndsAt(client.out_q, Ladders, engine.ladder)
       /\ Absent(client.out_q, Ladders) =>
            browser.book = engine.ladder \/ browser.from = "rest"

(* On the first connection nothing is told of an order before its channel  *)
(* is subscribed to, and then the last that was told of it is its current  *)
(* count, unless that is still on the way.                                 *)
OrdersToldOf(o) ==
  /\ client.stage # "subscribed" => Absent(client.out_q, Of(o))
  /\ browser.connects = 0 => browser.orders[o] = 0
  /\ browser.connects = 1 /\ client.stage \in {"acking", "booked"} => browser.orders[o] = 0
  /\ browser.connects = 1 /\ client.stage = "subscribed" /\ ~history.dropped
       /\ ~history.overflowed /\ Absent(event_q, Of(o)) /\ ~Held(Of(o)) =>
       /\ EndsAt(client.out_q, Of(o), engine.order[o])
       /\ Absent(client.out_q, Of(o)) => browser.orders[o] \in {0, engine.order[o]}

OrdersTold ==
  /\ client.stage = "closed" => client.out_q = <<>>
  /\ browser.connects = 0 => client.stage = "closed"
  /\ \A o \in Orders : OrdersToldOf(o)

----------------------------------------------------------------------------
(* Messages, and what an emission, a broadcast and a step of the pump do.  *)

(* What the fields of a message are.                                       *)
LEMMA MsgFacts ==
  /\ \A m \in Msgs :
       /\ m.kind \in {"none", "order", "delta", "snapshot"}
       /\ m.kind = "order" => m.order \in Orders /\ m.at \in Counts
       /\ m.kind \in {"delta", "snapshot"} => m.at \in Counts
  /\ NoMsg \in Msgs /\ NoMsg.kind = "none"
  /\ \A o \in Orders, n \in Counts :
       /\ OrderMsg(o, n) \in Msgs
       /\ OrderMsg(o, n).kind = "order"
       /\ OrderMsg(o, n).order = o
       /\ OrderMsg(o, n).at = n
  /\ \A k \in {"delta", "snapshot"}, n \in Counts :
       /\ BookMsg(k, n) \in Msgs
       /\ BookMsg(k, n).kind = k
       /\ BookMsg(k, n).at = n
BY DEF Msgs, NoMsg, OrderMsg, BookMsg

(* A place of a queue holds a message.                                     *)
LEMMA PlaceIsMsg == ASSUME NEW q \in Seq(Msgs), NEW i \in 1 .. Len(q) PROVE q[i] \in Msgs
  OBVIOUS

(* r is what an emission to q leaves of it: all, or all but its head.      *)
RoomFor(q, m, r) ==
  /\ r = q \/ (q # <<>> /\ r = Tail(q))
  /\ Len(q) < EVENT_CAP => r = q
  /\ Len(r) < EVENT_CAP
  /\ _emit(q, m) = Append(r, m)

(* An event enters at the end; only a full queue loses its head for it.    *)
LEMMA EmitAppends ==
  ASSUME NEW q \in Seq(Msgs), Len(q) <= EVENT_CAP, NEW m \in Msgs
  PROVE  \E r \in Seq(Msgs) : RoomFor(q, m, r)
<1>1. Len(q) \in Nat /\ EVENT_CAP \in Nat \ {0}
  BY FeedAssumption DEF FeedAssumption
<1>2. CASE Len(q) >= EVENT_CAP
  <2>1. q # <<>>
    BY <1>1, <1>2
  <2>2. Tail(q) \in Seq(Msgs) /\ Len(Tail(q)) < EVENT_CAP
    BY <1>1, <2>1, TailPlaces
  <2>3. _emit(q, m) = Append(Tail(q), m) /\ ~(Len(q) < EVENT_CAP)
    BY <1>1, <1>2 DEF _emit
  <2> QED
    BY <2>1, <2>2, <2>3 DEF RoomFor
<1>3. CASE ~(Len(q) >= EVENT_CAP)
  <2>1. RoomFor(q, m, q)
    BY <1>1, <1>3 DEF RoomFor, _emit
  <2> QED
    BY <2>1
<1> QED
  BY <1>2, <1>3

(* The event is the last of the queue, which keeps to its places.          *)
LEMMA EmitPlaces ==
  ASSUME NEW q \in Seq(Msgs), Len(q) <= EVENT_CAP, NEW m \in Msgs
  PROVE  /\ _emit(q, m) \in Seq(Msgs)
         /\ Len(_emit(q, m)) <= EVENT_CAP
         /\ Len(q) < EVENT_CAP => Len(_emit(q, m)) = Len(q) + 1
         /\ Len(_emit(q, m)) \in Nat \ {0}
         /\ _emit(q, m)[Len(_emit(q, m))] = m
         /\ _emit(q, m) # <<>>
         /\ (\A i \in 1 .. Len(q) : q[i].kind \in {"order", "delta"})
              /\ m.kind \in {"order", "delta"} =>
              \A i \in 1 .. Len(_emit(q, m)) : _emit(q, m)[i].kind \in {"order", "delta"}
<1>0. PICK r \in Seq(Msgs) : RoomFor(q, m, r)
  BY EmitAppends
<1>1. /\ r = q \/ (q # <<>> /\ r = Tail(q))
      /\ Len(q) < EVENT_CAP => r = q
      /\ Len(r) < EVENT_CAP
      /\ _emit(q, m) = Append(r, m)
  BY <1>0 DEF RoomFor
<1>2. EVENT_CAP \in Nat
  BY FeedAssumption DEF FeedAssumption
<1> DEFINE e == Append(r, m)
<1>3. /\ e \in Seq(Msgs) /\ Len(r) \in Nat /\ Len(e) = Len(r) + 1
      /\ \A i \in 1 .. Len(r) : e[i] = r[i]
      /\ e[Len(r) + 1] = m
  BY AppendPlaces
<1>4. ASSUME \A i \in 1 .. Len(q) : q[i].kind \in {"order", "delta"}
      PROVE  \A i \in 1 .. Len(r) : r[i].kind \in {"order", "delta"}
  <2>1. CASE r = q
    BY <1>4, <2>1
  <2>2. CASE q # <<>> /\ r = Tail(q)
    BY <1>4, <2>2, TailPlaces
  <2> QED
    BY <1>1, <2>1, <2>2
<1> HIDE DEF e
<1>5. e # <<>>
  BY <1>3
<1>6. ASSUME \A i \in 1 .. Len(q) : q[i].kind \in {"order", "delta"},
             m.kind \in {"order", "delta"}
      PROVE  \A i \in 1 .. Len(e) : e[i].kind \in {"order", "delta"}
  BY <1>3, <1>4, <1>6
<1>7. Len(e) <= EVENT_CAP /\ Len(e) \in Nat \ {0} /\ e[Len(e)] = m
  BY <1>1, <1>2, <1>3
<1>8. Len(q) < EVENT_CAP => Len(e) = Len(q) + 1
  BY <1>1, <1>3
<1>9. _emit(q, m) = e
  BY <1>1 DEF e
<1> QED
  BY <1>3, <1>5, <1>6, <1>7, <1>8, <1>9

(* What the lemmas on Append and Tail say holds of an emission too.        *)
LEMMA EmitKeeps ==
  ASSUME NEW q \in Seq(Msgs), Len(q) <= EVENT_CAP, NEW m \in Msgs, NEW S
  PROVE  /\ m \in S => EndsAt(_emit(q, m), S, m.at) /\ ~Absent(_emit(q, m), S)
         /\ \A n : m \notin S /\ EndsAt(q, S, n) => EndsAt(_emit(q, m), S, n)
         /\ m \notin S /\ Len(q) < EVENT_CAP => (Absent(_emit(q, m), S) <=> Absent(q, S))
         /\ Rising(q, S) /\ (m \in S => Below(q, S, m.at)) => Rising(_emit(q, m), S)
         /\ \A n : Above(q, S, n) /\ (m \in S => n <= m.at) => Above(_emit(q, m), S, n)
         /\ \A n : Below(q, S, n) /\ (m \in S => m.at <= n) => Below(_emit(q, m), S, n)
<1>0. PICK r \in Seq(Msgs) : RoomFor(q, m, r)
  BY EmitAppends
<1>1. /\ r = q \/ (q # <<>> /\ r = Tail(q))
      /\ Len(q) < EVENT_CAP => r = q
      /\ _emit(q, m) = Append(r, m)
  BY <1>0 DEF RoomFor
<1>2. /\ \A n : EndsAt(q, S, n) => EndsAt(r, S, n)
      /\ Rising(q, S) => Rising(r, S)
      /\ \A n : Above(q, S, n) => Above(r, S, n)
      /\ \A n : Below(q, S, n) => Below(r, S, n)
  <2>1. CASE r = q
    BY <2>1
  <2>2. CASE q # <<>> /\ r = Tail(q)
    BY <2>2, TailEnds, TailRises
  <2> QED
    BY <1>1, <2>1, <2>2
<1>3. /\ m \in S => EndsAt(Append(r, m), S, m.at) /\ ~Absent(Append(r, m), S)
      /\ \A n : m \notin S /\ EndsAt(r, S, n) => EndsAt(Append(r, m), S, n)
      /\ m \notin S => (Absent(Append(r, m), S) <=> Absent(r, S))
  BY AppendEnds
<1>4. /\ Rising(r, S) /\ (m \in S => Below(r, S, m.at)) => Rising(Append(r, m), S)
      /\ \A n : Above(r, S, n) /\ (m \in S => n <= m.at) => Above(Append(r, m), S, n)
      /\ \A n : Below(r, S, n) /\ (m \in S => m.at <= n) => Below(Append(r, m), S, n)
  BY AppendRises
<1> DEFINE e == Append(r, m)
<1>5. _emit(q, m) = e
  BY <1>1
<1> HIDE DEF e
<1> QED
  BY <1>1, <1>2, <1>3, <1>4, <1>5 DEF e

(* What a broadcast does to the client's queue and to the history.         *)
LEMMA BroadcastDoes ==
  ASSUME Typed, NEW m \in Msgs, broadcast(m)
  PROVE  /\ client'.stage = client.stage
         /\ client'.out_q \in Seq(Msgs)
         /\ client' \in Clients
         /\ Len(client'.out_q) <= OUT_CAP
         /\ history' \in Histories
         /\ history'.overflowed = history.overflowed
         /\ history'.failed = history.failed
         /\ history.dropped => history'.dropped
         /\ client'.out_q = client.out_q \/ client'.out_q = Append(client.out_q, m)
         /\ _matches(client, m) /\ ~history'.dropped => client'.out_q = Append(client.out_q, m)
         /\ ~_matches(client, m) => client'.out_q = client.out_q
<1>1. /\ client \in Clients
      /\ Len(client.out_q) <= OUT_CAP
      /\ Len(client.out_q) \in Nat
      /\ client.out_q \in Seq(Msgs)
      /\ history \in Histories
  BY DEF Typed, QueueTyped, ClientTyped
<1>2. OUT_CAP \in Nat
  BY FeedAssumption DEF FeedAssumption
<1> DEFINE more == Append(client.out_q, m)
<1>3. more \in Seq(Msgs) /\ Len(more) = Len(client.out_q) + 1
  BY <1>1, AppendPlaces
<1>4. Put(client, m) = IF Len(client.out_q) >= OUT_CAP THEN client
                       ELSE [client EXCEPT !.out_q = more]
  BY DEF Put
<1>5. history' = [history EXCEPT !.dropped = history.dropped
                                    \/ (_matches(client, m) /\ Len(client.out_q) >= OUT_CAP)]
  BY DEF broadcast, Lost
<1>6. client' = IF _matches(client, m) THEN Put(client, m) ELSE client
  BY DEF broadcast
<1> HIDE DEF more
<1>7. CASE _matches(client, m) /\ ~(Len(client.out_q) >= OUT_CAP)
  <2>1. client' = [client EXCEPT !.out_q = more]
    BY <1>4, <1>6, <1>7
  <2>2. client'.out_q = more /\ client'.stage = client.stage
    BY <1>1, <2>1
  <2>3. client' \in Clients
    BY <1>1, <1>3, <2>1
  <2>4. Len(more) <= OUT_CAP
    BY <1>1, <1>2, <1>3, <1>7
  <2>5. history' = history
    BY <1>1, <1>5, <1>7
  <2> QED
    BY <1>1, <1>3, <1>7, <2>2, <2>3, <2>4, <2>5 DEF more
<1>8. CASE _matches(client, m) /\ Len(client.out_q) >= OUT_CAP
  <2>1. client' = client
    BY <1>4, <1>6, <1>8
  <2>2. history' = [history EXCEPT !.dropped = TRUE]
    BY <1>1, <1>5, <1>8
  <2> QED
    BY <1>1, <1>8, <2>1, <2>2
<1>9. CASE ~_matches(client, m)
  <2>1. client' = client
    BY <1>6, <1>9
  <2>2. history' = history
    BY <1>1, <1>5, <1>9
  <2> QED
    BY <1>1, <1>9, <2>1, <2>2
<1> QED
  BY <1>7, <1>8, <1>9

(* What a change puts into the adapter's queue.                            *)
LEMMA ChangeDoes ==
  ASSUME Typed, NEW o \in Orders, Change(o)
  PROVE  /\ engine' \in [order : [Orders -> Counts], ladder : Counts]
         /\ engine'.ladder = engine.ladder + 1
         /\ engine'.order[o] = engine.order[o] + 1
         /\ \A p \in Orders \ {o} : engine'.order[p] = engine.order[p]
         /\ history' = [history EXCEPT !.overflowed = @ \/ Len(event_q) + 2 > EVENT_CAP]
         /\ event_q' \in Seq(Msgs) /\ Len(event_q') <= EVENT_CAP /\ event_q' # <<>>
         /\ \A i \in 1 .. Len(event_q') : event_q'[i].kind \in {"order", "delta"}
         /\ event_q'[Len(event_q')] = BookMsg("delta", engine'.ladder)
         /\ \A p \in Orders : 
              /\ EndsAt(event_q, Of(p), engine.order[p]) => EndsAt(event_q', Of(p), engine'.order[p])
              /\ Below(event_q, Of(p), engine.order[p]) /\ Rising(event_q, Of(p)) =>
                   /\ Below(event_q', Of(p), engine'.order[p])
                   /\ Rising(event_q', Of(p))
              /\ \A n \in Counts :
                   Above(event_q, Of(p), n) /\ n <= engine.order[p] => Above(event_q', Of(p), n)
              /\ ~(Len(event_q) + 2 > EVENT_CAP) /\ Absent(event_q', Of(p)) =>
                   p # o /\ Absent(event_q, Of(p))
<1> DEFINE n == engine.order[o] + 1
           v == engine.ladder + 1
           om == OrderMsg(o, n)
           dm == BookMsg("delta", v)
           once == _emit(event_q, om)
<1>1. /\ engine \in [order : [Orders -> Counts], ladder : Counts]
      /\ engine.order[o] <= engine.ladder
      /\ event_q \in Seq(Msgs) /\ Len(event_q) \in Nat /\ Len(event_q) <= EVENT_CAP
      /\ \A i \in 1 .. Len(event_q) : event_q[i].kind \in {"order", "delta"}
      /\ \A p \in Orders : engine.order[p] \in Counts
  BY DEF Typed, QueueTyped, ClientTyped
<1>2. /\ v <= MAX_CHANGES
      /\ engine' = [engine EXCEPT !.order[o] = n, !.ladder = v]
      /\ event_q' = _emit(once, dm)
      /\ history' = [history EXCEPT !.overflowed = @ \/ Len(event_q) + 2 > EVENT_CAP]
  BY DEF Change
<1>3. EVENT_CAP \in Nat \ {0} /\ MAX_CHANGES \in Nat
  BY FeedAssumption DEF FeedAssumption
<1>4. n \in Counts /\ v \in Counts /\ engine.order[o] \in Counts
  BY <1>1, <1>2, <1>3 DEF Counts
<1>5. /\ engine' \in [order : [Orders -> Counts], ladder : Counts]
      /\ engine'.ladder = v /\ engine'.order[o] = n
      /\ \A p \in Orders \ {o} : engine'.order[p] = engine.order[p]
  BY <1>1, <1>2, <1>4
<1>6. /\ om \in Msgs /\ om.kind = "order" /\ om.order = o /\ om.at = n
      /\ dm \in Msgs /\ dm.kind = "delta" /\ dm.at = v
  BY <1>4, MsgFacts
<1>7. /\ om \in Of(o)
      /\ \A p \in Orders \ {o} : om \notin Of(p)
      /\ \A p \in Orders : dm \notin Of(p)
  BY <1>6 DEF Of
<1> HIDE DEF om, dm, once
<1>8. /\ once \in Seq(Msgs) /\ Len(once) <= EVENT_CAP
      /\ Len(event_q) < EVENT_CAP => Len(once) = Len(event_q) + 1
      /\ \A i \in 1 .. Len(once) : once[i].kind \in {"order", "delta"}
  BY <1>1, <1>6, EmitPlaces DEF once
<1>9. /\ event_q' \in Seq(Msgs) /\ Len(event_q') <= EVENT_CAP /\ event_q' # <<>>
      /\ \A i \in 1 .. Len(event_q') : event_q'[i].kind \in {"order", "delta"}
      /\ event_q'[Len(event_q')] = dm
  BY <1>2, <1>6, <1>8, EmitPlaces
<1>10. ASSUME NEW p \in Orders
       PROVE  /\ EndsAt(event_q, Of(p), engine.order[p]) => EndsAt(event_q', Of(p), engine'.order[p])
              /\ Below(event_q, Of(p), engine.order[p]) /\ Rising(event_q, Of(p)) =>
                   /\ Below(event_q', Of(p), engine'.order[p])
                   /\ Rising(event_q', Of(p))
              /\ \A k \in Counts :
                   Above(event_q, Of(p), k) /\ k <= engine.order[p] => Above(event_q', Of(p), k)
              /\ ~(Len(event_q) + 2 > EVENT_CAP) /\ Absent(event_q', Of(p)) =>
                   p # o /\ Absent(event_q, Of(p))
  <2>1. /\ dm \notin Of(p)
        /\ om \in Of(p) <=> p = o
        /\ engine'.order[p] = IF p = o THEN n ELSE engine.order[p]
        /\ engine.order[p] \in Nat
        /\ engine.order[p] <= engine'.order[p]
    BY <1>1, <1>3, <1>5, <1>7 DEF Counts
  <2>2. EndsAt(event_q, Of(p), engine.order[p]) => EndsAt(once, Of(p), engine'.order[p])
    <3>1. CASE p = o
      BY <1>1, <1>6, <2>1, <3>1, EmitKeeps DEF once
    <3>2. CASE p # o
      BY <1>1, <1>6, <2>1, <3>2, EmitKeeps DEF once
    <3> QED
      BY <3>1, <3>2
  <2>3. EndsAt(once, Of(p), engine'.order[p]) => EndsAt(event_q', Of(p), engine'.order[p])
    BY <1>2, <1>6, <1>8, <2>1, EmitKeeps
  <2>4. ASSUME Below(event_q, Of(p), engine.order[p]), Rising(event_q, Of(p))
        PROVE  Below(event_q', Of(p), engine'.order[p]) /\ Rising(event_q', Of(p))
    <3>1. Below(event_q, Of(p), engine'.order[p])
      <4> SUFFICES ASSUME NEW i \in 1 .. Len(event_q), event_q[i] \in Of(p)
                   PROVE  event_q[i].at <= engine'.order[p]
        BY DEF Below
      <4>1. event_q[i].at \in Counts
        BY MsgFacts DEF Of
      <4> QED
        BY <1>3, <2>1, <2>4, <4>1, <1>5 DEF Below, Counts
    <3>2. om \in Of(p) => om.at = engine'.order[p]
      BY <1>6, <2>1
    <3>3. engine'.order[p] <= engine'.order[p]
      BY <1>5, <1>3 DEF Counts
    <3>4. Below(once, Of(p), engine'.order[p]) /\ Rising(once, Of(p))
      BY <1>1, <1>6, <2>4, <3>1, <3>2, <3>3, EmitKeeps DEF once
    <3> QED
      BY <1>2, <1>6, <1>8, <2>1, <3>4, EmitKeeps
  <2>5. ASSUME NEW k \in Counts, Above(event_q, Of(p), k), k <= engine.order[p]
        PROVE  Above(event_q', Of(p), k)
    <3>1. om \in Of(p) => k <= om.at
      BY <1>3, <1>6, <2>1, <2>5 DEF Counts
    <3>2. Above(once, Of(p), k)
      BY <1>1, <1>6, <2>5, <3>1, EmitKeeps DEF once
    <3> QED
      BY <1>2, <1>6, <1>8, <2>1, <3>2, EmitKeeps
  <2>6. ASSUME ~(Len(event_q) + 2 > EVENT_CAP), Absent(event_q', Of(p))
        PROVE  p # o /\ Absent(event_q, Of(p))
    <3>1. Len(event_q) < EVENT_CAP /\ Len(once) < EVENT_CAP
      BY <1>1, <1>3, <1>8, <2>6
    <3>2. Absent(once, Of(p))
      BY <1>2, <1>6, <1>8, <2>1, <2>6, <3>1, EmitKeeps
    <3>3. p # o
      BY <1>1, <1>6, <2>1, <3>2, EmitKeeps DEF once
    <3> QED
      BY <1>1, <1>6, <2>1, <3>1, <3>2, <3>3, EmitKeeps DEF once
  <2> QED
    BY <2>2, <2>3, <2>4, <2>5, <2>6
<1> QED
  BY <1>2, <1>5, <1>9, <1>10 DEF dm

(* What the pump takes: it tells it at once without a database, else it    *)
(* holds it.                                                               *)
LEMMA TakeDoes ==
  ASSUME Typed, Take
  PROVE  /\ pump.at = "idle" /\ event_q # <<>>
         /\ Head(event_q) \in Msgs /\ Head(event_q).kind \in {"order", "delta"}
         /\ event_q' = Tail(event_q) /\ event_q' \in Seq(Msgs) /\ Len(event_q') <= EVENT_CAP
         /\ \A i \in 1 .. Len(event_q') : event_q'[i].kind \in {"order", "delta"}
         /\ \/ ~db /\ broadcast(Head(event_q)) /\ pump' = pump
            \/ /\ db /\ client' = client /\ history' = history
               /\ pump' \in [at : {"row", "watermark"}, msg : Msgs]
               /\ pump'.at = "row" <=> Head(event_q).kind = "order"
               /\ pump'.msg = Head(event_q)
         /\ UNCHANGED <<db, engine, row, browser>>
<1> DEFINE m == Head(event_q)
<1>1. /\ pump.at = "idle" /\ event_q # <<>> /\ event_q' = Tail(event_q)
      /\ UNCHANGED <<db, engine, row, browser>>
      /\ IF FirstStep(m) = "broadcast"
         THEN broadcast(m) /\ UNCHANGED pump
         ELSE pump' = [at |-> FirstStep(m), msg |-> m] /\ UNCHANGED <<client, history>>
  BY DEF Take
<1>2. /\ db \in BOOLEAN /\ event_q \in Seq(Msgs) /\ Len(event_q) <= EVENT_CAP
      /\ \A i \in 1 .. Len(event_q) : event_q[i].kind \in {"order", "delta"}
      /\ EVENT_CAP \in Nat
  BY FeedAssumption DEF Typed, QueueTyped, ClientTyped, FeedAssumption
<1>3. /\ Tail(event_q) \in Seq(Msgs) /\ Len(event_q) \in Nat \ {0}
      /\ Len(Tail(event_q)) = Len(event_q) - 1
      /\ \A i \in 1 .. Len(Tail(event_q)) : Tail(event_q)[i] = event_q[i + 1]
      /\ m = event_q[1] /\ m \in Msgs
  BY <1>1, <1>2, TailPlaces
<1> HIDE DEF m
<1>4. m.kind \in {"order", "delta"} /\ Len(event_q') <= EVENT_CAP
  BY <1>1, <1>2, <1>3
<1>5. \A i \in 1 .. Len(event_q') : event_q'[i].kind \in {"order", "delta"}
  BY <1>1, <1>2, <1>3
<1>6. CASE ~db
  BY <1>1, <1>3, <1>4, <1>5, <1>6 DEF FirstStep, m
<1>7. CASE db
  <2>1. FirstStep(m) = IF m.kind = "order" THEN "row" ELSE "watermark"
    BY <1>7 DEF FirstStep
  <2>2. pump' = [at |-> FirstStep(m), msg |-> m] /\ client' = client /\ history' = history
    BY <1>1, <2>1
  <2>3. pump' \in [at : {"row", "watermark"}, msg : Msgs]
    BY <1>3, <2>1, <2>2
  <2>4. pump'.msg = m /\ (pump'.at = "row" <=> m.kind = "order")
    BY <2>1, <2>2
  <2> QED
    BY <1>1, <1>3, <1>4, <1>5, <1>7, <2>2, <2>3, <2>4 DEF m
<1> QED
  BY <1>2, <1>6, <1>7

(* What the sender hands over.                                             *)
LEMMA SenderDoes ==
  ASSUME Typed, _sender
  PROVE  /\ client.out_q # <<>>
         /\ Head(client.out_q) \in Msgs
         /\ Head(client.out_q).kind \in {"order", "delta", "snapshot"}
         /\ client'.stage = client.stage /\ client'.out_q = Tail(client.out_q)
         /\ client' \in Clients
         /\ Len(client'.out_q) <= OUT_CAP
         /\ \A i \in 1 .. Len(client'.out_q) : client'.out_q[i].kind # "none"
         /\ Head(client.out_q).kind = "order" =>
              browser' = [browser EXCEPT !.orders[Head(client.out_q).order] = Head(client.out_q).at]
         /\ Head(client.out_q).kind # "order" =>
              browser' = [browser EXCEPT !.book = Head(client.out_q).at, !.from = "socket"]
         /\ UNCHANGED <<db, engine, event_q, pump, row, history>>
<1> DEFINE m == Head(client.out_q)
<1>1. /\ client.out_q # <<>>
      /\ browser' = Shown(browser, m)
      /\ client' = [client EXCEPT !.out_q = Tail(client.out_q)]
      /\ UNCHANGED <<db, engine, event_q, pump, row, history>>
  BY DEF _sender
<1>2. /\ client \in Clients
      /\ client.out_q \in Seq(Msgs)
      /\ Len(client.out_q) <= OUT_CAP /\ OUT_CAP \in Nat
      /\ \A i \in 1 .. Len(client.out_q) : client.out_q[i].kind # "none"
  BY FeedAssumption DEF Typed, QueueTyped, ClientTyped, FeedAssumption
<1>3. /\ Tail(client.out_q) \in Seq(Msgs) /\ Len(client.out_q) \in Nat \ {0}
      /\ Len(Tail(client.out_q)) = Len(client.out_q) - 1
      /\ \A i \in 1 .. Len(Tail(client.out_q)) : Tail(client.out_q)[i] = client.out_q[i + 1]
      /\ m = client.out_q[1] /\ m \in Msgs
  BY <1>1, <1>2, TailPlaces
<1> HIDE DEF m
<1>4. m.kind \in {"order", "delta", "snapshot"}
  BY <1>2, <1>3, MsgFacts
<1> DEFINE rest == Tail(client.out_q)
<1>5. rest \in Seq(Msgs) /\ Len(rest) <= OUT_CAP /\ \A i \in 1 .. Len(rest) : rest[i].kind # "none"
  BY <1>2, <1>3
<1> HIDE DEF rest
<1>6. client' = [client EXCEPT !.out_q = rest]
  BY <1>1 DEF rest
<1>7. /\ client'.stage = client.stage /\ client'.out_q = rest
      /\ client' \in Clients
  BY <1>2, <1>5, <1>6
<1>8. /\ m.kind = "order" => browser' = [browser EXCEPT !.orders[m.order] = m.at]
      /\ m.kind # "order" => browser' = [browser EXCEPT !.book = m.at, !.from = "socket"]
  BY <1>1 DEF Shown
<1> QED
  BY <1>1, <1>3, <1>4, <1>5, <1>7, <1>8 DEF m, rest

(* What the acknowledgement of the ladder's channel brings.                *)
LEMMA SnapshotDoes ==
  ASSUME Typed, _send_orderbook_snapshot
  PROVE  /\ client.stage = "acking" /\ client'.stage = "booked"
         /\ BookMsg("snapshot", engine.ladder) \in Msgs
         /\ client' \in Clients
         /\ Len(client'.out_q) <= OUT_CAP
         /\ history' \in Histories
         /\ history'.overflowed = history.overflowed
         /\ history'.failed = history.failed
         /\ client'.out_q = client.out_q
              \/ client'.out_q = Append(client.out_q, BookMsg("snapshot", engine.ladder))
         /\ ~history'.dropped =>
              client'.out_q = Append(client.out_q, BookMsg("snapshot", engine.ladder))
         /\ UNCHANGED <<db, engine, event_q, pump, row, browser>>
<1> DEFINE m == BookMsg("snapshot", engine.ladder)
           more == Append(client.out_q, m)
<1>1. /\ client \in Clients
      /\ Len(client.out_q) <= OUT_CAP
      /\ Len(client.out_q) \in Nat
      /\ client.out_q \in Seq(Msgs)
      /\ history \in Histories
      /\ engine.ladder \in Counts
      /\ OUT_CAP \in Nat
  BY FeedAssumption DEF Typed, QueueTyped, ClientTyped, FeedAssumption
<1>2. m \in Msgs
  BY <1>1, MsgFacts
<1>3. more \in Seq(Msgs) /\ Len(more) = Len(client.out_q) + 1
  BY <1>1, <1>2, AppendPlaces
<1>4. /\ client.stage = "acking"
      /\ client' = [Put(client, m) EXCEPT !.stage = "booked"]
      /\ history' = [history EXCEPT !.dropped = history.dropped \/ Len(client.out_q) >= OUT_CAP]
      /\ UNCHANGED <<db, engine, event_q, pump, row, browser>>
  BY DEF _send_orderbook_snapshot, Lost
<1>5. Put(client, m) = IF Len(client.out_q) >= OUT_CAP THEN client
                       ELSE [client EXCEPT !.out_q = more]
  BY DEF Put
<1> HIDE DEF m, more
<1>6. CASE Len(client.out_q) >= OUT_CAP
  <2>1. client' = [client EXCEPT !.stage = "booked"]
    BY <1>4, <1>5, <1>6
  <2>2. history' = [history EXCEPT !.dropped = TRUE]
    BY <1>1, <1>4, <1>6
  <2>3. /\ client'.stage = "booked" /\ client'.out_q = client.out_q
        /\ client' \in Clients
    BY <1>1, <2>1
  <2> QED
    BY <1>1, <1>2, <1>4, <2>2, <2>3 DEF m
<1>7. CASE ~(Len(client.out_q) >= OUT_CAP)
  <2>1. client' = [[client EXCEPT !.out_q = more] EXCEPT !.stage = "booked"]
    BY <1>4, <1>5, <1>7
  <2>2. /\ client'.stage = "booked" /\ client'.out_q = more
        /\ client' \in Clients
    BY <1>1, <1>3, <2>1
  <2>3. history' = history
    BY <1>1, <1>4, <1>7
  <2>4. Len(more) <= OUT_CAP
    BY <1>1, <1>3, <1>7
  <2> QED
    BY <1>1, <1>2, <1>4, <2>2, <2>3, <2>4 DEF m, more
<1> QED
  BY <1>6, <1>7

----------------------------------------------------------------------------
(* The types are invariant. *)

(* An appended message does not spoil the kinds of a queue.                *)
LEMMA NoneAppended ==
  ASSUME NEW q \in Seq(Msgs), NEW m \in Msgs, m.kind # "none",
         \A i \in 1 .. Len(q) : q[i].kind # "none"
  PROVE  \A i \in 1 .. Len(Append(q, m)) : Append(q, m)[i].kind # "none"
<1>1. /\ Len(q) \in Nat /\ Len(Append(q, m)) = Len(q) + 1
      /\ \A i \in 1 .. Len(q) : Append(q, m)[i] = q[i]
      /\ Append(q, m)[Len(q) + 1] = m
  BY AppendPlaces
<1> QED
  BY <1>1

(* The types hold at the start.                                            *)
LEMMA TypedInit == Init => Typed
<1> SUFFICES ASSUME Init PROVE Typed
  OBVIOUS
<1>1. /\ 0 \in Counts /\ Len(<<>>) = 0 /\ <<>> \in Seq(Msgs) /\ NoMsg \in Msgs
      /\ 0 <= EVENT_CAP /\ 0 <= OUT_CAP /\ 0 \in 0 .. MAX_CONNECTS
  BY FeedAssumption, MsgFacts DEF FeedAssumption, Counts
<1>2. engine.order = [o \in Orders |-> 0] /\ engine.ladder = 0
  BY DEF Init
<1>3. client.stage = "closed" /\ client.out_q = <<>>
  BY DEF Init, NoClient
<1>4. /\ engine \in [order : [Orders -> Counts], ladder : Counts]
      /\ row \in [Orders -> Counts]
      /\ pump \in [at : {"idle", "row", "watermark"}, msg : Msgs] /\ pump.at = "idle"
      /\ history \in Histories
      /\ client \in Clients
  BY <1>1 DEF Init, NoClient
<1>5. browser \in Browsers
  BY <1>1 DEF Init
<1> QED
  BY <1>1, <1>2, <1>3, <1>4, <1>5 DEF Typed, QueueTyped, ClientTyped, Init

(* Every step keeps the types.                                             *)
LEMMA TypedStep == Typed /\ [Next]_vars => Typed'
<1> SUFFICES ASSUME Typed, [Next]_vars PROVE Typed'
  OBVIOUS
<1>0. /\ 0 \in Counts /\ Len(<<>>) = 0 /\ <<>> \in Seq(Msgs) /\ NoMsg \in Msgs
      /\ 0 <= EVENT_CAP /\ 0 <= OUT_CAP /\ MAX_CONNECTS \in Nat
  BY FeedAssumption, MsgFacts DEF FeedAssumption, Counts
<1>1. ASSUME NEW o \in Orders, Change(o)
      PROVE  Typed'
  <2>1. /\ \A p \in Orders : engine.order[p] \in Nat /\ engine.order[p] <= engine.ladder
        /\ engine.ladder \in Nat
    BY FeedAssumption DEF Typed, QueueTyped, ClientTyped, FeedAssumption, Counts
  <2>2. /\ engine'.ladder = engine.ladder + 1
        /\ engine'.order[o] = engine.order[o] + 1
        /\ \A p \in Orders \ {o} : engine'.order[p] = engine.order[p]
    BY <1>1, ChangeDoes
  <2>3. \A p \in Orders : engine'.order[p] <= engine'.ladder
    BY <2>1, <2>2
  <2>4. UNCHANGED <<db, pump, row, client, browser>>
    BY <1>1 DEF Change
  <2>5. /\ engine' \in [order : [Orders -> Counts], ladder : Counts]
        /\ event_q' \in Seq(Msgs) /\ Len(event_q') <= EVENT_CAP
        /\ \A i \in 1 .. Len(event_q') : event_q'[i].kind \in {"order", "delta"}
        /\ history' = [history EXCEPT !.overflowed = @ \/ Len(event_q) + 2 > EVENT_CAP]
    BY <1>1, ChangeDoes
  <2>6. history' \in Histories
    BY <2>5 DEF Typed, QueueTyped, ClientTyped
  <2> QED
    BY <2>3, <2>4, <2>5, <2>6 DEF Typed, QueueTyped, ClientTyped
<1>2. CASE Take
  <2> DEFINE m == Head(event_q)
  <2>1. /\ m \in Msgs /\ m.kind \in {"order", "delta"}
        /\ event_q' \in Seq(Msgs) /\ Len(event_q') <= EVENT_CAP
        /\ \A i \in 1 .. Len(event_q') : event_q'[i].kind \in {"order", "delta"}
        /\ UNCHANGED <<db, engine, row, browser>>
    BY <1>2, TakeDoes
  <2>4. \/ ~db /\ broadcast(m) /\ pump' = pump
        \/ /\ db /\ client' = client /\ history' = history
           /\ pump' \in [at : {"row", "watermark"}, msg : Msgs]
           /\ pump'.at = "row" <=> m.kind = "order"
           /\ pump'.msg = m
    BY <1>2, TakeDoes
  <2> HIDE DEF m
  <2>2. CASE ~db /\ broadcast(m) /\ pump' = pump
    <3>1. /\ client' \in Clients
          /\ Len(client'.out_q) <= OUT_CAP
          /\ history' \in Histories
          /\ client'.out_q = client.out_q \/ client'.out_q = Append(client.out_q, m)
      BY <2>1, <2>2, BroadcastDoes
    <3>2. /\ client.out_q \in Seq(Msgs)
          /\ \A i \in 1 .. Len(client.out_q) : client.out_q[i].kind # "none"
          /\ m \in Msgs /\ m.kind # "none"
      BY <2>1 DEF Typed, QueueTyped, ClientTyped
    <3>3. \A i \in 1 .. Len(client'.out_q) : client'.out_q[i].kind # "none"
      BY <3>1, <3>2, NoneAppended
    <3>4. UNCHANGED <<db, engine, pump, row, browser>>
      BY <2>1, <2>2
    <3>5. QueueTyped' /\ ClientTyped'
      BY <2>1, <3>1, <3>3 DEF QueueTyped, ClientTyped
    <3> QED
      BY <3>1, <3>4, <3>5 DEF Typed
  <2>3. CASE /\ db /\ client' = client /\ history' = history
             /\ pump' \in [at : {"row", "watermark"}, msg : Msgs]
             /\ pump'.at = "row" <=> m.kind = "order"
             /\ pump'.msg = m
    <3>1. pump' \in [at : {"idle", "row", "watermark"}, msg : Msgs]
      BY <2>3
    <3> QED
      BY <2>1, <2>3, <3>1 DEF Typed, QueueTyped, ClientTyped
  <2> QED
    BY <2>4, <2>2, <2>3
<1>3. CASE persist_order_snapshot
  <2>1. /\ pump.at = "row" /\ pump' = [pump EXCEPT !.at = "watermark"]
        /\ \/ row' = Upserted(pump.msg) /\ UNCHANGED history
           \/ history' = [history EXCEPT !.failed = TRUE] /\ UNCHANGED row
        /\ UNCHANGED <<db, engine, event_q, client, browser>>
    BY <1>3 DEF persist_order_snapshot
  <2>2. pump.msg \in Msgs /\ pump.msg.kind = "order" /\ db
    BY <2>1 DEF Typed, QueueTyped, ClientTyped
  <2>3. pump.msg.order \in Orders /\ pump.msg.at \in Counts
    BY <2>2, MsgFacts
  <2>4. row' \in [Orders -> Counts]
    BY <2>1, <2>3 DEF Typed, QueueTyped, ClientTyped, Upserted
  <2>5. history' \in Histories
    BY <2>1 DEF Typed, QueueTyped, ClientTyped
  <2>6. /\ pump' \in [at : {"idle", "row", "watermark"}, msg : Msgs]
        /\ pump'.at = "watermark" /\ pump'.msg = pump.msg
    BY <2>1 DEF Typed, QueueTyped, ClientTyped
  <2> QED
    BY <2>1, <2>2, <2>4, <2>5, <2>6 DEF Typed, QueueTyped, ClientTyped
<1>4. CASE update_watermark
  <2>1. /\ pump.at = "watermark" /\ pump' = [at |-> "idle", msg |-> NoMsg]
        /\ broadcast(pump.msg)
        /\ UNCHANGED <<db, engine, event_q, row, browser>>
    BY <1>4 DEF update_watermark
  <2>2. pump.msg \in Msgs /\ pump.msg.kind # "none"
    BY <2>1 DEF Typed, QueueTyped, ClientTyped
  <2>3. /\ client' \in Clients
        /\ Len(client'.out_q) <= OUT_CAP
        /\ history' \in Histories
        /\ client'.out_q = client.out_q \/ client'.out_q = Append(client.out_q, pump.msg)
    BY <2>1, <2>2, BroadcastDoes
  <2>4. /\ client.out_q \in Seq(Msgs)
        /\ \A i \in 1 .. Len(client.out_q) : client.out_q[i].kind # "none"
    BY DEF Typed, QueueTyped, ClientTyped
  <2>5. \A i \in 1 .. Len(client'.out_q) : client'.out_q[i].kind # "none"
    BY <2>2, <2>3, <2>4, NoneAppended
  <2>6. pump' \in [at : {"idle", "row", "watermark"}, msg : Msgs] /\ pump'.at = "idle"
    BY <1>0, <2>1
  <2> QED
    BY <2>1, <2>3, <2>5, <2>6 DEF Typed, QueueTyped, ClientTyped
<1>5. CASE Connect
  <2>1. /\ client' = [NoClient EXCEPT !.stage = "acking"]
        /\ browser.connects < MAX_CONNECTS
        /\ browser' = [browser EXCEPT !.connects = browser.connects + 1]
        /\ history' = [history EXCEPT !.dropped = FALSE]
    BY <1>5 DEF Connect
  <2>2. client' = [stage |-> "acking", out_q |-> <<>>]
    BY <2>1 DEF NoClient
  <2>3. client' \in Clients /\ client'.out_q = <<>>
    BY <1>0, <2>2
  <2>4. browser' \in Browsers
    <3>1. browser \in Browsers /\ browser.connects + 1 \in 0 .. MAX_CONNECTS
      BY <1>0, <2>1 DEF Typed, QueueTyped, ClientTyped
    <3> QED
      BY <2>1, <3>1
  <2>5. history' \in Histories
    BY <2>1 DEF Typed, QueueTyped, ClientTyped
  <2>6. UNCHANGED <<db, engine, event_q, pump, row>>
    BY <1>5 DEF Connect
  <2> QED
    BY <1>0, <2>3, <2>4, <2>5, <2>6 DEF Typed, QueueTyped, ClientTyped
<1>6. CASE _send_orderbook_snapshot
  <2>1. /\ BookMsg("snapshot", engine.ladder) \in Msgs
        /\ client' \in Clients
        /\ Len(client'.out_q) <= OUT_CAP
        /\ history' \in Histories
        /\ client'.out_q = client.out_q
             \/ client'.out_q = Append(client.out_q, BookMsg("snapshot", engine.ladder))
        /\ UNCHANGED <<db, engine, event_q, pump, row, browser>>
    BY <1>6, SnapshotDoes
  <2>2. /\ client.out_q \in Seq(Msgs) /\ BookMsg("snapshot", engine.ladder).kind # "none"
        /\ \A i \in 1 .. Len(client.out_q) : client.out_q[i].kind # "none"
    BY DEF Typed, QueueTyped, ClientTyped, BookMsg
  <2>3. \A i \in 1 .. Len(client'.out_q) : client'.out_q[i].kind # "none"
    BY <2>1, <2>2, NoneAppended
  <2> QED
    BY <2>1, <2>3 DEF Typed, QueueTyped, ClientTyped
<1>7. CASE SubscribeOrders
  <2>1. /\ client' = [client EXCEPT !.stage = "subscribed"]
        /\ UNCHANGED <<db, engine, event_q, pump, row, browser, history>>
    BY <1>7 DEF SubscribeOrders
  <2>2. /\ client' \in Clients
        /\ client'.out_q = client.out_q
    BY <2>1 DEF Typed, QueueTyped, ClientTyped
  <2> QED
    BY <2>1, <2>2 DEF Typed, QueueTyped, ClientTyped
<1>8. CASE _sender
  <2> DEFINE m == Head(client.out_q)
  <2>1. /\ m \in Msgs /\ m.kind \in {"order", "delta", "snapshot"}
        /\ m.kind = "order" => browser' = [browser EXCEPT !.orders[m.order] = m.at]
        /\ m.kind # "order" => browser' = [browser EXCEPT !.book = m.at, !.from = "socket"]
        /\ client' \in Clients
        /\ Len(client'.out_q) <= OUT_CAP
        /\ \A i \in 1 .. Len(client'.out_q) : client'.out_q[i].kind # "none"
        /\ UNCHANGED <<db, engine, event_q, pump, row, history>>
    BY <1>8, SenderDoes
  <2> HIDE DEF m
  <2>2. m.kind = "order" => m.order \in Orders
    BY <2>1, MsgFacts
  <2>3. m.at \in Counts
    BY <2>1, MsgFacts
  <2>4. browser' \in Browsers
    <3>1. browser \in Browsers
      BY DEF Typed, QueueTyped, ClientTyped
    <3>2. CASE m.kind = "order"
      BY <2>1, <2>2, <2>3, <3>1, <3>2
    <3>3. CASE m.kind # "order"
      BY <2>1, <2>3, <3>1, <3>3
    <3> QED
      BY <3>2, <3>3
  <2> QED
    BY <2>1, <2>4 DEF Typed, QueueTyped, ClientTyped
<1>9. CASE Disconnect
  <2>1. /\ client' = NoClient
        /\ UNCHANGED <<db, engine, event_q, pump, row, browser, history>>
    BY <1>9 DEF Disconnect
  <2>2. client' = [stage |-> "closed", out_q |-> <<>>]
    BY <2>1 DEF NoClient
  <2>3. client'.out_q = <<>> /\ client' \in Clients
    BY <1>0, <2>2
  <2> QED
    BY <1>0, <2>1, <2>3 DEF Typed, QueueTyped, ClientTyped
<1>10. CASE Rest
  <2>1. browser' \in Browsers
    <3>1. browser \in Browsers /\ engine.ladder \in Counts
      BY DEF Typed
    <3>2. CASE AnswerRest
      BY <3>1, <3>2 DEF AnswerRest, Browsers
    <3>3. CASE Hydrate
      <4>1. browser.answer \in Counts \cup {Nothing}
        BY <3>1 DEF Browsers
      <4> QED
        BY <3>1, <3>3, <4>1 DEF Hydrate, Browsers
    <3> QED
      BY <1>10, <3>2, <3>3 DEF Rest
  <2>2. UNCHANGED <<db, engine, event_q, pump, row, client, history>>
    BY <1>10 DEF Rest, AnswerRest, Hydrate
  <2> QED
    BY <2>1, <2>2 DEF Typed, QueueTyped, ClientTyped
<1>11. CASE UNCHANGED vars
  BY <1>11 DEF vars, Typed, QueueTyped, ClientTyped
<1> QED
  BY <1>1, <1>2, <1>3, <1>4, <1>5, <1>6, <1>7, <1>8, <1>9, <1>10, <1>11 DEF Next, Pump, Serve

(* The types always hold.                                                  *)
LEMMA TypedAlways == Spec => []Typed
<1> QED
  BY TypedInit, TypedStep, PTL DEF Spec

----------------------------------------------------------------------------
(* What is told has been written. *)

(* The types of what the later proofs use, all in one place.               *)
LEMMA TypedFacts ==
  ASSUME Typed
  PROVE  /\ event_q \in Seq(Msgs) /\ client.out_q \in Seq(Msgs) /\ pump.msg \in Msgs
         /\ Len(event_q) \in Nat /\ Len(client.out_q) \in Nat
         /\ \A p \in Orders : /\ row[p] \in Counts /\ row[p] \in Nat
                              /\ engine.order[p] \in Counts /\ engine.order[p] \in Nat
                              /\ browser.orders[p] \in Counts /\ browser.orders[p] \in Nat
<1>1. /\ event_q \in Seq(Msgs) /\ client.out_q \in Seq(Msgs) /\ pump.msg \in Msgs
      /\ \A p \in Orders :
           row[p] \in Counts /\ engine.order[p] \in Counts /\ browser.orders[p] \in Counts
  BY DEF Typed, QueueTyped, ClientTyped
<1>2. \A n \in Counts : n \in Nat
  BY FeedAssumption DEF FeedAssumption, Counts
<1> QED
  BY <1>1, <1>2

(* The messages of an order, and those of the ladder, are no others.       *)
LEMMA OfFacts ==
  ASSUME NEW m \in Msgs
  PROVE  /\ \A o : m \in Of(o) <=> m.kind = "order" /\ m.order = o
         /\ \A o : m \in Of(o) => o \in Orders /\ m.at \in Counts /\ m.at \in Nat
         /\ m \in Ladders <=> m.kind \in {"delta", "snapshot"}
<1>1. \A n \in Counts : n \in Nat
  BY FeedAssumption DEF FeedAssumption, Counts
<1>2. m.kind = "order" => m.order \in Orders /\ m.at \in Counts
  BY MsgFacts
<1> QED
  BY <1>1, <1>2 DEF Of, Ladders

(* A bound may be raised.                                                  *)
LEMMA BelowGrows ==
  ASSUME NEW q \in Seq(Msgs), NEW o \in Orders, NEW a \in Nat, NEW b \in Nat, a <= b,
         Below(q, Of(o), a)
  PROVE  Below(q, Of(o), b)
<1> SUFFICES ASSUME NEW i \in 1 .. Len(q), q[i] \in Of(o)
             PROVE  q[i].at <= b
  BY DEF Below
<1>1. q[i].at \in Nat
  BY PlaceIsMsg, OfFacts
<1>2. q[i].at <= a
  BY DEF Below
<1> QED
  BY <1>1, <1>2

(* An empty queue satisfies every statement about queues.                  *)
LEMMA EmptyQueue ==
  ASSUME NEW S
  PROVE  /\ Rising(<<>>, S) /\ Absent(<<>>, S)
         /\ \A n : Above(<<>>, S, n) /\ Below(<<>>, S, n) /\ EndsAt(<<>>, S, n)
BY DEF Rising, Absent, Above, Below, EndsAt

(* Nothing is told at the start.                                           *)
LEMMA WrittenInit == Init => Written
<1> SUFFICES ASSUME Init, NEW o \in Orders PROVE WrittenOf(o)
  BY DEF Written
<1>1. /\ engine.order[o] = 0 /\ row[o] = 0 /\ browser.orders[o] = 0
      /\ event_q = <<>> /\ pump.at = "idle"
  BY DEF Init
<1>2. client.out_q = <<>>
  BY DEF Init, NoClient
<1>3. /\ Rising(<<>>, Of(o)) /\ Above(<<>>, Of(o), 0) /\ Below(<<>>, Of(o), 0)
      /\ 0 <= 0
  BY EmptyQueue
<1>4. ~Held(Of(o))
  BY <1>1 DEF Held
<1> QED
  BY <1>1, <1>2, <1>3, <1>4 DEF WrittenOf

(* Every step keeps the order of writing and telling.                      *)
LEMMA WrittenStep == Typed /\ Written /\ [Next]_vars => Written'
<1> SUFFICES ASSUME Typed, Written, [Next]_vars, NEW p \in Orders
             PROVE  WrittenOf(p)'
  BY DEF Written
<1>a. WrittenOf(p)
  BY DEF Written
<1>b. /\ event_q \in Seq(Msgs) /\ client.out_q \in Seq(Msgs) /\ pump.msg \in Msgs
      /\ row[p] \in Counts /\ row[p] \in Nat
      /\ engine.order[p] \in Nat /\ browser.orders[p] \in Nat
      /\ Held(Of(p)) => pump.msg.at \in Counts /\ pump.msg.at \in Nat
  BY TypedFacts, OfFacts DEF Held
<1>1. ASSUME NEW o \in Orders, Change(o)
      PROVE  WrittenOf(p)'
  <2>1. UNCHANGED <<db, pump, row, client, browser>>
    BY <1>1 DEF Change
  <2>2. history'.failed = history.failed
    BY <1>1 DEF Change, Typed, QueueTyped, ClientTyped
  <2>3. engine.order[p] <= engine'.order[p] /\ engine'.order[p] \in Nat
    BY <1>1, <1>b, ChangeDoes, TypedFacts
  <2>4. Below(event_q', Of(p), engine'.order[p]) /\ Rising(event_q', Of(p))
    BY <1>1, <1>a, ChangeDoes DEF WrittenOf
  <2>5. Above(event_q', Of(p), row[p])
    BY <1>1, <1>a, <1>b, ChangeDoes DEF WrittenOf
  <2>6. row[p] <= engine'.order[p]
    BY <1>a, <1>b, <2>3 DEF WrittenOf
  <2>7. Held(Of(p)) => /\ Above(event_q', Of(p), pump.msg.at)
                       /\ pump.msg.at <= engine'.order[p]
    BY <1>1, <1>a, <1>b, <2>3, ChangeDoes DEF WrittenOf
  <2> QED
    BY <1>a, <2>1, <2>2, <2>4, <2>5, <2>6, <2>7 DEF WrittenOf, Held
<1>2. CASE Take
  <2> DEFINE m == Head(event_q)
  <2>1. /\ event_q # <<>> /\ m \in Msgs /\ event_q' = Tail(event_q) /\ pump.at = "idle"
        /\ UNCHANGED <<db, engine, row, browser>>
    BY <1>2, TakeDoes
  <2>2. \/ ~db /\ pump' = pump
        \/ /\ db /\ client' = client /\ history' = history
           /\ pump'.at \in {"row", "watermark"}
           /\ pump'.at = "row" <=> m.kind = "order"
           /\ pump'.msg = m
    BY <1>2, TakeDoes
  <2>3. /\ Rising(event_q', Of(p)) /\ (m \in Of(p) => Above(event_q', Of(p), m.at))
        /\ Above(event_q', Of(p), row[p]) /\ (m \in Of(p) => row[p] <= m.at)
        /\ Below(event_q', Of(p), engine.order[p]) /\ (m \in Of(p) => m.at <= engine.order[p])
    BY <1>a, <1>b, <2>1, TailRises DEF WrittenOf
  <2> HIDE DEF m
  <2>4. m \in Of(p) => m.kind = "order"
    BY <2>1, OfFacts
  <2>5. CASE ~db /\ pump' = pump
    BY <1>a, <2>1, <2>3, <2>5 DEF WrittenOf, Held
  <2>6. CASE /\ db /\ client' = client /\ history' = history
             /\ pump'.at \in {"row", "watermark"}
             /\ pump'.at = "row" <=> m.kind = "order"
             /\ pump'.msg = m
    BY <1>a, <2>1, <2>3, <2>4, <2>6 DEF WrittenOf, Held
  <2> QED
    BY <2>2, <2>5, <2>6
<1>3. CASE persist_order_snapshot
  <2>1. /\ pump.at = "row" /\ pump' = [pump EXCEPT !.at = "watermark"]
        /\ \/ row' = Upserted(pump.msg) /\ UNCHANGED history
           \/ history' = [history EXCEPT !.failed = TRUE] /\ UNCHANGED row
        /\ UNCHANGED <<db, engine, event_q, client, browser>>
    BY <1>3 DEF persist_order_snapshot
  <2>2. pump'.at = "watermark" /\ pump'.msg = pump.msg
    BY <2>1 DEF Typed, QueueTyped, ClientTyped
  <2>3. pump.msg.kind = "order"
    BY <2>1 DEF Typed, QueueTyped, ClientTyped
  <2>4. CASE history' = [history EXCEPT !.failed = TRUE] /\ UNCHANGED row
    <3>1. history'.failed
      BY <2>4 DEF Typed, QueueTyped, ClientTyped
    <3> QED
      BY <1>a, <2>1, <2>2, <2>4, <3>1 DEF WrittenOf, Held
  <2>5. CASE row' = Upserted(pump.msg) /\ UNCHANGED history
    <3>1. CASE pump.msg \in Of(p)
      <4>1. Held(Of(p))
        BY <2>1, <3>1 DEF Held
      <4>2. row'[p] = pump.msg.at
        BY <1>b, <2>5, <3>1, OfFacts DEF Upserted, Typed, QueueTyped, ClientTyped
      <4>3. row[p] <= row'[p] /\ row'[p] \in Nat
        BY <1>a, <1>b, <2>1, <4>1, <4>2 DEF WrittenOf
      <4>4. db /\ ~history.failed =>
              Below(client.out_q, Of(p), row'[p]) /\ browser.orders[p] <= row'[p]
        BY <1>a, <1>b, <4>3, BelowGrows DEF WrittenOf
      <4>5. pump.msg.at <= row'[p] /\ Above(event_q, Of(p), row'[p]) /\ row'[p] <= engine.order[p]
        BY <1>a, <1>b, <4>1, <4>2 DEF WrittenOf
      <4> QED
        BY <1>a, <2>1, <2>2, <2>5, <4>1, <4>4, <4>5 DEF WrittenOf, Held
    <3>2. CASE pump.msg \notin Of(p)
      <4>1. row'[p] = row[p]
        BY <1>b, <2>3, <2>5, <3>2, OfFacts DEF Upserted, Typed, QueueTyped, ClientTyped
      <4> QED
        BY <1>a, <2>1, <2>2, <2>5, <3>2, <4>1 DEF WrittenOf, Held
    <3> QED
      BY <3>1, <3>2
  <2> QED
    BY <2>1, <2>4, <2>5
<1>4. CASE update_watermark
  <2>1. /\ pump.at = "watermark" /\ pump' = [at |-> "idle", msg |-> NoMsg]
        /\ broadcast(pump.msg)
        /\ UNCHANGED <<db, engine, event_q, row, browser>>
    BY <1>4 DEF update_watermark
  <2>2. /\ history'.failed = history.failed
        /\ client'.out_q = client.out_q \/ client'.out_q = Append(client.out_q, pump.msg)
    BY <1>b, <2>1, BroadcastDoes
  <2>3. db /\ ~history.failed => Below(client'.out_q, Of(p), row[p])
    <3> SUFFICES ASSUME db, ~history.failed PROVE Below(client'.out_q, Of(p), row[p])
      OBVIOUS
    <3>1. Below(client.out_q, Of(p), row[p]) /\ (pump.msg \in Of(p) => pump.msg.at <= row[p])
      BY <1>a, <2>1 DEF WrittenOf, Held
    <3> QED
      BY <1>b, <2>2, <3>1, AppendRises
  <2>4. pump'.at = "idle"
    BY <2>1
  <2> QED
    BY <1>a, <2>1, <2>2, <2>3, <2>4 DEF WrittenOf, Held
<1>5. CASE Connect
  <2>1. /\ client' = [NoClient EXCEPT !.stage = "acking"]
        /\ browser' = [browser EXCEPT !.connects = @ + 1]
        /\ history' = [history EXCEPT !.dropped = FALSE]
        /\ UNCHANGED <<db, engine, event_q, pump, row>>
    BY <1>5 DEF Connect
  <2>2. client'.out_q = <<>> /\ browser'.orders = browser.orders /\ history'.failed = history.failed
    BY <2>1 DEF NoClient, Typed, QueueTyped, ClientTyped
  <2> QED
    BY <1>a, <2>1, <2>2, EmptyQueue DEF WrittenOf, Held
<1>6. CASE _send_orderbook_snapshot
  <2> DEFINE m == BookMsg("snapshot", engine.ladder)
  <2>1. /\ m \in Msgs
        /\ history'.failed = history.failed
        /\ client'.out_q = client.out_q \/ client'.out_q = Append(client.out_q, m)
        /\ UNCHANGED <<db, engine, event_q, pump, row, browser>>
    BY <1>6, SnapshotDoes
  <2>2. m \notin Of(p)
    BY DEF Of, BookMsg
  <2> HIDE DEF m
  <2>3. Below(client.out_q, Of(p), row[p]) => Below(client'.out_q, Of(p), row[p])
    BY <1>b, <2>1, <2>2, AppendRises
  <2> QED
    BY <1>a, <2>1, <2>3 DEF WrittenOf, Held
<1>7. CASE SubscribeOrders
  <2>1. /\ client' = [client EXCEPT !.stage = "subscribed"]
        /\ UNCHANGED <<db, engine, event_q, pump, row, browser, history>>
    BY <1>7 DEF SubscribeOrders
  <2>2. client'.out_q = client.out_q
    BY <2>1 DEF Typed, QueueTyped, ClientTyped
  <2> QED
    BY <1>a, <2>1, <2>2 DEF WrittenOf, Held
<1>8. CASE _sender
  <2> DEFINE m == Head(client.out_q)
  <2>1. /\ client.out_q # <<>> /\ m \in Msgs /\ client'.out_q = Tail(client.out_q)
        /\ m.kind = "order" => browser' = [browser EXCEPT !.orders[m.order] = m.at]
        /\ m.kind # "order" => browser' = [browser EXCEPT !.book = m.at, !.from = "socket"]
        /\ UNCHANGED <<db, engine, event_q, pump, row, history>>
    BY <1>8, SenderDoes
  <2>2. Below(client.out_q, Of(p), row[p]) =>
          Below(client'.out_q, Of(p), row[p]) /\ (m \in Of(p) => m.at <= row[p])
    <3> DEFINE q == client.out_q
    <3>1. q \in Seq(Msgs) /\ q # <<>>
      BY <1>b, <2>1
    <3> HIDE DEF q
    <3>2. Below(q, Of(p), row[p]) =>
            Below(Tail(q), Of(p), row[p]) /\ (Head(q) \in Of(p) => Head(q).at <= row[p])
      BY <3>1, TailRises
    <3> QED
      BY <2>1, <3>2 DEF q
  <2> HIDE DEF m
  <2>3. browser'.orders[p] = IF m \in Of(p) THEN m.at ELSE browser.orders[p]
    <3>1. browser \in Browsers
      BY DEF Typed, QueueTyped, ClientTyped
    <3>2. m \in Of(p) <=> m.kind = "order" /\ m.order = p
      BY <2>1, OfFacts
    <3>3. CASE m.kind = "order"
      BY <2>1, <3>1, <3>2, <3>3
    <3>4. CASE m.kind # "order"
      BY <2>1, <3>1, <3>2, <3>4
    <3> QED
      BY <3>3, <3>4
  <2> QED
    BY <1>a, <2>1, <2>2, <2>3 DEF WrittenOf, Held
<1>9. CASE Disconnect
  <2>1. client'.out_q = <<>> /\ UNCHANGED <<db, engine, event_q, pump, row, browser, history>>
    BY <1>9 DEF Disconnect, NoClient
  <2>2. Below(client'.out_q, Of(p), row[p])
    BY <2>1, EmptyQueue
  <2> QED
    BY <1>a, <2>1, <2>2 DEF WrittenOf, Held
<1>10. CASE Rest
  <2>1. /\ browser'.orders = browser.orders
        /\ UNCHANGED <<db, engine, event_q, pump, row, client, history>>
    BY <1>10 DEF Rest, AnswerRest, Hydrate, Typed, QueueTyped, ClientTyped
  <2> QED
    BY <1>a, <2>1 DEF WrittenOf, Held
<1>11. CASE UNCHANGED vars
  BY <1>a, <1>11 DEF vars, WrittenOf, Held
<1> QED
  BY <1>1, <1>2, <1>3, <1>4, <1>5, <1>6, <1>7, <1>8, <1>9, <1>10, <1>11 DEF Next, Pump, Serve

(* The order of writing and telling always holds.                          *)
LEMMA WrittenAlways == Spec => []Written
<1>1. Typed /\ Written /\ [Next]_vars => Written'
  BY WrittenStep
<1> QED
  BY <1>1, WrittenInit, TypedAlways, PTL DEF Spec

----------------------------------------------------------------------------
(* The rows become the orders. *)

(* At the start no order has changed.                                      *)
LEMMA RecordedInit == Init => Recorded
<1> SUFFICES ASSUME Init, NEW o \in Orders PROVE RecordedOf(o)
  BY DEF Recorded
<1>1. engine.order[o] = 0 /\ row[o] = 0 /\ event_q = <<>> /\ pump.at = "idle"
  BY DEF Init
<1>2. EndsAt(<<>>, Of(o), 0)
  BY EmptyQueue
<1>3. ~Held(Of(o))
  BY <1>1 DEF Held
<1> QED
  BY <1>1, <1>2, <1>3 DEF RecordedOf

(* Every step keeps the last message of an order current.                  *)
LEMMA RecordedStep == Typed /\ Recorded /\ [Next]_vars => Recorded'
<1> SUFFICES ASSUME Typed, Recorded, [Next]_vars, NEW p \in Orders
             PROVE  RecordedOf(p)'
  BY DEF Recorded
<1>a. RecordedOf(p)
  BY DEF Recorded
<1>b. /\ event_q \in Seq(Msgs) /\ client.out_q \in Seq(Msgs) /\ pump.msg \in Msgs
      /\ history \in Histories
  BY TypedFacts DEF Typed, QueueTyped, ClientTyped
<1>1. ASSUME NEW o \in Orders, Change(o)
      PROVE  RecordedOf(p)'
  <2>1. /\ UNCHANGED <<db, pump, row, client, browser>>
        /\ history' = [history EXCEPT !.overflowed = @ \/ Len(event_q) + 2 > EVENT_CAP]
    BY <1>1 DEF Change
  <2>2. /\ history'.failed = history.failed
        /\ ~history'.overflowed => ~history.overflowed /\ ~(Len(event_q) + 2 > EVENT_CAP)
    BY <1>b, <2>1
  <2>3. EndsAt(event_q', Of(p), engine'.order[p])
    BY <1>1, <1>a, ChangeDoes DEF RecordedOf
  <2>4. ~(Len(event_q) + 2 > EVENT_CAP) /\ Absent(event_q', Of(p)) =>
          engine'.order[p] = engine.order[p] /\ Absent(event_q, Of(p))
    BY <1>1, ChangeDoes
  <2> QED
    BY <1>a, <2>1, <2>2, <2>3, <2>4 DEF RecordedOf, Held
<1>2. CASE Take
  <2> DEFINE m == Head(event_q)
  <2>1. /\ event_q # <<>> /\ m \in Msgs /\ event_q' = Tail(event_q) /\ pump.at = "idle"
        /\ UNCHANGED <<db, engine, row, browser>>
    BY <1>2, TakeDoes
  <2>2. \/ ~db /\ broadcast(m) /\ pump' = pump
        \/ /\ db /\ client' = client /\ history' = history
           /\ pump'.at \in {"row", "watermark"}
           /\ pump'.at = "row" <=> m.kind = "order"
           /\ pump'.msg = m
    BY <1>2, TakeDoes
  <2>3. /\ EndsAt(event_q', Of(p), engine.order[p])
        /\ m \in Of(p) /\ Absent(event_q', Of(p)) => m.at = engine.order[p]
        /\ m \notin Of(p) => (Absent(event_q', Of(p)) <=> Absent(event_q, Of(p)))
    BY <1>a, <1>b, <2>1, TailEnds DEF RecordedOf
  <2> HIDE DEF m
  <2>4. m \in Of(p) => m.kind = "order"
    BY <2>1, OfFacts
  <2>5. CASE ~db /\ broadcast(m) /\ pump' = pump
    BY <1>a, <2>1, <2>3, <2>5 DEF RecordedOf, Held
  <2>6. CASE /\ db /\ client' = client /\ history' = history
             /\ pump'.at \in {"row", "watermark"}
             /\ pump'.at = "row" <=> m.kind = "order"
             /\ pump'.msg = m
    BY <1>a, <2>1, <2>3, <2>4, <2>6 DEF RecordedOf, Held
  <2> QED
    BY <2>2, <2>5, <2>6
<1>3. CASE persist_order_snapshot
  <2>1. /\ pump.at = "row" /\ pump' = [pump EXCEPT !.at = "watermark"]
        /\ \/ row' = Upserted(pump.msg) /\ UNCHANGED history
           \/ history' = [history EXCEPT !.failed = TRUE] /\ UNCHANGED row
        /\ UNCHANGED <<db, engine, event_q, client, browser>>
    BY <1>3 DEF persist_order_snapshot
  <2>2. pump'.at = "watermark" /\ pump'.msg = pump.msg /\ pump.msg.kind = "order"
    BY <2>1 DEF Typed, QueueTyped, ClientTyped
  <2>3. CASE history' = [history EXCEPT !.failed = TRUE] /\ UNCHANGED row
    <3>1. history'.failed /\ history'.overflowed = history.overflowed
      BY <1>b, <2>3
    <3> QED
      BY <1>a, <2>1, <2>2, <2>3, <3>1 DEF RecordedOf, Held
  <2>4. CASE row' = Upserted(pump.msg) /\ UNCHANGED history
    <3>1. CASE pump.msg \in Of(p)
      <4>1. row'[p] = pump.msg.at
        BY <1>b, <2>4, <3>1, OfFacts DEF Upserted, Typed, QueueTyped, ClientTyped
      <4> QED
        BY <1>a, <2>1, <2>2, <2>4, <3>1, <4>1 DEF RecordedOf, Held
    <3>2. CASE pump.msg \notin Of(p)
      <4>1. row'[p] = row[p]
        BY <1>b, <2>2, <2>4, <3>2, OfFacts DEF Upserted, Typed, QueueTyped, ClientTyped
      <4> QED
        BY <1>a, <2>1, <2>2, <2>4, <3>2, <4>1 DEF RecordedOf, Held
    <3> QED
      BY <3>1, <3>2
  <2> QED
    BY <2>1, <2>3, <2>4
<1>4. CASE update_watermark
  <2>1. /\ pump.at = "watermark" /\ pump' = [at |-> "idle", msg |-> NoMsg]
        /\ broadcast(pump.msg)
        /\ UNCHANGED <<db, engine, event_q, row, browser>>
    BY <1>4 DEF update_watermark
  <2>2. history'.failed = history.failed /\ history'.overflowed = history.overflowed
    BY <1>b, <2>1, BroadcastDoes
  <2>3. pump'.at = "idle"
    BY <2>1
  <2> QED
    BY <1>a, <2>1, <2>2, <2>3 DEF RecordedOf, Held
<1>5. CASE UNCHANGED <<db, engine, event_q, pump, row>>
           /\ history'.failed = history.failed /\ history'.overflowed = history.overflowed
  BY <1>a, <1>5 DEF RecordedOf, Held
<1>6. CASE Connect
  <2>1. /\ history' = [history EXCEPT !.dropped = FALSE]
        /\ UNCHANGED <<db, engine, event_q, pump, row>>
    BY <1>6 DEF Connect
  <2> QED
    BY <1>b, <1>5, <2>1
<1>7. CASE _send_orderbook_snapshot
  BY <1>5, <1>7, SnapshotDoes
<1>8. CASE SubscribeOrders \/ _sender \/ Disconnect \/ Rest \/ UNCHANGED vars
  BY <1>5, <1>8 DEF SubscribeOrders, _sender, Disconnect, Rest, AnswerRest, Hydrate, vars
<1> QED
  BY <1>1, <1>2, <1>3, <1>4, <1>6, <1>7, <1>8 DEF Next, Pump, Serve

(* The last message of an order is always current.                         *)
LEMMA RecordedAlways == Spec => []Recorded
<1>1. Typed /\ Recorded /\ [Next]_vars => Recorded'
  BY RecordedStep
<1> QED
  BY <1>1, RecordedInit, TypedAlways, PTL DEF Spec

----------------------------------------------------------------------------
(* A subscriber that lost nothing is told the ladder as it is. *)

(* At the start there is no subscriber.                                    *)
LEMMA LadderInit == Init => LadderTold
<1> SUFFICES ASSUME Init PROVE LadderTold
  OBVIOUS
<1>1. event_q = <<>> /\ pump.at = "idle" /\ client.stage = "closed"
  BY DEF Init, NoClient
<1> QED
  BY <1>1 DEF LadderTold

(* What a client holds of the ladder after it was told the current one.    *)
LEMMA LadderBroadcast ==
  ASSUME Typed, NEW m \in Msgs, m.kind = "delta", m.at = engine.ladder, broadcast(m),
         client.stage \in {"booked", "subscribed"}, ~history'.dropped
  PROVE  EndsAt(client'.out_q, Ladders, engine.ladder) /\ ~Absent(client'.out_q, Ladders)
<1>1. _matches(client, m)
  BY DEF _matches
<1>2. client'.out_q = Append(client.out_q, m)
  BY <1>1, BroadcastDoes
<1>3. m \in Ladders /\ client.out_q \in Seq(Msgs)
  BY OfFacts, TypedFacts
<1> QED
  BY <1>2, <1>3, AppendEnds

(* Every step keeps the last delta and the subscriber's view current.      *)
LEMMA LadderStep == Typed /\ LadderTold /\ [Next]_vars => LadderTold'
<1> SUFFICES ASSUME Typed, LadderTold, [Next]_vars
             PROVE  LadderTold'
  OBVIOUS
<1>b. /\ event_q \in Seq(Msgs) /\ client.out_q \in Seq(Msgs) /\ pump.msg \in Msgs
      /\ pump.at \in {"idle", "row", "watermark"}
      /\ history \in Histories /\ browser \in Browsers /\ client \in Clients
  BY TypedFacts DEF Typed, QueueTyped, ClientTyped
<1>1. ASSUME NEW o \in Orders, Change(o)
      PROVE  LadderTold'
  <2>1. /\ event_q' # <<>> /\ event_q'[Len(event_q')] = BookMsg("delta", engine'.ladder)
    BY <1>1, ChangeDoes
  <2>2. /\ BookMsg("delta", engine'.ladder).kind = "delta"
        /\ BookMsg("delta", engine'.ladder).at = engine'.ladder
    BY DEF BookMsg
  <2> QED
    BY <2>1, <2>2 DEF LadderTold, Drained
<1>2. CASE Take
  <2> DEFINE m == Head(event_q)
  <2>1. /\ event_q # <<>> /\ m \in Msgs /\ event_q' = Tail(event_q) /\ pump.at = "idle"
        /\ UNCHANGED <<db, engine, row, browser>>
    BY <1>2, TakeDoes
  <2>2. \/ ~db /\ broadcast(m) /\ pump' = pump
        \/ /\ db /\ client' = client /\ history' = history
           /\ pump'.at \in {"row", "watermark"}
           /\ pump'.at = "row" <=> m.kind = "order"
           /\ pump'.msg = m
    BY <1>2, TakeDoes
  <2>3. event_q' # <<>> => event_q'[Len(event_q')] = event_q[Len(event_q)]
    BY <1>b, <2>1, TailPlaces
  <2>4. event_q' = <<>> => m = event_q[Len(event_q)]
    <3>1. /\ Len(event_q') = Len(event_q) - 1 /\ Len(event_q) \in Nat \ {0}
          /\ m = event_q[1]
      BY <1>b, <2>1, TailPlaces
    <3>2. event_q' = <<>> => Len(event_q) = 1
      BY <3>1
    <3> HIDE DEF m
    <3> QED
      BY <3>1, <3>2
  <2> HIDE DEF m
  <2>5. event_q[Len(event_q)].kind = "delta" /\ event_q[Len(event_q)].at = engine.ladder
    BY <2>1 DEF LadderTold
  <2>6. /\ event_q' # <<>> => event_q'[Len(event_q')].kind = "delta"
                                /\ event_q'[Len(event_q')].at = engine.ladder
        /\ event_q' = <<>> => m.kind = "delta" /\ m.at = engine.ladder
    BY <2>3, <2>4, <2>5
  <2>7. CASE ~db /\ broadcast(m) /\ pump' = pump
    <3>1. event_q' = <<>> /\ client'.stage \in {"booked", "subscribed"} /\ ~history'.dropped =>
            EndsAt(client'.out_q, Ladders, engine.ladder) /\ ~Absent(client'.out_q, Ladders)
      BY <2>1, <2>6, <2>7, LadderBroadcast, BroadcastDoes
    <3> QED
      BY <2>1, <2>6, <2>7, <3>1 DEF LadderTold, Drained
  <2>8. CASE /\ db /\ client' = client /\ history' = history
             /\ pump'.at \in {"row", "watermark"}
             /\ pump'.at = "row" <=> m.kind = "order"
             /\ pump'.msg = m
    BY <2>1, <2>6, <2>8 DEF LadderTold, Drained
  <2> QED
    BY <2>2, <2>7, <2>8
<1>3. CASE persist_order_snapshot
  <2>1. /\ pump.at = "row" /\ pump' = [pump EXCEPT !.at = "watermark"]
        /\ UNCHANGED <<engine, event_q>>
    BY <1>3 DEF persist_order_snapshot
  <2>2. pump'.at = "watermark" /\ event_q # <<>>
    BY <2>1 DEF Typed, QueueTyped, ClientTyped, LadderTold
  <2> QED
    BY <2>1, <2>2 DEF LadderTold, Drained
<1>4. CASE update_watermark
  <2>1. /\ pump.at = "watermark" /\ pump' = [at |-> "idle", msg |-> NoMsg]
        /\ broadcast(pump.msg)
        /\ UNCHANGED <<db, engine, event_q, row, browser>>
    BY <1>4 DEF update_watermark
  <2>2. event_q = <<>> => pump.msg.kind = "delta" /\ pump.msg.at = engine.ladder
    BY <2>1 DEF LadderTold
  <2>3. event_q = <<>> /\ client'.stage \in {"booked", "subscribed"} /\ ~history'.dropped =>
          EndsAt(client'.out_q, Ladders, engine.ladder) /\ ~Absent(client'.out_q, Ladders)
    BY <1>b, <2>1, <2>2, LadderBroadcast, BroadcastDoes
  <2>4. pump'.at = "idle"
    BY <2>1
  <2> QED
    BY <2>1, <2>3, <2>4 DEF LadderTold, Drained
<1>5. CASE Connect
  <2>1. client' = [NoClient EXCEPT !.stage = "acking"] /\ UNCHANGED <<engine, event_q, pump>>
    BY <1>5 DEF Connect
  <2>2. client'.stage = "acking"
    BY <2>1 DEF NoClient
  <2> QED
    BY <2>1, <2>2 DEF LadderTold, Drained
<1>6. CASE _send_orderbook_snapshot
  <2> DEFINE m == BookMsg("snapshot", engine.ladder)
  <2>1. /\ m \in Msgs
        /\ ~history'.dropped => client'.out_q = Append(client.out_q, m)
        /\ UNCHANGED <<db, engine, event_q, pump, row, browser>>
    BY <1>6, SnapshotDoes
  <2>2. m.kind = "snapshot" /\ m.at = engine.ladder
    BY DEF BookMsg
  <2> HIDE DEF m
  <2>3. m \in Ladders
    BY <2>1, <2>2, OfFacts
  <2>4. /\ EndsAt(Append(client.out_q, m), Ladders, engine.ladder)
        /\ ~Absent(Append(client.out_q, m), Ladders)
    BY <1>b, <2>1, <2>2, <2>3, AppendEnds
  <2> QED
    BY <2>1, <2>4 DEF LadderTold, Drained
<1>7. CASE SubscribeOrders
  <2>1. /\ client.stage = "booked" /\ client' = [client EXCEPT !.stage = "subscribed"]
        /\ UNCHANGED <<db, engine, event_q, pump, row, browser, history>>
    BY <1>7 DEF SubscribeOrders
  <2>2. client'.out_q = client.out_q
    BY <1>b, <2>1
  <2> QED
    BY <2>1, <2>2 DEF LadderTold, Drained
<1>8. CASE _sender
  <2> DEFINE q == client.out_q
             m == Head(q)
  <2>1. /\ q # <<>> /\ m \in Msgs /\ client'.stage = client.stage /\ client'.out_q = Tail(q)
        /\ m.kind \in {"order", "delta", "snapshot"}
        /\ m.kind = "order" => browser' = [browser EXCEPT !.orders[m.order] = m.at]
        /\ m.kind # "order" => browser' = [browser EXCEPT !.book = m.at, !.from = "socket"]
        /\ UNCHANGED <<db, engine, event_q, pump, row, history>>
    BY <1>8, SenderDoes
  <2>2. q \in Seq(Msgs)
    BY <1>b
  <2> HIDE DEF q
  <2>3. EndsAt(q, Ladders, engine.ladder) =>
          /\ EndsAt(Tail(q), Ladders, engine.ladder)
          /\ m \in Ladders /\ Absent(Tail(q), Ladders) => m.at = engine.ladder
          /\ m \notin Ladders => (Absent(Tail(q), Ladders) <=> Absent(q, Ladders))
    BY <2>1, <2>2, TailEnds
  <2> HIDE DEF m
  <2>4. /\ m \in Ladders => browser'.book = m.at
        /\ m \notin Ladders => browser'.book = browser.book /\ browser'.from = browser.from
    BY <1>b, <2>1, OfFacts
  <2> QED
    BY <2>1, <2>3, <2>4 DEF LadderTold, Drained, q
<1>9. CASE Disconnect
  <2>1. client'.stage = "closed" /\ UNCHANGED <<engine, event_q, pump>>
    BY <1>9 DEF Disconnect, NoClient
  <2> QED
    BY <2>1 DEF LadderTold, Drained
<1>10. CASE Rest
  <2>1. /\ UNCHANGED <<db, engine, event_q, pump, row, client, history>>
        /\ browser'.from = "rest" \/ (browser'.book = browser.book /\ browser'.from = browser.from)
    BY <1>b, <1>10 DEF Rest, AnswerRest, Hydrate
  <2> QED
    BY <2>1 DEF LadderTold, Drained
<1>11. CASE UNCHANGED vars
  BY <1>11 DEF vars, LadderTold, Drained
<1> QED
  BY <1>1, <1>2, <1>3, <1>4, <1>5, <1>6, <1>7, <1>8, <1>9, <1>10, <1>11 DEF Next, Pump, Serve

(* The last delta and the subscriber's view are always current.            *)
LEMMA LadderAlways == Spec => []LadderTold
<1>1. Typed /\ LadderTold /\ [Next]_vars => LadderTold'
  BY LadderStep
<1> QED
  BY <1>1, LadderInit, TypedAlways, PTL DEF Spec

----------------------------------------------------------------------------
(* On its first connection the browser is told the orders as they are. *)

(* At the start there is no connection.                                    *)
LEMMA OrdersInit == Init => OrdersTold
<1> SUFFICES ASSUME Init PROVE OrdersTold
  OBVIOUS
<1>1. client.stage = "closed" /\ client.out_q = <<>> /\ browser.connects = 0
  BY DEF Init, NoClient
<1>2. \A o \in Orders : browser.orders[o] = 0
  BY DEF Init
<1> QED
  BY <1>1, <1>2, EmptyQueue DEF OrdersTold, OrdersToldOf

(* A broadcast leaves an order that it does not tell of as it was told,    *)
(* and tells the order of its message if its channel is subscribed to.     *)
LEMMA OrderBroadcast ==
  ASSUME Typed, NEW m \in Msgs, broadcast(m), NEW o \in Orders
  PROVE  /\ client.stage # "subscribed" /\ Absent(client.out_q, Of(o)) =>
              Absent(client'.out_q, Of(o))
         /\ m \notin Of(o) =>
              /\ \A n : EndsAt(client.out_q, Of(o), n) => EndsAt(client'.out_q, Of(o), n)
              /\ Absent(client'.out_q, Of(o)) <=> Absent(client.out_q, Of(o))
         /\ m \in Of(o) /\ client.stage = "subscribed" /\ ~history'.dropped =>
              EndsAt(client'.out_q, Of(o), m.at) /\ ~Absent(client'.out_q, Of(o))
<1> DEFINE q == client.out_q
           r == client'.out_q
<1>1. /\ q \in Seq(Msgs)
      /\ r = q \/ r = Append(q, m)
      /\ _matches(client, m) /\ ~history'.dropped => r = Append(q, m)
      /\ ~_matches(client, m) => r = q
  BY BroadcastDoes, TypedFacts
<1>2. /\ m \in Of(o) /\ client.stage = "subscribed" => _matches(client, m)
      /\ m \in Of(o) /\ client.stage # "subscribed" => ~_matches(client, m)
  BY OfFacts DEF _matches
<1> HIDE DEF q, r
<1>3. /\ m \in Of(o) => EndsAt(Append(q, m), Of(o), m.at) /\ ~Absent(Append(q, m), Of(o))
      /\ \A n : m \notin Of(o) /\ EndsAt(q, Of(o), n) => EndsAt(Append(q, m), Of(o), n)
      /\ m \notin Of(o) => (Absent(Append(q, m), Of(o)) <=> Absent(q, Of(o)))
  BY <1>1, AppendEnds
<1>4. m \in Of(o) /\ client.stage = "subscribed" /\ ~history'.dropped =>
        EndsAt(r, Of(o), m.at) /\ ~Absent(r, Of(o))
  BY <1>1, <1>2, <1>3
<1>5. m \notin Of(o) =>
        /\ \A n : EndsAt(q, Of(o), n) => EndsAt(r, Of(o), n)
        /\ Absent(r, Of(o)) <=> Absent(q, Of(o))
  BY <1>1, <1>3
<1>6. client.stage # "subscribed" /\ Absent(q, Of(o)) => Absent(r, Of(o))
  BY <1>1, <1>2, <1>5
<1> QED
  BY <1>4, <1>5, <1>6 DEF q, r

(* Every step keeps what the first connection was told current.            *)
LEMMA OrdersStep == Typed /\ Recorded /\ OrdersTold /\ [Next]_vars => OrdersTold'
<1> SUFFICES ASSUME Typed, Recorded, OrdersTold, [Next]_vars
             PROVE  OrdersTold'
  OBVIOUS
<1>b. /\ event_q \in Seq(Msgs) /\ client.out_q \in Seq(Msgs) /\ pump.msg \in Msgs
      /\ pump.at \in {"idle", "row", "watermark"}
      /\ history \in Histories /\ browser \in Browsers /\ client \in Clients
      /\ browser.connects \in Nat
  BY TypedFacts, FeedAssumption DEF Typed, QueueTyped, ClientTyped, FeedAssumption
<1>1. ASSUME NEW o \in Orders, Change(o)
      PROVE  OrdersTold'
  <2>1. /\ UNCHANGED <<db, pump, row, client, browser>>
        /\ history' = [history EXCEPT !.overflowed = @ \/ Len(event_q) + 2 > EVENT_CAP]
    BY <1>1 DEF Change
  <2>2. /\ history'.dropped = history.dropped
        /\ ~history'.overflowed => ~history.overflowed /\ ~(Len(event_q) + 2 > EVENT_CAP)
    BY <1>b, <2>1
  <2>3. ASSUME NEW p \in Orders
        PROVE  OrdersToldOf(p)'
    <3>1. ~history'.overflowed /\ Absent(event_q', Of(p)) =>
            engine'.order[p] = engine.order[p] /\ Absent(event_q, Of(p))
      BY <1>1, <2>2, ChangeDoes
    <3>2. OrdersToldOf(p)
      BY DEF OrdersTold
    <3> QED
      BY <2>1, <2>2, <3>1, <3>2 DEF OrdersToldOf, Held
  <2> QED
    BY <2>1, <2>3 DEF OrdersTold
<1>2. CASE Take
  <2> DEFINE m == Head(event_q)
  <2>1. /\ event_q # <<>> /\ m \in Msgs /\ event_q' = Tail(event_q) /\ pump.at = "idle"
        /\ UNCHANGED <<db, engine, row, browser>>
    BY <1>2, TakeDoes
  <2>2. \/ ~db /\ broadcast(m) /\ pump' = pump
        \/ /\ db /\ client' = client /\ history' = history
           /\ pump'.at \in {"row", "watermark"}
           /\ pump'.at = "row" <=> m.kind = "order"
           /\ pump'.msg = m
    BY <1>2, TakeDoes
  <2>3. \A p \in Orders :
          /\ m \in Of(p) /\ Absent(event_q', Of(p)) => m.at = engine.order[p]
          /\ m \notin Of(p) => (Absent(event_q', Of(p)) <=> Absent(event_q, Of(p)))
    BY <1>b, <2>1, TailEnds DEF Recorded, RecordedOf
  <2> HIDE DEF m
  <2>4. CASE ~db /\ broadcast(m) /\ pump' = pump
    <3>1. /\ client'.stage = client.stage
          /\ history'.overflowed = history.overflowed
          /\ history.dropped => history'.dropped
          /\ client.stage = "closed" => client'.out_q = client.out_q
      BY <2>1, <2>4, BroadcastDoes DEF _matches
    <3>2. ASSUME NEW p \in Orders
          PROVE  OrdersToldOf(p)'
      <4>1. OrdersToldOf(p)
        BY DEF OrdersTold
      <4>2. ~Held(Of(p)) /\ ~Held(Of(p))'
        BY <2>1, <2>4 DEF Held
      <4>3. CASE m \in Of(p)
        BY <2>1, <2>3, <2>4, <3>1, <4>1, <4>2, <4>3, OrderBroadcast DEF OrdersToldOf
      <4>4. CASE m \notin Of(p)
        BY <2>1, <2>3, <2>4, <3>1, <4>1, <4>2, <4>4, OrderBroadcast DEF OrdersToldOf
      <4> QED
        BY <4>3, <4>4
    <3> QED
      BY <2>1, <3>1, <3>2 DEF OrdersTold
  <2>5. CASE /\ db /\ client' = client /\ history' = history
             /\ pump'.at \in {"row", "watermark"}
             /\ pump'.at = "row" <=> m.kind = "order"
             /\ pump'.msg = m
    <3>1. ASSUME NEW p \in Orders
          PROVE  OrdersToldOf(p)'
      <4>1. OrdersToldOf(p)
        BY DEF OrdersTold
      <4>2. ~Held(Of(p)) /\ (Held(Of(p))' <=> m \in Of(p))
        BY <2>1, <2>5 DEF Held
      <4> QED
        BY <2>1, <2>3, <2>5, <4>1, <4>2 DEF OrdersToldOf
    <3> QED
      BY <2>1, <2>5, <3>1 DEF OrdersTold
  <2> QED
    BY <2>2, <2>4, <2>5
<1>3. CASE persist_order_snapshot
  <2>1. /\ pump.at = "row" /\ pump' = [pump EXCEPT !.at = "watermark"]
        /\ UNCHANGED history \/ history' = [history EXCEPT !.failed = TRUE]
        /\ UNCHANGED <<db, engine, event_q, client, browser>>
    BY <1>3 DEF persist_order_snapshot
  <2>2. /\ pump'.at = "watermark" /\ pump'.msg = pump.msg
        /\ history'.overflowed = history.overflowed /\ history'.dropped = history.dropped
    BY <1>b, <2>1 DEF Typed, QueueTyped, ClientTyped
  <2>3. \A p \in Orders : Held(Of(p))' <=> Held(Of(p))
    BY <2>1, <2>2 DEF Held
  <2> QED
    BY <2>1, <2>2, <2>3 DEF OrdersTold, OrdersToldOf
<1>4. CASE update_watermark
  <2>1. /\ pump.at = "watermark" /\ pump' = [at |-> "idle", msg |-> NoMsg]
        /\ broadcast(pump.msg)
        /\ UNCHANGED <<db, engine, event_q, row, browser>>
    BY <1>4 DEF update_watermark
  <2>2. /\ client'.stage = client.stage
        /\ history'.overflowed = history.overflowed
        /\ history.dropped => history'.dropped
        /\ client.stage = "closed" => client'.out_q = client.out_q
    BY <1>b, <2>1, BroadcastDoes DEF _matches
  <2>3. pump'.at = "idle"
    BY <2>1
  <2>4. ASSUME NEW p \in Orders
        PROVE  OrdersToldOf(p)'
    <3>1. OrdersToldOf(p)
      BY DEF OrdersTold
    <3>2. ~Held(Of(p))' /\ (Held(Of(p)) <=> pump.msg \in Of(p))
      BY <2>1, <2>3 DEF Held
    <3>3. pump.msg \in Of(p) /\ Absent(event_q, Of(p)) /\ ~history.overflowed =>
            pump.msg.at = engine.order[p]
      BY <3>2 DEF Recorded, RecordedOf
    <3>4. CASE pump.msg \in Of(p)
      BY <1>b, <2>1, <2>2, <3>1, <3>2, <3>3, <3>4, OrderBroadcast DEF OrdersToldOf
    <3>5. CASE pump.msg \notin Of(p)
      BY <1>b, <2>1, <2>2, <3>1, <3>2, <3>5, OrderBroadcast DEF OrdersToldOf
    <3> QED
      BY <3>4, <3>5
  <2> QED
    BY <2>1, <2>2, <2>4 DEF OrdersTold
<1>5. CASE Connect
  <2>1. /\ client' = [NoClient EXCEPT !.stage = "acking"]
        /\ browser' = [browser EXCEPT !.connects = browser.connects + 1]
    BY <1>5 DEF Connect
  <2>2. client'.stage = "acking" /\ client'.out_q = <<>>
    BY <2>1 DEF NoClient
  <2>3. browser'.connects = browser.connects + 1 /\ browser'.orders = browser.orders
    BY <1>b, <2>1
  <2>4. browser'.connects # 0 /\ (browser'.connects = 1 => browser.connects = 0)
    BY <1>b, <2>3
  <2> QED
    BY <2>2, <2>3, <2>4, EmptyQueue DEF OrdersTold, OrdersToldOf
<1>6. CASE _send_orderbook_snapshot
  <2> DEFINE m == BookMsg("snapshot", engine.ladder)
  <2>1. /\ m \in Msgs /\ client.stage = "acking" /\ client'.stage = "booked"
        /\ client'.out_q = client.out_q \/ client'.out_q = Append(client.out_q, m)
        /\ UNCHANGED <<db, engine, event_q, pump, row, browser>>
    BY <1>6, SnapshotDoes
  <2>2. \A p \in Orders : m \notin Of(p)
    BY DEF Of, BookMsg
  <2> HIDE DEF m
  <2>3. ASSUME NEW p \in Orders
        PROVE  Absent(client.out_q, Of(p)) => Absent(client'.out_q, Of(p))
    <3>1. Absent(Append(client.out_q, m), Of(p)) <=> Absent(client.out_q, Of(p))
      BY <1>b, <2>1, <2>2, AppendEnds
    <3> QED
      BY <2>1, <3>1
  <2> QED
    BY <2>1, <2>3 DEF OrdersTold, OrdersToldOf
<1>7. CASE SubscribeOrders
  <2>1. /\ client.stage = "booked" /\ client' = [client EXCEPT !.stage = "subscribed"]
        /\ UNCHANGED <<db, engine, event_q, pump, row, browser, history>>
    BY <1>7 DEF SubscribeOrders
  <2>2. client'.out_q = client.out_q /\ client'.stage = "subscribed"
    BY <1>b, <2>1
  <2>3. \A p \in Orders, n \in Counts : Absent(client.out_q, Of(p)) => EndsAt(client.out_q, Of(p), n)
    BY DEF Absent, EndsAt
  <2>4. \A p \in Orders : engine.order[p] \in Counts
    BY TypedFacts
  <2> QED
    BY <2>1, <2>2, <2>3, <2>4 DEF OrdersTold, OrdersToldOf
<1>8. CASE _sender
  <2> DEFINE q == client.out_q
             m == Head(q)
  <2>1. /\ q # <<>> /\ m \in Msgs /\ client'.stage = client.stage /\ client'.out_q = Tail(q)
        /\ m.kind = "order" => browser' = [browser EXCEPT !.orders[m.order] = m.at]
        /\ m.kind # "order" => browser' = [browser EXCEPT !.book = m.at, !.from = "socket"]
        /\ UNCHANGED <<db, engine, event_q, pump, row, history>>
    BY <1>8, SenderDoes
  <2>2. q \in Seq(Msgs)
    BY <1>b
  <2> HIDE DEF q
  <2>3. \A p \in Orders :
          /\ EndsAt(q, Of(p), engine.order[p]) =>
               /\ EndsAt(Tail(q), Of(p), engine.order[p])
               /\ m \in Of(p) /\ Absent(Tail(q), Of(p)) => m.at = engine.order[p]
          /\ m \notin Of(p) => (Absent(Tail(q), Of(p)) <=> Absent(q, Of(p)))
          /\ Absent(q, Of(p)) => Absent(Tail(q), Of(p))
          /\ m \in Of(p) => ~Absent(q, Of(p))
    <3>1. m = q[1] /\ 1 \in 1 .. Len(q)
      BY <2>1, <2>2, TailPlaces
    <3>2. \A p \in Orders : m \in Of(p) => ~Absent(q, Of(p))
      BY <3>1 DEF Absent
    <3> QED
      BY <2>1, <2>2, <3>2, TailEnds
  <2> HIDE DEF m
  <2>4. \A p \in Orders : browser'.orders[p] = IF m \in Of(p) THEN m.at ELSE browser.orders[p]
    <3>1. \A p \in Orders : m \in Of(p) <=> m.kind = "order" /\ m.order = p
      BY <2>1, OfFacts
    <3>2. CASE m.kind = "order"
      BY <1>b, <2>1, <3>1, <3>2
    <3>3. CASE m.kind # "order"
      BY <1>b, <2>1, <3>1, <3>3
    <3> QED
      BY <3>2, <3>3
  <2>5. browser'.connects = browser.connects
    BY <1>b, <2>1
  <2>6. client.stage # "closed" /\ browser.connects # 0
    BY <2>1 DEF OrdersTold, q
  <2>7. ASSUME NEW p \in Orders
        PROVE  OrdersToldOf(p)'
    <3>1. OrdersToldOf(p)
      BY DEF OrdersTold
    <3>2. UNCHANGED <<event_q, engine, history>> /\ (Held(Of(p))' <=> Held(Of(p)))
      BY <2>1 DEF Held
    <3>3. CASE m \in Of(p)
      BY <2>1, <2>3, <2>4, <2>5, <2>6, <3>1, <3>2, <3>3 DEF OrdersToldOf, q
    <3>4. CASE m \notin Of(p)
      BY <2>1, <2>3, <2>4, <2>5, <2>6, <3>1, <3>2, <3>4 DEF OrdersToldOf, q
    <3> QED
      BY <3>3, <3>4
  <2> QED
    BY <2>1, <2>5, <2>6, <2>7 DEF OrdersTold
<1>9. CASE Disconnect
  <2>1. /\ client'.stage = "closed" /\ client'.out_q = <<>>
        /\ client.stage # "closed"
        /\ UNCHANGED <<db, engine, event_q, pump, row, browser, history>>
    BY <1>9 DEF Disconnect, NoClient
  <2> QED
    BY <2>1, EmptyQueue DEF OrdersTold, OrdersToldOf
<1>10. CASE Rest
  <2>1. /\ UNCHANGED <<db, engine, event_q, pump, row, client, history>>
        /\ browser'.orders = browser.orders /\ browser'.connects = browser.connects
    BY <1>b, <1>10 DEF Rest, AnswerRest, Hydrate
  <2> QED
    BY <2>1 DEF OrdersTold, OrdersToldOf, Held
<1>11. CASE UNCHANGED vars
  BY <1>11 DEF vars, OrdersTold, OrdersToldOf, Held
<1> QED
  BY <1>1, <1>2, <1>3, <1>4, <1>5, <1>6, <1>7, <1>8, <1>9, <1>10, <1>11 DEF Next, Pump, Serve

(* What the first connection was told is always current.                   *)
LEMMA OrdersAlways == Spec => []OrdersTold
<1>1. Typed /\ Recorded /\ OrdersTold /\ [Next]_vars => OrdersTold'
  BY OrdersStep
<1> QED
  BY <1>1, OrdersInit, TypedAlways, RecordedAlways, PTL DEF Spec

----------------------------------------------------------------------------
(* The promises. *)

(* Every variable of the feed has its type, whatever the number of orders, *)
(* and neither the adapter's queue (engine_bridge.py:211) nor a client's   *)
(* (subscriptions.py:38) holds more than its places.                       *)
THEOREM FeedTypeCorrect == Spec => []TypeOK
<1>1. Typed => TypeOK
  <2> SUFFICES ASSUME Typed PROVE TypeOK
    OBVIOUS
  <2>1. /\ event_q \in Seq(Msgs) /\ client.out_q \in Seq(Msgs)
        /\ client.stage \in {"closed", "acking", "booked", "subscribed"}
    BY DEF Typed, QueueTyped, ClientTyped
  <2>2. /\ \A i \in DOMAIN event_q : event_q[i] \in Msgs
        /\ \A i \in DOMAIN client.out_q : client.out_q[i] \in Msgs
    BY <2>1
  <2> QED
    BY <2>1, <2>2 DEF Typed, QueueTyped, ClientTyped, TypeOK
<1> QED
  BY <1>1, TypedAlways, PTL

(* The browser never shows of an order what its row does not have yet,     *)
(* unless a write failed: the pump writes an event before it tells it, and *)
(* an order's events keep their order through the adapter's queue, the     *)
(* pump and the client's queue (main.py:96-103).                           *)
THEOREM WritesComeFirst == Spec => []WrittenFirst
<1>1. Written => WrittenFirst
  BY DEF Written, WrittenOf, WrittenFirst
<1> QED
  BY <1>1, WrittenAlways, PTL

(* When nothing is on the way the rows are the orders as they are, unless  *)
(* the adapter's queue overflowed or a write failed.                       *)
THEOREM RowsAreCurrent == Spec => []RowsCurrent
<1>1. Typed /\ Recorded => RowsCurrent
  <2> SUFFICES ASSUME Typed, Recorded, db, Drained, ~history.failed, ~history.overflowed
               PROVE  row = engine.order
    BY DEF RowsCurrent
  <2>1. ASSUME NEW o \in Orders
        PROVE  row[o] = engine.order[o]
    BY <2>1, EmptyQueue DEF Drained, Recorded, RecordedOf, Held
  <2>2. row \in [Orders -> Counts] /\ engine.order \in [Orders -> Counts]
    BY DEF Typed, QueueTyped, ClientTyped
  <2> QED
    BY <2>1, <2>2
<1> QED
  BY <1>1, TypedAlways, RecordedAlways, PTL

(* When all has been told, the browser shows the engine's ladder, and on   *)
(* its first connection every order it was told of, as they are, with the  *)
(* exceptions that ViewsCurrent names.                                     *)
THEOREM ViewsAreCurrent == Spec => []ViewsCurrent
<1>1. LadderTold /\ OrdersTold => ViewsCurrent
  <2> SUFFICES ASSUME LadderTold, OrdersTold, Settled, ~history.dropped
               PROVE  /\ browser.from # "rest" => browser.book = engine.ladder
                      /\ ~history.overflowed /\ browser.connects = 1 =>
                           \A o \in Orders : browser.orders[o] \in {0, engine.order[o]}
    BY DEF ViewsCurrent
  <2>1. Drained /\ event_q = <<>> /\ client.stage = "subscribed" /\ client.out_q = <<>>
    BY DEF Settled, Drained
  <2>2. /\ Absent(client.out_q, Ladders)
        /\ \A o \in Orders : Absent(event_q, Of(o)) /\ Absent(client.out_q, Of(o))
    BY <2>1, EmptyQueue
  <2>3. \A o \in Orders : ~Held(Of(o))
    BY <2>1 DEF Drained, Held
  <2>4. browser.from # "rest" => browser.book = engine.ladder
    BY <2>1, <2>2 DEF LadderTold
  <2>5. ~history.overflowed /\ browser.connects = 1 =>
          \A o \in Orders : browser.orders[o] \in {0, engine.order[o]}
    BY <2>1, <2>2, <2>3 DEF OrdersTold, OrdersToldOf
  <2> QED
    BY <2>4, <2>5
<1> QED
  BY <1>1, LadderAlways, OrdersAlways, PTL
==============================================================================
