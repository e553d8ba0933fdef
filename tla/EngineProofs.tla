----------------------------- MODULE EngineProofs -----------------------------
(***************************************************************************)
(* Theorems about EngineClient: what the events tell, that no triggered    *)
(* stop is left behind, and the bound on the cascade, for any sizes of the *)
(* book, stop pool and ring and whatever the trees of levels do.           *)
(***************************************************************************)
EXTENDS EngineClient, EngineLemmas

(* Every dormant stop that the last trade triggers is still ahead of a scan *)
(* that was called with the price of that trade.                            *)
NoneMissed ==
  \A j \in ActiveStops(me) :
    me.stops[j].id < me.last_taker /\ Triggered(me.stops[j], me.last_trade_price) =>
      \E n \in 1..Len(stack) : stack[n].ltp = me.last_trade_price /\ stack[n].i <= j

IInv ==
  /\ EInv(view, me)
  /\ stack \in Seq(Scanning)
  /\ NoneMissed
  /\ CascadeBounded

(* me_init establishes the invariant. *)
LEMMA InitIInv == Init => IInv
<1> SUFFICES ASSUME Init PROVE IInv
  OBVIOUS
<1>1. EInv(view, me)
  BY EngineStarts DEF Init, NothingKnown
<1>2. me.stops = [i \in Slots |-> NoStop] /\ stack = <<>>
  BY DEF Init, EngineInit
<1>3. ActiveStops(me) = {}
  BY <1>2 DEF ActiveStops, NoStop
<1>9. stack \in Seq(Scanning) /\ Len(stack) = 0
  BY <1>2
<1>10. CascadeBounded
  <2>1. ME_MAX_STOPS \in Nat /\ Cardinality(ActiveStops(me)) = 0
    BY <1>3, FS_EmptySet, EngineAssumption
  <2> QED
    BY <1>9, <2>1 DEF CascadeBounded
<1>11. NoneMissed
  BY <1>3 DEF NoneMissed
<1> QED
  BY <1>1, <1>9, <1>10, <1>11 DEF IInv

(* Draining the queue. *)
LEMMA RunEventsKeeps ==
  ASSUME IInv, RunEvents
  PROVE  IInv'
<1> DEFINE p == me'
<1>1. view' = Learnt(view, me.eq) /\ stack' = stack /\ HandedOver(p, me, NoResult)
  BY DEF RunEvents, HandedOver
<1> HIDE DEF p
<1>2. EInv(Learnt(view, me.eq), p) /\ SameBook(p, me) /\ SameTrade(p, me)
  BY <1>1, HandedOverKeeps DEF IInv
<1>10. EInv(view', me')
  BY <1>1, <1>2 DEF p
<1>11. /\ me'.stops = me.stops /\ ActiveStops(me') = ActiveStops(me)
       /\ me'.last_taker = me.last_taker /\ me'.last_trade_price = me.last_trade_price
  BY <1>2 DEF SameBook, SameTrade, ActiveStops, p
<1>12. NoneMissed'
  BY <1>1, <1>11 DEF IInv, NoneMissed, Triggered
<1>13. CascadeBounded'
  BY <1>1, <1>11 DEF IInv, CascadeBounded
<1> QED
  BY <1>1, <1>10, <1>12, <1>13 DEF IInv

(* A call that cannot start a cascade. *)
LEMMA CallKeeps ==
  ASSUME IInv, NEW e, Call(e), EInv(view, e), StopsKept(e, me)
  PROVE  IInv'
<1>1. me' = e /\ stack' = stack /\ view' = view /\ stack = <<>> /\ Len(stack) = 0
  BY DEF Call, Ready, Idle
<1>2. NoneMissed'
  <2> SUFFICES ASSUME NEW j \in ActiveStops(e),
                      e.stops[j].id < e.last_taker, Triggered(e.stops[j], e.last_trade_price)
               PROVE  FALSE
    BY <1>1 DEF NoneMissed
  <2>1. e.last_taker = me.last_taker /\ e.last_trade_price = me.last_trade_price
    BY DEF StopsKept, SameTrade
  <2>2. CASE j \in ActiveStops(me) /\ e.stops[j] = me.stops[j]
    BY <1>1, <2>1, <2>2 DEF IInv, NoneMissed
  <2>3. CASE e.stops[j].id >= me.last_taker
    <3>1. e.stops[j].id \in Nat
      <4>1. j \in Slots /\ e.stops[j] \in Stop
        BY StopFields DEF EInv, ActiveStops
      <4> QED
        BY <4>1 DEF Stop
    <3>2. me.last_taker \in Nat
      BY DEF IInv, EInv, EngineTyped
    <3> QED
      BY <2>1, <2>3, <3>1, <3>2
  <2> QED
    BY <2>2, <2>3 DEF StopsKept
<1>3. CascadeBounded'
  <2>1. /\ Cardinality(ActiveStops(e)) \in Nat /\ Cardinality(ActiveStops(e)) <= ME_MAX_STOPS
        /\ ME_MAX_STOPS \in Nat
    BY PoolBounded, EngineAssumption
  <2>2. Len(stack) + Cardinality(ActiveStops(e)) <= ME_MAX_STOPS + 1
    BY <1>1, <2>1
  <2> QED
    BY <1>1, <2>2 DEF CascadeBounded
<1> QED
  BY <1>1, <1>2, <1>3 DEF IInv
(* The client's order. *)
LEMMA SubmitOrderKeeps ==
  ASSUME IInv, NEW type \in {"LIMIT", "MARKET", "IOC", "FOK"}, NEW side \in Side, NEW price \in Nat,
         NEW qty \in Nat \ {0}, SubmitOrder(type, side, price, qty)
  PROVE  IInv'
<1> DEFINE r == me_submit_order(me, type, side, price, qty)
           s == [r EXCEPT !.e.out = r.out]
<1>1. Submitted(view, r, me)
  BY SubmitKeeps DEF IInv
<1>2. me' = s.e /\ stack' = Called(stack, s) /\ view' = view /\ stack = <<>>
  <2> HIDE DEF r
  <2> QED
    BY DEF SubmitOrder, Entered, GoOn, Ready, Idle, r
<1> HIDE DEF r
<1>3. DOMAIN r = {"e", "scan", "out"}
  BY <1>1 DEF Submitted
<1> DEFINE x == [r.e EXCEPT !.out = r.out]
<1>4. s = [r EXCEPT !.e = x]
  BY Zenon
<1>5. s.e = x /\ s.scan = r.scan /\ DOMAIN s = {"e", "scan", "out"}
  <2> HIDE DEF x, s
  <2> QED
    BY <1>3, <1>4
<1> HIDE DEF s
<1>6. EInv(view, x) /\ SameBook(x, r.e) /\ SameTrade(x, r.e)
  <2>1. ResultSet(x, r.e, r.out)
    BY DEF ResultSet
  <2> HIDE DEF x
  <2> QED
    BY <1>1, <2>1, ResultSetKeeps DEF Submitted
<1> HIDE DEF x
<1>7. EInv(view, s.e)
  BY <1>5, <1>6
<1>8. Submitted(view, s, me)
  BY <1>1, <1>5, <1>6, <1>7 DEF Submitted, SameBook, SameTrade
<1>9. stack \in Seq(Scanning) /\ Len(stack) = 0
  BY <1>2
<1> DEFINE t == Called(stack, s)
<1>10. /\ t \in Seq(Scanning) /\ Len(t) <= 1 /\ Len(t) \in Nat
       /\ s.scan => Len(t) = 1 /\ t[1] = [ltp |-> s.e.last_trade_price, i |-> 1]
  <2>1. /\ Called(stack, s) \in Seq(Scanning)
        /\ Len(Called(stack, s)) <= Len(stack) + 1 /\ Len(Called(stack, s)) \in Nat /\ Len(stack) \in Nat
        /\ s.scan => /\ Len(Called(stack, s)) = Len(stack) + 1
                     /\ Called(stack, s)[Len(stack) + 1] = [ltp |-> s.e.last_trade_price, i |-> 1]
    BY <1>8, <1>9, CalledIs
  <2>2. Len(stack) + 1 = 1
    BY <1>9
  <2> HIDE DEF t
  <2>3. t = Called(stack, s)
    BY DEF t
  <2> QED
    BY <2>1, <2>2, <2>3
<1> HIDE DEF t
<1>11. me' = s.e /\ stack' = t /\ view' = view
  BY <1>2 DEF t
<1>12. EInv(view', me')
  BY <1>7, <1>11
<1>13. ActiveStops(me') = ActiveStops(me) /\ me'.stops = me.stops
  BY <1>8, <1>11 DEF Submitted, ActiveStops
<1>14. NoneMissed'
  <2> SUFFICES ASSUME NEW j \in ActiveStops(me'), me'.stops[j].id < me'.last_taker,
                      Triggered(me'.stops[j], me'.last_trade_price)
               PROVE  \E n \in 1..Len(t) : t[n].ltp = me'.last_trade_price /\ t[n].i <= j
    BY <1>11 DEF NoneMissed
  <2>1. CASE s.scan
    <3>1. j \in Nat /\ 1 <= j
      BY DEF ActiveStops, Slots
    <3>2. t[1].ltp = me'.last_trade_price /\ t[1].i = 1
      BY <1>10, <1>11, <2>1
    <3>3. 1 \in 1..Len(t)
      <4>1. Len(t) = 1
        BY <1>10, <2>1
      <4> QED
        BY <4>1
    <3> QED
      BY <3>1, <3>2, <3>3
  <2>2. CASE ~s.scan
    <3>1. me'.last_taker = me.last_taker /\ me'.last_trade_price = me.last_trade_price
      BY <1>8, <1>11, <2>2 DEF Submitted, SameTrade
    <3>2. j \in ActiveStops(me) /\ me.stops[j].id < me.last_taker /\ Triggered(me.stops[j], me.last_trade_price)
      BY <1>13, <3>1
    <3>3. \E n \in 1..Len(stack) : stack[n].ltp = me.last_trade_price /\ stack[n].i <= j
      BY <3>2 DEF IInv, NoneMissed
    <3> QED
      BY <1>9, <3>3
  <2>3. s.scan \in BOOLEAN
    BY <1>8 DEF Submitted
  <2> QED
    BY <2>1, <2>2, <2>3
<1>15. CascadeBounded'
  <2>1. /\ Cardinality(ActiveStops(me')) \in Nat /\ Cardinality(ActiveStops(me')) <= ME_MAX_STOPS
        /\ ME_MAX_STOPS \in Nat
    BY PoolBounded, EngineAssumption
  <2>2. Len(t) + Cardinality(ActiveStops(me')) <= ME_MAX_STOPS + 1
    BY <1>10, <2>1
  <2> QED
    BY <1>11, <2>2 DEF CascadeBounded
<1> QED
  BY <1>10, <1>11, <1>12, <1>14, <1>15 DEF IInv

(* A stop fires. *)
LEMMA FireStopKeeps ==
  ASSUME IInv, FireStop, UNCHANGED view
  PROVE  IInv'
<1> DEFINE scan == Last(stack)
           N == Len(stack)
<1>0. /\ EInv(view, me) /\ stack \in Seq(Scanning) /\ stack # <<>> /\ NoneMissed /\ CascadeBounded
      /\ view' = view
  BY DEF IInv, FireStop
<1>1. PICK i \in Hits(scan) : (\A k \in Hits(scan) : i <= k) /\ Fire(i, scan)
  BY DEF FireStop
<1>2. /\ Front(stack) \in Seq(Scanning) /\ Len(Front(stack)) = N - 1 /\ N \in Nat \ {0}
      /\ \A n \in 1..(N - 1) : Front(stack)[n] = stack[n]
      /\ scan = stack[N] /\ scan \in Scanning
  BY <1>0, ScanPopped
<1>3. i \in Slots /\ i \in ActiveStops(me) /\ scan.i <= i
  BY DEF Hits, ActiveStops
<1> HIDE DEF scan
<1> DEFINE s == me.stops[i]
           armed == emit_order_event(Disarm(me, i), "STOP_TRIGGERED", s.id, s.orig_type, s.qty, s.qty, 0)
           on == [scan EXCEPT !.i = i + 1]
           calls == Append(Front(stack), on)
           type == IF s.orig_type = "STOP" THEN "MARKET" ELSE "LIMIT"
           r == me_submit_order(armed, type, s.side, s.limit, s.qty)
<1>4. me' = r.e /\ stack' = Called(calls, r)
  BY <1>1, Zenon DEF Fire, GoOn
<1>5. EInv(view, armed) /\ Disarmed(armed, me, i)
  BY <1>0, <1>3, ArmedKeeps
<1>6. s \in Stop
  BY <1>0, <1>3, StopFields DEF EInv
<1>7. /\ type \in {"LIMIT", "MARKET", "IOC", "FOK"} /\ s.side \in Side /\ s.limit \in Nat
      /\ s.qty \in Nat \ {0}
  BY <1>6 DEF Stop
<1> HIDE DEF armed, type, s
<1>8. Submitted(view, r, armed)
  BY <1>5, <1>7, SubmitKeeps
<1> HIDE DEF r
<1>9. i \in Nat /\ on \in Scanning /\ on.i = i + 1 /\ on.ltp = scan.ltp
  <2>1. i \in Nat
    BY <1>3 DEF Slots
  <2> DEFINE ni == i + 1
  <2>2. scan \in Scanning /\ ni \in Nat /\ on = [scan EXCEPT !.i = ni]
    BY <1>2, <2>1
  <2> HIDE DEF on, ni
  <2>3. on \in Scanning /\ on.i = ni /\ on.ltp = scan.ltp
    BY <2>2 DEF Scanning
  <2> QED
    BY <2>1, <2>3 DEF ni
<1> HIDE DEF on
<1>10. /\ calls \in Seq(Scanning) /\ Len(calls) = N
       /\ \A n \in 1..(N - 1) : calls[n] = stack[n]
       /\ calls[N] = on
  <2>1. /\ calls \in Seq(Scanning) /\ Len(calls) = (N - 1) + 1
        /\ \A n \in 1..(N - 1) : calls[n] = Front(stack)[n]
        /\ calls[(N - 1) + 1] = on
    BY <1>2, <1>9, ScanPushed
  <2>2. (N - 1) + 1 = N
    BY <1>2
  <2> HIDE DEF calls
  <2> QED
    BY <1>2, <2>1, <2>2
<1> HIDE DEF calls
<1> DEFINE t == Called(calls, r)
<1>11. /\ t \in Seq(Scanning) /\ Len(t) <= N + 1 /\ N <= Len(t) /\ Len(t) \in Nat
       /\ \A n \in 1..N : t[n] = calls[n]
       /\ r.scan => Len(t) = N + 1 /\ t[N + 1] = [ltp |-> r.e.last_trade_price, i |-> 1]
  BY <1>8, <1>10, CalledIs
<1>12. me' = r.e /\ stack' = t
  BY <1>4
<1> HIDE DEF t
<1>13. EInv(view', me')
  BY <1>0, <1>8, <1>12 DEF Submitted
<1>14. /\ ActiveStops(me') = ActiveStops(me) \ {i}
       /\ \A j \in ActiveStops(me') : me'.stops[j] = me.stops[j]
       /\ armed.last_taker = me.last_taker /\ armed.last_trade_price = me.last_trade_price
  <2>1. me'.stops = armed.stops
    BY <1>8, <1>12 DEF Submitted
  <2>2. ActiveStops(me') = ActiveStops(armed)
    BY <2>1 DEF ActiveStops
  <2>3. /\ ActiveStops(armed) = ActiveStops(me) \ {i}
        /\ \A j \in ActiveStops(armed) : armed.stops[j] = me.stops[j]
    BY <1>0, <1>3, <1>5, DisarmedStops DEF EInv
  <2>4. armed.last_taker = me.last_taker /\ armed.last_trade_price = me.last_trade_price
    BY <1>5 DEF Disarmed, SameTrade
  <2> QED
    BY <2>1, <2>2, <2>3, <2>4
<1>15. NoneMissed'
  <2> SUFFICES ASSUME NEW j \in ActiveStops(me'), me'.stops[j].id < me'.last_taker,
                      Triggered(me'.stops[j], me'.last_trade_price)
               PROVE  \E n \in 1..Len(t) : t[n].ltp = me'.last_trade_price /\ t[n].i <= j
    BY <1>12 DEF NoneMissed
  <2>1. j \in Nat /\ 1 <= j /\ j \in Slots /\ j \in ActiveStops(me) /\ j # i /\ me'.stops[j] = me.stops[j]
    BY <1>14 DEF ActiveStops, Slots
  <2>2. CASE r.scan
    <3>1. t[N + 1].ltp = me'.last_trade_price /\ t[N + 1].i = 1
      BY <1>11, <1>12, <2>2
    <3>2. N + 1 \in 1..Len(t)
      BY <1>2, <1>11, <2>2
    <3> QED
      BY <2>1, <3>1, <3>2
  <2>3. CASE ~r.scan
    <3>1. me'.last_taker = me.last_taker /\ me'.last_trade_price = me.last_trade_price
      BY <1>8, <1>12, <1>14, <2>3 DEF Submitted, SameTrade
    <3>2. PICK n \in 1..N : stack[n].ltp = me.last_trade_price /\ stack[n].i <= j
      BY <1>0, <2>1, <3>1 DEF NoneMissed
    <3>3. n \in 1..Len(t) /\ t[n] = calls[n]
      BY <1>2, <1>11
    <3>4. CASE n # N
      <4>1. n \in 1..(N - 1)
        BY <1>2, <3>4
      <4> QED
        BY <1>10, <3>1, <3>2, <3>3, <4>1
    <3>5. CASE n = N
      <4>1. scan.ltp = me.last_trade_price /\ scan.i <= j
        BY <1>2, <3>2, <3>5
      <4>2. me.stops[j].active /\ Triggered(me.stops[j], scan.ltp)
        BY <2>1, <3>1, <4>1 DEF ActiveStops
      <4>3. j \in Hits(scan)
        BY <2>1, <4>1, <4>2 DEF Hits
      <4>4. i <= j
        BY <1>1, <4>3
      <4>5. i + 1 <= j
        BY <1>9, <2>1, <4>4
      <4>6. t[n].ltp = me'.last_trade_price /\ t[n].i <= j
        BY <1>9, <1>10, <3>1, <3>3, <3>5, <4>1, <4>5
      <4> QED
        BY <3>3, <4>6
    <3> QED
      BY <3>4, <3>5
  <2>4. r.scan \in BOOLEAN
    BY <1>8 DEF Submitted
  <2> QED
    BY <2>2, <2>3, <2>4
<1>16. CascadeBounded'
  <2> DEFINE A == ActiveStops(me)
  <2>1. IsFiniteSet(A) /\ Cardinality(A) \in Nat /\ ME_MAX_STOPS \in Nat /\ i \in A
    BY <1>3, PoolBounded, EngineAssumption
  <2>2. N + Cardinality(A) <= ME_MAX_STOPS + 1
    BY <1>0 DEF CascadeBounded
  <2> HIDE DEF A
  <2>3. Cardinality(A \ {i}) = Cardinality(A) - 1
    BY <2>1, FS_RemoveElement
  <2>4. Len(t) + Cardinality(A \ {i}) <= ME_MAX_STOPS + 1
    BY <1>2, <1>11, <2>1, <2>2, <2>3
  <2> QED
    BY <1>12, <1>14, <2>4 DEF CascadeBounded, A
<1> QED
  BY <1>11, <1>12, <1>13, <1>15, <1>16 DEF IInv

(* A scan returns. *)
LEMMA ScanDoneKeeps ==
  ASSUME IInv, ScanDone, UNCHANGED view
  PROVE  IInv'
<1> DEFINE scan == Last(stack)
           N == Len(stack)
           t == Front(stack)
<1>0. /\ EInv(view, me) /\ stack \in Seq(Scanning) /\ stack # <<>> /\ NoneMissed /\ CascadeBounded
      /\ view' = view /\ me' = me /\ stack' = t /\ Hits(scan) = {}
  BY DEF IInv, ScanDone
<1>2. /\ t \in Seq(Scanning) /\ Len(t) = N - 1 /\ N \in Nat \ {0}
      /\ \A n \in 1..(N - 1) : t[n] = stack[n]
      /\ scan = stack[N]
  BY <1>0, ScanPopped
<1> HIDE DEF scan, t
<1>3. NoneMissed'
  <2> SUFFICES ASSUME NEW j \in ActiveStops(me), me.stops[j].id < me.last_taker,
                      Triggered(me.stops[j], me.last_trade_price)
               PROVE  \E n \in 1..Len(t) : t[n].ltp = me.last_trade_price /\ t[n].i <= j
    BY <1>0 DEF NoneMissed
  <2>1. PICK n \in 1..N : stack[n].ltp = me.last_trade_price /\ stack[n].i <= j
    BY <1>0 DEF NoneMissed
  <2>2. n # N
    <3> SUFFICES ASSUME n = N PROVE FALSE
      OBVIOUS
    <3>1. scan.ltp = me.last_trade_price /\ scan.i <= j
      BY <1>2, <2>1
    <3>2. j \in Slots /\ me.stops[j].active /\ Triggered(me.stops[j], scan.ltp)
      BY <3>1 DEF ActiveStops
    <3>3. j \in Hits(scan)
      BY <3>1, <3>2 DEF Hits
    <3> QED
      BY <1>0, <3>3
  <2>3. n \in 1..(N - 1)
    BY <1>2, <2>2
  <2> QED
    BY <1>2, <2>1, <2>3
<1>4. CascadeBounded'
  <2>1. Cardinality(ActiveStops(me)) \in Nat /\ ME_MAX_STOPS \in Nat
    BY PoolBounded, EngineAssumption
  <2>2. N + Cardinality(ActiveStops(me)) <= ME_MAX_STOPS + 1
    BY <1>0 DEF CascadeBounded
  <2>3. Len(t) + Cardinality(ActiveStops(me)) <= ME_MAX_STOPS + 1
    BY <1>2, <2>1, <2>2
  <2> QED
    BY <1>0, <2>3 DEF CascadeBounded
<1> QED
  BY <1>0, <1>2, <1>3, <1>4 DEF IInv
-----------------------------------------------------------------------------
(* The theorems. *)

(* The types of what clients submit. *)
LEMMA ClientTypes ==
  /\ \A k \in Orders : k.type \in {"LIMIT", "MARKET", "IOC", "FOK"} /\ k.qty \in Nat \ {0}
  /\ \A k \in Stops : k.type \in {"STOP", "STOP_LIMIT"} /\ k.qty \in Nat \ {0}
  /\ \A ttl \in Ttls : ttl \in BOOLEAN
  /\ \A p \in Prices : p \in Nat
  /\ \A q \in Amounts : q \in Nat \ {0}
BY ClientAssumption, EngineAssumption

(* Every step of a client, a cascade or the consumer keeps the invariant. *)
LEMMA IInvStep == IInv /\ [Next]_vars => IInv'
<1> SUFFICES ASSUME IInv, [Next]_vars PROVE IInv'
  OBVIOUS
<1>0. EInv(view, me)
  BY DEF IInv
<1>1. CASE UNCHANGED vars
  <2>1. me' = me /\ stack' = stack /\ view' = view
    BY <1>1 DEF vars
  <2>2. NoneMissed' /\ CascadeBounded'
    BY <2>1 DEF IInv, NoneMissed, CascadeBounded, ActiveStops, Triggered
  <2> QED
    BY <2>1, <2>2 DEF IInv
<1>2. CASE RunEvents
  BY <1>2, RunEventsKeeps
<1>3. CASE FireStop /\ UNCHANGED view
  BY <1>3, FireStopKeeps
<1>4. CASE ScanDone /\ UNCHANGED view
  BY <1>4, ScanDoneKeeps
<1>5. ASSUME NEW k \in Orders, NEW s \in Side,
             NEW p \in IF k.type = "MARKET" THEN {0} ELSE Prices, SubmitOrder(k.type, s, p, k.qty)
      PROVE  IInv'
  <2>1. k.type \in {"LIMIT", "MARKET", "IOC", "FOK"} /\ k.qty \in Nat \ {0} /\ p \in Nat
    BY ClientTypes
  <2> QED
    BY <1>5, <2>1, SubmitOrderKeeps
<1>6. ASSUME NEW k \in Orders, SubmitOrder(k.type, "BID", IF k.type = "MARKET" THEN 1 ELSE 0, k.qty)
      PROVE  IInv'
  <2> DEFINE p == IF k.type = "MARKET" THEN 1 ELSE 0
  <2>1. /\ k.type \in {"LIMIT", "MARKET", "IOC", "FOK"} /\ k.qty \in Nat \ {0}
        /\ p \in Nat /\ "BID" \in Side
    BY ClientTypes DEF Side
  <2>2. SubmitOrder(k.type, "BID", p, k.qty)
    BY <1>6
  <2> HIDE DEF p
  <2> QED
    BY <2>1, <2>2, SubmitOrderKeeps
<1>7. ASSUME NEW k \in Stops, NEW s \in Side, NEW p \in Nat, NEW l \in Nat,
             NEW ttl \in BOOLEAN, SubmitStop(k.type, s, p, l, k.qty, ttl)
      PROVE  IInv'
  <2> DEFINE e == me_submit_stop(me, k.type, s, p, l, k.qty, ttl)
  <2>1. k.type \in {"STOP", "STOP_LIMIT"} /\ k.qty \in Nat \ {0}
    BY ClientTypes
  <2>2. EInv(view, e) /\ StopsKept(e, me)
    BY <1>0, <2>1, SubmitStopKeeps
  <2>3. Call(e)
    BY <1>7 DEF SubmitStop
  <2> HIDE DEF e
  <2> QED
    BY <2>2, <2>3, CallKeeps
<1>8. ASSUME NEW i \in Slots, CancelStop(i) PROVE IInv'
  <2> DEFINE e == me_cancel_stop(me, me.stops[i].id)
  <2>1. EInv(view, e) /\ StopsKept(e, me)
    BY <1>0, CancelStopKeeps
  <2>2. Call(e)
    BY <1>8 DEF CancelStop
  <2> HIDE DEF e
  <2> QED
    BY <2>1, <2>2, CallKeeps
<1>9. ASSUME NEW due \in SUBSET Slots, ExpireOrders(due) PROVE IInv'
  <2> DEFINE e == me_expire_orders(me, due)
  <2>1. due \subseteq ActiveStops(me) /\ Call(e)
    BY <1>9 DEF ExpireOrders
  <2>2. EInv(view, e) /\ StopsKept(e, me)
    BY <1>0, <2>1, ExpireKeeps
  <2> HIDE DEF e
  <2> QED
    BY <2>1, <2>2, CallKeeps
<1>10. ASSUME NEW o \in me.resting, CancelOrder(o) PROVE IInv'
  <2> DEFINE e == me_cancel_order(me, o)
  <2>1. EInv(view, e) /\ StopsKept(e, me)
    BY <1>0, CancelOrderKeeps
  <2>2. Call(e)
    BY <1>10 DEF CancelOrder
  <2> HIDE DEF e
  <2> QED
    BY <2>1, <2>2, CallKeeps
<1>11. ASSUME NEW o \in me.resting, NEW p \in Prices, NEW q \in Amounts, ModifyOrder(o, p, q)
       PROVE  IInv'
  <2> DEFINE e == me_modify_order(me, o, p, q)
  <2>1. p \in Nat /\ q \in Nat \ {0}
    BY ClientTypes
  <2>2. EInv(view, e) /\ StopsKept(e, me)
    BY <1>0, <2>1, ModifyOrderKeeps
  <2>3. Call(e)
    BY <1>11 DEF ModifyOrder
  <2> HIDE DEF e
  <2> QED
    BY <2>2, <2>3, CallKeeps
<1>12. CASE Client
  <2>1. ASSUME NEW k \in Stops, NEW s \in Side, NEW p \in Prices, NEW ttl \in Ttls,
               NEW l \in IF k.type = "STOP" THEN {0} ELSE Prices,
               SubmitStop(k.type, s, p, l, k.qty, ttl)
        PROVE  IInv'
    <3>1. p \in Nat /\ l \in Nat /\ ttl \in BOOLEAN
      BY ClientTypes
    <3> QED
      BY <1>7, <2>1, <3>1
  <2>2. ASSUME NEW k \in Stops, SubmitStop(k.type, "BID", 0, 0, k.qty, FALSE)
        PROVE  IInv'
    <3>1. "BID" \in Side /\ 0 \in Nat /\ FALSE \in BOOLEAN
      BY DEF Side
    <3> QED
      BY <1>7, <2>2, <3>1
  <2>3. InBound(Orders) \subseteq Orders /\ InBound(Stops) \subseteq Stops
    BY DEF InBound
  <2> QED
    BY <1>5, <1>6, <1>8, <1>9, <1>10, <1>11, <1>12, <2>1, <2>2, <2>3, Zenon DEF Client
<1> QED
  BY <1>1, <1>2, <1>3, <1>4, <1>12 DEF Next, Cascade

(* The invariant: the types of the engine, ids and times handed out once,   *)
(* the pending events bridging what the consumer knows and the book, the    *)
(* cached top of book, and every triggered stop ahead of a scan.            *)
THEOREM EngineInvariant == Spec => []IInv
BY InitIInv, IInvStep, PTL DEF Spec

(* Whoever has been handed every event knows which orders rest, with which  *)
(* quantity, and which stops are dormant, whatever a cascade emitted.       *)
THEOREM EventsTell == Spec => []EventsTellTheBook
<1>1. IInv => EventsTellTheBook
  <2> SUFFICES ASSUME IInv, Ready, me.dropped = 0
               PROVE  /\ view.stops = {me.stops[i].id : i \in ActiveStops(me)}
                      /\ DOMAIN view.orders \ me.lost = {o.id : o \in me.resting}
                      /\ \A o \in me.resting : view.orders[o.id] = o.qty
    BY DEF EventsTellTheBook
  <2>1. Learnt(view, me.eq) = view
    BY LearntNothing DEF Ready
  <2>2. Knows(view, me.resting, me.lost) /\ view.stops = StopIds(me)
    BY <2>1 DEF IInv, EInv, Informed
  <2> QED
    BY <2>2 DEF Knows, Ids, StopIds
<1> QED
  BY <1>1, EngineInvariant, PTL

(* The last top of book told is that of the book, unless a modification     *)
(* lost an order.                                                           *)
THEOREM TopTold == Spec => []TopOfBookTold
<1>1. IInv => TopOfBookTold
  <2> SUFFICES ASSUME IInv, Ready, me.dropped = 0, me.lost = {} PROVE view.tob = me_top_of_book(me)
    BY DEF TopOfBookTold
  <2>1. Learnt(view, me.eq) = view
    BY LearntNothing DEF Ready
  <2>2. view.tob = me.last_tob
    BY <2>1 DEF IInv, EInv, Informed
  <2>3. me.last_tob = me_top_of_book(me)
    BY DEF IInv, EInv, TopKept
  <2> QED
    BY <2>2, <2>3
<1> QED
  BY <1>1, EngineInvariant, PTL

(* A cascade that has ended leaves no older stop that its last trade        *)
(* triggers.                                                                *)
THEOREM NoneLeftBehind == Spec => []NoStopLeftBehind
<1>1. IInv => NoStopLeftBehind
  <2> SUFFICES ASSUME IInv, stack = <<>>, NEW i \in ActiveStops(me), me.stops[i].id < me.last_taker,
                      Triggered(me.stops[i], me.last_trade_price)
               PROVE  FALSE
    BY DEF NoStopLeftBehind, Idle
  <2>1. \E n \in 1..Len(stack) : stack[n].ltp = me.last_trade_price /\ stack[n].i <= i
    BY DEF IInv, NoneMissed
  <2> QED
    BY <2>1
<1> QED
  BY <1>1, EngineInvariant, PTL

(* The recursion of check_stops is bounded by the stop pool.                *)
THEOREM RecursionBounded == Spec => []CascadeBounded
<1>1. IInv => CascadeBounded
  BY DEF IInv
<1> QED
  BY <1>1, EngineInvariant, PTL

(* IOC and FOK orders never rest, and a FOK order is filled or not at all.  *)
THEOREM ImmediateNeverRest == Spec => []ImmediateOrdersDoNotRest
<1>1. IInv => ImmediateOrdersDoNotRest
  <2> SUFFICES ASSUME IInv, NEW k \in 1..Len(me.eq),
                      me.eq[k].type \in {"ACCEPTED", "PARTIAL", "FILLED", "CANCELLED"}
               PROVE  /\ me.eq[k].order_type \in {"IOC", "FOK"} =>
                           me.eq[k].type \in {"FILLED", "CANCELLED"} /\ \A o \in me.resting : o.id # me.eq[k].id
                      /\ me.eq[k].order_type = "FOK" => me.eq[k].qty_filled = me.eq[k].qty_original
    BY DEF ImmediateOrdersDoNotRest
  <2>1. Sound(me.eq[k], me.resting, me.next_order_id)
    BY DEF IInv, EInv, AllSound
  <2> DEFINE ev == me.eq[k]
  <2>2. ev.id \notin Ids(me.resting) => \A o \in me.resting : o.id # ev.id
    BY DEF Ids
  <2> QED
    BY <2>1, <2>2 DEF Sound
<1> QED
  BY <1>1, EngineInvariant, PTL
==============================================================================
